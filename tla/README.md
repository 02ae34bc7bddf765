# A TLA+ verification of CHZOS

CHZOS is a 32-bit protected-mode operating system for one x86 CPU: a kernel with
a shell, processes and threads that share one address space, semaphores, a FAT12
file system, three consoles, and a handful of user programs. This directory
holds TLA+ models of it, TLC configurations that check them, and proofs that
TLAPS checks. Paths in this file are relative to `src/`.

- [The system](#the-system)
- [Modules](#modules)
- [How the models follow the code](#how-the-models-follow-the-code)
- [Runs](#runs), [bounds](#bounds), [fairness](#fairness)
- [What does not hold](#what-does-not-hold)
- [Proofs](#proofs)
- [What is not modelled](#what-is-not-modelled), [plan](#plan)

## The system

| Component | State | Operations | Talks to |
|---|---|---|---|
| Process table and scheduler (`include/task.h`) | `proc_list`: status, pid, parent, next, tick, terminal, saved registers; `curr_proc`, `curr_pid` | `proc_create`, `do_fork`, `do_wait`, `do_exit`, `wakeup`, `schedule_proc`, the timer handler | everything below |
| Threads (`include/systhread.h`) | the same table | create, join, exit, self (int 0x81) | scheduler |
| Semaphores, mutexes (`include/semaphore.h`) | `sem_list`: val, used, head; the `next` link of the PCB | get, P, V, free (int 0x80, 20 to 23) | scheduler |
| Shell and `exec` (`include/terminal.h`, `include/user.h`, `include/elf.h`) | the command being executed; the memory that programs are loaded to; the interrupt flag | the command loop; `exec_user_prg`; `user_process_return` (int 0x80, 100) | scheduler, FAT12, keyboard |
| Consoles (`include/terminal.h`) | three terminals with screen copy, cursor and path; `curr_terminal`, `tmp_terminal` | `change_terminal`, `set_tmp_terminal` | keyboard handler, scheduler, screen |
| Keyboard (`include/keyboard.h`) | `kb_char`, a mailbox of one character; `__ctrl` | interrupt handler, `getchar` | stdio, consoles |
| Screen and stdio (`include/stdio.h`) | cursor, video memory | print, scroll, `getline`, `printf` | consoles |
| FAT12 (`include/fat12.h`) | FAT, root directory, current directory and path | read, create, delete, copy, change directory | disk |
| Files (`include/sysfile.h`) | `file_list`: mode, buffer, position | open, close, read, write (int 0x82) | FAT12 |
| Kernel stack and TSS (`include/tss.h`) | `esp0` | set at `exec` and at every switch | scheduler |
| Strings and formats (`include/string.h`, `include/stdio.h`) | the caller's memory | `strsep`, `strcpy`, `reverse`, `itoa`, `sprintf`, `sscanf` | shell, FAT12 |
| Disk (`include/ide.h`) | the controller's status; its interrupt request | `readsect`, polled | FAT12 |
| Descriptor tables, PIC, PIT, exceptions (`include/gdt.h`, `idt.h`, `pic.h`, `pit.h`, `exception.h`, `hal.h`) | GDT, IDT, `pit_ticks` | set-up; default and exception handlers | everything |
| Boot loader (`bootloader.asm`) | | loads the kernel | |
| User programs (`usr/`) | their globals, shared by all their processes | system calls | all of the above |

What is hard here:

- **Interleaving.** The timer takes the CPU from a process between any two of its
  instructions, and forked processes share their globals: there is one address
  space, so `fork` is a thread creation with a copied stack.
- **Handlers that do not return.** `proc_switch` leaves by `restart_proc`. The
  rest of the caller, C code up to the handler, is never executed; only when
  `schedule_proc` finds nothing READY does the call come back.
- **Blocking that does not block.** With nothing READY, `wait` and `sem_wait`
  return at once, with the caller on the CPU and WAITING in the table.
- **A shell that is no process.** Nobody saves its registers. The first switch to
  a process ends what it was doing.
- **Wake-ups are not remembered.** `exit` wakes the parent only if it is WAITING.
- **The table only grows.** Slots of ended processes are not used again.
- **Interrupts in the shell.** The shell echoes, changes directory and reads the
  disk with interrupts on, and the keyboard handler changes the globals it works
  with.

What makes each component correct:

- scheduler: one RUNNING process, the one on the CPU; nobody is picked or
  allocated twice; others move along the five-state diagram above `PROC_STATUS`
  only; nobody READY waits forever;
- semaphores: they count; a signal releases exactly one waiter; nobody is lost;
- programs: mutual exclusion, no lost update, no deadlock, the result is
  complete when it is printed, main comes to its end;
- shell: it excludes the processes; it runs all programs of its list, each with
  its own code; it can be typed at;
- keyboard: every key is delivered once, or it is known which are lost;
- kernel stack: it stays where it was set aside;
- consoles: what is shown is what was written to that terminal;
- FAT12: chains are disjoint, end, and account for every cluster;
- files: what was written is read; a slot carries nothing over to its next file;
- boot: no interrupt comes before its handler is in, and the prompt comes;
- text: a word is where it was found, a name is what was typed, and what was
  printed can be read.

## Modules

    Task                      process table, scheduler, threads, timer
     +- Semaphore             semaphores on top of Task       --implements--> CountingSemaphore
     |   +- Program           what the user programs share
     |       +- Mutex         contenders for mutex_lock
     |       +- Bank          usr/bank.c                      --implements--> AtomicBank
     |       +- MatMul        usr/matmal.c
     |       +- ProCon        usr/pro-con.c
     |       +- Fruit         usr/fruit.c
     |       +- MCPrograms    all five, each in behaviours of its own
     +- Exec                  shell, exec, program loading    --implements--> Task
         +- KernelStack       esp0 under Exec
    Terminal                  consoles, cursors, scrolling
     +- Console               keyboard, line editor, shell loop, output of processes
    Fat12                     FAT, directories, cd, rm, cp, write
     +- SysFile               open files of processes
    Encodings                 descriptors, gates, sector numbers, FAT entries, dates
     +- Boot                  set-up of the machine under interrupts
    Strings                   string.h as functions on memory
     +- CommandLine           words, paths and 8.3 names
     +- Stdio                 sprintf and sscanf
    TaskProofs, SemaphoreProofs, ProgramProofs, ExecProofs,
    FilesProofs, ConsoleProofs, BootProofs, TextProofs         theorems
    MC...                                                     what TLC instantiates

`Semaphore` implements `Task` too: `SemSpec => TaskSpec` and `ExecSpec =>
TaskSpec` are proved (and checked, the first with one waiter at a time), so that
what is shown of the table alone holds of the table under its users.

The modules below `Task` share nothing with those around `Terminal`, `Fat12` and
`Strings` but a few facts, each repeated where it is used: the shell is lost at a
switch, the kernel prints for a process with interrupts off, a disk read turns them on.

Operators whose comment starts with "Faulty" are used by no specification. Each is a mutated form of the definition behind it, a slip that
could happen in that code, and TLC finds a property violated when it is put in
place of the original; `PROJECT.json` lists which.

## How the models follow the code

**One step per handler.** Every gate of the kernel starts with `cli` and leaves
with `iretd`; no handler modelled here lets a tick in before it has changed the
table for the last time. Each call and each tick is thus one action, whole: `do_sem_p` contains
the `do_wait` it ends in, and that the `schedule_proc`. A C function that others
call when the table is already changed takes the changed statuses as an argument
(`schedule_proc(st)`, `wakeup(st, p)`), and fixes the primed variables.

**State.** `status`, `pid`, `parent`, `tick` and `next` are the fields of
`proc_list`, indexed by slot; a `process*` is a slot or `NULL`. `curr_proc` and
`curr_pid` are the globals; `val`, `used` and `head` are `sem_list`. The saved
registers are abstracted to a program counter `pc` in the models of programs: a
caller that is switched out is behind its `int` instruction when it comes back
(`save_proc`, `restart_proc`).

**Undefined behaviour.** `do_sem_v` reads `head->pid` without a test. For an
empty head the model lets it be any value `wakeup` could tell apart
(`head_pid`). `proc_create` on a full table fills in a PCB at address 0 and goes
on: the table is unchanged.

**Programs.** Between two calls a program is split where it touches memory it
shares: `bank_account += 10` is a load and a store, the words of `fruit.c` are
unreadable while `strcpy` writes them. Loops run forever where the program's do.
Other programs of the same `exec` (`Background`) compute and may return; they
are `.com` programs, because all `.out` programs are loaded at the same address.

**Shell.** `shell` says how far `exec_user_prg` is, `intr` is the interrupt flag:
`disable()` at its start, `enable()` behind every sector read
(`include/fat12.h:330`), `disable()` in `proc_create`. `mem` holds which program
lies at each load address, `image` which program a process was created to run.

**Kernel stack.** `esp0` is `tss.esp0` and `esp` the stack pointer of the shell, in
bytes. Each action of `Exec` moves them by what its gate pushes (the sizes are
those of `kernel_entry.asm`) and by the least that the C calls down to
`proc_switch` take. A process is interrupted in user mode only: the few
instructions of a handler behind `enable()` are left out.

**Consoles.** The console on the screen lives in the video memory, `VIDEO`; the
others, and the screen when one goes into the background, in their own buffers.
`get_terminal_buf_addr` chooses by `curr_terminal` and `tmp_terminal`, as in the
code. A cell shows the number of a key that was typed, or one of a few marks, so
that a property can tell where each character came from. The shell runs with
interrupts on: `putchar` is split where it reads the address, reads the cursor,
writes, and scrolls, and any key comes in between, Ctrl-F keys included.
`getchar` empties the mailbox, polls it and empties it again, in three steps.
Two things that a key could come into are one step for simplicity: the scrolling of all
rows, and `curr_dir` with the text of the path in `fat12_set_dir`, of which
`Console` has only the directory.

A process has two ways to the screen. The kernel prints for it by int 0x80 with 0
or 1, interrupts off: `process_prints`, one step for each character. In ring 3
it writes to the video memory and the cursor registers, whatever console is
shown and with interrupts on: `process_draws`, one cell or one move of the cursor
at a time. The `.com` programs do that by `show.inc`, and so does the `putchar` in the
`.out` files of `mydisk.hdd`, which were built with an older `stdio.h`. The `stdio.h`
of the sources calls `get_terminal_buf_addr` and `get_cursor`, which only the
kernel defines.

**File system.** A directory entry is a name, a first cluster, a length and the
directory bit; a name is a value of its own and the text of names is in
`CommandLine`. `fat12_create_file` is one function from the old FAT to the new one
(`linked`): the clusters the loop passes, each linked to the next. It is whole, with
its ends: too few clusters, no free entry, a length of 0. The root directory and
the FAT are in memory only, for good; subdirectories are constants, because the
code reads them from the disk at every look and never writes them. `fopen` is cut
in two where reading a subdirectory lets the timer in (`opening`).

**Boot.** `pc` is the next step of `hal_initialize`, `initialize` and `main`.
Devices make requests at any time, and interrupts are taken by priority when
`intr` allows. The tables hold what `Encodings` makes of real addresses, and an
interrupt goes where the gate's two halves lead. A handler that loops is `hung`.

**Text.** Memory is a sequence of characters with `NUL`s; addresses are indices.
`strsep`, `strcpy` and `reverse` work in place as the code does, so that a token
that is overwritten by a later call is seen to be. Ints have `W` bits and wrap.

## Runs

Passing:

| Run | Shows |
|---|---|
| `task` | any calls of any processes: types, `OneRunning`, `CurrNotReady`, `PidOfSlot`, `ParentOlder`; processes off the CPU move along the diagram only (`OffCpuStep`); who blocks and keeps the CPU had no successor (`BlockedYields`) |
| `semaphore` | any processes with one waiter at a time on each semaphore: value and queue agree (`QueueExact`), the semaphores implement counting semaphores call by call, in which only a Get of an unused semaphore sets tokens, V hands its token to exactly one waiter, and who is queued and released is blocked and woken in the process table (`CountingSemaphores`); and they leave the table to its handlers (`TaskSpec`) |
| `programs` | every program that uses semaphores or threads, one in each behaviour, beside others: exclusion (`MutualExclusion`); no contender lost (`NobodyLost`); who sleeps in `sem_wait` is woken by a signal of its semaphore only (`SleepsUntilSignal`); `wait` comes back only when the child is done, even when it comes back for want of anything READY (`WaitedForChild`); the product is complete when it is printed although joins do not look at their threads, and only complete wishes are printed (`PrintsWhole`); `tot` is the stock at every step, so nothing is consumed before it is produced (`StockExact`); `bank.c` implements a bank whose rounds are atomic (`NoLostUpdate`); nothing on the plate is replaced unused (`NothingOverwritten`); main ends if its children or threads are left alone (`ReturnsIfAlone`); contenders enter, READY processes run, the father keeps printing (`NobodyStarves`) |
| `exec` | shell and processes exclude each other; a list is cut short only behind a file read and only by a process that was READY; a process finds a whole program at its address, its own unless both are `.out` programs (`ImagesLoaded`); the table changes by its handlers only |
| `files` | until disk and root directory are full: chains never turn back (`ChainsAscend`), have the length of their file and share nothing (`SoundChains`), the prompt's path leads to the current directory (`PathResolves`), a name keeps its file until that is removed (`NameStable`); an `fopen` that fails costs no entry of the file table (`FilesAccounted`), and no entry has two owners unless two calls meet in a subdirectory (`OwnFile`) |
| `console` | `getchar` returns no key from before it was called and a line holds its keys in order, none twice (`FreshKeys`); what will be executed stands before the cursor, whatever was typed, erased and scrolled (`LineShown`); what the kernel prints for shell and processes changes the cells and the cursor of no console but their own, and `cd` the directory of no console but the one it was given on (`ConsolesApart`). The exceptions are named in the property: a character torn by a switch, what processes draw on the console that is shown, a `cd` that a switch has come into, and a switch while a process runs or the shell is not on the screen |
| `boot` | whenever interrupts are on, each vector has a present kernel gate to a real handler and user mode can call the three system gates only (`GatesReady`); a device stops the boot only before its handler is in, the disk never (`StopsOnlyInHal`); otherwise the prompt comes (`Boots`) |
| `text` | words of a line stay readable and make up the line (`WordsMakeUpLine`), the prompt shows the directories that `cd` went through, in the root `/` or the `/.` of the unused entry (`PathShowsDirectories`), a file answers to the name it was copied to, cut to 8.3 (`NamesFound`), `sscanf` gets back what `sprintf` wrote, negative numbers too (`ScanReadsPrint`) |

`exec`, `kernel_stack` and `text` set `CHECK_DEADLOCK FALSE`: after a failed exec
the system may stop for good (see below), and a format or a session of `text`
comes to its end. The other runs check for deadlock.

### Bounds

- `MAX_PROCESS` is 3 to 5 for 20. Four slots fill the table, give a process a
  grandparent, and let two READY processes compete while a third is blocked.
  The programs get a slot for each of their processes.
- `MAX_TICK` is 1 as in the source.
- `N_SEMAPHORE` is what the program uses, 1 or 2 otherwise. `InitVals` are the
  values the programs ask for. `MaxDown` and `MaxUp` bound `val` in `SemNext`:
  two waiters and two tokens. The models of programs need no such bound, except
  for `MaxStock` in `ProCon`, whose producer could get ahead forever: at 2 the
  consumer can find the stock empty, at one, and at its bound.
- `Deposits` 3 and `Withdrawals` 2 for 100 and 50: either side can overtake the
  other within its rounds. `MAX` is 7 rows for 6, so that the threads do not
  divide them evenly.
- `MaxPrograms` is 2, from one `.com` and two `.out` programs, in a table of 3:
  an `exec` can find processes of an earlier one, and the table full.
- `kernel_stack` has one process and the stack at its size in the source.
- `files`: seven clusters of two bytes, two of them free, and two root entries
  that were never used, so that disk and directory fill up in either order; a
  directory in a directory; one file of two clusters; a name that is in the root
  and in a subdirectory. Two entries of the file table for 10, two processes and
  `MaxOpens` 2 calls of `fopen`: both entries can be taken and two calls can meet.
  The processes are symmetric.
- `console`: three consoles as in the source, so that there is one besides the
  shell's and the user's; screens of two rows of two cells for 25 by 80, which
  a line of `MaxKeys` 3 characters makes scroll more than once; `MaxSwitches` 2 is
  away and back or on to the third. Two symmetric processes, which draw at the first
  cell (`Drawn`).
- `boot`: `MaxSectors` 2 lets the loop of sectors turn; `MaxTicks` 3 lets
  `pit_ticks` wrap.
- `text`: `NAME_LEN` 2 and `EXT_LEN` 2 for 8 and 3, with names of up to five and
  extensions of up to three characters, so that either overflows its field by one
  and by more; `PATH_LEN` 10 for 50, room for four directories; formats of `MaxPieces` 4 pieces; `Spaces`
  1 blank more than the format has; `W` 4, so that both ends of the range occur.

The theorems below do not depend on any of these.

### Fairness

`WF` of the timer: the PIT is free-running, and interrupts are on whenever a
process runs. `not_round_robin` assumes this alone. A program also needs its
instructions executed: `SF(curr_proc = i /\ Step)` says that a process that gets
the CPU again and again does not forever lose it before its next instruction. It
has to be strong because the step is disabled whenever another process runs; a
slice is thousands of instructions long, so the CPU does execute them. No
fairness is put on programs that may end (`other_return`), on what the user
types, or on the success of a disk read.

`boot` assumes `WF` of the CPU going on with `main` while no interrupt is taken
and of the disk answering a command. Nothing is assumed of timer and keyboard.

## What does not hold

Each of these runs checks one property that the repository states, and TLC shows
how the code violates it.

| Run | Stated | What happens |
|---|---|---|
| `three_contenders` | P/V support (`README.md:86`) | `do_sem_v` takes the new head from `curr_proc->next` (`semaphore.h:52`) instead of the `next` of the process it takes from the queue. With two processes queued, one is lost: it stays WAITING with the mutex free |
| `bank_waits` | `wait` is "wait for child process" (`task.h:449`) | with another program running, the child of `bank.c` can exit first; its wake-up finds nobody, and then `wait` blocks forever |
| `not_round_robin` | round-robin scheduling (`README.md:89`, `task.h:316`) | after a call that blocks, nobody is RUNNING and the scan starts at slot 0: two processes that wake each other starve a third that is READY. Only the timer's fairness is assumed |
| `kernel_stack` | "Use a 2kb kernel stack" (`tss.h:14`) | `proc_switch` makes its own esp the next `esp0` (`task.h:295`) and is never returned from: each switch, even from a process to itself, moves the stack down by at least 92 bytes. For a single process 22 switches take 2024 bytes; the 23rd leaves the 2 KB, and it goes on |

More of the kind follows from the same models, without a run of its own.

Processes:

- `exec_user_prg` sets `esp0` to 2 KB above the shell (`user.h:35`), but the switch
  that starts the first process sets it again, below the shell: what was set
  aside is not used.
- All `.out` programs are loaded at one address (`user.h:50`): the second one of a
  list replaces the first before it ran. `ImagesLoaded` says that this is the
  only case.
- `exit` comes back if the parent is not waiting, and the child of `bank.c` goes
  on to call `wait` as a TERMINATED process, which the diagram above
  `PROC_STATUS` does not have (`usr/bank.c:31-33`, the step `exit` of `Bank`).
- `exit` wakes a parent that is WAITING without asking for what (`task.h:468`): one
  that is blocked in `sem_wait` goes on without a token while the queue
  still holds it. `SleepsUntilSignal` says that the programs of `usr/` never come to this;
  programs that may do anything do (it does not hold of `SoloSpec`).
- `pthread_join(threads[0])` comes back when any thread ends, since
  `do_thread_join` does not look at its argument; `programs` shows that the product
  is complete nevertheless once all three joins are back.
- A tick behind a sector read of `exec` switches to a READY process of an earlier
  program, and the rest of the list is lost. `CutOnlyWhileLoaded` says that
  nothing else loses it.
- The error returns of `exec_user_prg` leave interrupts disabled: the prompt
  never gets a key (`load_fails` of `Exec`).

Files:

- `fat12_del_fat_entry` clears memory at the address that each link happens to be
  (`fat12.h:406`): the clusters of a removed file are never free again.
- A file of length 0 needs no cluster, but the count of `fat12_create_file` has
  left 0 behind at the first one: it takes every free cluster and has no end mark
  (`short` of `Fat12`). A file that finds too few clusters is not refused either.
- A new file of a name that exists gets an entry behind the old one and is never
  found; `NameStable` says that the old one stays whole.
- `fclose` does not reset `pos` (`sysfile.h:76`): the next file of the slot starts
  behind the data of the last one. The files of a process that ends stay open.
- Two calls of `fopen` that meet in a subdirectory get the same slot (`cut`).
- `cd` goes to anything that `fat12_find_entry` finds, a file too, and to the
  unused entry that reads as "."; so it can be in "cluster 0". A second `cd .` leads
  from there to the root again, with the prompt still at `/.`
  (`PathShowsDirectories` allows that text in the root only). A subdirectory in cluster
  19 would be taken for the root (`ROOT`).

Consoles and keyboard:

- Ctrl-F while a process runs clears and positions the console of the process, not
  the new one (`terminal.h:188-194`). The repository's README says that consoles
  are static only, so this is a limit and no finding.
- The echo of a key that a Ctrl-F interrupts goes to the old console and its cursor
  to the new one (`torn`); a backspace after it can step back over the start of
  the line. `cd` that is interrupted so changes the directory of the new console
  (`fat12_set_dir` of `Console`); `ConsolesApart` excepts it by name.
- A key typed while no `getchar` is waiting is lost; so is the first of two keys
  typed before it looks.

Boot and text:

- `load_idt` turns interrupts on with the default handlers in place: a tick or a
  key before `hal_initialize` is done stops the machine (`hung`).
- A `cp` to a name without a dot, and a command without its argument, go on with a
  null pointer. A name over 8 characters runs into the extension, an extension
  over 3 into the attribute byte, whose directory bit it may set.
- `printf` writes a negative number as a large unsigned one, with `%d` too. A
  single `%` at the end of a format is read past; `sscanf` moves by an unset
  offset at a conversion it does not know.
- `sscanf` does not get back an empty word that `sprintf` wrote between two blanks of a
  format: the first of them passes both. A file that was copied to a name with a
  blank is not found under it, because blanks fill the fields of a name.
  `Separated` and `NamesFound` leave these two out.

## Proofs

Eight modules of theorems are checked by TLAPS. They hold for every value of the
constants that the named assumptions allow, so none of the bounds above matters.
Each safety property and each action property that a passing run checks is such
a theorem, but for `SleepsUntilSignal`.

### Assumptions

| Assumption | Says | Because |
|---|---|---|
| `TableAssumption` | 1 to 255 slots | `wakeup` takes a `uint8_t` |
| `SemaphoreAssumption` | there is a semaphore; they start at natural numbers | `sem_list`, the calls of `get_sem` in `usr/` |
| `ProgramsAssumption` | the table has a slot for each process and thread of the program and of those beside it; `fruit.c` has its four semaphores and `pro-con.c` its two | the source has 20 slots and 100 semaphores |
| `ExecAssumption` | a program is a `.com` or an `.out` one; the ELF file in `bin_img` is no `.com` program | load addresses, `user.h:36-50` |
| `FatAssumption`, `DiskAssumption` | the disk is in order: links lead upwards, the chains of its files have their length, are allocated and share nothing, unused entries come last | `mkfs` and copies to a fresh disk |
| `TreeAssumption` | the directories are a tree, with "." and ".." first and unique names in the root; none is in cluster 19; names that are typed begin neither with 0 nor with 0xE5 | the format of FAT12; the keyboard sends ASCII |
| `SysFileAssumption` | sizes are natural numbers | |
| `TerminalAssumption` | a row has two cells or more: the prompt and the cursor behind it | 80 in the source |
| `ConsoleAssumption` | a console that no process runs on is told from those of processes; bounds are natural numbers | |
| `BootAssumption` | handlers have addresses, all different and none of them 0; there is a sector to read, and `pit_ticks` has a width | the linker |
| `WordAssumption` | an int has a width `W`; `2 ^ W` is twice `2 ^ (W - 1)`, which is a positive number | arithmetic: the provers know nothing of powers |
| `CharAssumption` | `NUL` is no character; blank, dot, slash, newline, digits and letters are | ASCII |
| `LineAssumption` | lines are of characters; fields of a name are not empty, `curr_path` holds a character and its `NUL`; `NUL` has no bit set | the keyboard; `fat12.h:55` |
| `CallsAssumption` | a format is of characters; if `sscanf` knows all its conversions, each has an argument of its type | the callers of `sprintf` and `sscanf` |

TLC evaluates each of them on the instance it checks. None says anything of a
state that the system reaches later.

### Task

`TaskInv` is the conjunction of the five invariants of the run `task`,
and is inductive as it stands; none of them is alone. That a picked process is
never on the CPU already needs `OneRunning`; that `proc_switch` keeps
`OneRunning` needs it for the old process and `CurrNotReady` for the new one;
that `wakeup` finds at most one process needs `PidOfSlot`; and that `fork` keeps
`ParentOlder` needs to know that the caller is in a lower slot than the one it
allocates, which `PidOfSlot` and `CurrNotReady` say together. The lemmas follow
the calls: what `proc_pick` returns (`PickedProcess`), what `schedule_proc` does
to any consistent table (`Scheduled`), what `wakeup` does (`Woken`), and for each
handler one lemma that it keeps `TaskInv` and one that says what it does to
statuses and to the CPU, which the proofs above it cite. `OffCpuSteps` and
`BlockedYield` are action properties that follow from the same invariant.

### Semaphore

`SemImplementsTask`: every semaphore operation is a handler of
`Task` or leaves the table alone. `OneWaiterQueueExact`: under `SoloSpec` the
link that `do_sem_v` follows is always null, and so is the right one; hence value
and queue agree (`QueueInv`). `SignalsRelease` holds for any number of waiters: a
signal releases the head of the queue, however the links are broken.
`SoloIsCounting` is the refinement. The abstract state is which semaphores are in use, their tokens, who is queued at each by the links, and who is
blocked by the process table. A step gets a semaphore that is not in use, the only
one that sets tokens; or frees one; or is a P of the caller, which takes a token
or is queued and blocked; or a V, which hands its token to exactly one
queued process and wakes it, or keeps it if there is none; or touches no semaphore
(`Elsewhere`: waits, and exits with the wake-up they give, which may reach a queued
parent). `CallsCount` adds which call is
which: every `do_sem_p` is a P and every `do_sem_v` a V, so that a miscount passes
for neither. This is why the programs in `usr/` work.

### Programs

`ProgramInv` has one invariant for each program, each on top of `Base`: the kernel's
invariants and who has which place in the program.

- `MutexInv`: the value of the mutex is 1 less the number of contenders between P
  and V, those asleep included, and at most one of them is awake.
  `ProgramsExclude` follows for any number of contenders, although the queue
  loses some of them from three on: exclusion does not depend on the queue. With
  two, `DuoInv` adds that who waits is the head of the queue: `NobodyIsLost`, which has
  `N <= 2` as its hypothesis because `three_contenders` refutes it for 3.
- `BankInv`, `ProInv`, `FruitInv` count the tokens of each semaphore by the places of
  the processes. For `bank.c` it also follows where the parent is when the child
  has rounds left: `ParentWaits`. `AccountIsAtomic` maps each step of the bank to a
  whole deposit, a whole withdrawal or a stutter; what is between a load and its
  store is added to the abstract account. `StockIsExact` is a conjunct of `ProInv`.
- `FruitTokens` says what lies on the plate by the four semaphores together; hence
  `NothingIsOverwritten` and half of `PrintedWhole`.
- `MatRows` says that a row is computed, once, when its thread is behind `multiply`,
  `MatJoins` that no more joins have come back than threads have ended;
  `BelowQuotient` is the lemma about the division of the rows. Hence the product is complete, for any number of rows and
  threads.

`MCPrograms` runs the bank beside two programs, and the theorems about it hold for
those; all others for any number of programs beside.

### Exec

`ShellInv` adds to `TaskInv` where the shell may be with interrupts
off and with programs left to create. `ShellXorProcess`, `ExecImplementsTask` and
`CutWhileLoaded` follow. The second needs that a switch from the shell finds a
READY process, which is again `OneRunning`. `ImageInv` adds types, and that every
process was created behind the load of its program: `ProcessesHaveImages` holds of all
processes, because a later load goes to another address or puts an `.out` program over an
`.out` program.

### Files

`FileSystemInvariant`: `FatInv`, which is
`FatTypeOK` and `ChainsAscend`, and the types of the file table (`TableOK`) are
inductive together: `fclose` writes a file of the length that the table says.
`LinkedUpwards` is the lemma about `fat12_create_file` whatever it finds free.
`ChainsEnd`: no chain turns back, so that every loop over `fat12_next_sector` ends.

`TableInv` adds `CutCalls`: a call of `fopen` that was cut is in a subdirectory and
has an entry that is still free, its own until two calls meet. Without it neither
`FilesAreAccounted` nor `FilesHaveOneOwner` is inductive.

`DiskInv` says of the entries that are in use (`Kept`) that their chains lead over
clusters that are taken, and that unused entries come last. `SoundChains` alone is not inductive:
`fat12_create_file` leaves a chain alone only if no cluster of it is free, and a
name alone only if the entry it fills is behind. The chains of directories and of deleted
files count too, since their clusters stay taken. `ChainLeast` says that
`clusters_from` is the least set with the first cluster that is closed under links,
`ChainKept` that it depends on the links within it only, `NewChain` that a new
file gets the `n` first free clusters. `ChainsAreSound` and `NamesAreStable` follow,
the latter with `NamesGiven`: a file has a name before it is written.

`PathInv` says that the path names the directories from the root to the current
one, one by one (`Route`): `cd ..` needs the whole list, since the directory that
is then current must be named by what is left of the path. It also says that entries
of directories in the root are those of the disk, for which directories must
never be free. `PathLeadsHere` follows.

Both `clusters_from` and `Resolve` are functions by recursion over numbers. `AllNumbers` (induction
for a set of numbers, from `LeastIn`) and `Iterated` (such a function exists)
replace the library's theorems, which take an operator.

### Consoles

`KeyInv` types the state and puts the keys in order: those of the line came before
the call of `getchar`, the one in the mailbox after it. `KeysAreFresh` follows.
`ConsolesStayApart` goes by the places a step may write: its lemmas say which
buffer and which cursor each part of `putchar` reaches. A `cd` that no switch has come
into still has the console it was given on before it (`CdAtHome`).

`LineInv` is what makes `LineIsShown` inductive: for each step of `putchar` it says
how much of the line stands before which cell, what is still to be printed and
where it will be written (`Echoing`), up to the next switch of consoles. Scrolling
moves cells and cursor by a row; a step back goes from the first cell of a row to
the end of the row above. `InScreen`, that the cursor stays in the screen, is
needed for both. That a row needs two cells (`TerminalAssumption`) was
found here: with one, the prompt scrolls off its own line.

### Encodings and boot

The processor gets from a descriptor what was put in: base, access byte, upper flags,
and the limit modulo 2^20, all of it below (`DescriptorKept`). So it
does from a gate and the drive from a sector command (`GateKept`, `SectorKept`), FAT entries survive packing in
both directions (`FatKept`, `FatWrittenBack`), dates and times come back, times to two seconds
(`DateKept`, `TimeKept`): for all 32-bit, 28-bit or 12-bit values.

The boot rests on the first two: `BootInv` says which entries of the tables are filled in by
which step, and by `GateKept` and `DescriptorKept` the gates lead where they should
(`GatesAreReady`). It also says that interrupts are off while the disk
works, so that its IRQ 14, which has the default handler, is never taken outside
`hal_initialize`: `OnlyHalStops`.

### Text

`text` cuts every loop over a string to a few characters; the theorems of `TextProofs` hold
for strings of any length. Induction over numbers (`AllNumbers`) and over sequences
(`AllSequences`) is for a set of numbers or of sequences here too, and `Iterated` gives
the quotients of `itoa` and the sums of `read_int` their values.

- `LineInv`: the line in memory is the line that was typed with a `NUL` in place of some
  blanks, and the addresses in `words` and `rest` are those behind the blanks
  that were replaced, all of them in order (`CutAt`). `strsep` keeps it, whatever the commands look at in
  between: `WordsStay`. The property alone is not inductive, since it does not say what
  lies between two words.
- `PathInv`: `curr_path` keeps its size, its text is that of `dirs` (in the root, `/` or
  `/.`, which the next `cd` writes over) and fits, and no
  name has a slash. So the first slash of the reversed path ends its last name, and turning round
  what is behind it leaves the path without that
  name: `PathIsShown`.
- `NameInv`: the newest entry is `named_entry` of what was typed behind the second
  word. Each field is followed through the two copies and their blanks, over which a
  long name may have run: `NameIsFound`.
- `NumberBack`: `read_int` gets back from the digits of `itoa` the int they were
  written of. Its sums are those of the quotients of `itoa`, last to first, modulo `2 ^ W`; a
  negative int is written as the number that is larger by `2 ^ W` and comes back by overflow.
- `IoInv`: in `sprintf`, the buffer followed by what the rest of the format makes
  of the remaining arguments is what the whole format makes of all of them (`Writing`).
  In `sscanf`, what is left of the line is what the rest of the format
  made of its arguments, with more blanks for each one, less those that the format has
  already passed (`ReadsOn`). Those passed blanks are the
  reason why an empty word between two blanks is excluded: the first blank of the
  format stands for both. `PrintIsRead` follows.

### What is model-checked only

- Liveness (`ReturnsIfAlone`, `NobodyStarves`, `Boots`), which needs fairness and ENABLED.
- `SleepsUntilSignal`, which needs an invariant of each program about who is queued when
  a process exits.
- The properties of the four runs that expect a violation, of course.

## What is not modelled

- `printf` and `putchar` as compiled into a C program (`usr/bank.c:21`, `usr/fruit.c:49`,
  `stdio.h:93-134`), with the timer between reading the cursor and writing:
  `process_draws` has the writes, at any order and place, but no text.
- Ctrl-F during an `fopen`, which changes the directory that is searched: `SysFile`
  has no consoles.
- The bytes behind `tmp_name[20]` in `fat12_create_file` (`fat12.h:633`): a name of
  more than 19 characters runs into what lies behind on the stack. `CommandLine` goes on as if it did not.
- A `fork` that fails in `bank.c` and `pro-con.c` (`exit(-1)`): the table has
  room for them in the models.
- The contents of registers, and the user stacks: that children of `fork` get a
  stack `pid * 0x100` away (`task.h:403`) and overlap with long frames; a tick in
  a handler behind `enable()` (`task.h:457`), which saves the handler's context.
  Both depend on the code that the compiler lays out. `keyboard_handler` saves
  no registers (`kernel_entry.asm:71`), with an effect that depends on it too.
- What is in files and buffers; a file longer than its buffer (`sysfile.h:68`);
  an unbounded line in `getline`. The models keep to files and lines that fit.
- `ls`, `help`, `tick` and `read` of the shell, which print and change nothing; `exit`,
  which leaves the loop: under a process that has ended it returns into it; colours; the three banners.
- The boot loader, which is straight-line code in real mode.
- `interruptdone` and the masks of the interrupt controllers.
- Functions without a caller: `kill`, `fat12_read_bytes`, the `fat12_write_` functions,
  `write_sectors`, `atoi`, `strncpy` and a few more of `string.h`.
- `fork.c`, `fork2.c`, `hello.c`, `file.c`: each makes calls that `Task`, `Bank` or
  `SysFile` have in every order.

## Plan

Done: all modules above, and proofs of their safety properties. Next, in
this order:

1. A proof of `SleepsUntilSignal`, from the invariants of `ProgramProofs`.
2. `Kernel`: `Semaphore` and `Exec` composed, so that programs with semaphores
   start and end under the shell; semaphores left over by ended programs. Proof: it
   implements both, so that all theorems carry over.
3. The contents of buffers in `SysFile`, against files as sequences of bytes.
