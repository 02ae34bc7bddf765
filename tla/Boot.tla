-------------------------------- MODULE Boot --------------------------------
(***************************************************************************)
(* From main of kernel.c to the prompt: the descriptor tables, the two     *)
(* interrupt controllers, the timer and the polled disk, under interrupts. *)
(*                                                                         *)
(* load_idt turns interrupts on as soon as there is a table, long before   *)
(* the controllers and the handlers are what they should be.  An interrupt *)
(* that has no handler of its own prints a message and loops, with         *)
(* interrupts off, forever.  The disk raises IRQ 14 when it is done, which *)
(* nobody handles: reading its status takes the request back.              *)
(***************************************************************************)
EXTENDS Encodings, FiniteSets

CONSTANTS
  address,      \* the address of each handler
  MaxSectors,   \* bound on the sectors of one read
  MaxTicks      \* pit_ticks wraps here in the models; at 2^32 in the source

MAX_INTERRUPTS == 256
Timer == 0
Keyboard == 1
Disk == 14

ASSUME BootAssumption ==
  /\ {"default_handler", "exception", "pit_handler", "keyboard_handler", "tss",
      "sys_interrupt_handler", "sys_pthread_handler", "sys_file_handler"} \subseteq DOMAIN address
  /\ \A h \in DOMAIN address : address[h] \in UInt32 \ {0}
  /\ \A h, k \in DOMAIN address : address[h] = address[k] => h = k
  /\ MaxSectors \in Nat \ {0} /\ MaxTicks \in Nat \ {0}

VARIABLES
  pc,        \* the step of the boot that comes next, or "shell"
  intr,      \* the interrupt flag of the CPU
  gdt, idt,  \* the tables, <<>> before they are filled and loaded
  remapped,  \* whether the controllers send the vectors from 0x20 on
  irq,       \* the requests that wait
  disk,      \* "idle", "busy" or "ready"
  resume,    \* what comes behind the reading
  left,      \* how many sectors are still to be read
  pit_ticks,
  hung       \* the request whose handler loops, -1 while there is none

vars == <<pc, intr, gdt, idt, remapped, irq, disk, resume, left, pit_ticks, hung>>

vector(i) == CASE remapped -> 32 + i
               [] ~remapped /\ i < 8 -> 8 + i
               [] OTHER -> 112 + (i - 8)

-----------------------------------------------------------------------------
(* The steps of hal_initialize, initialize and main *)

goto(here, there) == hung = -1 /\ pc = here /\ pc' = there

\* The limit 0xffffffff is all ones, as -1 is.
flat(access) == gdt_set_descriptor(0, -1, access, GDT_GRAND)

code_access == GDT_DESC_READWRITE + GDT_DESC_EXEC_CODE + GDT_DESC_CODEDATA + GDT_DESC_MEMORY
data_access == GDT_DESC_READWRITE + GDT_DESC_CODEDATA + GDT_DESC_MEMORY

\* The TSS gets base + sizeof(tss) for a limit, and is filled behind that.
gdt_init ==
  /\ goto("gdt_init", "idt_init")
  /\ gdt' = [i \in 0 .. 5 |->
       CASE i = 0 -> gdt_set_descriptor(0, 0, 0, 0)
         [] i = 1 -> flat(code_access)
         [] i = 2 -> flat(data_access)
         [] i = 3 -> flat(code_access + GDT_DESC_DPL)
         [] i = 4 -> flat(data_access + GDT_DESC_DPL)
         [] i = 5 -> gdt_set_descriptor(address["tss"], address["tss"] + 104,
                       GDT_DESC_ACCESS + GDT_DESC_EXEC_CODE + GDT_DESC_DPL + GDT_DESC_MEMORY, 0)]
  /\ UNCHANGED <<intr, idt, remapped, irq, disk, resume, left, pit_ticks, hung>>

setvect(h) == install_ir(INTERRUPT_GATE, 8, address[h])
setvect_user(h) == install_ir(INTERRUPT_GATE + IDT_DESC_RING3, 8, address[h])

\* Faulty: the table is loaded, and interrupts come on, before it is filled.
idt_init_early ==
  \/ /\ goto("idt_init", "load_idt")
     /\ intr' = TRUE
     /\ UNCHANGED <<gdt, idt, remapped, irq, disk, resume, left, pit_ticks, hung>>
  \/ /\ goto("load_idt", "exceptions")
     /\ idt' = [v \in 0 .. MAX_INTERRUPTS - 1 |-> setvect("default_handler")]
     /\ UNCHANGED <<intr, gdt, remapped, irq, disk, resume, left, pit_ticks, hung>>

idt_init ==
  \/ /\ goto("idt_init", "load_idt")
     /\ idt' = [v \in 0 .. MAX_INTERRUPTS - 1 |-> setvect("default_handler")]
     /\ UNCHANGED <<intr, gdt, remapped, irq, disk, resume, left, pit_ticks, hung>>
  \/ /\ goto("load_idt", "exceptions")
     /\ intr' = TRUE
     /\ UNCHANGED <<gdt, idt, remapped, irq, disk, resume, left, pit_ticks, hung>>

\* A gate is written field by field; an interrupt that finds it half written
\* comes where it would have been fatal anyway.
install(here, there, gates) ==
  /\ goto(here, there)
  /\ idt' = [v \in DOMAIN idt |-> IF v \in DOMAIN gates THEN gates[v] ELSE idt[v]]
  /\ UNCHANGED <<intr, gdt, remapped, irq, disk, resume, left, pit_ticks, hung>>

Exceptions == (0 .. 19) \ {9, 15}

hal_initialize ==
  \/ install("exceptions", "interrupts", [v \in Exceptions |-> setvect("exception")])
  \/ install("interrupts", "pic_init", [v \in {128, 129, 130} |->
               setvect_user(CASE v = 128 -> "sys_interrupt_handler"
                              [] v = 129 -> "sys_pthread_handler"
                              [] v = 130 -> "sys_file_handler")])
  \/ install("kb_init", "pit_init", [v \in {33} |-> setvect("keyboard_handler")])
  \/ install("pit_init", "pit_start_counter", [v \in {32} |-> setvect("pit_handler")])

\* ICW1 may make a controller forget the requests that wait.
pic_init ==
  \/ /\ goto("pic_init", "remap")
     /\ intr' = FALSE
     /\ UNCHANGED <<gdt, idt, remapped, irq, disk, resume, left, pit_ticks, hung>>
  \/ /\ goto("remap", "pic_done")
     /\ remapped' = TRUE /\ irq' \in SUBSET irq
     /\ UNCHANGED <<intr, gdt, idt, disk, resume, left, pit_ticks, hung>>
  \/ /\ goto("pic_done", "kb_init")
     /\ intr' = TRUE
     /\ UNCHANGED <<gdt, idt, remapped, irq, disk, resume, left, pit_ticks, hung>>

pit_start_counter ==
  /\ goto("pit_start_counter", "fat12_init")
  /\ pit_ticks' = 0
  /\ UNCHANGED <<intr, gdt, idt, remapped, irq, disk, resume, left, hung>>

\* proc_init and sem_init, whose tables other modules have, are passed over.
fat12_init ==
  /\ goto("fat12_init", "readsect")
  /\ left' \in 1 .. MaxSectors
  /\ UNCHANGED <<intr, gdt, idt, remapped, irq, disk, resume, pit_ticks, hung>>

\* Faulty: the interrupts stay as they are.
disable_left_out == UNCHANGED intr

disable == intr' = FALSE

\* Faulty: the loop of read_sectors does not count.
remaining_stuck == left

remaining == left - 1

\* The command is on its way; then the status is read until the disk is ready,
\* which takes back its request.
readsect ==
  \/ /\ goto("readsect", "waitdisk")
     /\ disable
     /\ disk' = "busy"
     /\ UNCHANGED <<gdt, idt, remapped, irq, resume, left, pit_ticks, hung>>
  \/ /\ disk = "ready"
     /\ left' = remaining
     /\ goto("waitdisk", IF left' > 0 THEN "readsect" ELSE "enable")
     /\ disk' = "idle" /\ irq' = irq \ {Disk}
     /\ UNCHANGED <<intr, gdt, idt, remapped, resume, pit_ticks, hung>>

\* The enable() of initialize, and those of fat12_read_clusters later on.
enable ==
  /\ goto("enable", resume)
  /\ intr' = TRUE
  /\ UNCHANGED <<gdt, idt, remapped, irq, disk, resume, left, pit_ticks, hung>>

\* terminal_init keeps interrupts off and on again around the consoles.
terminal_init ==
  \/ /\ goto("terminal_init", "terminal_done")
     /\ intr' = FALSE
     /\ UNCHANGED <<gdt, idt, remapped, irq, disk, resume, left, pit_ticks, hung>>
  \/ /\ goto("terminal_done", "shell")
     /\ intr' = TRUE
     /\ UNCHANGED <<gdt, idt, remapped, irq, disk, resume, left, pit_ticks, hung>>

\* A command reads the disk.
fat12_read_clusters ==
  /\ goto("shell", "fat12_init")
  /\ resume' = "shell"
  /\ UNCHANGED <<intr, gdt, idt, remapped, irq, disk, left, pit_ticks, hung>>

-----------------------------------------------------------------------------
(* The hardware *)

request(i) ==
  /\ irq' = irq \cup {i}
  /\ UNCHANGED <<pc, intr, gdt, idt, remapped, resume, left, pit_ticks, hung>>

device ==
  \/ \E i \in {Timer, Keyboard} : request(i) /\ UNCHANGED disk
  \/ disk = "busy" /\ disk' = "ready" /\ request(Disk)

handler(v) ==
  IF idt # <<>> /\ \E h \in DOMAIN address : address[h] = gate_offset(idt[v])
  THEN CHOOSE h \in DOMAIN address : address[h] = gate_offset(idt[v])
  ELSE "none"

\* The request of the highest priority.  pit_handler_main finds no process.
interrupt(i) ==
  /\ intr /\ i \in irq /\ \A j \in irq : i <= j
  /\ irq' = irq \ {i}
  /\ \/ /\ handler(vector(i)) = "pit_handler"
        /\ pit_ticks' = (pit_ticks + 1) % MaxTicks
        /\ UNCHANGED <<intr, hung>>
     \/ /\ handler(vector(i)) = "keyboard_handler"
        /\ UNCHANGED <<intr, pit_ticks, hung>>
     \/ /\ handler(vector(i)) \notin {"pit_handler", "keyboard_handler"}
        /\ hung' = i /\ intr' = FALSE
        /\ UNCHANGED pit_ticks
  /\ UNCHANGED <<pc, gdt, idt, remapped, disk, resume, left>>

Init ==
  /\ pc = "gdt_init" /\ intr = FALSE
  /\ gdt = <<>> /\ idt = <<>> /\ remapped = FALSE
  /\ irq \in SUBSET {Timer, Keyboard}
  /\ disk = "idle" /\ resume = "terminal_init" /\ left = 0 /\ pit_ticks = 0 /\ hung = -1

main ==
  \/ gdt_init \/ idt_init \/ hal_initialize \/ pic_init \/ pit_start_counter
  \/ fat12_init \/ readsect \/ enable \/ terminal_init

Next ==
  \/ main \/ fat12_read_clusters \/ device
  \/ \E i \in irq : interrupt(i)

\* The CPU goes on with main between interrupts, and the disk answers.
Spec == Init /\ [][Next]_vars /\ WF_vars(main) /\ WF_vars(disk = "busy" /\ device)

-----------------------------------------------------------------------------

\* Code that runs in ring 0, and all memory.
KernelCode(d) ==
  /\ present(d) /\ code(d) /\ descriptor_dpl(d) = 0
  /\ descriptor_base(d) = 0 /\ descriptor_limit(d) = 1048575

\* Whenever an interrupt can come, every vector has a present gate into the
\* kernel's code, to an existing handler, and user programs can call those of
\* the system calls only.
GatesReady ==
  intr => \A v \in 0 .. MAX_INTERRUPTS - 1 :
            /\ handler(v) # "none" /\ idt[v].type_attr >= 128
            /\ KernelCode(gdt[idt[v].selector \div 8])
            /\ gate_dpl(idt[v]) = 3 <=> handler(v) \in
                 {"sys_interrupt_handler", "sys_pthread_handler", "sys_file_handler"}

\* An interrupt stops the machine only in hal_initialize: the timer before its
\* handler is in, the keyboard before its own, and the disk never.
StopsOnlyInHal ==
  /\ hung = Timer =>
       pc \in {"exceptions", "interrupts", "pic_init", "kb_init", "pit_init"}
  /\ hung = Keyboard => pc \in {"exceptions", "interrupts", "pic_init", "kb_init"}
  /\ hung # Disk

\* The boot comes to the prompt unless an interrupt stops it.
Boots == <>(pc = "shell" \/ hung # -1)

=============================================================================
