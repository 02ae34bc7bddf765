----------------------------- MODULE BootProofs -----------------------------
(***************************************************************************)
(* What is encoded is what the other side decodes again, for all values.   *)
(* Whenever an interrupt can come there is a gate for it, and the machine  *)
(* is stopped by one only before hal_initialize is done: for any addresses *)
(* of the handlers, any number of sectors and any width of pit_ticks.      *)
(***************************************************************************)
EXTENDS Boot, TLAPS

\* A number of 32 bits is the sum of its bytes, and of its halves.
LEMMA Bytes ==
  ASSUME NEW x \in Int, 0 <= x, x <= 4294967295
  PROVE  /\ (x % 65536) + 65536 * ((x \div 65536) % 256) + 16777216 * ((x \div 16777216) % 256) = x
         /\ (x % 65536) + 65536 * ((x \div 65536) % 65536) = x
         /\ (x % 256) + 256 * ((x \div 256) % 256) + 65536 * ((x \div 65536) % 256)
              + 16777216 * ((x \div 16777216) % 16) = x % 268435456
         /\ (x % 65536) + 65536 * ((x \div 65536) % 16) = x % 1048576
BY SMT

\* A descriptor gives the processor what it was made from: the base, the limit
\* as far as it has 20 bits, the access byte with presence, ring and kind, and
\* the flags in the upper half of the last argument; and no field takes more
\* than its bytes (gdt_set_descriptor of gdt.h).
THEOREM DescriptorKept ==
  ASSUME NEW base \in UInt32, NEW limit \in UInt32, NEW access \in Byte, NEW grand \in Byte,
         NEW d, d = gdt_set_descriptor(base, limit, access, grand)
  PROVE  /\ descriptor_base(d) = base
         /\ descriptor_limit(d) = limit % 1048576
         /\ limit < 1048576 => descriptor_limit(d) = limit
         /\ d.flags = access
         /\ present(d) <=> access >= 128
         /\ descriptor_dpl(d) = (access \div 32) % 4
         /\ code(d) <=> (access \div 8) % 4 = 3
         /\ d.grand \div 16 = grand \div 16
         /\ d.limit \in Nat /\ d.limit < 65536 /\ d.flags \in Byte /\ d.grand \in Byte
<1>1. /\ base \in Int /\ 0 <= base /\ base <= 4294967295
      /\ limit \in Int /\ 0 <= limit /\ limit <= 4294967295
      /\ grand \in Int /\ 0 <= grand /\ grand <= 255
  BY SMT DEF UInt32, Byte
<1>2. /\ d.limit = limit % 65536
      /\ d.flags = access
      /\ d.grand = ((limit \div 65536) % 16) + 16 * ((grand \div 16) % 16)
      /\ descriptor_base(d) = (base % 65536) + 65536 * ((base \div 65536) % 256)
                                + 16777216 * ((base \div 16777216) % 256)
  BY SMT DEF gdt_set_descriptor, descriptor_base, uint8, uint16
<1>3. descriptor_base(d) = base
  BY <1>1, <1>2, Bytes, SMT
<1>4. d.grand % 16 = (limit \div 65536) % 16 /\ d.grand \div 16 = grand \div 16
  BY <1>1, <1>2, SMT
<1>5. descriptor_limit(d) = limit % 1048576
  BY <1>1, <1>2, <1>4, Bytes, SMT DEF descriptor_limit
<1>6. limit < 1048576 => descriptor_limit(d) = limit
  BY <1>1, <1>5, SMT
<1>7. /\ present(d) <=> access >= 128
      /\ code(d) <=> (access \div 8) % 4 = 3
  BY <1>2 DEF present, code
<1>8. descriptor_dpl(d) = (access \div 32) % 4
  BY <1>2 DEF descriptor_dpl
<1>9. d.limit \in Nat /\ d.limit < 65536
  BY <1>1, <1>2, SMT
<1>10. d.flags \in Byte
  BY <1>2, SMT
<1>11. d.grand \in Byte
  BY <1>1, <1>2, SMT DEF Byte
<1> QED
  BY <1>2, <1>3, <1>4, <1>5, <1>6, <1>7, <1>8, <1>9, <1>10, <1>11

\* An interrupt gate leads to the handler it was made for (install_ir of idt.h).
THEOREM GateKept ==
  ASSUME NEW ir \in UInt32, NEW type_attr, NEW selector
  PROVE  gate_offset(install_ir(type_attr, selector, ir)) = ir
<1>1. ir \in Int /\ 0 <= ir /\ ir <= 4294967295
  BY SMT DEF UInt32
<1>2. gate_offset(install_ir(type_attr, selector, ir))
        = (ir % 65536) + 65536 * ((ir \div 65536) % 65536)
  BY SMT DEF install_ir, gate_offset, uint16
<1> QED
  BY <1>1, <1>2, Bytes, SMT

\* The drive gets the sector number it is asked for, of 28 bits (readsect and
\* writesect of ide.h).
THEOREM SectorKept ==
  ASSUME NEW secno \in UInt32
  PROVE  lba(sector_data(secno)) = secno % 268435456
<1>1. secno \in Int /\ 0 <= secno /\ secno <= 4294967295
  BY SMT DEF UInt32
<1>2. (((secno \div 16777216) % 16) + 224) % 16 = (secno \div 16777216) % 16
  BY <1>1, SMT
<1>3. lba(sector_data(secno))
        = (secno % 256) + 256 * ((secno \div 256) % 256) + 65536 * ((secno \div 65536) % 256)
            + 16777216 * ((secno \div 16777216) % 16)
  BY <1>2, SMT DEF sector_data, lba, uint8
<1> QED
  BY <1>1, <1>3, Bytes, SMT

\* fat12_write_back_fat writes two entries so that fat12_init reads them again.
THEOREM FatKept ==
  ASSUME NEW e \in 0 .. 4095, NEW f \in 0 .. 4095
  PROVE  fat_unpack(fat_pack(<<e, f>>)) = <<e, f>>
<1>1. e \in Int /\ 0 <= e /\ e < 4096 /\ f \in Int /\ 0 <= f /\ f < 4096
  BY SMT
<1>2. fat_unpack(fat_pack(<<e, f>>))
        = <<((e % 256) + 256 * (((e \div 256) % 16) + 16 * (f % 16))) % 4096,
            (((e \div 256) % 16) + 16 * (f % 16) + 256 * ((f \div 16) % 256)) \div 16>>
  BY SMT DEF fat_pack, fat_unpack, uint8
<1>3. /\ ((e % 256) + 256 * (((e \div 256) % 16) + 16 * (f % 16))) % 4096 = e
      /\ (((e \div 256) % 16) + 16 * (f % 16) + 256 * ((f \div 16) % 256)) \div 16 = f
  BY <1>1, SMT
<1> QED
  BY <1>2, <1>3, SMT

\* It writes the bytes that fat12_init has read, if no entry has changed.
THEOREM FatWrittenBack ==
  ASSUME NEW a \in Byte, NEW b \in Byte, NEW c \in Byte
  PROVE  fat_pack(fat_unpack(<<a, b, c>>)) = <<a, b, c>>
<1>1. /\ a \in Int /\ 0 <= a /\ a < 256 /\ b \in Int /\ 0 <= b /\ b < 256
      /\ c \in Int /\ 0 <= c /\ c < 256
  BY SMT DEF Byte
<1> DEFINE e == (a + 256 * b) % 4096
           f == (b + 256 * c) \div 16
<1>2. fat_pack(fat_unpack(<<a, b, c>>))
        = <<e % 256, ((e \div 256) % 16) + 16 * (f % 16), (f \div 16) % 256>>
  BY SMT DEF fat_pack, fat_unpack, uint8
<1>3. e % 256 = a /\ ((e \div 256) % 16) + 16 * (f % 16) = b /\ (f \div 16) % 256 = c
  BY <1>1, SMT
<1> QED
  BY <1>2, <1>3, SMT

\* A date from 1980 to 2107 comes back from its 16 bits (fat12.h).
THEOREM DateKept ==
  ASSUME NEW year \in 1980 .. 2107, NEW month \in 0 .. 15, NEW day \in 0 .. 31
  PROVE  int_to_date(date_to_int(year, month, day))
           = [year |-> year - 1980, month |-> month, day |-> day]
<1> DEFINE date == 512 * (year - 1980) + 32 * month + day
<1>1. /\ year \in Int /\ 1980 <= year /\ month \in Int /\ 0 <= month /\ month < 16
      /\ day \in Int /\ 0 <= day /\ day < 32
  BY SMT
<1>2. date \div 512 = year - 1980 /\ (date - 512 * (year - 1980)) \div 32 = month
  BY <1>1, SMT
<1>3. date - 512 * (year - 1980) - 32 * month = day
  BY <1>1, SMT
<1> QED
  BY <1>2, <1>3, SMT DEF date_to_int, int_to_date

\* A time comes back with its seconds rounded down to even ones (fat12.h).
THEOREM TimeKept ==
  ASSUME NEW hour \in 0 .. 23, NEW minute \in 0 .. 59, NEW second \in 0 .. 59
  PROVE  int_to_time(time_to_int(hour, minute, second))
           = [hour |-> hour, minute |-> minute, second |-> second - (second % 2)]
<1> DEFINE t == 2048 * hour + 32 * minute + (second \div 2)
<1>1. /\ hour \in Int /\ 0 <= hour /\ minute \in Int /\ 0 <= minute /\ minute < 64
      /\ second \in Int /\ 0 <= second /\ second < 64
  BY SMT
<1>2. t \div 2048 = hour /\ (t - 2048 * hour) \div 32 = minute
  BY <1>1, SMT
<1>3. 2 * (t - 2048 * hour - 32 * minute) = second - (second % 2)
  BY <1>1, SMT
<1> QED
  BY <1>2, <1>3, SMT DEF time_to_int, int_to_time

-----------------------------------------------------------------------------

SystemCalls == {"sys_interrupt_handler", "sys_pthread_handler", "sys_file_handler"}
Handlers == SystemCalls \cup {"default_handler", "exception", "pit_handler", "keyboard_handler"}

GateOf(h) == IF h \in SystemCalls THEN setvect_user(h) ELSE setvect(h)

\* Handlers have addresses, all different, and a gate leads to its own.
LEMMA HandlerAddress ==
  ASSUME NEW h \in Handlers
  PROVE  /\ h \in DOMAIN address /\ address[h] \in UInt32
         /\ gate_offset(GateOf(h)) = address[h]
         /\ \A k \in DOMAIN address : address[k] = address[h] => k = h
<1>1. h \in DOMAIN address /\ address[h] \in UInt32
  BY BootAssumption DEF Handlers, SystemCalls
<1>2. gate_offset(setvect(h)) = address[h] /\ gate_offset(setvect_user(h)) = address[h]
  BY <1>1, GateKept DEF setvect, setvect_user
<1> QED BY <1>1, <1>2, BootAssumption DEF GateOf

LEMMA HandlerOfGate ==
  ASSUME NEW h \in Handlers, NEW v \in 0 .. 255, DOMAIN idt = 0 .. 255, idt[v] = GateOf(h)
  PROVE  handler(v) = h
<1>1. idt # << >>
  BY SMT
<1>2. gate_offset(idt[v]) = address[h] /\ h \in DOMAIN address
  BY HandlerAddress
<1>3. \A k \in DOMAIN address : address[k] = gate_offset(idt[v]) => k = h
  BY <1>2, HandlerAddress
<1> QED BY <1>1, <1>2, <1>3 DEF handler

\* A gate is present, in the kernel's code segment, and open to ring 3 only
\* for the system calls.
LEMMA GateFields ==
  ASSUME NEW h \in Handlers
  PROVE  /\ GateOf(h).type_attr >= 128 /\ GateOf(h).selector = 8
         /\ gate_dpl(GateOf(h)) = 3 <=> h \in SystemCalls
<1>1. GateOf(h).type_attr = (IF h \in SystemCalls THEN 238 ELSE 142) /\ GateOf(h).selector = 8
  BY DEF GateOf, setvect, setvect_user, install_ir, INTERRUPT_GATE, IDT_DESC_RING3
<1>2. (238 \div 32) % 4 = 3 /\ (142 \div 32) % 4 = 0
  BY SMT
<1> QED BY <1>1, <1>2 DEF gate_dpl

LEMMA KernelSegment == KernelCode(flat(code_access))
<1>1. code_access = 154
  BY SMT DEF code_access, GDT_DESC_READWRITE, GDT_DESC_EXEC_CODE, GDT_DESC_CODEDATA, GDT_DESC_MEMORY
<1>m. PICK m \in Int : m + 1 = 0
  <2>1. -1 \in Int /\ -1 + 1 = 0
    BY SMT
  <2> QED BY <2>1
<1>f. flat(code_access) = gdt_set_descriptor(0, m, code_access, GDT_GRAND)
  <2>1. m = -1
    BY <1>m, SMT
  <2> QED BY <2>1, Zenon DEF flat
<1>2. /\ uint16(0) = 0 /\ uint8(0 \div 65536) = 0 /\ uint8(0 \div 16777216) = 0
      /\ uint16(m) = 65535 /\ (m \div 65536) % 16 = 15
      /\ GDT_GRAND \div 16 = 12
  <2>1. 0 % 65536 = 0 /\ (0 \div 65536) % 256 = 0 /\ (0 \div 16777216) % 256 = 0
    BY SMT
  <2>2. m % 65536 = 65535 /\ (m \div 65536) % 16 = 15
    BY <1>m, SMT
  <2>3. (128 + 64 + 15) \div 16 = 12
    BY SMT
  <2> QED BY <2>1, <2>2, <2>3, SMT DEF uint8, uint16, GDT_GRAND
<1> DEFINE d == flat(code_access)
<1>3. /\ d.flags = 154 /\ d.limit = 65535 /\ d.grand = 15 + 16 * (12 % 16)
      /\ d.baseLo = 0 /\ d.baseMid = 0 /\ d.baseHi = 0
  BY <1>1, <1>2, <1>f, SMT DEF gdt_set_descriptor
<1> HIDE DEF d
<1>4. (15 + 16 * (12 % 16)) % 16 = 15 /\ (154 \div 32) % 4 = 0 /\ (154 \div 8) % 4 = 3 /\ 154 >= 128
  BY SMT
<1>5. present(d) /\ code(d) /\ descriptor_dpl(d) = 0
  BY <1>3, <1>4, SMT DEF present, code, descriptor_dpl
<1>6. descriptor_base(d) = 0 /\ descriptor_limit(d) = 1048575
  BY <1>3, <1>4, SMT DEF descriptor_base, descriptor_limit
<1> QED BY <1>5, <1>6, SMT DEF KernelCode, d

Early == {"gdt_init", "idt_init", "load_idt", "exceptions", "interrupts", "pic_init", "remap"}
Steps == Early \cup {"pic_done", "kb_init", "pit_init", "pit_start_counter", "fat12_init", "readsect",
                     "waitdisk", "enable", "terminal_init", "terminal_done", "shell"}

\* The tables are filled before interrupts can come.
TablesFilled ==
  /\ pc # "gdt_init" => gdt[1] = flat(code_access)
  /\ pc \notin {"gdt_init", "idt_init"} =>
       DOMAIN idt = 0 .. 255 /\ \A v \in 0 .. 255 : \E h \in Handlers : idt[v] = GateOf(h)
  /\ pc \notin Early \cup {"pic_done", "kb_init"} => idt[33] = GateOf("keyboard_handler")
  /\ pc \notin Early \cup {"pic_done", "kb_init", "pit_init"} => idt[32] = GateOf("pit_handler")

\* While the disk works interrupts are off, and IRQ 14 waits only then.
DiskAlone ==
  /\ pc = "waitdisk" => ~intr
  /\ disk # "idle" => pc = "waitdisk"
  /\ Disk \in irq => disk # "idle"

BootInv ==
  /\ pc \in Steps /\ intr \in BOOLEAN /\ resume \in {"terminal_init", "shell"}
  /\ irq \subseteq {Timer, Keyboard, Disk}
  /\ intr => pc \notin {"gdt_init", "idt_init", "load_idt", "remap", "pic_done"}
  /\ (remapped <=> pc \notin Early)
  /\ TablesFilled /\ DiskAlone /\ StopsOnlyInHal

LEMMA BootStart == ASSUME Init PROVE BootInv
<1>1. StopsOnlyInHal /\ Disk \notin irq
  BY DEF Init, StopsOnlyInHal, Timer, Keyboard, Disk
<1>2. TablesFilled
  BY DEF Init, TablesFilled, Early
<1>3. irq \subseteq {Timer, Keyboard, Disk}
  BY DEF Init
<1> QED BY <1>1, <1>2, <1>3 DEF Init, BootInv, Steps, Early, DiskAlone

LEMMA MainStep == ASSUME BootInv, main \/ fat12_read_clusters PROVE BootInv'
<1> USE DEF goto
<1>0. hung = -1 /\ hung' = -1
  BY DEF main, fat12_read_clusters, gdt_init, idt_init, hal_initialize, install, pic_init, pit_start_counter,
         fat12_init, readsect, enable, terminal_init
<1>1. StopsOnlyInHal'
  BY <1>0 DEF StopsOnlyInHal, Timer, Keyboard, Disk
<1>2. TablesFilled'
  <2>1. CASE gdt_init
    BY <2>1 DEF gdt_init, TablesFilled, Early
  <2>2. CASE idt_init
    <3>1. "default_handler" \in Handlers /\ setvect("default_handler") = GateOf("default_handler")
      BY DEF Handlers, SystemCalls, GateOf
    <3> QED BY <2>2, <3>1 DEF idt_init, BootInv, TablesFilled, Early, MAX_INTERRUPTS
  <2>3. CASE hal_initialize
    <3>1. /\ \A h \in {"default_handler", "exception", "pit_handler", "keyboard_handler"} :
               h \in Handlers /\ setvect(h) = GateOf(h)
          /\ \A h \in SystemCalls : h \in Handlers /\ setvect_user(h) = GateOf(h)
      BY DEF Handlers, SystemCalls, GateOf
    <3>2. pc \in {"exceptions", "interrupts", "kb_init", "pit_init"} /\ UNCHANGED gdt
          /\ gdt[1] = flat(code_access) /\ DOMAIN idt = 0 .. 255
          /\ \A v \in 0 .. 255 : \E h \in Handlers : idt[v] = GateOf(h)
      BY <2>3 DEF hal_initialize, install, BootInv, TablesFilled
    <3>3. CASE install("exceptions", "interrupts", [v \in Exceptions |-> setvect("exception")])
      BY <3>1, <3>2, <3>3 DEF install, TablesFilled, Early
    <3>4. CASE install("interrupts", "pic_init", [v \in {128, 129, 130} |->
               setvect_user(CASE v = 128 -> "sys_interrupt_handler"
                              [] v = 129 -> "sys_pthread_handler"
                              [] v = 130 -> "sys_file_handler")])
      <4>1. \A v \in {128, 129, 130} : (CASE v = 128 -> "sys_interrupt_handler"
                              [] v = 129 -> "sys_pthread_handler"
                              [] v = 130 -> "sys_file_handler") \in SystemCalls
        BY DEF SystemCalls
      <4> QED BY <3>1, <3>2, <3>4, <4>1 DEF install, TablesFilled, Early
    <3>5. CASE install("kb_init", "pit_init", [v \in {33} |-> setvect("keyboard_handler")])
      BY <3>1, <3>2, <3>5 DEF install, TablesFilled, Early
    <3>6. CASE install("pit_init", "pit_start_counter", [v \in {32} |-> setvect("pit_handler")])
      <4>1. idt[33] = GateOf("keyboard_handler")
        BY <3>6 DEF install, BootInv, TablesFilled, Early
      <4> QED BY <3>1, <3>2, <3>6, <4>1 DEF install, TablesFilled, Early
    <3> QED BY <2>3, <3>3, <3>4, <3>5, <3>6 DEF hal_initialize
  <2>4. CASE pic_init \/ pit_start_counter \/ fat12_init \/ readsect \/ enable \/ terminal_init \/ fat12_read_clusters
    BY <2>4 DEF pic_init, pit_start_counter, fat12_init, readsect, enable, terminal_init, fat12_read_clusters,
                BootInv, TablesFilled, Early
  <2> QED BY <2>1, <2>2, <2>3, <2>4 DEF main
<1> DEFINE Placed == /\ pc' \in Steps /\ intr' \in BOOLEAN /\ resume' \in {"terminal_init", "shell"}
                     /\ irq' \subseteq {Timer, Keyboard, Disk}
                     /\ intr' => pc' \notin {"gdt_init", "idt_init", "load_idt", "remap", "pic_done"}
                     /\ (remapped' <=> pc' \notin Early)
<1>3. /\ pc \in Steps /\ intr \in BOOLEAN /\ resume \in {"terminal_init", "shell"}
      /\ irq \subseteq {Timer, Keyboard, Disk}
      /\ intr => pc \notin {"gdt_init", "idt_init", "load_idt", "remap", "pic_done"}
      /\ (remapped <=> pc \notin Early)
      /\ pc = "waitdisk" => ~intr
      /\ disk # "idle" => pc = "waitdisk"
      /\ Disk \in irq => disk # "idle"
  BY DEF BootInv, DiskAlone
<1>4. ASSUME gdt_init \/ idt_init PROVE Placed /\ DiskAlone'
  <2>1. \/ pc = "gdt_init" /\ pc' = "idt_init" /\ UNCHANGED intr
        \/ pc = "idt_init" /\ pc' = "load_idt" /\ UNCHANGED intr
        \/ pc = "load_idt" /\ pc' = "exceptions" /\ intr' = TRUE
    BY <1>4 DEF gdt_init, idt_init
  <2>2. UNCHANGED <<remapped, irq, disk, resume>>
    BY <1>4 DEF gdt_init, idt_init
  <2>3. pc \in Early /\ pc' \in Early
    BY <2>1 DEF Early
  <2>4. remapped' <=> pc' \notin Early
    BY <1>3, <2>2, <2>3
  <2>5. DiskAlone'
    BY <1>3, <2>1, <2>2 DEF DiskAlone
  <2>6. intr' \in BOOLEAN /\ (intr' => pc' \notin {"gdt_init", "idt_init", "load_idt", "remap", "pic_done"})
    <3>1. CASE pc \in {"gdt_init", "idt_init"} /\ UNCHANGED intr
      <4>1. ~intr
        BY <1>3, <3>1
      <4>2. ~intr' /\ intr' \in BOOLEAN
        BY <1>3, <3>1, <4>1, Zenon
      <4> QED BY <4>2
    <3>2. CASE pc = "load_idt" /\ pc' = "exceptions" /\ intr' = TRUE
      BY <3>2
    <3> QED BY <2>1, <3>1, <3>2
  <2>7. pc' \in Steps /\ resume' \in {"terminal_init", "shell"} /\ irq' \subseteq {Timer, Keyboard, Disk}
    BY <1>3, <2>1, <2>2 DEF Steps, Early
  <2> QED BY <2>4, <2>5, <2>6, <2>7
<1>5. ASSUME hal_initialize PROVE Placed /\ DiskAlone'
  BY <1>3, <1>5 DEF hal_initialize, install, Steps, Early, DiskAlone
<1>6. ASSUME pic_init PROVE Placed /\ DiskAlone'
  <2>1. irq' \subseteq irq /\ UNCHANGED <<disk, resume>>
    BY <1>6 DEF pic_init
  <2>2. \/ pc = "pic_init" /\ pc' = "remap" /\ intr' = FALSE /\ UNCHANGED remapped
        \/ pc = "remap" /\ pc' = "pic_done" /\ UNCHANGED intr /\ remapped' = TRUE
        \/ pc = "pic_done" /\ pc' = "kb_init" /\ intr' = TRUE /\ UNCHANGED remapped
    BY <1>6 DEF pic_init
  <2>3. remapped' <=> pc' \notin Early
    <3>1. CASE pc = "remap"
      BY <2>2, <3>1 DEF Early
    <3>2. CASE pc # "remap"
      <4>1. UNCHANGED remapped /\ (pc \in Early <=> pc' \in Early)
        BY <2>2, <3>2 DEF Early
      <4> QED BY <1>3, <4>1
    <3> QED BY <3>1, <3>2
  <2>4. DiskAlone'
    BY <1>3, <2>1, <2>2 DEF DiskAlone
  <2>5. intr' \in BOOLEAN /\ (intr' => pc' \notin {"gdt_init", "idt_init", "load_idt", "remap", "pic_done"})
    <3>1. CASE pc = "remap" /\ UNCHANGED intr
      <4>1. ~intr
        BY <1>3, <3>1
      <4>2. ~intr' /\ intr' \in BOOLEAN
        BY <1>3, <3>1, <4>1, Zenon
      <4> QED BY <4>2
    <3>2. CASE intr' = FALSE \/ (pc' = "kb_init" /\ intr' = TRUE)
      BY <3>2
    <3> QED BY <2>2, <3>1, <3>2
  <2>6. pc' \in Steps /\ resume' \in {"terminal_init", "shell"} /\ irq' \subseteq {Timer, Keyboard, Disk}
    BY <1>3, <2>1, <2>2 DEF Steps, Early
  <2> QED BY <2>3, <2>4, <2>5, <2>6
<1>7. ASSUME pit_start_counter \/ fat12_init \/ fat12_read_clusters PROVE Placed /\ DiskAlone'
  BY <1>3, <1>7 DEF pit_start_counter, fat12_init, fat12_read_clusters, Steps, Early, DiskAlone
<1>8. ASSUME readsect PROVE Placed /\ DiskAlone'
  BY <1>3, <1>8 DEF readsect, disable, Steps, Early, DiskAlone
<1>9. ASSUME enable \/ terminal_init PROVE Placed /\ DiskAlone'
  BY <1>3, <1>9 DEF enable, terminal_init, Steps, Early, DiskAlone
<1>10. Placed /\ DiskAlone'
  BY <1>4, <1>5, <1>6, <1>7, <1>8, <1>9 DEF main
<1> QED BY <1>1, <1>2, <1>10 DEF BootInv

LEMMA DeviceStep == ASSUME BootInv, device PROVE BootInv'
<1>1. UNCHANGED <<pc, intr, gdt, idt, remapped, resume, hung>>
  BY DEF device, request
<1>2. /\ irq' \subseteq {Timer, Keyboard, Disk}
      /\ Disk \in irq' => disk' # "idle"
      /\ disk' # "idle" => disk # "idle"
  <2>1. CASE \E i \in {Timer, Keyboard} : request(i) /\ UNCHANGED disk
    BY <2>1 DEF request, BootInv, DiskAlone, Timer, Keyboard, Disk
  <2>2. CASE disk = "busy" /\ disk' = "ready" /\ request(Disk)
    BY <2>2 DEF request, BootInv, DiskAlone
  <2> QED BY <2>1, <2>2 DEF device
<1> QED BY <1>1, <1>2 DEF BootInv, TablesFilled, DiskAlone, StopsOnlyInHal

\* Who finds its handler, and when.
LEMMA InterruptStep == ASSUME BootInv, NEW i \in irq, interrupt(i) PROVE BootInv'
<1>1. /\ UNCHANGED <<pc, gdt, idt, remapped, disk, resume>>
      /\ intr /\ intr' \in BOOLEAN /\ irq' \subseteq irq /\ (intr' => intr)
      /\ \/ handler(vector(i)) \in {"pit_handler", "keyboard_handler"} /\ UNCHANGED hung
         \/ handler(vector(i)) \notin {"pit_handler", "keyboard_handler"} /\ hung' = i
  BY DEF interrupt, BootInv
<1>2. i \in {Timer, Keyboard} /\ pc \in Steps
  BY <1>1 DEF BootInv, DiskAlone
<1>3. pc \notin Early \cup {"pic_done", "kb_init", "pit_init"} => handler(32) = "pit_handler"
  BY HandlerOfGate DEF BootInv, TablesFilled, Handlers, Early
<1>4. pc \notin Early \cup {"pic_done", "kb_init"} => handler(33) = "keyboard_handler"
  BY HandlerOfGate DEF BootInv, TablesFilled, Handlers, Early
<1>5. remapped => vector(i) = 32 + i
  BY DEF vector
<1>6. StopsOnlyInHal'
  BY <1>1, <1>2, <1>3, <1>4, <1>5 DEF BootInv, StopsOnlyInHal, Timer, Keyboard, Disk, Early
<1> QED BY <1>1, <1>6 DEF BootInv, TablesFilled, DiskAlone

LEMMA BootInvariant == Spec => []BootInv
<1>1. Init => BootInv
  BY BootStart
<1>2. BootInv /\ [Next]_vars => BootInv'
  <2>1. BootInv /\ UNCHANGED vars => BootInv'
    BY DEF vars, BootInv, TablesFilled, DiskAlone, StopsOnlyInHal
  <2> QED BY <2>1, MainStep, DeviceStep, InterruptStep DEF Next
<1> QED BY <1>1, <1>2, PTL DEF Spec

\* From load_idt on, whatever vector an interrupt has leads through a present
\* gate and the kernel's code segment to a handler (idt_init, setvect and
\* gdt_init), and only the three system calls can be called from ring 3.
THEOREM GatesAreReady == Spec => []GatesReady
<1>1. BootInv => GatesReady
  <2> SUFFICES ASSUME BootInv, intr, NEW v \in 0 .. 255
               PROVE  /\ handler(v) # "none" /\ idt[v].type_attr >= 128
                      /\ KernelCode(gdt[idt[v].selector \div 8])
                      /\ gate_dpl(idt[v]) = 3 <=> handler(v) \in SystemCalls
    <3>1. 0 .. MAX_INTERRUPTS - 1 = 0 .. 255
      BY DEF MAX_INTERRUPTS
    <3> QED BY <3>1 DEF GatesReady, SystemCalls
  <2>1. DOMAIN idt = 0 .. 255 /\ gdt[1] = flat(code_access)
    BY DEF BootInv, TablesFilled
  <2>2. PICK h \in Handlers : idt[v] = GateOf(h)
    BY DEF BootInv, TablesFilled
  <2>3. handler(v) = h /\ h # "none"
    BY <2>1, <2>2, HandlerOfGate DEF Handlers, SystemCalls
  <2>4. idt[v].selector \div 8 = 1
    BY <2>2, GateFields
  <2> QED BY <2>1, <2>2, <2>3, <2>4, GateFields, KernelSegment
<1> QED BY <1>1, BootInvariant, PTL

\* The timer and the keyboard can stop the machine only before hal_initialize
\* has their handlers in, and the disk's unhandled IRQ 14 never does: readsect
\* takes it back before interrupts come on again.
THEOREM OnlyHalStops == Spec => []StopsOnlyInHal
<1>1. BootInv => StopsOnlyInHal
  BY DEF BootInv
<1> QED BY <1>1, BootInvariant, PTL

=============================================================================
