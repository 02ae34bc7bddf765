------------------------------ MODULE Encodings ------------------------------
(***************************************************************************)
(* The places where the kernel takes a number apart for the hardware or    *)
(* the disk, and puts it together again: segment descriptors               *)
(* (include/gdt.h), interrupt gates (include/idt.h), the divisor of the    *)
(* timer (include/pit.h), sector numbers (include/ide.h), FAT entries,     *)
(* dates and times (include/fat12.h).  Shifts and masks are written as     *)
(* divisions and remainders; `or` of disjoint bits is a sum.               *)
(***************************************************************************)
EXTENDS Integers

Byte == {x \in Nat : x < 256}
UInt32 == {x \in Nat : x \div 65536 < 65536}

uint8(x) == x % 256
uint16(x) == x % 65536

-----------------------------------------------------------------------------
(* gdt.h *)

gdt_set_descriptor(base, limit, access, grand) ==
  [limit |-> uint16(limit),
   baseLo |-> uint16(base),
   baseMid |-> uint8(base \div 65536),
   baseHi |-> uint8(base \div 16777216),
   flags |-> access,
   grand |-> ((limit \div 65536) % 16) + 16 * ((grand \div 16) % 16)]

\* What the processor makes of it.
descriptor_base(d) == d.baseLo + 65536 * d.baseMid + 16777216 * d.baseHi
descriptor_limit(d) == d.limit + 65536 * (d.grand % 16)
descriptor_dpl(d) == (d.flags \div 32) % 4
present(d) == d.flags >= 128
code(d) == (d.flags \div 8) % 4 = 3

GDT_DESC_ACCESS == 1
GDT_DESC_READWRITE == 2
GDT_DESC_EXEC_CODE == 8
GDT_DESC_CODEDATA == 16
GDT_DESC_DPL == 96
GDT_DESC_MEMORY == 128
GDT_GRAND == 128 + 64 + 15

-----------------------------------------------------------------------------
(* idt.h *)

INTERRUPT_GATE == 142
IDT_DESC_RING3 == 96

install_ir(type_attr, selector, irq) ==
  [offset_lowerbits |-> uint16(irq),
   offset_higherbits |-> uint16(irq \div 65536),
   type_attr |-> type_attr,
   selector |-> selector]

gate_offset(g) == g.offset_lowerbits + 65536 * g.offset_higherbits
gate_dpl(g) == (g.type_attr \div 32) % 4

-----------------------------------------------------------------------------
(* pit.h: the two bytes that pit_start_counter sends. *)

divisor(freq) == uint16(1193181 \div uint16(freq))
pit_data(freq) == <<divisor(freq) % 256, (divisor(freq) \div 256) % 256>>

-----------------------------------------------------------------------------
(* ide.h: the four bytes of the sector number that readsect and writesect  *)
(* send, the last one with 0xE0 for LBA and drive 0.                       *)

sector_data(secno) ==
  <<uint8(secno), uint8(secno \div 256), uint8(secno \div 65536),
    ((secno \div 16777216) % 16) + 224>>

lba(d) == d[1] + 256 * d[2] + 65536 * d[3] + 16777216 * (d[4] % 16)

-----------------------------------------------------------------------------
(* fat12.h: two entries of the FAT in three bytes. *)

fat_unpack(b) ==
  <<(b[1] + 256 * b[2]) % 4096, (b[2] + 256 * b[3]) \div 16>>

fat_pack(e) ==
  <<uint8(e[1]), ((e[1] \div 256) % 16) + 16 * (e[2] % 16), uint8(e[2] \div 16)>>

date_to_int(year, month, day) == 512 * (year - 1980) + 32 * month + day

int_to_date(date) ==
  LET year == date \div 512
      month == (date - 512 * year) \div 32
  IN  [year |-> year, month |-> month, day |-> date - 512 * year - 32 * month]

time_to_int(hour, minute, second) == 2048 * hour + 32 * minute + (second \div 2)

int_to_time(t) ==
  LET hour == t \div 2048
      minute == (t - 2048 * hour) \div 32
  IN  [hour |-> hour, minute |-> minute,
       second |-> 2 * (t - 2048 * hour - 32 * minute)]

=============================================================================
