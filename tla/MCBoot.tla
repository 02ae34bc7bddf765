------------------------------- MODULE MCBoot -------------------------------
(* Addresses above and below 64K, as in a kernel loaded at 0x7E00.         *)
EXTENDS Boot, TLC

MCAddress ==
  [h \in {"default_handler", "exception", "pit_handler", "keyboard_handler",
          "sys_interrupt_handler", "sys_pthread_handler", "sys_file_handler", "tss"} |->
     CASE h = "default_handler" -> 32300
       [] h = "exception" -> 32301
       [] h = "pit_handler" -> 65536 + 300
       [] h = "keyboard_handler" -> 300
       [] h = "sys_interrupt_handler" -> 65536 + 301
       [] h = "sys_pthread_handler" -> 2 * 65536
       [] h = "sys_file_handler" -> 2 * 65536 + 300
       [] h = "tss" -> 3 * 65536 + 65500]

=============================================================================
