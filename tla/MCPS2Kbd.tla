------------------------------ MODULE MCPS2Kbd ------------------------------
(* Two firmware configurations: 0x45 (port 1 interrupt, system flag,     *)
(* translation; port 2 interrupt off, clock on) and 0x67 (both            *)
(* interrupts, port 2 clock off, translation).  0x1C is the make code of  *)
(* the A key.                                                              *)
EXTENDS PS2Kbd

MCBootConfigs == {\h45, \h67}
MCScancode == \h1C
MCTimeouts == {"timeout"}
MCKeypresses == {"keypress"}
=============================================================================
