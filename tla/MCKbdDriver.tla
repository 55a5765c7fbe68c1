----------------------------- MODULE MCKbdDriver -----------------------------
(* The PS2Kbd bounds of MCPS2Kbd (two firmware configurations, keyboard   *)
(* errors only), four kinds of events: 'q' and 'a' pressed, 'a' released, *)
(* and a pressed key with no key code.  US QWERTY or a layout ps2kbd_     *)
(* handler does not know.                                                 *)
EXTENDS KbdDriver

MCBootConfigs == {\h45, \h67}
MCScancode == \h1C
MCErrors == {"error"}
MCKeys == {[ascii |-> "q", pressed |-> TRUE, known |-> TRUE],
           [ascii |-> "a", pressed |-> TRUE, known |-> TRUE],
           [ascii |-> "a", pressed |-> FALSE, known |-> TRUE],
           [ascii |-> "?", pressed |-> TRUE, known |-> FALSE]}
MCLayouts == {"LAYOUT_US_QWERTY", "LAYOUT_OTHER"}
MCSizeWords == {"count", "nonzero"}
MCAllCalls == {"register", "unregister", "readString", "readBuffer"}
MCReadString == {"readString"}
MCLengths == {0, 1, 2}
=============================================================================
