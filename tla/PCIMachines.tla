---------------------------- MODULE PCIMachines ----------------------------
(* Three buses of two device slots with two functions each, and three    *)
(* machines:                                                              *)
(*  - Bridged: a multi-function host bridge and a NIC on bus 0, a         *)
(*    PCI-to-PCI bridge to bus 1, and on bus 1 a disk and a single-       *)
(*    function NIC whose function 1 also answers (it must not be listed);  *)
(*  - Flat: one NIC on bus 0 and a disk on bus 2 that only pci_init's     *)
(*    fallback loop can find (when bus 0 yields no device);               *)
(*  - Empty: 0:0.0 reads all ones.                                        *)
(* Two drivers: dA matches the NIC, dB lists vendors {1, 8} and devices   *)
(* {10, 20}, so it matches the NIC and the disk.                          *)
(* An empty slot reads all ones (PCI_VENDOR_INVALID, 0xFFFF).             *)
EXTENDS Integers, TLC

CONSTANTS dA, dB

Host == [vendor |-> 1, device |-> 1, cls |-> 6, sub |-> 0, multi |-> TRUE, sec |-> 0]
Nic == [vendor |-> 8, device |-> 10, cls |-> 2, sub |-> 0, multi |-> FALSE, sec |-> 0]
Disk == [vendor |-> 8, device |-> 20, cls |-> 1, sub |-> 6, multi |-> FALSE, sec |-> 0]
Bridge(s) == [vendor |-> 8, device |-> 30, cls |-> 6, sub |-> 4, multi |-> FALSE, sec |-> s]

Absent == [vendor |-> 65535, device |-> 65535, cls |-> 255,
           sub |-> 255, multi |-> TRUE, sec |-> 255]

MCBuses == 0..2
MCDevSlots == 2
MCFunctions == 2
MCFallbackBuses == 3
MCLocs == MCBuses \X (0..MCDevSlots - 1) \X (0..MCFunctions - 1)

Machine(cfg) == [l \in MCLocs |-> IF l \in DOMAIN cfg THEN cfg[l] ELSE Absent]

Bridged == Machine(<<0, 0, 0>> :> Host @@ <<0, 0, 1>> :> Nic @@ <<0, 1, 0>> :> Bridge(1)
                   @@ <<1, 0, 0>> :> Disk @@ <<1, 1, 0>> :> Nic @@ <<1, 1, 1>> :> Nic)
Flat == Machine(<<0, 0, 0>> :> Nic @@ <<2, 0, 0>> :> Disk)
Empty == Machine(<<2, 1, 0>> :> Nic)

MCTopologies == {Bridged, Flat, Empty}
MCDrivers == {dA, dB}
MCIds == (dA :> [vendors |-> {8}, devices |-> {10}])
         @@ (dB :> [vendors |-> {1, 8}, devices |-> {10, 20}])
MCHasProbe == [d \in MCDrivers |-> TRUE]
MCHasRemove == [d \in MCDrivers |-> TRUE]
=============================================================================
