----------------------------- MODULE MCPciConfig -----------------------------
(***************************************************************************)
(* One PCI function with a 4 KiB memory BAR, an 8-byte I/O BAR (below 16,  *)
(* so that the I/O and memory masks differ), a 256-byte prefetchable      *)
(* 64-bit memory BAR placed above the 16-bit space (its upper dword, BAR *)
(* 3, reads 1) and two unimplemented ones; 16-bit BARs.  Firmware left    *)
(* I/O and memory decoding on; the status register has the capabilities   *)
(* bit and a received master abort pending from enumeration; the device  *)
(* may raise received master abort and detected parity error.             *)
(***************************************************************************)
EXTENDS PciConfig

MCBars == [n \in BarNums |->
             CASE n = 0 -> [kind |-> "mem", size |-> 4096, type |-> 0, base |-> 57344]
               [] n = 1 -> [kind |-> "io", size |-> 8, type |-> 1, base |-> 49160]
               [] n = 2 -> [kind |-> "mem", size |-> 256, type |-> 12, base |-> 53248]
               [] n = 3 -> [kind |-> "hi", size |-> 0, type |-> 0, base |-> 1]
               [] OTHER -> [kind |-> "none", size |-> 0, type |-> 0, base |-> 0]]
MCErrorBits == {8192, 32768}
=============================================================================
