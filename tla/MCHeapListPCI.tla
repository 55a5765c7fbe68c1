------------------------------ MODULE MCHeapListPCI ------------------------------
(***************************************************************************)
(* The kernel heap (Heap, with the values of MCHeap), the linked list     *)
(* (List, with the values of MCList) and PCI enumeration and driver       *)
(* matching (PCI, on the machines of PCIMachines) checked in one run.  A  *)
(* behaviour exercises one of them: each makes steps only while the other *)
(* two are at their initial state, so that the state spaces add up        *)
(* instead of multiplying.  List.tla and PCI.tla abstract the heap to a   *)
(* choice of a free address or a failure, so neither needs Heap.          *)
(***************************************************************************)
EXTENDS Integers, TLC, PCIMachines

CONSTANTS n1, n2, n3, d1, d2, fn, NullPtr

VARIABLES heap, blocks, live, dangling,      \* Heap
          list, next, data, held, ret, call, \* List
          topo, phase, fbBus, stack, devices, drvHead, drvNext, owner,
          allocFailed, regd, offered, claims, lastRemove  \* PCI

\* The values of MCHeap: i386 headers in a 128-byte region, size_t
\* narrowed to 8 bits.
HeapL == INSTANCE Heap WITH Width <- 8, WordSize <- 4, HeaderSize <- 16,
           HeapStart <- 64, HeapEnd <- 192, AllocSizes <- {1, 8, 24},
           ResizeSizes <- {0, 4, 40}, CallocArgs <- {<<2, 3>>},
           AlignedArgs <- {<<4, 8>>, <<4, 3>>}, StrayPtrs <- {32, 68},
           KeepStale <- FALSE

\* The values of MCList: three node addresses, two data pointers.
ListL == INSTANCE List WITH NULL <- NullPtr, Nodes <- {n1, n2, n3}, Data <- {d1, d2},
           FreeFuncs <- {fn}, MaxIndex <- 3

\* The machines and drivers of PCIMachines.
PciL == INSTANCE PCI WITH NULL <- NullPtr, Buses <- MCBuses, DevSlots <- MCDevSlots,
          Functions <- MCFunctions, FallbackBuses <- MCFallbackBuses,
          Topologies <- MCTopologies, Drivers <- MCDrivers, Ids <- MCIds,
          HasProbe <- MCHasProbe, HasRemove <- MCHasRemove

hvars == <<heap, blocks, live, dangling>>
lvars == <<list, next, data, held, ret, call>>
pvars == <<topo, phase, fbBus, stack, devices, drvHead, drvNext, owner,
           allocFailed, regd, offered, claims, lastRemove>>
vars == <<hvars, lvars, pvars>>

\* PCI has made no call yet: pci_init has not run and no driver registered.
PciQuiet == phase = "boot" /\ stack = << >> /\ regd = {} /\ offered = {}

Init == HeapL!Init /\ ListL!Init /\ PciL!Init

Next ==
  \/ call = << >> /\ PciQuiet /\ HeapL!Next /\ UNCHANGED <<lvars, pvars>>
  \/ blocks = << >> /\ PciQuiet /\ ListL!Next /\ UNCHANGED <<hvars, pvars>>
  \/ call = << >> /\ blocks = << >> /\ PciL!Next /\ UNCHANGED <<hvars, lvars>>

Spec == Init /\ [][Next]_vars

\* The three modules keep their types.
TypeOK == HeapL!TypeOK /\ ListL!TypeOK /\ PciL!TypeOK

\* The heap's chain tiles the region from sentinel to sentinel.
ChainWellFormed == HeapL!ChainWellFormed

\* No two neighbouring blocks are both free.
NoAdjacentFree == HeapL!NoAdjacentFree

\* heap->free is the total size of the free blocks.
FreeCounterExact == HeapL!FreeCounterExact

\* Callers and allocator agree on which blocks are handed out.
Ownership == HeapL!Ownership

\* The list header agrees with its node chain and with the nodes it holds.
ListWellFormed == ListL!ListWellFormed

\* list.c implements ListSpec.
ListRefinesSpec == ListL!ListRefinesSpec

\* pci_devices never lists a function twice, and without allocation
\* failures it lists every present function reachable from bus 0.
EnumerationExact == PciL!EnumerationExact

\* pci_drivers links exactly the registered drivers, NULL-terminated.
DriverListExact == PciL!DriverListExact

\* Every registered driver with a probe was offered each device it matches,
\* whether it registered before or after pci_init.
ProbeOffered == PciL!ProbeOffered
=============================================================================
