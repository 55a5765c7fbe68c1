--------------------------------- MODULE PCI ---------------------------------
(***************************************************************************)
(* pci.c: bus enumeration and driver binding.  pci_init scans bus 0 and,  *)
(* through PCI-to-PCI bridges, the buses behind them, prepending one       *)
(* pci_device_t per present function to pci_devices and offering each new *)
(* device to every registered driver.  pci_register_driver pushes a driver *)
(* onto pci_drivers and offers it every known device; pci_unregister_     *)
(* driver unlinks it and calls its remove on devices.                      *)
(*                                                                         *)
(* The recursion pci_scan_bus -> pci_scan_device -> pci_scan_function ->  *)
(* pci_scan_bus is an explicit call stack `stack` of frames, one step per *)
(* loop iteration, so that the order in which devices are listed and       *)
(* probed is the code's.  The bus is a constant topology chosen at Init:   *)
(* a function from (bus, device, function) to the configuration header;   *)
(* an empty slot reads vendor 0xFFFF.  A device is identified by its       *)
(* location.                                                               *)
(* A driver's probe and remove are the driver's code, not in this         *)
(* repository: probe returns 0 (and sets driver_data) or fails; remove    *)
(* releases the device (clears driver_data).                              *)
(***************************************************************************)
EXTENDS Integers, SequencesExt

CONSTANTS Buses,          \* the bus numbers a topology populates
          DevSlots,       \* devices per bus pci_scan_bus visits (32 in pci.c)
          Functions,      \* functions per device pci_scan_device visits (8)
          FallbackBuses,  \* pci_init's brute-force loop runs bus 1 .. this-1 (8)
          Topologies,     \* the buses the machine can have
          Drivers,        \* the pci_driver_t objects callers register
          NULL,
          Ids,            \* Ids[drv]: its vendor_ids/device_ids arrays, or NULL
          HasProbe,       \* HasProbe[drv]: driver->probe is not NULL
          HasRemove       \* HasRemove[drv]: driver->remove is not NULL

VARIABLES topo,      \* the configuration space of the machine (constant per run)
          phase,     \* where pci_init is: "boot", "scan0", "fallback", "done"
          fbBus,     \* the loop variable of pci_init's fallback scan
          stack,     \* the frames of the scan and registration loops
          devices,   \* pci_devices, head first
          drvHead,   \* pci_drivers
          drvNext,   \* driver->next
          owner,     \* driver_data of each location: the driver that set it
          allocFailed, \* some kmalloc in pci_create_device returned NULL
          regd,      \* the drivers registered and not unregistered (history)
          offered,   \* pairs <<drv, loc>> whose match led to a probe call (history)
          claims,    \* pairs <<drv, loc>> whose probe returned 0, not yet removed
          lastRemove \* the remove calls of the last unregistration:
                     \* <<driver, location, whether that driver had claimed it>>

vars == <<topo, phase, fbBus, stack, devices, drvHead, drvNext, owner,
          allocFailed, regd, offered, claims, lastRemove>>

Locs == Buses \X (0..DevSlots - 1) \X (0..Functions - 1)

PCI_VENDOR_INVALID == \hFFFF

\* pci_config_read16(.., PCI_VENDOR_ID) != PCI_VENDOR_INVALID
Present(b, d, f) == <<b, d, f>> \in Locs /\ topo[<<b, d, f>>].vendor # PCI_VENDOR_INVALID

\* header_type & PCI_HEADER_TYPE_MULTI of function 0.
Multi(b, d) == topo[<<b, d, 0>>].multi

\* class_code 0x06, subclass 0x04: a PCI-to-PCI bridge.
IsBridge(loc) == topo[loc].cls = 6 /\ topo[loc].sub = 4

\* The vendor/device loops of pci_scan_function and pci_register_driver:
\* some vendor entry equals the device's vendor and some device entry its
\* device id.  The two arrays are matched independently.
Matches(drv, loc) ==
  /\ Ids[drv] # NULL
  /\ topo[loc].vendor \in Ids[drv].vendors
  /\ topo[loc].device \in Ids[drv].devices

\* `if (match && driver->probe)`, then probe: a 0 return claims the device.
Probe(drv, loc) ==
  IF Matches(drv, loc) /\ HasProbe[drv]
  THEN /\ offered' = offered \cup {<<drv, loc>>}
       /\ \/ /\ owner' = [owner EXCEPT ![loc] = drv]
             /\ claims' = claims \cup {<<drv, loc>>}
          \/ UNCHANGED <<owner, claims>>
  ELSE UNCHANGED <<offered, owner, claims>>

BusFrame(b) == [k |-> "bus", bus |-> b, dev |-> 0]
DevFrame(b, d) == [k |-> "dev", bus |-> b, dev |-> d, fn |-> 0, loop |-> FALSE]
FnFrame(loc) == [k |-> "fn", loc |-> loc, drv |-> NULL, stage |-> "create"]

Top == stack[Len(stack)]
Pop == stack' = Front(stack)
SetTop(fr) == stack' = [stack EXCEPT ![Len(stack)] = fr]
SetTopPush(fr, new) == stack' = Append([stack EXCEPT ![Len(stack)] = fr], new)

Init ==
  /\ topo \in Topologies
  /\ phase = "boot"
  /\ fbBus = 1
  /\ stack = << >>
  /\ devices = << >>
  /\ drvHead = NULL
  /\ drvNext = [d \in Drivers |-> NULL]
  /\ owner = [l \in Locs |-> NULL]
  /\ allocFailed = FALSE
  /\ regd = {}
  /\ offered = {}
  /\ claims = {}
  /\ lastRemove = {}

Quiet == stack = << >>

(***************************************************************************)
(* pci_init                                                                *)
(***************************************************************************)
\* Read 0:0.0; all ones means no PCI: return.  Otherwise pci_scan_bus(0).
PciInit ==
  /\ phase = "boot" /\ Quiet
  /\ IF Present(0, 0, 0)
     THEN phase' = "scan0" /\ stack' = <<BusFrame(0)>>
     ELSE phase' = "done" /\ UNCHANGED stack
  /\ UNCHANGED <<topo, fbBus, devices, drvHead, drvNext, owner, allocFailed,
                 regd, offered, claims, lastRemove>>

\* After bus 0: if pci_devices is still empty, scan buses 1..7 by brute force.
PciInitFallback ==
  /\ phase = "scan0" /\ Quiet
  /\ phase' = IF devices = << >> THEN "fallback" ELSE "done"
  /\ UNCHANGED <<topo, fbBus, stack, devices, drvHead, drvNext, owner,
                 allocFailed, regd, offered, claims, lastRemove>>

\* One iteration of the fallback loop: scan the bus if 0 reads a vendor.
PciInitFallbackBus ==
  /\ phase = "fallback" /\ Quiet
  /\ IF fbBus = FallbackBuses
     THEN phase' = "done" /\ UNCHANGED <<fbBus, stack>>
     ELSE /\ fbBus' = fbBus + 1
          /\ stack' = IF Present(fbBus, 0, 0) THEN <<BusFrame(fbBus)>> ELSE stack
          /\ UNCHANGED phase
  /\ UNCHANGED <<topo, devices, drvHead, drvNext, owner, allocFailed,
                 regd, offered, claims, lastRemove>>

(***************************************************************************)
(* The scan loops.  Each leaves the drivers and bindings to Probe.         *)
(***************************************************************************)
\* Mutant: the loop runs one device too far (device <= 32).
ScanBusPastEnd ==
  /\ stack # << >> /\ Top.k = "bus"
  /\ IF Top.dev = DevSlots + 1
     THEN Pop
     ELSE SetTopPush([Top EXCEPT !.dev = @ + 1], DevFrame(Top.bus, Top.dev))
  /\ UNCHANGED <<topo, phase, fbBus, devices, drvHead, drvNext, owner,
                 allocFailed, regd, offered, claims, lastRemove>>

\* pci_scan_bus: for (device = 0; device < 32; device++) pci_scan_device.
ScanBus ==
  /\ stack # << >> /\ Top.k = "bus"
  /\ IF Top.dev = DevSlots
     THEN Pop
     ELSE SetTopPush([Top EXCEPT !.dev = @ + 1], DevFrame(Top.bus, Top.dev))
  /\ UNCHANGED <<topo, phase, fbBus, devices, drvHead, drvNext, owner,
                 allocFailed, regd, offered, claims, lastRemove>>

\* Mutant: the multi-function loop starts at function 0 again.
ScanDeviceFromZero ==
  /\ stack # << >> /\ Top.k = "dev"
  /\ LET b == Top.bus  d == Top.dev  f == Top.fn IN
     IF ~Top.loop
     THEN IF ~Present(b, d, 0) THEN Pop
          ELSE SetTopPush([Top EXCEPT !.loop = TRUE, !.fn = 0], FnFrame(<<b, d, 0>>))
     ELSE IF ~Multi(b, d) \/ f = Functions THEN Pop
     ELSE IF Present(b, d, f)
          THEN SetTopPush([Top EXCEPT !.fn = f + 1], FnFrame(<<b, d, f>>))
          ELSE SetTop([Top EXCEPT !.fn = f + 1])
  /\ UNCHANGED <<topo, phase, fbBus, devices, drvHead, drvNext, owner,
                 allocFailed, regd, offered, claims, lastRemove>>

\* pci_scan_device: nothing unless function 0 answers; scan function 0;
\* then, if header_type of function 0 has the multi-function bit, every
\* answering function 1..7.
ScanDevice ==
  /\ stack # << >> /\ Top.k = "dev"
  /\ LET b == Top.bus  d == Top.dev  f == Top.fn IN
     IF ~Top.loop
     THEN IF ~Present(b, d, 0) THEN Pop
          ELSE SetTopPush([Top EXCEPT !.loop = TRUE, !.fn = 1], FnFrame(<<b, d, 0>>))
     ELSE IF ~Multi(b, d) \/ f = Functions THEN Pop
     ELSE IF Present(b, d, f)
          THEN SetTopPush([Top EXCEPT !.fn = f + 1], FnFrame(<<b, d, f>>))
          ELSE SetTop([Top EXCEPT !.fn = f + 1])
  /\ UNCHANGED <<topo, phase, fbBus, devices, drvHead, drvNext, owner,
                 allocFailed, regd, offered, claims, lastRemove>>

\* pci_create_device, then the rest of pci_scan_function up to the driver
\* loop.  kmalloc may fail: the function returns and the device is lost.
\* Otherwise the device goes to the head of pci_devices and, for a bridge,
\* pci_scan_bus(secondary bus, config offset 0x19) runs before the driver
\* loop.  pci_drivers cannot change during that recursion, so the loop's
\* start is read here.
ScanFunctionCreate ==
  /\ stack # << >> /\ Top.k = "fn" /\ Top.stage = "create"
  /\ LET loc == Top.loc
         matching == [Top EXCEPT !.stage = "match", !.drv = drvHead]
     IN \/ /\ Pop
           /\ allocFailed' = TRUE
           /\ UNCHANGED devices
        \/ /\ devices' = <<loc>> \o devices
           /\ IF IsBridge(loc) THEN SetTopPush(matching, BusFrame(topo[loc].sec))
                               ELSE SetTop(matching)
           /\ UNCHANGED allocFailed
  /\ UNCHANGED <<topo, phase, fbBus, drvHead, drvNext, owner, regd, offered,
                 claims, lastRemove>>

\* One iteration of pci_scan_function's `while (driver)` loop.
ScanFunctionMatch ==
  /\ stack # << >> /\ Top.k = "fn" /\ Top.stage = "match"
  /\ IF Top.drv = NULL
     THEN Pop /\ UNCHANGED <<offered, owner, claims>>
     ELSE Probe(Top.drv, Top.loc) /\ SetTop([Top EXCEPT !.drv = drvNext[Top.drv]])
  /\ UNCHANGED <<topo, phase, fbBus, devices, drvHead, drvNext, allocFailed,
                 regd, lastRemove>>

(***************************************************************************)
(* Driver management.  A caller registers a driver once: registering one  *)
(* that is already on the list makes driver->next point to itself.        *)
(***************************************************************************)
RegFrame(drv) == [k |-> "reg", drv |-> drv, i |-> 1]

\* Mutant: the driver is linked but not offered the existing devices.
RegisterDriverNoMatch(drv) ==
  /\ Quiet /\ phase \in {"boot", "done"} /\ drv \notin regd
  /\ drvNext' = [drvNext EXCEPT ![drv] = drvHead]
  /\ drvHead' = drv
  /\ regd' = regd \cup {drv}
  /\ UNCHANGED <<topo, phase, fbBus, stack, devices, owner, allocFailed,
                 offered, claims, lastRemove>>

\* pci_register_driver: push onto pci_drivers, then walk pci_devices.
RegisterDriver(drv) ==
  /\ Quiet /\ phase \in {"boot", "done"} /\ drv \notin regd
  /\ drvNext' = [drvNext EXCEPT ![drv] = drvHead]
  /\ drvHead' = drv
  /\ regd' = regd \cup {drv}
  /\ stack' = <<RegFrame(drv)>>
  /\ UNCHANGED <<topo, phase, fbBus, devices, owner, allocFailed, offered,
                 claims, lastRemove>>

\* One iteration of pci_register_driver's `while (dev)` loop.
RegisterMatch ==
  /\ stack # << >> /\ Top.k = "reg"
  /\ IF Top.i > Len(devices)
     THEN Pop /\ UNCHANGED <<offered, owner, claims>>
     ELSE Probe(Top.drv, devices[Top.i]) /\ SetTop([Top EXCEPT !.i = @ + 1])
  /\ UNCHANGED <<topo, phase, fbBus, devices, drvHead, drvNext, allocFailed,
                 regd, lastRemove>>

\* The drivers a walk from p along driver->next visits.
RECURSIVE DrvChain(_, _)
DrvChain(p, k) == IF p = NULL \/ k = 0 THEN << >> ELSE <<p>> \o DrvChain(drvNext[p], k - 1)

DriverList == DrvChain(drvHead, Cardinality(Drivers) + 1)

\* Mutant: the predecessor is linked to the removed driver itself.
UnlinkSelf(drv) ==
  IF drvHead = drv
  THEN drvHead' = drvNext[drv] /\ UNCHANGED drvNext
  ELSE LET preds == {i \in 1..Len(DriverList) : drvNext[DriverList[i]] = drv}
       IN /\ drvNext' = IF preds = {} THEN drvNext
                        ELSE [drvNext EXCEPT ![DriverList[Min(preds)]] = drv]
          /\ UNCHANGED drvHead

\* The unlinking half of pci_unregister_driver: the head case, or the walk
\* to the driver's predecessor (none when the driver is not on the list).
Unlink(drv) ==
  IF drvHead = drv
  THEN drvHead' = drvNext[drv] /\ UNCHANGED drvNext
  ELSE LET preds == {i \in 1..Len(DriverList) : drvNext[DriverList[i]] = drv}
       IN /\ drvNext' = IF preds = {} THEN drvNext
                        ELSE [drvNext EXCEPT ![DriverList[Min(preds)]] = drvNext[drv]]
          /\ UNCHANGED drvHead

\* pci_unregister_driver: unlink, then driver->remove(dev) for every device
\* whose driver_data is set, if the driver has a remove.
UnregisterDriver(drv) ==
  /\ Quiet /\ phase \in {"boot", "done"}
  /\ Unlink(drv)
  /\ LET R == IF HasRemove[drv]
              THEN {l \in ToSet(devices) : owner[l] # NULL} ELSE {}
     IN /\ owner' = [l \in Locs |-> IF l \in R THEN NULL ELSE owner[l]]
        /\ claims' = claims \ {<<drv, l>> : l \in R}
        /\ lastRemove' = {<<drv, l, <<drv, l>> \in claims>> : l \in R}
  /\ regd' = regd \ {drv}
  /\ UNCHANGED <<topo, phase, fbBus, stack, devices, allocFailed, offered>>

Next ==
  \/ PciInit \/ PciInitFallback \/ PciInitFallbackBus
  \/ ScanBus \/ ScanDevice \/ ScanFunctionCreate \/ ScanFunctionMatch
  \/ RegisterMatch
  \/ \E drv \in Drivers : RegisterDriver(drv) \/ UnregisterDriver(drv)

Spec == Init /\ [][Next]_vars

(***************************************************************************)
(* Properties.                                                             *)
(***************************************************************************)
FrameOK(fr) ==
  CASE fr.k = "bus" -> fr.bus \in Buses /\ fr.dev \in 0..DevSlots
    [] fr.k = "dev" -> fr.bus \in Buses /\ fr.dev \in 0..DevSlots - 1
                       /\ fr.fn \in 0..Functions
    [] fr.k = "fn"  -> fr.loc \in Locs /\ fr.drv \in Drivers \cup {NULL}
    [] fr.k = "reg" -> fr.drv \in Drivers /\ fr.i \in 1..Len(devices) + 1
    [] OTHER -> FALSE

TypeOK ==
  /\ phase \in {"boot", "scan0", "fallback", "done"}
  /\ fbBus \in 1..FallbackBuses
  /\ \A i \in 1..Len(stack) : FrameOK(stack[i])
  /\ devices \in Seq(Locs)
  /\ drvHead \in Drivers \cup {NULL}
  /\ drvNext \in [Drivers -> Drivers \cup {NULL}]
  /\ owner \in [Locs -> Drivers \cup {NULL}]
  /\ claims \subseteq Drivers \X Locs

\* The functions the recursive scan reaches from the buses in S: on each
\* bus, function 0 of every answering device and, of a multi-function one,
\* every answering function.
Scanned(S) ==
  {l \in Locs : /\ l[1] \in S /\ Present(l[1], l[2], 0) /\ Present(l[1], l[2], l[3])
                /\ (l[3] = 0 \/ Multi(l[1], l[2]))}

\* Bus 0 and every bus behind a bridge found on a reached bus.
RECURSIVE ReachedBuses(_, _)
ReachedBuses(S, k) ==
  IF k = 0 THEN S
  ELSE ReachedBuses(S \cup {topo[l].sec : l \in {l \in Scanned(S) : IsBridge(l)}}, k - 1)

ExpectedDevices ==
  IF Present(0, 0, 0) THEN Scanned(ReachedBuses({0}, Cardinality(Buses))) ELSE {}

\* Enumeration is exact: pci_devices never lists a function twice, and once
\* pci_init has returned with every kmalloc successful it lists exactly the
\* functions reachable from bus 0 through bridges, multi-function devices
\* included.
EnumerationExact ==
  /\ IsInjective(devices)
  /\ phase = "done" /\ ~allocFailed => ToSet(devices) = ExpectedDevices

\* pci_drivers, walked from its head, ends in NULL and holds each
\* registered driver exactly once, whatever order of register and
\* unregister calls (head or middle of the list, unknown drivers) ran.
DriverListExact ==
  /\ IsInjective(DriverList)
  /\ Len(DriverList) <= Cardinality(Drivers)
  /\ ToSet(DriverList) = regd

\* Between calls, every listed device that a registered driver's id arrays
\* match has been offered to that driver's probe, whichever came first:
\* the device (pci_register_driver's walk) or the driver (pci_scan_function's).
ProbeOffered ==
  Quiet =>
    \A drv \in regd, i \in 1..Len(devices) :
      Matches(drv, devices[i]) /\ HasProbe[drv] => <<drv, devices[i]>> \in offered

\* pci_unregister_driver, in its comment: "Call remove function for all
\* devices using this driver".  A driver's remove is called only on a
\* device that driver's probe claimed.
RemoveOnlyOwn == \A r \in lastRemove : r[3]

=============================================================================
