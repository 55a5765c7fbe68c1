------------------------------- MODULE MCPCI -------------------------------
(* PCI with the machines and drivers of PCIMachines.                      *)
EXTENDS PCI, PCIMachines

CONSTANTS NullPtr
=============================================================================
