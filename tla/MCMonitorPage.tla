--------------------------- MODULE MCMonitorPage ---------------------------
(***************************************************************************)
(* The monitor page for TLC: every field starts with the same value.       *)
(***************************************************************************)
EXTENDS MonitorPage

CONSTANT first

MCFirstConfig == [f \in Fields |-> first]
=============================================================================
