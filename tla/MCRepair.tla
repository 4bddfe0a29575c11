------------------------------ MODULE MCRepair ------------------------------
(***************************************************************************)
(* Instances of Repair for TLC: two namespaces, and runs that follow or    *)
(* overlap each other.                                                     *)
(***************************************************************************)
EXTENDS Repair, TLC

CONSTANTS a, b, d1, d2, d3

\* A store that never becomes empty, and one that may.
SomeZones == {{a}, {a, b}, {b}}
AnyZones == {{}, {a}, {a, b}}

Runs == {d1, d2}
MoreRuns == {d1, d2, d3}
OneRun == {d1}
Window == {d1}
NoWindow == {}
=============================================================================
