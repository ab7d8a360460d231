------------------------------- MODULE MCScan -------------------------------
(***************************************************************************)
(* Scans of 0 to 5 rows, two to a tick: no rows, less than a tick, whole   *)
(* ticks, and a last tick cut short.                                       *)
(***************************************************************************)
EXTENDS Scan

MCItem == 1 .. 5
MCResults == {[i \in 1 .. n |-> i] : n \in 0 .. 5}
=============================================================================
