--------------------------- MODULE MCIntegration ---------------------------
(***************************************************************************)
(* A suite with three concurrent requests: two for the first page, of      *)
(* tests whose queries differ, and one for the second.                     *)
(***************************************************************************)
EXTENDS Integration

CONSTANTS r1, r2, r3

MCRequest == {r1, r2, r3}
MCFirstPage == {r1, r2}
=============================================================================
