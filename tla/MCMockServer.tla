---------------------------- MODULE MCMockServer ----------------------------
(***************************************************************************)
(* Three concurrent requests: two for the first page, of clients whose     *)
(* queries differ, and one for the second.                                 *)
(***************************************************************************)
EXTENDS MockServer

CONSTANTS r1, r2, r3

MCRequest == {r1, r2, r3}
MCFirstPage == {r1, r2}
=============================================================================
