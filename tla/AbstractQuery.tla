--------------------------- MODULE AbstractQuery ---------------------------
(***************************************************************************)
(* What a scan of a table function promises its client: it has one right   *)
(* answer, a sequence of rows; it gives nothing until it has the whole of  *)
(* it, then gives it a piece at a time from the front, and says that it is *)
(* finished only when all of it is given.  It may fail at any time.        *)
(***************************************************************************)
EXTENDS Integers, Sequences

CONSTANT Row

VARIABLES
    status,  \* "asked", "answering", "finished" or "failed"
    answer,  \* the right answer
    rows     \* what the client has of it

vars == <<status, answer, rows>>

Init == /\ status = "asked"
        /\ answer \in Seq(Row)
        /\ rows = << >>

Fetched == /\ status = "asked"
           /\ status' = "answering"
           /\ UNCHANGED <<answer, rows>>

Give == /\ status = "answering"
        /\ \E n \in Len(rows) + 1 .. Len(answer) : rows' = SubSeq(answer, 1, n)
        /\ UNCHANGED <<status, answer>>

Finish == /\ status = "answering"
          /\ rows = answer
          /\ status' = "finished"
          /\ UNCHANGED <<answer, rows>>

Fail == /\ status \in {"asked", "answering"}
        /\ status' = "failed"
        /\ UNCHANGED <<answer, rows>>

Next == Fetched \/ Give \/ Finish \/ Fail

Spec == Init /\ [][Next]_vars
=============================================================================
