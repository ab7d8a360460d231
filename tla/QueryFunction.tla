--------------------------- MODULE QueryFunction ---------------------------
(***************************************************************************)
(* A scan of odata_query from its arguments to its last row: NewState of   *)
(* functions.go runs the page loop of client.go (PagedService) to its end, *)
(* and what that returns is then scanned (Scan).                           *)
(***************************************************************************)
EXTENDS PagedService

CONSTANTS rowsPerTick, MaxLosses, None

VARIABLES
    ask,  \* the bound arguments: which positional ones are NULL, and max_rows
    transport, phase, live, token, reply, got, fetched, losses

Cursor == INSTANCE Scan WITH Item <- Row, Results <- {}

ASSUME CursorAssumption ==
    /\ rowsPerTick \in Nat \ {0}
    /\ MaxLosses \in Nat
    /\ None \notin Cursor!State \cup Cursor!Reply

queryVars == <<vars, layout>>
scanVars == <<transport, phase, live, token, reply, got, fetched, losses>>
allVars == <<ask, queryVars, scanVars>>

Ask == [urlNull : BOOLEAN, setNull : BOOLEAN, max : MaxRowsArg]

QInit == /\ ask \in Ask
         /\ PInit
         /\ Cursor!Init

\* isNullArg on service_url and on entity_set; the slip is to test one of them.
UrlIsNull(a) == a.urlNull
IsNull(a) == a.urlNull \/ a.setNull

InNewState == phase = "idle"

\* BindArgs rejects the arguments.
BindFails ==
    /\ InNewState
    /\ pc = "start"
    /\ Cursor!OpenFails
    /\ UNCHANGED <<ask, queryVars>>

\* A NULL argument: the empty state, and no request.
NullState ==
    /\ InNewState
    /\ pc = "start"
    /\ IsNull(ask)
    /\ Cursor!Open(<< >>)
    /\ UNCHANGED <<ask, queryVars>>

\* NewState runs Query, in the same goroutine.
StartQuery ==
    /\ InNewState
    /\ ~IsNull(ask)
    /\ Start(ask.max, layout[1].at)
    /\ UNCHANGED <<ask, layout, scanVars>>

QueryStep ==
    /\ InNewState
    /\ \/ Return \/ Abort \/ Request \/ GetFails
       \/ ReceivePage \/ AppendRow \/ Advance
    /\ UNCHANGED <<ask, layout, scanVars>>

\* Query returns to NewState: all of its rows become the state, or none do.
NewState ==
    /\ InNewState
    /\ \/ pc = "done" /\ Cursor!Open(Returned)
       \/ pc = "failed" /\ Cursor!OpenFails
    /\ UNCHANGED <<ask, queryVars>>

\* The ticks of Process and the exchanges that carry them.
ScanStep ==
    /\ Cursor!Resume \/ Cursor!Emit \/ Cursor!Finish \/ Cursor!Deliver
    /\ UNCHANGED <<ask, queryVars>>

Disturbance ==
    /\ Cursor!LoseExchange \/ Cursor!Broken
    /\ UNCHANGED <<ask, queryVars>>

Ended == phase \in {"finished", "failed"} /\ UNCHANGED allVars

QNext == \/ BindFails \/ NullState \/ StartQuery \/ QueryStep \/ NewState
         \/ ScanStep \/ Disturbance \/ Ended

QSpec == QInit /\ [][QNext]_allVars

\* The worker runs what it is asked to run; the client reads what it is sent.
QFairSpec == /\ QSpec
             /\ WF_allVars(NullState \/ StartQuery \/ QueryStep \/ NewState)
             /\ WF_allVars(ScanStep)

(***************************************************************************)
(* Properties                                                              *)
(***************************************************************************)
\* The right answer: none of the collection if an argument is NULL, else its
\* first max_rows entities, numbered.
Limit == IF ask.max > 0 THEN ask.max ELSE defaultMaxRows

Answer ==
    LET all == Collection(layout)
        n   == IF Len(all) < Limit THEN Len(all) ELSE Limit
    IN  IF ask.urlNull \/ ask.setNull THEN << >>
        ELSE [i \in 1 .. n |-> [seq |-> i - 1, entity |-> all[i]]]

Promise == INSTANCE AbstractQuery WITH
    status <- CASE phase = "idle" -> "asked"
                [] phase = "open" -> "answering"
                [] OTHER -> phase,
    answer <- Answer,
    rows   <- got

\* The page loop, the eager fetch and the cursor together keep the promise: the
\* client gets the right rows in order or a failure, never a wrong or a short
\* answer presented as complete (functions.go NewState and Process, client.go).
KeepsPromise == Promise!Spec

\* Every step leaves the query with less to do and the scan where it is, or the scan
\* with less and the query where it is: neither half sets the other back, so that a
\* call ends for the same reasons as each of them (functions.go, NewState before the
\* first tick).
LessToDo ==
    [][\/ Less(Left', Left) /\ UNCHANGED Cursor!Left
       \/ Cursor!Less((Cursor!Left)', Cursor!Left) /\ UNCHANGED Left]_allVars

\* Every scan ends.
Ends == <>(phase \in {"finished", "failed"})
=============================================================================
