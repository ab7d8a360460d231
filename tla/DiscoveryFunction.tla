------------------------- MODULE DiscoveryFunction -------------------------
(***************************************************************************)
(* A scan of odata_entity_sets or odata_metadata from its argument to its  *)
(* last row: NewState of functions.go makes one fetch (Discovery), and     *)
(* what that returns is then scanned (Scan).                               *)
(***************************************************************************)
EXTENDS Discovery

CONSTANTS rowsPerTick, MaxLosses, None

VARIABLES
    urlNull,  \* service_url is NULL
    transport, phase, live, token, reply, got, fetched, losses

Item == AnyName \cup [entityType : AnyName, property : AnyName, type : AnyName]

Cursor == INSTANCE Scan WITH Results <- {}

ASSUME CursorAssumption ==
    /\ rowsPerTick \in Nat \ {0}
    /\ MaxLosses \in Nat
    /\ None \notin Cursor!State \cup Cursor!Reply

scanVars == <<transport, phase, live, token, reply, got, fetched, losses>>
vars == <<urlNull, discoveryVars, scanVars>>

FInit == /\ urlNull \in BOOLEAN
         /\ Init
         /\ Cursor!Init

\* BindArgs rejects the arguments.
BindFails ==
    /\ pc = "get"
    /\ Cursor!OpenFails
    /\ UNCHANGED <<urlNull, discoveryVars>>

\* The empty state, and no request.
NullState ==
    /\ pc = "get"
    /\ urlNull
    /\ Cursor!Open(<< >>)
    /\ UNCHANGED <<urlNull, discoveryVars>>

FetchRows ==
    /\ phase = "idle"
    /\ ~urlNull
    /\ Fetch
    /\ UNCHANGED <<urlNull, scanVars>>

\* EntitySets or Metadata returns to NewState.  The slip is to keep what there
\* is, and to lose the error.
ErrorLost == Cursor!Open(result)
NewStateFails == Cursor!OpenFails

NewState ==
    /\ \/ pc = "done" /\ Cursor!Open(result)
       \/ pc = "failed" /\ NewStateFails
    /\ UNCHANGED <<urlNull, discoveryVars>>

\* The ticks of Process and the exchanges that carry them.
ScanStep ==
    /\ Cursor!Resume \/ Cursor!Emit \/ Cursor!Finish \/ Cursor!Deliver
    /\ UNCHANGED <<urlNull, discoveryVars>>

Disturbance ==
    /\ Cursor!LoseExchange \/ Cursor!Broken
    /\ UNCHANGED <<urlNull, discoveryVars>>

Terminated == phase \in {"finished", "failed"} /\ UNCHANGED vars

Next == \/ BindFails \/ NullState \/ FetchRows \/ NewState
        \/ ScanStep \/ Disturbance \/ Terminated

Spec == FInit /\ [][Next]_vars

\* The worker runs what it is asked to run, within the timeout of its request;
\* the client reads what it is sent.
FairSpec == /\ Spec
            /\ WF_vars(NullState \/ FetchRows \/ NewState)
            /\ WF_vars(ScanStep)

(***************************************************************************)
(* Properties                                                              *)
(***************************************************************************)
\* The right answer: nothing without a service_url, else what the document holds.
Answer ==
    CASE urlNull -> << >>
      [] ~urlNull /\ doc \in ServiceDoc -> Advertised(doc)
      [] OTHER -> Declared(IF doc.schemas = << >> THEN doc.bare ELSE doc.schemas)

Promise == INSTANCE AbstractQuery WITH
    Row    <- Item,
    status <- CASE phase = "idle" -> "asked"
                [] phase = "open" -> "answering"
                [] OTHER -> phase,
    answer <- Answer,
    rows   <- got

\* The fetch, the parser and the cursor together keep the promise: the client gets
\* every name or property of the document in its order, or a failure, never a
\* wrong or a short list presented as complete (functions.go NewState and Process).
KeepsPromise == Promise!Spec

\* Every scan ends.
Ends == <>(phase \in {"finished", "failed"})
=============================================================================
