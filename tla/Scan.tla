-------------------------------- MODULE Scan --------------------------------
(***************************************************************************)
(* One scan of a table function of functions.go.  NewState fetches every   *)
(* row; each Process tick then emits the next rowsPerTick of them, until   *)
(* none remain.  Between NewState and Process, and over HTTP after every   *)
(* tick, the state crosses a gob encoding: on the HTTP transport it lives  *)
(* only in the continuation token that the client sends back, and any      *)
(* worker may serve the next exchange.  The three functions differ in      *)
(* their rows alone.                                                       *)
(***************************************************************************)
EXTENDS Integers, Sequences

CONSTANTS
    Item,          \* rows a function can produce
    Results,       \* what NewState may fetch: sequences of rows
    rowsPerTick,   \* 256 in the code
    MaxLosses,     \* bound of the model on the exchanges lost in one scan
    None

ASSUME ResultsAssumption == Results \subseteq Seq(Item)
ASSUME RowsPerTickAssumption == rowsPerTick \in Nat \ {0}
ASSUME MaxLossesAssumption == MaxLosses \in Nat

\* The state structs: the rows, and the cursor, which never leaves them.
State == {s \in [rows : Seq(Item), offset : Nat] : s.offset <= Len(s.rows)}

(***************************************************************************)
(* gob: the exported fields are sent, and a field that is not sent decodes *)
(* to its zero value (which is why it makes no difference that gob sends   *)
(* no zero field).  All fields are exported; the slip is a cursor that is  *)
(* not.                                                                    *)
(***************************************************************************)
CursorUnexported == {"rows"}
Exported == {"rows", "offset"}

Encode(s) == [f \in Exported |-> s[f]]

Decode(t) == [rows   |-> IF "rows" \in DOMAIN t THEN t["rows"] ELSE << >>,
              offset |-> IF "offset" \in DOMAIN t THEN t["offset"] ELSE 0]

Reply == [batch : Seq(Item), token : State \cup {None}]

ASSUME NoneAssumption == None \notin State \cup Reply

(***************************************************************************)
(* cursorSlice: whether the rows are consumed, else the next slice and the *)
(* cursor past it.                                                         *)
(***************************************************************************)
\* The slip of testing for the end one row late.
ConsumedLate(s) == s.offset > Len(s.rows)
Consumed(s) == s.offset >= Len(s.rows)

\* The end of the slice; the slip is to reckon it from the first row.
EndFixed(s) ==
    IF rowsPerTick > Len(s.rows) THEN Len(s.rows) ELSE rowsPerTick
End(s) ==
    IF s.offset + rowsPerTick > Len(s.rows) THEN Len(s.rows) ELSE s.offset + rowsPerTick

Slice(s) == SubSeq(s.rows, s.offset + 1, End(s))

\* *offset = end; the slips are to leave that for after the batch is out, and to
\* move by a whole tick.
AdvancedTooLate(s) == s
AdvancedByTick(s) == [s EXCEPT !.offset = @ + rowsPerTick]
Advanced(s) == [s EXCEPT !.offset = End(s)]

VARIABLES
    transport,  \* "live" (stdio and AF_UNIX: a process holds the state) or "http"
    phase,      \* of the scan as the client sees it
    live,       \* the state in the memory of a worker, or None
    token,      \* the encoded state that the next tick resumes from, or None
    reply,      \* HTTP response on its way to the client, or None
    got,        \* rows the client has received
    fetched,    \* history: the rows NewState fetched
    losses      \* exchanges lost so far

vars == <<transport, phase, live, token, reply, got, fetched, losses>>

Init ==
    /\ transport \in {"live", "http"}
    /\ phase = "idle"
    /\ live = None
    /\ token = None
    /\ reply = None
    /\ got = << >>
    /\ fetched = << >>
    /\ losses = 0

\* NewState succeeds: the state is encoded with its cursor at the first row.
Open(rows) ==
    /\ phase = "idle"
    /\ phase' = "open"
    /\ fetched' = rows
    /\ token' = Encode([rows |-> rows, offset |-> 0])
    /\ UNCHANGED <<transport, live, reply, got, losses>>

\* NewState fails: the arguments do not bind, or the fetch returns an error.
OpenFails ==
    /\ phase = "idle"
    /\ phase' = "failed"
    /\ UNCHANGED <<transport, live, token, reply, got, fetched, losses>>

\* A worker takes up the state; over HTTP the client keeps its token until the
\* response brings another.
Resume ==
    /\ phase = "open"
    /\ token # None
    /\ live = None
    /\ reply = None
    /\ live' = Decode(token)
    /\ token' = IF transport = "http" THEN token ELSE None
    /\ UNCHANGED <<transport, phase, reply, got, fetched, losses>>

\* A Process tick that emits.  A worker that stays up keeps the state and the
\* client reads the batch from the stream; over HTTP the state leaves with it.
Emit ==
    /\ live # None
    /\ ~Consumed(live)
    /\ IF transport = "http"
       THEN /\ reply' = [batch |-> Slice(live), token |-> Encode(Advanced(live))]
            /\ live' = None
            /\ UNCHANGED got
       ELSE /\ live' = Advanced(live)
            /\ got' = got \o Slice(live)
            /\ UNCHANGED reply
    /\ UNCHANGED <<transport, phase, token, fetched, losses>>

\* A Process tick that finds the rows consumed: out.Finish.
Finish ==
    /\ live # None
    /\ Consumed(live)
    /\ live' = None
    /\ IF transport = "http"
       THEN reply' = [batch |-> << >>, token |-> None] /\ UNCHANGED phase
       ELSE phase' = "finished" /\ UNCHANGED reply
    /\ UNCHANGED <<transport, token, got, fetched, losses>>

\* The client receives an HTTP response; one without a token ends the scan.
Deliver ==
    /\ reply # None
    /\ got' = got \o reply.batch
    /\ token' = reply.token
    /\ phase' = IF reply.token = None THEN "finished" ELSE phase
    /\ reply' = None
    /\ UNCHANGED <<transport, live, fetched, losses>>

\* An exchange is lost with its worker or its response; the client may repeat
\* it with the token it still has (Resume).
LoseExchange ==
    /\ transport = "http"
    /\ live # None \/ reply # None
    /\ losses < MaxLosses
    /\ losses' = losses + 1
    /\ live' = None
    /\ reply' = None
    /\ UNCHANGED <<transport, phase, token, got, fetched>>

\* The client stops instead, or the process that held the state is gone.
Broken ==
    /\ phase = "open"
    /\ transport = "http" => live = None /\ reply = None
    /\ phase' = "failed"
    /\ live' = None
    /\ UNCHANGED <<transport, token, reply, got, fetched, losses>>

Terminated == phase \in {"finished", "failed"} /\ UNCHANGED vars

Next ==
    \/ \E rows \in Results : Open(rows)
    \/ OpenFails
    \/ Resume
    \/ Emit
    \/ Finish
    \/ Deliver
    \/ LoseExchange
    \/ Broken
    \/ Terminated

Spec == Init /\ [][Next]_vars

(***************************************************************************)
(* The framework ticks an open scan and the client reads what it is sent   *)
(* and asks for more; nothing says that a scan is opened, lost or broken.  *)
(***************************************************************************)
FairSpec == /\ Spec
            /\ WF_vars(Resume)
            /\ WF_vars(Emit)
            /\ WF_vars(Finish)
            /\ WF_vars(Deliver)

(***************************************************************************)
(* Properties                                                              *)
(***************************************************************************)
TypeOK ==
    /\ transport \in {"live", "http"}
    /\ phase \in {"idle", "open", "finished", "failed"}
    /\ live \in State \cup {None}
    /\ token \in State \cup {None}
    /\ reply \in Reply \cup {None}
    /\ got \in Seq(Item)
    /\ fetched \in Seq(Item)
    /\ losses \in 0 .. MaxLosses

\* The first n rows fetched.
Upto(n) == SubSeq(fetched, 1, n)

\* The client receives the rows fetched, in order, none twice and none left out,
\* however the ticks fall and whatever exchange is lost and repeated; the scan
\* ends with all of them (functions.go, the comment on the explicit cursor).
ExactlyOnce ==
    /\ Len(got) <= Len(fetched) /\ got = Upto(Len(got))
    /\ phase = "finished" => got = fetched

\* Whatever a tick will resume from, the token of the client or the state of a
\* live process, holds the rows fetched and stands where the client's rows end
\* (functions.go, "the position MUST live in the serialized state").
CursorAgrees ==
    phase = "open" =>
        \A s \in {live} \cup (IF token = None THEN {} ELSE {Decode(token)}) :
            s # None => s = [rows |-> fetched, offset |-> Len(got)]

\* A response carries at most rowsPerTick rows, never an empty batch with a token
\* to come back with: every exchange that does not end the scan brings rows
\* (functions.go, rowsPerTick).
BatchesBounded ==
    reply # None => /\ Len(reply.batch) <= rowsPerTick
                    /\ reply.token # None => reply.batch # << >>

\* A token sent to the client stands past the one it answers, so that the scan
\* cannot go round (functions.go, "an infinite loop").
TokenAdvances ==
    [][reply = None /\ reply' # None /\ reply'.token # None
       => Decode(reply'.token).offset > Decode(token).offset]_vars

\* What a scan has still to do: whether it has been opened and has ended, the
\* exchanges that may be lost, the rows that the client lacks, and how far the
\* exchange at hand is.
Left == [phase  |-> CASE phase = "idle" -> 2 [] phase = "open" -> 1 [] OTHER -> 0,
         losses |-> MaxLosses - losses,
         rows   |-> Len(fetched) - Len(got),
         stage  |-> CASE reply # None -> 0 [] live # None -> 1 [] OTHER -> 2]

Less(x, y) ==
    \/ x.phase < y.phase
    \/ x.phase = y.phase /\ x.losses < y.losses
    \/ x.phase = y.phase /\ x.losses = y.losses /\ x.rows < y.rows
    \/ x.phase = y.phase /\ x.losses = y.losses /\ x.rows = y.rows /\ x.stage < y.stage

\* Every step brings a scan nearer to its end or uses up a loss: no exchange leaves
\* the client where it was with a response like the last to come (functions.go, "an
\* infinite loop").
StepsCountDown ==
    [][/\ Left \in [phase : Nat, losses : Nat, rows : Nat, stage : Nat]
       /\ Less(Left', Left)]_vars

\* An open scan ends, when only finitely many of its exchanges are lost.
Drains == (phase = "open") ~> (phase \in {"finished", "failed"})
=============================================================================
