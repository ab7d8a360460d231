----------------------------- MODULE ScanProofs -----------------------------
(***************************************************************************)
(* Proofs of the safety properties of Scan, for every result, every        *)
(* rowsPerTick and any number of lost exchanges.                           *)
(***************************************************************************)
EXTENDS Scan, SequenceTheorems, TLAPS

(***************************************************************************)
(* The inductive invariant: what the scan resumes from stands where the    *)
(* client's rows end (CursorAgrees), and a response under way brings the   *)
(* rows from there to where its token stands, or says that there are none. *)
(***************************************************************************)
AtCursor(n) == [rows |-> fetched, offset |-> n]

Brings(r) ==
    LET n == Len(got) + Len(r.batch)
    IN  IF r.token = None
        THEN r.batch = << >> /\ Len(got) = Len(fetched)
        ELSE /\ r.token = AtCursor(n)
             /\ n <= Len(fetched)
             /\ r.batch = SubSeq(fetched, Len(got) + 1, n)
             /\ Len(r.batch) \in 1 .. rowsPerTick

UnderWay ==
    /\ reply # None => /\ transport = "http" /\ phase = "open"
                       /\ live = None /\ token # None
                       /\ Brings(reply)
    /\ live # None => phase = "open" /\ (transport = "http" <=> token # None)
    /\ phase = "idle" => got = << >> /\ fetched = << >> /\ token = None

IInv == /\ TypeOK
        /\ ExactlyOnce
        /\ CursorAgrees
        /\ UnderWay

(***************************************************************************)
(* gob and cursorSlice                                                     *)
(***************************************************************************)
\* A state survives its encoding, cursor included (functions.go, the note on
\* exported fields).
LEMMA GobFaithful ==
    ASSUME NEW s \in State
    PROVE  Encode(s) = s /\ Decode(Encode(s)) = s
  BY DEF State, Encode, Decode, Exported

\* A slice of rows that are not consumed is not empty, is no longer than a tick,
\* starts at the cursor and ends at the new one (functions.go, cursorSlice).
LEMMA SliceFits ==
    ASSUME NEW s \in State, ~Consumed(s)
    PROVE  /\ Advanced(s) \in State
           /\ Advanced(s) = [rows |-> s.rows, offset |-> s.offset + Len(Slice(s))]
           /\ Slice(s) \in Seq(Item)
           /\ Slice(s) = SubSeq(s.rows, s.offset + 1, s.offset + Len(Slice(s)))
           /\ Len(Slice(s)) \in 1 .. rowsPerTick
           /\ s.offset + Len(Slice(s)) <= Len(s.rows)
<1>1. /\ s.rows \in Seq(Item) /\ s.offset \in Nat /\ Len(s.rows) \in Nat
      /\ s.offset < Len(s.rows) /\ rowsPerTick \in Nat \ {0}
  BY RowsPerTickAssumption, LenProperties DEF State, Consumed
<1>2. /\ End(s) \in Nat
      /\ s.offset < End(s) /\ End(s) <= Len(s.rows)
      /\ End(s) - s.offset <= rowsPerTick
  BY <1>1 DEF End
<1>3. Slice(s) \in Seq(Item) /\ Len(Slice(s)) = End(s) - s.offset
  BY <1>1, <1>2, SubSeqProperties DEF Slice
<1>4. End(s) = s.offset + Len(Slice(s))
  BY <1>1, <1>2, <1>3
<1>5. Advanced(s) = [rows |-> s.rows, offset |-> End(s)]
  BY DEF Advanced, State
<1>6. Advanced(s) \in State
  BY <1>1, <1>2, <1>5 DEF State
<1>7. Slice(s) = SubSeq(s.rows, s.offset + 1, s.offset + Len(Slice(s)))
  BY <1>4 DEF Slice
<1>8. QED
  BY <1>1, <1>2, <1>3, <1>4, <1>5, <1>6, <1>7

\* Two adjacent pieces of the rows make one.
LEMMA PiecesJoin ==
    ASSUME NEW rows \in Seq(Item), NEW m \in Nat, NEW n \in Nat,
           m + n <= Len(rows)
    PROVE  SubSeq(rows, 1, m) \o SubSeq(rows, m + 1, m + n) = SubSeq(rows, 1, m + n)
<1>1. 1 \in 1 .. Len(rows) + 1 /\ m \in 1 - 1 .. Len(rows) /\ m + n \in m .. Len(rows)
  BY LenProperties
<1>2. QED
  BY <1>1, ConcatAdjacentSubSeq, Zenon

(***************************************************************************)
(* The inductive invariant                                                 *)
(***************************************************************************)
\* No scan is open at first.
LEMMA InitIInv == Init => IInv
<1> SUFFICES ASSUME Init PROVE IInv
  OBVIOUS
<1>1. TypeOK
  BY MaxLossesAssumption DEF Init, TypeOK
<1>2. ExactlyOnce
  <2>1. << >> = SubSeq(<< >>, 1, 0)
    BY SubSeqProperties, EmptySeq
  <2>2. QED
    BY <2>1 DEF Init, ExactlyOnce, Upto
<1>3. CursorAgrees /\ UnderWay
  BY DEF Init, CursorAgrees, UnderWay
<1>4. QED
  BY <1>1, <1>2, <1>3 DEF IInv

\* Rows that continue the client's keep them a prefix of the rows fetched.
LEMMA PrefixGrows ==
    ASSUME TypeOK, ExactlyOnce,
           NEW batch, NEW n \in Nat,
           n = Len(got) + Len(batch), n <= Len(fetched), Len(batch) \in Nat,
           batch = SubSeq(fetched, Len(got) + 1, n)
    PROVE  /\ got \o batch = Upto(n)
           /\ got \o batch \in Seq(Item)
           /\ Len(got \o batch) = n
<1>1. Len(got) \in Nat /\ Len(fetched) \in Nat /\ fetched \in Seq(Item)
  BY LenProperties DEF TypeOK
<1>2. got \o batch = Upto(n)
  <2>1. got = SubSeq(fetched, 1, Len(got))
    BY DEF ExactlyOnce, Upto
  <2>2. Len(got) + Len(batch) <= Len(fetched)
    OBVIOUS
  <2>3. SubSeq(fetched, 1, Len(got))
           \o SubSeq(fetched, Len(got) + 1, Len(got) + Len(batch))
        = SubSeq(fetched, 1, Len(got) + Len(batch))
    BY <1>1, <2>2, PiecesJoin, Zenon
  <2>4. QED
    BY <2>1, <2>3, Zenon DEF Upto
<1>3. Upto(n) \in Seq(Item) /\ Len(Upto(n)) = n
  BY <1>1, SubSeqProperties DEF Upto
<1>4. QED
  BY <1>2, <1>3

\* A tick that emits, on a live process and over HTTP (functions.go, Process).
LEMMA EmitKeepsIInv == IInv /\ Emit => IInv'
<1> SUFFICES ASSUME IInv, Emit PROVE IInv'
  OBVIOUS
<1> USE DEF IInv
<1> DEFINE slice == Slice(live)
           n == Len(got) + Len(slice)
<1>1. /\ live = AtCursor(Len(got)) /\ live \in State
      /\ phase = "open" /\ reply = None
      /\ transport = "http" <=> token # None
  BY NoneAssumption DEF Emit, UnderWay, CursorAgrees, TypeOK, AtCursor
<1>2. /\ Advanced(live) \in State
      /\ Advanced(live) = AtCursor(n)
      /\ slice \in Seq(Item)
      /\ slice = SubSeq(fetched, Len(got) + 1, n)
      /\ Len(slice) \in 1 .. rowsPerTick
      /\ n <= Len(fetched)
  BY <1>1, SliceFits DEF Emit, AtCursor
<1>3. Len(got) \in Nat /\ Len(slice) \in Nat /\ n \in Nat
  BY <1>2, LenProperties DEF TypeOK
<1>4. Encode(Advanced(live)) = Advanced(live)
  BY <1>2, GobFaithful
<1> HIDE DEF slice, n
<1>5. CASE transport = "http"
  <2>1. /\ reply' = [batch |-> slice, token |-> AtCursor(n)]
        /\ live' = None
        /\ UNCHANGED <<transport, phase, token, got, fetched, losses>>
    BY <1>2, <1>4, <1>5 DEF Emit, slice
  <2>2. reply' \in Reply /\ AtCursor(n) \in State
    BY <1>2, <2>1 DEF Reply
  <2>3. TypeOK'
    BY <2>1, <2>2 DEF TypeOK
  <2>4. ExactlyOnce' /\ CursorAgrees'
    BY <2>1 DEF ExactlyOnce, Upto, CursorAgrees
  <2>5. AtCursor(n) # None
    BY <2>2, NoneAssumption
  <2>6. Brings(reply)'
    BY <1>2, <2>1, <2>5 DEF Brings, AtCursor, n
  <2>7. UnderWay'
    BY <1>1, <1>5, <2>1, <2>6 DEF UnderWay
  <2>8. QED
    BY <2>3, <2>4, <2>7
<1>6. CASE transport # "http"
  <2>1. /\ live' = AtCursor(n)
        /\ got' = got \o slice
        /\ UNCHANGED <<transport, phase, token, reply, fetched, losses>>
    BY <1>2, <1>6 DEF Emit, slice
  <2>2. /\ got' = Upto(n) /\ got' \in Seq(Item) /\ Len(got') = n
    BY <1>2, <1>3, <2>1, PrefixGrows DEF n
  <2>3. token = None
    BY <1>1, <1>6 DEF UnderWay
  <2>4. TypeOK'
    BY <1>2, <2>1, <2>2 DEF TypeOK
  <2>5. ExactlyOnce'
    BY <1>1, <1>2, <2>1, <2>2 DEF ExactlyOnce, Upto
  <2>6. CursorAgrees'
    BY <2>1, <2>2, <2>3 DEF CursorAgrees, AtCursor
  <2>7. UnderWay'
    BY <1>1, <1>6, <2>1 DEF UnderWay
  <2>8. QED
    BY <2>4, <2>5, <2>6, <2>7
<1>7. QED
  BY <1>5, <1>6

\* A response received: the last one, and one with a token.
LEMMA DeliverKeepsIInv == IInv /\ Deliver => IInv'
<1> SUFFICES ASSUME IInv, Deliver PROVE IInv'
  OBVIOUS
<1> USE DEF IInv
<1> DEFINE n == Len(got) + Len(reply.batch)
<1>1. /\ reply \in Reply /\ Brings(reply)
      /\ transport = "http" /\ phase = "open" /\ live = None
  BY DEF Deliver, UnderWay, TypeOK
<1>2. /\ got' = got \o reply.batch /\ token' = reply.token /\ reply' = None
      /\ UNCHANGED <<transport, live, fetched, losses>>
  BY DEF Deliver
<1>3. got \in Seq(Item) /\ Len(got) \in Nat /\ reply.batch \in Seq(Item)
  BY <1>1, LenProperties DEF TypeOK, Reply
<1>4. CASE reply.token = None
  <2>1. reply.batch = << >> /\ Len(got) = Len(fetched) /\ phase' = "finished"
    BY <1>1, <1>4 DEF Brings, Deliver
  <2>2. got' = got
    BY <1>2, <1>3, <2>1
  <2>3. got = fetched
    <3>1. fetched \in Seq(Item) /\ got = SubSeq(fetched, 1, Len(fetched))
      BY <2>1 DEF ExactlyOnce, Upto, TypeOK
    <3>2. QED
      BY <3>1, SubSeqFull
  <2>4. TypeOK' /\ ExactlyOnce'
    BY <1>1, <1>2, <1>4, <2>1, <2>2, <2>3 DEF TypeOK, ExactlyOnce, Upto
  <2>5. CursorAgrees' /\ UnderWay'
    BY <1>1, <1>2, <2>1 DEF CursorAgrees, UnderWay
  <2>6. QED
    BY <2>4, <2>5
<1>5. CASE reply.token # None
  <2>1. /\ reply.token = AtCursor(n) /\ n <= Len(fetched) /\ phase' = "open"
        /\ reply.batch = SubSeq(fetched, Len(got) + 1, n)
        /\ Len(reply.batch) \in Nat
    BY <1>1, <1>3, <1>5, LenProperties DEF Brings, Deliver
  <2>2. n \in Nat
    BY <1>3, <2>1
  <2>3. got' = Upto(n) /\ got' \in Seq(Item) /\ Len(got') = n
    BY <1>2, <2>1, <2>2, PrefixGrows
  <2>4. reply.token \in State
    BY <1>1, <1>5 DEF Reply
  <2>5. TypeOK'
    BY <1>1, <1>2, <2>1, <2>3, <2>4 DEF TypeOK
  <2>6. ExactlyOnce'
    BY <1>2, <2>1, <2>3 DEF ExactlyOnce, Upto
  <2>7. CursorAgrees'
    <3>1. Decode(reply.token) = reply.token
      BY <2>4, GobFaithful
    <3>2. QED
      BY <1>1, <1>2, <2>1, <2>3, <3>1 DEF CursorAgrees, AtCursor
  <2>8. UnderWay'
    BY <1>1, <1>2, <2>1 DEF UnderWay
  <2>9. QED
    BY <2>5, <2>6, <2>7, <2>8
<1>6. QED
  BY <1>4, <1>5

\* NewState succeeds, with any rows.
LEMMA OpenKeepsIInv ==
    ASSUME IInv, NEW rows \in Seq(Item), Open(rows)
    PROVE  IInv'
<1> USE DEF IInv
<1> DEFINE start == [rows |-> rows, offset |-> 0]
<1>1. start \in State
  BY LenProperties DEF State
<1>2. Encode(start) = start /\ Decode(start) = start /\ start # None
  BY <1>1, GobFaithful, NoneAssumption
<1>3. /\ live = None /\ reply = None /\ got = << >>
      /\ fetched' = rows /\ token' = start /\ phase' = "open"
      /\ UNCHANGED <<transport, live, reply, got, losses>>
  BY <1>2 DEF Open, UnderWay
<1> HIDE DEF start
<1>4. TypeOK'
  BY <1>1, <1>3 DEF TypeOK
<1>5. ExactlyOnce'
  <2>1. << >> = SubSeq(rows, 1, 0) /\ Len(rows) \in Nat
    BY SubSeqProperties, EmptySeq, LenProperties
  <2>2. QED
    BY <1>3, <2>1 DEF ExactlyOnce, Upto
<1>6. CursorAgrees' /\ UnderWay'
  BY <1>2, <1>3 DEF CursorAgrees, UnderWay, start
<1>7. QED
  BY <1>4, <1>5, <1>6

\* Every step of a scan keeps the invariant.
LEMMA IInvStep == IInv /\ [Next]_vars => IInv'
<1> SUFFICES ASSUME IInv, [Next]_vars PROVE IInv'
  OBVIOUS
<1> USE DEF IInv
<1>1. ASSUME NEW rows \in Results, Open(rows)
      PROVE  IInv'
  BY <1>1, OpenKeepsIInv, ResultsAssumption
<1>2. CASE OpenFails
  BY <1>2 DEF OpenFails, TypeOK, ExactlyOnce, Upto, CursorAgrees, UnderWay
<1>3. CASE Resume
  <2>1. /\ token \in State /\ Decode(token) = token
        /\ token = AtCursor(Len(got))
    BY <1>3, GobFaithful, NoneAssumption DEF Resume, TypeOK, CursorAgrees, AtCursor
  <2>2. /\ live' = token
        /\ token' = IF transport = "http" THEN token ELSE None
        /\ UNCHANGED <<transport, phase, reply, got, fetched, losses>>
        /\ phase = "open" /\ reply = None /\ token # None
    BY <1>3, <2>1 DEF Resume
  <2>3. TypeOK' /\ ExactlyOnce'
    BY <2>1, <2>2 DEF TypeOK, ExactlyOnce, Upto
  <2>4. CursorAgrees' /\ UnderWay'
    BY <2>1, <2>2 DEF CursorAgrees, UnderWay, AtCursor
  <2>5. QED
    BY <2>3, <2>4
<1>4. CASE Emit
  BY <1>4, EmitKeepsIInv
<1>5. CASE Finish
  <2>1. /\ live = AtCursor(Len(got)) /\ phase = "open"
        /\ live # None /\ reply = None /\ transport = "http" <=> token # None
    BY <1>5 DEF Finish, UnderWay, CursorAgrees, AtCursor
  <2>2. Len(got) = Len(fetched) /\ got = fetched
    <3>1. fetched \in Seq(Item) /\ Len(fetched) \in Nat /\ Len(got) \in Nat
      BY LenProperties DEF TypeOK
    <3>2. Len(got) = Len(fetched)
      BY <1>5, <2>1, <3>1 DEF Finish, Consumed, ExactlyOnce, AtCursor
    <3>3. QED
      BY <3>1, <3>2, SubSeqFull DEF ExactlyOnce, Upto
  <2>3. TypeOK'
    <3>1. [batch |-> << >>, token |-> None] \in Reply
      BY EmptySeq DEF Reply
    <3>2. QED
      BY <1>5, <3>1 DEF Finish, TypeOK
  <2>4. ExactlyOnce' /\ CursorAgrees'
    BY <1>5, <2>2 DEF Finish, ExactlyOnce, Upto, CursorAgrees
  <2>5. UnderWay'
    BY <1>5, <2>1, <2>2 DEF Finish, UnderWay, Brings
  <2>6. QED
    BY <2>3, <2>4, <2>5
<1>6. CASE Deliver
  BY <1>6, DeliverKeepsIInv
<1>7. CASE LoseExchange
  BY <1>7, MaxLossesAssumption
     DEF LoseExchange, TypeOK, ExactlyOnce, Upto, CursorAgrees, UnderWay
<1>8. CASE Broken
  BY <1>8 DEF Broken, TypeOK, ExactlyOnce, Upto, CursorAgrees, UnderWay
<1>9. CASE UNCHANGED vars
  BY <1>9 DEF vars, TypeOK, ExactlyOnce, Upto, CursorAgrees, UnderWay, Brings, AtCursor
<1>10. QED
  BY <1>1, <1>2, <1>3, <1>4, <1>5, <1>6, <1>7, <1>8, <1>9 DEF Next, Terminated

\* So it holds throughout.
LEMMA IInvHolds == Spec => []IInv
<1>1. QED
  BY InitIInv, IInvStep, PTL DEF Spec

\* What the client sees of a tick and its exchange: nothing, further rows from where
\* its rows end, or the end of the scan with all of them (functions.go, Process).
LEMMA WhatATickShows ==
    ASSUME IInv, Resume \/ Emit \/ Finish \/ Deliver
    PROVE  /\ fetched' = fetched
           /\ \/ UNCHANGED <<phase, got>>
              \/ /\ phase = "open" /\ phase' = phase
                 /\ \E n \in Len(got) + 1 .. Len(fetched) : got' = Upto(n)
              \/ phase = "open" /\ phase' = "finished" /\ got = fetched /\ got' = got
<1> USE DEF IInv
<1>1. Len(got) \in Nat /\ Len(fetched) \in Nat /\ rowsPerTick \in Nat
  BY LenProperties, RowsPerTickAssumption DEF TypeOK
<1>2. CASE Resume
  BY <1>2 DEF Resume
<1>3. CASE Emit /\ transport # "http"
  <2> DEFINE slice == Slice(live)
             n == Len(got) + Len(slice)
  <2>1. live = AtCursor(Len(got)) /\ live \in State /\ phase = "open"
    BY <1>3, NoneAssumption DEF Emit, UnderWay, CursorAgrees, TypeOK, AtCursor
  <2>2. /\ slice = SubSeq(fetched, Len(got) + 1, n)
        /\ Len(slice) \in 1 .. rowsPerTick
        /\ n <= Len(fetched)
    BY <1>3, <2>1, SliceFits DEF Emit, AtCursor
  <2>3. got' = got \o slice /\ UNCHANGED <<phase, fetched>>
    BY <1>3 DEF Emit
  <2>4. n \in Nat /\ Len(slice) \in Nat /\ n \in Len(got) + 1 .. Len(fetched)
    BY <1>1, <2>2
  <2> HIDE DEF slice, n
  <2>5. got' = Upto(n)
    BY <2>2, <2>3, <2>4, PrefixGrows DEF n
  <2>6. QED
    BY <2>1, <2>3, <2>4, <2>5
<1>4. CASE Emit /\ transport = "http"
  BY <1>4 DEF Emit
<1>5. CASE Finish
  <2>1. /\ live = AtCursor(Len(got)) /\ phase = "open"
    BY <1>5 DEF Finish, UnderWay, CursorAgrees, AtCursor
  <2>2. Len(got) = Len(fetched)
    BY <1>1, <1>5, <2>1 DEF Finish, Consumed, ExactlyOnce, AtCursor
  <2>3. got = fetched
    BY <2>2, SubSeqFull DEF ExactlyOnce, Upto, TypeOK
  <2>4. QED
    BY <1>5, <2>1, <2>3 DEF Finish
<1>6. CASE Deliver
  <2> DEFINE n == Len(got) + Len(reply.batch)
  <2>1. /\ Brings(reply) /\ phase = "open" /\ reply.batch \in Seq(Item)
        /\ got' = got \o reply.batch /\ fetched' = fetched
    BY <1>6 DEF Deliver, UnderWay, TypeOK, Reply
  <2>2. CASE reply.token = None
    <3>1. reply.batch = << >> /\ Len(got) = Len(fetched) /\ phase' = "finished"
      BY <1>6, <2>1, <2>2 DEF Brings, Deliver
    <3>2. got' = got
      BY <2>1, <3>1 DEF TypeOK
    <3>3. got = fetched
      BY <3>1, SubSeqFull DEF ExactlyOnce, Upto, TypeOK
    <3>4. QED
      BY <2>1, <3>1, <3>2, <3>3
  <2>3. CASE reply.token # None
    <3>1. /\ n <= Len(fetched) /\ phase' = "open"
          /\ reply.batch = SubSeq(fetched, Len(got) + 1, n)
          /\ Len(reply.batch) \in 1 .. rowsPerTick
      BY <1>6, <2>1, <2>3 DEF Brings, Deliver
    <3>2. /\ n \in Nat /\ Len(reply.batch) \in Nat
          /\ n \in Len(got) + 1 .. Len(fetched)
      BY <1>1, <3>1
    <3> HIDE DEF n
    <3>3. got' = Upto(n)
      BY <2>1, <3>1, <3>2, PrefixGrows DEF n
    <3>4. QED
      BY <2>1, <3>1, <3>2, <3>3
  <2>4. QED
    BY <2>2, <2>3
<1>7. QED
  BY <1>2, <1>3, <1>4, <1>5, <1>6

(***************************************************************************)
(* The properties                                                          *)
(***************************************************************************)
\* The state, the token and the responses are of the right kinds, and no cursor
\* ever leaves the rows (functions.go, cursorSlice).
THEOREM TypeCorrect == Spec => []TypeOK
<1>1. IInv => TypeOK
  BY DEF IInv
<1>2. QED
  BY <1>1, IInvHolds, PTL

\* Every row fetched reaches the client once and in order, whatever the transport
\* and whichever exchanges are repeated (functions.go, the explicit cursor).
THEOREM RowsExactlyOnce == Spec => []ExactlyOnce
<1>1. IInv => ExactlyOnce
  BY DEF IInv
<1>2. QED
  BY <1>1, IInvHolds, PTL

\* What a tick resumes from stands where the client's rows end (functions.go,
\* "the position MUST live in the serialized state").
THEOREM CursorIsAuthoritative == Spec => []CursorAgrees
<1>1. IInv => CursorAgrees
  BY DEF IInv
<1>2. QED
  BY <1>1, IInvHolds, PTL

\* An HTTP response that does not end the scan brings 1 to rowsPerTick rows
\* (functions.go, rowsPerTick).
THEOREM BatchesAreBounded == Spec => []BatchesBounded
<1>1. IInv => BatchesBounded
  <2> SUFFICES ASSUME IInv, reply # None
               PROVE  /\ Len(reply.batch) <= rowsPerTick
                      /\ reply.token # None => reply.batch # << >>
    BY DEF BatchesBounded
  <2>1. Brings(reply)
    BY DEF IInv, UnderWay
  <2>2. CASE reply.token = None
    BY <2>1, <2>2, RowsPerTickAssumption DEF Brings
  <2>3. CASE reply.token # None
    <3>1. Len(reply.batch) \in 1 .. rowsPerTick
      BY <2>1, <2>3 DEF Brings
    <3>2. reply.batch # << >>
      BY <3>1
    <3>3. QED
      BY <3>1, <3>2, RowsPerTickAssumption
  <2>4. QED
    BY <2>2, <2>3
<1>2. QED
  BY <1>1, IInvHolds, PTL

\* Each token sent stands past the one it answers: the scan cannot go round
\* (functions.go, "an infinite loop").
THEOREM TokensAdvance == Spec => TokenAdvances
<1> DEFINE Onward == /\ reply = None /\ reply' # None /\ reply'.token # None
                     => Decode(reply'.token).offset > Decode(token).offset
<1>1. IInv /\ [Next]_vars => [Onward]_vars
  <2> SUFFICES ASSUME IInv, Next, IInv',
                      reply = None, reply' # None, reply'.token # None
               PROVE  Decode(reply'.token).offset > Decode(token).offset
    BY IInvStep DEF vars
  <2>1. Emit /\ transport = "http"
    <3>1. ASSUME Finish PROVE FALSE
      BY <3>1 DEF Finish
    <3>2. Emit => transport = "http"
      BY DEF Emit
    <3>3. QED
      BY <3>1, <3>2
         DEF Next, Open, OpenFails, Resume, Deliver, LoseExchange, Broken, Terminated, vars
  <2>2. /\ got' = got /\ fetched' = fetched /\ token # None /\ phase = "open"
    BY <2>1 DEF Emit, IInv, UnderWay
  <2>3. /\ reply'.token = AtCursor(Len(got) + Len(reply'.batch))
        /\ Len(reply'.batch) \in 1 .. rowsPerTick
        /\ reply'.token \in State
    BY <2>2, NoneAssumption DEF IInv, UnderWay, Brings, AtCursor, TypeOK, Reply
  <2>4. Decode(token) = AtCursor(Len(got))
    BY <2>2, GobFaithful, NoneAssumption DEF IInv, TypeOK, CursorAgrees, AtCursor
  <2>5. Decode(reply'.token) = reply'.token
    BY <2>3, GobFaithful
  <2>6. Len(got) \in Nat
    BY LenProperties DEF IInv, TypeOK
  <2>7. QED
    BY <2>3, <2>4, <2>5, <2>6, RowsPerTickAssumption DEF AtCursor
<1>2. QED
  BY <1>1, IInvHolds, PTL DEF Spec, TokenAdvances

(***************************************************************************)
(* What a scan has still to do                                             *)
(***************************************************************************)
CountsDown == /\ Left \in [phase : Nat, losses : Nat, rows : Nat, stage : Nat]
              /\ Less(Left', Left)

\* The measure is of natural numbers: the client never has more rows than there are.
LEMMA LeftTyped ==
    ASSUME IInv
    PROVE  Left \in [phase : Nat, losses : Nat, rows : Nat, stage : Nat]
<1>1. MaxLosses - losses \in Nat
  BY MaxLossesAssumption DEF IInv, TypeOK
<1>2. Len(fetched) - Len(got) \in Nat
  BY LenProperties DEF IInv, TypeOK, ExactlyOnce
<1>3. QED
  BY <1>1, <1>2 DEF Left

\* An exchange that stays open counts down once a response is on its way.
LEMMA AnswerCounts ==
    ASSUME live # None, live' = None, reply = None, reply' \in Reply,
           UNCHANGED <<phase, got, fetched, losses>>
    PROVE  Less(Left', Left)
<1>1. reply' # None
  BY NoneAssumption
<1>2. Left.stage = 1 /\ Left'.stage = 0
  BY <1>1 DEF Left
<1>3. QED
  BY <1>2 DEF Less, Left

\* Rows that reach the client count down.
LEMMA RowsCount ==
    ASSUME IInv, NEW rows \in Seq(Item), Len(rows) >= 1, got' = got \o rows,
           UNCHANGED <<phase, fetched, losses>>
    PROVE  Less(Left', Left)
<1>1. Len(got) \in Nat /\ Len(fetched) \in Nat /\ Len(rows) \in Nat
  BY LenProperties DEF IInv, TypeOK
<1>2. Len(got') = Len(got) + Len(rows)
  BY ConcatProperties DEF IInv, TypeOK
<1>3. Len(fetched) - Len(got') < Len(fetched) - Len(got)
  BY <1>1, <1>2
<1>4. QED
  BY <1>3 DEF Less, Left

\* A tick or its exchange counts down: rows reach the client, the scan ends, or the
\* exchange is a stage further.
LEMMA TickCountsDown ==
    ASSUME IInv, Resume \/ Emit \/ Finish \/ Deliver
    PROVE  Less(Left', Left)
<1> USE DEF IInv
<1>1. CASE Resume
  <2>1. token \in State /\ live' = Decode(token) /\ live = None
        /\ UNCHANGED <<phase, reply, got, fetched, losses>> /\ reply = None
    BY <1>1 DEF Resume, TypeOK
  <2>2. live' # None
    BY <2>1, GobFaithful, NoneAssumption DEF UnderWay, CursorAgrees
  <2>3. Left.stage = 2 /\ Left'.stage = 1
    BY <2>1, <2>2 DEF Left
  <2>4. QED
    BY <2>1, <2>3 DEF Less, Left
<1>2. CASE Emit
  <2>1. live \in State /\ live # None /\ reply = None /\ ~Consumed(live)
    BY <1>2 DEF Emit, TypeOK, UnderWay
  <2>2. Slice(live) \in Seq(Item) /\ Len(Slice(live)) \in 1 .. rowsPerTick
    BY <2>1, SliceFits
  <2>3. CASE transport = "http"
    <3>1. reply' = [batch |-> Slice(live), token |-> Encode(Advanced(live))]
          /\ live' = None /\ UNCHANGED <<phase, got, fetched, losses>>
      BY <1>2, <2>3 DEF Emit
    <3>2. Encode(Advanced(live)) \in State
      BY <2>1, SliceFits, GobFaithful
    <3>3. reply' \in Reply
      BY <2>2, <3>1, <3>2 DEF Reply
    <3>4. QED
      BY <2>1, <3>1, <3>3, AnswerCounts
  <2>4. CASE transport # "http"
    <3>1. got' = got \o Slice(live) /\ UNCHANGED <<phase, fetched, losses>>
      BY <1>2, <2>4 DEF Emit
    <3>2. Len(Slice(live)) >= 1
      BY <2>2, RowsPerTickAssumption
    <3>3. QED
      BY <2>2, <3>1, <3>2, RowsCount
  <2>5. QED
    BY <2>3, <2>4
<1>3. CASE Finish /\ transport = "http"
  <2>1. live # None /\ reply = None /\ reply' = [batch |-> << >>, token |-> None]
        /\ live' = None /\ UNCHANGED <<phase, got, fetched, losses>>
    BY <1>3 DEF Finish, UnderWay
  <2>2. reply' \in Reply
    BY <2>1, EmptySeq DEF Reply
  <2>3. QED
    BY <2>1, <2>2, AnswerCounts
<1>4. CASE Finish /\ transport # "http"
  BY <1>4 DEF Finish, UnderWay, Less, Left
<1>5. CASE Deliver
  <2>1. /\ Brings(reply) /\ phase = "open" /\ reply.batch \in Seq(Item)
        /\ got' = got \o reply.batch /\ UNCHANGED <<fetched, losses>>
        /\ phase' = IF reply.token = None THEN "finished" ELSE phase
    BY <1>5 DEF Deliver, UnderWay, TypeOK, Reply
  <2>2. CASE reply.token = None
    BY <2>1, <2>2 DEF Less, Left
  <2>3. CASE reply.token # None
    <3>1. Len(reply.batch) >= 1
      BY <2>1, <2>3, RowsPerTickAssumption DEF Brings
    <3>2. QED
      BY <2>1, <2>3, <3>1, RowsCount
  <2>4. QED
    BY <2>2, <2>3
<1>6. QED
  BY <1>1, <1>2, <1>3, <1>4, <1>5

\* Every step of a scan counts down.
LEMMA StepCountsDown ==
    ASSUME IInv,
           \/ \E rows : Open(rows)
           \/ OpenFails \/ Resume \/ Emit \/ Finish \/ Deliver \/ LoseExchange \/ Broken
    PROVE  CountsDown
<1> SUFFICES Less(Left', Left)
  BY LeftTyped DEF CountsDown
<1>1. CASE (\E rows : Open(rows)) \/ OpenFails \/ Broken
  <2>1. \/ phase = "idle" /\ phase' \in {"open", "failed"}
        \/ phase = "open" /\ phase' = "failed"
    BY <1>1 DEF Open, OpenFails, Broken
  <2>2. Left'.phase < Left.phase
    BY <2>1 DEF Left
  <2>3. QED
    BY <2>2 DEF Less
<1>2. CASE Resume \/ Emit \/ Finish \/ Deliver
  BY <1>2, TickCountsDown
<1>3. CASE LoseExchange
  <2>1. losses' = losses + 1 /\ phase' = phase
    BY <1>3 DEF LoseExchange
  <2>2. MaxLosses - losses' < MaxLosses - losses
    BY <2>1, MaxLossesAssumption DEF IInv, TypeOK
  <2>3. QED
    BY <2>1, <2>2 DEF Less, Left
<1>4. QED
  BY <1>1, <1>2, <1>3

\* No scan goes on for ever: each step leaves it with less to do or uses up a loss,
\* by a measure that cannot fall for ever (functions.go, "an infinite loop").
THEOREM ScanCountsDown == Spec => StepsCountDown
<1>1. IInv /\ [Next]_vars => [CountsDown]_vars
  BY StepCountsDown DEF Next, Terminated
<1>2. QED
  BY <1>1, IInvHolds, PTL DEF Spec, StepsCountDown, CountsDown
=============================================================================
