---------------------------- MODULE PagingProofs ----------------------------
(***************************************************************************)
(* Proofs of the safety properties of Paging, for every service and every  *)
(* value of the constants that its assumptions allow.                      *)
(***************************************************************************)
EXTENDS Paging, SequenceTheorems, TLAPS

(***************************************************************************)
(* The inductive invariant.  Collected is the heart of it: while a page is *)
(* collected, the entities decoded are the rows followed by the items that *)
(* remain; between pages nothing remains, unless maxRows cut the last page *)
(* short.  The rest says where Query is and what that makes of its cursor. *)
(***************************************************************************)
Counted == seq = Len(out) /\ Len(out) <= maxRows

Collected ==
    IF pc = "collect"
    THEN /\ Len(sent) = Len(out) + Len(items)
         /\ \A j \in 1 .. Len(items) : items[j] = sent[Len(out) + j]
    ELSE pc \in {"loop", "get", "done"} =>
            Len(out) = Len(sent) \/ Len(out) = maxRows

Position ==
    /\ pc = "start" => sent = << >> /\ out = << >> /\ page = 0
    /\ pc = "get" => Len(out) < maxRows
    /\ pc = "collect" => next \in URL
    /\ pc = "done" => ~More
    /\ page <= pageCap
    /\ pc \in {"get", "collect"} => page < pageCap
    /\ pc # "failed" => err = "none"

IInv == /\ TypeOK
        /\ Counted
        /\ RowsInOrder
        /\ Collected
        /\ Position
        /\ RequestsBounded

(***************************************************************************)
(* What the operators of Pages return.                                     *)
(***************************************************************************)
\* A decoded page has entities and a link of the expected kinds, whatever the
\* body (client.go, decodePage).
LEMMA DecodedPage ==
    ASSUME NEW body \in Body, NEW version2 \in BOOLEAN
    PROVE  decodePage(body, version2) \in Page
  BY DEF decodePage, Body, Page, Rejected, FitsV2Page, FitsV2SingleD, Link

\* From a page with a URL, paging goes on to a URL, to a string that will not
\* parse, or stops: never to a relative link (client.go, resolveNext).
LEMMA ResolvedLink ==
    ASSUME NEW current \in URL, NEW following \in Link
    PROVE  resolveNext(current, following) \in {Empty, Unparsable} \cup URL
  BY DEF resolveNext, Link, URL, Relative

\* max_rows as used is positive (client.go, the default at the top of Query).
LEMMA PositiveMax ==
    ASSUME NEW arg \in MaxRowsArg
    PROVE  EffectiveMax(arg) \in Nat \ {0}
  BY MaxRowsAssumption DEF EffectiveMax

(***************************************************************************)
(* Type correctness                                                        *)
(***************************************************************************)
\* The prologue keeps the kinds of the state, for any first URL.
LEMMA StartTypes ==
    ASSUME TypeOK, NEW arg \in MaxRowsArg, NEW first \in URL \cup {Unparsable},
           Start(arg, first)
    PROVE  TypeOK'
  BY PositiveMax DEF TypeOK, Start, Fail

\* Every step keeps the kinds of the state; Advance needs that the page came from
\* a URL.
LEMMA TypeStep ==
    ASSUME TypeOK, pc = "collect" => next \in URL, [Next]_vars
    PROVE  TypeOK'
<1> USE DEF TypeOK
<1>1. ASSUME NEW arg \in MaxRowsArg, NEW first \in FirstURL, Start(arg, first)
      PROVE  TypeOK'
  BY <1>1, StartTypes, FirstURLAssumption
<1>2. CASE Return
  BY <1>2 DEF Return
<1>3. CASE Abort
  BY <1>3 DEF Abort, Fail
<1>4. CASE Request
  BY <1>4 DEF Request
<1>5. CASE GetFails
  BY <1>5 DEF GetFails, Fail
<1>6. ASSUME next \in URL, NEW body \in service[next], Receive(body)
      PROVE  TypeOK'
  <2> DEFINE decoded == decodePage(body, v2)
  <2>1. body \in Body
    BY <1>6, ServicesAssumption
  <2>2. decoded \in Page
    BY <2>1, DecodedPage
  <2> HIDE DEF decoded
  <2>3. decoded.items \in Seq(Payload) /\ decoded.link \in Link
    BY <2>2 DEF Page
  <2>4. \/ /\ items' = decoded.items
           /\ link' = decoded.link
           /\ sent' = sent \o decoded.items
        \/ UNCHANGED <<items, link, sent>>
    BY <1>6 DEF Receive, decoded
  <2>5. sent \o decoded.items \in Seq(Payload)
    BY <2>3, ConcatProperties
  <2>6. /\ items' \in Seq(Payload)
        /\ link' \in Link
        /\ sent' \in Seq(Payload)
    BY <2>3, <2>4, <2>5
  <2>7. pc' \in {"collect", "failed"} /\ err' \in {err, "decode"}
    BY <1>6 DEF Receive, Fail
  <2>8. QED
    BY <1>6, <2>6, <2>7 DEF Receive
<1>7. CASE AppendRow
  <2>1. Head(items) \in Payload /\ Tail(items) \in Seq(Payload)
    BY <1>7, HeadTailProperties DEF AppendRow
  <2>2. [seq |-> seq, entity |-> Head(items)] \in Row
    BY <2>1 DEF Row
  <2>3. QED
    BY <1>7, <2>1, <2>2, AppendProperties DEF AppendRow, NextSeq
<1>8. CASE Advance
  <2>1. resolveNext(next, link) \in {Empty, Unparsable} \cup URL
    BY <1>8, ResolvedLink DEF Advance
  <2>2. QED
    BY <1>8, <2>1 DEF Advance, NextPage, Link
<1>9. CASE UNCHANGED vars
  BY <1>9 DEF vars
<1>10. QED
  BY <1>1, <1>2, <1>3, <1>4, <1>5, <1>6, <1>7, <1>8, <1>9
     DEF Next, Step, ReceivePage, Terminated

(***************************************************************************)
(* The inductive invariant                                                 *)
(***************************************************************************)
\* A query starts in it.
LEMMA InitIInv == Init => IInv
<1> SUFFICES ASSUME Init PROVE IInv
  OBVIOUS
<1>1. TypeOK
  BY DEF Init, TypeOK, Link
<1>2. Counted /\ RowsInOrder /\ Collected
  BY <1>1 DEF Init, Counted, RowsInOrder, Numbered, Collected
<1>3. Position /\ RequestsBounded
  BY PageCapAssumption DEF Init, Position, RequestsBounded, InFlight
<1>4. QED
  BY <1>1, <1>2, <1>3 DEF IInv

\* Appending the first of the remaining entities keeps the rows a numbered
\* prefix of what was sent, and the rest the remainder.
LEMMA RowTaken ==
    ASSUME IInv, AppendRow
    PROVE  /\ Numbered(out', sent)
           /\ Len(sent) = Len(out') + Len(items')
           /\ \A j \in 1 .. Len(items') : items'[j] = sent[Len(out') + j]
           /\ Len(out') = Len(out) + 1
<1> USE DEF IInv, TypeOK
<1> DEFINE row == [seq |-> seq, entity |-> Head(items)]
<1>1. /\ Head(items) = items[1]
      /\ Len(items) \in Nat \ {0}
      /\ Len(items') = Len(items) - 1
      /\ \A j \in 1 .. Len(items') : items'[j] = items[j + 1]
  BY HeadTailProperties, EmptySeq, LenProperties DEF AppendRow
<1>2. row \in Row
  BY HeadTailProperties DEF AppendRow, Row
<1>3. /\ Len(out') = Len(out) + 1
      /\ out'[Len(out) + 1] = row
      /\ \A i \in 1 .. Len(out) : out'[i] = out[i]
  BY <1>2, AppendProperties DEF AppendRow
<1> HIDE DEF row
<1>4. Len(out) \in Nat
  BY LenProperties
<1>5. /\ Len(sent) = Len(out) + Len(items)
      /\ \A j \in 1 .. Len(items) : items[j] = sent[Len(out) + j]
  BY DEF Collected, AppendRow
<1>6. row = [seq |-> Len(out), entity |-> sent[Len(out) + 1]]
  BY <1>1, <1>5 DEF Counted, row
<1>7. Numbered(out', sent)
  <2>1. Len(out') <= Len(sent)
    BY <1>1, <1>3, <1>4, <1>5
  <2>2. ASSUME NEW i \in 1 .. Len(out')
        PROVE  out'[i] = [seq |-> i - 1, entity |-> sent[i]]
    <3>1. CASE i = Len(out) + 1
      BY <3>1, <1>3, <1>4, <1>6
    <3>2. CASE i \in 1 .. Len(out)
      BY <3>2, <1>3 DEF RowsInOrder, Numbered
    <3>3. QED
      BY <3>1, <3>2, <1>3, <1>4
  <2>3. QED
    BY <2>1, <2>2 DEF Numbered
<1>8. ASSUME NEW j \in 1 .. Len(items')
      PROVE  items'[j] = sent[Len(out') + j]
  <2>1. j + 1 \in 1 .. Len(items)
    BY <1>1
  <2>2. items'[j] = sent[Len(out) + (j + 1)]
    BY <1>1, <1>5, <2>1
  <2>3. QED
    BY <2>2, <1>3, <1>4
<1>9. Len(sent) = Len(out') + Len(items')
  BY <1>1, <1>3, <1>4, <1>5
<1>10. QED
  BY <1>3, <1>7, <1>8, <1>9

\* Decoding a page extends the history by its entities, and every one of them
\* remains to be looked at.
LEMMA PageDecoded ==
    ASSUME IInv, next \in URL, NEW body \in service[next], Receive(body)
    PROVE  RowsInOrder' /\ Collected'
<1> USE DEF IInv, TypeOK
<1> DEFINE decoded == decodePage(body, v2)
<1>1. decoded.items \in Seq(Payload)
  <2>1. body \in Body
    BY ServicesAssumption
  <2>2. QED
    BY <2>1, DecodedPage DEF Page
<1>2. /\ Len(sent) = Len(out)
      /\ Len(out) \in Nat
      /\ out' = out
  BY LenProperties DEF Receive, Collected, Position
<1>3. CASE decoded.ok
  <2>1. sent' = sent \o decoded.items /\ items' = decoded.items /\ pc' = "collect"
    BY <1>3 DEF Receive
  <2> HIDE DEF decoded
  <2>2. /\ Len(sent') = Len(sent) + Len(decoded.items)
        /\ \A i \in 1 .. Len(sent) : sent'[i] = sent[i]
        /\ \A i \in 1 .. Len(decoded.items) : sent'[Len(sent) + i] = decoded.items[i]
    BY <1>1, <2>1, ConcatProperties, LenProperties
  <2>3. Collected'
    BY <1>2, <2>1, <2>2 DEF Collected
  <2>4. Len(decoded.items) \in Nat
    BY <1>1, LenProperties
  <2>5. RowsInOrder'
    BY <1>2, <2>2, <2>4 DEF RowsInOrder, Numbered
  <2>6. QED
    BY <2>3, <2>5
<1>4. CASE ~decoded.ok
  BY <1>2, <1>4 DEF Receive, Fail, RowsInOrder, Numbered, Collected
<1>5. QED
  BY <1>3, <1>4

\* The prologue keeps the invariant.
LEMMA StartStep ==
    ASSUME IInv, NEW arg \in MaxRowsArg, NEW first \in URL \cup {Unparsable},
           Start(arg, first)
    PROVE  IInv'
<1> USE DEF IInv
<1>1. maxRows' \in Nat \ {0}
  BY PositiveMax DEF Start
<1>2. /\ out = << >> /\ sent = << >> /\ page = 0 /\ seq = 0 /\ err = "none"
      /\ pageCap \in Nat
  BY PageCapAssumption DEF Start, Position, Counted
<1>3. Counted' /\ RowsInOrder' /\ Collected'
  BY <1>1, <1>2 DEF Start, Fail, Counted, RowsInOrder, Numbered, Collected
<1>4. Position' /\ RequestsBounded'
  BY <1>2 DEF Start, Fail, Position, RequestsBounded, InFlight
<1>5. QED
  BY <1>3, <1>4, StartTypes

\* Every step of Query keeps the invariant.
LEMMA IInvStep == IInv /\ [Next]_vars => IInv'
<1> SUFFICES ASSUME IInv, [Next]_vars PROVE IInv'
  OBVIOUS
<1> USE DEF IInv
<1>1. TypeOK'
  BY TypeStep DEF Position
<1>2. /\ Len(out) \in Nat /\ Len(sent) \in Nat /\ Len(items) \in Nat
      /\ page \in Nat /\ maxRows \in Nat /\ seq \in Nat /\ pageCap \in Nat
  BY LenProperties, PageCapAssumption DEF TypeOK
<1>3. ASSUME NEW arg \in MaxRowsArg, NEW first \in FirstURL, Start(arg, first)
      PROVE  IInv'
  BY <1>3, StartStep, FirstURLAssumption
<1>4. CASE Return
  BY <1>1, <1>2, <1>4
     DEF Return, More, Counted, RowsInOrder, Numbered, Collected, Position,
         RequestsBounded, InFlight
<1>5. CASE Abort
  BY <1>1, <1>2, <1>5
     DEF Abort, Fail, More, TooMany, Counted, RowsInOrder, Numbered, Collected,
         Position, RequestsBounded, InFlight
<1>6. CASE Request
  BY <1>1, <1>2, <1>6
     DEF Request, More, TooMany, Counted, RowsInOrder, Numbered, Collected,
         Position, RequestsBounded, InFlight
<1>7. CASE GetFails
  BY <1>1, <1>2, <1>7
     DEF GetFails, Fail, Counted, RowsInOrder, Numbered, Collected, Position,
         RequestsBounded, InFlight
<1>8. ASSUME next \in URL, NEW body \in service[next], Receive(body)
      PROVE  IInv'
  <2>1. RowsInOrder' /\ Collected'
    BY <1>8, PageDecoded
  <2>2. Counted'
    BY <1>8 DEF Receive, Counted
  <2>3. Position' /\ RequestsBounded'
    BY <1>2, <1>8 DEF Receive, Fail, Position, RequestsBounded, InFlight
  <2>4. QED
    BY <1>1, <2>1, <2>2, <2>3
<1>9. CASE AppendRow
  <2>1. RowsInOrder' /\ Collected'
    BY <1>9, RowTaken DEF AppendRow, RowsInOrder, Numbered, Collected
  <2>2. Counted'
    BY <1>2, <1>9, RowTaken DEF AppendRow, NextSeq, Counted
  <2>3. Position' /\ RequestsBounded'
    BY <1>9 DEF AppendRow, Position, RequestsBounded, InFlight
  <2>4. QED
    BY <1>1, <2>1, <2>2, <2>3
<1>10. CASE Advance
  <2>1. items = << >> => Len(items) = 0
    OBVIOUS
  <2>2. Collected'
    BY <1>2, <1>10, <2>1 DEF Advance, Collected, Counted
  <2>3. Counted' /\ RowsInOrder'
    BY <1>10 DEF Advance, Counted, RowsInOrder, Numbered
  <2>4. Position' /\ RequestsBounded'
    BY <1>2, <1>10 DEF Advance, NextPage, Position, RequestsBounded, InFlight
  <2>5. QED
    BY <1>1, <2>2, <2>3, <2>4
<1>11. CASE UNCHANGED vars
  BY <1>1, <1>11
     DEF vars, Counted, RowsInOrder, Numbered, Collected, Position, More,
         RequestsBounded, InFlight
<1>12. QED
  BY <1>3, <1>4, <1>5, <1>6, <1>7, <1>8, <1>9, <1>10, <1>11
     DEF Next, Step, ReceivePage, Terminated

\* So it holds throughout.
THEOREM IInvHolds == Spec => []IInv
<1>1. QED
  BY InitIInv, IInvStep, PTL DEF Spec

(***************************************************************************)
(* The properties                                                          *)
(***************************************************************************)
\* The state of a query, its arguments and its service stay of the right kinds
\* at every step (client.go, Query).
THEOREM TypeCorrect == Spec => []TypeOK
<1>1. IInv => TypeOK
  BY DEF IInv
<1>2. QED
  BY <1>1, IInvHolds, PTL

\* The rows are the entities sent, in order and numbered without a gap, across
\* any number of pages of any length (client.go, the row loop of Query).
THEOREM RowsAreInOrder == Spec => []RowsInOrder
<1>1. IInv => RowsInOrder
  BY DEF IInv
<1>2. QED
  BY <1>1, IInvHolds, PTL

\* A successful query returned maxRows rows or all there are (client.go, the
\* condition of the page loop and the break of the row loop).
THEOREM NothingIsMissed == Spec => []NothingMissed
<1>1. IInv => NothingMissed
  <2> SUFFICES ASSUME IInv, pc = "done"
               PROVE  \/ Len(out) = maxRows
                      \/ Len(out) < maxRows /\ Len(out) = Len(sent) /\ next = Empty
    BY DEF NothingMissed
  <2>1. Len(out) \in Nat /\ maxRows \in Nat /\ Len(out) <= maxRows
    BY LenProperties DEF IInv, TypeOK, Counted
  <2>2. Len(out) = Len(sent) \/ Len(out) = maxRows
    BY DEF IInv, Collected
  <2>3. next = Empty \/ ~(Len(out) < maxRows)
    BY DEF IInv, Position, More
  <2>4. QED
    BY <2>1, <2>2, <2>3
<1>2. QED
  BY <1>1, IInvHolds, PTL

\* The number of requests of a query is bounded by pageCap, and a query is
\* aborted for it only with rows still to come (client.go, pageCap).
THEOREM RequestsAreBounded == Spec => []RequestsBounded
<1>1. IInv => RequestsBounded
  BY DEF IInv
<1>2. QED
  BY <1>1, IInvHolds, PTL

\* No request is made for rows beyond maxRows (client.go, the condition of the
\* page loop).
THEOREM NoRequestIsNeedless == Spec => NoNeedlessRequest
<1>1. IInv /\ [Next]_vars => [pc # "get" /\ pc' = "get" => Len(sent) < maxRows]_vars
  <2> SUFFICES ASSUME IInv, Next, pc # "get", pc' = "get"
               PROVE  Len(sent) < maxRows
    BY DEF vars
  <2>1. Request
    <3>1. ASSUME NEW body, Receive(body)
          PROVE  FALSE
      BY <3>1 DEF Receive, Fail
    <3>2. QED
      BY <3>1 DEF Next, Step, Start, Return, Abort, GetFails, ReceivePage, AppendRow,
                  Advance, Terminated, Fail, vars
  <2>2. Len(out) < maxRows /\ Len(out) \in Nat /\ maxRows \in Nat
    BY <2>1, LenProperties DEF Request, More, IInv, TypeOK
  <2>3. Len(out) = Len(sent) \/ Len(out) = maxRows
    BY <2>1 DEF Request, IInv, Collected
  <2>4. QED
    BY <2>2, <2>3
<1>2. QED
  BY <1>1, IInvHolds, PTL DEF Spec, NoNeedlessRequest

(***************************************************************************)
(* What a query has still to do                                            *)
(***************************************************************************)
CountsDown == /\ Left \in [pages : Nat, stage : Nat, items : Nat]
              /\ Less(Left', Left)

\* The measure is of natural numbers, because no page is counted beyond pageCap.
LEMMA LeftTyped ==
    ASSUME IInv
    PROVE  Left \in [pages : Nat, stage : Nat, items : Nat]
<1>1. pageCap - page \in Nat
  BY PageCapAssumption DEF IInv, TypeOK, Position
<1>2. Stage \in Nat
  BY DEF Stage
<1>3. Len(items) \in Nat
  BY LenProperties DEF IInv, TypeOK
<1>4. QED
  BY <1>1, <1>2, <1>3 DEF Left

\* A step that turns no page and goes on to a later stage counts down.
LEMMA StageCounts ==
    ASSUME page' = page, Stage' < Stage
    PROVE  Less(Left', Left)
  BY DEF Less, Left

\* Every step of Query counts down: the row loop its items, a turn of the page loop
\* its pages, and every other step is a stage further.
LEMMA StepCountsDown == IInv /\ Step => CountsDown
<1> SUFFICES ASSUME IInv, Step PROVE Less(Left', Left)
  BY LeftTyped DEF CountsDown
<1>1. ASSUME NEW arg \in MaxRowsArg, NEW first \in FirstURL, Start(arg, first)
      PROVE  Less(Left', Left)
  <2>1. page' = page /\ Stage' < Stage
    BY <1>1 DEF Start, Fail, Stage
  <2>2. QED
    BY <2>1, StageCounts
<1>2. CASE Return \/ Abort \/ Request \/ GetFails
  <2>1. page' = page /\ Stage' < Stage
    BY <1>2 DEF Return, Abort, Request, GetFails, Fail, Stage
  <2>2. QED
    BY <2>1, StageCounts
<1>3. ASSUME NEW body, Receive(body)
      PROVE  Less(Left', Left)
  <2>1. page' = page /\ Stage' < Stage
    BY <1>3 DEF Receive, Fail, Stage
  <2>2. QED
    BY <2>1, StageCounts
<1>4. CASE AppendRow
  <2>1. UNCHANGED <<page, pc>> /\ items # << >> /\ items' = Tail(items)
    BY <1>4 DEF AppendRow
  <2>2. Len(items') < Len(items)
    BY <2>1, HeadTailProperties, EmptySeq, LenProperties DEF IInv, TypeOK
  <2>3. Stage' = Stage
    BY <2>1 DEF Stage
  <2>4. QED
    BY <2>1, <2>2, <2>3 DEF Less, Left
<1>5. CASE Advance
  <2>1. page' = page + 1
    BY <1>5 DEF Advance, NextPage
  <2>2. pageCap - page' < pageCap - page
    BY <2>1, PageCapAssumption DEF IInv, TypeOK
  <2>3. QED
    BY <2>2 DEF Less, Left
<1>6. QED
  BY <1>1, <1>2, <1>3, <1>4, <1>5 DEF Step, ReceivePage

\* No query goes on for ever: each step leaves it with less to do, by a measure that
\* cannot fall for ever, for every service and pageCap (client.go, pageCap).
THEOREM QueryCountsDown == Spec => StepsCountDown
<1>1. IInv /\ [Next]_vars => [CountsDown]_vars
  BY StepCountsDown DEF Next, Terminated
<1>2. QED
  BY <1>1, IInvHolds, PTL DEF Spec, StepsCountDown, CountsDown

(***************************************************************************)
(* What a query holds.  HInv names the page that is collected: what of it  *)
(* remains is no longer than it was, and each of its entities beyond the   *)
(* first is matched by one that was decoded with it.                       *)
(***************************************************************************)
PageOf(body) == decodePage(body, v2).items

HInv == /\ pc # "collect" => items = << >>
        /\ pc = "collect" =>
              \E body \in service[next] :
                  /\ Len(items) <= Len(PageOf(body))
                  /\ items # << >> => Len(out) + Len(items) < maxRows + Len(PageOf(body))

\* HInv is kept by every step; Receive needs that there was room for a row.
LEMMA HInvStep == IInv /\ HInv /\ [Next]_vars => HInv'
<1> SUFFICES ASSUME IInv, HInv, [Next]_vars PROVE HInv'
  OBVIOUS
<1>1. ASSUME NEW arg \in MaxRowsArg, NEW first \in FirstURL, Start(arg, first)
      PROVE  HInv'
  BY <1>1 DEF Start, Fail, HInv
<1>2. CASE Return \/ Abort \/ Request \/ GetFails
  BY <1>2 DEF Return, Abort, Request, GetFails, Fail, HInv
<1>3. ASSUME next \in URL, NEW body \in service[next], Receive(body)
      PROVE  HInv'
  <2>1. /\ pc = "get" /\ items = << >>
        /\ Len(out) \in Nat /\ maxRows \in Nat /\ Len(out) < maxRows
    BY <1>3, LenProperties DEF Receive, HInv, IInv, TypeOK, Position
  <2>2. PageOf(body) \in Seq(Payload)
    BY <1>3, ServicesAssumption, DecodedPage DEF Page, PageOf, IInv, TypeOK
  <2>3. CASE decodePage(body, v2).ok
    <3>1. /\ pc' = "collect" /\ items' = PageOf(body)
          /\ UNCHANGED <<service, next, v2, out, maxRows>>
      BY <1>3, <2>3 DEF Receive, PageOf
    <3>2. PageOf(body)' = PageOf(body)
      BY <3>1 DEF PageOf
    <3>3. Len(PageOf(body)) \in Nat
      BY <2>2, LenProperties
    <3>4. Len(out) + Len(PageOf(body)) < maxRows + Len(PageOf(body))
      BY <2>1, <3>3
    <3> HIDE DEF PageOf
    <3>5. QED
      BY <1>3, <3>1, <3>2, <3>3, <3>4 DEF HInv
  <2>4. CASE ~decodePage(body, v2).ok
    BY <1>3, <2>1, <2>4 DEF Receive, Fail, HInv
  <2>5. QED
    BY <2>3, <2>4
<1>4. CASE AppendRow
  <2>1. PICK body \in service[next] :
           /\ Len(items) <= Len(PageOf(body))
           /\ items # << >> => Len(out) + Len(items) < maxRows + Len(PageOf(body))
    BY <1>4 DEF AppendRow, HInv
  <2>2. body \in Body /\ v2 \in BOOLEAN
    BY <1>4, ServicesAssumption DEF AppendRow, IInv, Position, TypeOK
  <2>3. Len(PageOf(body)) \in Nat
    BY <2>2, DecodedPage, LenProperties DEF Page, PageOf
  <2>4. /\ Len(items) \in Nat \ {0} /\ Len(items') = Len(items) - 1
        /\ Len(out) \in Nat /\ Len(out') = Len(out) + 1 /\ maxRows \in Nat
    BY <1>4, HeadTailProperties, EmptySeq, LenProperties, AppendProperties
       DEF AppendRow, IInv, TypeOK
  <2>5. PageOf(body)' = PageOf(body) /\ pc' = "collect" /\ service'[next'] = service[next]
        /\ maxRows' = maxRows
    BY <1>4 DEF AppendRow, PageOf
  <2>6. items # << >>
    BY <1>4 DEF AppendRow
  <2> HIDE DEF PageOf
  <2>7. QED
    BY <2>1, <2>3, <2>4, <2>5, <2>6 DEF HInv
<1>5. CASE Advance
  BY <1>5 DEF Advance, HInv
<1>6. CASE UNCHANGED vars
  BY <1>6 DEF vars, HInv, PageOf
<1>7. QED
  BY <1>1, <1>2, <1>3, <1>4, <1>5, <1>6 DEF Next, Step, ReceivePage, Terminated

\* Beside the page it collects, a query holds fewer than maxRows entities, whatever
\* the service puts on a page (README, "max_rows cap"; client.go, doGET reads a page
\* whole before Query looks at maxRows).
THEOREM HoldsOnePage == Spec => []HeldBounded
<1>1. Init => HInv
  BY DEF Init, HInv
<1>2. HInv => HeldBounded
  BY DEF HInv, HeldBounded, PageOf
<1>3. QED
  BY <1>1, <1>2, HInvStep, IInvHolds, PTL DEF Spec
=============================================================================
