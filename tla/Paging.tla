------------------------------- MODULE Paging -------------------------------
(***************************************************************************)
(* Query of client.go: one goroutine that fetches the pages of an entity   *)
(* set, following next links, until there is none or maxRows entities are  *)
(* collected, with a cap on the number of requests.  The service answers   *)
(* each GET with any of the bodies it has at that URL, or the GET fails.   *)
(***************************************************************************)
EXTENDS Pages

CONSTANTS
    Services,        \* the services a query may meet: URL -> possible bodies
    FirstURL,        \* what joinURL and applyQueryOptions make of the arguments
    MaxRowsArg,      \* values of the max_rows argument
    defaultMaxRows,  \* 10000 in the code
    pageCap          \* 100000 in the code

ASSUME ServicesAssumption == Services \subseteq [URL -> SUBSET Body]
ASSUME FirstURLAssumption == FirstURL \subseteq URL \cup {Unparsable}
ASSUME MaxRowsAssumption == /\ MaxRowsArg \subseteq Int
                            /\ defaultMaxRows \in Nat \ {0}
ASSUME PageCapAssumption == pageCap \in Nat

VARIABLES
    service,  \* the service queried
    pc,       \* where Query is
    err,      \* the error it returned with, if any
    maxRows,  \* effective cap on the entities
    v2,       \* the response shape asked for
    next,     \* URL of the page to fetch, or of the one being collected
    page,     \* loop counter: pages fetched and fully processed
    items,    \* entities of the current page not yet looked at
    link,     \* next link of the current page
    out,      \* rows collected
    seq,      \* sequence number of the next row
    sent      \* history: every entity of every page decoded, in order

vars == <<service, pc, err, maxRows, v2, next, page, items, link, out, seq, sent>>

Row == [seq : Int, entity : Payload]

TypeOK ==
    /\ service \in Services
    /\ pc \in {"start", "loop", "get", "collect", "done", "failed"}
    /\ err \in {"none", "url", "get", "decode", "cap"}
    /\ maxRows \in Nat
    /\ v2 \in BOOLEAN
    /\ next \in {Empty, Unparsable} \cup URL
    /\ page \in Nat
    /\ items \in Seq(Payload)
    /\ link \in Link
    /\ out \in Seq(Row)
    /\ seq \in Nat
    /\ sent \in Seq(Payload)

Init ==
    /\ service \in Services
    /\ pc = "start"
    /\ err = "none"
    /\ maxRows = 0
    /\ v2 \in BOOLEAN
    /\ next = Empty
    /\ page = 0
    /\ items = << >>
    /\ link = Empty
    /\ out = << >>
    /\ seq = 0
    /\ sent = << >>

Fail(e) == /\ pc' = "failed"
           /\ err' = e

\* max_rows as Query uses it; UncheckedMax is the slip of taking it as given.
UncheckedMax(arg) == arg
EffectiveMax(arg) == IF arg <= 0 THEN defaultMaxRows ELSE arg

\* The prologue: the default of max_rows and the URL of the first page.
Start(arg, first) ==
    /\ pc = "start"
    /\ maxRows' = EffectiveMax(arg)
    /\ IF first = Unparsable
       THEN Fail("url") /\ UNCHANGED next
       ELSE pc' = "loop" /\ next' = first /\ UNCHANGED err
    /\ UNCHANGED <<service, v2, page, items, link, out, seq, sent>>

\* The condition of the page loop; MoreOneShort and MoreUncapped are slips in it.
MoreOneShort == next # Empty /\ Len(out) + 1 < maxRows
MoreUncapped == next # Empty
More == next # Empty /\ Len(out) < maxRows

\* The check against pageCap, and the same off by one, both ways.
TooManyEarly == page + 1 >= pageCap
TooManyLate == page > pageCap
TooMany == page >= pageCap

Return ==
    /\ pc = "loop"
    /\ ~More
    /\ pc' = "done"
    /\ UNCHANGED <<service, err, maxRows, v2, next, page, items, link, out, seq, sent>>

Abort ==
    /\ pc = "loop"
    /\ More
    /\ TooMany
    /\ Fail("cap")
    /\ UNCHANGED <<service, maxRows, v2, next, page, items, link, out, seq, sent>>

Request ==
    /\ pc = "loop"
    /\ More
    /\ ~TooMany
    /\ pc' = "get"
    /\ UNCHANGED <<service, err, maxRows, v2, next, page, items, link, out, seq, sent>>

\* doGET fails: the request cannot be built, the exchange or the read of the
\* body breaks or times out, or the status is not 2xx.
GetFails ==
    /\ pc = "get"
    /\ Fail("get")
    /\ UNCHANGED <<service, maxRows, v2, next, page, items, link, out, seq, sent>>

\* doGET returns a whole body, which decodePage accepts or rejects.
Receive(body) ==
    /\ pc = "get"
    /\ LET decoded == decodePage(body, v2)
       IN  IF decoded.ok
           THEN /\ pc' = "collect"
                /\ items' = decoded.items
                /\ link' = decoded.link
                /\ sent' = sent \o decoded.items
                /\ UNCHANGED err
           ELSE Fail("decode") /\ UNCHANGED <<items, link, sent>>
    /\ UNCHANGED <<service, maxRows, v2, next, page, out, seq>>

\* seq++ of the row loop, and its absence.
SeqNotCounted == seq
NextSeq == seq + 1

\* One turn of the row loop.
AppendRow ==
    /\ pc = "collect"
    /\ items # << >>
    /\ Len(out) < maxRows
    /\ out' = Append(out, [seq |-> seq, entity |-> Head(items)])
    /\ seq' = NextSeq
    /\ items' = Tail(items)
    /\ UNCHANGED <<service, pc, err, maxRows, v2, next, page, link, sent>>

\* page++ of the page loop, and its absence.
PageNotCounted == page
NextPage == page + 1

\* The row loop ends, by its break or with the page; the page loop turns.
Advance ==
    /\ pc = "collect"
    /\ items = << >> \/ Len(out) >= maxRows
    /\ next' = resolveNext(next, link)
    /\ page' = NextPage
    /\ items' = << >>
    /\ link' = Empty
    /\ pc' = "loop"
    /\ UNCHANGED <<service, err, maxRows, v2, out, seq, sent>>

Terminated == pc \in {"done", "failed"} /\ UNCHANGED vars

ReceivePage == next \in URL /\ \E body \in service[next] : Receive(body)

Step ==
    \/ \E arg \in MaxRowsArg, first \in FirstURL : Start(arg, first)
    \/ Return
    \/ Abort
    \/ Request
    \/ GetFails
    \/ ReceivePage
    \/ AppendRow
    \/ Advance

Next == Step \/ Terminated

Spec == Init /\ [][Next]_vars

(***************************************************************************)
(* A goroutine that can run does run, and the timeout of httpClient ends   *)
(* every GET with a body or an error.                                      *)
(***************************************************************************)
FairSpec == Spec /\ WF_vars(Step)

\* What the caller of Query receives: a failed query returns nil.
Returned == IF pc = "done" THEN out ELSE << >>
(***************************************************************************)
(* Properties                                                              *)
(***************************************************************************)

\* rows are the first Len(rows) of raw, numbered from 0.
Numbered(rows, raw) ==
    /\ Len(rows) <= Len(raw)
    /\ \A i \in 1 .. Len(rows) : rows[i] = [seq |-> i - 1, entity |-> raw[i]]

\* Across pages, breaks and empty pages, the rows collected are the entities the
\* service sent, in its order, none skipped or repeated, numbered 0, 1, 2, ...
\* without a gap (client.go, the row loop of Query and its seq).
RowsInOrder == Numbered(out, sent)

\* A query that succeeds returns maxRows rows, or every entity of every page up
\* to one without a next link: it never stops early for another reason and never
\* returns more than asked for (client.go, the condition of the page loop).
NothingMissed ==
    pc = "done" => \/ Len(out) = maxRows
                   \/ Len(out) < maxRows /\ Len(out) = Len(sent) /\ next = Empty

\* One query makes at most pageCap requests, and gives up for their number only
\* when pageCap pages were decoded, a further one is announced and there is
\* still room for its rows (client.go, pageCap).
InFlight == IF pc \in {"get", "collect"} THEN 1 ELSE 0

RequestsBounded ==
    /\ page + InFlight <= pageCap
    /\ err = "cap" => page = pageCap /\ next # Empty /\ Len(sent) < maxRows

\* No page is requested once the pages already decoded hold maxRows entities
\* (client.go, the condition of the page loop; README, "max_rows cap").
NoNeedlessRequest ==
    [][pc # "get" /\ pc' = "get" => Len(sent) < maxRows]_vars

\* What a query has still to do: the pages left under pageCap, how far it is with the
\* next one, and the items left of the one at hand.
Stage == CASE pc = "start"   -> 4
           [] pc = "loop"    -> 3
           [] pc = "get"     -> 2
           [] pc = "collect" -> 1
           [] OTHER          -> 0

Left == [pages |-> pageCap - page, stage |-> Stage, items |-> Len(items)]

Less(x, y) ==
    \/ x.pages < y.pages
    \/ x.pages = y.pages /\ x.stage < y.stage
    \/ x.pages = y.pages /\ x.stage = y.stage /\ x.items < y.items

\* Every step brings a query nearer to its end, whatever the service answers: none
\* leaves a query with as much to do as before, so that no chain of pages, of any
\* length or going round, is followed for ever (client.go, the comment on pageCap).
StepsCountDown ==
    [][/\ Left \in [pages : Nat, stage : Nat, items : Nat]
       /\ Less(Left', Left)]_vars

\* Every query ends, whatever the service answers, a next link that leads back
\* to the same page included (client.go, the comment on pageCap).
Terminates == <>(pc \in {"done", "failed"})

\* README, "OData v2 vs v4", and client.go on v2SingleD: in a v2 response the
\* collection is d.results, or d itself.  So a query of a service that sends
\* nothing else does not fail to decode a page.
V2ShapesAccepted ==
    (/\ v2
     /\ \A u \in URL : \A body \in service[u] :
            body.json /\ body.d \in {"array", "results"})
    => err # "decode"

\* While a page is collected, a query holds fewer than maxRows entities beside those
\* of that one page: what it holds is bounded by max_rows and the longest page the
\* service sends, never by the collection (README, "max_rows cap"; client.go reads
\* and decodes a page whole before it looks at maxRows).
HeldBounded ==
    items # << >> =>
        \E body \in service[next] :
            /\ Len(items) <= Len(decodePage(body, v2).items)
            /\ Len(out) + Len(items) < maxRows + Len(decodePage(body, v2).items)
=============================================================================
