---------------------------- MODULE PagedService ----------------------------
(***************************************************************************)
(* Query against a service that behaves: a collection split into pages at  *)
(* URLs of one or more hosts, each page with a link to the following one,  *)
(* absolute or relative.  Paging says what a query does with what it is    *)
(* sent; here the whole collection is known, so that a query can be held   *)
(* to having read it.  The mock service of odatamock is one of these.      *)
(***************************************************************************)
EXTENDS Paging, FiniteSets

CONSTANT Layouts  \* the ways a collection is split into pages

VARIABLE layout   \* the split the service has

PlacedPage == [at : URL, items : Seq(Payload), form : {"absolute", "relative"}]

\* No two pages share a URL, and a relative link names a page of the same host.
Sound(l) ==
    /\ l # << >>
    /\ \A i, j \in DOMAIN l : l[i].at = l[j].at => i = j
    /\ \A i \in 1 .. Len(l) - 1 :
          l[i].form = "relative" => l[i].at.host = l[i + 1].at.host

ASSUME LayoutsAssumption ==
    \A l \in Layouts : l \in Seq(PlacedPage) /\ Sound(l)

LinkAfter(l, i) ==
    CASE i = Len(l) -> Empty
      [] i < Len(l) /\ l[i].form = "absolute" -> l[i + 1].at
      [] i < Len(l) /\ l[i].form = "relative" -> [path |-> l[i + 1].at.path]

\* The body of page i, in the shape of the version the query asks for.
PageBody(l, i, version2) ==
    [json |-> TRUE,
     value    |-> IF version2 THEN << >> ELSE l[i].items,
     nextLink |-> IF version2 THEN Empty ELSE LinkAfter(l, i),
     d        |-> IF version2 THEN "results" ELSE "absent",
     elems    |-> IF version2 THEN l[i].items ELSE << >>,
     next     |-> IF version2 THEN LinkAfter(l, i) ELSE Empty]

Served(l, version2) ==
    [u \in URL |-> {PageBody(l, i, version2) : i \in {j \in DOMAIN l : l[j].at = u}}]

\* The entities of the first n pages, in order.
FirstPages(l, n) ==
    LET upTo[i \in 0 .. Len(l)] == IF i = 0 THEN << >> ELSE upTo[i - 1] \o l[i].items
    IN  upTo[n]

Collection(l) == FirstPages(l, Len(l))

PInit == /\ Init
         /\ layout \in Layouts
         /\ service = Served(layout, v2)

PNext == /\ \/ \E arg \in MaxRowsArg : Start(arg, layout[1].at)
            \/ Return \/ Abort \/ Request \/ GetFails
            \/ ReceivePage \/ AppendRow \/ Advance \/ Terminated
         /\ UNCHANGED layout

PSpec == PInit /\ [][PNext]_<<vars, layout>>

(***************************************************************************)
(* Properties                                                              *)
(***************************************************************************)

\* Each request goes to the next page of the collection, on the host that holds
\* it: no page is skipped, repeated or looked for elsewhere (client.go,
\* resolveNext, "resolves a relative next-link against the URL of the page").
RequestsFollowChain ==
    pc \in {"get", "collect"} => page < Len(layout) /\ next = layout[page + 1].at

\* A query that succeeds returns the first maxRows entities of the collection,
\* all of them when it has fewer, numbered from 0 in the order of the pages.
WholeCollection ==
    pc = "done" =>
        LET all == Collection(layout)
        IN  /\ Numbered(out, all)
            /\ Len(out) = maxRows \/ (Len(out) < maxRows /\ Len(out) = Len(all))

\* A query of such a service fails only because a GET did, or because the rows
\* asked for lie beyond the first pageCap pages: never on its pages, and never
\* on the cap when pageCap pages were enough (client.go, pageCap).
FailsForCause ==
    pc = "failed" =>
        \/ err = "get"
        \/ /\ err = "cap"
           /\ Len(layout) > pageCap
           /\ Len(FirstPages(layout, pageCap)) < maxRows
=============================================================================
