---------------------------- MODULE QueryProofs ----------------------------
(***************************************************************************)
(* Proofs about odata_query, for every collection and every way it is      *)
(* split, every max_rows, pageCap and rowsPerTick, both transports and any *)
(* number of lost exchanges: first that a query of a service that behaves  *)
(* reads its collection (PagedService), then that a scan of what it        *)
(* returns keeps its promise.  The second puts together what the first     *)
(* says of the page loop and what is proved of the cursor (ScanProofs,     *)
(* instantiated as QueryFunction does Scan).                               *)
(***************************************************************************)
EXTENDS QueryFunction, PagingProofs, Induction


(***************************************************************************)
(* The entities of the first pages                                         *)
(***************************************************************************)
\* f is what FirstPages is read from, up to page n.
Sums(l, f, n) == /\ f \in [0 .. n -> Seq(Payload)]
                 /\ f[0] = << >>
                 /\ \A i \in 0 .. n - 1 : f[i + 1] = f[i] \o l[i + 1].items

Summed(l) == {n \in Nat : n <= Len(l) => \E f : Sums(l, f, n)}

\* What a page of a layout is made of.
LEMMA PageTyped ==
    ASSUME NEW l \in Seq(PlacedPage), NEW i \in 1 .. Len(l)
    PROVE  l[i].at \in URL /\ l[i].items \in Seq(Payload)
           /\ l[i].form \in {"absolute", "relative"}
<1>1. l[i] \in PlacedPage
  BY ElementOfSeq
<1>2. QED
  BY <1>1 DEF PlacedPage

\* Sums up to a page go on to the next one.
LEMMA SumsGrow ==
    ASSUME NEW l \in Seq(PlacedPage), NEW n \in 0 .. Len(l) - 1, NEW f, Sums(l, f, n)
    PROVE  \E g : Sums(l, g, n + 1)
<1> DEFINE more == f[n] \o l[n + 1].items
           g == [i \in 0 .. n + 1 |-> IF i = n + 1 THEN more ELSE f[i]]
<1>1. Len(l) \in Nat /\ n \in Nat /\ n + 1 \in 1 .. Len(l)
  BY LenProperties
<1>2. l[n + 1].items \in Seq(Payload)
  BY <1>1, PageTyped
<1>3. f[n] \in Seq(Payload)
  BY <1>1 DEF Sums
<1>4. more \in Seq(Payload)
  BY <1>2, <1>3, ConcatProperties
<1>5. more = f[n] \o l[n + 1].items
  OBVIOUS
<1> HIDE DEF more
<1>6. g \in [0 .. n + 1 -> Seq(Payload)] /\ g[0] = << >>
  BY <1>1, <1>4 DEF Sums
<1>7. g[n + 1] = more /\ \A i \in 0 .. n : g[i] = f[i]
  BY <1>1
<1> HIDE DEF g
<1>8. ASSUME NEW i \in 0 .. n
      PROVE  g[i + 1] = g[i] \o l[i + 1].items
  <2>1. CASE i = n
    BY <1>1, <1>5, <1>7, <2>1
  <2>2. CASE i \in 0 .. n - 1
    <3>1. g[i] = f[i] /\ g[i + 1] = f[i + 1]
      BY <1>1, <1>7, <2>2
    <3>2. QED
      BY <2>2, <3>1 DEF Sums
  <2>3. i = n \/ i \in 0 .. n - 1
    BY <1>1
  <2>4. QED
    BY <2>1, <2>2, <2>3
<1>9. (n + 1) - 1 = n
  BY <1>1
<1>10. Sums(l, g, n + 1)
  BY <1>6, <1>8, <1>9 DEF Sums
<1>11. QED
  BY <1>10

\* And so they reach the last page.
LEMMA AllSummed ==
    ASSUME NEW l \in Seq(PlacedPage)
    PROVE  \E f : Sums(l, f, Len(l))
<1>1. Len(l) \in Nat
  BY LenProperties
<1>2. 0 \in Summed(l)
  <2> DEFINE f == [i \in 0 .. 0 |-> << >>]
  <2>1. f \in [0 .. 0 -> Seq(Payload)] /\ f[0] = << >>
    BY EmptySeq
  <2> HIDE DEF f
  <2>2. Sums(l, f, 0)
    BY <2>1 DEF Sums
  <2>3. QED
    BY <2>2 DEF Summed
<1>3. ASSUME NEW n \in Nat, n \in Summed(l) PROVE n + 1 \in Summed(l)
  BY <1>1, <1>3, SumsGrow DEF Summed
<1>4. Len(l) \in Summed(l)
  BY <1>1, <1>2, <1>3, NatInduced
<1>5. QED
  BY <1>1, <1>4 DEF Summed

\* FirstPages is what it says: each page adds its entities to those before.
LEMMA FirstPagesDefined ==
    ASSUME NEW l \in Seq(PlacedPage)
    PROVE  /\ FirstPages(l, 0) = << >>
           /\ \A i \in 0 .. Len(l) - 1 :
                  FirstPages(l, i + 1) = FirstPages(l, i) \o l[i + 1].items
           /\ \A i \in 0 .. Len(l) : FirstPages(l, i) \in Seq(Payload)
<1> DEFINE Equation(h) ==
               h = [i \in 0 .. Len(l) |-> IF i = 0 THEN << >> ELSE h[i - 1] \o l[i].items]
           all == CHOOSE h : Equation(h)
<1>1. Len(l) \in Nat
  BY LenProperties
<1>2. PICK f : Sums(l, f, Len(l))
  BY AllSummed
<1>3. Equation(f)
  <2>1. ASSUME NEW i \in 0 .. Len(l)
        PROVE  f[i] = IF i = 0 THEN << >> ELSE f[i - 1] \o l[i].items
    <3>1. CASE i = 0
      BY <1>2, <3>1 DEF Sums
    <3>2. CASE i # 0
      <4>1. i - 1 \in 0 .. Len(l) - 1 /\ (i - 1) + 1 = i
        BY <1>1, <3>2
      <4>2. f[(i - 1) + 1] = f[i - 1] \o l[(i - 1) + 1].items
        BY <1>2, <4>1 DEF Sums
      <4>3. QED
        BY <3>2, <4>1, <4>2
    <3>3. QED
      BY <3>1, <3>2
  <2>2. f = [i \in 0 .. Len(l) |-> f[i]]
    BY <1>2 DEF Sums
  <2>3. QED
    BY <2>1, <2>2
<1>4. Equation(all)
  <2> HIDE DEF Equation
  <2>1. QED
    BY <1>3
<1>5. \A n : FirstPages(l, n) = all[n]
  BY DEF FirstPages
<1> HIDE DEF all
<1>6. ASSUME NEW i \in 0 .. Len(l)
      PROVE  all[i] = IF i = 0 THEN << >> ELSE all[i - 1] \o l[i].items
  BY <1>4
<1>7. all[0] = << >>
  BY <1>1, <1>6
<1>8. ASSUME NEW i \in 0 .. Len(l) - 1
      PROVE  all[i + 1] = all[i] \o l[i + 1].items
  <2>1. i + 1 \in 0 .. Len(l) /\ i + 1 # 0 /\ (i + 1) - 1 = i
    BY <1>1
  <2>2. all[i + 1] = IF i + 1 = 0 THEN << >> ELSE all[(i + 1) - 1] \o l[i + 1].items
    BY <1>6, <2>1
  <2>3. QED
    BY <2>1, <2>2
<1> DEFINE typed == {n \in Nat : n <= Len(l) => all[n] \in Seq(Payload)}
<1>9. \A n \in Nat : n \in typed
  <2>1. 0 \in typed
    BY <1>7, EmptySeq
  <2>2. ASSUME NEW n \in Nat, n \in typed, n + 1 <= Len(l)
        PROVE  all[n + 1] \in Seq(Payload)
    <3>1. n + 1 \in 1 .. Len(l) /\ n \in 0 .. Len(l) - 1 /\ all[n] \in Seq(Payload)
      BY <1>1, <2>2
    <3>2. all[n + 1] = all[n] \o l[n + 1].items
      BY <1>8, <3>1
    <3>3. QED
      BY <3>1, <3>2, PageTyped, ConcatProperties
  <2>3. ASSUME NEW n \in Nat, n \in typed PROVE n + 1 \in typed
    BY <2>2, <2>3
  <2> HIDE DEF typed
  <2>4. QED
    BY <2>1, <2>3, NatInduced
<1>10. \A i \in 0 .. Len(l) : all[i] \in Seq(Payload)
  BY <1>1, <1>9
<1>11. QED
  BY <1>5, <1>7, <1>8, <1>10

IsPrefix(s, t) == Len(s) <= Len(t) /\ \A k \in 1 .. Len(s) : t[k] = s[k]

\* The entities of fewer pages are the first of those of more.
LEMMA FirstPagesGrow ==
    ASSUME NEW l \in Seq(PlacedPage), NEW n \in 0 .. Len(l), NEW m \in n .. Len(l)
    PROVE  IsPrefix(FirstPages(l, n), FirstPages(l, m))
<1> DEFINE pages == FirstPages(l, n)
           extended == {d \in Nat : n + d <= Len(l) => IsPrefix(pages, FirstPages(l, n + d))}
<1>1. Len(l) \in Nat /\ n \in Nat
  BY LenProperties
<1>2. 0 \in extended
  <2>1. n + 0 = n /\ Len(pages) \in Nat
    BY <1>1, FirstPagesDefined, LenProperties
  <2>2. QED
    BY <2>1 DEF IsPrefix
<1>3. ASSUME NEW d \in Nat, d \in extended PROVE d + 1 \in extended
  <2> SUFFICES ASSUME n + (d + 1) <= Len(l)
               PROVE  IsPrefix(pages, FirstPages(l, n + (d + 1)))
    OBVIOUS
  <2>1. /\ n + d \in 0 .. Len(l) - 1 /\ (n + d) + 1 = n + (d + 1)
        /\ (n + d) + 1 \in 1 .. Len(l)
    BY <1>1
  <2> DEFINE before == FirstPages(l, n + d)
             added == l[(n + d) + 1].items
  <2>2. IsPrefix(pages, before)
    BY <1>1, <1>3, <2>1
  <2>3. FirstPages(l, n + (d + 1)) = before \o added
    BY <2>1, FirstPagesDefined
  <2>4. before \in Seq(Payload) /\ added \in Seq(Payload) /\ pages \in Seq(Payload)
    BY <1>1, <2>1, FirstPagesDefined, PageTyped
  <2> HIDE DEF before, added, pages
  <2>5. /\ Len(before \o added) = Len(before) + Len(added)
        /\ \A k \in 1 .. Len(before) : (before \o added)[k] = before[k]
        /\ Len(before) \in Nat /\ Len(added) \in Nat /\ Len(pages) \in Nat
    BY <2>4, ConcatProperties, LenProperties
  <2>6. IsPrefix(pages, before \o added)
    BY <2>2, <2>5 DEF IsPrefix
  <2>7. QED
    BY <2>3, <2>6
<1>4. m - n \in Nat /\ n + (m - n) = m /\ m <= Len(l)
  BY <1>1
<1> HIDE DEF pages
<1>5. m - n \in extended
  <2> HIDE DEF extended
  <2>1. QED
    BY <1>2, <1>3, <1>4, NatInduced
<1>6. QED
  BY <1>4, <1>5 DEF pages

(***************************************************************************)
(* The service                                                             *)
(***************************************************************************)
\* At the URL of a page the service has that page and no other.
LEMMA PageFound ==
    ASSUME NEW l \in Layouts, NEW i \in 1 .. Len(l), NEW version2 \in BOOLEAN
    PROVE  Served(l, version2)[l[i].at] = {PageBody(l, i, version2)}
<1>1. l \in Seq(PlacedPage) /\ Sound(l) /\ DOMAIN l = 1 .. Len(l)
  BY LayoutsAssumption, LenProperties
<1>2. l[i].at \in URL
  BY <1>1, PageTyped
<1>3. {j \in DOMAIN l : l[j].at = l[i].at} = {i}
  BY <1>1 DEF Sound
<1>4. QED
  BY <1>2, <1>3 DEF Served

\* In both versions a page decodes to its entities and the link after it.
LEMMA PageDecodes ==
    ASSUME NEW l, NEW i, NEW version2 \in BOOLEAN
    PROVE  decodePage(PageBody(l, i, version2), version2)
               = [ok |-> TRUE, items |-> l[i].items, link |-> LinkAfter(l, i)]
  BY DEF decodePage, PageBody, FitsV2Page

\* Where the page after page i is.
Place(l, i) == IF i < Len(l) THEN l[i + 1].at ELSE Empty

\* No URL is a relative link.
LEMMA NotBoth ==
    ASSUME NEW absolute \in URL
    PROVE  absolute \notin Relative
<1>1. DOMAIN absolute = {"host", "path"}
  BY DEF URL
<1>2. absolute \in Relative => DOMAIN absolute = {"path"}
  BY DEF Relative
<1>3. QED
  BY <1>1, <1>2

\* The link after a page, absolute or relative, leads to the next page (client.go,
\* resolveNext).
LEMMA ChainFollowed ==
    ASSUME NEW l \in Layouts, NEW i \in 1 .. Len(l)
    PROVE  resolveNext(l[i].at, LinkAfter(l, i)) = Place(l, i)
<1>1. /\ l \in Seq(PlacedPage) /\ Sound(l) /\ Len(l) \in Nat
      /\ l[i].at \in URL /\ l[i].form \in {"absolute", "relative"}
  BY LayoutsAssumption, LenProperties, PageTyped
<1>2. CASE i = Len(l)
  BY <1>1, <1>2, StringsAssumption DEF LinkAfter, Place, resolveNext
<1>3. CASE i < Len(l)
  <2>1. i \in 1 .. Len(l) - 1 /\ i + 1 \in 1 .. Len(l)
    BY <1>1, <1>3
  <2>2. l[i + 1].at \in URL
    BY <1>1, <2>1, PageTyped
  <2>3. CASE l[i].form = "absolute"
    <3>1. LinkAfter(l, i) = l[i + 1].at
      BY <1>1, <1>3, <2>3 DEF LinkAfter
    <3>2. LinkAfter(l, i) \notin Relative
      BY <2>2, <3>1, NotBoth
    <3>3. QED
      BY <1>3, <3>1, <3>2 DEF resolveNext, Place
  <2>4. CASE l[i].form = "relative"
    <3>1. LinkAfter(l, i) = [path |-> l[i + 1].at.path]
      BY <1>1, <1>3, <2>4 DEF LinkAfter
    <3>2. l[i].at.host = l[i + 1].at.host
      BY <1>1, <2>1, <2>4 DEF Sound
    <3>3. resolveNext(l[i].at, LinkAfter(l, i))
              = [host |-> l[i + 1].at.host, path |-> l[i + 1].at.path]
      BY <1>1, <2>2, <3>1, <3>2 DEF resolveNext, URL, Relative
    <3>4. QED
      BY <1>3, <2>2, <3>3 DEF Place, URL
  <2>5. QED
    BY <1>1, <2>3, <2>4
<1>4. QED
  BY <1>1, <1>2, <1>3

(***************************************************************************)
(* The inductive invariant: beside IInv, that paging is at a place of the  *)
(* chain of pages and has been sent what stands before it.                 *)
(***************************************************************************)
Behaved == layout \in Layouts /\ service = Served(layout, v2)

Chain ==
    /\ pc \in {"loop", "get", "done"} =>
          page <= Len(layout) /\ next = Place(layout, page) /\ sent = FirstPages(layout, page)
    /\ pc = "get" => page < Len(layout)
    /\ pc = "collect" =>
          /\ page < Len(layout) /\ next = layout[page + 1].at
          /\ sent = FirstPages(layout, page + 1) /\ link = LinkAfter(layout, page + 1)
    /\ pc = "failed" => err \in {"get", "cap"}
    /\ err = "cap" => pageCap < Len(layout) /\ sent = FirstPages(layout, pageCap)

PIInv == IInv /\ Behaved /\ Chain

\* The constants behave, and every layout has a first page.
LEMMA LayoutTyped ==
    ASSUME NEW l \in Layouts
    PROVE  l \in Seq(PlacedPage) /\ Len(l) \in Nat \ {0} /\ l[1].at \in URL
<1>1. l \in Seq(PlacedPage) /\ l # << >>
  BY LayoutsAssumption DEF Sound
<1>2. Len(l) \in Nat \ {0}
  BY <1>1, EmptySeq
<1>3. QED
  BY <1>1, <1>2, PageTyped

\* A query that has not started is on the chain.
LEMMA PInitIInv == PInit => PIInv
<1>1. PInit => IInv
  BY InitIInv DEF PInit
<1>2. PInit => Behaved /\ Chain
  BY DEF PInit, Init, Behaved, Chain
<1>3. QED
  BY <1>1, <1>2 DEF PIInv

\* Every step of a query of such a service keeps it on the chain.
LEMMA ChainStep ==
    ASSUME PIInv, IInv', PNext
    PROVE  Behaved' /\ Chain'
<1> USE DEF PIInv, Behaved
<1>1. /\ layout \in Seq(PlacedPage) /\ Len(layout) \in Nat \ {0}
      /\ page \in Nat /\ pageCap \in Nat /\ v2 \in BOOLEAN /\ layout' = layout
  BY LayoutTyped, PageCapAssumption DEF IInv, TypeOK, PNext
<1>2. Behaved'
  BY <1>1 DEF PNext, Start, Return, Abort, Request, GetFails, ReceivePage, Receive,
              AppendRow, Advance, Terminated, vars
<1>3. ASSUME NEW arg \in MaxRowsArg, Start(arg, layout[1].at)
      PROVE  Chain'
  <2>1. layout[1].at \in URL /\ layout[1].at # Unparsable
    BY LayoutTyped, StringsAssumption
  <2>2. /\ page = 0 /\ sent = << >> /\ err = "none"
        /\ pc' = "loop" /\ next' = layout[1].at /\ UNCHANGED <<page, sent, err>>
    BY <1>3, <2>1 DEF Start, IInv, Position
  <2>3. Place(layout, 0) = layout[1].at /\ FirstPages(layout, 0) = << >>
    BY <1>1, FirstPagesDefined DEF Place
  <2>4. QED
    BY <1>1, <2>2, <2>3 DEF Chain
<1>4. CASE Return
  BY <1>1, <1>4 DEF Return, Chain, IInv, Position
<1>5. CASE Abort
  <2>1. page = pageCap /\ next # Empty /\ pc = "loop"
    BY <1>1, <1>5 DEF Abort, More, TooMany, IInv, Position
  <2>2. page < Len(layout)
    BY <1>1, <2>1 DEF Chain, Place
  <2>3. QED
    BY <1>1, <1>5, <2>1, <2>2 DEF Abort, Fail, Chain
<1>6. CASE Request
  BY <1>1, <1>6 DEF Request, More, Chain, Place, IInv, Position
<1>7. CASE GetFails
  BY <1>1, <1>7 DEF GetFails, Fail, Chain, IInv, Position
<1>8. CASE ReceivePage
  <2>1. PICK body \in service[next] : Receive(body)
    BY <1>8 DEF ReceivePage
  <2>2. /\ pc = "get" /\ page < Len(layout) /\ next = layout[page + 1].at
        /\ sent = FirstPages(layout, page)
    BY <1>1, <2>1 DEF Receive, Chain, Place
  <2>3. page + 1 \in 1 .. Len(layout) /\ page \in 0 .. Len(layout) - 1
    BY <1>1, <2>2
  <2>4. body = PageBody(layout, page + 1, v2)
    <3>1. Served(layout, v2)[layout[page + 1].at] = {PageBody(layout, page + 1, v2)}
      BY <1>1, <2>3, PageFound
    <3>2. service[next] = Served(layout, v2)[layout[page + 1].at]
      BY <1>1, <2>2
    <3>3. QED
      BY <2>1, <3>1, <3>2
  <2>5. decodePage(body, v2) = [ok |-> TRUE, items |-> layout[page + 1].items,
                                link |-> LinkAfter(layout, page + 1)]
    BY <1>1, <2>4, PageDecodes
  <2>6. sent' = FirstPages(layout, page + 1)
    <3>1. sent' = sent \o layout[page + 1].items
      BY <2>1, <2>5 DEF Receive
    <3>2. QED
      BY <2>2, <2>3, <3>1, <1>1, FirstPagesDefined
  <2>7. /\ pc' = "collect" /\ link' = LinkAfter(layout, page + 1)
        /\ page' = page /\ next' = next /\ err' = "none"
    BY <2>1, <2>2, <2>5 DEF Receive, IInv, Position
  <2>8. QED
    BY <1>1, <1>2, <2>2, <2>6, <2>7 DEF Chain
<1>9. CASE AppendRow
  BY <1>1, <1>9 DEF AppendRow, Chain, IInv, Position
<1>10. CASE Advance
  <2>1. /\ pc = "collect" /\ page < Len(layout) /\ next = layout[page + 1].at
        /\ sent = FirstPages(layout, page + 1) /\ link = LinkAfter(layout, page + 1)
    BY <1>10 DEF Advance, Chain
  <2>2. page + 1 \in 1 .. Len(layout)
    BY <1>1, <2>1
  <2>3. next' = Place(layout, page + 1)
    BY <1>10, <2>1, <2>2, ChainFollowed DEF Advance
  <2>4. QED
    BY <1>1, <1>10, <2>1, <2>2, <2>3 DEF Advance, NextPage, Chain, IInv, Position
<1>11. CASE Terminated
  BY <1>1, <1>11 DEF Terminated, vars, Chain
<1>12. QED
  BY <1>2, <1>3, <1>4, <1>5, <1>6, <1>7, <1>8, <1>9, <1>10, <1>11 DEF PNext

\* No step leaves it.
LEMMA PIInvStep == PIInv /\ [PNext]_<<vars, layout>> => PIInv'
<1> SUFFICES ASSUME PIInv, [PNext]_<<vars, layout>> PROVE PIInv'
  OBVIOUS
<1>1. CASE PNext
  <2>1. ASSUME NEW arg \in MaxRowsArg, Start(arg, layout[1].at)
        PROVE  IInv'
    BY <2>1, StartStep, LayoutTyped DEF PIInv, Behaved
  <2>2. [Next]_vars => IInv'
    BY IInvStep DEF PIInv
  <2>3. IInv'
    BY <1>1, <2>1, <2>2 DEF PNext, Next, Step
  <2>4. QED
    BY <1>1, <2>3, ChainStep DEF PIInv
<1>2. CASE UNCHANGED <<vars, layout>>
  <2>1. IInv'
    BY <1>2, IInvStep DEF PIInv
  <2>2. Behaved' /\ Chain'
    BY <1>2 DEF vars, PIInv, Behaved, Chain
  <2>3. QED
    BY <2>1, <2>2 DEF PIInv
<1>3. QED
  BY <1>1, <1>2

\* PIInv holds in every state of a query.
LEMMA PIInvHolds == PSpec => []PIInv
<1>1. QED
  BY PInitIInv, PIInvStep, PTL DEF PSpec

(***************************************************************************)
(* The properties                                                          *)
(***************************************************************************)
\* Requests go along the chain of pages, each on the host that holds the page, for
\* every split of every collection (client.go, resolveNext).
THEOREM ChainIsFollowed == PSpec => []RequestsFollowChain
<1>1. PIInv => RequestsFollowChain
  BY LayoutTyped DEF PIInv, IInv, TypeOK, Behaved, Chain, Place, RequestsFollowChain
<1>2. QED
  BY <1>1, PIInvHolds, PTL

\* What a finished query has is the first of the whole collection.
LEMMA DoneHasCollection ==
    ASSUME PIInv, pc = "done"
    PROVE  /\ Collection(layout) \in Seq(Payload)
           /\ Numbered(out, Collection(layout))
           /\ \/ Len(out) = maxRows
              \/ Len(out) < maxRows /\ Len(out) = Len(Collection(layout))
<1> DEFINE all == Collection(layout)
<1>1. /\ layout \in Seq(PlacedPage) /\ Len(layout) \in Nat
      /\ page \in Nat /\ page <= Len(layout)
  BY LayoutTyped DEF PIInv, IInv, TypeOK, Behaved, Chain
<1>2. IsPrefix(sent, all) /\ all \in Seq(Payload)
  BY <1>1, FirstPagesGrow, FirstPagesDefined DEF PIInv, Chain, Collection
<1>3. next = Empty => sent = all
  <2>1. ASSUME page < Len(layout) PROVE next # Empty
    <3>1. page + 1 \in 1 .. Len(layout) /\ next = layout[page + 1].at
      BY <1>1, <2>1 DEF PIInv, Chain, Place
    <3>2. next \in URL
      BY <1>1, <3>1, PageTyped
    <3>3. QED
      BY <3>2, StringsAssumption
  <2>2. QED
    BY <1>1, <2>1 DEF PIInv, Chain, Collection
<1> HIDE DEF all
<1>4. /\ Numbered(out, sent) /\ Len(out) <= maxRows
      /\ Len(out) \in Nat /\ Len(sent) \in Nat /\ maxRows \in Nat
  BY LenProperties DEF PIInv, IInv, TypeOK, Counted, RowsInOrder
<1>5. Numbered(out, all)
  BY <1>2, <1>4, LenProperties DEF Numbered, IsPrefix
<1>6. Len(out) = Len(sent) \/ Len(out) = maxRows
  BY DEF PIInv, IInv, Collected
<1>7. next = Empty \/ Len(out) = maxRows
  BY <1>4 DEF PIInv, IInv, Position, More
<1>8. QED
  BY <1>2, <1>3, <1>4, <1>5, <1>6, <1>7 DEF all

\* A query that succeeds has the first maxRows entities of the collection, or all of
\* them, in the order of its pages (client.go, Query).
THEOREM CollectionIsWhole == PSpec => []WholeCollection
<1>1. PIInv => WholeCollection
  BY DoneHasCollection DEF WholeCollection
<1>2. QED
  BY <1>1, PIInvHolds, PTL

\* A query fails only on a GET, or for rows beyond the first pageCap pages (client.go,
\* pageCap).
THEOREM FailureHasCause == PSpec => []FailsForCause
<1>1. PIInv => FailsForCause
  BY DEF PIInv, IInv, RequestsBounded, Chain, FailsForCause
<1>2. QED
  BY <1>1, PIInvHolds, PTL

(***************************************************************************)
(* The composition                                                         *)
(***************************************************************************)
Scanned == INSTANCE ScanProofs WITH Item <- Row, Results <- {}

(***************************************************************************)
(* The inductive invariant: that of the page loop, that of the cursor, and *)
(* what joins them: the rows being scanned are the answer.                 *)
(***************************************************************************)
Joined ==
    /\ ask \in Ask
    /\ pc # "start" => ~IsNull(ask) /\ maxRows = Limit
    /\ phase \in {"open", "finished"} => fetched = Answer

QIInv == PIInv /\ Scanned!IInv /\ Joined

\* The scan of the composition is the scan that ScanProofs is about.
LEMMA SameScan ==
    /\ Cursor!Init <=> Scanned!Init
    /\ \A rows : Cursor!Open(rows) <=> Scanned!Open(rows)
    /\ Cursor!OpenFails <=> Scanned!OpenFails
    /\ Cursor!Resume <=> Scanned!Resume
    /\ Cursor!Emit <=> Scanned!Emit
    /\ Cursor!Finish <=> Scanned!Finish
    /\ Cursor!Deliver <=> Scanned!Deliver
    /\ Cursor!LoseExchange <=> Scanned!LoseExchange
    /\ Cursor!Broken <=> Scanned!Broken
    /\ Cursor!State = Scanned!State
    /\ Cursor!Reply = Scanned!Reply
<1> USE DEF Cursor!Encode, Scanned!Encode, Cursor!Exported, Scanned!Exported,
            Cursor!Decode, Scanned!Decode, Cursor!Consumed, Scanned!Consumed,
            Cursor!End, Scanned!End, Cursor!Slice, Scanned!Slice,
            Cursor!Advanced, Scanned!Advanced
<1>1. Cursor!State = Scanned!State /\ Cursor!Reply = Scanned!Reply
  BY DEF Cursor!State, Scanned!State, Cursor!Reply, Scanned!Reply
<1>2. Cursor!Init <=> Scanned!Init
  BY DEF Cursor!Init, Scanned!Init
<1>3. \A rows : Cursor!Open(rows) <=> Scanned!Open(rows)
  BY DEF Cursor!Open, Scanned!Open
<1>4. Cursor!OpenFails <=> Scanned!OpenFails
  BY DEF Cursor!OpenFails, Scanned!OpenFails
<1>5. Cursor!Resume <=> Scanned!Resume
  BY DEF Cursor!Resume, Scanned!Resume
<1>6. Cursor!Emit <=> Scanned!Emit
  BY DEF Cursor!Emit, Scanned!Emit
<1>7. Cursor!Finish <=> Scanned!Finish
  BY DEF Cursor!Finish, Scanned!Finish
<1>8. Cursor!Deliver <=> Scanned!Deliver
  BY DEF Cursor!Deliver, Scanned!Deliver
<1>9. Cursor!LoseExchange <=> Scanned!LoseExchange
  BY DEF Cursor!LoseExchange, Scanned!LoseExchange
<1>10. Cursor!Broken <=> Scanned!Broken
  BY DEF Cursor!Broken, Scanned!Broken
<1>11. QED
  BY <1>1, <1>2, <1>3, <1>4, <1>5, <1>6, <1>7, <1>8, <1>9, <1>10

\* What ScanProofs assumes of its constants holds of those it has here.
LEMMA ScanAssumed ==
    /\ {} \subseteq Seq(Row)
    /\ rowsPerTick \in Nat \ {0}
    /\ MaxLosses \in Nat
    /\ None \notin Scanned!State \cup Scanned!Reply
  BY SameScan, CursorAssumption

(***************************************************************************)
(* The answer                                                              *)
(***************************************************************************)
LEMMA CollectionTyped ==
    ASSUME NEW l \in Layouts
    PROVE  Collection(l) \in Seq(Payload) /\ Len(Collection(l)) \in Nat
<1>1. l \in Seq(PlacedPage) /\ Len(l) \in Nat \ {0} /\ Len(l) \in 0 .. Len(l)
  BY LayoutTyped
<1>2. Collection(l) \in Seq(Payload)
  BY <1>1, FirstPagesDefined DEF Collection
<1>3. QED
  BY <1>2, LenProperties

\* The limit is what EffectiveMax makes of max_rows.
LEMMA LimitTyped ==
    ASSUME ask \in Ask
    PROVE  Limit \in Nat \ {0} /\ Limit = EffectiveMax(ask.max)
<1>1. ask.max \in Int /\ defaultMaxRows \in Nat \ {0}
  BY MaxRowsAssumption DEF Ask
<1>2. QED
  BY <1>1 DEF Limit, EffectiveMax

\* The right answer is a sequence of rows: the empty one, or the first Limit of the
\* collection's entities, numbered.
LEMMA AnswerTyped ==
    ASSUME ask \in Ask, layout \in Layouts
    PROVE  /\ Answer \in Seq(Row)
           /\ IsNull(ask) => Answer = << >>
           /\ ~IsNull(ask) =>
                  LET all == Collection(layout)
                  IN  /\ Len(Answer) = IF Len(all) < Limit THEN Len(all) ELSE Limit
                      /\ \A i \in 1 .. Len(Answer) :
                             Answer[i] = [seq |-> i - 1, entity |-> all[i]]
<1>1. CASE IsNull(ask)
  BY <1>1 DEF Answer, IsNull
<1>2. CASE ~IsNull(ask)
  <2> DEFINE all == Collection(layout)
             n == IF Len(all) < Limit THEN Len(all) ELSE Limit
             first == [i \in 1 .. n |-> [seq |-> i - 1, entity |-> all[i]]]
  <2>1. Answer = first
    BY <1>2 DEF Answer, IsNull
  <2>2. all \in Seq(Payload) /\ n \in Nat /\ n <= Len(all) /\ Len(all) \in Nat
    BY CollectionTyped, LimitTyped
  <2> HIDE DEF all, n
  <2>3. \A i \in 1 .. n : [seq |-> i - 1, entity |-> all[i]] \in Row
    <3>1. ASSUME NEW i \in 1 .. n PROVE all[i] \in Payload /\ i - 1 \in Int
      BY <2>2, ElementOfSeq
    <3>2. QED
      BY <3>1 DEF Row
  <2>4. first \in Seq(Row) /\ Len(first) = n
    <3>1. first \in [1 .. n -> Row]
      BY <2>3
    <3> HIDE DEF first
    <3>2. QED
      BY <2>2, <3>1, SeqDef, LenProperties
  <2>5. \A i \in 1 .. n : first[i] = [seq |-> i - 1, entity |-> all[i]]
    OBVIOUS
  <2> HIDE DEF first
  <2>6. QED
    BY <1>2, <2>1, <2>4, <2>5 DEF all, n
<1>3. QED
  BY <1>1, <1>2

\* What a query that succeeds returns is the answer.
LEMMA ReturnsAnswer ==
    ASSUME PIInv, Joined, pc = "done"
    PROVE  Returned = Answer
<1>1. Returned = out /\ out \in Seq(Row) /\ Len(out) \in Nat /\ ~IsNull(ask)
  BY LenProperties DEF Returned, PIInv, IInv, TypeOK, Joined
<1> DEFINE all == Collection(layout)
<1>2. /\ Numbered(out, all) /\ all \in Seq(Payload)
      /\ Len(out) = Limit \/ (Len(out) < Limit /\ Len(out) = Len(all))
  <2>1. maxRows = Limit
    BY DEF Joined
  <2>2. QED
    BY <2>1, DoneHasCollection
<1>3. Limit \in Nat /\ Len(all) \in Nat
  BY <1>2, LimitTyped, LenProperties DEF Joined
<1>4. /\ Answer \in Seq(Row)
      /\ Len(Answer) = IF Len(all) < Limit THEN Len(all) ELSE Limit
      /\ \A i \in 1 .. Len(Answer) : Answer[i] = [seq |-> i - 1, entity |-> all[i]]
  BY <1>1, AnswerTyped DEF Joined, PIInv, Behaved
<1> HIDE DEF all
<1>5. Len(out) = Len(Answer)
  BY <1>1, <1>2, <1>3, <1>4 DEF Numbered
<1>6. \A i \in 1 .. Len(out) : out[i] = Answer[i]
  BY <1>2, <1>4, <1>5 DEF Numbered
<1>7. QED
  BY <1>1, <1>4, <1>5, <1>6, SeqEqual

(***************************************************************************)
(* The inductive invariant                                                 *)
(***************************************************************************)
LEMMA QInitQIInv == QInit => QIInv
<1> SUFFICES ASSUME QInit PROVE QIInv
  OBVIOUS
<1>1. PIInv
  BY PInitIInv DEF QInit
<1>2. Scanned!IInv
  BY ScanAssumed, SameScan, Scanned!InitIInv DEF QInit
<1>3. pc = "start" /\ phase = "idle"
  BY DEF QInit, PInit, Init, Cursor!Init
<1>4. Joined
  BY <1>3 DEF Joined, QInit
<1>5. QED
  BY <1>1, <1>2, <1>4 DEF QIInv

\* While NewState runs, the page loop moves and the cursor does not.
LEMMA QueryMoves ==
    ASSUME QIInv, StartQuery \/ QueryStep
    PROVE  PNext /\ phase = "idle" /\ UNCHANGED <<ask, layout, scanVars>>
  BY DEF StartQuery, QueryStep, InNewState, PNext, QIInv, Joined, Ask

\* NewState returns the answer or fails.
LEMMA OpensAnswer ==
    ASSUME QIInv, BindFails \/ NullState \/ NewState
    PROVE  /\ UNCHANGED <<ask, queryVars>> /\ phase = "idle"
           /\ Scanned!Open(Answer) \/ Scanned!OpenFails
<1>1. UNCHANGED <<ask, queryVars>> /\ phase = "idle"
  BY DEF BindFails, NullState, NewState, InNewState
<1>2. CASE BindFails
  BY <1>1, <1>2, SameScan DEF BindFails
<1>3. CASE NullState
  <2>1. Answer = << >>
    BY <1>3, AnswerTyped DEF NullState, QIInv, Joined, PIInv, Behaved
  <2>2. QED
    BY <1>1, <1>3, <2>1, SameScan DEF NullState
<1>4. CASE NewState
  <2>1. pc = "done" => Returned = Answer
    BY ReturnsAnswer DEF QIInv
  <2>2. QED
    BY <1>1, <1>4, <2>1, SameScan DEF NewState
<1>5. QED
  BY <1>2, <1>3, <1>4

\* After it the page loop stands still and the cursor moves, or nothing does.
LEMMA CursorMoves ==
    ASSUME ScanStep \/ Disturbance
    PROVE  /\ UNCHANGED <<ask, queryVars>>
           /\ \/ Scanned!Resume \/ Scanned!Emit \/ Scanned!Finish \/ Scanned!Deliver
              \/ Scanned!LoseExchange \/ Scanned!Broken
  BY SameScan DEF ScanStep, Disturbance

\* The answer changes with nothing but the arguments and the collection.
LEMMA SameAnswer ==
    ASSUME UNCHANGED <<ask, layout>>
    PROVE  Answer' = Answer /\ Limit' = Limit /\ IsNull(ask)' = IsNull(ask)
  BY DEF Answer, Limit, IsNull, Collection, FirstPages

\* While the page loop stands still, what joins it to the cursor lasts if the rows
\* fetched do, or are the answer.
LEMMA JoinLasts ==
    ASSUME Joined, UNCHANGED <<ask, queryVars>>,
           \/ fetched' = fetched /\ phase' = phase
           \/ fetched' = fetched /\ phase = "open"
           \/ fetched' = Answer
           \/ phase' = "failed"
    PROVE  Joined'
<1>1. Answer' = Answer /\ Limit' = Limit /\ IsNull(ask)' = IsNull(ask)
  BY SameAnswer DEF queryVars
<1>2. QED
  BY <1>1 DEF Joined, queryVars, vars

\* Every step keeps the invariant.
LEMMA QIInvStep == QIInv /\ [QNext]_allVars => QIInv'
<1> SUFFICES ASSUME QIInv, [QNext]_allVars PROVE QIInv'
  OBVIOUS
<1>1. Scanned!Next \/ UNCHANGED Scanned!vars => Scanned!IInv'
  BY ScanAssumed, Scanned!IInvStep DEF QIInv
<1>2. CASE BindFails \/ NullState \/ NewState
  <2>1. /\ UNCHANGED <<ask, queryVars>> /\ phase = "idle"
        /\ Scanned!Open(Answer) \/ Scanned!OpenFails
    BY <1>2, OpensAnswer
  <2>2. PIInv'
    BY <2>1, PIInvStep DEF QIInv, queryVars
  <2>3. Answer \in Seq(Row)
    BY AnswerTyped DEF QIInv, Joined, PIInv, Behaved
  <2>4. Scanned!IInv'
    <3>1. CASE Scanned!Open(Answer)
      BY <2>3, <3>1, ScanAssumed, Scanned!OpenKeepsIInv DEF QIInv
    <3>2. CASE Scanned!OpenFails
      BY <1>1, <3>2 DEF Scanned!Next
    <3>3. QED
      BY <2>1, <3>1, <3>2
  <2>5. fetched' = Answer \/ phase' = "failed"
    BY <2>1 DEF Scanned!Open, Scanned!OpenFails
  <2>6. QED
    BY <2>1, <2>2, <2>4, <2>5, JoinLasts DEF QIInv
<1>3. CASE StartQuery \/ QueryStep
  <2>1. PNext /\ phase = "idle" /\ UNCHANGED <<ask, layout, scanVars>>
    BY <1>3, QueryMoves
  <2>2. PIInv'
    BY <2>1, PIInvStep DEF QIInv
  <2>3. Scanned!IInv'
    BY <1>1, <2>1 DEF scanVars, Scanned!vars
  <2>4. Answer' = Answer /\ Limit' = Limit /\ IsNull(ask)' = IsNull(ask)
    BY <2>1, SameAnswer
  <2>5. pc' # "start" => ~IsNull(ask) /\ maxRows' = Limit
    <3>1. CASE StartQuery
      BY <3>1, LimitTyped DEF StartQuery, Start, QIInv, Joined
    <3>2. CASE QueryStep
      BY <3>2 DEF QueryStep, Return, Abort, Request, GetFails, ReceivePage, Receive,
                  AppendRow, Advance, QIInv, Joined
    <3>3. QED
      BY <1>3, <3>1, <3>2
  <2>6. Joined'
    BY <2>1, <2>4, <2>5 DEF QIInv, Joined, scanVars
  <2>7. QED
    BY <2>2, <2>3, <2>6 DEF QIInv
<1>4. CASE ScanStep \/ Disturbance
  <2>1. /\ UNCHANGED <<ask, queryVars>>
        /\ \/ Scanned!Resume \/ Scanned!Emit \/ Scanned!Finish \/ Scanned!Deliver
           \/ Scanned!LoseExchange \/ Scanned!Broken
    BY <1>4, CursorMoves
  <2>2. PIInv'
    BY <2>1, PIInvStep DEF QIInv, queryVars
  <2>3. Scanned!IInv'
    BY <1>1, <2>1 DEF Scanned!Next
  <2>4. \/ fetched' = fetched /\ phase' = phase
        \/ fetched' = fetched /\ phase = "open"
        \/ phase' = "failed"
    <3>1. CASE Scanned!Resume \/ Scanned!Emit \/ Scanned!Finish \/ Scanned!Deliver
      BY <3>1, ScanAssumed, Scanned!WhatATickShows DEF QIInv
    <3>2. CASE Scanned!LoseExchange \/ Scanned!Broken
      BY <3>2 DEF Scanned!LoseExchange, Scanned!Broken
    <3>3. QED
      BY <2>1, <3>1, <3>2
  <2>5. QED
    BY <2>1, <2>2, <2>3, <2>4, JoinLasts DEF QIInv
<1>5. CASE UNCHANGED allVars
  <2>1. UNCHANGED <<ask, queryVars>> /\ UNCHANGED scanVars
    BY <1>5 DEF allVars
  <2>2. PIInv'
    BY <2>1, PIInvStep DEF QIInv, queryVars
  <2>3. Scanned!IInv'
    BY <1>1, <2>1 DEF scanVars, Scanned!vars
  <2>4. QED
    BY <2>1, <2>2, <2>3, JoinLasts DEF QIInv, scanVars
<1>6. QED
  BY <1>2, <1>3, <1>4, <1>5 DEF QNext, Ended

\* QIInv holds in every state of a scan.
LEMMA QIInvHolds == QSpec => []QIInv
<1>1. QED
  BY QInitQIInv, QIInvStep, PTL DEF QSpec

(***************************************************************************)
(* The refinement                                                          *)
(***************************************************************************)
LEMMA PromisedAtFirst == QInit => Promise!Init
<1> SUFFICES ASSUME QInit PROVE Promise!Init
  OBVIOUS
<1>1. phase = "idle" /\ got = << >>
  BY DEF QInit, Cursor!Init
<1>2. Answer \in Seq(Row)
  BY AnswerTyped DEF QInit, PInit
<1>3. QED
  BY <1>1, <1>2 DEF Promise!Init

\* Every step is one of the promise: what NewState returns is the answer, a tick or
\* an HTTP response gives the next rows of it or ends the scan when all are given,
\* a failure fails, and the rest the client does not see.
LEMMA PromisedStep == QIInv /\ [QNext]_allVars => [Promise!Next]_(Promise!vars)
<1> SUFFICES ASSUME QIInv, [QNext]_allVars PROVE [Promise!Next]_(Promise!vars)
  OBVIOUS
<1>1. ASSUME UNCHANGED <<ask, queryVars, phase, got>>
      PROVE  UNCHANGED Promise!vars
  BY <1>1, SameAnswer DEF Promise!vars, queryVars
<1>2. CASE BindFails \/ NullState \/ NewState
  <2>1. /\ UNCHANGED <<ask, queryVars>> /\ phase = "idle"
        /\ Scanned!Open(Answer) \/ Scanned!OpenFails
    BY <1>2, OpensAnswer
  <2>2. Answer' = Answer
    BY <2>1, SameAnswer DEF queryVars
  <2>3. CASE Scanned!Open(Answer)
    BY <2>1, <2>2, <2>3 DEF Scanned!Open, Promise!Next, Promise!Fetched
  <2>4. CASE Scanned!OpenFails
    BY <2>1, <2>2, <2>4 DEF Scanned!OpenFails, Promise!Next, Promise!Fail
  <2>5. QED
    BY <2>1, <2>3, <2>4
<1>3. CASE StartQuery \/ QueryStep
  <2>1. UNCHANGED <<ask, layout, scanVars>>
    BY <1>3, QueryMoves
  <2>2. QED
    BY <2>1, SameAnswer DEF scanVars, Promise!vars
<1>4. CASE ScanStep \/ Disturbance
  <2>1. /\ UNCHANGED <<ask, queryVars>>
        /\ \/ Scanned!Resume \/ Scanned!Emit \/ Scanned!Finish \/ Scanned!Deliver
           \/ Scanned!LoseExchange \/ Scanned!Broken
    BY <1>4, CursorMoves
  <2>2. Answer' = Answer
    BY <2>1, SameAnswer DEF queryVars
  <2>3. CASE Scanned!Resume \/ Scanned!Emit \/ Scanned!Finish \/ Scanned!Deliver
    <3>1. /\ fetched' = fetched
          /\ \/ UNCHANGED <<phase, got>>
             \/ /\ phase = "open" /\ phase' = phase
                /\ \E n \in Len(got) + 1 .. Len(fetched) : got' = Scanned!Upto(n)
             \/ phase = "open" /\ phase' = "finished" /\ got = fetched /\ got' = got
      BY <2>3, ScanAssumed, Scanned!WhatATickShows DEF QIInv
    <3>2. CASE UNCHANGED <<phase, got>>
      BY <1>1, <2>1, <3>2
    <3>3. CASE /\ phase = "open" /\ phase' = phase
               /\ \E n \in Len(got) + 1 .. Len(fetched) : got' = Scanned!Upto(n)
      <4>1. fetched = Answer
        BY <3>3 DEF QIInv, Joined
      <4>2. \E n \in Len(got) + 1 .. Len(Answer) : got' = SubSeq(Answer, 1, n)
        BY <3>3, <4>1 DEF Scanned!Upto
      <4>3. QED
        BY <2>2, <3>3, <4>2 DEF Promise!Next, Promise!Give
    <3>4. CASE phase = "open" /\ phase' = "finished" /\ got = fetched /\ got' = got
      <4>1. got = Answer
        BY <3>4 DEF QIInv, Joined
      <4>2. QED
        BY <2>2, <3>4, <4>1 DEF Promise!Next, Promise!Finish
    <3>5. QED
      BY <3>1, <3>2, <3>3, <3>4
  <2>4. CASE Scanned!LoseExchange
    BY <1>1, <2>1, <2>4 DEF Scanned!LoseExchange
  <2>5. CASE Scanned!Broken
    BY <2>2, <2>5 DEF Scanned!Broken, Promise!Next, Promise!Fail
  <2>6. QED
    BY <2>1, <2>3, <2>4, <2>5
<1>5. CASE UNCHANGED allVars
  BY <1>1, <1>5 DEF allVars, scanVars
<1>6. QED
  BY <1>2, <1>3, <1>4, <1>5 DEF QNext, Ended

\* A scan of odata_query gives its client the rows of the right answer in order, each
\* once, and says that it is finished only when all are given, or fails: never a
\* wrong or a short answer presented as complete (functions.go, NewState and
\* Process; client.go, Query).
THEOREM PromiseIsKept == QSpec => KeepsPromise
<1>1. QED
  BY PromisedAtFirst, PromisedStep, QIInvHolds, PTL DEF QSpec, KeepsPromise, Promise!Spec

(***************************************************************************)
(* What a call has still to do                                             *)
(***************************************************************************)
LEMMA SameLeft ==
    /\ Cursor!Left = Scanned!Left
    /\ Cursor!Less((Cursor!Left)', Cursor!Left) <=> Scanned!Less((Scanned!Left)', Scanned!Left)
  BY DEF Cursor!Left, Scanned!Left, Cursor!Less, Scanned!Less

\* Every step of a call counts down in one half and leaves the other alone.
LEMMA CallStep ==
    ASSUME QIInv, QNext, ~UNCHANGED allVars
    PROVE  \/ Less(Left', Left) /\ UNCHANGED Cursor!Left
           \/ Cursor!Less((Cursor!Left)', Cursor!Left) /\ UNCHANGED Left
<1>1. CASE StartQuery \/ QueryStep
  <2>1. UNCHANGED Cursor!Left
    BY <1>1 DEF StartQuery, QueryStep, scanVars, Cursor!Left
  <2>2. Less(Left', Left)
    <3>1. CASE StartQuery
      <4>1. page' = page /\ Stage' < Stage
        BY <3>1 DEF StartQuery, Start, Fail, Stage
      <4>2. QED
        BY <4>1, StageCounts
    <3>2. CASE QueryStep
      BY <3>2, StepCountsDown DEF QueryStep, Step, CountsDown, QIInv, PIInv
    <3>3. QED
      BY <1>1, <3>1, <3>2
  <2>3. QED
    BY <2>1, <2>2
<1>2. CASE BindFails \/ NullState \/ NewState \/ ScanStep \/ Disturbance
  <2>1. UNCHANGED <<ask, queryVars>>
    BY <1>2 DEF BindFails, NullState, NewState, ScanStep, Disturbance
  <2>2. UNCHANGED Left
    BY <2>1 DEF queryVars, vars, Left, Stage
  <2>3. \/ \E rows : Scanned!Open(rows)
        \/ Scanned!OpenFails \/ Scanned!Resume \/ Scanned!Emit \/ Scanned!Finish
        \/ Scanned!Deliver \/ Scanned!LoseExchange \/ Scanned!Broken
    BY <1>2, SameScan DEF BindFails, NullState, NewState, ScanStep, Disturbance
  <2>4. Scanned!Less((Scanned!Left)', Scanned!Left)
    BY <2>3, ScanAssumed, Scanned!StepCountsDown DEF QIInv, Scanned!CountsDown
  <2>5. QED
    BY <2>2, <2>4, SameLeft
<1>3. QED
  BY <1>1, <1>2 DEF QNext, Ended

\* A call goes on only as long as the query or the scan has something left to do,
\* for every collection, pageCap and rowsPerTick (functions.go, NewState).
THEOREM AlwaysLessToDo == QSpec => LessToDo
<1> DEFINE Counts == \/ Less(Left', Left) /\ UNCHANGED Cursor!Left
                     \/ Cursor!Less((Cursor!Left)', Cursor!Left) /\ UNCHANGED Left
<1>1. QIInv /\ [QNext]_allVars => [Counts]_allVars
  BY CallStep
<1>2. QED
  BY <1>1, QIInvHolds, PTL DEF QSpec, LessToDo
=============================================================================
