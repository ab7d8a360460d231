----------------------------- MODULE MockQuery -----------------------------
(***************************************************************************)
(* The three functions against the mock service of odatamock, from the     *)
(* arguments to the request that its mux is sent: the URL building of      *)
(* client.go and functions.go, the routes of server.go, and the page loop  *)
(* of Query (Paging) between them.  A URL is its path, as slashes, escaped *)
(* slashes and words, and its query, as pairs.                             *)
(***************************************************************************)
EXTENDS Selection

CONSTANTS
    Asks,          \* the calls: function, service_url and the other arguments
    Mock, Host,    \* authority of the mock service, and all of them
    Word,          \* what stands between slashes, in names and in values
    People,        \* the four entities of the mock
    Entry,         \* the one element of its service document
    Empty, Unparsable, NoQuery,
    MaxRowsArg, defaultMaxRows, pageCap

(***************************************************************************)
(* A service_url: its form as url.Parse finds it, and its parts.  A pair   *)
(* that is not well formed (a semicolon, a bad escape) has "ok" false.     *)
(***************************************************************************)
Option == {"$filter", "$select", "$orderby", "$top"}
Key == Word \cup Option
Token == Word \cup {"/", "%2F", "$metadata"}
Name == Token \ {"%2F"}  \* in entity_set a percent sign stands for itself
Pair == [key : Key, value : Seq(Token), ok : BOOLEAN]
Root == [form : {"absolute", "relative", "unparsable"}, host : Host,
         path : Seq(Token), query : Seq(Pair)]

Ask == [fn : {"query", "sets", "metadata"}, root : Root, set : Seq(Name),
        filter : Seq(Token), select : Seq(Token), orderby : Seq(Token),
        top : Seq(Token), max : MaxRowsArg]

ASSUME AsksAssumption == Asks \subseteq Ask
ASSUME MockAssumption ==
    Mock \in Host /\ People = [i \in 1 .. 4 |-> People[i]] /\ {"page", "2", "People"} \subseteq Word
ASSUME PageCapAssumption == pageCap \in Nat /\ pageCap > 2
ASSUME MaxRowsAssumption ==
    MaxRowsArg \subseteq Int /\ defaultMaxRows \in Nat /\ defaultMaxRows > Len(People)

\* u.Path has escapes decoded.
Decoded(path) == [i \in DOMAIN path |-> IF path[i] = "%2F" THEN "/" ELSE path[i]]

TrimRight(path) ==
    SubSeq(path, 1, CHOOSE n \in 0 .. Len(path) :
                        /\ n = 0 \/ path[n] # "/"
                        /\ \A i \in n + 1 .. Len(path) : path[i] = "/")

TrimLeft(path) ==
    SubSeq(path, CHOOSE n \in 1 .. Len(path) + 1 :
                        /\ n = Len(path) + 1 \/ path[n] # "/"
                        /\ \A i \in 1 .. n - 1 : path[i] = "/", Len(path))

\* The path under the service root: String escapes it anew, unless what the root was
\* given still decodes to it.  The slip is to leave the slashes at the seam.
JoinedUntrimmed(root, set) == Decoded(root.path) \o <<"/">> \o set

Joined(root, set) ==
    LET joined == TrimRight(Decoded(root.path)) \o <<"/">> \o TrimLeft(set)
    IN  IF joined = Decoded(root.path) THEN root.path ELSE joined

\* url.Query: the values of each key, of the pairs that are well formed.
Query(pairs) ==
    LET upTo[n \in 0 .. Len(pairs)] ==
            IF n = 0 THEN [k \in Key |-> << >>]
            ELSE IF pairs[n].ok
            THEN [upTo[n - 1] EXCEPT ![pairs[n].key] = Append(@, pairs[n].value)]
            ELSE upTo[n - 1]
    IN  upTo[Len(pairs)]

\* q.Set for each option that is given; the slip is q.Add.
WithAdded(values, v) == Append(values, v)
WithSet(values, v) == <<v>>

applyQueryOptions(q, opts) ==
    [k \in Key |-> IF k \in Option /\ opts[k] # << >> THEN WithSet(q[k], opts[k]) ELSE q[k]]

\* What of the arguments goes to Query as options, and max_rows; the slip is to
\* forget that.
optsFrom(a) == [k \in Option |-> CASE k = "$filter"  -> a.filter
                                   [] k = "$select"  -> a.select
                                   [] k = "$orderby" -> a.orderby
                                   [] k = "$top"     -> a.top]
MaxForgotten(a) == 0
MaxFrom(a) == a.max

\* Whether service_url is parsed and has a scheme and a host; the slip is to look
\* at the first alone.
Parses(root) == root.form # "unparsable"
Absolute(root) == root.form = "absolute"

\* net/http refuses to send a request to any other.
Requestable(root) == root.form = "absolute"

\* A URL as it is requested.
Requested(host, path, query) == [host |-> host, path |-> [segs |-> path, query |-> query]]

QueryURL(a) ==
    IF Absolute(a.root)
    THEN Requested(a.root.host, Joined(a.root, a.set),
                   applyQueryOptions(Query(a.root.query), optsFrom(a)))
    ELSE Unparsable

\* Metadata appends to the string that service_url is: to its path, or to the last
\* value of its query if it has one.
metaURL(root) ==
    IF root.query = << >>
    THEN Requested(root.host, TrimRight(root.path) \o <<"/", "$metadata">>, Query(root.query))
    ELSE Requested(root.host, root.path,
                   Query([root.query EXCEPT ![Len(root.query)].value =
                              TrimRight(@) \o <<"/", "$metadata">>]))

DocumentURL(a) ==
    IF a.fn = "metadata" THEN metaURL(a.root)
    ELSE Requested(a.root.host, a.root.path, Query(a.root.query))

VARIABLES
    ask,        \* the call
    base,       \* the service met: the mock, given its baseURL or not
    asked,      \* history: the URLs requested, in order
    lastQuery,  \* of the mock
    pc, err, maxRows, v2, next, page, items, link, out, seq, sent

fetchVars == <<pc, err, maxRows, v2, next, page, items, link, out, seq, sent>>
vars == <<ask, base, asked, lastQuery, fetchVars>>

Fetch == INSTANCE Paging WITH
    Payload <- {People[i] : i \in DOMAIN People} \cup {Entry},
    Path <- [segs : Seq(Token), query : [Key -> Seq(Seq(Token))]],
    FirstURL <- {}, Services <- BOOLEAN, service <- base

ASSUME StringsAssumption ==
    /\ Empty # Unparsable
    /\ {Empty, Unparsable} \cap (Fetch!URL \cup Fetch!Relative) = {}

Init == /\ ask \in Asks
        /\ asked = << >>
        /\ lastQuery = NoQuery
        /\ Fetch!Init

(***************************************************************************)
(* The mux: what it finds at a path, and what it sends for an entity set.  *)
(* It would redirect a path with a doubled slash to the cleaned one; that  *)
(* is left out, and no service root here names such a path of the mock.    *)
(***************************************************************************)
Route(path) == CASE Decoded(path.segs) \in {<< >>, <<"/">>}  -> "service"
                 [] Decoded(path.segs) = <<"/", "$metadata">> -> "metadata"
                 [] Decoded(path.segs) = <<"/", "People">>    -> "people"
                 [] OTHER                                     -> "none"

\* r.URL.Query().Get("page") == "2"
IsPage2(query) == query["page"] # << >> /\ query["page"][1] = <<"2">>

Page2 == Requested(Mock, <<"/", "People">>, Query(<<[key |-> "page", value |-> <<"2">>, ok |-> TRUE]>>))
NextLink == IF base THEN Page2 ELSE [path |-> Page2.path]

V4(values, following) == [json |-> TRUE, value |-> values, nextLink |-> following,
                          d |-> "absent", elems |-> << >>, next |-> Empty]

\* No body for a path that is not found.
Body(path) ==
    CASE Route(path) = "service"  -> {V4(<<Entry>>, Empty)}
      [] Route(path) = "metadata" -> {[V4(<< >>, Empty) EXCEPT !.json = FALSE]}
      [] Route(path) = "people"   ->
            {IF IsPage2(path.query) THEN V4(SubSeq(People, 3, 4), Empty)
             ELSE V4(SubSeq(People, 1, 2), NextLink)}
      [] OTHER -> {}

\* The slip is to record the request for page 2 as well.
RecordsAll(path) == Route(path) = "people"
Records(path) == Route(path) = "people" /\ ~IsPage2(path.query)

Record(url) == lastQuery' = IF Records(url.path) THEN url.path.query ELSE lastQuery

(***************************************************************************)
(* The calls                                                               *)
(***************************************************************************)
StartQuery ==
    /\ ask.fn = "query"
    /\ Fetch!Start(MaxFrom(ask), QueryURL(ask))
    /\ UNCHANGED <<ask, base, asked, lastQuery>>

Request == /\ Fetch!Request
           /\ asked' = Append(asked, next)
           /\ UNCHANGED <<ask, base, lastQuery>>

\* The mock has handled the request; its answer may be lost.
Handled ==
    /\ pc = "get"
    /\ next.host = Mock
    /\ Record(next)
    /\ Fetch!GetFails \/ \E body \in Body(next.path) : Fetch!Receive(body)
    /\ UNCHANGED <<ask, base, asked>>

NotHandled == Fetch!GetFails /\ UNCHANGED <<ask, base, asked, lastQuery>>

\* The rest of the page loop; two pages never reach the cap (Fetch!Abort).
Loop == /\ Fetch!Return \/ Fetch!AppendRow \/ Fetch!Advance
        /\ UNCHANGED <<ask, base, asked, lastQuery>>

\* EntitySets and Metadata: one request, for a document that its decoder accepts;
\* the answer may be lost, before the mock handles the request or after.
Fits(a) == Route(DocumentURL(a).path)
           \in IF a.fn = "metadata" THEN {"metadata"} ELSE {"service", "people"}

DiscoverAt(url) ==
    /\ asked' = <<url>>
    /\ \/ Fetch!Fail("get") /\ UNCHANGED lastQuery
       \/ url.host = Mock /\ Record(url) /\ Fetch!Fail("get")
       \/ url.host = Mock /\ Record(url) /\ Fits(ask) /\ pc' = "done" /\ UNCHANGED err

Discover ==
    /\ ask.fn # "query"
    /\ pc = "start"
    /\ \/ Requestable(ask.root) /\ DiscoverAt(DocumentURL(ask))
       \/ ~Requestable(ask.root) /\ Fetch!Fail("get") /\ UNCHANGED <<asked, lastQuery>>
    /\ UNCHANGED <<ask, base, maxRows, v2, next, page, items, link, out, seq, sent>>

Terminated == pc \in {"done", "failed"} /\ UNCHANGED vars

Next == StartQuery \/ Request \/ Handled \/ NotHandled \/ Loop \/ Discover \/ Terminated

Spec == Init /\ [][Next]_vars

(***************************************************************************)
(* Properties                                                              *)
(***************************************************************************)
Words(path) == Without(path, {"/", "%2F"})

\* What is asked for under the service root.
Target(a) == CASE a.fn = "query"    -> Words(a.set)
               [] a.fn = "metadata" -> <<"$metadata">>
               [] a.fn = "sets"     -> << >>

\* The slash at place n joins the root and the target.
Seam(path, n) ==
    /\ path[n] = "/"
    /\ n > 1 => path[n - 1] # "/"
    /\ n < Len(path) => path[n + 1] # "/"
    /\ Words(SubSeq(path, 1, n)) = Words(ask.root.path)
    /\ Words(SubSeq(path, n + 1, Len(path))) = Target(ask)

\* A query is sent to the entity set under the service root, the root's path kept
\* and one slash at the seam once it is decoded, and a discovery to the root or to
\* $metadata under it (client.go, joinURL, "preserving any existing path on the service
\* root").  Not claimed: which slashes of a query's path are escaped, and $metadata
\* under a root with a query of its own.
UnderRoot ==
    (asked # << >> /\ (ask.fn = "metadata" => ask.root.query = << >>)) =>
        LET path == asked[1].path.segs
            seen == IF ask.fn = "query" THEN Decoded(path) ELSE path
        IN  /\ asked[1].host = ask.root.host
            /\ IF ask.fn = "sets" THEN path = ask.root.path
               ELSE \E n \in DOMAIN seen : Seam(seen, n)

\* What the service root itself gives for a key: the values of its well-formed pairs,
\* in order.
NotOf(k) == {ask.root.query[i] : i \in {j \in DOMAIN ask.root.query :
                  ~(ask.root.query[j].ok /\ ask.root.query[j].key = k)}}
Given(k) == LET own == Without(ask.root.query, NotOf(k))
            IN  [i \in DOMAIN own |-> own[i].value]

\* After a query that reached the mock's first page, LastQuery holds the options of
\* the call, as given, and the values of those well-formed parameters of the service
\* root that they do not replace, and nothing else, however many pages followed
\* (client_test.go, TestQueryOptionPassThrough; server.go, "would clobber the
\* assertion").
Holds(k, v) == lastQuery[k] = IF v = << >> THEN Given(k) ELSE <<v>>

PassThrough ==
    /\ ask.fn = "query" /\ pc = "done"
    /\ Route(asked[1].path) = "people" /\ Given("page") = << >>
    => /\ Holds("$filter", ask.filter) /\ Holds("$select", ask.select)
       /\ Holds("$orderby", ask.orderby) /\ Holds("$top", ask.top)
       /\ \A k \in Key \ Option : Holds(k, << >>)

\* At the mock's root, People is read whole: its first max_rows entities in order,
\* or a failure of a GET.  With version := 'v2' its v4 pages read as empty ones, and
\* the query succeeds with no rows (server.go, TotalPeople; client.go, decodePage).
AtMock(a) == /\ a.root.form = "absolute" /\ a.root.host = Mock /\ Given("page") = << >>
             /\ Words(a.root.path) = << >> /\ Words(a.set) = <<"People">>

EveryRow ==
    (ask.fn = "query" /\ AtMock(ask)) =>
        LET n == IF ask.max \in 1 .. 4 THEN ask.max ELSE 4
        IN  /\ pc = "done" => out = IF v2 THEN << >>
                                    ELSE [i \in 1 .. n |-> [seq |-> i - 1, entity |-> People[i]]]
            /\ pc = "failed" => err = "get"

\* A service_url that is not an absolute URL is an error before anything is sent
\* (README, "Clear errors, never a crash or hang").
BadRootSendsNothing ==
    ask.root.form # "absolute" => asked = << >> /\ pc \in {"start", "failed"}

\* client.go on Metadata: it fetches "the $metadata (EDMX XML) document for the
\* service at serviceURL".  So the request is for $metadata under the root.
MetadataAtService ==
    (ask.fn = "metadata" /\ asked # << >>) =>
        Words(asked[1].path.segs) = Words(ask.root.path) \o <<"$metadata">>
=============================================================================
