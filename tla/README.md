# A verification development of vgi-odata

vgi-odata is a DuckDB extension worker (Go) that reads OData v2 and v4 services: `odata_query`
returns the entities of an entity set as rows of JSON, `odata_entity_sets` and `odata_metadata`
describe a service. This directory holds TLA+ models of it, the TLC runs that check them on small
instances, and theorems, proved with TLAPS for every value of the constants: every safety property
that a passing run checks is one of them, and so are both refinements. Paths are relative to the
repository.

    cd tla
    tlc -workers 2 -config MCPaging.cfg MCPaging   # and so for the other runs
    tlapm PagingProofs.tla                         # and so for the other *Proofs.tla, Induction.tla

`PROJECT.json` lists the runs, the code each definition stands for, the hazards and the theorems.

## 1. Inventory

| Part | Code | State | Operations |
|---|---|---|---|
| Page loop | `internal/odataworker/client.go`: `Query`, `decodePage`, `resolveNext`, `doGET` | the local variables of one call: URL of the next page, page count, rows, sequence number | prologue, loop test, page cap, GET, decode, row loop, link resolution |
| URL building | `client.go`: `joinURL`, `applyQueryOptions`, the `$metadata` URL | none | parse, join, encode |
| Discovery | `client.go`: `EntitySets`, `Metadata` | none after the call | one GET, decode, flatten |
| Table function scan | `functions.go`: `NewState`, `Process`, `cursorSlice`, the gob-encoded state structs | the rows fetched and a cursor; over HTTP inside a continuation token | bind, fetch all, tick, finish, encode, decode |
| `odata_query` | `functions.go`, `client.go` | the two above, one after the other | the whole call |
| Mock service | `internal/odatamock/server.go`, `cmd/mockserver/main.go` | `lastQuery` under a mutex; listener, server, signal channel | handlers, listen, announce, serve, shut down |
| Worker command line | `cmd/vgi-odata-worker/main.go`, `docker-entrypoint.sh` | the flag set | filter argv, parse, choose the transport |
| Integration script | `ci/run-integration.sh`, `Makefile` | the PIDs of its servers, its exit status | start, wait for a port, run the suite, clean up |
| Catalog metadata | `meta.go`, `views.go`, the tags in `functions.go` and `main.go` | none | none: static text and a fixed view |

How they interact. DuckDB starts the worker with a command line and talks to it over stdio, an
AF_UNIX socket or HTTP. For each scan the SDK calls `NewState`, which calls `Query`, `EntitySets` or
`Metadata` in the same goroutine; these call the remote service by HTTP GET and return everything or
an error. The SDK gob-encodes the state, then calls `Process` once per tick until `out.Finish`. On
stdio and AF_UNIX one process holds the state between ticks; over HTTP the state leaves with each
response and comes back with the next request, perhaps to another worker. The mock service stands
for the remote one in the tests; its callers learn its port from the `PORT:` line on its stdout, and
stop it with a signal. The integration script is one of these callers: it runs the suite, whose tests
reach the mock by way of the worker, on each of the three transports.

What is hard about it, and what makes each part correct:

* **Page loop.** The service decides how many pages there are, what they hold and where their links
  lead, a circle of empty pages included. Two bounds interact: `maxRows` is tested in the outer loop
  and in the inner one, `pageCap` in the outer one alone. *Correct* if the rows are the entities
  sent, in order, numbered without a gap; if a query that succeeds has `maxRows` rows or all there
  are; if it makes no needless request, at most `pageCap` of them, and always ends; if a relative
  link leads to the host of the page that holds it; and if a failure returns nothing.
* **Scan.** The comment at the top of `functions.go` tells of a bug in which a position that was not
  in the encoded state repeated the same rows for ever, over HTTP only. *Correct* if the client gets
  every row once and in order on every transport, if a repeated exchange gets the same rows, and if
  every exchange that does not end the scan makes progress.
* **Discovery.** Two shapes of service document, two places for the schemas. *Correct* if every
  property and every name is there as often as in the document, in its order, or the scan fails.
* **Mock service.** Handlers run concurrently with each other and with the signal goroutine.
  *Correct* if a test reads its own query or a later one from `LastQuery`, never that of a page 2;
  if the announced port can be connected to; if a signal ends the process.
* **Command line.** `filterKnownFlags` and package `flag` each decide which token is the value of
  which flag. *Correct* if they agree, and if a stranger's flags never stop the worker.
* **URL building.** Three places make a URL, each in its own way. *Correct* if the path and the query
  of the service root survive, if each argument arrives once, and if a root that is no absolute URL is
  refused before anything is sent.
* **Integration script.** Its servers may be slow, fail, or be someone else's; it may stop anywhere;
  and the runner reports a test that could not reach its server as skipped. *Correct* if it always
  exits, ends what it started and nothing else, and does not exit 0 when every test that it ran was
  skipped.

Every hazard, at its line, is in `PROJECT.json`, with the properties that cover it.

## 2. Modules

| Module | Extends | Instantiates | Its proofs, and what they use |
|---|---|---|---|
| `Pages` | | | |
| `Paging` | `Pages` | | `PagingProofs` |
| `PagedService` | `Paging` | | `QueryProofs`: `PagingProofs`, `Induction` |
| `Scan` | | | `ScanProofs` |
| `AbstractQuery` | | | |
| `QueryFunction` | `PagedService` | `Scan`, `AbstractQuery` | `QueryProofs`: an instance of `ScanProofs` |
| `Selection` | | | `Induction` |
| `Discovery` | `Selection` | | `DiscoveryProofs`: `Induction` |
| `DiscoveryFunction` | `Discovery` | `Scan`, `AbstractQuery` | `DiscoveryProofs`: an instance of `ScanProofs` |
| `MockQuery` | `Selection` | `Paging` | `MockQueryProofs`: `Induction`, an instance of `PagingProofs` |
| `MockServer` | | | |
| `Integration` | `MockServer` | | `IntegrationProofs` |
| `Flags` | | | `FlagsProofs`: `Induction` |

Each component has an `MC...` module with the values of its constants for TLC, and one `.cfg` per run.

**Pages** is the data of the page loop: `decodePage`, which reads a body as v4 or v2, and
`resolveNext`. A body is reduced to the members that the decoders look at, with the form of the v2
envelope `d` (absent, an array, an object with `results`, an object without); a URL to its authority
and the rest; an entity to a model value. `json.Unmarshal` into a struct rejects an array and into a
slice rejects an object, which is what `FitsV2Page` and `FitsV2SingleD` say.

**Paging** is `Query`: `pc` says where the goroutine is, the other variables are its locals. One
action per step: `Start` (the prologue), `Return`, `Abort` and `Request` (the three ways the head of
the loop goes), `GetFails` and `ReceivePage` (`doGET`, `decodePage`), `AppendRow` (one turn of the
row loop) and `Advance` (its end, and the post statement of the page loop). The service answers with
*any* body it has at a URL, a different one each time if it likes, and any GET may fail. `sent` is a
history variable: the entities of every page decoded.

**PagedService** adds a service that behaves: a known collection split over pages of two hosts, with
absolute and relative links, in both versions. Against it a query can be held to having read *the
collection*, not just what it was sent. The mock service is one of these.

**Scan** is one scan of any of the three table functions, which differ in their rows alone. `Open`
is `NewState`, `Emit` and `Finish` are the two outcomes of `Process`, with `cursorSlice` in them;
`Resume` and `Deliver` are the SDK and the client; `Encode` and `Decode` are gob, which sends the
exported fields and nothing else. `LoseExchange` loses a request, a worker or a response over HTTP,
after which the client may repeat the exchange with the token it has; `Broken` is a client that
gives up or a process that dies.

**AbstractQuery** is what `odata_query` promises: there is one right answer; the client is given
growing prefixes of it, and told "finished" only when it has the whole; it may be told "failed" at
any time. **QueryFunction** composes the argument checks of `NewState`, `PagedService` and `Scan`,
and implements `AbstractQuery` under the mapping at its end, where the right answer is defined from
the arguments and the collection without reference to pages, cursors or ticks.

**Discovery** is `EntitySets` and `Metadata`: one action for each, the document being the input.
Beside them stands a definition of the rows by their place in the document (`Declared`,
`Advertised`), which knows nothing of loops: `InOrder` puts a set of places in order, each where as
many others precede it. **Selection** is what a loop keeps that appends some elements of a sequence:
the names that are not empty here, the words of a path in `MockQuery`. **DiscoveryFunction** composes
`NewState` of the two functions, `Discovery` and `Scan`, and implements `AbstractQuery` with those rows
as the right answer.

**MockQuery** is a call of any of the three functions against the mock service: `QueryURL` (`optsFrom`,
`joinURL`, `applyQueryOptions`), `metaURL` and `DocumentURL` make the URL from the arguments, `Paging`
runs the loop, and `Route`, `Body` and `Record` are the mux and the handlers of `odatamock`. A URL is
its path, as a sequence of slashes, escaped slashes and words, and its query, as a sequence of pairs
of which some are not well formed. Percent-encoding is modelled by what it keeps and loses. `u.Path`
is decoded, and joining it loses an escaped slash, since `String` finds that `RawPath` no longer fits;
but it fits still, and is sent, where the joined path is the decoded one of the root. A percent sign in
`entity_set` stands for itself, so that a `Name` holds no escaped slash. `u.Query` drops malformed
pairs; `Encode` orders by key, so that a query is the values of each key. `EntitySets` and `Metadata`
do not look at the URL they request: net/http refuses one without scheme or host (`Requestable`), and
on this the part of `BadRootSendsNothing` that is about them rests.

**MockServer** is `cmd/mockserver` and the handlers of `odatamock`: the main goroutine, the signal
goroutine and one handler per request. The response of `/People` is written after the query is
recorded, in the same handler; the kernel completes connections from `net.Listen` on, and main's
return ends every goroutine. `main` does return with `Serve`, which is when `Shutdown` *begins*:
`Dropped` is what becomes of the requests that are then being served. `Listen` and `Serve` may fail, and
end the process by `log.Fatalf`.

**Integration** is `ci/run-integration.sh`, extending `MockServer` by the script that runs it. `script`
is the command it is at; `mock_pid` and `worker_pid` stand between `&` and `$!`. `Poll` is a turn of a
waiting loop: the one for the worker looks whether that still runs, the one for the mock does not.
The runner, the worker's process and the interrupt are external. `selected` is the tests that
`TEST_PATTERN` matches, any set of them, none included. The runner ends when these are over, and
`report` is the kinds of outcome it tells of: it passes no test that was not answered, fails or skips
any (a test may fail, or be skipped, for what it was answered), and may fail for reasons of its own. The
script reads of this what it reads of the runner's status and log: `RunnerFailed`, then `AllSkipped`,
which the log says of tests that were skipped and not of a pattern that matches none. A worker may end
before it is ready or be lost after (over unix its socket may go with it), and an interrupt comes
anywhere before cleanup. Each server may be given from outside (`SKIP_MOCK`, `VGI_ODATA_WORKER` a URL),
and is then up and not the script's to end.

**Flags** is the worker's command line: `Given` is the entrypoint, `Skip`, `Keep` and `Filtered` the
loop of `filterKnownFlags`, the `Parse...` actions package `flag`, `Dispatch` the end of `main`. A
token is the number of its dashes, its name, and the value after `=` if it has one.

Beside some definitions stands a *slip*: the same operator with a mistake that the code could have
(`MoreOneShort`, `CursorUnexported`, ...). Nothing uses a slip; putting one in the place of the
definition it follows makes TLC find the property that `PROJECT.json` pairs it with violated, which
is how each property was seen to depend on the code.

## 3. What the runs show

| Run | States | Shows |
|---|---|---|
| `paging` | 1039 | `RowsInOrder`, `NothingMissed`, `RequestsBounded`, `NoNeedlessRequest`, `HeldBounded`, `StepsCountDown`, `Terminates`, `TypeOK`, against a service that may answer any of 11 bodies at every request |
| `paged_service` | 3174 | `RequestsFollowChain`, `WholeCollection`, `FailsForCause` over every placement of four collections on two hosts |
| `scan` | 249 | `ExactlyOnce`, `CursorAgrees`, `BatchesBounded`, `StepsCountDown`, `Drains`, `TypeOK` |
| `query_function` | 2386 | `KeepsPromise` (the refinement of `AbstractQuery`) and `Ends` |
| `discovery` | 41952 | `DocumentOrder`, `NamesListed`, `KeepsPromise` (the refinement of `AbstractQuery`) and `Ends`, from `NewState` to the last row |
| `mock_query` | 18702 | `UnderRoot` (where requests go), `PassThrough` (what arrives), `EveryRow` (what comes back), `BadRootSendsNothing` |
| `integration` | 442169 | `OwnServersEnded`, `GreenMeansRan`, `TestsReachMock`, `WaitsForTheDying`, `ScriptEnds` of the script; `LastQueryIsRecent`, `SignalEnds` of the mock under it; `ScriptTypeOK` |
| `flags` | 70446 | `ServesAsAsked`, `ForeignTolerated`, `ContainerReachable`, `TypeOK` |
| `v2_array`, `v2_service_doc`, `metadata_url`, `mock_kill` | | counterexamples: see section 6 |

`HeldBounded`, of `paging`, is worth a word: README says that `max_rows` keeps a huge entity set from
exhausting memory. A page is read and decoded whole before `maxRows` is looked at, so what a query
holds grows with the longest page a service sends; it does not grow with the collection beyond that,
which is what the property says.

`EveryRow` of `mock_query` includes what a wrong `version` does: with `'v2'`, the mock's v4 pages decode
as empty ones, and the query succeeds with no rows. `PassThrough` is about values: each option has the
one asked for, and each parameter of the root that is not an option those it had. A `max_rows` of zero is
among the arguments of `mock_query` and `query_function`; read as a bound instead of as the default, it
would make a query succeed with no rows, which `EveryRow` and `KeepsPromise` see.

`GreenMeansRan` says what an exit status of 0 is worth. It claims that some test was answered and passed
*if `TEST_PATTERN` matches a test*. The script looks for one text in the runner's log, and no text of
the repository says what the runner writes, or whether it fails, when the pattern matches nothing: the
model has it report nothing and exit 0, as the script's own check would let it. Of a run with a test that
passed and others skipped, the script and the property say that it passed.

### Bounds, and why they are enough

* `rowsPerTick = 2` (256 in the code) with 0 to 5 rows: no rows, less than a tick, whole ticks, a
  last tick cut short. `cursorSlice` compares lengths only, and the proofs hold for every value.
* `pageCap = 4`, `3` or `2` (100000 in the code), with links that go round in a circle and with more
  pages than the cap, so that the cap is reached with rows left and with none. `defaultMaxRows = 3`
  in `paging`, so that the default cuts a page short; 9 and 4 elsewhere, where it exceeds the
  collection, as 10000 does in most queries; `max_rows` is negative, zero, less than a page, at the
  end of one, and past the end.
* `MaxLosses` bounds the exchanges lost in one scan, at 2 (1 in `query_function` and `discovery`): losing the same
  exchange twice and losing two different ones. It is a bound of the model; a scan whose every
  exchange is lost does not end, which is why `Drains` needs it.
* Bodies: each shape of v4 and v2, malformed ones, pages that are empty or not, each form of link.
  A service can answer a v2 query with a v4 body and the reverse.
* Documents: up to two schemas of two types of two properties, names repeated and empty.
* `mock_query`: twelve service roots (two hosts; an empty path, slashes only, words, a trailing and a
  doubled slash, an escaped one; queries with repeated keys, an option, a malformed pair, the mock's
  own `page`; relative and unparsable), five entity sets, three settings of the options. The mux
  would redirect a path with a doubled slash inside; none of the roots names one of its paths so.
* Requests to the mock: two for the first page and one for the second, all concurrent, and one
  signal: at any time after the PORT line in `mock_kill`, when the script sends it in `integration`. A
  second signal changes nothing: the channel holds one.
* `MaxTries = 2` turns of a polling loop (30 and 50 in the script): one that goes on and the last. A
  turn is a nondeterministic amount of time, in which a server makes any number of steps, and no
  property counts turns; the proofs hold for any number.
* Command lines: all of up to three tokens of 14, alone and after those of the container.
  A flag takes at most one token as its value, so three tokens reach every pairing.

### Fairness

* `Paging`: weak fairness of `Query` as a whole. It is one goroutine that never waits except in
  `httpClient.Do` and in reading the body, both of which the client's 30 s timeout ends.
* `Scan`: weak fairness of each step of the worker, the SDK and the client. Nothing says that a scan
  is opened, nor that an exchange is or is not lost.
* `QueryFunction`: of `NewState` with the query inside it, and of the ticks.
* `DiscoveryFunction`: of `NewState` with the fetch inside it, and of the ticks.
* `Integration`: of each goroutine and handler of the mock, of the shell's commands, of the requests of
  a test that has a worker, and of the end of a worker that was killed (it installs no handler). Not
  of a worker's getting ready, nor of the interrupt. `ScriptEnds` therefore assumes of what is external
  that the runner ends when its tests are over, and that a worker that serves and is not lost passes
  its requests on: `run-integration.sh` waits for the runner without a bound.
* `Flags`, `MockQuery` and `PagedService` are checked for safety alone.

## 4. What is proved

Every safety property of the passing runs is a theorem of the specification: for every service,
collection, document and command line of any size, any number of requests, of exchanges lost and of
turns of a loop, and every value of the constants that the named assumptions allow. TLC evaluates the
assumptions on each run. `PROJECT.json` lists the theorems beside the properties they state.

What the assumptions ask for. Of the inputs (`ServicesAssumption`, `LayoutsAssumption`,
`DocumentsAssumption`, `ResultsAssumption`, `ArgvAssumption`, `AsksAssumption`, `FirstURLAssumption`):
that they are of the kinds the program can be given. Of a `Layout` also, that it has a page, that no
two of its pages share a URL, and that a relative link stays on its host. Of the numbers: `rowsPerTick`,
`defaultMaxRows` and the turns of a loop are positive, `pageCap` and `MaxLosses` natural; in
`MockQuery`, whose service is a fixed one of four entities on two pages, `defaultMaxRows` and `pageCap`
exceed that (they are 10000 and 100000). Of the names: those of different things differ (`None`,
`NoName`, `NoQuery`, `Empty`, `Unparsable`), and the words that the code writes itself are words.
`CursorAssumption` repeats, for an instance of `Scan`, what `Scan` asks of its own constants.

Each proof has the same plan: an inductive invariant (`IInv`, or `PIInv`, `QIInv`, `DInv`, `MInv`,
`FInv`), that the initial states satisfy it, one lemma or one case for each action that keeps it, and
each property from it. TLC was asked for the invariants before they were proved.

### The page loop: PagingProofs

`TypeCorrect`, `RowsAreInOrder`, `NothingIsMissed`, `RequestsAreBounded`, `HoldsOnePage`,
`NoRequestIsNeedless` and `QueryCountsDown` (the last two are of steps), against a service that may
answer anything.

None of the properties is inductive. `RowsInOrder` alone does not survive `AppendRow`: that the next
row is the next entity sent needs to be known of the items still to be looked at. The invariant
`IInv` therefore adds `Collected` (while a page is collected, the entities sent are the rows followed
by the items that remain; between pages nothing remains, unless `maxRows` cut the last page short),
`Counted` (the sequence number is the number of rows, at most `maxRows`) and `Position` (what `pc`
says of the cursor). `NothingMissed` follows from `Collected` and the loop test, and
`NoNeedlessRequest` because a request is made with `Len(out) < maxRows`, where `Collected` leaves
only `Len(out) = Len(sent)`.

`HoldsOnePage` needs the page itself to be remembered: `HInv` says that, while a page is collected,
some body of the service decodes to at least the items that remain, and that every row taken from it
was matched by an item of it. It uses of `IInv` that a request is made with room for a row.

`QueryCountsDown` is the part of termination that is not about fairness: each step makes a triple of
natural numbers smaller, the pages left under `pageCap` first. That the triple is of natural numbers
is what `RequestsBounded` and `Position` say. With it, a query goes on for ever only if it is not run.

Three lemmas say what the operators do: `DecodedPage`, `ResolvedLink` (paging never goes on to a
relative link, which `TypeStep` needs of the page a link is resolved against) and `PositiveMax`.

### The scan: ScanProofs

`TypeCorrect`, `RowsExactlyOnce`, `CursorIsAuthoritative`, `BatchesAreBounded`, `TokensAdvance` and
`ScanCountsDown` (the last two are of steps).

Again `ExactlyOnce` is not inductive: a response on its way will be appended to the client's rows.
`IInv` adds `CursorAgrees`, which says that whatever a tick resumes from stands where the client's
rows end, and `UnderWay`, which says that a response brings the rows from there to where its token
stands, or says that there are none. That a lost response does no harm is then visible: nothing in
`IInv` refers to a response that is not there, and the token the client keeps still stands where its
rows end. `GobFaithful` says that a state survives its encoding, `SliceFits` what `cursorSlice`
returns, `PrefixGrows` and `PiecesJoin` how slices join.

`ScanCountsDown` has rows that the client lacks before the stage of the exchange, and the losses left
before both: an exchange that is lost goes back to its start, and that is what a loss pays for.

### Recursion: Induction

Four of the definitions recur: `FirstPages` over the pages of a collection, `Without` and `Query` over
a sequence, `IsValue` over a command line. The library states induction for an operator, which no
installed prover can instantiate; `NatInduced` states it of a set (the numbers for which the claim
holds), and follows from `LeastElement`, hence from the well-foundedness of `<` alone. `Recursion`
has from it that a function defined on the turns of a loop exists, after which `CHOOSE`, by which a
recursive definition is defined, is known to have found it. `WithoutNames` is what `Without` does: its
elements are those kept, in their order. The recursive definitions are functions, of the bounded
domain they need, since an operator declared `RECURSIVE` could not be reasoned about at all.

### odata_query: QueryProofs

`ChainIsFollowed`, `CollectionIsWhole` and `FailureHasCause`, of a service that behaves. `Chain` ties
the loop to the collection: the page loop is at a place of the chain of pages, and what was sent is
the entities of those before it (`FirstPages`). `ChainFollowed` is the one fact about links: from page
`i`, absolute or relative, `resolveNext` leads to page `i + 1`, and after the last one to none.

`PromiseIsKept`: `QSpec` implements `AbstractQuery`. The invariant `QIInv` is that of the page loop, that
of the cursor, and `Joined`, which ties them: once a scan is open, the rows being scanned *are* the right
answer. `ReturnsAnswer` is where that comes from: `WholeCollection`, `RowsInOrder` and `NothingMissed`
together say that what `Query` returns is the first `max_rows` entities, numbered. `WhatATickShows`, of
`ScanProofs`, says what the client sees of a step, and each of its cases is a step of the promise or
none. `SameScan` relates the instance of `Scan` in the model to the one the proofs are about.

`AlwaysLessToDo` puts the two measures together: each step of a call counts down in one half and leaves
the other alone. It is a theorem only, as `TokensAdvance` of ScanProofs is: no run checks them beside the
measure of each half.

### Discovery: DiscoveryProofs

`NamesAreListed`, `RowsInDocumentOrder`, and `PromiseIsKept`, for both functions. The loops of the code
(`FlattenSeq`, `Without`) and the definitions by place (`InOrder`) have no step in common, so that the
proof goes by way of an enumeration: a function that names each place once, in increasing order.
`OrderNamed` says that whatever enumerates the places of a set so *is* `InOrder` of them (a place is
preceded by as many as were named before it, `Precedes`, and so has that index and no other).
`FlattenLocates` says that flattening enumerates the places of a sequence of sequences, and
`RowsLocated` applies it twice, to schemas and to types. The rest is as in `QueryProofs`.

### Requests to the mock: MockQueryProofs

`NothingSentToBadRoot`, `RequestsUnderRoot`, `OptionsPassThrough`, `PeopleReadWhole`, for every root,
set and option. The page loop inside is an instance of `PagingProofs`, whose invariant is one part of
`MInv` (`Reading`). The others: the first request is for the URL that was built (`FirstAsked`), and a
query that got to `/People` is before its first page, its second, or at the end, with the entities and
the recorded query that go with it (`Progress`): this is how the follow-up request for page 2 is known
to leave `lastQuery` alone. For the URL, `SeamFound` says where the root ends in the joined path, from
what trimming leaves (`TrimmedRight`, `TrimmedLeft`) and what joining does to words; `QueryHas` what
`url.Query` makes of pairs.

### The integration script and the mock: IntegrationProofs

`TypeCorrect`, `OwnServersAreEnded`, `GreenIsNoFake`, `EveryTestReachesMock`, `LastQueryStaysRecent`,
`NoWaitInVain`, and `AnnouncedIsReachable` (of steps), for any set of requests and any `MaxTries`.

The invariant is about who knows what. `Lifecycle`: the server stops only on a signal. `MockOwned`
and `WorkerOwned`: a server whose PID is not noted was not started by the script, but between the
fork and `$!`; nobody signals the mock before `KillMock`; the script is past its wait for the mock
only if that has announced itself and is up or has failed. `TestsOver`: no test begins before the
suite, and all are over when the cleanup of an uninterrupted script begins. `Reported`: what the
runner reported stands beside what the tests met, a test that passed beside one that was answered,
and exit status 0 was set with no failure and with more than skips in the report. `Recording`:
`lastQuery` is the last of the history, which has every request from its recording on.
`TestsReachMock` follows from `TestsOver` and `MockOwned`: unless it has failed, the mock listens
while tests connect, and what `Exit` or a signal drops is nothing. `GreenIsNoFake` follows from
`Reported` and the two about owners: a runner that matched a test reports something of it, and of
what is neither all skipped nor failed, some passed. `ServerKept`, `ReportKept`, `QuitStep` and
`PollStep` carry what many commands of the script have in common.

`AnnouncedIsReachable` is of `MockServer` alone, as `make test-sql` has it, where clients connect and
signals come as they please; it is a theorem only, since the tests of the script, which connect before
any signal, have all that it says of them in `TestsReachMock`.
Its invariant, `Unsignalled`, is that before a signal the server is not stopping and its process is up or
has failed; then a `Dial` after the PORT line finds it listening (`RefusedByDial`).

`NoWaitInVain` adds `Heard`, that a signal finds the channel registered or ends the process, and once
taken has called `Shutdown`; and `Killed`, that the script waits for what it has killed.

### The command line: FlagsProofs

`TypeCorrect`, `LauncherIsTolerated`, `ServedAsAsked`, `ContainerIsReachable`, for a command line of any
length. The filter and the parser are two loops over different sequences, and the properties speak of a
third reading (`Says`). `Rest(argv)[k]` is what the filter makes of the command line from token `k` on;
`FilterKeeps` says that what it has kept and what it will keep are `Rest(argv)[1]`. `ParserPlaced` says
that the parser stands at some token `k` of the *unfiltered* command line which is nobody's value, has
`Rest(argv)[k]` before it, and has set each flag as the tokens before `k` say. Its step moves `k` past the
tokens that the filter dropped (`NextPlace`; the greatest place there is ends the argument, `AtOwnFlag`)
and past the one the parser reads, with its value (`HeadIsFlag`): here the filter's set of flags with
values must be the parser's. At the end, what is set is what is said (`ParsedIsSaid`).

## 5. What is model-checked only

* Liveness (`Terminates`, `Drains`, `Ends`, `SignalEnds`, `ScriptEnds`): the prover has no rule for
  fairness or `ENABLED` here. What it can say of them is proved: that a query and a scan, and a call of
  `odata_query` that is both, count down with each step, and that the script's unbounded waits are for
  processes about to end. That a step is then taken is the fairness of section 3, and TLC's.
* The properties of the four runs that end with a counterexample: they do not hold.
* That the models are those of the code: `PROJECT.json` names the lines of each definition.

## 6. Where code and documentation disagree

Each is a run that TLC ends with a counterexample, and an entry of `findings`.

* `v2_array` (`V2ShapesAccepted`): README and the comment on `v2SingleD` have a v2 collection under
  `d` itself. `decodePage` first unmarshals into `v2Page`, where `d` is a struct; an array there is
  an error, and it is returned before the second form is tried.
* `v2_service_doc` (`V2DocAccepted`): the same of `serviceDoc`, whose comment has the names of a v2
  service document under `d.EntitySets` or `d`.
* `metadata_url` (`MetadataAtService`): `Metadata` appends `/$metadata` to the string `service_url`; if
  that has a query, the request goes to the root with the query's last value spoilt, where the comment
  has the `$metadata` document fetched. `joinURL` keeps path and query of the same argument apart.
* `mock_kill` (`KillIsClean`): the PORT line is printed before `signal.Notify`; a signal in between
  ends the process by its default action, where the comment has a clean exit.

## 7. What is not modelled, and why

* **Catalog metadata** (`meta.go`, `views.go`, tags, and the text between them in `main.go` and
  `functions.go`): static text and one fixed view, without state or a decision in it. It is the larger
  part of the lines that no definition stands for.
* The servers of the SDK (`RunHttp`, `RunUnix`, `RunStdio`), DuckDB, Arrow batches: not in this
  repository. `Scan` has of them what `functions.go` relies on and its comments say.
* Tokens, headers and content types: no property tells them apart, and a service that rejects one is
  a GET that fails.
* The `Makefile`: its `test-sql` is the subprocess transport of the script again, with fewer turns and
  without the guard against skipped tests. The text processing of the staged tests.
* A second interrupt, during cleanup, and a worker that ignores its signal: `wait` has no bound, and
  nothing in the repository says what should happen. An interrupt between a fork and `$!` is modelled,
  and excepted from `OwnServersEnded`: the server it leaves is not known to the script.
* The entrypoint's mock and debugging modes, which hand over to another program.
* A launcher's own flag whose value begins with a dash (`--key --http`): nothing on a command line
  tells such a value from a flag, and `Flags` reads it as the code does.
* Data races: the code has one shared variable, `lastQuery`, always under its mutex. `Record` is the
  critical section.

## 8. Plan

Done, in this order: `Pages`, `Paging`, `PagedService`, `PagingProofs`, `Scan`, `ScanProofs`,
`AbstractQuery` and `QueryFunction`, `Discovery`, `MockServer`, `Flags`; then `DiscoveryFunction`,
`MockQuery`, `Integration` and `IntegrationProofs`.

Then the proofs of what was left: `QueryProofs`, `DiscoveryProofs`, `FlagsProofs`, `MockQueryProofs`, with
`Induction` under them, and the measures of `PagingProofs`, `ScanProofs` and `QueryProofs`. Left:

1. A measure for `DiscoveryFunction`, and one for the commands of the script.
2. `SumsGrow` of `QueryProofs`, `ValuesGrow` and `RestsGrow` of `FlagsProofs` each show that a recursion
   exists; they could cite `Recursion` instead.
