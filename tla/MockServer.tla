----------------------------- MODULE MockServer -----------------------------
(***************************************************************************)
(* The mock OData service and the command that runs it: the handlers of    *)
(* odatamock, each in a goroutine of its own, the main goroutine of        *)
(* cmd/mockserver, and the goroutine that waits for a signal.  The kernel, *)
(* net/http and the signal package are modelled from their use here.       *)
(***************************************************************************)
EXTENDS Integers, Sequences

CONSTANTS
    Request,    \* the requests that clients make
    FirstPage,  \* those for /People without page=2
    NoQuery     \* lastQuery before any was recorded

ASSUME FirstPageAssumption == FirstPage \subseteq Request
ASSUME NoQueryAssumption == NoQuery \notin Request

VARIABLES
    main,      \* where the main goroutine is
    watcher,   \* where the signal goroutine is
    process,   \* "up", or how it ended; "none" before it is started
    signal,    \* SIGINT or SIGTERM: "none", "sent" (to the channel) or "taken"
    stopping,  \* Shutdown was called
    conn,      \* where each request is
    lastQuery, \* of Server: the first-page request whose query it holds
    recorded   \* history: the requests whose query was recorded, in order

vars == <<main, watcher, process, signal, stopping, conn, lastQuery, recorded>>

TypeOK ==
    /\ main \in {"start", "bound", "announced", "spawned", "serving", "returned"}
    /\ watcher \in {"unborn", "born", "watching", "stopped"}
    /\ process \in {"none", "up", "clean", "killed", "fatal"}
    /\ signal \in {"none", "sent", "taken"}
    /\ stopping \in BOOLEAN
    /\ conn \in [Request -> {"none", "connected", "handling", "recorded",
                             "answered", "refused", "dropped"}]
    /\ lastQuery \in FirstPage \cup {NoQuery}
    /\ recorded \in Seq(FirstPage)

Fresh ==
    /\ main = "start"
    /\ watcher = "unborn"
    /\ signal = "none"
    /\ stopping = FALSE
    /\ conn = [r \in Request |-> "none"]
    /\ lastQuery = NoQuery
    /\ recorded = << >>

Init == Fresh /\ process = "up"

(***************************************************************************)
(* cmd/mockserver                                                          *)
(***************************************************************************)
MainStep(from, to) ==
    /\ process = "up"
    /\ main = from
    /\ main' = to
    /\ UNCHANGED <<process, signal, stopping, conn, lastQuery, recorded>>

Listen == MainStep("start", "bound") /\ UNCHANGED watcher

\* log.Fatalf: the address is not to be had.
ListenFails ==
    /\ process = "up"
    /\ main = "start"
    /\ process' = "fatal"
    /\ UNCHANGED <<main, watcher, signal, stopping, conn, lastQuery, recorded>>

\* The PORT line is printed.
Announce == MainStep("bound", "announced") /\ UNCHANGED watcher

Spawn == MainStep("announced", "spawned") /\ watcher' = "born"

\* signal.Notify
Notify ==
    /\ process = "up"
    /\ watcher = "born"
    /\ watcher' = "watching"
    /\ UNCHANGED <<main, process, signal, stopping, conn, lastQuery, recorded>>

\* srv.Serve accepts until Shutdown is called, then returns ErrServerClosed.
Serve == MainStep("spawned", "serving") /\ UNCHANGED watcher
ServeReturns == stopping /\ MainStep("serving", "returned") /\ UNCHANGED watcher

\* What becomes of the requests under way when the process ends.
Dropped == [r \in Request |-> IF conn[r] \in {"connected", "handling", "recorded"}
                              THEN "dropped" ELSE conn[r]]

\* log.Fatalf: Serve returns another error, Accept having failed for good.
ServeFails ==
    /\ process = "up"
    /\ main = "serving"
    /\ ~stopping
    /\ process' = "fatal"
    /\ conn' = Dropped
    /\ UNCHANGED <<main, watcher, signal, stopping, lastQuery, recorded>>

\* Whether the server is told to stop, and the slip of not telling it.
StopsNothing == stopping
Stops == TRUE

\* The signal goroutine takes the signal and calls Shutdown, which closes the
\* listener before it waits for the requests that are served.
Shutdown ==
    /\ process = "up"
    /\ watcher = "watching"
    /\ signal = "sent"
    /\ signal' = "taken"
    /\ watcher' = "stopped"
    /\ stopping' = Stops
    /\ UNCHANGED <<main, process, conn, lastQuery, recorded>>

\* main returns, and the process ends with every goroutine in it.
Exit ==
    /\ process = "up"
    /\ main = "returned"
    /\ process' = "clean"
    /\ conn' = Dropped
    /\ UNCHANGED <<main, watcher, signal, stopping, lastQuery, recorded>>

\* Someone sends the signal.  Before signal.Notify its default action ends the
\* process; the Makefile sends it once the PORT line is read.
Signalled ==
    /\ process = "up"
    /\ signal = "none"
    /\ signal' = "sent"
    /\ IF watcher = "watching"
       THEN UNCHANGED <<process, conn>>
       ELSE process' = "killed" /\ conn' = Dropped
    /\ UNCHANGED <<main, watcher, stopping, lastQuery, recorded>>

Announced == main \notin {"start", "bound"}

Kill == Announced /\ Signalled

(***************************************************************************)
(* Requests, and the handlers of odatamock                                 *)
(***************************************************************************)
\* The kernel completes connections from net.Listen on, served yet or not, until
\* a server that is stopping closes the listener, which it knows of in Serve
\* alone.
Listening == /\ process = "up"
             /\ main \notin {"start", "returned"}
             /\ main = "serving" => ~stopping

Dial(r) ==
    /\ conn[r] = "none"
    /\ conn' = [conn EXCEPT ![r] = IF Listening THEN "connected" ELSE "refused"]
    /\ UNCHANGED <<main, watcher, process, signal, stopping, lastQuery, recorded>>

Connect(r) == Announced /\ Dial(r)

\* A step of a handler, or of the server for it.
HandlerStep(r, from, to) ==
    /\ process = "up"
    /\ conn[r] = from
    /\ conn' = [conn EXCEPT ![r] = to]
    /\ UNCHANGED <<main, watcher, process, signal, stopping>>

\* One that was not accepted when the listener closed is reset.
Accept(r) ==
    /\ main = "serving"
    /\ HandlerStep(r, "connected", IF stopping THEN "dropped" ELSE "handling")
    /\ UNCHANGED <<lastQuery, recorded>>

\* The assignment under the lock, for a first-page request alone.  The slip is
\* to record the request for page 2 too.
RecordedAll(r) == TRUE
Recorded(r) == r \in FirstPage

Record(r) ==
    /\ Recorded(r)
    /\ HandlerStep(r, "handling", "recorded")
    /\ lastQuery' = r
    /\ recorded' = Append(recorded, r)

\* Where a handler writes its response; the slip is to write before recording.
WrittenEarly(r) == "handling"
WrittenFrom(r) == IF Recorded(r) THEN "recorded" ELSE "handling"

Answer(r) ==
    /\ HandlerStep(r, WrittenFrom(r), "answered")
    /\ UNCHANGED <<lastQuery, recorded>>

Terminated == process # "up" /\ UNCHANGED vars

Goroutines ==
    \/ Listen \/ ListenFails \/ Announce \/ Spawn \/ Notify \/ Serve \/ ServeReturns
    \/ ServeFails \/ Shutdown \/ Exit

Handlers == \E r \in Request : Accept(r) \/ Record(r) \/ Answer(r)

Next == Goroutines \/ Kill \/ (\E r \in Request : Connect(r)) \/ Handlers \/ Terminated

Spec == Init /\ [][Next]_vars

\* Both goroutines are run, and a handler that can go on does.
Scheduled ==
    /\ WF_vars(Listen \/ Announce \/ Spawn \/ Serve \/ ServeReturns \/ Exit)
    /\ WF_vars(Notify \/ Shutdown)
    /\ \A r \in Request : WF_vars(Accept(r) \/ Record(r) \/ Answer(r))

(***************************************************************************)
(* Properties                                                              *)
(***************************************************************************)
\* Whoever has read the PORT line is not refused, served yet or not, until a
\* signal is sent or Serve has failed (main.go, "prints PORT so a caller can
\* discover the port").
AnnouncedReachable ==
    [][\A r \in Request :
          conn[r] # "refused" /\ conn'[r] = "refused" =>
              signal # "none" \/ process = "fatal"]_vars

\* LastQuery is what a test asserts on: once a first-page request is answered,
\* it holds that request's query or that of one recorded later, never that of a
\* request for page 2 (server.go, "would clobber the assertion").
LastQueryIsRecent ==
    \A r \in FirstPage : conn[r] = "answered" =>
        \E i \in 1 .. Len(recorded) :
            recorded[i] = r /\ lastQuery \in {recorded[j] : j \in i .. Len(recorded)}

\* A signal ends the process, whatever requests are under way.
SignalEnds == (signal = "sent") ~> (process # "up")

\* main.go: "Graceful shutdown on SIGINT/SIGTERM so the Makefile's kill is a
\* clean (exit 0) stop rather than a signalled termination."
KillIsClean == process # "killed"
=============================================================================
