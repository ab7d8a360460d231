------------------------- MODULE IntegrationProofs -------------------------
(***************************************************************************)
(* Proofs about the integration script and the mock server it runs, for    *)
(* any number of tests and of turns of its polling loops.                  *)
(***************************************************************************)
EXTENDS Integration, TLAPS

(***************************************************************************)
(* The inductive invariant.  Lifecycle is of the server alone: it stops    *)
(* only on a signal.  MockOwned and WorkerOwned say who may have started a *)
(* server and what the script knows of it: without a PID noted there is no *)
(* server, but between the fork and $!; none is signalled before cleanup;  *)
(* and the script goes past its wait for the mock only once that listens.  *)
(***************************************************************************)
Lifecycle ==
    /\ signal = "none" => ~stopping /\ process \in {"none", "up", "fatal"}
    /\ main = "returned" => stopping
    /\ process = "none" => main = "start"

MockOwned ==
    /\ signal # "none" => script \in {"wait_mock", "exited"} /\ mockPid
    /\ mockPid => "mock" \notin given
    /\ "mock" \in given => process \in {"up", "fatal"} /\ main = "serving"
    /\ ("mock" \notin given /\ ~mockPid /\ script # "mock_pid" /\ interrupted # "forking")
          => process = "none"
    /\ script \in {"mock", "mock_pid"} => ~mockPid
    /\ script = "mock_pid" => "mock" \notin given
    /\ script = "mock_wait" => mockPid
    /\ script \in {"worker", "worker_pid", "worker_wait", "stage", "suite", "report"} =>
          Announced /\ process \in {"up", "fatal"} /\ (mockPid \/ "mock" \in given)
    /\ script = "exited" /\ mockPid => process # "up"

WorkerOwned ==
    /\ workerPid => "worker" \notin given
    /\ "worker" \in given => worker \in {"ready", "lost"}
    /\ ("worker" \notin given /\ ~workerPid /\ script # "worker_pid"
           /\ interrupted # "forking") => worker = "none"
    /\ script = "worker_pid" => "worker" \notin given
    /\ script = "worker_wait" => workerPid
    /\ script \in {"stage", "suite", "report"} => workerPid \/ ~NeedsWorker
    /\ script \in {"kill_mock", "wait_mock", "exited"} /\ workerPid =>
          worker \in {"lost", "ended"}

\* What of the tests is over once the runner has ended, what its report tells of
\* them, and what the exit status tells of the report.
TestsOver ==
    /\ interrupted # "no" => script \in InCleanup /\ rc = 130
    /\ \A r \in Request \ selected : conn[r] = "none"
    /\ script \notin InCleanup \cup {"suite", "report"} => \A r \in Request : conn[r] = "none"
    /\ (interrupted = "no" /\ process # "fatal" /\ script \in InCleanup \cup {"report"}) =>
          \A r \in Request : conn[r] \in {"none", "answered"}
    /\ process # "fatal" => \A r \in Request : conn[r] # "refused"

Reported ==
    /\ script = "report" \/ (script \in InCleanup /\ rc = 0) =>
          /\ selected # {} => report # {}
          /\ "passed" \in report => \E r \in selected : conn[r] = "answered"
    /\ (script \in InCleanup /\ rc = 0) =>
          /\ "failed" \notin report /\ report # {"skipped"}
          /\ mockPid \/ "mock" \in given
          /\ workerPid \/ ~NeedsWorker

\* lastQuery is the newest entry of the history, which has every request from its
\* recording on.
Recording ==
    /\ recorded # << >> => lastQuery = recorded[Len(recorded)]
    /\ \A r \in FirstPage : conn[r] \in {"recorded", "answered"} =>
          \E i \in 1 .. Len(recorded) : recorded[i] = r

IInv == /\ ScriptTypeOK
        /\ Lifecycle
        /\ MockOwned
        /\ WorkerOwned
        /\ TestsOver
        /\ Reported
        /\ TestsReachMock
        /\ Recording

\* What the runner keeps is two variables.
USE DEF runner

\* The script begins in it, whatever servers are given.
LEMMA InitIInv == RunInit => IInv
<1> SUFFICES ASSUME RunInit PROVE IInv
  OBVIOUS
<1>1. recorded = << >> /\ conn = [r \in Request |-> "none"]
  BY Zenon DEF RunInit, Fresh
<1>2. ScriptTypeOK
  <2>1. TypeOK
    <3>1. main \in {"start", "serving"} /\ watcher \in {"unborn", "watching"}
      BY DEF RunInit, Fresh
    <3>2. process \in {"none", "up"} /\ signal = "none" /\ lastQuery = NoQuery
      BY DEF RunInit, Fresh
    <3>3. stopping = FALSE
      BY DEF RunInit, Fresh
    <3>4. /\ recorded \in Seq(FirstPage)
          /\ conn \in [Request -> {"none", "connected", "handling", "recorded",
                                  "answered", "refused", "dropped"}]
      BY <1>1
    <3>5. stopping \in BOOLEAN
      BY <3>3
    <3>6. QED
      BY <3>1, <3>2, <3>4, <3>5, Zenon DEF TypeOK
  <2>2. worker \in {"none", "ready"} /\ given \subseteq {"mock", "worker"}
    BY DEF RunInit
  <2>3. tries \in 0 .. MaxTries - 1
    BY MaxTriesAssumption DEF RunInit
  <2>4. QED
    BY <2>1, <2>2, <2>3 DEF RunInit, ScriptTypeOK, InCleanup
<1>3. Lifecycle
  BY DEF RunInit, Fresh, Lifecycle
<1>4. MockOwned
  BY DEF RunInit, Fresh, MockOwned
<1>5. WorkerOwned
  BY DEF RunInit, WorkerOwned
<1>6. TestsOver /\ Reported /\ TestsReachMock /\ Recording
  BY <1>1, FirstPageAssumption DEF RunInit, TestsOver, Reported, TestsReachMock, Recording,
                                   InCleanup
<1>7. QED
  BY <1>2, <1>3, <1>4, <1>5, <1>6 DEF IInv

(***************************************************************************)
(* Steps of the mock server                                                *)
(***************************************************************************)
\* When the process ends, requests that are over stay as they are (main.go, the
\* return of main; the default action of a signal).
LEMMA DroppedTests ==
    ASSUME TypeOK
    PROVE  /\ Dropped \in [Request -> {"none", "connected", "handling", "recorded",
                                      "answered", "refused", "dropped"}]
           /\ \A r \in Request :
                 /\ conn[r] \in {"none", "answered", "refused"} => Dropped[r] = conn[r]
                 /\ Dropped[r] \in {"none", "recorded", "answered", "refused"} =>
                       Dropped[r] = conn[r]
  BY DEF TypeOK, Dropped

\* What the report tells stays true while no answer is taken back.
LEMMA ReportKept ==
    ASSUME IInv, UNCHANGED <<given, script, rc, mockPid, workerPid, transport, runner>>,
           \A r \in Request : conn[r] = "answered" => conn'[r] = "answered"
    PROVE  Reported'
<1>1. \A r \in selected : conn[r] = "answered" => conn'[r] = "answered"
  BY DEF IInv, ScriptTypeOK
<1>2. QED
  BY <1>1 DEF IInv, Reported, NeedsWorker

\* The goroutines of the command: they stop only on a signal, and when the
\* process ends with requests under way the script was interrupted.
LEMMA GoroutineStep ==
    ASSUME IInv, Goroutines, UNCHANGED scriptVars
    PROVE  IInv'
<1> USE DEF scriptVars
<1>2. CASE Listen \/ Announce \/ Spawn \/ Notify \/ Serve
  <2>1. UNCHANGED <<process, signal, stopping, conn, lastQuery, recorded>>
    BY <1>2 DEF Listen, Announce, Spawn, Notify, Serve, MainStep
  <2>2. /\ process = "up"
        /\ \/ main = "start" /\ main' = "bound" /\ UNCHANGED watcher
           \/ main = "bound" /\ main' = "announced" /\ UNCHANGED watcher
           \/ main = "announced" /\ main' = "spawned" /\ watcher' = "born"
           \/ main = "spawned" /\ main' = "serving" /\ UNCHANGED watcher
           \/ UNCHANGED main /\ watcher' = "watching"
    BY <1>2 DEF Listen, Announce, Spawn, Notify, Serve, MainStep
  <2>3. ScriptTypeOK'
    BY <2>1, <2>2 DEF IInv, ScriptTypeOK, TypeOK
  <2>4. Lifecycle' /\ MockOwned' /\ WorkerOwned'
    BY <2>1, <2>2 DEF IInv, Lifecycle, MockOwned, WorkerOwned, Announced, NeedsWorker
  <2>5. TestsOver' /\ Reported' /\ TestsReachMock' /\ Recording'
    BY <2>1 DEF IInv, TestsOver, Reported, TestsReachMock, Recording, NeedsWorker
  <2>6. QED
    BY <2>3, <2>4, <2>5 DEF IInv
<1>3. CASE ListenFails
  <2>1. ScriptTypeOK'
    BY <1>3 DEF ListenFails, IInv, ScriptTypeOK, TypeOK
  <2>2. Lifecycle' /\ MockOwned' /\ WorkerOwned'
    BY <1>3 DEF ListenFails, IInv, Lifecycle, MockOwned, WorkerOwned, Announced, NeedsWorker
  <2>3. TestsOver' /\ Reported' /\ TestsReachMock' /\ Recording'
    BY <1>3 DEF ListenFails, IInv, TestsOver, Reported, TestsReachMock, Recording, NeedsWorker
  <2>4. QED
    BY <2>1, <2>2, <2>3 DEF IInv
<1>4. CASE ServeReturns \/ Shutdown
  <2>1. /\ UNCHANGED <<process, conn, lastQuery, recorded>>
        /\ signal # "none"
        /\ signal' \in {signal, "taken"}
        /\ watcher' \in {watcher, "stopped"}
        /\ \/ stopping /\ main = "serving" /\ main' = "returned" /\ UNCHANGED stopping
           \/ stopping' = TRUE /\ UNCHANGED main
    BY <1>4 DEF ServeReturns, Shutdown, MainStep, Stops, IInv, Lifecycle
  <2>2. stopping' \in BOOLEAN
    BY <2>1, Zenon DEF IInv, ScriptTypeOK, TypeOK
  <2>3. main' \in {"start", "bound", "announced", "spawned", "serving", "returned"}
    BY <2>1 DEF IInv, ScriptTypeOK, TypeOK
  <2>4. ScriptTypeOK'
    BY <2>1, <2>2, <2>3 DEF IInv, ScriptTypeOK, TypeOK
  <2>5. Lifecycle' /\ MockOwned' /\ WorkerOwned'
    BY <2>1 DEF IInv, ScriptTypeOK, TypeOK, Lifecycle, MockOwned, WorkerOwned, Announced,
                NeedsWorker
  <2>6. TestsOver' /\ Reported' /\ TestsReachMock' /\ Recording'
    BY <2>1 DEF IInv, TestsOver, Reported, TestsReachMock, Recording, NeedsWorker
  <2>7. QED
    BY <2>4, <2>5, <2>6 DEF IInv
<1>5. CASE Exit
  <2>1. /\ process = "up" /\ process' = "clean" /\ conn' = Dropped
        /\ UNCHANGED <<main, watcher, signal, stopping, lastQuery, recorded>>
    BY <1>5 DEF Exit
  <2>2. signal # "none" /\ script \in {"wait_mock", "exited"} /\ mockPid
    BY <1>5 DEF Exit, IInv, Lifecycle, MockOwned
  <2>3. ScriptTypeOK'
    BY <2>1, DroppedTests DEF IInv, ScriptTypeOK, TypeOK
  <2>4. Lifecycle' /\ MockOwned' /\ WorkerOwned'
    BY <2>1, <2>2 DEF IInv, Lifecycle, MockOwned, WorkerOwned, Announced, NeedsWorker
  <2>5. TestsOver' /\ TestsReachMock' /\ Recording'
    BY <2>1, <2>2, DroppedTests, FirstPageAssumption
       DEF IInv, ScriptTypeOK, TestsOver, TestsReachMock, Recording, InCleanup
  <2>6. Reported'
    BY <2>1, DroppedTests, ReportKept DEF IInv, ScriptTypeOK
  <2>7. QED
    BY <2>3, <2>4, <2>5, <2>6 DEF IInv
<1>6. CASE ServeFails
  <2>1. /\ process' = "fatal" /\ process = "up" /\ main = "serving" /\ conn' = Dropped
        /\ UNCHANGED <<main, watcher, signal, stopping, lastQuery, recorded>>
    BY <1>6 DEF ServeFails
  <2>2. ScriptTypeOK'
    BY <2>1, DroppedTests DEF IInv, ScriptTypeOK, TypeOK
  <2>3. Lifecycle' /\ MockOwned' /\ WorkerOwned'
    BY <2>1 DEF IInv, Lifecycle, MockOwned, WorkerOwned, Announced, NeedsWorker
  <2>4. TestsOver' /\ TestsReachMock' /\ Recording'
    BY <2>1, DroppedTests, FirstPageAssumption
       DEF IInv, ScriptTypeOK, TestsOver, TestsReachMock, Recording
  <2>5. Reported'
    BY <2>1, DroppedTests, ReportKept DEF IInv, ScriptTypeOK
  <2>6. QED
    BY <2>2, <2>3, <2>4, <2>5 DEF IInv
<1>7. QED
  BY <1>2, <1>3, <1>4, <1>5, <1>6 DEF Goroutines

\* The handlers: a request that is answered has been recorded, and none is reset
\* before someone stops the server.
LEMMA HandlerKeeps ==
    ASSUME IInv, NEW r \in Request, Accept(r) \/ Record(r) \/ Answer(r), UNCHANGED scriptVars
    PROVE  IInv'
<1> USE DEF scriptVars
<1>1. /\ process = "up"
      /\ UNCHANGED <<main, watcher, process, signal, stopping>>
  BY DEF Accept, Record, Answer, HandlerStep
<1>2. Lifecycle' /\ MockOwned' /\ WorkerOwned'
  BY <1>1 DEF IInv, Lifecycle, MockOwned, WorkerOwned, Announced, NeedsWorker
<1>3. conn[r] \notin {"none", "answered"}
  BY DEF Accept, Record, Answer, HandlerStep, WrittenFrom
<1>4. /\ r \in selected
      /\ script \in InCleanup \cup {"suite"} /\ (script \in InCleanup => interrupted # "no")
  BY <1>1, <1>3 DEF IInv, ScriptTypeOK, TestsOver, InCleanup
<1>5. CASE Accept(r)
  <2>1. stopping => interrupted # "no"
    BY <1>4 DEF IInv, Lifecycle, MockOwned, InCleanup
  <2>2. /\ conn[r] = "connected" /\ UNCHANGED <<lastQuery, recorded>>
        /\ conn' = [conn EXCEPT ![r] = IF stopping THEN "dropped" ELSE "handling"]
    BY <1>5 DEF Accept, HandlerStep
  <2>3. ScriptTypeOK'
    BY <1>1, <2>2 DEF IInv, ScriptTypeOK, TypeOK
  <2>4. TestsOver' /\ TestsReachMock'
    BY <1>1, <1>4, <2>1, <2>2 DEF IInv, ScriptTypeOK, TypeOK, TestsOver, TestsReachMock
  <2>5. Reported'
    BY <2>2, ReportKept DEF IInv, ScriptTypeOK, TypeOK
  <2>6. Recording'
    BY <2>2, FirstPageAssumption DEF IInv, ScriptTypeOK, TypeOK, Recording
  <2>7. QED
    BY <1>2, <2>3, <2>4, <2>5, <2>6 DEF IInv
<1>6. CASE Record(r)
  <2>1. /\ r \in FirstPage
        /\ conn[r] = "handling" /\ conn' = [conn EXCEPT ![r] = "recorded"]
        /\ lastQuery' = r /\ recorded' = Append(recorded, r)
    BY <1>6 DEF Record, Recorded, HandlerStep
  <2>2. ScriptTypeOK'
    BY <1>1, <2>1 DEF IInv, ScriptTypeOK, TypeOK
  <2>3. /\ TestsOver' /\ TestsReachMock'
        /\ Reported'
    <3>1. TestsOver' /\ TestsReachMock'
      BY <1>1, <1>4, <2>1 DEF IInv, ScriptTypeOK, TypeOK, TestsOver, TestsReachMock
    <3>2. Reported'
      BY <2>1, ReportKept DEF IInv, ScriptTypeOK, TypeOK
    <3>3. QED
      BY <3>1, <3>2
  <2>4. /\ recorded \in Seq(FirstPage) /\ Len(recorded) \in Nat
        /\ Len(recorded') = Len(recorded) + 1 /\ recorded'[Len(recorded')] = r
        /\ \A i \in 1 .. Len(recorded) : recorded'[i] = recorded[i]
    BY <2>1 DEF IInv, ScriptTypeOK, TypeOK
  <2>5. ASSUME NEW q \in FirstPage, conn'[q] \in {"recorded", "answered"}
        PROVE  \E i \in 1 .. Len(recorded') : recorded'[i] = q
    <3>1. CASE q = r
      BY <2>4, <3>1
    <3>2. CASE q # r
      <4>1. conn[q] \in {"recorded", "answered"}
        BY <2>1, <2>5, <3>2, FirstPageAssumption DEF IInv, ScriptTypeOK, TypeOK
      <4>2. PICK i \in 1 .. Len(recorded) : recorded[i] = q
        BY <4>1 DEF IInv, Recording
      <4>3. QED
        BY <2>4, <4>2
    <3>3. QED
      BY <3>1, <3>2
  <2>6. Recording'
    BY <2>1, <2>4, <2>5 DEF Recording
  <2>7. QED
    BY <1>2, <2>2, <2>3, <2>6 DEF IInv
<1>7. CASE Answer(r)
  <2>1. /\ conn[r] = WrittenFrom(r) /\ conn' = [conn EXCEPT ![r] = "answered"]
        /\ UNCHANGED <<lastQuery, recorded>>
    BY <1>7 DEF Answer, HandlerStep
  <2>2. ScriptTypeOK'
    BY <1>1, <2>1 DEF IInv, ScriptTypeOK, TypeOK
  <2>3. /\ TestsOver' /\ TestsReachMock'
        /\ Reported'
    <3>1. TestsOver' /\ TestsReachMock'
      BY <1>1, <1>4, <2>1 DEF IInv, ScriptTypeOK, TypeOK, TestsOver, TestsReachMock
    <3>2. Reported'
      BY <2>1, ReportKept DEF IInv, ScriptTypeOK, TypeOK
    <3>3. QED
      BY <3>1, <3>2
  <2>4. Recording'
    BY <2>1, FirstPageAssumption
       DEF IInv, ScriptTypeOK, TypeOK, Recording, WrittenFrom, Recorded
  <2>5. QED
    BY <1>2, <2>2, <2>3, <2>4 DEF IInv
<1>8. QED
  BY <1>5, <1>6, <1>7

(***************************************************************************)
(* Steps of the script, the runner and the worker                          *)
(***************************************************************************)
\* A test connects: the mock listens unless it has failed, for the script waited until
\* it announced itself and has not signalled it.
LEMMA TestStep ==
    ASSUME IInv, NEW r \in Request, Test(r)
    PROVE  IInv'
<1> USE DEF scriptVars
<1>1. /\ script = "suite" /\ r \in selected /\ conn[r] = "none"
      /\ conn' = [conn EXCEPT ![r] = IF Listening THEN "connected" ELSE "refused"]
      /\ UNCHANGED <<main, watcher, process, signal, stopping, lastQuery, recorded>>
      /\ UNCHANGED scriptVars
  BY DEF Test, Dial
<1>2. Listening \/ process = "fatal"
  BY <1>1 DEF Listening, Announced, IInv, MockOwned, Lifecycle
<1>3. \E to \in {"connected", "refused"} :
         conn' = [conn EXCEPT ![r] = to] /\ (to = "refused" => process = "fatal")
  BY <1>1, <1>2
<1>4. ScriptTypeOK'
  BY <1>1, <1>3 DEF IInv, ScriptTypeOK, TypeOK
<1>5. Lifecycle' /\ MockOwned' /\ WorkerOwned'
  BY <1>1 DEF IInv, Lifecycle, MockOwned, WorkerOwned, Announced, NeedsWorker
<1>6. TestsOver' /\ Reported' /\ TestsReachMock'
  BY <1>1, <1>3
     DEF IInv, ScriptTypeOK, TypeOK, TestsOver, Reported, TestsReachMock, InCleanup
<1>7. Recording'
  BY <1>1, <1>3, FirstPageAssumption DEF IInv, ScriptTypeOK, TypeOK, Recording
<1>8. QED
  BY <1>4, <1>5, <1>6, <1>7 DEF IInv

\* A step that leaves the server alone keeps what is said of it alone.
LEMMA ServerKept ==
    ASSUME IInv, UNCHANGED vars
    PROVE  /\ TypeOK' /\ Lifecycle' /\ Recording'
           /\ UNCHANGED <<main, process, signal, stopping, conn, Announced>>
  BY DEF IInv, ScriptTypeOK, TypeOK, Lifecycle, Recording, vars, Announced

\* The script gives up or is done, before cleanup: it exits 0 only with what
\* GreenMeansRan asks for.
LEMMA QuitStep ==
    ASSUME IInv, NEW from, NEW status \in {0, 1}, Quit(from, status),
           from \in {"mock", "mock_wait", "worker_wait", "stage", "report"},
           status = 0 => from = "report" /\ ~RunnerFailed /\ ~AllSkipped
    PROVE  IInv'
<1>1. /\ script = from /\ script' = "kill_worker" /\ rc' = status
      /\ UNCHANGED <<vars, transport, given, worker, runner, interrupted, tries, mockPid,
                     workerPid>>
      /\ status = 0 => /\ script = "report"
                       /\ "failed" \notin report /\ report # {"skipped"}
  BY DEF Quit, Go, RunnerFailed, AllSkipped
<1>2. /\ TypeOK' /\ Lifecycle' /\ Recording'
      /\ UNCHANGED <<main, process, signal, stopping, conn, Announced>>
  BY <1>1, ServerKept
<1>3. ScriptTypeOK'
  BY <1>1, <1>2 DEF IInv, ScriptTypeOK, InCleanup
<1>4. MockOwned'
  BY <1>1, <1>2 DEF IInv, MockOwned, InCleanup
<1>5. WorkerOwned'
  BY <1>1, <1>2 DEF IInv, WorkerOwned, NeedsWorker, InCleanup
<1>6. TestsOver' /\ TestsReachMock'
  BY <1>1, <1>2 DEF IInv, TestsOver, TestsReachMock, InCleanup
<1>7. Reported'
  <2>1. rc' = 0 => script = "report"
    BY <1>1
  <2>2. script = "report" => /\ mockPid \/ "mock" \in given
                             /\ workerPid \/ ~NeedsWorker
    BY DEF IInv, MockOwned, WorkerOwned
  <2>3. QED
    BY <1>1, <1>2, <2>1, <2>2 DEF IInv, Reported, NeedsWorker
<1>8. QED
  BY <1>2, <1>3, <1>4, <1>5, <1>6, <1>7 DEF IInv

\* A turn of a polling loop: the wait is over, given up, or goes on.
LEMMA PollStep ==
    ASSUME IInv, NEW from, NEW ready, NEW ended, NEW to, Poll(from, ready, ended, to),
           from \in {"mock_wait", "worker_wait"}
    PROVE  \/ IInv'
           \/ /\ ready /\ script = from /\ script' = to
              /\ UNCHANGED <<vars, transport, given, worker, runner, interrupted, rc, tries,
                             mockPid, workerPid>>
<1>1. CASE ready /\ Go(from, to) /\ UNCHANGED <<rc, tries, mockPid, workerPid>>
  BY <1>1 DEF Go
<1>2. CASE Quit(from, 1)
  BY <1>2, QuitStep
<1>3. CASE /\ Go(from, from)
           /\ tries < MaxTries - 1 /\ tries' = tries + 1
           /\ UNCHANGED <<rc, mockPid, workerPid>>
  <2>1. UNCHANGED <<vars, script, transport, given, worker, runner, interrupted, rc, mockPid,
                    workerPid>>
    BY <1>3 DEF Go
  <2>2. /\ TypeOK' /\ Lifecycle' /\ Recording'
        /\ UNCHANGED <<main, process, signal, stopping, conn, Announced>>
    BY <2>1, ServerKept
  <2>3. ScriptTypeOK'
    BY <1>3, <2>1, <2>2, MaxTriesAssumption DEF IInv, ScriptTypeOK
  <2>4. MockOwned' /\ WorkerOwned' /\ TestsOver' /\ Reported' /\ TestsReachMock'
    BY <2>1, <2>2 DEF IInv, MockOwned, WorkerOwned, TestsOver, Reported, TestsReachMock,
                      NeedsWorker
  <2>5. QED
    BY <2>2, <2>3, <2>4 DEF IInv
<1>4. QED
  BY <1>1, <1>2, <1>3, Zenon DEF Poll

\* The commands of the script that do not touch the mock server.
LEMMA CommandStep ==
    ASSUME IInv, UNCHANGED vars,
           \/ UseGivenMock \/ NoTestURL \/ BuildFails \/ MockPid \/ PollMock
           \/ NoWorker \/ StartWorker \/ WorkerPid \/ PollWorker
           \/ Stage \/ RunnerEnds \/ ReadReport \/ KillWorker \/ WaitWorker \/ WaitMock
    PROVE  IInv'
<1>1. /\ TypeOK' /\ Lifecycle' /\ Recording'
      /\ UNCHANGED <<main, process, signal, stopping, conn, Announced>>
  BY ServerKept
<1>2. CASE UseGivenMock
  <2>1. ScriptTypeOK'
    BY <1>1, <1>2, MaxTriesAssumption DEF UseGivenMock, Go, IInv, ScriptTypeOK, InCleanup
  <2>2. MockOwned'
    BY <1>1, <1>2 DEF UseGivenMock, Go, IInv, Lifecycle, MockOwned, Announced
  <2>3. WorkerOwned'
    BY <1>1, <1>2 DEF UseGivenMock, Go, IInv, ScriptTypeOK, WorkerOwned, NeedsWorker
  <2>4. TestsOver' /\ Reported' /\ TestsReachMock'
    BY <1>1, <1>2 DEF UseGivenMock, Go, IInv, TestsOver, Reported, TestsReachMock, InCleanup,
                      NeedsWorker
  <2>5. QED
    BY <1>1, <2>1, <2>2, <2>3, <2>4 DEF IInv
<1>3. CASE NoTestURL \/ BuildFails
  BY <1>3, QuitStep DEF NoTestURL, BuildFails
<1>4. CASE MockPid
  <2>1. ScriptTypeOK'
    BY <1>1, <1>4, MaxTriesAssumption DEF MockPid, Go, IInv, ScriptTypeOK, InCleanup
  <2>2. MockOwned'
    BY <1>1, <1>4 DEF MockPid, Go, IInv, Lifecycle, MockOwned
  <2>3. WorkerOwned'
    BY <1>1, <1>4 DEF MockPid, Go, IInv, ScriptTypeOK, WorkerOwned, NeedsWorker
  <2>4. TestsOver' /\ Reported' /\ TestsReachMock'
    BY <1>1, <1>4 DEF MockPid, Go, IInv, TestsOver, Reported, TestsReachMock, InCleanup,
                      NeedsWorker
  <2>5. QED
    BY <1>1, <2>1, <2>2, <2>3, <2>4 DEF IInv
<1>5. CASE PollMock
  <2> SUFFICES ASSUME /\ Announced /\ script = "mock_wait" /\ script' = "worker"
                      /\ UNCHANGED <<transport, given, worker, runner, interrupted, rc, tries,
                                     mockPid, workerPid>>
               PROVE  IInv'
    <3>1. Poll("mock_wait", Announced, FALSE, "worker")
      BY <1>5 DEF PollMock, MockReady
    <3>2. QED
      BY <3>1, PollStep DEF Announced
  <2>1. ScriptTypeOK'
    BY <1>1 DEF IInv, ScriptTypeOK
  <2>2. process \in {"up", "fatal"}
    BY DEF IInv, Lifecycle, MockOwned, Announced
  <2>3. MockOwned'
    BY <1>1, <2>2 DEF IInv, MockOwned
  <2>4. WorkerOwned'
    BY <1>1 DEF IInv, WorkerOwned, NeedsWorker
  <2>5. TestsOver' /\ Reported' /\ TestsReachMock'
    BY <1>1 DEF IInv, TestsOver, Reported, TestsReachMock, InCleanup, NeedsWorker
  <2>6. QED
    BY <1>1, <2>1, <2>3, <2>4, <2>5 DEF IInv
<1>6. CASE NoWorker
  <2>1. ScriptTypeOK'
    BY <1>1, <1>6, MaxTriesAssumption DEF NoWorker, Go, IInv, ScriptTypeOK, InCleanup
  <2>2. MockOwned'
    BY <1>1, <1>6 DEF NoWorker, Go, IInv, Lifecycle, MockOwned
  <2>3. WorkerOwned'
    BY <1>1, <1>6 DEF NoWorker, Go, IInv, ScriptTypeOK, WorkerOwned, NeedsWorker
  <2>4. TestsOver' /\ Reported' /\ TestsReachMock'
    BY <1>1, <1>6 DEF NoWorker, Go, IInv, TestsOver, Reported, TestsReachMock, InCleanup,
                      NeedsWorker
  <2>5. QED
    BY <1>1, <2>1, <2>2, <2>3, <2>4 DEF IInv
<1>7. CASE StartWorker
  <2>1. ScriptTypeOK'
    BY <1>1, <1>7, MaxTriesAssumption DEF StartWorker, Go, IInv, ScriptTypeOK, InCleanup
  <2>2. MockOwned'
    BY <1>1, <1>7 DEF StartWorker, Go, IInv, Lifecycle, MockOwned
  <2>3. WorkerOwned'
    BY <1>1, <1>7 DEF StartWorker, Go, IInv, ScriptTypeOK, WorkerOwned, NeedsWorker
  <2>4. TestsOver' /\ Reported' /\ TestsReachMock'
    BY <1>1, <1>7 DEF StartWorker, Go, IInv, TestsOver, Reported, TestsReachMock, InCleanup,
                      NeedsWorker
  <2>5. QED
    BY <1>1, <2>1, <2>2, <2>3, <2>4 DEF IInv
<1>8. CASE WorkerPid
  <2>1. ScriptTypeOK'
    BY <1>1, <1>8, MaxTriesAssumption DEF WorkerPid, Go, IInv, ScriptTypeOK, InCleanup
  <2>2. MockOwned'
    BY <1>1, <1>8 DEF WorkerPid, Go, IInv, Lifecycle, MockOwned
  <2>3. WorkerOwned'
    BY <1>1, <1>8 DEF WorkerPid, Go, IInv, ScriptTypeOK, WorkerOwned, NeedsWorker
  <2>4. TestsOver' /\ Reported' /\ TestsReachMock'
    BY <1>1, <1>8 DEF WorkerPid, Go, IInv, TestsOver, Reported, TestsReachMock, InCleanup,
                      NeedsWorker
  <2>5. QED
    BY <1>1, <2>1, <2>2, <2>3, <2>4 DEF IInv
<1>9. CASE PollWorker
  <2> SUFFICES ASSUME /\ script = "worker_wait" /\ script' = "stage"
                      /\ UNCHANGED <<transport, given, worker, runner, interrupted, rc, tries,
                                     mockPid, workerPid>>
               PROVE  IInv'
    <3>1. CASE Poll("worker_wait", WorkerSeen, worker = "ended", "stage")
      BY <3>1, PollStep
    <3>2. CASE Quit("worker_wait", 1)
      BY <3>2, QuitStep
    <3>3. QED
      BY <1>9, <3>1, <3>2 DEF PollWorker
  <2>1. ScriptTypeOK'
    BY <1>1 DEF IInv, ScriptTypeOK
  <2>2. MockOwned'
    BY <1>1 DEF IInv, MockOwned
  <2>3. WorkerOwned'
    BY <1>1 DEF IInv, WorkerOwned, NeedsWorker
  <2>4. TestsOver' /\ Reported' /\ TestsReachMock'
    BY <1>1 DEF IInv, TestsOver, Reported, TestsReachMock, InCleanup, NeedsWorker
  <2>5. QED
    BY <1>1, <2>1, <2>2, <2>3, <2>4 DEF IInv
<1>10. CASE Stage
  <2>1. CASE Quit("stage", 1)
    BY <2>1, QuitStep
  <2>2. CASE ~Quit("stage", 1)
    <3>1. /\ script = "stage" /\ script' = "suite" /\ selected' \in SUBSET Request
          /\ UNCHANGED <<transport, given, rc, tries, mockPid, workerPid, worker, report,
                         interrupted>>
      BY <1>10, <2>2, Zenon DEF Stage
    <3>2. ScriptTypeOK'
      BY <1>1, <3>1 DEF IInv, ScriptTypeOK
    <3>3. MockOwned'
      BY <1>1, <3>1 DEF IInv, MockOwned
    <3>4. WorkerOwned'
      BY <1>1, <3>1 DEF IInv, WorkerOwned, NeedsWorker
    <3>5. TestsOver' /\ Reported' /\ TestsReachMock'
      BY <1>1, <3>1 DEF IInv, TestsOver, Reported, TestsReachMock, InCleanup
    <3>6. QED
      BY <1>1, <3>2, <3>3, <3>4, <3>5 DEF IInv
  <2>3. QED
    BY <2>1, <2>2
<1>11. CASE KillWorker
  <2>1. ScriptTypeOK'
    BY <1>1, <1>11, MaxTriesAssumption DEF KillWorker, Go, IInv, ScriptTypeOK, InCleanup
  <2>2. MockOwned'
    BY <1>1, <1>11 DEF KillWorker, Go, IInv, Lifecycle, MockOwned
  <2>3. WorkerOwned'
    BY <1>1, <1>11 DEF KillWorker, Go, IInv, ScriptTypeOK, WorkerOwned, NeedsWorker
  <2>4. TestsOver' /\ Reported' /\ TestsReachMock'
    BY <1>1, <1>11 DEF KillWorker, Go, IInv, TestsOver, Reported, TestsReachMock, InCleanup,
                       NeedsWorker
  <2>5. QED
    BY <1>1, <2>1, <2>2, <2>3, <2>4 DEF IInv
<1>12. CASE WaitWorker
  <2>1. ScriptTypeOK'
    BY <1>1, <1>12, MaxTriesAssumption DEF WaitWorker, Go, IInv, ScriptTypeOK, InCleanup
  <2>2. MockOwned'
    BY <1>1, <1>12 DEF WaitWorker, Go, IInv, Lifecycle, MockOwned
  <2>3. WorkerOwned'
    BY <1>1, <1>12 DEF WaitWorker, Go, IInv, ScriptTypeOK, WorkerOwned, NeedsWorker
  <2>4. TestsOver' /\ Reported' /\ TestsReachMock'
    BY <1>1, <1>12 DEF WaitWorker, Go, IInv, TestsOver, Reported, TestsReachMock, InCleanup,
                       NeedsWorker
  <2>5. QED
    BY <1>1, <2>1, <2>2, <2>3, <2>4 DEF IInv
<1>13. CASE WaitMock
  <2>1. ScriptTypeOK'
    BY <1>1, <1>13, MaxTriesAssumption DEF WaitMock, Go, IInv, ScriptTypeOK, InCleanup
  <2>2. MockOwned'
    BY <1>1, <1>13 DEF WaitMock, Go, IInv, Lifecycle, MockOwned
  <2>3. WorkerOwned'
    BY <1>1, <1>13 DEF WaitMock, Go, IInv, ScriptTypeOK, WorkerOwned, NeedsWorker
  <2>4. TestsOver' /\ Reported' /\ TestsReachMock'
    BY <1>1, <1>13 DEF WaitMock, Go, IInv, TestsOver, Reported, TestsReachMock, InCleanup,
                       NeedsWorker
  <2>5. QED
    BY <1>1, <2>1, <2>2, <2>3, <2>4 DEF IInv
<1>14. CASE RunnerEnds
  <2>1. /\ script = "suite" /\ script' = "report"
        /\ \A r \in selected : Over(r)
        /\ UNCHANGED <<transport, given, rc, tries, mockPid, workerPid, worker, selected,
                       interrupted>>
    BY <1>14, Zenon DEF RunnerEnds
  <2>2. PICK verdict \in [selected -> Outcome], own \in SUBSET {"failed"} :
           /\ \A r \in selected : verdict[r] \in Verdicts(r)
           /\ report' = {verdict[r] : r \in selected} \cup own
    BY <1>14, Zenon DEF RunnerEnds
  <2>3. /\ report' \subseteq Outcome
        /\ selected # {} => report' # {}
        /\ "passed" \in report' => \E r \in selected : conn[r] = "answered"
    BY <2>2 DEF Verdicts, Outcome
  <2>4. \A r \in Request : conn[r] \in {"none", "answered", "refused", "dropped"}
    BY <2>1 DEF Over, IInv, TestsOver
  <2>5. ScriptTypeOK'
    BY <1>1, <2>1, <2>3 DEF IInv, ScriptTypeOK
  <2>6. MockOwned'
    BY <1>1, <2>1 DEF IInv, MockOwned
  <2>7. WorkerOwned'
    BY <1>1, <2>1 DEF IInv, WorkerOwned, NeedsWorker
  <2>8. TestsOver' /\ TestsReachMock'
    BY <1>1, <2>1, <2>4 DEF IInv, TestsOver, TestsReachMock, InCleanup
  <2>9. Reported'
    BY <1>1, <2>1, <2>3 DEF Reported, InCleanup
  <2>10. QED
    BY <1>1, <2>5, <2>6, <2>7, <2>8, <2>9 DEF IInv
<1>15. CASE ReadReport
  <2>1. PICK status \in {0, 1} :
           Quit("report", status) /\ (status = 0 => ~RunnerFailed /\ ~AllSkipped)
    BY <1>15 DEF ReadReport
  <2>2. QED
    BY <2>1, QuitStep
<1>16. QED
  BY <1>2, <1>3, <1>4, <1>5, <1>6, <1>7, <1>8, <1>9, <1>10, <1>11, <1>12, <1>13, <1>14,
     <1>15

\* The mock is started once, and noted as the script's own in the next step.
LEMMA StartMockStep == IInv /\ StartMock => IInv'
<1> SUFFICES ASSUME IInv, StartMock PROVE IInv'
  OBVIOUS
<1>1. /\ script = "mock" /\ "mock" \notin given /\ script' = "mock_pid" /\ process' = "up"
      /\ UNCHANGED <<main, watcher, signal, stopping, conn, lastQuery, recorded>>
      /\ UNCHANGED <<transport, given, rc, tries, mockPid, workerPid, worker, runner,
                     interrupted>>
  BY DEF StartMock
<1>2. interrupted # "forking" /\ process = "none"
  BY <1>1 DEF IInv, TestsOver, MockOwned, InCleanup
<1>3. ScriptTypeOK'
  BY <1>1 DEF IInv, ScriptTypeOK, TypeOK
<1>4. Lifecycle' /\ MockOwned'
  BY <1>1, <1>2 DEF IInv, Lifecycle, MockOwned
<1>5. WorkerOwned'
  BY <1>1 DEF IInv, WorkerOwned, NeedsWorker
<1>6. TestsOver' /\ Reported' /\ TestsReachMock' /\ Recording'
  BY <1>1 DEF IInv, TestsOver, Reported, TestsReachMock, Recording, InCleanup, NeedsWorker
<1>7. QED
  BY <1>3, <1>4, <1>5, <1>6 DEF IInv

\* cleanup ends the mock that it started, if that still runs, and no other; no test
\* of a script that was not interrupted loses its answer by it.
LEMMA KillMockStep == IInv /\ KillMock => IInv'
<1> SUFFICES ASSUME IInv, KillMock PROVE IInv'
  OBVIOUS
<1>1. /\ script = "kill_mock" /\ script \in InCleanup
      /\ script' = (IF mockPid THEN "wait_mock" ELSE "exited")
      /\ UNCHANGED <<transport, given, rc, tries, mockPid, workerPid, worker, runner,
                     interrupted>>
  BY DEF KillMock, HasMock, InCleanup
<1>2. WorkerOwned'
  BY <1>1 DEF IInv, WorkerOwned, NeedsWorker
<1>3. CASE ~(mockPid /\ process = "up")
  <2>1. UNCHANGED vars
    BY <1>3 DEF KillMock, HasMock
  <2>2. /\ TypeOK' /\ Lifecycle' /\ Recording'
        /\ UNCHANGED <<main, process, signal, stopping, conn, Announced>>
    BY <2>1, ServerKept
  <2>3. ScriptTypeOK'
    BY <1>1, <2>2 DEF IInv, ScriptTypeOK, InCleanup
  <2>4. MockOwned'
    BY <1>1, <1>3, <2>2 DEF IInv, MockOwned
  <2>5. TestsOver' /\ Reported' /\ TestsReachMock'
    BY <1>1, <2>2 DEF IInv, TestsOver, Reported, TestsReachMock, InCleanup, NeedsWorker
  <2>6. QED
    BY <1>2, <2>2, <2>3, <2>4, <2>5 DEF IInv
<1>4. CASE mockPid /\ process = "up"
  <2>1. /\ signal' = "sent" /\ signal = "none"
        /\ UNCHANGED <<main, watcher, stopping, lastQuery, recorded>>
        /\ process' \in {"up", "killed"}
        /\ conn' = conn \/ conn' = Dropped
    BY <1>4 DEF KillMock, HasMock, Signalled
  <2>2. /\ conn' \in [Request -> {"none", "connected", "handling", "recorded",
                                 "answered", "refused", "dropped"}]
        /\ \A r \in Request :
              /\ conn[r] \in {"none", "answered", "refused"} => conn'[r] = conn[r]
              /\ conn'[r] \in {"none", "recorded", "answered", "refused"} =>
                    conn'[r] = conn[r]
    BY <2>1, DroppedTests DEF IInv, ScriptTypeOK, TypeOK
  <2>3. ScriptTypeOK'
    BY <1>1, <2>1, <2>2 DEF IInv, ScriptTypeOK, TypeOK, InCleanup
  <2>4. Lifecycle' /\ MockOwned'
    BY <1>1, <1>4, <2>1 DEF IInv, Lifecycle, MockOwned
  <2>5. TestsOver' /\ TestsReachMock'
    BY <1>1, <1>4, <2>1, <2>2 DEF IInv, ScriptTypeOK, TestsOver, TestsReachMock, InCleanup
  <2>6. Reported'
    <3>1. \A r \in selected : conn[r] = "answered" => conn'[r] = "answered"
      BY <2>2 DEF IInv, ScriptTypeOK
    <3>2. QED
      BY <1>1, <3>1 DEF IInv, Reported, InCleanup, NeedsWorker
  <2>7. Recording'
    BY <2>1, <2>2, FirstPageAssumption DEF IInv, Recording
  <2>8. QED
    BY <1>2, <2>3, <2>4, <2>5, <2>6, <2>7 DEF IInv
<1>5. QED
  BY <1>3, <1>4

\* An interrupt before cleanup begins it; between a fork and $! a server is left.
LEMMA InterruptStep == IInv /\ Interrupt => IInv'
<1> SUFFICES ASSUME IInv, Interrupt PROVE IInv'
  OBVIOUS
<1>1. /\ script \notin InCleanup /\ script' = "kill_worker" /\ rc' = 130
      /\ interrupted' = (IF script \in {"mock_pid", "worker_pid"} THEN "forking" ELSE "yes")
      /\ UNCHANGED <<vars, transport, given, tries, mockPid, workerPid, worker, runner>>
  BY DEF Interrupt
<1>2. /\ TypeOK' /\ Lifecycle' /\ Recording'
      /\ UNCHANGED <<main, process, signal, stopping, conn, Announced>>
  BY <1>1, ServerKept
<1>3. interrupted = "no"
  BY <1>1 DEF IInv, TestsOver, ScriptTypeOK
<1>4. ScriptTypeOK'
  BY <1>1, <1>2 DEF IInv, ScriptTypeOK, InCleanup
<1>5. MockOwned'
  BY <1>1, <1>2, <1>3 DEF IInv, MockOwned, InCleanup
<1>6. WorkerOwned'
  BY <1>1, <1>2, <1>3 DEF IInv, WorkerOwned, InCleanup, NeedsWorker
<1>7. TestsOver' /\ Reported' /\ TestsReachMock'
  BY <1>1, <1>2 DEF IInv, TestsOver, Reported, TestsReachMock, InCleanup
<1>8. QED
  BY <1>2, <1>4, <1>5, <1>6, <1>7 DEF IInv

\* What a worker does of its own: one that was given does not end.
LEMMA WorkerStep ==
    ASSUME IInv,
           WorkerIs("starting", "ready") \/ WorkerFails \/ WorkerEnds
    PROVE  IInv'
<1>1. /\ <<worker, worker'>> \in {<<"starting", "ready">>, <<"starting", "ended">>,
                                   <<"ready", "lost">>, <<"dying", "ended">>}
      /\ UNCHANGED <<vars, transport, given, script, rc, tries, mockPid, workerPid, runner,
                     interrupted>>
  BY DEF WorkerFails, WorkerEnds, WorkerIs
<1>2. /\ TypeOK' /\ Lifecycle' /\ Recording'
      /\ UNCHANGED <<main, process, signal, stopping, conn, Announced>>
  BY <1>1, ServerKept
<1>3. ScriptTypeOK'
  BY <1>1, <1>2 DEF IInv, ScriptTypeOK
<1>4. MockOwned' /\ TestsOver' /\ Reported' /\ TestsReachMock'
  BY <1>1, <1>2 DEF IInv, MockOwned, TestsOver, Reported, TestsReachMock, NeedsWorker
<1>5. WorkerOwned'
  BY <1>1 DEF IInv, WorkerOwned, NeedsWorker
<1>6. QED
  BY <1>2, <1>3, <1>4, <1>5 DEF IInv

(***************************************************************************)
(* The invariant holds                                                     *)
(***************************************************************************)
LEMMA IInvStep == IInv /\ [RunNext]_allVars => IInv'
<1> SUFFICES ASSUME IInv, [RunNext]_allVars PROVE IInv'
  OBVIOUS
<1>1. CASE \/ UseGivenMock \/ NoTestURL \/ BuildFails \/ MockPid \/ PollMock
           \/ NoWorker \/ StartWorker \/ WorkerPid \/ PollWorker
           \/ Stage \/ RunnerEnds \/ ReadReport \/ KillWorker \/ WaitWorker \/ WaitMock
  <2>1. UNCHANGED vars
    BY <1>1 DEF UseGivenMock, NoTestURL, BuildFails, MockPid, PollMock, NoWorker, StartWorker,
                WorkerPid,
                PollWorker, Stage, RunnerEnds, ReadReport, KillWorker, WaitWorker, WaitMock,
                Poll, Quit, Go
  <2>2. QED
    BY <1>1, <2>1, CommandStep
<1>2. CASE StartMock
  BY <1>2, StartMockStep
<1>3. CASE KillMock
  BY <1>3, KillMockStep
<1>4. CASE Interrupt
  BY <1>4, InterruptStep
<1>5. CASE WorkerIs("starting", "ready") \/ WorkerFails \/ WorkerEnds
  BY <1>5, WorkerStep
<1>6. CASE \E r \in Request : Test(r)
  BY <1>6, TestStep
<1>7. CASE Goroutines /\ UNCHANGED scriptVars
  BY <1>7, GoroutineStep
<1>8. CASE Handlers /\ UNCHANGED scriptVars
  BY <1>8, HandlerKeeps DEF Handlers
<1>9. CASE Exited \/ UNCHANGED allVars
  <2>1. UNCHANGED <<vars, transport, given, script, rc, tries, mockPid, workerPid, worker,
                   runner, interrupted>>
    BY <1>9 DEF Exited, allVars, scriptVars
  <2>2. /\ TypeOK' /\ Lifecycle' /\ Recording'
        /\ UNCHANGED <<main, process, signal, stopping, conn, Announced>>
    BY <2>1, ServerKept
  <2>3. QED
    BY <2>1, <2>2 DEF IInv, ScriptTypeOK, MockOwned, WorkerOwned, TestsOver, Reported,
                      TestsReachMock, NeedsWorker
<1>10. QED
  BY <1>1, <1>2, <1>3, <1>4, <1>5, <1>6, <1>7, <1>8, <1>9 DEF RunNext, Script

\* So it holds throughout.
THEOREM IInvHolds == RunSpec => []IInv
<1>1. QED
  BY InitIInv, IInvStep, PTL DEF RunSpec

(***************************************************************************)
(* The properties                                                          *)
(***************************************************************************)
\* The script, its servers and its tests stay in the states they can be in
\* (run-integration.sh; mockserver/main.go).
THEOREM TypeCorrect == RunSpec => []ScriptTypeOK
<1>1. IInv => ScriptTypeOK
  BY DEF IInv
<1>2. QED
  BY <1>1, IInvHolds, PTL

\* A script that has exited has ended what it started and nothing else, but for an
\* interrupt between a fork and $! (run-integration.sh, cleanup).
THEOREM OwnServersAreEnded == RunSpec => []OwnServersEnded
<1>1. IInv => OwnServersEnded
  BY DEF IInv, ScriptTypeOK, TypeOK, MockOwned, WorkerOwned, OwnServersEnded
<1>2. QED
  BY <1>1, IInvHolds, PTL

\* Exit 0 means that no test failed and that, if the pattern matches any, one was
\* answered and passed (run-integration.sh, RUN_RC and the skip guard).
THEOREM GreenIsNoFake == RunSpec => []GreenMeansRan
<1>1. IInv => GreenMeansRan
  <2> SUFFICES ASSUME IInv, script = "exited", rc = 0 PROVE GreenMeansRan
    BY DEF GreenMeansRan
  <2>1. interrupted = "no"
    BY DEF IInv, TestsOver
  <2>2. /\ selected # {} => report # {}
        /\ "passed" \in report => \E r \in selected : conn[r] = "answered"
        /\ "failed" \notin report /\ report # {"skipped"}
        /\ mockPid \/ "mock" \in given
        /\ workerPid \/ ~NeedsWorker
    BY DEF IInv, Reported, InCleanup
  <2>3. selected # {} => "passed" \in report
    BY <2>2 DEF IInv, ScriptTypeOK, Outcome
  <2>4. QED
    BY <2>1, <2>2, <2>3 DEF GreenMeansRan
<1>2. QED
  BY <1>1, IInvHolds, PTL

\* No test is refused or cut off unless the script is interrupted or the mock fails,
\* for any number of tests (run-integration.sh, the wait for the PORT line and the
\* order of cleanup).
THEOREM EveryTestReachesMock == RunSpec => []TestsReachMock
<1>1. IInv => TestsReachMock
  BY DEF IInv
<1>2. QED
  BY <1>1, IInvHolds, PTL

\* LastQuery holds the query of an answered first-page request or of one recorded
\* after it, for any number of requests (server.go, the handler of /People).
THEOREM LastQueryStaysRecent == RunSpec => []LastQueryIsRecent
<1>1. IInv => LastQueryIsRecent
  <2> SUFFICES ASSUME IInv, NEW r \in FirstPage, conn[r] = "answered"
               PROVE  \E i \in 1 .. Len(recorded) :

                                                 recorded[i] = r /\ lastQuery \in {recorded[j] : j \in i .. Len(recorded)}
    BY DEF LastQueryIsRecent
  <2>1. PICK i \in 1 .. Len(recorded) : recorded[i] = r
    BY DEF IInv, Recording
  <2>2. Len(recorded) \in i .. Len(recorded)
    BY DEF IInv, ScriptTypeOK, TypeOK
  <2>3. recorded # << >>
    BY <2>2
  <2>4. lastQuery = recorded[Len(recorded)]
    BY <2>3 DEF IInv, Recording
  <2>5. QED
    BY <2>1, <2>2, <2>4
<1>2. QED
  BY <1>1, IInvHolds, PTL

(***************************************************************************)
(* What cleanup waits for.  Heard adds to IInv that a signal is never lost *)
(* on a server that goes on: it finds the channel registered, or ends the  *)
(* process; and that the script waits for what it has killed.              *)
(***************************************************************************)
Heard ==
    /\ watcher # "unborn" => main \in {"spawned", "serving", "returned"}
    /\ signal = "sent" /\ process = "up" => watcher = "watching"
    /\ signal = "taken" => stopping /\ watcher = "stopped"

Killed ==
    /\ workerPid \/ script = "worker_pid" => worker # "none"
    /\ script = "wait_worker" => worker \in {"dying", "lost", "ended"}
    /\ script = "wait_mock" => process # "up" \/ signal # "none"

\* A step of the server keeps what it knows of the signal.
LEMMA HeardStep == IInv /\ Heard /\ [RunNext]_allVars => Heard'
<1> SUFFICES ASSUME IInv, Heard, [RunNext]_allVars PROVE Heard'
  OBVIOUS
<1>1. CASE Goroutines
  BY <1>1 DEF Goroutines, Listen, ListenFails, Announce, Spawn, Notify, Serve, ServeReturns,
              ServeFails, Shutdown, Exit, MainStep, Stops, Heard
<1>2. CASE StartMock
  BY <1>2 DEF StartMock, Heard, IInv, MockOwned
<1>3. CASE KillMock
  BY <1>3 DEF KillMock, Signalled, Heard, vars
<1>4. CASE UNCHANGED <<main, watcher, process, signal, stopping>>
  BY <1>4 DEF Heard
<1>5. Handlers \/ (\E r \in Request : Test(r))
         => UNCHANGED <<main, watcher, process, signal, stopping>>
  BY DEF Handlers, Accept, Record, Answer, HandlerStep, Test, Dial
<1>6. Script => StartMock \/ KillMock \/ UNCHANGED vars
  BY DEF Script, UseGivenMock, NoTestURL, BuildFails, MockPid, PollMock, NoWorker, StartWorker,
         WorkerPid, PollWorker, Poll, Stage, RunnerEnds, ReadReport, KillWorker, WaitWorker,
         WaitMock, Quit, Go
<1>7. Interrupt \/ Exited \/ WorkerIs("starting", "ready") \/ WorkerFails \/ WorkerEnds
         => UNCHANGED vars
  BY DEF Interrupt, Exited, WorkerFails, WorkerEnds, WorkerIs, allVars
<1>8. QED
  BY <1>1, <1>2, <1>3, <1>4, <1>5, <1>6, <1>7 DEF RunNext, vars, allVars

\* A step of the script waits for what it has killed.
LEMMA KilledStep == IInv /\ Killed /\ [RunNext]_allVars => Killed'
<1> SUFFICES ASSUME IInv, Killed, [RunNext]_allVars PROVE Killed'
  OBVIOUS
<1>1. CASE \/ UseGivenMock \/ NoTestURL \/ BuildFails \/ StartMock \/ MockPid \/ PollMock
           \/ NoWorker \/ StartWorker \/ WorkerPid \/ PollWorker
           \/ Stage \/ RunnerEnds \/ ReadReport
  BY <1>1 DEF UseGivenMock, NoTestURL, BuildFails, StartMock, MockPid, PollMock, NoWorker,
              StartWorker, WorkerPid, PollWorker, Poll, Stage, RunnerEnds, ReadReport, Quit,
              Go, vars, Killed
<1>2. CASE KillWorker
  BY <1>2 DEF KillWorker, Killed, IInv, ScriptTypeOK, vars
<1>3. CASE WaitWorker
  BY <1>3 DEF WaitWorker, Go, vars, Killed
<1>4. CASE KillMock
  BY <1>4 DEF KillMock, HasMock, Signalled, vars, Killed
<1>5. CASE WaitMock
  BY <1>5 DEF WaitMock, Go, vars, Killed
<1>6. CASE Interrupt
  BY <1>6 DEF Interrupt, vars, Killed
<1>7. CASE WorkerIs("starting", "ready") \/ WorkerFails \/ WorkerEnds
  BY <1>7 DEF WorkerFails, WorkerEnds, WorkerIs, vars, Killed
<1>8. CASE (\E r \in Request : Test(r)) \/ (Handlers /\ UNCHANGED scriptVars)
  BY <1>8 DEF Test, Dial, Handlers, Accept, Record, Answer, HandlerStep, scriptVars, Killed
<1>9. CASE Goroutines /\ UNCHANGED scriptVars
  BY <1>9 DEF Goroutines, Listen, ListenFails, Announce, Spawn, Notify, Serve, ServeReturns,
              ServeFails, Shutdown, Exit, MainStep, scriptVars, Killed
<1>10. CASE UNCHANGED allVars
  BY <1>10 DEF allVars, scriptVars, vars, Killed
<1>11. QED
  BY <1>1, <1>2, <1>3, <1>4, <1>5, <1>6, <1>7, <1>8, <1>9, <1>10 DEF RunNext, Script, Exited

\* The script waits for nothing that goes on for ever, for any number of tests
\* (run-integration.sh, cleanup; main.go, the signal goroutine).
THEOREM NoWaitInVain == RunSpec => []WaitsForTheDying
<1>1. RunInit => Heard /\ Killed
  BY DEF RunInit, Fresh, Heard, Killed
<1>2. IInv /\ Heard /\ Killed => WaitsForTheDying
  BY DEF IInv, ScriptTypeOK, TypeOK, Heard, Killed, WaitsForTheDying
<1>3. QED
  BY <1>1, <1>2, HeardStep, KilledStep, IInvHolds, PTL DEF RunSpec

(***************************************************************************)
(* The mock server alone, whoever dials and signals it                     *)
(***************************************************************************)
\* Until a signal is sent it goes on, unless it fails.
Unsignalled ==
    /\ TypeOK
    /\ signal = "none" => ~stopping /\ process \in {"up", "fatal"}
    /\ main = "returned" => stopping

LEMMA UnsignalledStep == Unsignalled /\ [Next]_vars => Unsignalled'
<1> SUFFICES ASSUME Unsignalled, [Next]_vars PROVE Unsignalled'
  OBVIOUS
<1>1. CASE Goroutines
  <2>1. /\ main' \in {"start", "bound", "announced", "spawned", "serving", "returned"}
        /\ watcher' \in {"unborn", "born", "watching", "stopped"}
        /\ UNCHANGED <<lastQuery, recorded>>
    BY <1>1 DEF Unsignalled, TypeOK, Goroutines, Listen, ListenFails, Announce, Spawn, Notify,
                Serve, ServeReturns, ServeFails, Shutdown, Exit, MainStep
  <2>2. conn' = conn \/ conn' = Dropped
    BY <1>1 DEF Goroutines, Listen, ListenFails, Announce, Spawn, Notify,
                Serve, ServeReturns, ServeFails, Shutdown, Exit, MainStep
  <2>3. /\ process' \in {"none", "up", "clean", "killed", "fatal"}
        /\ signal' \in {"none", "sent", "taken"}
        /\ stopping' \in BOOLEAN
        /\ (signal' = "none" => ~stopping' /\ process' \in {"up", "fatal"})
        /\ (main' = "returned" => stopping')
    <3>1. CASE Shutdown
      BY <3>1 DEF Shutdown, Stops, Unsignalled, TypeOK
    <3>2. CASE Exit
      BY <3>2 DEF Exit, Unsignalled, TypeOK
    <3>3. CASE ServeReturns
      BY <3>3 DEF ServeReturns, MainStep, Unsignalled, TypeOK
    <3>4. CASE ListenFails \/ ServeFails
      BY <3>4 DEF ListenFails, ServeFails, Unsignalled, TypeOK
    <3>5. CASE Listen \/ Announce \/ Spawn \/ Notify \/ Serve
      BY <3>5 DEF Listen, Announce, Spawn, Notify, Serve, MainStep, Unsignalled, TypeOK
    <3>6. QED
      BY <1>1, <3>1, <3>2, <3>3, <3>4, <3>5 DEF Goroutines
  <2>4. QED
    BY <2>1, <2>2, <2>3, DroppedTests DEF Unsignalled, TypeOK
<1>2. CASE Kill
  BY <1>2, DroppedTests DEF Kill, Signalled, Unsignalled, TypeOK
<1>3. CASE \E r \in Request : Connect(r)
  BY <1>3 DEF Connect, Dial, Unsignalled, TypeOK
<1>4. CASE Handlers
  BY <1>4, FirstPageAssumption
     DEF Handlers, Accept, Record, Recorded, Answer, HandlerStep, Unsignalled, TypeOK
<1>5. CASE UNCHANGED vars
  BY <1>5 DEF vars, Unsignalled, TypeOK
<1>6. QED
  BY <1>1, <1>2, <1>3, <1>4, <1>5 DEF Next, Terminated

\* Only a dial is ever refused.
LEMMA RefusedByDial ==
    ASSUME TypeOK, [Next]_vars, NEW r \in Request, conn[r] # "refused", conn'[r] = "refused"
    PROVE  Connect(r) /\ ~Listening
<1>1. CASE Goroutines \/ Kill
  <2>1. conn' = conn \/ conn' = Dropped
    BY <1>1 DEF Goroutines, Listen, ListenFails, Announce, Spawn, Notify, Serve, ServeReturns,
                ServeFails, Shutdown, Exit, MainStep, Kill, Signalled
  <2>2. QED
    BY <2>1, DroppedTests
<1>2. CASE \E q \in Request : Connect(q)
  BY <1>2 DEF Connect, Dial, TypeOK
<1>3. CASE Handlers
  BY <1>3 DEF Handlers, Accept, Record, Answer, HandlerStep, TypeOK
<1>4. CASE UNCHANGED vars
  BY <1>4 DEF vars
<1>5. QED
  BY <1>1, <1>2, <1>3, <1>4 DEF Next, Terminated

\* Whoever read the PORT line is not refused by a server that was neither signalled
\* nor has failed, for any number of clients (main.go, the PORT line after net.Listen).
THEOREM AnnouncedIsReachable == Spec => AnnouncedReachable
<1>1. Init => Unsignalled
  <2> SUFFICES ASSUME Init PROVE Unsignalled
    OBVIOUS
  <2>1. conn = [r \in Request |-> "none"] /\ recorded = << >> /\ stopping = FALSE
    BY Zenon DEF Init, Fresh
  <2>2. recorded \in Seq(FirstPage)
    BY <2>1
  <2>3. stopping \in BOOLEAN /\ ~stopping
    BY <2>1, Zenon
  <2>4. QED
    BY <2>1, <2>2, <2>3 DEF Init, Fresh, TypeOK, Unsignalled
<1>2. Unsignalled /\ [Next]_vars =>
         [\A r \in Request : conn[r] # "refused" /\ conn'[r] = "refused" =>
              signal # "none" \/ process = "fatal"]_vars
  <2> SUFFICES ASSUME Unsignalled, [Next]_vars, NEW r \in Request,
                      conn[r] # "refused", conn'[r] = "refused"
               PROVE  signal # "none" \/ process = "fatal"
    OBVIOUS
  <2>1. Announced /\ ~Listening
    BY RefusedByDial DEF Unsignalled, Connect
  <2>2. QED
    BY <2>1 DEF Announced, Listening, Unsignalled
<1>3. QED
  BY <1>1, <1>2, UnsignalledStep, PTL DEF Spec, AnnouncedReachable
=============================================================================
