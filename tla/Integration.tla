---------------------------- MODULE Integration ----------------------------
(***************************************************************************)
(* ci/run-integration.sh: it starts the mock service (MockServer) and, for *)
(* two of the three transports, a worker; waits for what they print; runs  *)
(* the suite, whose tests make the requests; and ends what it started from *)
(* an EXIT trap, however it exits.  Each server may be given from outside. *)
(***************************************************************************)
EXTENDS MockServer

CONSTANT MaxTries  \* turns of a polling loop: 30 and 50 in the script

ASSUME MaxTriesAssumption == MaxTries \in Nat \ {0}

VARIABLES
    transport,    \* TRANSPORT
    given,        \* the servers given from outside
    script,       \* where the script is
    rc,           \* its exit status
    tries,        \* turns of the polling loop
    mockPid, workerPid,  \* whether MOCK_PID and WORKER_PID are set
    worker,       \* the worker's process
    selected,     \* the tests that TEST_PATTERN matches
    report,       \* the kinds of outcome that the runner reports of its tests
    interrupted   \* "no", "forking" (between & and $!) or "yes"

runner == <<selected, report>>
scriptVars == <<transport, given, script, rc, tries, mockPid, workerPid, worker, runner,
                interrupted>>
allVars == <<vars, scriptVars>>

Outcome == {"passed", "failed", "skipped"}
InCleanup == {"kill_worker", "wait_worker", "kill_mock", "wait_mock", "exited"}

ScriptTypeOK ==
    /\ TypeOK
    /\ transport \in {"subprocess", "http", "unix"}
    /\ given \subseteq {"mock", "worker"}
    /\ script \in InCleanup \cup {"mock", "mock_pid", "mock_wait", "worker", "worker_pid",
                                  "worker_wait", "stage", "suite", "report"}
    /\ rc \in {0, 1, 130}
    /\ tries \in 0 .. MaxTries - 1
    /\ mockPid \in BOOLEAN /\ workerPid \in BOOLEAN
    /\ worker \in {"none", "starting", "ready", "lost", "dying", "ended"}
    /\ selected \subseteq Request /\ report \subseteq Outcome
    /\ interrupted \in {"no", "forking", "yes"}

\* SKIP_MOCK, and VGI_ODATA_WORKER an http URL: those servers are up already.
RunInit ==
    /\ transport \in {"subprocess", "http", "unix"}
    /\ given \in SUBSET (IF transport = "http" THEN {"mock", "worker"} ELSE {"mock"})
    /\ IF "mock" \in given
       THEN /\ main = "serving" /\ watcher = "watching" /\ process = "up"
            /\ signal = "none" /\ stopping = FALSE /\ lastQuery = NoQuery
            /\ conn = [r \in Request |-> "none"] /\ recorded = << >>
       ELSE Fresh /\ process = "none"
    /\ worker = IF "worker" \in given THEN "ready" ELSE "none"
    /\ script = "mock"
    /\ rc = 0
    /\ tries = 0
    /\ mockPid = FALSE /\ workerPid = FALSE
    /\ selected = {} /\ report = {}
    /\ interrupted = "no"

\* A step of the script that touches neither server nor the runner.
Go(from, to) ==
    /\ script = from
    /\ script' = to
    /\ UNCHANGED <<vars, transport, given, worker, runner, interrupted>>

\* exit, or set -e: the EXIT trap runs.  A status of 1 is any but 0 and that of an
\* interrupt.
Quit(from, status) ==
    /\ Go(from, "kill_worker")
    /\ rc' = status
    /\ UNCHANGED <<tries, mockPid, workerPid>>

(***************************************************************************)
(* The servers are started, each from & to $!, and waited for              *)
(***************************************************************************)
UseGivenMock ==
    /\ "mock" \in given
    /\ Go("mock", "worker")
    /\ UNCHANGED <<rc, tries, mockPid, workerPid>>

\* SKIP_MOCK without a VGI_ODATA_TEST_URL to go with it.
NoTestURL == "mock" \in given /\ Quit("mock", 1)

BuildFails == "mock" \notin given /\ Quit("mock", 1)

StartMock ==
    /\ script = "mock"
    /\ "mock" \notin given
    /\ process' = "up"
    /\ script' = "mock_pid"
    /\ UNCHANGED <<main, watcher, signal, stopping, conn, lastQuery, recorded>>
    /\ UNCHANGED <<transport, given, rc, tries, mockPid, workerPid, worker, runner, interrupted>>

MockPid == /\ Go("mock_pid", "mock_wait")
           /\ mockPid' = TRUE
           /\ tries' = 0
           /\ UNCHANGED <<rc, workerPid>>

NeedsWorker == transport # "subprocess" /\ "worker" \notin given

NoWorker ==
    /\ ~NeedsWorker
    /\ Go("worker", "stage")
    /\ UNCHANGED <<rc, tries, mockPid, workerPid>>

StartWorker ==
    /\ script = "worker"
    /\ NeedsWorker
    /\ worker' = "starting"
    /\ script' = "worker_pid"
    /\ UNCHANGED <<vars, transport, given, rc, tries, mockPid, workerPid, runner, interrupted>>

WorkerPid == /\ Go("worker_pid", "worker_wait")
             /\ workerPid' = TRUE
             /\ tries' = 0
             /\ UNCHANGED <<rc, mockPid>>

\* One turn of a loop: it breaks, the script gives up on a server that has ended or
\* has had its turns, or it sleeps.  The wait for the mock does not look whether that
\* has ended.  The slip is to take what is there for a port.
AnyPort == TRUE
MockReady == Announced

Poll(from, ready, ended, to) ==
    \/ /\ ready
       /\ Go(from, to)
       /\ UNCHANGED <<rc, tries, mockPid, workerPid>>
    \/ ~ready /\ (ended \/ tries = MaxTries - 1) /\ Quit(from, 1)
    \/ /\ ~ready /\ ~ended /\ tries < MaxTries - 1
       /\ Go(from, from)
       /\ tries' = tries + 1
       /\ UNCHANGED <<rc, mockPid, workerPid>>

PollMock == Poll("mock_wait", MockReady, FALSE, "worker")

\* What a worker has printed stays to be read when it is lost; the socket that the
\* script looks for over unix may be gone with it.
WorkerSeen == worker \in {"ready", "lost"}
PollWorker == \/ Poll("worker_wait", WorkerSeen, worker = "ended", "stage")
              \/ transport = "unix" /\ worker = "lost" /\ Quit("worker_wait", 1)

(***************************************************************************)
(* The suite: each test that TEST_PATTERN matches makes its request by way *)
(* of the worker.  The runner passes none without its answer; it fails a   *)
(* test, or skips it if the error looks like the network's.                *)
(***************************************************************************)
Stage ==
    \/ /\ script = "stage"
       /\ script' = "suite"
       /\ selected' \in SUBSET Request
       /\ UNCHANGED <<vars, transport, given, rc, tries, mockPid, workerPid, worker, report,
                      interrupted>>
    \/ Quit("stage", 1)

WorkerServes == transport = "subprocess" \/ worker = "ready"

Test(r) == /\ script = "suite"
           /\ r \in selected
           /\ WorkerServes
           /\ Dial(r)
           /\ UNCHANGED scriptVars

Over(r) == \/ conn[r] \in {"answered", "refused", "dropped"}
           \/ conn[r] = "none" /\ ~WorkerServes

Verdicts(r) == {"failed", "skipped"} \cup (IF conn[r] = "answered" THEN {"passed"} ELSE {})

\* The runner ends when its tests are over, and may fail of its own.
RunnerEnds ==
    /\ script = "suite"
    /\ \A r \in selected : Over(r)
    /\ \E verdict \in [selected -> Outcome], own \in SUBSET {"failed"} :
          /\ \A r \in selected : verdict[r] \in Verdicts(r)
          /\ report' = {verdict[r] : r \in selected} \cup own
    /\ script' = "report"
    /\ UNCHANGED <<vars, transport, given, rc, tries, mockPid, workerPid, worker, selected,
                   interrupted>>

\* RUN_RC, and whether the log has "All tests were skipped", which is not said of no
\* tests; the slip is not to look.
RunnerFailed == "failed" \in report
NotLooked == FALSE
AllSkipped == report = {"skipped"}

ReadReport == Quit("report", IF RunnerFailed \/ AllSkipped THEN 1 ELSE 0)

(***************************************************************************)
(* cleanup, and what may happen to the script and the worker               *)
(***************************************************************************)
\* kill, then wait; for a server whose PID is set.  The slip is to end the mock
\* only if there is no worker.
OnlyOne == mockPid /\ ~workerPid
HasMock == mockPid

KillWorker ==
    /\ script = "kill_worker"
    /\ script' = IF workerPid THEN "wait_worker" ELSE "kill_mock"
    /\ worker' = IF workerPid /\ worker \in {"starting", "ready"} THEN "dying" ELSE worker
    /\ UNCHANGED <<vars, transport, given, rc, tries, mockPid, workerPid, runner, interrupted>>

WaitWorker ==
    /\ worker \in {"lost", "ended"}
    /\ Go("wait_worker", "kill_mock")
    /\ UNCHANGED <<rc, tries, mockPid, workerPid>>

KillMock ==
    /\ script = "kill_mock"
    /\ script' = IF HasMock THEN "wait_mock" ELSE "exited"
    /\ IF HasMock /\ process = "up" THEN Signalled ELSE UNCHANGED vars
    /\ UNCHANGED <<transport, given, rc, tries, mockPid, workerPid, worker, runner, interrupted>>

WaitMock ==
    /\ process # "up"
    /\ Go("wait_mock", "exited")
    /\ UNCHANGED <<rc, tries, mockPid, workerPid>>

Interrupt ==
    /\ script \notin InCleanup
    /\ script' = "kill_worker"
    /\ rc' = 130
    /\ interrupted' = IF script \in {"mock_pid", "worker_pid"} THEN "forking" ELSE "yes"
    /\ UNCHANGED <<vars, transport, given, tries, mockPid, workerPid, worker, runner>>

WorkerIs(from, to) ==
    /\ worker = from
    /\ worker' = to
    /\ UNCHANGED <<vars, transport, given, script, rc, tries, mockPid, workerPid, runner,
                   interrupted>>

WorkerFails == WorkerIs("starting", "ended") \/ WorkerIs("ready", "lost")
WorkerEnds == WorkerIs("dying", "ended")

Exited == script = "exited" /\ UNCHANGED allVars

Script == \/ UseGivenMock \/ NoTestURL \/ BuildFails \/ StartMock \/ MockPid \/ PollMock
          \/ NoWorker \/ StartWorker \/ WorkerPid \/ PollWorker
          \/ Stage \/ RunnerEnds \/ ReadReport \/ KillWorker \/ WaitWorker \/ KillMock \/ WaitMock

RunNext == \/ Script \/ Interrupt \/ Exited
           \/ WorkerIs("starting", "ready") \/ WorkerFails \/ WorkerEnds
           \/ \E r \in Request : Test(r)
           \/ (Goroutines \/ Handlers) /\ UNCHANGED scriptVars

\* The shell runs its commands; the runner makes the requests of its tests; a
\* worker that is killed ends.  Nothing says that a worker gets ready.
RunSpec ==
    /\ RunInit
    /\ [][RunNext]_allVars
    /\ Scheduled
    /\ WF_allVars(Script)
    /\ WF_allVars(WorkerEnds)
    /\ \A r \in Request : WF_allVars(Test(r))

(***************************************************************************)
(* Properties                                                              *)
(***************************************************************************)
\* When the script has exited, every server it started has ended and no other was
\* touched, whichever transport it ran and wherever it stopped: "All started
\* processes are trap-killed on exit".  Excepted is an interrupt that finds a server
\* started and its PID not yet noted.
OwnServersEnded ==
    (script = "exited" /\ interrupted # "forking") =>
        /\ IF "mock" \in given THEN process \in {"up", "fatal"} /\ signal = "none"
           ELSE process # "up"
        /\ "worker" \in given => worker # "ended"
        /\ "worker" \notin given => worker \in {"none", "lost", "ended"}

\* The script exits 0 only if it was not interrupted, got both servers, no test failed,
\* and one of those that the pattern matches, if it matches any, had its answer from
\* the mock and passed: a run that skipped every test is no pass, whichever server was
\* lost (run-integration.sh, "a fake pass"; cleanup, "Preserve the script's exit
\* status").  Nothing is claimed of a pattern that matches no test.
GreenMeansRan ==
    (script = "exited" /\ rc = 0) =>
        /\ interrupted = "no"
        /\ mockPid \/ "mock" \in given
        /\ workerPid \/ ~NeedsWorker
        /\ "failed" \notin report
        /\ selected # {} => /\ "passed" \in report
                            /\ \E r \in selected : conn[r] = "answered"

\* No test is refused by the mock or loses its answer for the way the script starts
\* and ends it; only an interrupted script ends a mock that has a test to answer, and
\* only a mock that has failed refuses one.
TestsReachMock ==
    (interrupted = "no" /\ process # "fatal") =>
        \A r \in Request : conn[r] \notin {"refused", "dropped"}

\* cleanup waits without a bound, and for a process alone that is about to end: the
\* worker once it was killed, the mock while its signal goroutine has the signal to
\* take or Shutdown was called and Serve will return (run-integration.sh, cleanup;
\* main.go, "a clean (exit 0) stop").
WaitsForTheDying ==
    /\ script = "wait_worker" => worker \in {"dying", "lost", "ended"}
    /\ script = "wait_mock" =>
          \/ process # "up"
          \/ signal = "sent" /\ watcher = "watching"
          \/ stopping /\ main \in {"spawned", "serving", "returned"}

\* The script exits, whether or not its servers start, stay up or fail, if the runner
\* ends: it waits for each server a bounded time, and in cleanup for those alone that
\* it has killed.
ScriptEnds == <>(script = "exited")
=============================================================================
