----------------------------- MODULE Lifecycle -----------------------------
(***************************************************************************)
(* The life of the pbin process: main serves requests until a signal, then *)
(* stops the cleanup worker, drains the HTTP server for at most ten        *)
(* seconds, closes the database and returns.  The worker is a goroutine    *)
(* that sweeps on every tick; it recovers from one panic by running its    *)
(* loop again.  Go's channels stop and done are closed at most once: a     *)
(* second close is a panic.                                                *)
(***************************************************************************)
EXTENDS Naturals

CONSTANTS Requests,   \* HTTP requests
          MaxPanics   \* bound: panics that may hit a sweep

ASSUME PanicAssumption == MaxPanics \in Nat

VARIABLES
    process,   \* "up", or how it ended
    main,      \* where the main goroutine is
    signal,    \* a SIGTERM or SIGINT has been delivered to quit
    stop,      \* the worker's channel stop is closed
    done,      \* the worker's channel done is closed
    worker,    \* where the worker goroutine is
    tick,      \* the ticker's channel holds a tick
    panics,    \* panics so far
    listening, \* the server accepts requests
    serving,   \* where each request is
    timedOut,  \* Shutdown gave up waiting for requests
    db         \* the database handles

vars == <<process, main, signal, stop, done, worker, tick, panics,
          listening, serving, timedOut, db>>

Sweeping == {"files", "buckets", "pastes"}

TypeOK ==
    /\ process \in {"up", "exited", "failed", "panicked"}
    /\ main \in {"serving", "stopping", "draining", "closing", "returned"}
    /\ worker \in Sweeping \cup {"select", "asleep", "exited"}
    /\ {signal, stop, done, tick, listening, timedOut} \subseteq BOOLEAN
    /\ panics \in 0..MaxPanics
    /\ serving \in [Requests -> {"new", "active", "finished"}]
    /\ db \in {"open", "closed"}

(* Wiring is done: the worker is started and the server listens. *)
Init ==
    /\ process = "up"
    /\ main = "serving"
    /\ worker = "select"
    /\ signal = FALSE /\ stop = FALSE /\ done = FALSE /\ tick = FALSE
    /\ panics = 0
    /\ listening = TRUE
    /\ serving = [r \in Requests |-> "new"]
    /\ timedOut = FALSE
    /\ db = "open"

Up == process = "up"

Active(r) == serving[r] = "active"

-----------------------------------------------------------------------------
(* The worker *)

(* The ticker's channel has room for one tick; the ticker lives as long as *)
(* a run of the loop.                                                      *)
TickerFires ==
    /\ Up /\ worker \notin {"asleep", "exited"}
    /\ ~tick
    /\ tick' = TRUE
    /\ UNCHANGED <<process, main, signal, stop, done, worker, panics,
                   listening, serving, timedOut, db>>

(* select takes any of the ready cases. *)
SelectTick ==
    /\ Up /\ worker = "select" /\ tick
    /\ tick' = FALSE
    /\ worker' = "files"
    /\ UNCHANGED <<process, main, signal, stop, done, panics,
                   listening, serving, timedOut, db>>

SweepStep ==
    /\ Up /\ worker \in Sweeping
    /\ worker' = CASE worker = "files" -> "buckets"
                   [] worker = "buckets" -> "pastes"
                   [] worker = "pastes" -> "select"
    /\ UNCHANGED <<process, main, signal, stop, done, tick, panics,
                   listening, serving, timedOut, db>>

(* Mutant: the loop forgets to close done. *)
LeaveLoopSilently(next) ==
    /\ worker' = next
    /\ tick' = FALSE
    /\ UNCHANGED <<process, done>>

(* Mutant: nothing recovers from a panic. *)
LeaveLoopForGood(next) ==
    /\ process' = IF done \/ next = "asleep" THEN "panicked" ELSE process
    /\ done' = TRUE
    /\ worker' = next
    /\ tick' = FALSE

(* Leaving the loop runs its deferred close(done): on a return and on a    *)
(* panic alike.  Start's deferred function recovers from a panic of the    *)
(* first run only; closing done again is a panic nothing recovers from.    *)
LeaveLoop(next) ==
    /\ IF done
       THEN process' = "panicked" /\ UNCHANGED <<done, worker>>
       ELSE process' = process /\ done' = TRUE /\ worker' = next
    /\ tick' = FALSE

SelectStop ==
    /\ Up /\ worker = "select" /\ stop
    /\ LeaveLoop("exited")
    /\ UNCHANGED <<main, signal, stop, panics, listening, serving, timedOut, db>>

SweepPanics ==
    /\ Up /\ worker \in Sweeping
    /\ panics < MaxPanics
    /\ panics' = panics + 1
    /\ LeaveLoop("asleep")
    /\ UNCHANGED <<main, signal, stop, listening, serving, timedOut, db>>

(* After the five seconds the deferred function runs the loop again. *)
Restart ==
    /\ Up /\ worker = "asleep"
    /\ worker' = "select"
    /\ UNCHANGED <<process, main, signal, stop, done, tick, panics,
                   listening, serving, timedOut, db>>

-----------------------------------------------------------------------------
(* Requests *)

(* A connection is accepted, or one that was idle gets its next request.   *)
Accept(r) ==
    /\ Up /\ listening
    /\ serving[r] = "new"
    /\ serving' = [serving EXCEPT ![r] = "active"]
    /\ UNCHANGED <<process, main, signal, stop, done, worker, tick, panics,
                   listening, timedOut, db>>

Finish(r) ==
    /\ Up /\ Active(r)
    /\ serving' = [serving EXCEPT ![r] = "finished"]
    /\ UNCHANGED <<process, main, signal, stop, done, worker, tick, panics,
                   listening, timedOut, db>>

(* ListenAndServe fails: os.Exit runs no deferred function. *)
ServeFails ==
    /\ Up /\ listening
    /\ process' = "failed"
    /\ UNCHANGED <<main, signal, stop, done, worker, tick, panics,
                   listening, serving, timedOut, db>>

-----------------------------------------------------------------------------
(* main *)

Signal ==
    /\ Up /\ ~signal
    /\ signal' = TRUE
    /\ UNCHANGED <<process, main, stop, done, worker, tick, panics,
                   listening, serving, timedOut, db>>

BeginStop ==
    /\ Up /\ main = "serving" /\ signal
    /\ stop' = TRUE
    /\ main' = "stopping"
    /\ UNCHANGED <<process, signal, done, worker, tick, panics,
                   listening, serving, timedOut, db>>

(* Mutant: Stop does not wait for done. *)
StopReturnsEarly ==
    /\ Up /\ main = "stopping"
    /\ main' = "draining"
    /\ listening' = FALSE
    /\ UNCHANGED <<process, signal, stop, done, worker, tick, panics,
                   serving, timedOut, db>>

(* Mutant: main waits for the requests without closing the listener. *)
StopReturnsListening ==
    /\ Up /\ main = "stopping" /\ done
    /\ main' = "draining"
    /\ UNCHANGED <<process, signal, stop, done, worker, tick, panics,
                   listening, serving, timedOut, db>>

(* Stop returns once done is closed; Shutdown then stops listening. *)
StopReturns ==
    /\ Up /\ main = "stopping" /\ done
    /\ main' = "draining"
    /\ listening' = FALSE
    /\ UNCHANGED <<process, signal, stop, done, worker, tick, panics,
                   serving, timedOut, db>>

ShutdownReturns ==
    /\ Up /\ main = "draining"
    /\ main' = "closing"
    /\ timedOut' = (\E r \in Requests : Active(r))
    /\ UNCHANGED <<process, signal, stop, done, worker, tick, panics,
                   listening, serving, db>>

(* Mutant: the database is closed before the server is drained. *)
CloseDBFirst ==
    /\ Up /\ main \in {"draining", "closing"}
    /\ db' = "closed"
    /\ main' = "returned"
    /\ UNCHANGED <<process, signal, stop, done, worker, tick, panics,
                   listening, serving, timedOut>>

CloseDB ==
    /\ Up /\ main = "closing"
    /\ db' = "closed"
    /\ main' = "returned"
    /\ UNCHANGED <<process, signal, stop, done, worker, tick, panics,
                   listening, serving, timedOut>>

Exit ==
    /\ Up /\ main = "returned"
    /\ process' = "exited"
    /\ UNCHANGED <<main, signal, stop, done, worker, tick, panics,
                   listening, serving, timedOut, db>>

Worker == TickerFires \/ SelectTick \/ SweepStep \/ SelectStop \/ Restart
Main   == BeginStop \/ StopReturns \/ ShutdownReturns \/ CloseDB \/ Exit

Next == \/ Worker \/ SweepPanics
        \/ Main \/ Signal \/ ServeFails
        \/ \E r \in Requests : Accept(r) \/ Finish(r)

Spec == Init /\ [][Next]_vars

(* Both goroutines are scheduled, the drain ends by its deadline at the    *)
(* latest, and a select that keeps finding stop ready takes it some time:  *)
(* Go chooses among ready cases at random.  Requests may hang.             *)
Fairness == /\ WF_vars(TickerFires)
            /\ WF_vars(SelectTick)
            /\ WF_vars(SweepStep)
            /\ WF_vars(Restart)
            /\ SF_vars(SelectStop)
            /\ WF_vars(Main)

FairSpec == Spec /\ Fairness

-----------------------------------------------------------------------------
(* Properties *)

(* When Stop has returned the worker has acknowledged: it is not sweeping, *)
(* and it will not sweep again, unless it has panicked before: a panic     *)
(* closes done, and Stop then returns whatever the restarted worker does.  *)
StopMeansStopped ==
    panics = 0 /\ main \in {"draining", "closing", "returned"} => worker = "exited"

(* Nothing uses the database after main has closed it, and no request is   *)
(* cut off by the exit, except requests that were still active when        *)
(* Shutdown's deadline passed, and sweeps of a worker that had panicked.   *)
NoWorkOnClosedDB ==
    /\ Up /\ db = "closed" /\ worker \in Sweeping => panics > 0
    /\ (Up /\ db = "closed") \/ process = "exited" => \A r \in Requests : Active(r) => timedOut

(* Once Shutdown has begun, requests only come to their end.  Whoever      *)
(* loses the database to the ten seconds' deadline was being served when   *)
(* the drain began, and nobody comes in after main has given up waiting.   *)
DrainOnlyShrinks ==
    [][\A r \in Requests :
          main \in {"draining", "closing", "returned"} /\ Active(r)' => Active(r)]_vars

(* A signal always leads to the end of the process, whatever requests and  *)
(* sweeps are doing.                                                       *)
ShutdownCompletes == signal ~> ~Up

(* The first panic does not end the process, and the worker sweeps again   *)
(* after it, unless it is stopped or main ends for another reason.         *)
SweepsAgain ==
    (panics = 1) ~> \/ worker = "files" \/ stop
                    \/ panics > 1 \/ process \in {"failed", "exited"}

(* No panic of a sweep ends the process.                                   *)
PanicsSurvived == process # "panicked"

-----------------------------------------------------------------------------
(* Why StopMeansStopped, NoWorkOnClosedDB and DrainOnlyShrinks hold: the   *)
(* inductive invariant of their proofs.                                    *)

(* done is closed by the worker's end or by a panic. *)
DoneInv ==
    /\ done /\ panics = 0 => worker = "exited"
    /\ main \in {"draining", "closing", "returned"} => done

(* Main closes the listener, drains, and closes the database, in this      *)
(* order; after the drain no request becomes active.                       *)
ShutdownInv ==
    /\ main \in {"draining", "closing", "returned"} => ~listening
    /\ main \in {"closing", "returned"} => \A r \in Requests : Active(r) => timedOut
    /\ db = "closed" => main = "returned"
    /\ process = "exited" => main = "returned"

LifecycleInv == TypeOK /\ DoneInv /\ ShutdownInv
=============================================================================
