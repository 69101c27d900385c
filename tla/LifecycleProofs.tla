-------------------------- MODULE LifecycleProofs --------------------------
(* The order of shutdown, for any number of requests and panics. *)
EXTENDS Lifecycle, TLAPS

(* Leaving the worker's loop keeps its state well formed. *)
LEMMA LeaveLoopType ==
    ASSUME TypeOK, NEW next \in {"asleep", "exited"}, LeaveLoop(next)
    PROVE  /\ process' \in {process, "panicked"}
           /\ worker' \in {worker, next}
           /\ done' \in BOOLEAN /\ tick' \in BOOLEAN
BY DEF TypeOK, LeaveLoop

(* Every step keeps the types. *)
LEMMA TypeStep == TypeOK /\ [Next]_vars => TypeOK'
<1> SUFFICES ASSUME TypeOK, [Next]_vars PROVE TypeOK'
  OBVIOUS
<1> USE DEF TypeOK, Sweeping
<1>1. CASE TickerFires BY <1>1 DEF TickerFires
<1>2. CASE SelectTick BY <1>2 DEF SelectTick
<1>3. CASE SweepStep BY <1>3 DEF SweepStep
<1>4. CASE SelectStop BY <1>4, LeaveLoopType DEF SelectStop
<1>5. CASE Restart BY <1>5 DEF Restart
<1>6. CASE SweepPanics
  <2>1. panics' \in 0..MaxPanics BY <1>6, PanicAssumption DEF SweepPanics
  <2> QED BY <1>6, <2>1, LeaveLoopType DEF SweepPanics
<1>7. CASE BeginStop BY <1>7 DEF BeginStop
<1>8. CASE StopReturns BY <1>8 DEF StopReturns
<1>9. CASE ShutdownReturns BY <1>9 DEF ShutdownReturns
<1>10. CASE CloseDB BY <1>10 DEF CloseDB
<1>11. CASE Exit BY <1>11 DEF Exit
<1>12. CASE Signal BY <1>12 DEF Signal
<1>13. CASE ServeFails BY <1>13 DEF ServeFails
<1>14. ASSUME NEW r \in Requests, Accept(r) \/ Finish(r) PROVE TypeOK'
  BY <1>14 DEF Accept, Finish
<1>15. CASE UNCHANGED vars BY <1>15 DEF vars
<1> QED BY <1>1, <1>2, <1>3, <1>4, <1>5, <1>6, <1>7, <1>8, <1>9, <1>10, <1>11, <1>12, <1>13, <1>14, <1>15
        DEF Next, Worker, Main

(* A worker that has not panicked closes done by its return only. *)
LEMMA DoneStep == LifecycleInv /\ [Next]_vars => DoneInv'
<1> SUFFICES ASSUME LifecycleInv, [Next]_vars PROVE DoneInv'
  OBVIOUS
<1> USE DEF LifecycleInv, TypeOK, DoneInv, Sweeping
<1>1. CASE TickerFires BY <1>1 DEF TickerFires
<1>2. CASE SelectTick BY <1>2 DEF SelectTick
<1>3. CASE SweepStep BY <1>3 DEF SweepStep
<1>4. CASE SelectStop BY <1>4 DEF SelectStop, LeaveLoop
<1>5. CASE Restart BY <1>5 DEF Restart
<1>6. CASE SweepPanics
  <2>1. panics' # 0 BY <1>6, PanicAssumption DEF SweepPanics
  <2> QED BY <1>6, <2>1 DEF SweepPanics, LeaveLoop
<1>7. CASE BeginStop BY <1>7 DEF BeginStop
<1>8. CASE StopReturns BY <1>8 DEF StopReturns
<1>9. CASE ShutdownReturns BY <1>9 DEF ShutdownReturns
<1>10. CASE CloseDB BY <1>10 DEF CloseDB
<1>11. CASE Exit BY <1>11 DEF Exit
<1>12. CASE Signal BY <1>12 DEF Signal
<1>13. CASE ServeFails BY <1>13 DEF ServeFails
<1>14. ASSUME NEW r \in Requests, Accept(r) \/ Finish(r) PROVE DoneInv'
  BY <1>14 DEF Accept, Finish
<1>15. CASE UNCHANGED vars BY <1>15 DEF vars
<1> QED BY <1>1, <1>2, <1>3, <1>4, <1>5, <1>6, <1>7, <1>8, <1>9, <1>10, <1>11, <1>12, <1>13, <1>14, <1>15
        DEF Next, Worker, Main

(* Nothing but main moves the shutdown on, and no request comes in late. *)
LEMMA ShutdownStep == LifecycleInv /\ [Next]_vars => ShutdownInv'
<1> SUFFICES ASSUME LifecycleInv, [Next]_vars PROVE ShutdownInv'
  OBVIOUS
<1> USE DEF LifecycleInv, TypeOK, ShutdownInv, Active, Up
<1>1. CASE TickerFires BY <1>1 DEF TickerFires
<1>2. CASE SelectTick BY <1>2 DEF SelectTick
<1>3. CASE SweepStep BY <1>3 DEF SweepStep
<1>4. CASE SelectStop BY <1>4 DEF SelectStop, LeaveLoop
<1>5. CASE Restart BY <1>5 DEF Restart
<1>6. CASE SweepPanics BY <1>6 DEF SweepPanics, LeaveLoop
<1>7. CASE BeginStop BY <1>7 DEF BeginStop
<1>8. CASE StopReturns BY <1>8 DEF StopReturns
<1>9. CASE ShutdownReturns BY <1>9 DEF ShutdownReturns
<1>10. CASE CloseDB BY <1>10 DEF CloseDB
<1>11. CASE Exit BY <1>11 DEF Exit
<1>12. CASE Signal BY <1>12 DEF Signal
<1>13. CASE ServeFails BY <1>13 DEF ServeFails
<1>14. ASSUME NEW r \in Requests, Accept(r) PROVE ShutdownInv' BY <1>14 DEF Accept
<1>15. ASSUME NEW r \in Requests, Finish(r) PROVE ShutdownInv' BY <1>15 DEF Finish
<1>16. CASE UNCHANGED vars BY <1>16 DEF vars
<1> QED BY <1>1, <1>2, <1>3, <1>4, <1>5, <1>6, <1>7, <1>8, <1>9, <1>10, <1>11, <1>12, <1>13, <1>14, <1>15, <1>16
        DEF Next, Worker, Main

(* The invariant behind the theorems below is one. *)
THEOREM LifecycleSafe == Spec => []LifecycleInv
<1>1. Init => LifecycleInv
  <2> SUFFICES ASSUME Init PROVE LifecycleInv
    OBVIOUS
  <2>1. panics \in 0..MaxPanics BY PanicAssumption DEF Init
  <2>2. TypeOK BY <2>1 DEF Init, TypeOK
  <2>3. DoneInv /\ ShutdownInv BY DEF Init, DoneInv, ShutdownInv
  <2> QED BY <2>2, <2>3 DEF LifecycleInv
<1>2. LifecycleInv /\ [Next]_vars => LifecycleInv'
  BY TypeStep, DoneStep, ShutdownStep DEF LifecycleInv
<1> QED BY <1>1, <1>2, PTL DEF Spec

(* Types of the lifecycle: main, the worker, requests and their channels.  *)
THEOREM LifecycleTypes == Spec => []TypeOK
<1>1. LifecycleInv => TypeOK BY DEF LifecycleInv
<1> QED BY <1>1, LifecycleSafe, PTL

(* Cleanup.Stop returns to main only after the worker's last sweep, unless *)
(* the worker has panicked.                                                *)
THEOREM LifecycleStops == Spec => []StopMeansStopped
<1>1. LifecycleInv => StopMeansStopped BY DEF LifecycleInv, DoneInv, StopMeansStopped
<1> QED BY <1>1, LifecycleSafe, PTL

(* The database is closed under nobody: neither under a sweep of a worker  *)
(* that has not panicked, nor under a request that the drain waited for.   *)
THEOREM LifecycleDB == Spec => []NoWorkOnClosedDB
<1>1. LifecycleInv => NoWorkOnClosedDB
  <2> SUFFICES ASSUME LifecycleInv PROVE NoWorkOnClosedDB
    OBVIOUS
  <2>1. db = "closed" /\ worker \in Sweeping => panics > 0
    BY DEF LifecycleInv, TypeOK, DoneInv, ShutdownInv, Sweeping
  <2>2. db = "closed" \/ process = "exited" => \A r \in Requests : Active(r) => timedOut
    BY DEF LifecycleInv, ShutdownInv
  <2> QED BY <2>1, <2>2 DEF NoWorkOnClosedDB
<1> QED BY <1>1, LifecycleSafe, PTL

(* The drain waits for requests that were there when it began, and for no  *)
(* others: only Accept makes a request active, and it needs a listener.    *)
THEOREM LifecycleDrains == Spec => DrainOnlyShrinks
<1> DEFINE Drained == \A r \in Requests :
                  main \in {"draining", "closing", "returned"} /\ Active(r)' => Active(r)
<1>1. LifecycleInv /\ [Next]_vars => [Drained]_vars
  <2> SUFFICES ASSUME LifecycleInv, Next, main \in {"draining", "closing", "returned"},
                      NEW r \in Requests, Active(r)'
               PROVE  Active(r)
    OBVIOUS
  <2>1. ~listening BY DEF LifecycleInv, ShutdownInv
  <2>2. ASSUME NEW q \in Requests, Accept(q) PROVE FALSE BY <2>1, <2>2 DEF Accept
  <2>3. ASSUME NEW q \in Requests, Finish(q) PROVE Active(r)
    BY <2>3 DEF Finish, Active, LifecycleInv, TypeOK
  <2>4. CASE serving' = serving BY <2>4 DEF Active
  <2> QED BY <2>2, <2>3, <2>4
         DEF Next, Worker, Main, TickerFires, SelectTick, SweepStep, SelectStop, Restart, SweepPanics,
             BeginStop, StopReturns, ShutdownReturns, CloseDB, Exit, Signal, ServeFails
<1> QED BY <1>1, LifecycleSafe, PTL DEF Spec, DrainOnlyShrinks
=============================================================================
