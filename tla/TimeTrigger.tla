----------------------------- MODULE TimeTrigger -----------------------------
(***************************************************************************)
(* pcl::TimeTrigger: one timer thread and the callers of start(), stop()   *)
(* and the destructor, synchronized by condition_mutex_ and condition_.    *)
(* No grabber calls setInterval(), which only notifies.  The timer keeps   *)
(* condition_mutex_ while callbacks_() runs, and only then across steps,   *)
(* so the mutex is free exactly when the timer is not "calling".           *)
(* Intervals are abstracted: a timed_wait ends at any moment.              *)
(***************************************************************************)
EXTENDS Naturals

VARIABLES
    running,   \* running_
    quit,      \* quit_
    timer      \* where the timer thread is in thread_function()

triggerVars == <<running, quit, timer>>

TimerPlaces == {"check", "lock", "waiting", "calling", "timedWaiting", "wakeup", "done"}

TriggerInit ==
    /\ running = FALSE
    /\ quit = FALSE
    /\ timer = "check"

MutexFree == timer # "calling"

(* condition_.notify_all(): who is not waiting at that moment misses it. *)
NotifyAll ==
    timer' = IF timer \in {"waiting", "timedWaiting"} THEN "wakeup" ELSE timer

Start ==
    /\ ~quit /\ MutexFree
    /\ running' = TRUE
    /\ \/ ~running /\ NotifyAll
       \/ running /\ UNCHANGED timer
    /\ UNCHANGED quit

Stop ==
    /\ ~quit /\ MutexFree
    /\ running' = FALSE
    /\ \/ running /\ NotifyAll
       \/ ~running /\ UNCHANGED timer
    /\ UNCHANGED quit

(* Mutant: the destructor does not notify. *)
DestroySilent ==
    /\ ~quit /\ MutexFree
    /\ quit' = TRUE
    /\ UNCHANGED <<running, timer>>

(* The destructor up to join(); nobody may use the trigger from here on.   *)
Destroy ==
    /\ ~quit /\ MutexFree
    /\ quit' = TRUE
    /\ NotifyAll
    /\ UNCHANGED running

-----------------------------------------------------------------------------
(* thread_function(): quit_ is read before the mutex is taken.             *)

TimerGoto(from, to) == timer = from /\ timer' = to

CheckQuit ==
    /\ \/ quit /\ TimerGoto("check", "done")
       \/ ~quit /\ TimerGoto("check", "lock")
    /\ UNCHANGED <<running, quit>>

WaitForStart ==
    /\ ~running
    /\ TimerGoto("lock", "waiting")
    /\ UNCHANGED <<running, quit>>

BeginCallbacks ==
    /\ running
    /\ TimerGoto("lock", "calling")
    /\ UNCHANGED <<running, quit>>

EndCallbacks ==
    /\ TimerGoto("calling", "timedWaiting")
    /\ UNCHANGED <<running, quit>>

Timeout ==
    /\ TimerGoto("timedWaiting", "wakeup")
    /\ UNCHANGED <<running, quit>>

SpuriousWakeup ==
    /\ TimerGoto("waiting", "wakeup")
    /\ UNCHANGED <<running, quit>>

(* The wait returns with the mutex, which the end of the scope gives back. *)
LeaveWait ==
    /\ TimerGoto("wakeup", "check")
    /\ UNCHANGED <<running, quit>>

-----------------------------------------------------------------------------
(* Once stop() has returned no callback is running, and none begins before *)
(* the next start(): both flags and the callbacks are under one mutex.     *)
CallsOnlyWhileRunning == timer = "calling" => running

(* The wait for start() ends "when start is called or destructor is        *)
(* called", so the destructor's join() comes back, unless it ran between    *)
(* the test of quit_ and the lock: then the notification was lost.         *)
DestructorReturns == [](quit => timer # "lock") => (quit ~> timer = "done")
=============================================================================
