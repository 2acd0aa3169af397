------------------------------- MODULE Recver -------------------------------
(***************************************************************************)
(* smfcpp::RecverBase and smfcpp::Recver: a listener thread that calls a   *)
(* check function until it reports an event, raises m_ready, and waits on  *)
(* a condition variable until the callback of the event is over; and the   *)
(* executor's side, which loads m_ready, runs the callback, clears m_ready *)
(* and notifies.                                                           *)
(*                                                                         *)
(* One step of this module is one access to shared state: a load or store  *)
(* of m_ready, the evaluation of the wait predicate under m_mutex, the     *)
(* release of m_mutex by the wait, one notify_one.  The executor's side    *)
(* does not take m_mutex, so m_mutex is held exactly by a listener that    *)
(* stands between its predicate and its wait ("block").                    *)
(***************************************************************************)
CONSTANTS
  Recvers,      \* the recvers of the process
  Listeners,    \* names of the threads that start() may spawn for one recver
  Workers,      \* the executor threads that may run callbacks
  UninitReady   \* the values the uninitialised m_ready may start with

ASSUME UninitReadyAssumption == UninitReady \in SUBSET BOOLEAN

VARIABLES
  r_ready,      \* [Recvers -> BOOLEAN], the atomic m_ready
  listener,     \* [Recvers -> [Listeners -> ListenerPC]]
  exec,         \* [Recvers -> [Workers -> ExecPC]]
  fresh         \* history: the listener raised m_ready and no callback has
                \* been taken for it since

vars == <<r_ready, listener, exec, fresh>>

ListenerPC == {"none",      \* not spawned
               "test",      \* about to lock m_mutex and evaluate the predicate
               "block",     \* the predicate was false: holds m_mutex, will wait
               "blocked",   \* inside m_condv.wait
               "check",     \* inside m_check_func
               "store"}     \* m_check_func returned true, m_ready not yet set

ExecPC == {"out",           \* not executing this recver
           "callback",      \* loaded m_ready = true; in m_callback
           "notify"}        \* cleared m_ready, about to notify_one

(* m_ready is a flag and every thread is at one of its points.             *)
TypeOK ==
  /\ r_ready \in [Recvers -> BOOLEAN]
  /\ listener \in [Recvers -> [Listeners -> ListenerPC]]
  /\ exec \in [Recvers -> [Workers -> ExecPC]]
  /\ fresh \in [Recvers -> BOOLEAN]

(* The constructor leaves m_ready, an atomic<bool> without initialiser, to *)
(* whatever the memory held.                                               *)
Init ==
  /\ r_ready \in [Recvers -> UninitReady]
  /\ listener = [r \in Recvers |-> [k \in Listeners |-> "none"]]
  /\ exec = [r \in Recvers |-> [w \in Workers |-> "out"]]
  /\ fresh = [r \in Recvers |-> FALSE]

GoListener(r, k, from, to) ==
  /\ listener[r][k] = from
  /\ listener' = [listener EXCEPT ![r][k] = to]

GoExec(r, w, from, to) ==
  /\ exec[r][w] = from
  /\ exec' = [exec EXCEPT ![r][w] = to]

-----------------------------------------------------------------------------
(* The listener thread.                                                    *)

(* start(): a detached thread enters listen().                             *)
Start(r, k) ==
  /\ GoListener(r, k, "none", "test")
  /\ UNCHANGED <<r_ready, exec, fresh>>

(* Mutant of Test: listen() calls the check function without waiting.      *)
TestWithoutWait(r, k) ==
  /\ GoListener(r, k, "test", "check")
  /\ UNCHANGED <<r_ready, exec, fresh>>

(* The predicate of the wait, evaluated with m_mutex held.                 *)
Test(r, k) ==
  /\ \A other \in Listeners : listener[r][other] # "block"
  /\ GoListener(r, k, "test", IF r_ready[r] THEN "block" ELSE "check")
  /\ UNCHANGED <<r_ready, exec, fresh>>

(* The wait releases m_mutex and joins the waiters, atomically.            *)
Block(r, k) ==
  /\ GoListener(r, k, "block", "blocked")
  /\ UNCHANGED <<r_ready, exec, fresh>>

(* A condition variable may wake without a notification.                   *)
SpuriousWake(r, k) ==
  /\ GoListener(r, k, "blocked", "test")
  /\ UNCHANGED <<r_ready, exec, fresh>>

(* m_check_func returns; nothing bounds the time it takes.                 *)
Check(r, k) ==
  /\ \E event \in BOOLEAN :
       GoListener(r, k, "check", IF event THEN "store" ELSE "test")
  /\ UNCHANGED <<r_ready, exec, fresh>>

Store(r, k) ==
  /\ GoListener(r, k, "store", "test")
  /\ r_ready' = [r_ready EXCEPT ![r] = TRUE]
  /\ fresh' = [fresh EXCEPT ![r] = TRUE]
  /\ UNCHANGED exec

-----------------------------------------------------------------------------
(* The executor's side.                                                    *)

(* Mutant of Take: get_ready() claims the event as a timer's does.         *)
TakeByExchange(r, w) ==
  /\ r_ready[r]
  /\ GoExec(r, w, "out", "callback")
  /\ r_ready' = [r_ready EXCEPT ![r] = FALSE]
  /\ fresh' = [fresh EXCEPT ![r] = FALSE]
  /\ UNCHANGED listener

(* get_ready() loads m_ready without claiming the event, and the executor  *)
(* goes on to m_callback.                                                  *)
Take(r, w) ==
  /\ r_ready[r]
  /\ GoExec(r, w, "out", "callback")
  /\ fresh' = [fresh EXCEPT ![r] = FALSE]
  /\ UNCHANGED <<r_ready, listener>>

(* Mutant of Clear: m_ready stays raised after the callback.               *)
ClearNothing(r, w) ==
  /\ GoExec(r, w, "callback", "notify")
  /\ UNCHANGED <<r_ready, listener, fresh>>

(* m_callback returned; m_ready is cleared without m_mutex.                *)
Clear(r, w) ==
  /\ GoExec(r, w, "callback", "notify")
  /\ r_ready' = [r_ready EXCEPT ![r] = FALSE]
  /\ UNCHANGED <<listener, fresh>>

Waiters(r) == {k \in Listeners : listener[r][k] = "blocked"}

(* Mutant of Notify: execute_callback() does not notify.                   *)
NotifyNobody(r, w) ==
  /\ GoExec(r, w, "notify", "out")
  /\ UNCHANGED <<r_ready, listener, fresh>>

(* notify_one wakes one of the waiters, and nobody if there is none.       *)
Notify(r, w) ==
  /\ GoExec(r, w, "notify", "out")
  /\ \/ Waiters(r) = {} /\ UNCHANGED listener
     \/ \E k \in Waiters(r) : GoListener(r, k, "blocked", "test")
  /\ UNCHANGED <<r_ready, fresh>>

-----------------------------------------------------------------------------
ListenerStep(r, k) ==
  Test(r, k) \/ Block(r, k) \/ SpuriousWake(r, k) \/ Check(r, k) \/ Store(r, k)

WorkerStep(r, w) == Take(r, w) \/ Clear(r, w) \/ Notify(r, w)

Next ==
  \E r \in Recvers :
    \/ \E k \in Listeners : Start(r, k) \/ ListenerStep(r, k)
    \/ \E w \in Workers : WorkerStep(r, w)

Spec == Init /\ [][Next]_vars

(* Every thread that can run does, and a callback that began ends.  The    *)
(* check function need not return, the condition variable need not wake    *)
(* spuriously, and whether an executor ever turns to a ready recver is for *)
(* the executor to say (module Executor).                                  *)
Fairness ==
  \A r \in Recvers :
    /\ \A k \in Listeners :
         /\ WF_vars(Test(r, k))
         /\ WF_vars(Block(r, k))
         /\ WF_vars(Store(r, k))
    /\ \A w \in Workers : WF_vars(Clear(r, w)) /\ WF_vars(Notify(r, w))

FairSpec == Spec /\ Fairness

-----------------------------------------------------------------------------
Detecting(r) == \E k \in Listeners : listener[r][k] \in {"check", "store"}

Handling(r) == \E w \in Workers : exec[r][w] = "callback"

(* The check function of a recver never runs beside its callback: between  *)
(* listen() and execute_callback() only m_ready and the wait keep the two  *)
(* apart, and the callbacks of the tcp server read the fd set that its     *)
(* check function writes.                                                  *)
CheckCallbackExclusion == \A r \in Recvers : ~(Detecting(r) /\ Handling(r))

(* An event that the check function reported is not erased before it was   *)
(* taken: m_ready, which execute_callback() clears without looking, stays  *)
(* raised from the listener's store to the executor's next load.           *)
NoEventErased == \A r \in Recvers : fresh[r] => r_ready[r]

(* A listener that already waits when m_ready has been cleared is woken by *)
(* the notify_one that follows and goes on to the check function.          *)
WaitingListenerResumes ==
  \A r \in Recvers, w \in Workers :
    (exec[r][w] = "notify" /\ ~r_ready[r] /\ Waiters(r) = Listeners)
      ~> \E k \in Listeners : listener[r][k] = "check"

(* After a callback the recver goes back to looking for the next event,    *)
(* as spin() promises to repeat ("execute it, and then repeat").           *)
DetectionResumes ==
  \A r \in Recvers :
    Handling(r) ~> \E k \in Listeners : listener[r][k] = "check"

-----------------------------------------------------------------------------
(* With one listener and one worker a recver implements an EventChannel.   *)
Phase(r) ==
  IF Handling(r) THEN "handling"
  ELSE IF r_ready[r] THEN "event"
  ELSE IF Detecting(r) THEN "watching"
  ELSE "rest"

(* Only a channel whose m_ready is born raised has an event to begin with. *)
Channel == INSTANCE EventChannel WITH
             phase <- [r \in Recvers |-> Phase(r)],
             Initially <- {IF b THEN "event" ELSE "rest" : b \in UninitReady}

(* Detecting and handling alternate, every event is handled once, and      *)
(* nothing is handled that was not detected, but for the one event that an *)
(* uninitialised m_ready may pretend.                                      *)
ImplementsChannel == Channel!Spec

(* The same facts as an inductive invariant: whatever a listener does      *)
(* between predicate and store, m_ready is down, and it is up for the      *)
(* whole of a callback; an event that was reported and not taken is up.    *)
DownWhileDetecting == \A r \in Recvers : Detecting(r) => ~r_ready[r]
UpWhileHandling == \A r \in Recvers : Handling(r) => r_ready[r]
FreshNotHandled == \A r \in Recvers : fresh[r] => r_ready[r] /\ ~Handling(r)

(* The program the repository runs: every executor is given its node once, *)
(* and is a SingleThreadedExecutor.                                        *)
OneListenerOneWorker ==
  /\ \A k, l \in Listeners : k = l
  /\ \A v, w \in Workers : v = w

(* The inductive invariant.                                                *)
IInv == TypeOK /\ DownWhileDetecting /\ UpWhileHandling /\ FreshNotHandled
=============================================================================
