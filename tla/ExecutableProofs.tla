-------------------------- MODULE ExecutableProofs --------------------------
(***************************************************************************)
(* Proofs about the two kinds of executables.                              *)
(*                                                                         *)
(* Recver, for any sets of recvers, listeners and workers: its types, and, *)
(* with one worker and while no recver is started twice, the exclusion of  *)
(* check function and callback, that no event is erased, and that a recver *)
(* implements EventChannel.                                                *)
(*                                                                         *)
(* Timer, for any sets of timers and tickers: its types.                   *)
(***************************************************************************)
EXTENDS Recver, Timer, TLAPS

(* A thread that moves keeps the types of the thread states.               *)
LEMMA GoListenerType ==
  ASSUME TypeOK, NEW r \in Recvers, NEW k \in Listeners,
         NEW from, NEW to \in ListenerPC, GoListener(r, k, from, to)
  PROVE  listener' \in [Recvers -> [Listeners -> ListenerPC]]
BY DEF TypeOK, GoListener

(* The same for the workers.                                               *)
LEMMA GoExecType ==
  ASSUME TypeOK, NEW r \in Recvers, NEW w \in Workers,
         NEW from, NEW to \in ExecPC, GoExec(r, w, from, to)
  PROVE  exec' \in [Recvers -> [Workers -> ExecPC]]
BY DEF TypeOK, GoExec

(* Every step keeps the types.                                             *)
LEMMA TypeStep == TypeOK /\ [Next]_vars => TypeOK'
<1> SUFFICES ASSUME TypeOK, [Next]_vars
             PROVE  TypeOK'
  OBVIOUS
<1>1. ASSUME NEW r \in Recvers, NEW k \in Listeners, Start(r, k)
      PROVE  TypeOK'
  BY <1>1, GoListenerType DEF Start, TypeOK, ListenerPC
<1>2. ASSUME NEW r \in Recvers, NEW k \in Listeners, ListenerStep(r, k)
      PROVE  TypeOK'
  <2>1. CASE Test(r, k)
    BY <2>1, GoListenerType DEF Test, TypeOK, ListenerPC
  <2>2. CASE Block(r, k)
    BY <2>2, GoListenerType DEF Block, TypeOK, ListenerPC
  <2>3. CASE SpuriousWake(r, k)
    BY <2>3, GoListenerType DEF SpuriousWake, TypeOK, ListenerPC
  <2>4. CASE Check(r, k)
    BY <2>4, GoListenerType DEF Check, TypeOK, ListenerPC
  <2>5. CASE Store(r, k)
    BY <2>5, GoListenerType DEF Store, TypeOK, ListenerPC
  <2> QED
    BY <1>2, <2>1, <2>2, <2>3, <2>4, <2>5 DEF ListenerStep
<1>3. ASSUME NEW r \in Recvers, NEW w \in Workers, WorkerStep(r, w)
      PROVE  TypeOK'
  <2>1. CASE Take(r, w)
    BY <2>1, GoExecType DEF Take, TypeOK, ExecPC
  <2>2. CASE Clear(r, w)
    BY <2>2, GoExecType DEF Clear, TypeOK, ExecPC
  <2>3. CASE Notify(r, w)
    <3>1. exec' \in [Recvers -> [Workers -> ExecPC]]
      BY <2>3, GoExecType DEF Notify, ExecPC
    <3>2. listener' \in [Recvers -> [Listeners -> ListenerPC]]
      <4>1. CASE UNCHANGED listener
        BY <4>1 DEF TypeOK
      <4>2. ASSUME NEW k \in Waiters(r), GoListener(r, k, "blocked", "test")
            PROVE  listener' \in [Recvers -> [Listeners -> ListenerPC]]
        BY <4>2, GoListenerType DEF Waiters, ListenerPC
      <4> QED
        BY <2>3, <4>1, <4>2 DEF Notify
    <3> QED
      BY <2>3, <3>1, <3>2 DEF Notify, TypeOK
  <2> QED
    BY <1>3, <2>1, <2>2, <2>3 DEF WorkerStep
<1>4. CASE UNCHANGED vars
  BY <1>4 DEF vars, TypeOK
<1> QED
  BY <1>1, <1>2, <1>3, <1>4 DEF Next

(* The variables of every recver keep their types, for any number of       *)
(* threads.                                                                *)
THEOREM TypeCorrect == Spec => []TypeOK
<1>1. Init => TypeOK
  BY UninitReadyAssumption DEF Init, TypeOK, ListenerPC, ExecPC
<1> QED
  BY <1>1, TypeStep, PTL DEF Spec

-----------------------------------------------------------------------------
(* With one worker, and no recver started twice, the phases exclude each   *)
(* other: m_ready is down while the listener detects and up while the      *)
(* worker handles.                                                         *)
OneWorker == \A v, w \in Workers : v = w

SpawnedOnce ==
  \A r \in Recvers, k, l \in Listeners :
    listener[r][k] # "none" /\ listener[r][l] # "none" => k = l

(* IInv holds at the start: no listener runs yet and no callback does.     *)
LEMMA IInvInit == Init => IInv
BY UninitReadyAssumption
   DEF Init, IInv, TypeOK, ListenerPC, ExecPC, DownWhileDetecting,
       UpWhileHandling, FreshNotHandled, Detecting, Handling

(* A step of recver r leaves the other recvers alone.                      *)
Others(r) ==
  \A q \in Recvers \ {r} :
    /\ r_ready'[q] = r_ready[q]
    /\ fresh'[q] = fresh[q]
    /\ listener'[q] = listener[q]
    /\ exec'[q] = exec[q]

(* What IInv says of one recver.                                           *)
Sound(r) ==
  /\ Detecting(r) => ~r_ready[r]
  /\ Handling(r) => r_ready[r]
  /\ fresh[r] => r_ready[r] /\ ~Handling(r)

(* IInv is TypeOK and Sound of every recver, so steps are judged alone.    *)
LEMMA IInvIsSound == IInv <=> TypeOK /\ \A r \in Recvers : Sound(r)
BY DEF IInv, DownWhileDetecting, UpWhileHandling, FreshNotHandled, Sound

(* A recver that a step leaves alone stays sound.                          *)
LEMMA OthersSound ==
  ASSUME NEW r \in Recvers, Others(r), NEW q \in Recvers \ {r}, Sound(q)
  PROVE  Sound(q)'
BY DEF Others, Sound, Detecting, Handling

(* Each step of a recver's listener keeps what IInv says of the recver.    *)
LEMMA ListenerSound ==
  ASSUME SpawnedOnce, TypeOK, NEW r \in Recvers, Sound(r),
         NEW k \in Listeners, Start(r, k) \/ ListenerStep(r, k)
  PROVE  Sound(r)' /\ Others(r)
<1>1. ASSUME NEW from, NEW to \in ListenerPC \ {"check", "store"},
             GoListener(r, k, from, to), UNCHANGED <<r_ready, exec, fresh>>
      PROVE  Sound(r)' /\ Others(r)
  <2>1. Detecting(r)' => Detecting(r)
    BY <1>1 DEF GoListener, Detecting, TypeOK
  <2>2. Others(r)
    BY <1>1 DEF GoListener, Others, TypeOK
  <2> QED
    BY <1>1, <2>1, <2>2 DEF Sound, Handling
<1>2. CASE Start(r, k)
  BY <1>1, <1>2 DEF Start, ListenerPC
<1>3. CASE Test(r, k)
  <2>1. CASE r_ready[r]
    BY <1>1, <1>3, <2>1 DEF Test, ListenerPC
  <2>2. CASE ~r_ready[r]
    <3>1. Others(r)
      BY <1>3 DEF Test, GoListener, Others, TypeOK
    <3> QED
      BY <1>3, <2>2, <3>1 DEF Test, Sound, Handling, TypeOK
  <2> QED
    BY <2>1, <2>2
<1>4. CASE Block(r, k)
  BY <1>1, <1>4 DEF Block, ListenerPC
<1>5. CASE SpuriousWake(r, k)
  BY <1>1, <1>5 DEF SpuriousWake, ListenerPC
<1>6. CASE Check(r, k)
  <2>1. Detecting(r)
    BY <1>6 DEF Check, GoListener, Detecting
  <2>2. Others(r)
    BY <1>6 DEF Check, GoListener, Others, TypeOK
  <2> QED
    BY <1>6, <2>1, <2>2 DEF Check, Sound, Handling, TypeOK
<1>7. CASE Store(r, k)
  <2>1. Detecting(r)
    BY <1>7 DEF Store, GoListener, Detecting
  <2>2. ~Handling(r)
    BY <2>1 DEF Sound
  <2>3. ~Detecting(r)'
    BY <1>7 DEF Store, GoListener, Detecting, TypeOK, SpawnedOnce
  <2>4. Others(r)
    BY <1>7 DEF Store, GoListener, Others, TypeOK
  <2> QED
    BY <1>7, <2>2, <2>3, <2>4 DEF Store, Sound, Handling, TypeOK
<1> QED
  BY <1>2, <1>3, <1>4, <1>5, <1>6, <1>7 DEF ListenerStep

(* Each step of the worker keeps it as well.                               *)
LEMMA WorkerSound ==
  ASSUME OneWorker, TypeOK, NEW r \in Recvers, Sound(r),
         NEW w \in Workers, WorkerStep(r, w)
  PROVE  Sound(r)' /\ Others(r)
<1>1. CASE Take(r, w)
  <2>1. ~Detecting(r)
    BY <1>1 DEF Take, Sound
  <2>2. Others(r)
    BY <1>1 DEF Take, GoExec, Others, TypeOK
  <2> QED
    BY <1>1, <2>1, <2>2 DEF Take, Sound, Detecting, TypeOK
<1>2. CASE Clear(r, w)
  <2>1. Handling(r)
    BY <1>2 DEF Clear, GoExec, Handling
  <2>2. ~Handling(r)'
    BY <1>2 DEF Clear, GoExec, Handling, TypeOK, OneWorker
  <2>3. Others(r)
    BY <1>2 DEF Clear, GoExec, Others, TypeOK
  <2> QED
    BY <1>2, <2>1, <2>2, <2>3 DEF Clear, Sound, Detecting, TypeOK
<1>3. CASE Notify(r, w)
  <2>1. Handling(r)' => Handling(r)
    BY <1>3 DEF Notify, GoExec, Handling, TypeOK
  <2>2. Detecting(r)' => Detecting(r)
    BY <1>3 DEF Notify, GoListener, Detecting, Waiters, TypeOK
  <2>3. Others(r)
    BY <1>3 DEF Notify, GoExec, GoListener, Others, TypeOK
  <2> QED
    BY <1>3, <2>1, <2>2, <2>3 DEF Notify, Sound
<1> QED
  BY <1>1, <1>2, <1>3 DEF WorkerStep

(* Every step keeps IInv: a recver that moves does by the two lemmas       *)
(* above, the others by OthersSound.                                       *)
LEMMA IInvStep ==
  ASSUME OneWorker, SpawnedOnce, IInv, [Next]_vars
  PROVE  IInv'
<1>1. TypeOK' /\ TypeOK
  BY TypeStep DEF IInv
<1>2. ASSUME NEW r \in Recvers, NEW k \in Listeners,
             Start(r, k) \/ ListenerStep(r, k)
      PROVE  \A q \in Recvers : Sound(q)'
  BY <1>1, <1>2, ListenerSound, OthersSound, IInvIsSound
<1>3. ASSUME NEW r \in Recvers, NEW w \in Workers, WorkerStep(r, w)
      PROVE  \A q \in Recvers : Sound(q)'
  BY <1>1, <1>3, WorkerSound, OthersSound, IInvIsSound
<1>4. CASE UNCHANGED vars
  BY <1>1, <1>4 DEF IInv, vars, DownWhileDetecting, UpWhileHandling,
                    FreshNotHandled, Detecting, Handling
<1>5. CASE Next
  <2>1. \A q \in Recvers : Sound(q)'
    BY <1>2, <1>3, <1>5 DEF Next
  <2> QED
    BY <1>1, <2>1 DEF IInv, DownWhileDetecting, UpWhileHandling,
                      FreshNotHandled, Sound
<1> QED
  BY <1>4, <1>5

(* The strengthened invariant, for every set of recvers.                   *)
LEMMA IInvAlways == ASSUME OneWorker PROVE Spec /\ []SpawnedOnce => []IInv
<1>1. SpawnedOnce /\ IInv /\ [Next]_vars => IInv'
  BY IInvStep
<1> QED
  BY <1>1, IInvInit, PTL DEF Spec

(* As long as no recver is started twice and there is one worker, check    *)
(* function and callback exclude each other, whatever m_ready was born     *)
(* with.                                                                   *)
THEOREM ExclusionWhenSpawnedOnce ==
  ASSUME OneWorker PROVE Spec /\ []SpawnedOnce => []CheckCallbackExclusion
<1>1. IInv => CheckCallbackExclusion
  BY DEF IInv, DownWhileDetecting, UpWhileHandling, CheckCallbackExclusion
<1> QED
  BY <1>1, IInvAlways, PTL

(* ... and no reported event is erased before the executor took it.        *)
THEOREM NothingErasedWhenSpawnedOnce ==
  ASSUME OneWorker PROVE Spec /\ []SpawnedOnce => []NoEventErased
<1>1. IInv => NoEventErased
  BY DEF IInv, FreshNotHandled, NoEventErased
<1> QED
  BY <1>1, IInvAlways, PTL

-----------------------------------------------------------------------------
(* The refinement.  A step of recver r changes the phase of r at most, so  *)
(* it is enough to know the phase of r before and after.                   *)

(* A recver that a step leaves alone stays in its phase.                   *)
LEMMA OthersPhase ==
  ASSUME NEW r \in Recvers, Others(r), NEW q \in Recvers \ {r}
  PROVE  Phase(q)' = Phase(q)
BY DEF Others, Phase, Detecting, Handling

(* A step that takes r from one phase to another is a Move of the channel. *)
LEMMA PhaseMoves ==
  ASSUME NEW r \in Recvers, Others(r), NEW from, NEW to,
         Phase(r) = from, Phase(r)' = to
  PROVE  Channel!Move(r, from, to)
BY OthersPhase DEF Channel!Move

(* A step that keeps the phase of r is no step of the channel.             *)
LEMMA PhaseStays ==
  ASSUME NEW r \in Recvers, Others(r), Phase(r)' = Phase(r)
  PROVE  UNCHANGED [q \in Recvers |-> Phase(q)]
BY OthersPhase

(* A step of the listener is Watch, Abandon, Announce or no step of the    *)
(* channel.                                                                *)
LEMMA ListenerSimulates ==
  ASSUME SpawnedOnce, TypeOK, NEW r \in Recvers, Sound(r),
         NEW k \in Listeners, Start(r, k) \/ ListenerStep(r, k)
  PROVE  \/ Channel!Watch(r) \/ Channel!Abandon(r) \/ Channel!Announce(r)
         \/ UNCHANGED [q \in Recvers |-> Phase(q)]
<1>1. Others(r)
  BY ListenerSound
<1>2. ASSUME NEW from \in ListenerPC \ {"check", "store"},
             NEW to \in ListenerPC \ {"check", "store"},
             GoListener(r, k, from, to), UNCHANGED <<r_ready, exec, fresh>>
      PROVE  Phase(r)' = Phase(r)
  <2>1. Detecting(r)' <=> Detecting(r)
    BY <1>2 DEF GoListener, Detecting, TypeOK
  <2>2. Handling(r)' <=> Handling(r)
    BY <1>2 DEF Handling
  <2> QED
    BY <1>2, <2>1, <2>2 DEF Phase
<1>3. CASE Start(r, k) \/ Block(r, k) \/ SpuriousWake(r, k)
  BY <1>1, <1>2, <1>3, PhaseStays DEF Start, Block, SpuriousWake, ListenerPC
<1>4. CASE Test(r, k)
  <2>1. CASE r_ready[r]
    BY <1>1, <1>2, <1>4, <2>1, PhaseStays DEF Test, ListenerPC
  <2>2. CASE ~r_ready[r]
    <3>1. ~Handling(r) /\ ~Handling(r)'
      BY <1>4, <2>2 DEF Sound, Test, Handling
    <3>2. ~Detecting(r) /\ Detecting(r)'
      BY <1>4, <2>2 DEF Test, GoListener, Detecting, TypeOK, SpawnedOnce
    <3>3. Phase(r) = "rest" /\ Phase(r)' = "watching"
      BY <1>4, <2>2, <3>1, <3>2 DEF Phase, Test
    <3> QED
      BY <1>1, <3>3, PhaseMoves DEF Channel!Watch
  <2> QED
    BY <2>1, <2>2
<1>5. CASE Check(r, k)
  <2>1. Detecting(r) /\ ~r_ready[r] /\ ~Handling(r)
    BY <1>5 DEF Check, GoListener, Detecting, Sound
  <2>2. ~r_ready'[r] /\ ~Handling(r)'
    BY <1>5, <2>1 DEF Check, Handling
  <2>3. CASE Detecting(r)'
    BY <1>1, <2>1, <2>2, <2>3, PhaseStays DEF Phase
  <2>4. CASE ~Detecting(r)'
    BY <1>1, <2>1, <2>2, <2>4, PhaseMoves DEF Phase, Channel!Abandon
  <2> QED
    BY <2>3, <2>4
<1>6. CASE Store(r, k)
  <2>1. Detecting(r) /\ ~r_ready[r] /\ ~Handling(r)
    BY <1>6 DEF Store, GoListener, Detecting, Sound
  <2>2. r_ready'[r] /\ ~Handling(r)'
    BY <1>6, <2>1 DEF Store, Handling, TypeOK
  <2> QED
    BY <1>1, <2>1, <2>2, PhaseMoves DEF Phase, Channel!Announce
<1> QED
  BY <1>3, <1>4, <1>5, <1>6 DEF ListenerStep

(* A step of the worker is Take, Finish or no step of the channel.         *)
LEMMA WorkerSimulates ==
  ASSUME OneWorker, TypeOK, NEW r \in Recvers, Sound(r),
         NEW w \in Workers, WorkerStep(r, w)
  PROVE  \/ Channel!Take(r) \/ Channel!Finish(r)
         \/ UNCHANGED [q \in Recvers |-> Phase(q)]
<1>1. Others(r)
  BY WorkerSound
<1>2. CASE Take(r, w)
  <2>1. r_ready[r] /\ ~Handling(r)
    BY <1>2 DEF Take, GoExec, Handling, OneWorker
  <2>2. Handling(r)'
    BY <1>2 DEF Take, GoExec, Handling, TypeOK
  <2> QED
    BY <1>1, <2>1, <2>2, PhaseMoves DEF Phase, Channel!Take
<1>3. CASE Clear(r, w)
  <2>1. Handling(r) /\ r_ready[r] /\ ~Detecting(r)
    BY <1>3 DEF Clear, GoExec, Handling, Sound
  <2>2. ~Handling(r)' /\ ~r_ready'[r] /\ ~Detecting(r)'
    BY <1>3, <2>1 DEF Clear, GoExec, Handling, Detecting, TypeOK, OneWorker
  <2> QED
    BY <1>1, <2>1, <2>2, PhaseMoves DEF Phase, Channel!Finish
<1>4. CASE Notify(r, w)
  <2>1. Handling(r)' <=> Handling(r)
    BY <1>4 DEF Notify, GoExec, Handling, TypeOK
  <2>2. Detecting(r)' <=> Detecting(r)
    BY <1>4 DEF Notify, GoListener, Detecting, Waiters, TypeOK
  <2>3. Phase(r)' = Phase(r)
    BY <1>4, <2>1, <2>2 DEF Phase, Notify
  <2> QED
    BY <1>1, <2>3, PhaseStays
<1> QED
  BY <1>2, <1>3, <1>4 DEF WorkerStep

(* A recver that is not started twice and has one worker is an             *)
(* EventChannel: detection and handling alternate, every event is handled  *)
(* once and nothing else is handled, but for the event that m_ready may be *)
(* born with.                                                              *)
THEOREM ImplementationWhenSpawnedOnce ==
  ASSUME OneWorker PROVE Spec /\ []SpawnedOnce => ImplementsChannel
<1>1. Init => Channel!Init
  <2> SUFFICES ASSUME Init
               PROVE  \A r \in Recvers :
                        Phase(r) = IF r_ready[r] THEN "event" ELSE "rest"
    BY DEF Channel!Init, Init
  <2> TAKE r \in Recvers
  <2>1. ~Handling(r)
    BY DEF Init, Handling
  <2>2. ~Detecting(r)
    BY DEF Init, Detecting
  <2> QED
    BY <2>1, <2>2 DEF Phase
<1>2. SpawnedOnce /\ IInv /\ [Next]_vars
        => [Channel!Next]_([r \in Recvers |-> Phase(r)])
  <2> SUFFICES ASSUME SpawnedOnce, IInv, [Next]_vars
               PROVE  [Channel!Next]_([r \in Recvers |-> Phase(r)])
    OBVIOUS
  <2>1. ASSUME NEW r \in Recvers, NEW k \in Listeners,
               Start(r, k) \/ ListenerStep(r, k)
        PROVE  [Channel!Next]_([q \in Recvers |-> Phase(q)])
    BY <2>1, ListenerSimulates, IInvIsSound DEF Channel!Next
  <2>2. ASSUME NEW r \in Recvers, NEW w \in Workers, WorkerStep(r, w)
        PROVE  [Channel!Next]_([q \in Recvers |-> Phase(q)])
    BY <2>2, WorkerSimulates, IInvIsSound DEF Channel!Next
  <2>3. CASE UNCHANGED vars
    BY <2>3 DEF vars, Phase, Handling, Detecting
  <2> QED
    BY <2>1, <2>2, <2>3 DEF Next
<1> QED
  BY <1>1, <1>2, IInvAlways, PTL DEF Spec, ImplementsChannel, Channel!Spec

-----------------------------------------------------------------------------
(* With one listener thread to begin with no recver is started twice.      *)
LEMMA OneListenerSpawnedOnce ==
  ASSUME OneListenerOneWorker PROVE SpawnedOnce /\ OneWorker
BY DEF OneListenerOneWorker, SpawnedOnce, OneWorker

(* The strengthened invariant with one listener and one worker.            *)
THEOREM IInvHolds == ASSUME OneListenerOneWorker PROVE Spec => []IInv
BY OneListenerSpawnedOnce, IInvAlways, PTL

(* With one listener and one worker the check function of a recver never   *)
(* runs beside its callback, whatever m_ready was born with.               *)
THEOREM Exclusion ==
  ASSUME OneListenerOneWorker PROVE Spec => []CheckCallbackExclusion
BY OneListenerSpawnedOnce, ExclusionWhenSpawnedOnce, PTL

(* With one listener and one worker no reported event is erased before the *)
(* executor took it.                                                       *)
THEOREM NothingErased ==
  ASSUME OneListenerOneWorker PROVE Spec => []NoEventErased
BY OneListenerSpawnedOnce, NothingErasedWhenSpawnedOnce, PTL

(* With one listener and one worker a recver is an EventChannel.           *)
THEOREM Implementation ==
  ASSUME OneListenerOneWorker PROVE Spec => ImplementsChannel
BY OneListenerSpawnedOnce, ImplementationWhenSpawnedOnce, PTL

-----------------------------------------------------------------------------
(* The timers.                                                             *)

(* A ticker that moves keeps the types of the tickers' states.             *)
LEMMA TickerType ==
  ASSUME TimerTypeOK, NEW t \in Timers, NEW k \in Tickers,
         NEW from, NEW to \in TickerPC, GoTicker(t, k, from, to)
  PROVE  ticker' \in [Timers -> [Tickers -> TickerPC]]
BY DEF TimerTypeOK, GoTicker

(* Every step keeps the types.                                             *)
LEMMA TimerTypeStep == TimerTypeOK /\ [TimerNext]_timerVars => TimerTypeOK'
<1> SUFFICES ASSUME TimerTypeOK, [TimerNext]_timerVars PROVE TimerTypeOK'
  OBVIOUS
<1>1. ASSUME NEW t \in Timers, NEW k \in Tickers, StartTicker(t, k) PROVE TimerTypeOK'
  BY <1>1, TickerType DEF StartTicker, TimerTypeOK, TickerPC
<1>2. ASSUME NEW t \in Timers, NEW k \in Tickers, TickerStep(t, k) PROVE TimerTypeOK'
  <2>1. CASE Loop(t, k)
    BY <2>1, TickerType DEF Loop, TimerTypeOK, TickerPC
  <2>2. CASE Wake(t, k)
    BY <2>2, TickerType DEF Wake, TimerTypeOK, TickerPC
  <2>3. CASE StoreTick(t, k)
    BY <2>3, TickerType DEF StoreTick, TimerTypeOK, TickerPC
  <2> QED
    BY <1>2, <2>1, <2>2, <2>3 DEF TickerStep
<1>3. ASSUME NEW t \in Timers, Stop(t) \/ GetReady(t) PROVE TimerTypeOK'
  BY <1>3 DEF Stop, GetReady, TimerTypeOK
<1>4. CASE UNCHANGED timerVars
  BY <1>4 DEF timerVars, TimerTypeOK
<1> QED
  BY <1>1, <1>2, <1>3, <1>4 DEF TimerNext

(* The variables of every timer keep their types, whatever start() and     *)
(* stop() do and however many tickers they leave behind.                   *)
THEOREM TimerTypeCorrect == TimerSpec => []TimerTypeOK
<1>1. TimerInit => TimerTypeOK
  BY DEF TimerInit, TimerTypeOK, TickerPC
<1> QED
  BY <1>1, TimerTypeStep, PTL DEF TimerSpec
=============================================================================
