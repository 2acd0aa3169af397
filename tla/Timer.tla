-------------------------------- MODULE Timer --------------------------------
(***************************************************************************)
(* smfcpp::TimerBase: start() raises m_running and detaches a thread, the  *)
(* ticker, that sleeps for the interval and raises m_ready, over and over, *)
(* until it reads m_running = false; get_ready() is how the executor       *)
(* claims a tick.                                                          *)
(*                                                                         *)
(* Time is left out: a sleep may end at any moment, so every interval and  *)
(* every drift between ticker and executor is covered.  A ticker's two     *)
(* reads of m_running around the end of its loop body, with nothing        *)
(* between them, are one step ("loop").                                    *)
(***************************************************************************)
EXTENDS Naturals, FiniteSets

CONSTANTS
  Timers,    \* the timers of the process
  Tickers    \* names of the threads that start() may spawn for one timer

VARIABLES
  t_ready,   \* [Timers -> BOOLEAN], the atomic m_ready
  m_running, \* [Timers -> BOOLEAN]
  ticker     \* [Timers -> [Tickers -> TickerPC]]

timerVars == <<t_ready, m_running, ticker>>

TickerPC == {"none",   \* not spawned
             "loop",   \* about to evaluate the condition of the loop
             "sleep",  \* in sleep_for(interval)
             "store",  \* found m_running after the sleep, m_ready not yet set
             "exit"}   \* left the loop

(* The two flags are flags and every ticker is at one of its points.       *)
TimerTypeOK ==
  /\ t_ready \in [Timers -> BOOLEAN]
  /\ m_running \in [Timers -> BOOLEAN]
  /\ ticker \in [Timers -> [Tickers -> TickerPC]]

(* m_running is not initialised, and not read before start() assigns it.   *)
TimerInit ==
  /\ t_ready = [t \in Timers |-> FALSE]
  /\ m_running \in [Timers -> BOOLEAN]
  /\ ticker = [t \in Timers |-> [k \in Tickers |-> "none"]]

GoTicker(t, k, from, to) ==
  /\ ticker[t][k] = from
  /\ ticker' = [ticker EXCEPT ![t][k] = to]

-----------------------------------------------------------------------------
(* start().                                                                *)
StartTicker(t, k) ==
  /\ GoTicker(t, k, "none", "loop")
  /\ m_running' = [m_running EXCEPT ![t] = TRUE]
  /\ UNCHANGED t_ready

(* stop().                                                                 *)
Stop(t) ==
  /\ m_running' = [m_running EXCEPT ![t] = FALSE]
  /\ UNCHANGED <<t_ready, ticker>>

(* The ticker thread.                                                      *)
Loop(t, k) ==
  /\ GoTicker(t, k, "loop", IF m_running[t] THEN "sleep" ELSE "exit")
  /\ UNCHANGED <<t_ready, m_running>>

(* Mutant of Wake: a stopped ticker sleeps on, in case the timer is        *)
(* started again.                                                          *)
WakeSleepsOn(t, k) ==
  /\ GoTicker(t, k, "sleep", IF m_running[t] THEN "store" ELSE "sleep")
  /\ UNCHANGED <<t_ready, m_running>>

Wake(t, k) ==
  /\ GoTicker(t, k, "sleep", IF m_running[t] THEN "store" ELSE "exit")
  /\ UNCHANGED <<t_ready, m_running>>

(* Mutant of StoreTick: the ticker fires once.                             *)
StoreTickOnce(t, k) ==
  /\ GoTicker(t, k, "store", "exit")
  /\ t_ready' = [t_ready EXCEPT ![t] = TRUE]
  /\ UNCHANGED m_running

StoreTick(t, k) ==
  /\ GoTicker(t, k, "store", "loop")
  /\ t_ready' = [t_ready EXCEPT ![t] = TRUE]
  /\ UNCHANGED m_running

(* get_ready(): the exchange that claims the pending tick, if there is one.*)
GetReady(t) ==
  /\ t_ready' = [t_ready EXCEPT ![t] = FALSE]
  /\ UNCHANGED <<m_running, ticker>>

-----------------------------------------------------------------------------
TickerStep(t, k) == Loop(t, k) \/ Wake(t, k) \/ StoreTick(t, k)

TimerNext ==
  \E t \in Timers :
    \/ \E k \in Tickers : StartTicker(t, k) \/ TickerStep(t, k)
    \/ Stop(t)
    \/ GetReady(t)

TimerSpec == TimerInit /\ [][TimerNext]_timerVars

(* A detached thread keeps running and a sleep ends.                       *)
TimerFairness == \A t \in Timers, k \in Tickers : WF_timerVars(TickerStep(t, k))

FairTimerSpec == TimerSpec /\ TimerFairness

-----------------------------------------------------------------------------
Live(t) == {k \in Tickers : ticker[t][k] \in {"loop", "sleep", "store"}}

(* stop() that is not followed by start() ends every ticker of the timer,  *)
(* those that earlier stop()/start() pairs left behind included, and none  *)
(* of them raises m_ready any more.                                        *)
StopEndsTickers ==
  \A t \in Timers : <>[](~m_running[t]) => <>[](Live(t) = {})

(* A started timer that is never stopped for good ticks forever, although  *)
(* a stop() in between may have ended some of its tickers.                 *)
TicksForever ==
  \A t \in Timers :
    (<>[](m_running[t] /\ \E k \in Tickers : ticker[t][k] # "none"))
      => []<>(\E k \in Tickers : ticker[t][k] = "store")
=============================================================================
