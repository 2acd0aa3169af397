---------------------------- MODULE EventChannel ----------------------------
(***************************************************************************)
(* What a recver promises to the code that uses it: an abstract channel    *)
(* between the function that detects events (the check function) and the  *)
(* one that handles them (the callback).                                   *)
(*                                                                         *)
(* A channel is always in exactly one of four phases, so that detection    *)
(* and handling never overlap, every detected event is handled exactly     *)
(* once, and nothing is handled that was not detected.  The callbacks of   *)
(* the tcp server depend on it: its check function writes the fd set that  *)
(* its callback walks through.                                             *)
(***************************************************************************)
CONSTANTS
  Recvers,         \* the recvers of the process
  Initially        \* the phases a channel may start in: "rest", and "event"
                   \* for a recver that is born with a raised m_ready

VARIABLE phase            \* the phase of each channel

Phases == {"rest",        \* neither detecting nor handling
           "watching",    \* the check function runs
           "event",       \* an event is detected and waits for its callback
           "handling"}    \* the callback runs

Init == phase \in [Recvers -> Initially]

Move(r, from, to) ==
  /\ phase[r] = from
  /\ phase' = [phase EXCEPT ![r] = to]

Watch(r)    == Move(r, "rest", "watching")
Abandon(r)  == Move(r, "watching", "rest")
Announce(r) == Move(r, "watching", "event")
Take(r)     == Move(r, "event", "handling")
Finish(r)   == Move(r, "handling", "rest")

Next ==
  \E r \in Recvers :
    Watch(r) \/ Abandon(r) \/ Announce(r) \/ Take(r) \/ Finish(r)

Spec == Init /\ [][Next]_phase
=============================================================================
