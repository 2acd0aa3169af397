----------------------------- MODULE MCExecutor -----------------------------
(***************************************************************************)
(* Instances of Executor for TLC.  Placement gives every object its group  *)
(* and every group its node; the cfg chooses which objects there are.      *)
(***************************************************************************)
EXTENDS Executor, TLC

CONSTANTS n1, g1, g2, r2

Unset == {FALSE}
Garbage == BOOLEAN

MCDefaultGroup == n1 :> g1
MCNodeOf == [g \in Groups |-> n1]

(* Everything is created without a group, r2 in a group of its own if      *)
(* there is one.                                                           *)
MCGroupOf ==
  [x \in Executables |-> IF x = r2 /\ g2 \in Groups THEN g2 ELSE g1]
=============================================================================
