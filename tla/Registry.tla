------------------------------- MODULE Registry -------------------------------
(***************************************************************************)
(* What the device cache promises its users: a set of registered sensors   *)
(* that a call changes by one sensor, or empties.  A save that fails or is *)
(* interrupted may empty it too: the cache is rewritten in place.          *)
(***************************************************************************)
CONSTANT Ids
VARIABLE registry

Init == registry = {}

Register(id) == id \notin registry /\ registry' = registry \cup {id}

Remove(id) == id \in registry /\ registry' = registry \ {id}

Wipe == registry' = {}

Next == Wipe \/ \E id \in Ids : Register(id) \/ Remove(id)

Spec == Init /\ [][Next]_registry
=============================================================================
