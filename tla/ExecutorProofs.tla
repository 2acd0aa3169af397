---------------------------- MODULE ExecutorProofs ----------------------------
(***************************************************************************)
(* Proofs about Executor, for any nodes, groups, timers, recvers and       *)
(* workers: its types; that its timers and recvers run as Timer and Recver *)
(* say, so that what ExecutableProofs shows of one alone holds in the      *)
(* composition; and the threads that spin() leaves behind the objects.     *)
(***************************************************************************)
EXTENDS Executor, TLAPS, FiniteSetTheorems, SequenceTheorems

EP == INSTANCE ExecutableProofs WITH Listeners <- Entries, Tickers <- Entries

(* The program the repository runs: every executor is a                    *)
(* SingleThreadedExecutor, and is given every node once.                   *)
OneWorker == \A v, w \in Workers : v = w
AddedOnce == AddLimit = 1

-----------------------------------------------------------------------------
(* The registry and the positions in it, without the threads.              *)

(* The types of the cursor and of the position of the activation.          *)
CursorType == [entry : Nat \ {0}, kind : Kinds, pos : Nat \ {0}]
PositionType == [entry : Nat \ {0}, pos : Nat]

RegistryTyped ==
  /\ m_spinning \in BOOLEAN
  /\ node_groups \in [Nodes -> Seq(Groups)]
  /\ o_timers \in [Groups -> Seq(Timers)]
  /\ o_recvers \in [Groups -> Seq(Recvers)]
  /\ o_callback_groups \in Seq(Groups)
  /\ added \in [Nodes -> 0 .. AddLimit]
  /\ started \in PositionType
  /\ worker \in [Workers -> WorkerPC]
  /\ cursor \in CursorType

(* A node lists a group of its own, and lists it once.                     *)
GroupsPlaced ==
  \A n \in Nodes :
    /\ \A i \in DOMAIN node_groups[n] : NodeOf[node_groups[n][i]] = n
    /\ \A i, j \in DOMAIN node_groups[n] :
         node_groups[n][i] = node_groups[n][j] => i = j

(* A group lists the objects that were created in it.                      *)
ObjectsPlaced ==
  \A g \in Groups :
    /\ \A i \in DOMAIN o_timers[g] : GroupOf[o_timers[g][i]] = g
    /\ \A i \in DOMAIN o_recvers[g] : GroupOf[o_recvers[g][i]] = g

(* Entry i of o_callback_groups came with call f[i][1] of add_node for the *)
(* node of its group, so no two entries have group and call in common.     *)
EntriesCounted ==
  \E f \in [DOMAIN o_callback_groups -> (1 .. AddLimit) \X Groups] :
    /\ \A i, j \in DOMAIN o_callback_groups : f[i] = f[j] => i = j
    /\ \A i \in DOMAIN o_callback_groups :
         /\ f[i][2] = o_callback_groups[i]
         /\ f[i][1] <= added[NodeOf[o_callback_groups[i]]]

RegistryInv == RegistryTyped /\ GroupsPlaced /\ ObjectsPlaced /\ EntriesCounted

(* Entry k has started an object: its thread exists.                       *)
Started(x, k) ==
  IF Launched
  THEN x \in Range(Members(o_callback_groups[k])) \ Late
  ELSE \E j \in DOMAIN Members(o_callback_groups[k]) :
         /\ Members(o_callback_groups[k])[j] = x
         /\ k < started.entry \/ (k = started.entry /\ j <= started.pos)

HasThread(x, k) ==
  IF x \in Timers THEN ticker[x][k] # "none" ELSE listener[x][k] # "none"

(* The threads are those of the objects that were started.                 *)
ThreadsStarted ==
  \A x \in Executables, k \in Entries :
    HasThread(x, k) <=> k \in DOMAIN o_callback_groups /\ Started(x, k)

(* The order of spin(): nothing late is created before the workers run,    *)
(* nothing is activated before spin(), and the workers run together.       *)
SpinOrdered ==
  /\ ~Launched =>
       /\ \A w \in Workers : worker[w] = "off"
       /\ \A g \in Groups :
            /\ \A i \in DOMAIN o_timers[g] : o_timers[g][i] \notin Late
            /\ \A i \in DOMAIN o_recvers[g] : o_recvers[g][i] \notin Late
  /\ ~m_spinning => ~Launched /\ started = [entry |-> 1, pos |-> 0]

ThreadsInv == ThreadsStarted /\ SpinOrdered

IInv == RegistryInv /\ ThreadsInv /\ T!TimerTypeOK /\ R!TypeOK

-----------------------------------------------------------------------------
(* Types of the registry.                                                  *)

(* What a list holds, entry by entry.                                      *)
LEMMA MembersType ==
  ASSUME RegistryTyped, NEW g \in Groups
  PROVE  /\ Members(g) \in Seq(Executables)
         /\ Len(Members(g)) = Len(o_timers[g]) + Len(o_recvers[g])
         /\ \A j \in 1 .. Len(Members(g)) :
              Members(g)[j] = IF j <= Len(o_timers[g]) THEN o_timers[g][j]
                              ELSE o_recvers[g][j - Len(o_timers[g])]
<1>1. o_timers[g] \in Seq(Executables) /\ o_recvers[g] \in Seq(Executables)
  <2>1. o_timers[g] \in Seq(Timers) /\ o_recvers[g] \in Seq(Recvers)
    BY DEF RegistryTyped
  <2> QED
    BY <2>1 DEF Executables
<1> QED
  BY <1>1, ConcatProperties DEF Members

(* ... and as a set.                                                       *)
LEMMA MembersRange ==
  ASSUME RegistryTyped, NEW g \in Groups
  PROVE  Range(Members(g)) = Range(o_timers[g]) \cup Range(o_recvers[g])
<1>1. o_timers[g] \in Seq(Executables) /\ o_recvers[g] \in Seq(Executables)
  <2>1. o_timers[g] \in Seq(Timers) /\ o_recvers[g] \in Seq(Recvers)
    BY DEF RegistryTyped
  <2> QED
    BY <2>1 DEF Executables
<1> QED
  BY <1>1, RangeConcatenation DEF Members

(* The scan examines a timer or a recver of the executor.                  *)
LEMMA ExaminedType ==
  ASSUME RegistryTyped, NEW w \in Workers, InList(w)
  PROVE  /\ o_callback_groups[cursor.entry] \in Groups
         /\ cursor.kind = "timers" => Examined \in Timers
         /\ cursor.kind = "recvers" => Examined \in Recvers
<1>1. o_callback_groups[cursor.entry] \in Groups
  BY DEF RegistryTyped, InList, InGroups, CursorType
<1>2. cursor.pos \in 1 .. Len(List)
  BY <1>1 DEF RegistryTyped, InList, List, CursorType
<1> QED
  BY <1>1, <1>2 DEF RegistryTyped, List, Examined, Kinds

(* A step along a list keeps the type of the cursor.                       *)
LEMMA StepCursorType ==
  ASSUME cursor \in CursorType, StepCursor PROVE cursor' \in CursorType
BY DEF CursorType, StepCursor

(* A step of a worker keeps the types of workers and cursor.               *)
LEMMA WorkerRegistryTyped ==
  ASSUME RegistryTyped, NEW w \in Workers, WorkerStep(w)
  PROVE  /\ worker' \in [Workers -> WorkerPC]
         /\ cursor' \in CursorType
         /\ UNCHANGED <<m_spinning, registry, started>>
<1> USE DEF RegistryTyped
<1>1. ASSUME NEW from, NEW to \in WorkerPC, GoWorker(w, from, to)
      PROVE  worker' \in [Workers -> WorkerPC]
  BY <1>1 DEF GoWorker
<1>2. NoScan \in CursorType
  BY DEF NoScan, Kinds, CursorType
<1>3. StepCursor => cursor' \in CursorType
  BY StepCursorType
<1>12. CASE Lock(w)
  BY <1>1, <1>2, <1>12 DEF Lock, WorkerPC
<1>4. CASE ExamineTimer(w)
  <2>1. Examined \in WorkerPC
    BY <1>4, ExaminedType DEF ExamineTimer, WorkerPC, Executables
  <2>2. CASE GoWorker(w, "scan", Examined) /\ UNCHANGED cursor
    BY <1>1, <1>4, <2>1, <2>2 DEF ExamineTimer
  <2>3. CASE StepCursor /\ UNCHANGED worker
    BY <1>4, <1>3, <2>3 DEF ExamineTimer
  <2> QED
    BY <1>4, <2>2, <2>3 DEF ExamineTimer
<1>5. CASE ExamineRecver(w)
  <2>1. Examined \in WorkerPC
    BY <1>5, ExaminedType DEF ExamineRecver, WorkerPC, Executables
  <2>2. CASE GoWorker(w, "scan", Examined) /\ UNCHANGED cursor
    BY <1>1, <1>5, <2>1, <2>2 DEF ExamineRecver
  <2>3. CASE StepCursor /\ UNCHANGED worker
    BY <1>5, <1>3, <2>3 DEF ExamineRecver
  <2> QED
    BY <1>5, <2>2, <2>3 DEF ExamineRecver
<1>6. CASE NextList(w)
  BY <1>6 DEF NextList, Kinds, CursorType
<1>7. CASE NothingReady(w)
  BY <1>1, <1>2, <1>7 DEF NothingReady, WorkerPC
<1>8. CASE SleepOver(w)
  BY <1>1, <1>8 DEF SleepOver, WorkerPC
<1>9. CASE FinishTimer(w)
  BY <1>1, <1>9 DEF FinishTimer, WorkerPC
<1>10. CASE ClearRecver(w)
  BY <1>10 DEF ClearRecver
<1>11. CASE NotifyRecver(w)
  BY <1>1, <1>11 DEF NotifyRecver, WorkerPC
<1> QED
  BY <1>4, <1>5, <1>12, <1>6, <1>7, <1>8, <1>9, <1>10, <1>11
  DEF WorkerStep

-----------------------------------------------------------------------------
(* RegistryInv is inductive.                                               *)

(* Nothing is registered at the start but the default groups.              *)
LEMMA RegistryInit == Init => RegistryInv
<1> SUFFICES ASSUME Init PROVE RegistryInv
  OBVIOUS
<1>1. RegistryTyped
  <2>1. /\ node_groups \in [Nodes -> Seq(Groups)]
        /\ o_timers \in [Groups -> Seq(Timers)]
        /\ o_recvers \in [Groups -> Seq(Recvers)]
        /\ o_callback_groups \in Seq(Groups)
    BY PlacementAssumption DEF Init
  <2>2. added \in [Nodes -> 0 .. AddLimit]
    BY AddLimitAssumption DEF Init
  <2>3. cursor \in CursorType /\ started \in PositionType
    BY DEF Init, NoScan, Kinds, CursorType, PositionType
  <2>4. worker \in [Workers -> WorkerPC]
    BY DEF Init, WorkerPC
  <2> QED
    BY <2>1, <2>2, <2>3, <2>4 DEF Init, RegistryTyped
<1>2. GroupsPlaced /\ ObjectsPlaced
  BY PlacementAssumption DEF Init, GroupsPlaced, ObjectsPlaced
<1>3. EntriesCounted
  <2>1. DOMAIN o_callback_groups = {}
    BY DEF Init
  <2>2. [i \in {} |-> <<1, i>>] \in [{} -> (1 .. AddLimit) \X Groups]
    OBVIOUS
  <2> QED
    BY <2>1, <2>2 DEF EntriesCounted
<1> QED
  BY <1>1, <1>2, <1>3 DEF RegistryInv

(* A step that leaves the registry alone keeps what is said of it.         *)
LEMMA RegistryUnchanged ==
  ASSUME RegistryInv, UNCHANGED registry
  PROVE  (GroupsPlaced /\ ObjectsPlaced /\ EntriesCounted)'
BY DEF RegistryInv, registry, GroupsPlaced, ObjectsPlaced, EntriesCounted

(* create_callback_group lists the new group in its own node.              *)
LEMMA CreateGroupRegistry ==
  ASSUME RegistryInv, NEW g \in Groups, CreateGroup(g)
  PROVE  RegistryInv'
<1> DEFINE n == NodeOf[g]
           old == node_groups[n]
<1>1. n \in Nodes /\ old \in Seq(Groups)
  BY PlacementAssumption DEF RegistryInv, RegistryTyped
<1>2. node_groups' = [node_groups EXCEPT ![n] = Append(old, g)]
  BY DEF CreateGroup
<1>3. /\ Append(old, g) \in Seq(Groups)
      /\ Len(Append(old, g)) = Len(old) + 1
      /\ \A i \in 1 .. Len(old) : Append(old, g)[i] = old[i]
      /\ Append(old, g)[Len(old) + 1] = g
  BY <1>1, AppendProperties
<1>4. \A i \in 1 .. Len(old) : old[i] # g
  <2>1. g \notin Range(old)
    BY DEF CreateGroup, Created
  <2> QED
    BY <1>1, <2>1 DEF Range
<1>5. RegistryTyped'
  BY <1>1, <1>2, <1>3 DEF RegistryInv, RegistryTyped, CreateGroup
<1>6. GroupsPlaced'
  <2> SUFFICES ASSUME NEW m \in Nodes
               PROVE  /\ \A i \in DOMAIN node_groups'[m] :
                           NodeOf[node_groups'[m][i]] = m
                      /\ \A i, j \in DOMAIN node_groups'[m] :
                           node_groups'[m][i] = node_groups'[m][j] => i = j
    BY DEF GroupsPlaced
  <2>1. CASE m = n
    <3>1. node_groups'[m] = Append(old, g)
      BY <1>1, <1>2, <2>1 DEF RegistryInv, RegistryTyped
    <3>2. \A i \in 1 .. Len(old) : NodeOf[old[i]] = n
      BY <1>1 DEF RegistryInv, GroupsPlaced
    <3>3. \A i, j \in 1 .. Len(old) : old[i] = old[j] => i = j
      BY <1>1 DEF RegistryInv, GroupsPlaced
    <3>4. DOMAIN Append(old, g) = 1 .. Len(old) + 1 /\ Len(old) \in Nat
      BY <1>1, <1>3
    <3> QED
      BY <1>3, <1>4, <2>1, <3>1, <3>2, <3>3, <3>4
  <2>2. CASE m # n
    BY <1>2, <2>2 DEF RegistryInv, RegistryTyped, GroupsPlaced
  <2> QED
    BY <2>1, <2>2
<1> QED
  BY <1>5, <1>6
     DEF RegistryInv, ObjectsPlaced, EntriesCounted, CreateGroup

(* create_timer appends to the group it is given.                          *)
LEMMA CreateTimerRegistry ==
  ASSUME RegistryInv, NEW t \in Timers, CreateTimer(t)
  PROVE  RegistryInv'
<1> DEFINE g == GroupOf[t]
           old == o_timers[g]
<1>1. g \in Groups /\ old \in Seq(Timers)
  BY PlacementAssumption DEF RegistryInv, RegistryTyped, Executables
<1>2. /\ Append(old, t) \in Seq(Timers)
      /\ Len(Append(old, t)) = Len(old) + 1
      /\ \A i \in 1 .. Len(old) : Append(old, t)[i] = old[i]
      /\ Append(old, t)[Len(old) + 1] = t
  BY <1>1, AppendProperties
<1>3. RegistryTyped'
  BY <1>1, <1>2 DEF RegistryInv, RegistryTyped, CreateTimer
<1>4. ObjectsPlaced'
  BY <1>1, <1>2 DEF RegistryInv, RegistryTyped, ObjectsPlaced, CreateTimer
<1> QED
  BY <1>3, <1>4 DEF RegistryInv, GroupsPlaced, EntriesCounted, CreateTimer

(* The same of create_recver.                                              *)
LEMMA CreateRecverRegistry ==
  ASSUME RegistryInv, NEW r \in Recvers, CreateRecver(r)
  PROVE  RegistryInv'
<1> DEFINE g == GroupOf[r]
           old == o_recvers[g]
<1>1. g \in Groups /\ old \in Seq(Recvers)
  BY PlacementAssumption DEF RegistryInv, RegistryTyped, Executables
<1>2. /\ Append(old, r) \in Seq(Recvers)
      /\ Len(Append(old, r)) = Len(old) + 1
      /\ \A i \in 1 .. Len(old) : Append(old, r)[i] = old[i]
      /\ Append(old, r)[Len(old) + 1] = r
  BY <1>1, AppendProperties
<1>3. RegistryTyped'
  BY <1>1, <1>2 DEF RegistryInv, RegistryTyped, CreateRecver
<1>4. ObjectsPlaced'
  BY <1>1, <1>2 DEF RegistryInv, RegistryTyped, ObjectsPlaced, CreateRecver
<1> QED
  BY <1>3, <1>4 DEF RegistryInv, GroupsPlaced, EntriesCounted, CreateRecver

(* add_node appends the groups of the node: none of them was added by the  *)
(* same call before, for the node lists each of them once.                 *)
LEMMA AddNodeRegistry ==
  ASSUME RegistryInv, NEW n \in Nodes, AddNode(n)
  PROVE  RegistryInv'
<1> DEFINE old == o_callback_groups
           new == node_groups[n]
<1>1. old \in Seq(Groups) /\ new \in Seq(Groups)
  BY DEF RegistryInv, RegistryTyped
<1>2. /\ old \o new \in Seq(Groups)
      /\ Len(old \o new) = Len(old) + Len(new)
      /\ \A i \in 1 .. Len(old) + Len(new) :
           (old \o new)[i] = IF i <= Len(old) THEN old[i] ELSE new[i - Len(old)]
  BY <1>1, ConcatProperties
<1>3. RegistryTyped'
  BY <1>1, <1>2, AddLimitAssumption DEF RegistryInv, RegistryTyped, AddNode
<1>4. PICK f \in [DOMAIN old -> (1 .. AddLimit) \X Groups] :
        /\ \A i, j \in DOMAIN old : f[i] = f[j] => i = j
        /\ \A i \in DOMAIN old :
             f[i][2] = old[i] /\ f[i][1] <= added[NodeOf[old[i]]]
  BY DEF RegistryInv, EntriesCounted
<1>5. /\ added[n] + 1 \in 1 .. AddLimit /\ added[n] \in Nat
      /\ added' = [added EXCEPT ![n] = added[n] + 1]
      /\ o_callback_groups' = old \o new
  BY AddLimitAssumption DEF RegistryInv, RegistryTyped, AddNode
<1> DEFINE f2 == [i \in DOMAIN (old \o new) |->
                    IF i <= Len(old) THEN f[i]
                    ELSE <<added[n] + 1, new[i - Len(old)]>>]
<1>6. DOMAIN old = 1 .. Len(old) /\ DOMAIN new = 1 .. Len(new)
      /\ DOMAIN (old \o new) = 1 .. Len(old) + Len(new)
      /\ Len(old) \in Nat /\ Len(new) \in Nat
  BY <1>1, <1>2
<1>7. ASSUME NEW i \in 1 .. Len(old) + Len(new), i > Len(old)
      PROVE  /\ i - Len(old) \in 1 .. Len(new)
             /\ new[i - Len(old)] \in Groups
             /\ NodeOf[new[i - Len(old)]] = n
             /\ f2[i] = <<added[n] + 1, new[i - Len(old)]>>
  <2>1. i - Len(old) \in 1 .. Len(new)
    BY <1>6, <1>7
  <2>2. new[i - Len(old)] \in Groups /\ NodeOf[new[i - Len(old)]] = n
    BY <1>1, <1>6, <2>1 DEF RegistryInv, GroupsPlaced
  <2> QED
    BY <1>6, <1>7, <2>1, <2>2
<1>8. ASSUME NEW i \in 1 .. Len(old) + Len(new), i <= Len(old)
      PROVE  /\ i \in 1 .. Len(old)
             /\ f2[i] = f[i]
             /\ f[i] \in (1 .. AddLimit) \X Groups
             /\ f[i][1] \in Nat
             /\ f[i][2] = old[i] /\ f[i][1] <= added[NodeOf[old[i]]]
             /\ old[i] \in Groups /\ NodeOf[old[i]] \in Nodes
  <2>1. i \in 1 .. Len(old)
    BY <1>6, <1>8
  <2>2. old[i] \in Groups /\ NodeOf[old[i]] \in Nodes
    BY <1>1, <1>6, <2>1, PlacementAssumption
  <2>3. f2[i] = f[i] /\ f[i] \in (1 .. AddLimit) \X Groups
    BY <1>6, <1>8, <2>1
  <2>4. f[i][1] \in Nat
    BY <2>3, AddLimitAssumption
  <2> QED
    BY <1>4, <1>6, <2>1, <2>2, <2>3, <2>4
<1>9. f2 \in [DOMAIN (old \o new) -> (1 .. AddLimit) \X Groups]
  <2>1. ASSUME NEW i \in 1 .. Len(old) + Len(new)
        PROVE  f2[i] \in (1 .. AddLimit) \X Groups
    <3>1. CASE i <= Len(old)
      <4>1. f2[i] = f[i] /\ f[i] \in (1 .. AddLimit) \X Groups
        BY <1>8, <3>1
      <4> HIDE DEF f2
      <4> QED
        BY <4>1
    <3>2. CASE i > Len(old)
      <4>1. f2[i] = <<added[n] + 1, new[i - Len(old)]>>
            /\ new[i - Len(old)] \in Groups
        BY <1>7, <3>2
      <4> HIDE DEF f2
      <4> QED
        BY <1>5, <4>1
    <3> QED
      BY <1>6, <3>1, <3>2
  <2> QED
    BY <1>6, <2>1
<1> HIDE DEF f2
<1>10. ASSUME NEW i \in 1 .. Len(old) + Len(new),
              NEW j \in 1 .. Len(old) + Len(new), f2[i] = f2[j]
       PROVE  i = j
  <2>1. CASE i <= Len(old) /\ j <= Len(old)
    <3>1. /\ i \in DOMAIN old /\ j \in DOMAIN old
          /\ f[i] = f[j]
      BY <1>6, <1>8, <1>10, <2>1
    <3> QED
      BY <1>4, <3>1
  <2>2. CASE i > Len(old) /\ j > Len(old)
    <3>1. new[i - Len(old)] = new[j - Len(old)]
      BY <1>7, <1>10, <2>2
    <3>2. i - Len(old) = j - Len(old)
      BY <1>6, <1>7, <2>2, <3>1 DEF RegistryInv, GroupsPlaced
    <3> QED
      BY <1>6, <3>2
  <2>3. ASSUME NEW k \in 1 .. Len(old) + Len(new),
               NEW l \in 1 .. Len(old) + Len(new),
               k <= Len(old), l > Len(old), f2[k] = f2[l]
        PROVE  FALSE
    <3>1. f[k][1] = added[n] + 1 /\ f[k][2] = new[l - Len(old)]
      BY <1>7, <1>8, <2>3
    <3>2. old[k] = new[l - Len(old)] /\ f[k][1] <= added[NodeOf[old[k]]]
      BY <1>8, <2>3, <3>1
    <3>3. f[k][1] <= added[n]
      BY <1>7, <2>3, <3>2
    <3> QED
      BY <1>5, <3>1, <3>3
  <2> QED
    BY <1>6, <1>10, <2>1, <2>2, <2>3
<1>11. ASSUME NEW i \in 1 .. Len(old) + Len(new)
       PROVE  /\ f2[i][2] = (old \o new)[i]
              /\ f2[i][1] <= added'[NodeOf[(old \o new)[i]]]
  <2>1. CASE i <= Len(old)
    <3>1. (old \o new)[i] = old[i]
      BY <1>2, <2>1
    <3>2. added[NodeOf[old[i]]] <= added'[NodeOf[old[i]]]
      BY <1>5, <1>8, <2>1 DEF RegistryInv, RegistryTyped
    <3>3. /\ f2[i][2] = old[i]
          /\ f2[i][1] <= added[NodeOf[old[i]]]
          /\ f2[i][1] \in Nat
      BY <1>8, <2>1
    <3>4. added[NodeOf[old[i]]] \in Nat /\ added'[NodeOf[old[i]]] \in Nat
      <4>1. added \in [Nodes -> 0 .. AddLimit] /\ added' \in [Nodes -> 0 .. AddLimit]
        BY <1>3 DEF RegistryInv, RegistryTyped
      <4> QED
        BY <1>8, <2>1, <4>1, AddLimitAssumption
    <3> QED
      BY <3>1, <3>2, <3>3, <3>4
  <2>2. CASE i > Len(old)
    <3>1. (old \o new)[i] = new[i - Len(old)]
      BY <1>2, <1>6, <2>2
    <3>2. added'[n] = added[n] + 1
      BY <1>5 DEF RegistryInv, RegistryTyped
    <3> QED
      BY <1>5, <1>7, <2>2, <3>1, <3>2
  <2> QED
    BY <1>6, <2>1, <2>2
<1>12. EntriesCounted'
  <2>1. /\ \A i, j \in DOMAIN o_callback_groups' : f2[i] = f2[j] => i = j
        /\ \A i \in DOMAIN o_callback_groups' :
             /\ f2[i][2] = o_callback_groups'[i]
             /\ f2[i][1] <= added'[NodeOf[o_callback_groups'[i]]]
    BY <1>5, <1>6, <1>10, <1>11
  <2>2. f2 \in [DOMAIN o_callback_groups' -> (1 .. AddLimit) \X Groups]
    BY <1>5, <1>9
  <2> QED
    BY <2>1, <2>2 DEF EntriesCounted
<1> QED
  BY <1>3, <1>12 DEF RegistryInv, GroupsPlaced, ObjectsPlaced, AddNode

(* Every step keeps the registry sound.                                    *)
LEMMA RegistryStep == RegistryInv /\ [Next]_vars => RegistryInv'
<1> SUFFICES ASSUME RegistryInv, [Next]_vars PROVE RegistryInv'
  OBVIOUS
<1>1. ASSUME RegistryTyped', UNCHANGED registry PROVE RegistryInv'
  BY <1>1, RegistryUnchanged DEF RegistryInv
<1>2. CASE Spin
  BY <1>1, <1>2 DEF Spin, RegistryInv, RegistryTyped, registry
<1>3. CASE ActivateNext
  <2>1. started \in PositionType
    BY DEF RegistryInv, RegistryTyped
  <2>2. started' \in PositionType
    BY <1>3, <2>1 DEF ActivateNext, PositionType
  <2> QED
    BY <1>1, <1>3, <2>2 DEF ActivateNext, RegistryInv, RegistryTyped, registry
<1>4. CASE ActivateNextGroup
  <2>1. started' \in PositionType
    BY <1>4 DEF ActivateNextGroup, RegistryInv, RegistryTyped, PositionType
  <2> QED
    BY <1>1, <1>4, <2>1 DEF ActivateNextGroup, RegistryInv, RegistryTyped, registry
<1>5. CASE Launch
  <2>1. worker' \in [Workers -> WorkerPC]
    BY <1>5 DEF Launch, WorkerPC
  <2> QED
    BY <1>1, <1>5, <2>1 DEF Launch, RegistryInv, RegistryTyped, registry
<1>6. ASSUME NEW w \in Workers, WorkerStep(w) PROVE RegistryInv'
  BY <1>1, <1>6, WorkerRegistryTyped DEF RegistryInv, RegistryTyped, registry
<1>7. ASSUME NEW k \in Entries,
             \/ \E t \in Timers : TickerStep(t, k)
             \/ \E r \in Recvers : ListenerStep(r, k)
      PROVE  RegistryInv'
  BY <1>1, <1>7
     DEF TickerStep, ListenerStep, RegistryInv, RegistryTyped, registry
<1>8. CASE UNCHANGED vars
  BY <1>1, <1>8 DEF vars, RegistryInv, RegistryTyped, registry
<1> QED
  BY <1>2, <1>3, <1>4, <1>5, <1>6, <1>7, <1>8, CreateGroupRegistry,
     CreateTimerRegistry, CreateRecverRegistry, AddNodeRegistry DEF Next

(* The registry is sound in every state.                                   *)
THEOREM RegistryCorrect == Spec => []RegistryInv
BY RegistryInit, RegistryStep, PTL DEF Spec

(* o_callback_groups never holds more entries than calls of add_node can   *)
(* have brought.                                                           *)
LEMMA EntriesBound ==
  RegistryInv => Len(o_callback_groups) \in {0} \cup Entries
<1> SUFFICES ASSUME RegistryInv
             PROVE  Len(o_callback_groups) \in {0} \cup Entries
  OBVIOUS
<1> DEFINE S == (1 .. AddLimit) \X Groups
<1>1. PICK f \in [DOMAIN o_callback_groups -> S] :
        \A i, j \in DOMAIN o_callback_groups : f[i] = f[j] => i = j
  BY DEF RegistryInv, EntriesCounted
<1>2. IsFiniteSet(S) /\ Cardinality(S) = AddLimit * Cardinality(Groups)
  <2>1. IsFiniteSet(1 .. AddLimit) /\ Cardinality(1 .. AddLimit) = AddLimit
    <3>1. AddLimit \in Int /\ ~(1 > AddLimit)
      BY AddLimitAssumption
    <3> QED
      BY <3>1, FS_Interval
  <2> QED
    BY <2>1, FS_Product, GroupsAssumption
<1>3. f \in Injection(DOMAIN o_callback_groups, S)
  BY <1>1 DEF Injection, IsInjective
<1>4. Cardinality(DOMAIN o_callback_groups) <= Cardinality(S)
  BY <1>2, <1>3, FS_Injection
<1>5. /\ Len(o_callback_groups) \in Nat
      /\ Cardinality(DOMAIN o_callback_groups) = Len(o_callback_groups)
  <2>1. Len(o_callback_groups) \in Nat
        /\ DOMAIN o_callback_groups = 1 .. Len(o_callback_groups)
    BY DEF RegistryInv, RegistryTyped
  <2>2. Cardinality(1 .. Len(o_callback_groups))
        = IF 1 > Len(o_callback_groups) THEN 0 ELSE Len(o_callback_groups) - 1 + 1
    BY <2>1, FS_Interval
  <2> QED
    BY <2>1, <2>2
<1>6. Cardinality(S) \in Nat
  BY <1>2, FS_CardinalityType
<1> QED
  BY <1>2, <1>4, <1>5, <1>6 DEF Entries

(* So the entries of o_callback_groups can name the threads.               *)
LEMMA EntryType ==
  ASSUME RegistryInv, NEW i \in DOMAIN o_callback_groups
  PROVE  i \in Entries /\ o_callback_groups[i] \in Groups
<1>1. AddLimit * Cardinality(Groups) \in Nat
  <2>1. Cardinality(Groups) \in Nat
    BY FS_CardinalityType, GroupsAssumption
  <2> QED
    BY <2>1, AddLimitAssumption
<1>2. /\ DOMAIN o_callback_groups = 1 .. Len(o_callback_groups)
      /\ Len(o_callback_groups) \in Nat
      /\ o_callback_groups[i] \in Groups
  BY DEF RegistryInv, RegistryTyped
<1>3. Len(o_callback_groups) <= AddLimit * Cardinality(Groups)
  BY <1>1, <1>2, EntriesBound DEF Entries
<1> QED
  BY <1>1, <1>2, <1>3 DEF Entries

-----------------------------------------------------------------------------
(* The composition: the timers and the recvers of an executor take the     *)
(* steps of their own modules and no others.                               *)

(* While it activates the executor stands at one of its entries.           *)
LEMMA ActivatingEntry ==
  ASSUME RegistryInv, Activating
  PROVE  started.entry \in DOMAIN o_callback_groups /\ started.entry \in Entries
<1>1. started.entry \in DOMAIN o_callback_groups
  BY DEF Activating, RegistryInv, RegistryTyped, PositionType
<1> QED
  BY <1>1, EntryType

(* A step of the executor is a step of one timer or none of the timers'.   *)
LEMMA TimerStep == RegistryInv /\ [Next]_vars => [T!TimerNext]_(T!timerVars)
<1> SUFFICES ASSUME RegistryInv, [Next]_vars PROVE [T!TimerNext]_(T!timerVars)
  OBVIOUS
<1>1. CASE UNCHANGED timerVars
  BY <1>1 DEF timerVars, T!timerVars
<1>2. CASE ActivateNext
  <2>1. started.entry \in Entries
    BY <1>2, ActivatingEntry DEF ActivateNext
  <2> QED
    BY <1>1, <1>2, <2>1 DEF ActivateNext, T!TimerNext
<1>3. ASSUME NEW w \in Workers, WorkerStep(w) PROVE [T!TimerNext]_(T!timerVars)
  <2>1. CASE ExamineTimer(w)
    BY <2>1, ExaminedType DEF ExamineTimer, RegistryInv, T!TimerNext
  <2>2. CASE ~ExamineTimer(w)
    <3>1. UNCHANGED timerVars
      BY <1>3, <2>2 DEF WorkerStep, Lock, ExamineRecver, NextList, NothingReady,
                        SleepOver, FinishTimer, ClearRecver, NotifyRecver
    <3> QED
      BY <1>1, <3>1
  <2> QED
    BY <2>1, <2>2
<1>4. ASSUME NEW k \in Entries, NEW t \in Timers, TickerStep(t, k)
      PROVE  [T!TimerNext]_(T!timerVars)
  BY <1>4 DEF TickerStep, T!TimerNext
<1>5. ASSUME NEW k \in Entries, NEW r \in Recvers, ListenerStep(r, k)
      PROVE  [T!TimerNext]_(T!timerVars)
  BY <1>1, <1>5 DEF ListenerStep
<1>6. ASSUME \/ \E g \in Groups : CreateGroup(g)
             \/ \E t \in Timers : CreateTimer(t)
             \/ \E r \in Recvers : CreateRecver(r)
             \/ \E n \in Nodes : AddNode(n)
             \/ Spin \/ ActivateNextGroup \/ Launch \/ UNCHANGED vars
      PROVE  [T!TimerNext]_(T!timerVars)
  BY <1>1, <1>6 DEF CreateGroup, CreateTimer, CreateRecver, AddNode, Spin,
                    ActivateNextGroup, Launch, vars
<1> QED
  BY <1>2, <1>3, <1>4, <1>5, <1>6 DEF Next

(* ... and of one recver or none of the recvers'.                          *)
LEMMA RecverStep == RegistryInv /\ [Next]_vars => [R!Next]_(R!vars)
<1> SUFFICES ASSUME RegistryInv, [Next]_vars PROVE [R!Next]_(R!vars)
  OBVIOUS
<1>1. CASE UNCHANGED recverVars
  BY <1>1 DEF recverVars, R!vars
<1>2. CASE ActivateNext
  <2>1. started.entry \in Entries
    BY <1>2, ActivatingEntry DEF ActivateNext
  <2> QED
    BY <1>1, <1>2, <2>1 DEF ActivateNext, R!Next
<1>3. ASSUME NEW w \in Workers, WorkerStep(w) PROVE [R!Next]_(R!vars)
  <2>1. CASE ExamineRecver(w)
    <3>1. CASE R!Take(Examined, w)
      BY <2>1, <3>1, ExaminedType DEF ExamineRecver, RegistryInv, R!Next, R!WorkerStep
    <3> QED
      BY <1>1, <2>1, <3>1 DEF ExamineRecver
  <2>2. CASE ClearRecver(w)
    BY <2>2 DEF ClearRecver, R!Next, R!WorkerStep
  <2>3. CASE NotifyRecver(w)
    BY <2>3 DEF NotifyRecver, R!Next, R!WorkerStep
  <2>4. CASE ~ExamineRecver(w) /\ ~ClearRecver(w) /\ ~NotifyRecver(w)
    <3>1. UNCHANGED recverVars
      BY <1>3, <2>4 DEF WorkerStep, Lock, ExamineTimer, NextList, NothingReady,
                        SleepOver, FinishTimer
    <3> QED
      BY <1>1, <3>1
  <2> QED
    BY <2>1, <2>2, <2>3, <2>4
<1>4. ASSUME NEW k \in Entries, NEW t \in Timers, TickerStep(t, k)
      PROVE  [R!Next]_(R!vars)
  BY <1>1, <1>4 DEF TickerStep
<1>5. ASSUME NEW k \in Entries, NEW r \in Recvers, ListenerStep(r, k)
      PROVE  [R!Next]_(R!vars)
  BY <1>5 DEF ListenerStep, R!Next
<1>6. ASSUME \/ \E g \in Groups : CreateGroup(g)
             \/ \E t \in Timers : CreateTimer(t)
             \/ \E r \in Recvers : CreateRecver(r)
             \/ \E n \in Nodes : AddNode(n)
             \/ Spin \/ ActivateNextGroup \/ Launch \/ UNCHANGED vars
      PROVE  [R!Next]_(R!vars)
  BY <1>1, <1>6 DEF CreateGroup, CreateTimer, CreateRecver, AddNode, Spin,
                    ActivateNextGroup, Launch, vars
<1> QED
  BY <1>2, <1>3, <1>4, <1>5, <1>6 DEF Next

(* The timers of an executor behave as Timer says.                         *)
THEOREM TimersImplemented == Spec => T!TimerSpec
<1>1. Init => T!TimerInit
  BY DEF Init
<1> QED
  BY <1>1, TimerStep, RegistryCorrect, PTL DEF Spec, T!TimerSpec

(* The recvers of an executor behave as Recver says.                       *)
THEOREM RecversImplemented == Spec => R!Spec
<1>1. Init => R!Init
  BY DEF Init
<1> QED
  BY <1>1, RecverStep, RegistryCorrect, PTL DEF Spec, R!Spec

(* T and EP are instances of the same definitions of Timer.                *)
LEMMA SameTimer == (T!TimerSpec <=> EP!TimerSpec) /\ (T!TimerTypeOK <=> EP!TimerTypeOK)
<1>1. T!TimerInit <=> EP!TimerInit
  BY DEF T!TimerInit, EP!TimerInit
<1>2. T!TimerNext <=> EP!TimerNext
  BY DEF T!TimerNext, EP!TimerNext, T!StartTicker, EP!StartTicker, T!Stop, EP!Stop,
         T!GetReady, EP!GetReady, T!TickerStep, EP!TickerStep, T!Loop, EP!Loop,
         T!Wake, EP!Wake, T!StoreTick, EP!StoreTick, T!GoTicker, EP!GoTicker
<1>3. T!timerVars = EP!timerVars
  BY DEF T!timerVars, EP!timerVars
<1>4. T!TimerTypeOK <=> EP!TimerTypeOK
  BY DEF T!TimerTypeOK, EP!TimerTypeOK, T!TickerPC, EP!TickerPC
<1>5. [T!TimerNext]_(T!timerVars) <=> [EP!TimerNext]_(EP!timerVars)
  BY <1>2 DEF T!timerVars, EP!timerVars
<1> QED
  BY <1>1, <1>4, <1>5, PTL DEF T!TimerSpec, EP!TimerSpec

(* The same of the recvers.                                                *)
LEMMA SameRecver ==
  /\ R!Spec <=> EP!Spec
  /\ R!TypeOK <=> EP!TypeOK
  /\ R!CheckCallbackExclusion <=> EP!CheckCallbackExclusion
  /\ R!NoEventErased <=> EP!NoEventErased
<1>1. R!Init <=> EP!Init
  BY DEF R!Init, EP!Init
<1>2. R!Next <=> EP!Next
  BY DEF R!Next, EP!Next, R!Start, EP!Start, R!ListenerStep, EP!ListenerStep,
         R!Test, EP!Test, R!Block, EP!Block, R!SpuriousWake, EP!SpuriousWake,
         R!Check, EP!Check, R!Store, EP!Store, R!WorkerStep, EP!WorkerStep,
         R!Take, EP!Take, R!Clear, EP!Clear, R!Notify, EP!Notify,
         R!Waiters, EP!Waiters, R!GoListener, EP!GoListener, R!GoExec, EP!GoExec
<1>3. R!TypeOK <=> EP!TypeOK
  BY DEF R!TypeOK, EP!TypeOK, R!ListenerPC, EP!ListenerPC, R!ExecPC, EP!ExecPC
<1>4. [R!Next]_(R!vars) <=> [EP!Next]_(EP!vars)
  BY <1>2 DEF R!vars, EP!vars
<1>5. R!CheckCallbackExclusion <=> EP!CheckCallbackExclusion
  BY DEF R!CheckCallbackExclusion, EP!CheckCallbackExclusion,
         R!Detecting, EP!Detecting, R!Handling, EP!Handling
<1>6. R!NoEventErased <=> EP!NoEventErased
  BY DEF R!NoEventErased, EP!NoEventErased
<1> QED
  BY <1>1, <1>3, <1>4, <1>5, <1>6, PTL DEF R!Spec, EP!Spec

(* ... their refinements of EventChannel included.                         *)
LEMMA SameChannel == R!ImplementsChannel <=> EP!ImplementsChannel
<1>1. \A r \in Recvers : R!Phase(r) = EP!Phase(r) /\ R!Phase(r)' = EP!Phase(r)'
  BY DEF R!Phase, EP!Phase, R!Detecting, EP!Detecting, R!Handling, EP!Handling
<1>2. /\ [r \in Recvers |-> R!Phase(r)] = [r \in Recvers |-> EP!Phase(r)]
      /\ [r \in Recvers |-> R!Phase(r)]' = [r \in Recvers |-> EP!Phase(r)]'
  BY <1>1
<1>3. R!Channel!Init <=> EP!Channel!Init
  BY <1>2 DEF R!Channel!Init, EP!Channel!Init
<1>4. [R!Channel!Next]_([r \in Recvers |-> R!Phase(r)])
        <=> [EP!Channel!Next]_([r \in Recvers |-> EP!Phase(r)])
  BY <1>2
     DEF R!Channel!Next, EP!Channel!Next, R!Channel!Move, EP!Channel!Move,
         R!Channel!Watch, EP!Channel!Watch, R!Channel!Abandon, EP!Channel!Abandon,
         R!Channel!Announce, EP!Channel!Announce, R!Channel!Take, EP!Channel!Take,
         R!Channel!Finish, EP!Channel!Finish
<1> QED
  BY <1>3, <1>4, PTL
     DEF R!ImplementsChannel, EP!ImplementsChannel, R!Channel!Spec, EP!Channel!Spec

(* The registry, the workers and the threads behind the executables keep   *)
(* their types, however often nodes are added.                             *)
THEOREM TypeCorrect == Spec => []TypeOK
<1>1. T!TimerSpec => []T!TimerTypeOK
  BY EP!TimerTypeCorrect, SameTimer, UninitReadyAssumption, PTL
<1>2. R!Spec => []R!TypeOK
  BY EP!TypeCorrect, SameRecver, UninitReadyAssumption, PTL
<1>3. RegistryInv /\ T!TimerTypeOK /\ R!TypeOK => TypeOK
  <2> SUFFICES ASSUME RegistryInv, T!TimerTypeOK, R!TypeOK PROVE TypeOK
    OBVIOUS
  <2>1. started \in [entry : Nat, pos : Nat]
    <3>1. started \in PositionType
      BY DEF RegistryInv, RegistryTyped
    <3> QED
      BY <3>1 DEF PositionType
  <2>2. cursor \in [entry : Nat, kind : Kinds, pos : Nat]
    <3>1. cursor \in CursorType
      BY DEF RegistryInv, RegistryTyped
    <3> QED
      BY <3>1 DEF CursorType
  <2> QED
    BY <2>1, <2>2, EntriesBound DEF RegistryInv, RegistryTyped, TypeOK
<1> QED
  BY <1>1, <1>2, <1>3, RegistryCorrect, TimersImplemented, RecversImplemented, PTL

-----------------------------------------------------------------------------
(* The threads behind the objects.                                         *)

(* A worker that was launched is never off again, and no other is          *)
(* launched by what it does.                                               *)
LEMMA LaunchedStays ==
  ASSUME RegistryInv, [Next]_vars, ~Launch
  PROVE  \/ UNCHANGED worker
         \/ \E w \in Workers, to \in WorkerPC \ {"off"} :
              worker[w] # "off" /\ worker' = [worker EXCEPT ![w] = to]
<1>1. ASSUME NEW w \in Workers, NEW from, NEW to \in WorkerPC \ {"off"},
             from # "off", GoWorker(w, from, to)
      PROVE  \E v \in Workers, pc \in WorkerPC \ {"off"} :
               worker[v] # "off" /\ worker' = [worker EXCEPT ![v] = pc]
  BY <1>1 DEF GoWorker
<1>2. \A x \in Executables : x \in WorkerPC \ {"off"}
  BY KindsAssumption DEF WorkerPC
<1>3. {"idle", "scan", "sleep"} \subseteq WorkerPC \ {"off"}
  BY DEF WorkerPC
<1>4. ASSUME NEW w \in Workers, WorkerStep(w)
      PROVE  \/ UNCHANGED worker
             \/ \E v \in Workers, to \in WorkerPC \ {"off"} :
                  worker[v] # "off" /\ worker' = [worker EXCEPT ![v] = to]
  <2>1. CASE ExamineTimer(w) \/ ExamineRecver(w)
    <3>1. Examined \in Executables
      BY <2>1, ExaminedType DEF ExamineTimer, ExamineRecver, RegistryInv, Executables
    <3> QED
      BY <1>1, <1>2, <2>1, <3>1 DEF ExamineTimer, ExamineRecver
  <2>2. CASE FinishTimer(w) \/ NotifyRecver(w)
    <3>1. worker[w] \in Executables
      BY <2>2 DEF FinishTimer, NotifyRecver, Executables
    <3> QED
      BY <1>1, <1>2, <1>3, <2>2, <3>1 DEF FinishTimer, NotifyRecver
  <2>3. CASE Lock(w) \/ NothingReady(w) \/ SleepOver(w)
    BY <1>1, <1>3, <2>3 DEF Lock, NothingReady, SleepOver
  <2>4. CASE NextList(w) \/ ClearRecver(w)
    BY <2>4 DEF NextList, ClearRecver
  <2> QED
    BY <1>4, <2>1, <2>2, <2>3, <2>4 DEF WorkerStep
<1> QED
  BY <1>4 DEF Next, vars, CreateGroup, CreateTimer, CreateRecver, AddNode, Spin,
              ActivateNext, ActivateNextGroup, TickerStep, ListenerStep

(* Only Launch changes whether the workers run.                            *)
LEMMA LaunchedSame ==
  ASSUME RegistryInv, SpinOrdered, [Next]_vars, ~Launch
  PROVE  /\ Launched' <=> Launched
         /\ ~Launched' => \A w \in Workers : worker'[w] = "off"
<1>1. CASE UNCHANGED worker
  BY <1>1 DEF Launched, SpinOrdered
<1>2. ASSUME NEW w \in Workers, NEW to \in WorkerPC \ {"off"},
             worker[w] # "off", worker' = [worker EXCEPT ![w] = to]
      PROVE  Launched /\ Launched'
  <2>1. Launched
    BY <1>2 DEF SpinOrdered
  <2> QED
    BY <1>2, <2>1 DEF Launched, RegistryInv, RegistryTyped
<1> QED
  BY <1>1, <1>2, LaunchedStays

(* A thread that runs goes on: only start() makes one.                     *)
LEMMA SameThreads ==
  ASSUME RegistryInv, T!TimerTypeOK, R!TypeOK, [Next]_vars, ~ActivateNext,
         NEW x \in Executables, NEW k \in Entries
  PROVE  HasThread(x, k)' <=> HasThread(x, k)
<1>1. UNCHANGED ticker
      \/ \E t \in Timers, l \in Entries, to \in T!TickerPC \ {"none"} :
           ticker[t][l] # "none" /\ ticker' = [ticker EXCEPT ![t][l] = to]
  <2>1. ASSUME NEW t \in Timers, NEW l \in Entries, TickerStep(t, l)
        PROVE  \E to \in T!TickerPC \ {"none"} :
                 ticker[t][l] # "none" /\ ticker' = [ticker EXCEPT ![t][l] = to]
    BY <2>1 DEF TickerStep, T!TickerStep, T!Loop, T!Wake, T!StoreTick, T!GoTicker,
                T!TickerPC
  <2>2. ASSUME NEW w \in Workers, WorkerStep(w) PROVE UNCHANGED ticker
    BY <2>2 DEF WorkerStep, timerVars, Lock, ExamineTimer, T!GetReady,
                ExamineRecver, NextList, NothingReady, SleepOver, FinishTimer,
                ClearRecver, NotifyRecver
  <2> QED
    BY <2>1, <2>2
       DEF Next, vars, timerVars, CreateGroup, CreateTimer, CreateRecver, AddNode,
           Spin, ActivateNextGroup, Launch, ListenerStep
<1>2. UNCHANGED listener
      \/ \E r \in Recvers, l \in Entries, to \in R!ListenerPC \ {"none"} :
           listener[r][l] # "none" /\ listener' = [listener EXCEPT ![r][l] = to]
  <2>1. ASSUME NEW r \in Recvers, NEW l \in Entries, ListenerStep(r, l)
        PROVE  \E to \in R!ListenerPC \ {"none"} :
                 listener[r][l] # "none" /\ listener' = [listener EXCEPT ![r][l] = to]
    BY <2>1 DEF ListenerStep, R!ListenerStep, R!Test, R!Block, R!SpuriousWake,
                R!Check, R!Store, R!GoListener, R!ListenerPC
  <2>2. ASSUME NEW w \in Workers, WorkerStep(w)
        PROVE  UNCHANGED listener
               \/ \E r \in Recvers, l \in Entries, to \in R!ListenerPC \ {"none"} :
                    listener[r][l] # "none"
                    /\ listener' = [listener EXCEPT ![r][l] = to]
    <3>1. CASE NotifyRecver(w)
      BY <3>1 DEF NotifyRecver, R!Notify, R!Waiters, R!GoListener, R!ListenerPC
    <3>2. CASE ~NotifyRecver(w)
      BY <2>2, <3>2
         DEF WorkerStep, recverVars, Lock, ExamineTimer, ExamineRecver, R!Take,
             NextList, NothingReady, SleepOver, FinishTimer, ClearRecver, R!Clear
    <3> QED
      BY <3>1, <3>2
  <2> QED
    BY <2>1, <2>2
       DEF Next, vars, recverVars, CreateGroup, CreateTimer, CreateRecver, AddNode,
           Spin, ActivateNextGroup, Launch, TickerStep
<1>3. x \in Timers => (ticker'[x][k] # "none" <=> ticker[x][k] # "none")
  BY <1>1 DEF T!TimerTypeOK
<1>4. x \in Recvers => (listener'[x][k] # "none" <=> listener[x][k] # "none")
  <2>1. listener \in [Recvers -> [Entries -> R!ListenerPC]]
    BY DEF R!TypeOK
  <2>2. ASSUME NEW r \in Recvers, NEW l \in Entries,
               NEW to \in R!ListenerPC \ {"none"}, listener[r][l] # "none",
               listener' = [listener EXCEPT ![r][l] = to], x \in Recvers
        PROVE  listener'[x][k] # "none" <=> listener[x][k] # "none"
    BY <2>1, <2>2
  <2> QED
    BY <1>2, <2>2
<1> QED
  BY <1>3, <1>4 DEF HasThread, Executables

(* spin() keeps its order.                                                 *)
LEMMA SpinOrderedStep ==
  ASSUME RegistryInv, SpinOrdered, [Next]_vars
  PROVE  SpinOrdered'
<1>1. CASE Launch
  <2>1. Launched'
    BY <1>1 DEF Launch, Launched
  <2> QED
    BY <1>1, <2>1 DEF Launch, SpinOrdered
<1>2. CASE ~Launch
  <2>1. /\ Launched' <=> Launched
        /\ ~Launched' => \A w \in Workers : worker'[w] = "off"
    BY <1>2, LaunchedSame
  <2>2. ~m_spinning' => /\ ~m_spinning
                        /\ started' = started
    BY <1>2, WorkerRegistryTyped
       DEF Next, vars, CreateGroup, CreateTimer, CreateRecver, AddNode, Spin,
           ActivateNext, ActivateNextGroup, Activating, TickerStep, ListenerStep,
           RegistryInv
  <2>3. ASSUME ~Launched
        PROVE  \A g \in Groups :
                 /\ \A i \in DOMAIN o_timers'[g] : o_timers'[g][i] \notin Late
                 /\ \A i \in DOMAIN o_recvers'[g] : o_recvers'[g][i] \notin Late
    <3>1. CASE UNCHANGED <<o_timers, o_recvers>>
      BY <2>3, <3>1 DEF SpinOrdered
    <3>2. ASSUME NEW t \in Timers, CreateTimer(t),
                 NEW g \in Groups, NEW i \in DOMAIN o_timers'[g]
          PROVE  o_timers'[g][i] \notin Late
      <4>1. t \notin Late
        BY <2>3, <3>2 DEF CreateTimer, MayCreateExecutable, MayCreate
      <4>2. GroupOf[t] \in Groups /\ o_timers \in [Groups -> Seq(Timers)]
        BY PlacementAssumption DEF RegistryInv, RegistryTyped, Executables
      <4>3. \A j \in DOMAIN o_timers[g] : o_timers[g][j] \notin Late
        BY <2>3 DEF SpinOrdered
      <4>4. o_timers' = [o_timers EXCEPT ![GroupOf[t]] = Append(@, t)]
        BY <3>2 DEF CreateTimer
      <4> QED
        BY <3>2, <4>1, <4>2, <4>3, <4>4, AppendProperties
    <3>3. ASSUME NEW r \in Recvers, CreateRecver(r),
                 NEW g \in Groups, NEW i \in DOMAIN o_recvers'[g]
          PROVE  o_recvers'[g][i] \notin Late
      <4>1. r \notin Late
        BY <2>3, <3>3 DEF CreateRecver, MayCreateExecutable, MayCreate
      <4>2. GroupOf[r] \in Groups /\ o_recvers \in [Groups -> Seq(Recvers)]
        BY PlacementAssumption DEF RegistryInv, RegistryTyped, Executables
      <4>3. \A j \in DOMAIN o_recvers[g] : o_recvers[g][j] \notin Late
        BY <2>3 DEF SpinOrdered
      <4>4. o_recvers' = [o_recvers EXCEPT ![GroupOf[r]] = Append(@, r)]
        BY <3>3 DEF CreateRecver
      <4> QED
        BY <3>3, <4>1, <4>2, <4>3, <4>4, AppendProperties
    <3>4. \/ UNCHANGED <<o_timers, o_recvers>>
          \/ \E t \in Timers : CreateTimer(t)
          \/ \E r \in Recvers : CreateRecver(r)
      BY <1>2, WorkerRegistryTyped
         DEF Next, vars, registry, CreateGroup, AddNode, Spin, ActivateNext,
             ActivateNextGroup, TickerStep, ListenerStep, RegistryInv
    <3>5. ASSUME NEW t \in Timers, CreateTimer(t) PROVE UNCHANGED o_recvers
      BY <3>5 DEF CreateTimer
    <3>6. ASSUME NEW r \in Recvers, CreateRecver(r) PROVE UNCHANGED o_timers
      BY <3>6 DEF CreateRecver
    <3> QED
      BY <2>3, <3>1, <3>2, <3>3, <3>4, <3>5, <3>6 DEF SpinOrdered
  <2> QED
    BY <2>1, <2>2, <2>3 DEF SpinOrdered
<1> QED
  BY <1>1, <1>2

(* No entry has started anything.                                          *)
NoneStarted ==
  \A x \in Executables, k \in Entries :
    ~(k \in DOMAIN o_callback_groups /\ Started(x, k))

(* Before spin() nothing is started.                                       *)
LEMMA NothingStarted == RegistryInv /\ SpinOrdered /\ ~m_spinning => NoneStarted
<1> SUFFICES ASSUME RegistryInv, SpinOrdered, ~m_spinning,
                    NEW x \in Executables, NEW k \in DOMAIN o_callback_groups,
                    Started(x, k)
             PROVE  FALSE
  BY DEF NoneStarted
<1>1. ~Launched /\ started.entry = 1 /\ started.pos = 0
  BY DEF SpinOrdered
<1>2. o_callback_groups[k] \in Groups /\ k \in Nat /\ k >= 1
  BY DEF RegistryInv, RegistryTyped
<1>3. PICK j \in DOMAIN Members(o_callback_groups[k]) :
        k < started.entry \/ (k = started.entry /\ j <= started.pos)
  BY <1>1 DEF Started
<1>4. j \in Nat /\ j >= 1
  <2>1. Members(o_callback_groups[k]) \in Seq(Executables)
    BY <1>2, MembersType DEF RegistryInv
  <2> QED
    BY <2>1
<1> QED
  BY <1>1, <1>2, <1>3, <1>4

(* The same of the state after a step.                                     *)
LEMMA NothingStartedNext ==
  (RegistryInv /\ SpinOrdered /\ ~m_spinning => NoneStarted)'
BY NothingStarted, PTL

(* The members of a group after a step.                                    *)
LEMMA MembersRangeNext ==
  (RegistryTyped
    => \A g \in Groups :
         Range(Members(g)) = Range(o_timers[g]) \cup Range(o_recvers[g]))'
<1>1. RegistryTyped
        => \A g \in Groups :
             Range(Members(g)) = Range(o_timers[g]) \cup Range(o_recvers[g])
  BY MembersRange
<1> QED
  BY <1>1, PTL

(* Appending adds one element to the range.                                *)
LEMMA AppendRange ==
  ASSUME NEW S, NEW s \in Seq(S), NEW e \in S
  PROVE  Range(Append(s, e)) = Range(s) \cup {e}
<1>1. /\ DOMAIN Append(s, e) = 1 .. Len(s) + 1 /\ DOMAIN s = 1 .. Len(s)
      /\ Len(s) \in Nat
  BY AppendProperties
<1>2. /\ \A i \in 1 .. Len(s) : Append(s, e)[i] = s[i]
      /\ Append(s, e)[Len(s) + 1] = e
  BY AppendProperties
<1>3. \A i \in 1 .. Len(s) + 1 : i \in 1 .. Len(s) \/ i = Len(s) + 1
  BY <1>1
<1> QED
  BY <1>1, <1>2, <1>3 DEF Range

(* Steps that neither register nor activate anything leave the threads     *)
(* with what was started.                                                  *)
LEMMA QuietThreads ==
  ASSUME ThreadsStarted,
         UNCHANGED <<o_timers, o_recvers, o_callback_groups, started>>,
         Launched' <=> Launched,
         \A x \in Executables, k \in Entries : HasThread(x, k)' <=> HasThread(x, k)
  PROVE  ThreadsStarted'
<1>1. \A x, k : Started(x, k)' <=> Started(x, k)
  BY DEF Started, Members
<1> QED
  BY <1>1 DEF ThreadsStarted

(* Before spin() there are no threads, whatever is registered.             *)
LEMMA UnspunThreads ==
  ASSUME ThreadsStarted, RegistryInv, RegistryInv', SpinOrdered, SpinOrdered',
         ~m_spinning, ~m_spinning',
         \A x \in Executables, k \in Entries : HasThread(x, k)' <=> HasThread(x, k)
  PROVE  ThreadsStarted'
BY NothingStarted, NothingStartedNext DEF NoneStarted, ThreadsStarted

(* What a callback creates while the workers run is started by nobody.     *)
LEMMA LateThreads ==
  ASSUME ThreadsStarted, RegistryInv, RegistryInv', Launched, Launched',
         UNCHANGED o_callback_groups,
         \A x \in Executables, k \in Entries : HasThread(x, k)' <=> HasThread(x, k),
         \A g \in Groups :
           /\ Range(o_timers'[g]) \ Late = Range(o_timers[g]) \ Late
           /\ Range(o_recvers'[g]) \ Late = Range(o_recvers[g]) \ Late
  PROVE  ThreadsStarted'
<1>1. ASSUME NEW x \in Executables, NEW k \in DOMAIN o_callback_groups
      PROVE  Started(x, k)' <=> Started(x, k)
  <2>1. o_callback_groups[k] \in Groups
    BY DEF RegistryInv, RegistryTyped
  <2>2. Range(Members(o_callback_groups[k]))' \ Late
        = Range(Members(o_callback_groups[k])) \ Late
    <3>1. Range(Members(o_callback_groups[k]))
          = Range(o_timers[o_callback_groups[k]])
            \cup Range(o_recvers[o_callback_groups[k]])
      BY <2>1, MembersRange DEF RegistryInv
    <3>2. Range(Members(o_callback_groups[k]))'
          = Range(o_timers'[o_callback_groups[k]])
            \cup Range(o_recvers'[o_callback_groups[k]])
      BY <2>1, MembersRangeNext DEF RegistryInv
    <3> QED
      BY <2>1, <3>1, <3>2
  <2> QED
    BY <2>2 DEF Started
<1> QED
  BY <1>1 DEF ThreadsStarted

(* The loops of activate() and activate_callback_groups() count what they  *)
(* started.                                                                *)
LEMMA ActivateNextThreads ==
  ASSUME ThreadsStarted, RegistryInv, T!TimerTypeOK, R!TypeOK, ActivateNext
  PROVE  ThreadsStarted'
<1> DEFINE e == started.entry
           p == started.pos
           m == Members(o_callback_groups[e])
           y == m[p + 1]
<1>1. e \in DOMAIN o_callback_groups /\ e \in Entries
  BY ActivatingEntry DEF ActivateNext
<1>2. o_callback_groups[e] \in Groups
  BY <1>1, EntryType
<1>3. m \in Seq(Executables)
  BY <1>2, MembersType DEF RegistryInv
<1>4. p \in Nat /\ e \in Nat /\ p + 1 \in DOMAIN m /\ y \in Executables
  <2>1. p \in Nat /\ e \in Nat
    BY DEF RegistryInv, RegistryTyped, PositionType
  <2>2. p < Len(m)
    BY DEF ActivateNext, Activated
  <2> QED
    BY <1>3, <2>1, <2>2
<1>5. started' = [entry |-> e, pos |-> p + 1]
  <2>1. started \in PositionType /\ started' = [started EXCEPT !.pos = @ + 1]
    BY DEF RegistryInv, RegistryTyped, ActivateNext
  <2> QED
    BY <2>1 DEF PositionType
<1>6. \/ y \in Timers /\ T!StartTicker(y, e) /\ UNCHANGED recverVars
      \/ y \in Recvers /\ R!Start(y, e) /\ UNCHANGED timerVars
  BY DEF ActivateNext, Activated
<1>7. ASSUME NEW x \in Executables, NEW k \in Entries
      PROVE  HasThread(x, k)' <=> HasThread(x, k) \/ (x = y /\ k = e)
  <2>1. CASE y \in Timers /\ T!StartTicker(y, e) /\ UNCHANGED recverVars
    <3>1. ticker \in [Timers -> [Entries -> T!TickerPC]]
          /\ ticker' = [ticker EXCEPT ![y][e] = "loop"] /\ UNCHANGED listener
      BY <2>1 DEF T!TimerTypeOK, T!StartTicker, T!GoTicker, recverVars
    <3> QED
      BY <1>1, <2>1, <3>1, KindsAssumption DEF HasThread
  <2>2. CASE y \in Recvers /\ R!Start(y, e) /\ UNCHANGED timerVars
    <3>1. listener \in [Recvers -> [Entries -> R!ListenerPC]]
          /\ listener' = [listener EXCEPT ![y][e] = "test"] /\ UNCHANGED ticker
      BY <2>2 DEF R!TypeOK, R!Start, R!GoListener, timerVars
    <3>2. y \notin Timers /\ (x \notin Timers => x \in Recvers)
      BY <2>2, KindsAssumption DEF Executables
    <3> QED
      BY <1>1, <2>2, <3>1, <3>2 DEF HasThread
  <2> QED
    BY <1>6, <2>1, <2>2
<1>8. ~Launched /\ ~Launched' /\ UNCHANGED <<o_timers, o_recvers, o_callback_groups>>
  BY DEF ActivateNext, Activating, registry, Launched
<1>9. ASSUME NEW x \in Executables, NEW k \in DOMAIN o_callback_groups
      PROVE  Started(x, k)' <=> Started(x, k) \/ (x = y /\ k = e)
  <2> DEFINE l == Members(o_callback_groups[k])
  <2>1. l' = l /\ l \in Seq(Executables) /\ k \in Nat
    <3>1. k \in Nat /\ o_callback_groups[k] \in Groups
      BY DEF RegistryInv, RegistryTyped
    <3>2. l \in Seq(Executables)
      BY <3>1, MembersType DEF RegistryInv
    <3> QED
      BY <1>8, <3>1, <3>2 DEF Members
  <2>2. Started(x, k) <=> \E j \in DOMAIN l :
                            l[j] = x /\ (k < e \/ (k = e /\ j <= p))
    BY <1>8 DEF Started
  <2>3. Started(x, k)' <=> \E j \in DOMAIN l :
                             l[j] = x /\ (k < e \/ (k = e /\ j <= p + 1))
    BY <1>5, <1>8, <2>1 DEF Started
  <2>4. \A j \in DOMAIN l : j \in Nat
    BY <2>1
  <2> HIDE DEF l
  <2>5. k = e => l = m
    BY DEF l
  <2> QED
    BY <1>4, <2>2, <2>3, <2>4, <2>5
<1> QED
  BY <1>1, <1>7, <1>8, <1>9 DEF ThreadsStarted

(* A group is left when all its objects are started.                       *)
LEMMA ActivateNextGroupThreads ==
  ASSUME ThreadsStarted, RegistryInv, T!TimerTypeOK, R!TypeOK, ActivateNextGroup
  PROVE  ThreadsStarted'
<1> DEFINE e == started.entry
           p == started.pos
<1>1. \A x, k : HasThread(x, k)' <=> HasThread(x, k)
  BY DEF ActivateNextGroup, timerVars, recverVars, HasThread
<1>2. ~Launched /\ ~Launched' /\ UNCHANGED <<o_timers, o_recvers, o_callback_groups>>
  BY DEF ActivateNextGroup, Activating, registry, Launched
<1>3. ASSUME NEW x \in Executables, NEW k \in DOMAIN o_callback_groups
      PROVE  Started(x, k)' <=> Started(x, k)
  <2> DEFINE l == Members(o_callback_groups[k])
  <2>1. l' = l /\ DOMAIN l = 1 .. Len(l) /\ Len(l) \in Nat /\ k \in Nat
    <3>1. k \in Nat /\ o_callback_groups[k] \in Groups
      BY DEF RegistryInv, RegistryTyped
    <3>2. l \in Seq(Executables)
      BY <3>1, MembersType DEF RegistryInv
    <3>3. DOMAIN l = 1 .. Len(l) /\ Len(l) \in Nat
      BY <3>2
    <3> QED
      BY <1>2, <3>1, <3>3 DEF Members
  <2>2. Started(x, k) <=> \E j \in DOMAIN l :
                            l[j] = x /\ (k < e \/ (k = e /\ j <= p))
    BY <1>2 DEF Started
  <2>3. Started(x, k)' <=> \E j \in DOMAIN l :
                             l[j] = x /\ (k < e + 1 \/ (k = e + 1 /\ j <= 0))
    <3>1. started' = [entry |-> e + 1, pos |-> 0]
      BY DEF ActivateNextGroup
    <3> QED
      BY <1>2, <2>1, <3>1 DEF Started
  <2>4. e \in Nat /\ p \in Nat
    BY DEF RegistryInv, RegistryTyped, PositionType
  <2>5. k = e => p = Len(l)
    BY DEF ActivateNextGroup, Activated
  <2> HIDE DEF l
  <2> QED
    BY <2>1, <2>2, <2>3, <2>4, <2>5
<1> QED
  BY <1>1, <1>2, <1>3 DEF ThreadsStarted

(* When the workers are launched every entry has been walked to its end.   *)
LEMMA LaunchThreads ==
  ASSUME ThreadsStarted, RegistryInv, SpinOrdered, Launch
  PROVE  ThreadsStarted'
<1>1. \A x, k : HasThread(x, k)' <=> HasThread(x, k)
  BY DEF Launch, timerVars, recverVars, HasThread
<1>2. ~Launched /\ Launched' /\ UNCHANGED <<o_timers, o_recvers, o_callback_groups>>
  BY DEF Launch, registry, Launched
<1>3. ASSUME NEW x \in Executables, NEW k \in DOMAIN o_callback_groups
      PROVE  Started(x, k)' <=> Started(x, k)
  <2> DEFINE g == o_callback_groups[k]
  <2>1. k \in Nat /\ k < started.entry /\ g \in Groups
    BY DEF Launch, RegistryInv, RegistryTyped, PositionType
  <2>2. Started(x, k) <=> x \in Range(Members(g))
    BY <1>2, <2>1 DEF Started, Range
  <2>3. Started(x, k)' <=> x \in Range(Members(g)) \ Late
    BY <1>2 DEF Started, Members
  <2>4. Range(Members(g)) \cap Late = {}
    <3>1. Range(Members(g)) = Range(o_timers[g]) \cup Range(o_recvers[g])
      BY <2>1, MembersRange DEF RegistryInv
    <3>2. Range(o_timers[g]) \cap Late = {} /\ Range(o_recvers[g]) \cap Late = {}
      BY <1>2, <2>1 DEF SpinOrdered, Range
    <3> QED
      BY <3>1, <3>2
  <2> QED
    BY <2>2, <2>3, <2>4
<1> QED
  BY <1>1, <1>2, <1>3 DEF ThreadsStarted

(* Every step keeps the threads with what was started.                     *)
LEMMA ThreadsStep ==
  ASSUME ThreadsInv, RegistryInv, T!TimerTypeOK, R!TypeOK, [Next]_vars
  PROVE  ThreadsInv'
<1> USE DEF ThreadsInv
<1>1. RegistryInv' /\ SpinOrdered'
  BY RegistryStep, SpinOrderedStep
<1>2. ASSUME ~ActivateNext
      PROVE  \A x \in Executables, k \in Entries :
               HasThread(x, k)' <=> HasThread(x, k)
  BY <1>2, SameThreads
<1>3. ASSUME ~ActivateNext, ~Launch,
             UNCHANGED <<o_timers, o_recvers, o_callback_groups, started>>
      PROVE  ThreadsStarted'
  BY <1>2, <1>3, LaunchedSame, QuietThreads
<1>4. ASSUME ~ActivateNext, ~m_spinning, ~m_spinning' PROVE ThreadsStarted'
  BY <1>1, <1>2, <1>4, UnspunThreads
<1>5. CASE Launch
  BY <1>1, <1>5, LaunchThreads
<1>6. CASE ActivateNext
  BY <1>1, <1>6, ActivateNextThreads
<1>7. CASE ActivateNextGroup
  BY <1>1, <1>7, ActivateNextGroupThreads
<1> USE DEF Activating
<1>8. ASSUME NEW t \in Timers, CreateTimer(t) PROVE ThreadsStarted'
  <2>1. ~ActivateNext /\ ~Launch
    BY <1>8 DEF CreateTimer, MayCreateExecutable, MayCreate, ActivateNext, Launch
  <2>2. CASE t \in Late
    <3>1. Launched /\ Launched'
      BY <1>8, <2>1, <2>2, LaunchedSame DEF CreateTimer, MayCreateExecutable, MayCreate
    <3>2. /\ GroupOf[t] \in Groups
          /\ o_timers \in [Groups -> Seq(Timers)]
          /\ o_timers' = [o_timers EXCEPT ![GroupOf[t]] = Append(@, t)]
          /\ UNCHANGED <<o_recvers, o_callback_groups>>
      BY <1>8, PlacementAssumption
         DEF CreateTimer, RegistryInv, RegistryTyped, Executables
    <3>3. Range(Append(o_timers[GroupOf[t]], t)) = Range(o_timers[GroupOf[t]]) \cup {t}
      BY <3>2, AppendRange
    <3>4. ASSUME NEW g \in Groups
          PROVE  Range(o_timers'[g]) \ Late = Range(o_timers[g]) \ Late
      <4>1. CASE g = GroupOf[t]
        BY <2>2, <3>2, <3>3, <4>1
      <4>2. CASE g # GroupOf[t]
        BY <3>2, <4>2
      <4> QED
        BY <4>1, <4>2
    <3> QED
      BY <1>1, <1>2, <2>1, <3>1, <3>2, <3>4, LateThreads
  <2>3. CASE t \notin Late
    BY <1>4, <1>8, <2>1, <2>3 DEF CreateTimer, MayCreateExecutable, MayCreate
  <2> QED
    BY <2>2, <2>3
<1>9. ASSUME NEW r \in Recvers, CreateRecver(r) PROVE ThreadsStarted'
  <2>1. ~ActivateNext /\ ~Launch
    BY <1>9 DEF CreateRecver, MayCreateExecutable, MayCreate, ActivateNext, Launch
  <2>2. CASE r \in Late
    <3>1. Launched /\ Launched'
      BY <1>9, <2>1, <2>2, LaunchedSame DEF CreateRecver, MayCreateExecutable, MayCreate
    <3>2. /\ GroupOf[r] \in Groups
          /\ o_recvers \in [Groups -> Seq(Recvers)]
          /\ o_recvers' = [o_recvers EXCEPT ![GroupOf[r]] = Append(@, r)]
          /\ UNCHANGED <<o_timers, o_callback_groups>>
      BY <1>9, PlacementAssumption
         DEF CreateRecver, RegistryInv, RegistryTyped, Executables
    <3>3. Range(Append(o_recvers[GroupOf[r]], r)) = Range(o_recvers[GroupOf[r]]) \cup {r}
      BY <3>2, AppendRange
    <3>4. ASSUME NEW g \in Groups
          PROVE  Range(o_recvers'[g]) \ Late = Range(o_recvers[g]) \ Late
      <4>1. CASE g = GroupOf[r]
        BY <2>2, <3>2, <3>3, <4>1
      <4>2. CASE g # GroupOf[r]
        BY <3>2, <4>2
      <4> QED
        BY <4>1, <4>2
    <3> QED
      BY <1>1, <1>2, <2>1, <3>1, <3>2, <3>4, LateThreads
  <2>3. CASE r \notin Late
    BY <1>4, <1>9, <2>1, <2>3 DEF CreateRecver, MayCreateExecutable, MayCreate
  <2> QED
    BY <2>2, <2>3
<1>10. ASSUME NEW n \in Nodes, AddNode(n) PROVE ThreadsStarted'
  BY <1>4, <1>10 DEF AddNode, ActivateNext
<1>11. ASSUME \/ UNCHANGED vars \/ Spin
              \/ \E g \in Groups : CreateGroup(g)
              \/ \E w \in Workers : WorkerStep(w)
              \/ \E k \in Entries :
                   \/ \E t \in Timers : TickerStep(t, k)
                   \/ \E r \in Recvers : ListenerStep(r, k)
       PROVE  UNCHANGED <<o_timers, o_recvers, o_callback_groups, started>>
  BY <1>11, WorkerRegistryTyped
     DEF vars, registry, Spin, CreateGroup, TickerStep, ListenerStep, RegistryInv
<1> QED
  BY <1>1, <1>3, <1>5, <1>6, <1>7, <1>8, <1>9, <1>10, <1>11 DEF Next

(* Nothing runs before spin().                                             *)
LEMMA ThreadsInit == Init => ThreadsInv
<1> SUFFICES ASSUME Init PROVE ThreadsInv
  OBVIOUS
<1>1. ~Launched /\ \A w \in Workers : worker[w] = "off"
  BY WorkersAssumption DEF Init, Launched
<1>2. SpinOrdered
  BY <1>1 DEF Init, SpinOrdered
<1>3. \A x \in Executables, k \in Entries : ~HasThread(x, k)
  BY DEF Init, T!TimerInit, R!Init, HasThread, Executables
<1>4. DOMAIN o_callback_groups = {}
  BY DEF Init
<1> QED
  BY <1>2, <1>3, <1>4 DEF ThreadsInv, ThreadsStarted

(* The threads are those of what was started, in every state.              *)
THEOREM ThreadsCorrect == Spec => []ThreadsInv
<1>1. TypeOK => T!TimerTypeOK /\ R!TypeOK
  BY DEF TypeOK
<1>2. ThreadsInv /\ RegistryInv /\ T!TimerTypeOK /\ R!TypeOK /\ [Next]_vars => ThreadsInv'
  BY ThreadsStep
<1> QED
  BY <1>1, <1>2, ThreadsInit, RegistryCorrect, TypeCorrect, PTL DEF Spec

(* When the workers start, each timer and recver has one thread for every  *)
(* entry of o_callback_groups that holds its group, unless a callback      *)
(* created it, and no other thread is there; however often nodes are added *)
(* and for any number of workers.                                          *)
THEOREM ThreadEach == Spec => []ThreadPerEntry
<1>1. ASSUME RegistryInv, ThreadsInv, Launched, NEW x \in Executables
      PROVE  Threads(x) = {i \in DOMAIN o_callback_groups :
                             x \in Range(Members(o_callback_groups[i])) \ Late}
  <2>1. \A k \in Entries : k \in Threads(x) <=> HasThread(x, k)
    BY DEF Threads, HasThread
  <2>2. \A k \in Entries :
          HasThread(x, k) <=> /\ k \in DOMAIN o_callback_groups
                              /\ x \in Range(Members(o_callback_groups[k])) \ Late
    BY <1>1 DEF ThreadsInv, ThreadsStarted, Started
  <2>3. Threads(x) \subseteq Entries
    BY DEF Threads
  <2>4. \A k \in DOMAIN o_callback_groups : k \in Entries
    BY <1>1, EntryType
  <2> QED
    BY <2>1, <2>2, <2>3, <2>4
<1>2. RegistryInv /\ ThreadsInv => ThreadPerEntry
  BY <1>1 DEF ThreadPerEntry
<1> QED
  BY <1>2, RegistryCorrect, ThreadsCorrect, PTL

-----------------------------------------------------------------------------
(* What follows when every node is added once.                             *)

(* Then no group is in the executor twice.                                 *)
LEMMA GroupsOnce ==
  ASSUME AddedOnce, RegistryInv,
         NEW i \in DOMAIN o_callback_groups, NEW j \in DOMAIN o_callback_groups,
         o_callback_groups[i] = o_callback_groups[j]
  PROVE  i = j
<1>1. PICK f \in [DOMAIN o_callback_groups -> (1 .. AddLimit) \X Groups] :
        /\ \A k, l \in DOMAIN o_callback_groups : f[k] = f[l] => k = l
        /\ \A k \in DOMAIN o_callback_groups : f[k][2] = o_callback_groups[k]
  BY DEF RegistryInv, EntriesCounted
<1>2. ASSUME NEW k \in DOMAIN o_callback_groups
      PROVE  f[k] = <<1, o_callback_groups[k]>>
  <2>1. f[k] \in (1 .. 1) \X Groups
    BY <1>1 DEF AddedOnce
  <2>2. f[k][1] \in 1 .. 1 /\ f[k] = <<f[k][1], f[k][2]>>
    BY <2>1
  <2>3. f[k][1] = 1
    BY <2>2
  <2> QED
    BY <1>1, <2>2, <2>3
<1> QED
  BY <1>1, <1>2

(* An entry starts the objects of its own group.                           *)
LEMMA StartedInGroup ==
  ASSUME RegistryInv, NEW x \in Executables, NEW k \in DOMAIN o_callback_groups,
         x \in Range(Members(o_callback_groups[k]))
  PROVE  o_callback_groups[k] = GroupOf[x]
<1>1. o_callback_groups[k] \in Groups
  BY DEF RegistryInv, RegistryTyped
<1>2. x \in Range(o_timers[o_callback_groups[k]])
      \/ x \in Range(o_recvers[o_callback_groups[k]])
  BY <1>1, MembersRange DEF RegistryInv
<1> QED
  BY <1>1, <1>2 DEF RegistryInv, ObjectsPlaced, Range

(* A thread belongs to an entry with the group of its object.              *)
LEMMA ThreadInGroup ==
  ASSUME RegistryInv, ThreadsInv, NEW x \in Executables, NEW k \in Entries,
         HasThread(x, k)
  PROVE  k \in DOMAIN o_callback_groups /\ o_callback_groups[k] = GroupOf[x]
<1>1. k \in DOMAIN o_callback_groups /\ Started(x, k)
  BY DEF ThreadsInv, ThreadsStarted
<1>2. x \in Range(Members(o_callback_groups[k]))
  BY <1>1 DEF Started, Range
<1> QED
  BY <1>1, <1>2, StartedInGroup

(* So no recver is started twice ...                                       *)
LEMMA SpawnedOnce ==
  ASSUME AddedOnce PROVE RegistryInv /\ ThreadsInv => EP!SpawnedOnce
<1> SUFFICES ASSUME RegistryInv, ThreadsInv, NEW r \in Recvers,
                    NEW k \in Entries, NEW l \in Entries,
                    listener[r][k] # "none", listener[r][l] # "none"
             PROVE  k = l
  BY DEF EP!SpawnedOnce
<1>1. r \in Executables /\ r \notin Timers
  BY KindsAssumption DEF Executables
<1>2. HasThread(r, k) /\ HasThread(r, l)
  BY <1>1 DEF HasThread
<1> QED
  BY <1>1, <1>2, ThreadInGroup, GroupsOnce

(* ... and with one worker what was proved of a recver alone holds in the  *)
(* executor: its check function never runs beside its callback,            *)
THEOREM Exclusion ==
  ASSUME AddedOnce, OneWorker PROVE Spec => []CheckCallbackExclusion
<1>1. EP!OneWorker
  BY DEF OneWorker, EP!OneWorker
<1>2. EP!Spec /\ []EP!SpawnedOnce => []EP!CheckCallbackExclusion
  BY <1>1, UninitReadyAssumption, EP!ExclusionWhenSpawnedOnce
<1> QED
  BY <1>2, SpawnedOnce, SameRecver, RegistryCorrect, ThreadsCorrect,
     RecversImplemented, PTL DEF CheckCallbackExclusion

(* no event is erased between the listener's store and the executor's      *)
(* load,                                                                   *)
THEOREM NothingErased ==
  ASSUME AddedOnce, OneWorker PROVE Spec => []NoEventErased
<1>1. EP!OneWorker
  BY DEF OneWorker, EP!OneWorker
<1>2. EP!Spec /\ []EP!SpawnedOnce => []EP!NoEventErased
  BY <1>1, UninitReadyAssumption, EP!NothingErasedWhenSpawnedOnce
<1> QED
  BY <1>2, SpawnedOnce, SameRecver, RegistryCorrect, ThreadsCorrect,
     RecversImplemented, PTL DEF NoEventErased

(* and it is, to its check function and callback, an EventChannel.         *)
THEOREM Implementation ==
  ASSUME AddedOnce, OneWorker PROVE Spec => ImplementsChannel
<1>1. EP!OneWorker
  BY DEF OneWorker, EP!OneWorker
<1>2. EP!Spec /\ []EP!SpawnedOnce => EP!ImplementsChannel
  BY <1>1, UninitReadyAssumption, EP!ImplementationWhenSpawnedOnce
<1> QED
  BY <1>2, SpawnedOnce, SameRecver, SameChannel, RegistryCorrect, ThreadsCorrect,
     RecversImplemented, PTL DEF ImplementsChannel
=============================================================================
