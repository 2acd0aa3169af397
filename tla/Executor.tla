------------------------------ MODULE Executor ------------------------------
(***************************************************************************)
(* smfcpp::Executor with the nodes and callback groups it serves: how      *)
(* timers and recvers get into a group, groups into an executor, how       *)
(* spin() starts the threads behind them, and how workers look for a ready *)
(* executable and run its callback.  A SingleThreadedExecutor is the       *)
(* executor with one worker, a MultiThreadExecutor the one with several.   *)
(*                                                                         *)
(* The timers and recvers themselves are the modules Timer and Recver; a   *)
(* step of the executor that touches one of them is a step of its module.  *)
(* Objects are not destroyed: nothing in the repository drops a node, a    *)
(* group, a timer or a recver while an executor spins.                     *)
(***************************************************************************)
EXTENDS Naturals, Sequences, FiniteSets, SequencesExt

CONSTANTS
  Nodes, Groups, Timers, Recvers,
  Workers,       \* the threads that execute run()
  DefaultGroup,  \* [Nodes -> Groups], the group every node is born with
  NodeOf,        \* [Groups -> Nodes], the node a group is created on
  GroupOf,       \* [Timers \cup Recvers -> Groups], the group passed to
                 \* create_timer and create_recver
  Late,          \* the objects that callbacks create while spin() runs
  AddLimit,      \* bound: how often one node is passed to add_node
  UninitReady    \* see Recver

Executables == Timers \cup Recvers

ASSUME PlacementAssumption ==
  /\ DefaultGroup \in [Nodes -> Groups]
  /\ NodeOf \in [Groups -> Nodes]
  /\ GroupOf \in [Executables -> Groups]
  /\ \A n \in Nodes : NodeOf[DefaultGroup[n]] = n
  /\ Late \subseteq Executables \cup (Groups \ Range(DefaultGroup))
  /\ \A x \in Executables \ Late : GroupOf[x] \notin Late

ASSUME AddLimitAssumption == AddLimit \in Nat \ {0}

(* An executor has a worker: n_threads of 0 is replaced.                   *)
ASSUME WorkersAssumption == Workers # {}

ASSUME GroupsAssumption == IsFiniteSet(Groups)

ASSUME UninitReadyAssumption == UninitReady \in SUBSET BOOLEAN

(* A timer is no recver and no executable is a state of a worker.          *)
ASSUME KindsAssumption ==
  /\ Timers \cap Recvers = {}
  /\ Executables \cap {"off", "idle", "scan", "sleep"} = {}

VARIABLES
  m_spinning,
  node_groups,       \* NodeBase::m_callback_groups
  o_timers,          \* CallbackGroup::o_timers
  o_recvers,         \* CallbackGroup::o_recvers
  o_callback_groups, \* Executor::o_callback_groups
  added,             \* how often add_node was called for a node
  started,           \* how far activate_callback_groups came: the entry and how
                     \* many of its objects it has started
  worker,            \* [Workers -> WorkerPC]
  cursor,            \* where the scan of the groups stands
  t_ready, m_running, ticker,
  r_ready, listener, exec, fresh

registry == <<node_groups, o_timers, o_recvers, o_callback_groups, added>>

(* A start() made for entry i of o_callback_groups spawns the thread i.    *)
Entries == 1 .. AddLimit * Cardinality(Groups)

T == INSTANCE Timer WITH Tickers <- Entries
R == INSTANCE Recver WITH Listeners <- Entries

timerVars == <<t_ready, m_running, ticker>>
recverVars == <<r_ready, listener, exec, fresh>>

vars == <<m_spinning, registry, started, worker, cursor, timerVars, recverVars>>

(* A worker that runs a callback is represented by what it runs.           *)
WorkerPC == Executables \cup
            {"off",     \* spin() has not launched it
             "idle",    \* about to lock m_wait_mutex
             "scan",    \* in get_next_ready_executable, holds m_wait_mutex
             "sleep"}   \* found nothing, sleeps, still holds m_wait_mutex

Kinds == {"timers", "recvers"}

NoScan == [entry |-> 1, kind |-> "timers", pos |-> 1]

(* The registry, the workers and the threads behind the executables keep   *)
(* their types, and the executor never has more groups than it was given.  *)
TypeOK ==
  /\ m_spinning \in BOOLEAN
  /\ node_groups \in [Nodes -> Seq(Groups)]
  /\ o_timers \in [Groups -> Seq(Timers)]
  /\ o_recvers \in [Groups -> Seq(Recvers)]
  /\ o_callback_groups \in Seq(Groups)
  /\ Len(o_callback_groups) \in {0} \cup Entries
  /\ added \in [Nodes -> 0 .. AddLimit]
  /\ started \in [entry : Nat, pos : Nat]
  /\ worker \in [Workers -> WorkerPC]
  /\ cursor \in [entry : Nat, kind : Kinds, pos : Nat]
  /\ T!TimerTypeOK
  /\ R!TypeOK

Init ==
  /\ m_spinning = FALSE
  /\ node_groups = [n \in Nodes |-> <<DefaultGroup[n]>>]
  /\ o_timers = [g \in Groups |-> <<>>]
  /\ o_recvers = [g \in Groups |-> <<>>]
  /\ o_callback_groups = <<>>
  /\ added = [n \in Nodes |-> 0]
  /\ started = [entry |-> 1, pos |-> 0]
  /\ worker = [w \in Workers |-> "off"]
  /\ cursor = NoScan
  /\ T!TimerInit
  /\ R!Init

-----------------------------------------------------------------------------
(* Nodes and callback groups.                                              *)

Launched == \A w \in Workers : worker[w] # "off"

(* Applications set up their objects and then spin; what they create later *)
(* they create from a callback, as tcp::Client does at its first           *)
(* connection.                                                             *)
MayCreate(x) == IF x \in Late THEN Launched ELSE ~m_spinning

Created(x) ==
  IF x \in Groups
  THEN x \in Range(node_groups[NodeOf[x]])
  ELSE x \in Range(o_timers[GroupOf[x]]) \cup Range(o_recvers[GroupOf[x]])

(* Mutant of CreateGroup: the node and its caller both list the group.     *)
CreateGroupTwice(g) ==
  /\ MayCreate(g) /\ ~Created(g)
  /\ node_groups' = [node_groups EXCEPT ![NodeOf[g]] = @ \o <<g, g>>]
  /\ UNCHANGED <<m_spinning, o_timers, o_recvers, o_callback_groups, added,
                 started, worker, cursor, timerVars, recverVars>>

CreateGroup(g) ==
  /\ MayCreate(g) /\ ~Created(g)
  /\ node_groups' = [node_groups EXCEPT ![NodeOf[g]] = Append(@, g)]
  /\ UNCHANGED <<m_spinning, o_timers, o_recvers, o_callback_groups, added,
                 started, worker, cursor, timerVars, recverVars>>

(* A group's mutex is held while one of its lists is walked.               *)
GroupUnlocked == cursor.pos = 1 \/ \A w \in Workers : worker[w] # "scan"

(* create_timer and create_recver throw for a group not in the node.       *)
MayCreateExecutable(x) ==
  /\ MayCreate(x) /\ ~Created(x)
  /\ Created(GroupOf[x])
  /\ GroupUnlocked

CreateTimer(t) ==
  /\ MayCreateExecutable(t)
  /\ o_timers' = [o_timers EXCEPT ![GroupOf[t]] = Append(@, t)]
  /\ UNCHANGED <<m_spinning, node_groups, o_recvers, o_callback_groups, added,
                 started, worker, cursor, timerVars, recverVars>>

CreateRecver(r) ==
  /\ MayCreateExecutable(r)
  /\ o_recvers' = [o_recvers EXCEPT ![GroupOf[r]] = Append(@, r)]
  /\ UNCHANGED <<m_spinning, node_groups, o_timers, o_callback_groups, added,
                 started, worker, cursor, timerVars, recverVars>>

(* Nothing checks whether the node was added before.                       *)
AddNode(n) ==
  /\ ~m_spinning
  /\ added[n] < AddLimit
  /\ added' = [added EXCEPT ![n] = @ + 1]
  /\ o_callback_groups' = o_callback_groups \o node_groups[n]
  /\ UNCHANGED <<m_spinning, node_groups, o_timers, o_recvers, started, worker,
                 cursor, timerVars, recverVars>>

-----------------------------------------------------------------------------
(* spin(): activate every group, then let the workers go.                  *)

Prepared ==
  /\ \A x \in (Groups \cup Executables) \ Late : Created(x)
  /\ \A n \in Nodes : added[n] > 0

Spin ==
  /\ ~m_spinning /\ Prepared
  /\ m_spinning' = TRUE
  /\ UNCHANGED <<registry, started, worker, cursor, timerVars, recverVars>>

Members(g) == o_timers[g] \o o_recvers[g]

(* Mutants of Activated: every entry activates the first group; only the   *)
(* timers of a group are started.                                          *)
ActivatedOfFirst(i) == Members(o_callback_groups[1])

ActivatedTimers(i) == o_timers[o_callback_groups[i]]

(* The objects that entry i of o_callback_groups starts, in order.         *)
Activated(i) == Members(o_callback_groups[i])

Activating ==
  m_spinning /\ ~Launched /\ started.entry <= Len(o_callback_groups)

(* The loop of activate(): start() of the next object of the group.        *)
ActivateNext ==
  /\ Activating
  /\ started.pos < Len(Activated(started.entry))
  /\ LET x == Activated(started.entry)[started.pos + 1]
     IN  \/ x \in Timers /\ T!StartTicker(x, started.entry) /\ UNCHANGED recverVars
         \/ x \in Recvers /\ R!Start(x, started.entry) /\ UNCHANGED timerVars
  /\ started' = [started EXCEPT !.pos = @ + 1]
  /\ UNCHANGED <<m_spinning, registry, worker, cursor>>

(* The loop of activate_callback_groups(): on to the next group.           *)
ActivateNextGroup ==
  /\ Activating
  /\ started.pos = Len(Activated(started.entry))
  /\ started' = [entry |-> started.entry + 1, pos |-> 0]
  /\ UNCHANGED <<m_spinning, registry, worker, cursor, timerVars, recverVars>>

Launch ==
  /\ m_spinning /\ ~Launched
  /\ started.entry > Len(o_callback_groups)
  /\ worker' = [w \in Workers |-> "idle"]
  /\ UNCHANGED <<m_spinning, registry, started, cursor, timerVars, recverVars>>

-----------------------------------------------------------------------------
(* run(): a worker locks m_wait_mutex and walks the groups.                *)

GoWorker(w, from, to) ==
  /\ worker[w] = from
  /\ worker' = [worker EXCEPT ![w] = to]

Searching(w) == worker[w] \in {"scan", "sleep"}

Lock(w) ==
  /\ \A other \in Workers : ~Searching(other)
  /\ GoWorker(w, "idle", "scan")
  /\ cursor' = NoScan
  /\ UNCHANGED <<m_spinning, registry, started, timerVars, recverVars>>

InGroups == cursor.entry <= Len(o_callback_groups)

List ==
  LET g == o_callback_groups[cursor.entry]
  IN  IF cursor.kind = "timers" THEN o_timers[g] ELSE o_recvers[g]

Examined == List[cursor.pos]

InList(w) == worker[w] = "scan" /\ InGroups /\ cursor.pos <= Len(List)

StepCursor == cursor' = [cursor EXCEPT !.pos = @ + 1]

(* get_ready_timer: the exchange claims the tick for this worker.          *)
ExamineTimer(w) ==
  /\ InList(w) /\ cursor.kind = "timers"
  /\ \/ /\ t_ready[Examined]
        /\ GoWorker(w, "scan", Examined)
        /\ UNCHANGED cursor
     \/ /\ ~t_ready[Examined]
        /\ StepCursor
        /\ UNCHANGED worker
  /\ T!GetReady(Examined)
  /\ UNCHANGED <<m_spinning, registry, started, recverVars>>

(* get_ready_recver: a ready recver is taken without claiming it.          *)
ExamineRecver(w) ==
  /\ InList(w) /\ cursor.kind = "recvers"
  /\ \/ /\ R!Take(Examined, w)
        /\ GoWorker(w, "scan", Examined)
        /\ UNCHANGED cursor
     \/ /\ ~r_ready[Examined]
        /\ StepCursor
        /\ UNCHANGED <<worker, recverVars>>
  /\ UNCHANGED <<m_spinning, registry, started, timerVars>>

(* Mutant of NextList: the recvers of a group are never looked at.         *)
NextListOfTimers(w) ==
  /\ worker[w] = "scan" /\ InGroups
  /\ cursor.pos > Len(List)
  /\ cursor' = [entry |-> cursor.entry + 1, kind |-> "timers", pos |-> 1]
  /\ UNCHANGED <<m_spinning, registry, started, worker, timerVars, recverVars>>

(* The timers of a group, its recvers, then the next group.                *)
NextList(w) ==
  /\ worker[w] = "scan" /\ InGroups
  /\ cursor.pos > Len(List)
  /\ cursor' = IF cursor.kind = "timers"
               THEN [entry |-> cursor.entry, kind |-> "recvers", pos |-> 1]
               ELSE [entry |-> cursor.entry + 1, kind |-> "timers", pos |-> 1]
  /\ UNCHANGED <<m_spinning, registry, started, worker, timerVars, recverVars>>

NothingReady(w) ==
  /\ ~InGroups
  /\ GoWorker(w, "scan", "sleep")
  /\ cursor' = NoScan
  /\ UNCHANGED <<m_spinning, registry, started, timerVars, recverVars>>

(* After the sleep get_next_executable gives up while m_spinning is set;   *)
(* the walk that would follow otherwise is never reached, for nothing      *)
(* clears m_spinning.                                                      *)
SleepOver(w) ==
  /\ GoWorker(w, "sleep", IF m_spinning THEN "idle" ELSE "scan")
  /\ UNCHANGED <<m_spinning, registry, started, cursor, timerVars, recverVars>>

(* execute_any_executable: the callback of a timer ends.                   *)
FinishTimer(w) ==
  /\ worker[w] \in Timers
  /\ GoWorker(w, worker[w], "idle")
  /\ UNCHANGED <<m_spinning, registry, started, cursor, timerVars, recverVars>>

(* The callback of a recver ends, m_ready is cleared, then the listener is *)
(* notified.                                                               *)
ClearRecver(w) ==
  /\ worker[w] \in Recvers
  /\ R!Clear(worker[w], w)
  /\ UNCHANGED <<m_spinning, registry, started, worker, cursor, timerVars>>

NotifyRecver(w) ==
  /\ worker[w] \in Recvers
  /\ R!Notify(worker[w], w)
  /\ GoWorker(w, worker[w], "idle")
  /\ UNCHANGED <<m_spinning, registry, started, cursor, timerVars>>

-----------------------------------------------------------------------------
WorkerStep(w) ==
  \/ Lock(w) \/ ExamineTimer(w) \/ ExamineRecver(w) \/ NextList(w)
  \/ NothingReady(w) \/ SleepOver(w)
  \/ FinishTimer(w) \/ ClearRecver(w) \/ NotifyRecver(w)

(* The detached threads run beside the workers.                            *)
TickerStep(t, k) ==
  /\ T!TickerStep(t, k)
  /\ UNCHANGED <<m_spinning, registry, started, worker, cursor, recverVars>>

ListenerStep(r, k) ==
  /\ R!ListenerStep(r, k)
  /\ UNCHANGED <<m_spinning, registry, started, worker, cursor, timerVars>>

Next ==
  \/ \E g \in Groups : CreateGroup(g)
  \/ \E t \in Timers : CreateTimer(t)
  \/ \E r \in Recvers : CreateRecver(r)
  \/ \E n \in Nodes : AddNode(n)
  \/ Spin \/ ActivateNext \/ ActivateNextGroup \/ Launch
  \/ \E w \in Workers : WorkerStep(w)
  \/ \E k \in Entries :
       \/ \E t \in Timers : TickerStep(t, k)
       \/ \E r \in Recvers : ListenerStep(r, k)

Spec == Init /\ [][Next]_vars

(* Threads that can run do and callbacks return.  std::mutex promises no   *)
(* order among the workers that wait for it, so a worker alone is owed     *)
(* only weak fairness.                                                     *)
Fairness ==
  /\ WF_vars(ActivateNext) /\ WF_vars(ActivateNextGroup) /\ WF_vars(Launch)
  /\ \A w \in Workers : WF_vars(WorkerStep(w))
  /\ \A k \in Entries, t \in Timers : WF_vars(TickerStep(t, k))

FairSpec == Spec /\ Fairness

-----------------------------------------------------------------------------
Ready(x) == IF x \in Timers THEN t_ready[x] ELSE r_ready[x]

Runs(x) ==
  \E w \in Workers :
    worker[w] = x /\ (x \in Recvers => exec[x][w] = "callback")

Served(x) ==
  \E i \in DOMAIN o_callback_groups :
    x \in Range(Members(o_callback_groups[i]))

(* x comes before y in the order in which a worker looks.                  *)
Before(x, y) ==
  LET order == FlattenSeq([i \in DOMAIN o_callback_groups |->
                             Members(o_callback_groups[i])])
  IN  \E i, j \in DOMAIN order : i < j /\ order[i] = x /\ order[j] = y

(* An executable that is ready and never run waits behind others that the  *)
(* executor keeps running, each of them before it in the order: while it   *)
(* waits no worker finds nothing to do and sleeps, and none runs what      *)
(* comes later, for get_next_ready_executable walks the groups from the    *)
(* first one every time, and the timers of a group before its recvers.     *)
StarvedOnlyByEarlier ==
  \A y \in Executables :
    <>[](Launched /\ Served(y) /\ Ready(y) /\ ~Runs(y))
      => /\ <>[](\A w \in Workers :
                  /\ worker[w] # "sleep"
                  /\ worker[w] \in Executables => Before(worker[w], y))
         /\ []<>(\E w \in Workers : worker[w] \in Executables)

(* Composed with registration, activation and the workers, a recver still  *)
(* keeps detection and callback apart.                                     *)
CheckCallbackExclusion == R!CheckCallbackExclusion

(* ... loses no event between the listener's store and the executor's load.*)
NoEventErased == R!NoEventErased

(* ... and is, to its check function and callback, an EventChannel.        *)
ImplementsChannel == R!ImplementsChannel

Threads(x) ==
  {k \in Entries : IF x \in Timers THEN ticker[x][k] # "none"
                                   ELSE listener[x][k] # "none"}

(* When the workers start, the threads behind a timer or recver are those  *)
(* of the entries of o_callback_groups that hold its group: none if the    *)
(* group was created after add_node or never added, two if its node was    *)
(* added twice.  A callback that creates an object gets it without a       *)
(* thread, whatever its group.                                             *)
ThreadPerEntry ==
  Launched =>
    \A x \in Executables :
      Threads(x) = {i \in DOMAIN o_callback_groups :
                      x \in Range(Members(o_callback_groups[i])) \ Late}
=============================================================================
