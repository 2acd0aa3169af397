--------------------------- MODULE DeviceCacheProofs ---------------------------
(***************************************************************************)
(* Proofs about DeviceCache for any sets of consoles and of ids: its       *)
(* types, that the cache names no sensor without an address, that the      *)
(* watch keeps the server's copy true, and that calls which do not overlap *)
(* keep the registry.                                                      *)
(***************************************************************************)
EXTENDS DeviceCache, TLAPS

-----------------------------------------------------------------------------
(* The strengthening: what a process in the middle of a call knows.        *)

(* The client turns to the event while it handles it, and the list it is   *)
(* about to send is the file, unless the file has changed since.           *)
EventIsHandled ==
  /\ call[Worker].op = "sync" => phase = "handling"
  /\ pc[Worker] = "send" =>
       call[Worker].op = "sync" /\ (~missed => node[Worker] = file)

(* Between a callback and the next watch nothing is lost unnoticed.        *)
RestIsSynced == phase = "rest" /\ ~missed => synced = file

(* The content a console is to save names one sensor that has no address   *)
(* yet, if any.                                                            *)
AddrIsNew ==
  \A c \in Consoles :
    pc[c] = "addr" =>
      call[c].id \in Ids /\ node[c] \subseteq given \cup {call[c].id}

(* The part of the invariant on which the types and the first two          *)
(* properties rest.                                                        *)
IInv ==
  /\ TypeOK /\ NamedWasGiven /\ WatchedIsSynced
  /\ EventIsHandled /\ RestIsSynced /\ AddrIsNew

(* A call that saves, by what it makes of the content it has read.         *)
LEMMA Results ==
  ASSUME NEW c \in Saves
  PROVE  \/ c.op = "register" /\ c.id \in Ids /\ Result(c) = file \cup {c.id}
         \/ c.op = "remove" /\ c.id \in Ids /\ Result(c) = file \ {c.id}
         \/ c.op = "clear" /\ Result(c) = {}
BY DEF Saves, Call, Result

(* The calls that only read.                                               *)
LEMMA ReadCalls ==
  /\ Call("list", NoId) \in Reads /\ Call("list", NoId).op = "list"
  /\ Call("sync", NoId) \in Reads /\ Call("sync", NoId).op = "sync"
  /\ NoCall.op = "none"
  /\ \A c \in Saves : c.op # "sync" /\ c.op # "list"
BY DEF Reads, NoCall, Call, Saves

(* At the start nothing is registered, sent or in progress.                *)
LEMMA IInvInit == Init => IInv
BY ReadCalls DEF Init, IInv, TypeOK, NamedWasGiven, WatchedIsSynced,
   EventIsHandled, RestIsSynced, AddrIsNew, BornIn, PCs, Processes

(* No step of a call of any process disturbs IInv.                         *)
LEMMA IInvStep == IInv /\ [Next]_vars => IInv'
<1> SUFFICES ASSUME IInv, Next PROVE IInv'
  BY DEF vars, fileVars, callVars, clientVars, IInv, TypeOK, NamedWasGiven,
     WatchedIsSynced, EventIsHandled, RestIsSynced, AddrIsNew
<1> USE ProcessAssumption
<1>0. overlapped' \in BOOLEAN
  BY DEF Next, Overlap
<1>1. ASSUME NEW p \in Processes, AnyStep(p) PROVE IInv'
  <2>1. CASE LoadMissing(p)
    BY <1>0, <2>1 DEF LoadMissing, Go, PCs, fileVars, clientVars, IInv,
       TypeOK, NamedWasGiven, WatchedIsSynced, EventIsHandled, RestIsSynced,
       AddrIsNew
  <2>2. CASE Create(p)
    BY <1>0, <2>2 DEF Create, Go, Touch, Processes, PCs, clientVars, IInv,
       TypeOK, NamedWasGiven, WatchedIsSynced, EventIsHandled, RestIsSynced,
       AddrIsNew
  <2>3. CASE LoadGarbled(p)
    BY <1>0, <2>3, ReadCalls DEF LoadGarbled, Throw, End, Processes, PCs,
       fileVars, clientVars, IInv, TypeOK, NamedWasGiven, WatchedIsSynced,
       EventIsHandled, RestIsSynced, AddrIsNew
  <2>4. CASE LoadRefused(p)
    BY <1>0, <2>4, ReadCalls DEF LoadRefused, End, PCs, fileVars, clientVars,
       IInv, TypeOK, NamedWasGiven, WatchedIsSynced, EventIsHandled,
       RestIsSynced, AddrIsNew
  <2>5. CASE List(p)
    BY <1>0, <2>5, ReadCalls DEF List, End, PCs, fileVars, clientVars, IInv,
       TypeOK, NamedWasGiven, WatchedIsSynced, EventIsHandled, RestIsSynced,
       AddrIsNew
  <2> QED
    BY <1>1, <2>1, <2>2, <2>3, <2>4, <2>5 DEF AnyStep
<1>2. ASSUME NEW c \in Consoles, ConsoleStep(c) PROVE IInv'
  <2>1. CASE ConsoleCalls(c)
    BY <1>0, <2>1, ReadCalls DEF ConsoleCalls, Begin, Go, Processes, PCs,
       fileVars, clientVars, IInv, TypeOK, NamedWasGiven, WatchedIsSynced,
       EventIsHandled, RestIsSynced, AddrIsNew
  <2>2. CASE LoadToSave(c)
    BY <1>0, <2>2, Results DEF LoadToSave, Go, Processes, PCs, fileVars,
       clientVars, IInv, TypeOK, NamedWasGiven, WatchedIsSynced,
       EventIsHandled, RestIsSynced, AddrIsNew
  <2>3. CASE SetAddr(c)
    BY <1>0, <2>3 DEF SetAddr, Go, Processes, PCs, fileVars, clientVars, IInv,
       TypeOK, NamedWasGiven, WatchedIsSynced, EventIsHandled, RestIsSynced,
       AddrIsNew
  <2>4. CASE SetAddrFails(c)
    BY <1>0, <2>4 DEF SetAddrFails, Throw, End, Processes, PCs, fileVars,
       clientVars, IInv, TypeOK, NamedWasGiven, WatchedIsSynced,
       EventIsHandled, RestIsSynced, AddrIsNew
  <2>5. CASE Truncate(c)
    BY <1>0, <2>5 DEF Truncate, Go, Touch, Processes, PCs, clientVars, IInv,
       TypeOK, NamedWasGiven, WatchedIsSynced, EventIsHandled, RestIsSynced,
       AddrIsNew
  <2>6. CASE Write(c)
    BY <1>0, <2>6 DEF Write, End, Touch, Processes, PCs, clientVars, IInv,
       TypeOK, NamedWasGiven, WatchedIsSynced, EventIsHandled, RestIsSynced,
       AddrIsNew
  <2>7. CASE SaveFails(c)
    BY <1>0, <2>7 DEF SaveFails, Throw, End, Processes, PCs, fileVars,
       clientVars, IInv, TypeOK, NamedWasGiven, WatchedIsSynced,
       EventIsHandled, RestIsSynced, AddrIsNew
  <2>8. CASE Crash(c)
    BY <1>0, <2>8 DEF Crash, Throw, End, Processes, PCs, fileVars, clientVars,
       IInv, TypeOK, NamedWasGiven, WatchedIsSynced, EventIsHandled,
       RestIsSynced, AddrIsNew
  <2> QED
    BY <1>1, <1>2, <2>1, <2>2, <2>3, <2>4, <2>5, <2>6, <2>7, <2>8 DEF
       ConsoleStep, Processes
<1>3. ASSUME ClientStep PROVE IInv'
  <2>1. CASE ListToSync
    BY <1>0, <2>1 DEF ListToSync, Go, Processes, PCs, fileVars, clientVars,
       IInv, TypeOK, NamedWasGiven, WatchedIsSynced, EventIsHandled,
       RestIsSynced, AddrIsNew
  <2>2. CASE Send
    BY <1>0, <2>2, ReadCalls DEF Send, End, Processes, PCs, fileVars, IInv,
       TypeOK, NamedWasGiven, WatchedIsSynced, EventIsHandled, RestIsSynced,
       AddrIsNew
  <2>3. CASE Watch
    BY <1>0, <2>3, ReadCalls DEF Watch, Throw, End, Processes, PCs, fileVars,
       callVars, IInv, TypeOK, NamedWasGiven, WatchedIsSynced, EventIsHandled,
       RestIsSynced, AddrIsNew
  <2>4. CASE Seen
    BY <1>0, <2>4 DEF Seen, fileVars, callVars, IInv, TypeOK, NamedWasGiven,
       WatchedIsSynced, EventIsHandled, RestIsSynced, AddrIsNew
  <2>5. CASE TakeEvent
    BY <1>0, <2>5, ReadCalls DEF TakeEvent, Begin, Go, Processes, PCs,
       fileVars, IInv, TypeOK, NamedWasGiven, WatchedIsSynced, EventIsHandled,
       RestIsSynced, AddrIsNew
  <2>6. CASE Collect
    BY <1>0, <2>6, ReadCalls DEF Collect, Begin, Go, Processes, PCs, fileVars,
       clientVars, IInv, TypeOK, NamedWasGiven, WatchedIsSynced,
       EventIsHandled, RestIsSynced, AddrIsNew
  <2>7. CASE ClientEnds
    BY <1>0, <2>7, ReadCalls DEF ClientEnds, Throw, End, Processes, PCs,
       fileVars, IInv, TypeOK, NamedWasGiven, WatchedIsSynced, EventIsHandled,
       RestIsSynced, AddrIsNew
  <2>8. CASE Restart
    BY <1>0, <2>8 DEF Restart, BornIn, fileVars, callVars, IInv, TypeOK,
       NamedWasGiven, WatchedIsSynced, EventIsHandled, RestIsSynced, AddrIsNew
  <2> QED
    BY <1>1, <1>3, <2>1, <2>2, <2>3, <2>4, <2>5, <2>6, <2>7, <2>8 DEF
       ClientStep, WorkerStep, Processes
<1> QED
  BY <1>2, <1>3 DEF Next

(* IInv holds all the time.                                                *)
LEMMA Invariance == Spec => []IInv
BY IInvInit, IInvStep, PTL DEF Spec

(* The variables keep their types, for any consoles and ids.               *)
THEOREM TypeCorrect == Spec => []TypeOK
BY Invariance, PTL DEF IInv

(* The cache names no sensor that was not given its address, for any       *)
(* number of consoles, however their calls overlap, fail or crash.         *)
THEOREM NamesAreGiven == Spec => []NamedWasGiven
BY Invariance, PTL DEF IInv

(* The server's copy is stale only for the reasons WatchedIsSynced names.  *)
THEOREM SyncCorrect == Spec => []WatchedIsSynced
BY Invariance, PTL DEF IInv

-----------------------------------------------------------------------------
(* The registry.  As long as calls that write do not overlap, the one call *)
(* that writes has read what the file still holds.                         *)

(* What a call may make of the registry r.                                 *)
Proposed(r, new) ==
  \/ new = {}
  \/ \E id \in Ids : id \notin r /\ new = r \cup {id}
  \/ \E id \in Ids : id \in r /\ new = r \ {id}

(* There is one writer; what it is to save follows from the file, which is *)
(* empty once it has been opened to be saved.                              *)
OneWriter ==
  /\ \A p, q \in Writing : p = q
  /\ \A c \in Consoles :
       /\ pc[c] \in {"addr", "save"} => Proposed(file, node[c])
       /\ pc[c] = "write" => shape = "map" /\ file = {}

RInv == ~overlapped => OneWriter

(* A step after which nothing has overlapped leaves one writer at most,    *)
(* and none if something had overlapped before.                            *)
LEMMA OverlapStep ==
  ASSUME Overlap, ~overlapped'
  PROVE  /\ \A p, q \in Writing' : p = q
         /\ overlapped => Writing' = {}
BY DEF Overlap

(* Nobody is in a call at the start.                                       *)
LEMMA RInvInit == Init => RInv
BY DEF Init, RInv, OneWriter, Writing, Processes

(* Every step keeps RInv.                                                  *)
LEMMA RInvStep == IInv /\ RInv /\ [Next]_vars => RInv'
<1> SUFFICES ASSUME IInv, RInv, Next, ~overlapped' PROVE OneWriter'
  BY DEF vars, fileVars, callVars, RInv, OneWriter, Writing
<1> USE ProcessAssumption
<1>1. Overlap
  BY DEF Next
<1>2. CASE overlapped
  BY <1>1, <1>2, OverlapStep DEF OneWriter, Writing, Processes
<1> SUFFICES ASSUME OneWriter PROVE OneWriter'
  BY <1>2 DEF RInv
<1>3. \A p, q \in Writing' : p = q
  BY <1>1, OverlapStep
<1>4. ASSUME NEW p \in Processes, AnyStep(p) PROVE OneWriter'
  <2>1. CASE LoadMissing(p)
    BY <1>3, <2>1 DEF LoadMissing, Go, fileVars, OneWriter
  <2>2. CASE Create(p)
    BY <2>2 DEF Create, Go, Processes, OneWriter, Writing
  <2>3. CASE LoadGarbled(p)
    BY <2>3 DEF LoadGarbled, Throw, End, fileVars, OneWriter, Writing
  <2>4. CASE LoadRefused(p)
    BY <2>4 DEF LoadRefused, End, fileVars, OneWriter, Writing, IInv, TypeOK
  <2>5. CASE List(p)
    BY <2>5 DEF List, End, fileVars, OneWriter, Writing, IInv, TypeOK
  <2> QED
    BY <1>4, <2>1, <2>2, <2>3, <2>4, <2>5 DEF AnyStep
<1>5. ASSUME NEW c \in Consoles, ConsoleStep(c) PROVE OneWriter'
  <2>1. CASE ConsoleCalls(c)
    BY <2>1 DEF ConsoleCalls, Begin, Go, fileVars, OneWriter, Writing
  <2>2. CASE LoadToSave(c)
    BY <1>3, <2>2, Results DEF LoadToSave, Refused, Go, fileVars, OneWriter,
       Proposed, IInv, TypeOK
  <2>3. CASE SetAddr(c)
    BY <2>3 DEF SetAddr, Go, fileVars, OneWriter, Writing
  <2>4. CASE SetAddrFails(c)
    BY <2>4 DEF SetAddrFails, Throw, End, fileVars, OneWriter, Writing, IInv,
       TypeOK
  <2>5. CASE Truncate(c)
    BY <2>5 DEF Truncate, Go, Processes, OneWriter, Writing, IInv, TypeOK
  <2>6. CASE Write(c)
    BY <2>6 DEF Write, End, Processes, OneWriter, Writing, IInv, TypeOK
  <2>7. CASE SaveFails(c)
    BY <2>7 DEF SaveFails, Throw, End, fileVars, OneWriter, Writing, IInv,
       TypeOK
  <2>8. CASE Crash(c)
    BY <2>8 DEF Crash, Throw, End, fileVars, OneWriter, Writing, IInv, TypeOK
  <2> QED
    BY <1>4, <1>5, <2>1, <2>2, <2>3, <2>4, <2>5, <2>6, <2>7, <2>8 DEF
       ConsoleStep, Processes
<1>6. ASSUME ClientStep PROVE OneWriter'
  <2>1. CASE ListToSync
    BY <2>1 DEF ListToSync, Go, fileVars, OneWriter, Writing
  <2>2. CASE Send
    BY <2>2 DEF Send, End, fileVars, OneWriter, Writing
  <2>3. CASE Watch
    BY <2>3 DEF Watch, Throw, End, Processes, fileVars, callVars, OneWriter,
       Writing, IInv, TypeOK
  <2>4. CASE Seen
    BY <2>4 DEF Seen, fileVars, callVars, OneWriter, Writing
  <2>5. CASE TakeEvent
    BY <2>5 DEF TakeEvent, Begin, Go, fileVars, OneWriter, Writing
  <2>6. CASE Collect
    BY <2>6 DEF Collect, Begin, Go, fileVars, OneWriter, Writing
  <2>7. CASE ClientEnds
    BY <2>7 DEF ClientEnds, Throw, End, fileVars, OneWriter, Writing
  <2>8. CASE Restart
    BY <2>8 DEF Restart, fileVars, callVars, OneWriter, Writing
  <2> QED
    BY <1>4, <1>6, <2>1, <2>2, <2>3, <2>4, <2>5, <2>6, <2>7, <2>8 DEF
       ClientStep, WorkerStep, Processes
<1> QED
  BY <1>5, <1>6 DEF Next

(* Such a step does to the registry what Registry says.                    *)
LEMMA RegistryStep ==
  ASSUME IInv, OneWriter, OneWriter', Next
  PROVE  Registered' = Registered \/ Proposed(Registered, Registered')
<1> DEFINE Allowed ==
             Registered' = Registered \/ Proposed(Registered, Registered')
<1> USE ProcessAssumption
<1>1. /\ (\A c \in Consoles : pc[c] # "write") => Registered = file
      /\ \A c \in Consoles : pc[c] = "write" => Registered = node[c]
  <2>1. ASSUME \A c \in Consoles : pc[c] # "write" PROVE Registered = file
    <3>1. {c \in Consoles : pc[c] = "write"} = {}
      BY <2>1
    <3> QED
      BY <3>1 DEF Registered
  <2>2. ASSUME NEW c \in Consoles, pc[c] = "write" PROVE Registered = node[c]
    <3>1. {d \in Consoles : pc[d] = "write"} = {c}
      BY <2>2 DEF OneWriter, Writing, Processes
    <3>2. UNION {node[d] : d \in {c}} = node[c]
      OBVIOUS
    <3> QED
      BY <3>1 DEF Registered
  <2> QED
    BY <2>1, <2>2
<1>2. /\ (\A c \in Consoles : pc'[c] # "write") => Registered' = file'
      /\ \A c \in Consoles : pc'[c] = "write" => Registered' = node'[c]
  <2>1. ASSUME \A c \in Consoles : pc'[c] # "write" PROVE Registered' = file'
    <3>1. {c \in Consoles : pc'[c] = "write"} = {}
      BY <2>1
    <3> QED
      BY <3>1 DEF Registered
  <2>2. ASSUME NEW c \in Consoles, pc'[c] = "write"
             PROVE  Registered' = node'[c]
    <3>1. {d \in Consoles : pc'[d] = "write"} = {c}
      BY <2>2 DEF OneWriter, Writing, Processes
    <3>2. UNION {node'[d] : d \in {c}} = node'[c]
      OBVIOUS
    <3> QED
      BY <3>1 DEF Registered
  <2> QED
    BY <2>1, <2>2
<1>3. ASSUME NEW p \in Processes, AnyStep(p) PROVE Allowed
  <2>1. CASE LoadMissing(p)
    BY <1>1, <1>2, <2>1 DEF LoadMissing, fileVars, OneWriter
  <2>2. CASE Create(p)
    BY <1>2, <2>2 DEF Create, Go, Processes, OneWriter, Writing, Proposed
  <2>3. CASE LoadGarbled(p)
    BY <1>1, <1>2, <2>3 DEF LoadGarbled, Throw, fileVars, OneWriter
  <2>4. CASE LoadRefused(p)
    BY <1>1, <1>2, <2>4 DEF LoadRefused, End, fileVars, OneWriter, Proposed
  <2>5. CASE List(p)
    BY <1>1, <1>2, <2>5 DEF List, End, fileVars, OneWriter, Proposed
  <2> QED
    BY <1>3, <2>1, <2>2, <2>3, <2>4, <2>5 DEF AnyStep
<1>4. ASSUME NEW c \in Consoles, ConsoleStep(c) PROVE Allowed
  <2>1. CASE ConsoleCalls(c)
    BY <1>1, <1>2, <2>1 DEF ConsoleCalls, Begin, Go, fileVars
  <2>2. CASE LoadToSave(c)
    BY <1>1, <1>2, <2>2 DEF LoadToSave, Go, fileVars
  <2>3. CASE SetAddr(c)
    BY <1>1, <1>2, <2>3 DEF SetAddr, Go, fileVars
  <2>4. CASE SetAddrFails(c)
    BY <1>1, <1>2, <2>4 DEF SetAddrFails, Throw, End, fileVars
  <2>5. CASE Truncate(c)
    BY <1>1, <1>2, <2>5 DEF Truncate, Go, OneWriter, Proposed
  <2>6. CASE Write(c)
    BY <1>1, <1>2, <2>6 DEF Write, End, OneWriter
  <2>7. CASE SaveFails(c)
    BY <1>1, <1>2, <2>7 DEF SaveFails, Throw, End, fileVars, OneWriter,
       Proposed
  <2>8. CASE Crash(c)
    BY <1>1, <1>2, <2>8 DEF Crash, Throw, End, fileVars, OneWriter, Proposed
  <2> QED
    BY <1>3, <1>4, <2>1, <2>2, <2>3, <2>4, <2>5, <2>6, <2>7, <2>8 DEF
       ConsoleStep, Processes
<1>5. ASSUME ClientStep PROVE Allowed
  <2>1. CASE ListToSync
    BY <1>1, <1>2, <2>1 DEF ListToSync, Go, fileVars
  <2>2. CASE Send
    BY <1>1, <1>2, <2>2 DEF Send, End, fileVars
  <2>3. CASE Watch
    BY <1>1, <1>2, <2>3 DEF Watch, Throw, fileVars, callVars, OneWriter
  <2>4. CASE Seen
    BY <1>1, <1>2, <2>4 DEF Seen, fileVars, callVars
  <2>5. CASE TakeEvent
    BY <1>1, <1>2, <2>5 DEF TakeEvent, Begin, Go, fileVars
  <2>6. CASE Collect
    BY <1>1, <1>2, <2>6 DEF Collect, Begin, Go, fileVars
  <2>7. CASE ClientEnds
    BY <1>1, <1>2, <2>7 DEF ClientEnds, Throw, End, fileVars
  <2>8. CASE Restart
    BY <1>1, <1>2, <2>8 DEF Restart, fileVars, callVars
  <2> QED
    BY <1>3, <1>5, <2>1, <2>2, <2>3, <2>4, <2>5, <2>6, <2>7, <2>8 DEF
       ClientStep, WorkerStep, Processes
<1> QED
  BY <1>4, <1>5 DEF Next

(* Calls that write the file and do not overlap keep the registry, for any *)
(* number of consoles, whatever readers, failures and crashes do.          *)
THEOREM RegistryKept == Spec => RegistryUnlessOverlap
<1>1. Init => Registry!Init
  BY DEF Init, Registered, Registry!Init, Processes
<1>2. IInv /\ RInv /\ RInv' /\ [Next]_vars
        => [Registry!Next \/ overlapped \/ overlapped']_Registered
  <2> SUFFICES ASSUME IInv, OneWriter, OneWriter', [Next]_vars
               PROVE  [Registry!Next]_Registered
    BY DEF RInv
  <2>1. CASE Next
    BY <2>1, RegistryStep DEF Proposed, Registry!Next, Registry!Wipe,
       Registry!Register, Registry!Remove
  <2>2. CASE UNCHANGED vars
    BY <2>2 DEF vars, fileVars, callVars, Registered
  <2> QED
    BY <2>1, <2>2
<1>3. Spec => [](IInv /\ RInv)
  BY IInvInit, IInvStep, RInvInit, RInvStep, PTL DEF Spec
<1> QED
  BY <1>1, <1>2, <1>3, PTL DEF Spec, RegistryUnlessOverlap

-----------------------------------------------------------------------------
(* The recver, as ExecutableProofs and ExecutorProofs say it behaves.      *)

Channel == INSTANCE EventChannel
  WITH Recvers <- {"device_cache_syncer"}, Initially <- {"rest", "event"},
       phase <- [r \in {"device_cache_syncer"} |-> phase]

ChannelMoves ==
  \/ phase = "rest" /\ phase' = "watching"
  \/ phase = "watching" /\ phase' = "event"
  \/ phase = "event" /\ phase' = "handling"
  \/ phase = "handling" /\ phase' = "rest"

(* A move of the phase is one of the channel.                              *)
LEMMA MovesAreChannels == ChannelMoves => Channel!Next
BY DEF ChannelMoves, Channel!Next, Channel!Watch, Channel!Announce,
       Channel!Take, Channel!Finish, Channel!Move

(* What the client does to the phase of its recver, while it runs.         *)
LEMMA PhaseStep ==
  ASSUME IInv, Next
  PROVE  phase' = phase \/ ChannelMoves \/ "dead" \in {phase, phase'}
<1> DEFINE Kept == phase' = phase \/ phase' = "dead"
<1>1. ASSUME NEW p \in Processes, AnyStep(p) PROVE Kept
  BY <1>1 DEF AnyStep, LoadMissing, Create, LoadGarbled, Throw, LoadRefused,
              List, clientVars
<1>2. ASSUME NEW c \in Consoles, ConsoleStep(c) PROVE Kept
  <2>1. CASE AnyStep(c)
    BY <1>1, <2>1 DEF Processes
  <2>2. CASE SetAddrFails(c) \/ SaveFails(c) \/ Crash(c)
    BY <2>2 DEF SetAddrFails, SaveFails, Crash, Throw, clientVars
  <2>3. CASE ConsoleCalls(c) \/ LoadToSave(c) \/ SetAddr(c) \/ Truncate(c)
               \/ Write(c)
    BY <2>3 DEF ConsoleCalls, LoadToSave, SetAddr, Truncate, Write, clientVars
  <2> QED
    BY <1>2, <2>1, <2>2, <2>3 DEF ConsoleStep
<1>3. CASE AnyStep(Worker) \/ ListToSync \/ Collect
  BY <1>1, <1>3 DEF Processes, ListToSync, Collect, clientVars
<1>4. CASE Send
  BY <1>4 DEF Send, IInv, EventIsHandled, ChannelMoves
<1>5. CASE Watch \/ Seen \/ TakeEvent
  BY <1>5 DEF Watch, Seen, TakeEvent, Throw, ChannelMoves
<1>6. CASE ClientEnds \/ Restart
  BY <1>6 DEF ClientEnds, Restart, Throw
<1> QED
  BY <1>2, <1>3, <1>4, <1>5, <1>6 DEF Next, ClientStep, WorkerStep

(* The client's watch and callback ask of their recver nothing but what    *)
(* EventChannel promises, until an exception ends the process.             *)
THEOREM RecverIsAChannel ==
  Spec => Channel!Init /\ [][Channel!Next \/ "dead" \in {phase, phase'}]_phase
<1>1. Init => Channel!Init
  BY DEF Init, BornIn, Channel!Init
<1>2. IInv /\ [Next]_vars
        => [Channel!Next \/ "dead" \in {phase, phase'}]_phase
  BY PhaseStep, MovesAreChannels DEF vars, clientVars
<1> QED
  BY <1>1, <1>2, Invariance, PTL DEF Spec
=============================================================================
