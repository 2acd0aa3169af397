----------------------------- MODULE DeviceCache -----------------------------
(***************************************************************************)
(* The device cache: a YAML file that names the registered sensors, read   *)
(* and rewritten by every console (UartSensorControl) and read by the      *)
(* sensor client, which watches it with inotify and sends its content to   *)
(* the server.  Nobody locks the file.                                     *)
(*                                                                         *)
(* The client's watch and callback are a recver: its check function and    *)
(* its callback alternate, as EventChannel says.  The client's only worker *)
(* also runs collect_data, which lists the devices.  Types of devices and  *)
(* ids above max_addr, which are refused at once, are left out.            *)
(***************************************************************************)
EXTENDS Naturals

CONSTANTS
  Consoles,   \* processes that call UartSensorControl
  Worker,     \* the worker thread of the sensor client
  Ids         \* addresses of sensors, not 0: that one is reset_device()'s

ASSUME ProcessAssumption == Worker \notin Consoles
ASSUME IdAssumption == Ids \subseteq Nat \ {0}

Processes == Consoles \cup {Worker}

VARIABLES
  shape, file,  \* the cache file: whether it parses, and the ids it names
  pc, call,     \* where a process is in its call, and the call
  node,         \* the content it is about to save or to send
  phase,        \* the EventChannel of device_cache_syncer, or "dead"
  modified,     \* the watch has an event for read() to return
  synced,       \* what the client sent last
  given,        \* history: ids that set_addr may have given to a device
  missed,       \* history: the file changed while nobody watched it, after
                \* the client read it last
  overlapped    \* history: two calls that write the file run, or ran since
                \* one of them did, at once

fileVars == <<shape, file>>
callVars == <<pc, call, node>>
clientVars == <<phase, synced>>
vars == <<fileVars, callVars, clientVars, modified, given, missed, overlapped>>

NoId == 0
Call(op, id) == [op |-> op, id |-> id]
NoCall == Call("none", NoId)
Saves == {Call(op, id) : op \in {"register", "remove"}, id \in Ids}
           \cup {Call("clear", NoId)}
Reads == {Call(op, NoId) : op \in {"list", "sync"}}

PCs == {"idle",
        "load", "create",   \* get_device_cache
        "addr",             \* set_addr
        "save", "write",    \* save_device_cache: opened, closed
        "send"}             \* send_data

TypeOK ==
  /\ shape \in {"missing", "map", "garbled"}
  /\ file \subseteq Ids
  /\ pc \in [Processes -> PCs]
  /\ call \in [Processes -> Saves \cup Reads \cup {NoCall}]
  /\ node \in [Processes -> SUBSET Ids]
  /\ phase \in {"rest", "watching", "event", "handling", "dead"}
  /\ modified \in BOOLEAN
  /\ synced \subseteq Ids
  /\ given \subseteq Ids
  /\ missed \in BOOLEAN
  /\ overlapped \in BOOLEAN

(* The flag m_ready of a recver is not initialised: one that is born with  *)
(* the flag up gets its callback before its check function has run.        *)
BornIn == {"rest", "event"}

Init ==
  /\ shape \in {"missing", "map"} /\ file = {}
  /\ pc = [p \in Processes |-> "idle"]
  /\ call = [p \in Processes |-> NoCall]
  /\ node = [p \in Processes |-> {}]
  /\ phase \in BornIn /\ modified = FALSE /\ synced = {}
  /\ given = {} /\ missed = TRUE /\ overlapped = FALSE

-----------------------------------------------------------------------------
Go(p, from, to) == pc[p] = from /\ pc' = [pc EXCEPT ![p] = to]

Begin(p, c) ==
  /\ Go(p, "idle", "load")
  /\ call' = [call EXCEPT ![p] = c]
  /\ UNCHANGED <<fileVars, node, modified, given, missed>>

End(p) ==
  /\ pc' = [pc EXCEPT ![p] = "idle"]
  /\ call' = [call EXCEPT ![p] = NoCall]
  /\ node' = [node EXCEPT ![p] = {}]

(* A change of the file is an event for the watch, if there is one.        *)
Touch ==
  /\ modified' = (modified \/ phase = "watching")
  /\ missed' = (missed \/ phase # "watching")

(* The terminating exception, or the end of a process.                     *)
Throw(p) ==
  /\ End(p)
  /\ IF p = Worker
     THEN phase' = "dead" /\ modified' = FALSE /\ UNCHANGED synced
     ELSE UNCHANGED <<clientVars, modified>>
  /\ UNCHANGED <<fileVars, missed>>

-----------------------------------------------------------------------------
(* get_device_cache and what each caller does with the content before it   *)
(* touches the file again.                                                 *)

LoadMissing(p) ==
  /\ Go(p, "load", "create")
  /\ shape = "missing"
  /\ UNCHANGED <<fileVars, call, node, clientVars, modified, given, missed>>

(* The output stream truncates what another process has saved since.       *)
Create(p) ==
  /\ Go(p, "create", "load")
  /\ shape' = "map" /\ file' = {}
  /\ Touch
  /\ UNCHANGED <<call, node, clientVars, given>>

LoadGarbled(p) ==
  /\ pc[p] = "load" /\ shape = "garbled"
  /\ Throw(p)
  /\ UNCHANGED given

Loads(p) == pc[p] = "load" /\ shape = "map"

Refused(c) ==
  \/ c.op = "register" /\ c.id \in file
  \/ c.op = "remove" /\ c.id \notin file

Result(c) ==
  CASE c.op = "register" -> file \cup {c.id}
    [] c.op = "remove" -> file \ {c.id}
    [] c.op = "clear" -> {}

LoadRefused(p) ==
  /\ Loads(p) /\ Refused(call[p])
  /\ End(p)
  /\ UNCHANGED <<fileVars, clientVars, modified, given, missed>>

(* Mutant of LoadToSave: the cache is saved before the address is set.     *)
LoadToSaveUnaddressed(p) ==
  /\ Loads(p)
  /\ call[p] \in Saves /\ ~Refused(call[p])
  /\ Go(p, "load", "save")
  /\ node' = [node EXCEPT ![p] = Result(call[p])]
  /\ UNCHANGED <<fileVars, call, clientVars, modified, given, missed>>

LoadToSave(p) ==
  /\ Loads(p)
  /\ call[p] \in Saves /\ ~Refused(call[p])
  /\ Go(p, "load", IF call[p].op = "register" THEN "addr" ELSE "save")
  /\ node' = [node EXCEPT ![p] = Result(call[p])]
  /\ UNCHANGED <<fileVars, call, clientVars, modified, given, missed>>

List(p) ==
  /\ Loads(p) /\ call[p].op = "list"
  /\ End(p)
  /\ UNCHANGED <<fileVars, clientVars, modified, given, missed>>

ListToSync ==
  /\ Loads(Worker) /\ call[Worker].op = "sync"
  /\ Go(Worker, "load", "send")
  /\ node' = [node EXCEPT ![Worker] = file]
  /\ missed' = FALSE
  /\ UNCHANGED <<fileVars, call, clientVars, modified, given>>

-----------------------------------------------------------------------------
(* The consoles.                                                           *)

ConsoleCalls(c) ==
  /\ \E x \in Saves \cup {Call("list", NoId)} : Begin(c, x)
  /\ UNCHANGED clientVars

(* Mutant of SetAddr: the address of reset_device() is set.                *)
SetAddrOfReset(c) ==
  /\ Go(c, "addr", "save")
  /\ given' = given \cup {NoId}
  /\ UNCHANGED <<fileVars, call, node, clientVars, modified, missed>>

SetAddr(c) ==
  /\ Go(c, "addr", "save")
  /\ given' = given \cup {call[c].id}
  /\ UNCHANGED <<fileVars, call, node, clientVars, modified, missed>>

(* set_addr() throws; a device may have taken the address all the same.    *)
SetAddrFails(c) ==
  /\ pc[c] = "addr"
  /\ Throw(c)
  /\ given' \in {given, given \cup {call[c].id}}

(* Mutant of Truncate: the file is opened to append.                       *)
OpenToAppend(c) ==
  /\ Go(c, "save", "write")
  /\ Touch
  /\ UNCHANGED <<fileVars, call, node, clientVars, given>>

Truncate(c) ==
  /\ Go(c, "save", "write")
  /\ shape' = "map" /\ file' = {}
  /\ Touch
  /\ UNCHANGED <<call, node, clientVars, given>>

(* The text reaches the file in one piece when the stream is closed.  On   *)
(* an empty file it is what the file then holds; over the text of another  *)
(* process the longer one shows at the end.                                *)
Write(c) ==
  /\ pc[c] = "write"
  /\ \/ shape' = "map" /\ file' = node[c]
     \/ file # {} /\ shape' = "map" /\ file' = node[c] \cup file
     \/ <<shape, file>> # <<"map", {}>> /\ shape' = "garbled" /\ file' = {}
  /\ End(c)
  /\ Touch
  /\ UNCHANGED <<clientVars, given>>

(* The stream cannot be opened (throws), or the text cannot be written     *)
(* when it is closed, which is after the test of fail(): the caller hears  *)
(* of success.  Both leave the file alone.                                 *)
SaveFails(c) ==
  /\ pc[c] \in {"save", "write"}
  /\ Throw(c)
  /\ UNCHANGED given

Crash(c) ==
  /\ pc[c] \in {"create", "addr", "save", "write"}
  /\ Throw(c)
  /\ UNCHANGED given

-----------------------------------------------------------------------------
(* The sensor client.                                                      *)

(* A new watch for every check; without a file the exception ends the      *)
(* process.                                                                *)
Watch ==
  /\ phase = "rest"
  /\ IF shape = "missing" THEN Throw(Worker)
     ELSE /\ phase' = "watching"
          /\ UNCHANGED <<fileVars, callVars, synced, modified, missed>>
  /\ UNCHANGED given

(* read() returns and the watch is closed.                                 *)
Seen ==
  /\ phase = "watching" /\ modified
  /\ phase' = "event"
  /\ modified' = FALSE
  /\ UNCHANGED <<fileVars, callVars, synced, given, missed>>

TakeEvent ==
  /\ phase = "event" /\ phase' = "handling"
  /\ Begin(Worker, Call("sync", NoId))
  /\ UNCHANGED synced

Collect ==
  /\ phase # "dead"
  /\ Begin(Worker, Call("list", NoId))
  /\ UNCHANGED clientVars

(* Mutant of Send: an empty list is not worth sending.                     *)
SendUnlessEmpty ==
  /\ pc[Worker] = "send"
  /\ End(Worker)
  /\ phase' = "rest"
  /\ synced' = IF node[Worker] = {} THEN synced ELSE node[Worker]
  /\ UNCHANGED <<fileVars, modified, given, missed>>

(* The result of send_data() is not looked at.                             *)
Send ==
  /\ pc[Worker] = "send"
  /\ End(Worker)
  /\ phase' = "rest"
  /\ \/ synced' = node[Worker] /\ UNCHANGED missed
     \/ missed' = TRUE /\ UNCHANGED synced
  /\ UNCHANGED <<fileVars, modified, given>>

ClientEnds ==
  /\ phase # "dead"
  /\ Throw(Worker)
  /\ UNCHANGED given

Restart ==
  /\ phase = "dead" /\ phase' \in BornIn
  /\ missed' = TRUE
  /\ UNCHANGED <<fileVars, callVars, synced, modified, given>>

-----------------------------------------------------------------------------
AnyStep(p) ==
  LoadMissing(p) \/ Create(p) \/ LoadGarbled(p) \/ LoadRefused(p) \/ List(p)

ConsoleStep(c) ==
  \/ ConsoleCalls(c) \/ AnyStep(c) \/ LoadToSave(c)
  \/ SetAddr(c) \/ SetAddrFails(c)
  \/ Truncate(c) \/ Write(c) \/ SaveFails(c) \/ Crash(c)

WorkerStep == AnyStep(Worker) \/ ListToSync

ClientStep ==
  \/ WorkerStep \/ Send \/ Watch \/ Seen \/ TakeEvent \/ Collect
  \/ ClientEnds \/ Restart

(* Calls that have found no file or have read it to write it.              *)
Writing == {p \in Processes : pc[p] \in {"create", "addr", "save", "write"}}

Overlap ==
  overlapped' = (/\ Writing' # {}
                 /\ overlapped \/ \E p, q \in Writing' : p # q)

Next == ((\E c \in Consoles : ConsoleStep(c)) \/ ClientStep) /\ Overlap

Spec == Init /\ [][Next]_vars

(* The worker gets on with a call and the watch reports what it has seen.  *)
(* Nothing else is owed: the listener may never wake up again after a      *)
(* callback (see Recver), the worker never come to the event for the timers *)
(* before it (see Executor), and send() never return.                      *)
Fairness ==
  /\ WF_vars(WorkerStep /\ Overlap)
  /\ WF_vars(Seen /\ Overlap)

FairSpec == Spec /\ Fairness

-----------------------------------------------------------------------------
(* The cache names no sensor that was not given its address first, and a   *)
(* console never rewrites the file with one: a failure between set_addr    *)
(* and the save leaves a sensor that is not listed, not the other way.     *)
NamedWasGiven ==
  /\ file \subseteq given
  /\ \A c \in Consoles : pc[c] \in {"save", "write"} => node[c] \subseteq given

(* While the client watches, the server has been sent what the file holds, *)
(* unless an event is pending, a send failed, or the file was changed when *)
(* no watch existed: nothing else makes the server's copy stale.           *)
WatchedIsSynced ==
  phase = "watching" /\ ~modified /\ ~missed => synced = file

(* A save in progress counts as done from the moment the file is emptied.  *)
Registered ==
  LET Rewriting == {c \in Consoles : pc[c] = "write"}
  IN  IF Rewriting = {} THEN file ELSE UNION {node[c] : c \in Rewriting}

Registry == INSTANCE Registry WITH registry <- Registered

(* As long as calls that write the file do not overlap, each of them adds  *)
(* or removes one sensor or empties the file, whatever readers, failures   *)
(* and crashes do meanwhile.                                               *)
RegistryUnlessOverlap ==
  Registry!Init /\ [][Registry!Next \/ overlapped \/ overlapped']_Registered

(* Consoles are silent and the client keeps running.                       *)
Quiet ==
  /\ phase # "dead"
  /\ \A c \in Consoles : pc[c] = "idle"

(* The client knows of a change and is kept from telling the server: its   *)
(* worker has not come to the event, or send() has not returned.           *)
HeldUp == phase = "event" \/ pc[Worker] = "send"

(* Once the consoles are silent, the server has the registry in the end,   *)
(* unless the last change fell into a callback, its sending failed or it is *)
(* held up: the watch and the callback lose no change of their own.        *)
SyncedInTheEnd == <>[]Quiet => <>[](synced = file \/ missed \/ HeldUp)
=============================================================================
