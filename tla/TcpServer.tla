------------------------------ MODULE TcpServer ------------------------------
(***************************************************************************)
(* smfcpp::tcp::Server: one listening socket, a set of client sockets      *)
(* watched by select(), a heart beat sent to every client and a count of   *)
(* the keep-alive sweeps each client has left before it is given up.       *)
(*                                                                         *)
(* Two threads run this code: the listener thread of m_recver calls the    *)
(* check function (copy m_readfds, select), and the executor's worker runs *)
(* the callbacks of m_recver and of the two timers, one after the other.   *)
(* That the check function and the callback of m_recver do not overlap is  *)
(* taken from EventChannel, which Recver implements; the callbacks of the  *)
(* timers do run beside the check function.  The order in which the worker *)
(* turns to its three callbacks is left open.                              *)
(*                                                                         *)
(* The environment is the kernel's side of the sockets: what peers send    *)
(* and how they end.  A data frame travels as a head and a body, so that   *)
(* the second blocking recv of the callback has something to wait for, and *)
(* TCP delivers either in pieces: select() reports the first byte of a     *)
(* head, and recvn waits for the last.                                     *)
(***************************************************************************)
EXTENDS Naturals, Sequences, FiniteSets, FiniteSetsExt, Functions

CONSTANTS
  ListenFd,      \* the descriptor of the listening socket
  MaxOpenFd,     \* bound: the largest descriptor accept() hands out
  MaxHearts,     \* MAX_HEARTS
  InboxLimit     \* bound: frame parts under way from one peer

ASSUME FdAssumption ==
  /\ ListenFd \in Nat
  /\ MaxOpenFd \in Nat /\ ListenFd < MaxOpenFd

ASSUME BoundAssumption == MaxHearts \in Nat /\ InboxLimit \in Nat \ {0}

ClientFds == ListenFd + 1 .. MaxOpenFd
AllFds == {ListenFd} \cup ClientFds
NoFd == MaxOpenFd + 1

VARIABLES
  m_readfds, m_tmpfds, m_max_fd,
  m_hearts_mp,   \* the entries of the map, as a function on its keys
  m_mutex_mp,    \* the keys of the map
  phase,         \* the EventChannel of m_recver
  selecting,     \* the check function is inside select()
  pc, at,        \* the worker: which loop it is in, and the loop's descriptor
  guarded,       \* the descriptor whose mutex a lock_guard of the worker holds
  backlog,       \* connections that wait for accept()
  open,          \* client descriptors open in the process
  peer, inbox,   \* the other end of each open client descriptor, and what it
                 \* sent that recv() has not delivered
  owing,         \* the peer has sent a head whose body is still to come
  partly,        \* part of the next head or body has arrived, not all of it
  full,          \* the descriptors whose peers read nothing: no heart fits in
  missed         \* history: sweeps since the client was last heard

recverVars == <<m_tmpfds, phase, selecting>>
watchVars == <<m_readfds, m_max_fd>>
mapVars == <<m_hearts_mp, m_mutex_mp, missed>>
workerVars == <<pc, at, guarded>>
socketVars == <<backlog, open, peer, inbox, owing, partly, full>>
vars == <<recverVars, watchVars, mapVars, workerVars, socketVars>>

Parts == {"heart",   \* a heart frame
          "head",    \* the head of a data frame
          "body",    \* its payload
          "junk"}    \* a head of no known type

WorkerPC == {"idle",
             "walk",                       \* m_recver's callback, at a descriptor
             "body", "unlock_recv",        \* recv_data
             "hearts", "send", "unlock_send", \* send_heart, send_heart_once
             "sweep",                      \* keep_alive
             "dead"}                       \* killed by SIGPIPE

PeerStates == {"open",
               "closed",   \* the peer closed: recv() delivers the end of file
               "reset",    \* the connection broke
               "broken"}   \* the same, after the peer had closed

(* Descriptors stay in range, and no count of hearts goes below zero.      *)
TypeOK ==
  /\ m_readfds \subseteq AllFds
  /\ m_tmpfds \subseteq AllFds
  /\ m_max_fd \in AllFds
  /\ DOMAIN m_hearts_mp \subseteq ClientFds
  /\ \A fd \in DOMAIN m_hearts_mp : m_hearts_mp[fd] \in 0 .. MaxHearts
  /\ m_mutex_mp \subseteq ClientFds
  /\ phase \in {"rest", "watching", "event", "handling"}
  /\ selecting \in BOOLEAN
  /\ pc \in WorkerPC
  /\ at \in ListenFd .. NoFd
  /\ guarded \in ClientFds \cup {NoFd}
  /\ backlog \in 0 .. Cardinality(ClientFds)
  /\ open \subseteq ClientFds
  /\ peer \in [ClientFds -> PeerStates]
  /\ inbox \in [ClientFds -> Seq(Parts)]
  /\ owing \in [ClientFds -> BOOLEAN]
  /\ partly \in [ClientFds -> BOOLEAN]
  /\ full \subseteq ClientFds
  /\ missed \in [ClientFds -> 0 .. MaxHearts + 1]

(* m_ready of a new recver is not initialized (see Recver).                *)
BornIn == {"rest", "event"}

(* The constructor, with run() having created the recver and the timers.   *)
(* Nothing initializes m_tmpfds either, which a recver born ready walks    *)
(* over first; the descriptors below ListenFd are left out.                *)
Init ==
  /\ m_readfds = {ListenFd}
  /\ m_tmpfds \in SUBSET AllFds
  /\ m_max_fd = ListenFd
  /\ m_hearts_mp = [fd \in {} |-> 0]
  /\ m_mutex_mp = {}
  /\ phase \in BornIn
  /\ selecting = FALSE
  /\ pc = "idle" /\ at = ListenFd /\ guarded = NoFd
  /\ backlog = 0
  /\ open = {}
  /\ peer = [fd \in ClientFds |-> "open"]
  /\ inbox = [fd \in ClientFds |-> <<>>]
  /\ owing = [fd \in ClientFds |-> FALSE]
  /\ partly = [fd \in ClientFds |-> FALSE]
  /\ full = {}
  /\ missed = [fd \in ClientFds |-> 0]

-----------------------------------------------------------------------------
(* The kernel and the peers.                                               *)

FreeFds == ClientFds \ open

(* Descriptors do not run out: accept() never fails.                       *)
Connect ==
  /\ backlog < Cardinality(FreeFds)
  /\ backlog' = backlog + 1
  /\ UNCHANGED <<recverVars, watchVars, mapVars, workerVars,
                 open, peer, inbox, owing, partly, full>>

(* The whole of a head or a body has arrived, or its first bytes have      *)
(* (bytes behind what is still unread show only once that has been read).  *)
Send(fd, part) ==
  /\ fd \in open /\ peer[fd] = "open"
  /\ Len(inbox[fd]) < InboxLimit
  /\ owing[fd] <=> part = "body"
  /\ inbox' = [inbox EXCEPT ![fd] = Append(@, part)]
  /\ owing' = [owing EXCEPT ![fd] = (part = "head")]
  /\ partly' = [partly EXCEPT ![fd] = FALSE]
  /\ UNCHANGED <<recverVars, watchVars, mapVars, workerVars,
                 backlog, open, peer, full>>

SendSome(fd) ==
  /\ fd \in open /\ peer[fd] = "open"
  /\ inbox[fd] = <<>> /\ ~partly[fd]
  /\ partly' = [partly EXCEPT ![fd] = TRUE]
  /\ UNCHANGED <<recverVars, watchVars, mapVars, workerVars,
                 backlog, open, peer, inbox, owing, full>>

(* The peer stops reading until a heart no longer fits in, or reads again. *)
(* What room there is stays while the worker has this heart to send.       *)
StallsOrReads(fd) ==
  /\ fd \in open /\ peer[fd] = "open"
  /\ IF fd \in full
     THEN full' = full \ {fd}
     ELSE ~(pc = "send" /\ at = fd) /\ full' = full \cup {fd}
  /\ UNCHANGED <<recverVars, watchVars, mapVars, workerVars,
                 backlog, open, peer, inbox, owing, partly>>

(* The peer closes; what it sent before is still delivered.                *)
Close(fd) ==
  /\ fd \in open /\ peer[fd] = "open"
  /\ peer' = [peer EXCEPT ![fd] = "closed"]
  /\ full' = full \ {fd}
  /\ UNCHANGED <<recverVars, watchVars, mapVars, workerVars,
                 backlog, open, inbox, owing, partly>>

(* The connection breaks; what it carried is gone.                         *)
Reset(fd) ==
  /\ fd \in open /\ peer[fd] \in {"open", "closed"}
  /\ peer' = [peer EXCEPT ![fd] = IF @ = "closed" THEN "broken" ELSE "reset"]
  /\ inbox' = [inbox EXCEPT ![fd] = <<>>]
  /\ partly' = [partly EXCEPT ![fd] = FALSE]
  /\ full' = full \ {fd}
  /\ UNCHANGED <<recverVars, watchVars, mapVars, workerVars,
                 backlog, open, owing>>

Readable(fd) ==
  \/ fd = ListenFd /\ backlog > 0
  \/ fd \in open /\ (inbox[fd] # <<>> \/ partly[fd] \/ peer[fd] # "open")

-----------------------------------------------------------------------------
(* The check function, in the listener thread.                             *)

CopyFds ==
  /\ phase = "rest"
  /\ phase' = "watching"
  /\ m_tmpfds' = m_readfds
  /\ UNCHANGED <<selecting, watchVars, mapVars, workerVars, socketVars>>

Watched == {fd \in m_tmpfds : fd <= m_max_fd}

Stale(fds) == fds \ (open \cup {ListenFd})

(* select() looks at the descriptors up to m_max_fd as it is at the call,  *)
(* and fails with EBADF if one of them has been closed since the copy.     *)
CallSelect ==
  /\ phase = "watching" /\ ~selecting
  /\ \/ /\ Stale(Watched) # {}
        /\ phase' = "rest"
        /\ UNCHANGED <<selecting, m_tmpfds>>
     \/ /\ Stale(Watched) = {}
        /\ selecting' = TRUE
        /\ m_tmpfds' = Watched
        /\ UNCHANGED phase
  /\ UNCHANGED <<watchVars, mapVars, workerVars, socketVars>>

(* select() reports what is readable; a descriptor that was closed during  *)
(* the wait may be reported too, depending on the kernel.                  *)
SelectReturns ==
  /\ selecting
  /\ \E fd \in m_tmpfds : Readable(fd)
  /\ \E gone \in SUBSET Stale(m_tmpfds) :
       m_tmpfds' = {fd \in m_tmpfds : Readable(fd)} \cup gone
  /\ selecting' = FALSE
  /\ phase' = "event"
  /\ UNCHANGED <<watchVars, mapVars, workerVars, socketVars>>

-----------------------------------------------------------------------------
(* losed_clinet_handle.  The loop that looks for the next m_max_fd has no  *)
(* break and stops at the smallest descriptor of the set.                  *)

KeptMaxFd(fd) == m_max_fd    \* mutant of NewMaxFd

NewMaxFd(fd) ==
  IF fd = m_max_fd THEN Min(m_readfds \ {fd}) ELSE m_max_fd

(* Mutant of LosedClient: the count of hearts is not erased.               *)
LosedClientKeepsHearts(fd) ==
  /\ open' = open \ {fd}
  /\ m_readfds' = m_readfds \ {fd}
  /\ m_max_fd' = NewMaxFd(fd)
  /\ m_mutex_mp' = m_mutex_mp \ {fd}
  /\ peer' = [peer EXCEPT ![fd] = "open"]
  /\ inbox' = [inbox EXCEPT ![fd] = <<>>]
  /\ owing' = [owing EXCEPT ![fd] = FALSE]
  /\ partly' = [partly EXCEPT ![fd] = FALSE]
  /\ full' = full \ {fd}
  /\ missed' = [missed EXCEPT ![fd] = 0]
  /\ UNCHANGED <<backlog, m_hearts_mp>>

LosedClient(fd) ==
  /\ open' = open \ {fd}
  /\ m_readfds' = m_readfds \ {fd}
  /\ m_max_fd' = NewMaxFd(fd)
  /\ m_hearts_mp' = Restrict(m_hearts_mp, DOMAIN m_hearts_mp \ {fd})
  /\ m_mutex_mp' = m_mutex_mp \ {fd}
  /\ peer' = [peer EXCEPT ![fd] = "open"]
  /\ inbox' = [inbox EXCEPT ![fd] = <<>>]
  /\ owing' = [owing EXCEPT ![fd] = FALSE]
  /\ partly' = [partly EXCEPT ![fd] = FALSE]
  /\ full' = full \ {fd}
  /\ missed' = [missed EXCEPT ![fd] = 0]
  /\ UNCHANGED backlog

-----------------------------------------------------------------------------
(* The worker.  Its loops run over the descriptors up to m_max_fd; it is   *)
(* the only thread that changes m_readfds and m_max_fd.                    *)

GoWorker(from, to, fd) ==
  /\ pc = from
  /\ pc' = to
  /\ at' = fd

(* The loop stands at the first descriptor of the set it has not visited.  *)
Due(fds) == {fd \in fds : at <= fd /\ fd <= m_max_fd}

VisitIn(fds, fd) == Due(fds) # {} /\ fd = Min(Due(fds))

(* operator[] adds an entry if need be.                                    *)
FullHearts(fd) ==
  [d \in DOMAIN m_hearts_mp \cup {fd} |->
    IF d = fd THEN MaxHearts ELSE m_hearts_mp[d]]

(* The recver's callback.                                                  *)
TakeEvent ==
  /\ phase = "event"
  /\ GoWorker("idle", "walk", ListenFd)
  /\ phase' = "handling"
  /\ UNCHANGED <<m_tmpfds, selecting, watchVars, mapVars, guarded, socketVars>>

FinishEvent ==
  /\ Due(m_tmpfds) = {}
  /\ GoWorker("walk", "idle", ListenFd)
  /\ phase' = "rest"
  /\ UNCHANGED <<m_tmpfds, selecting, watchVars, mapVars, guarded, socketVars>>

(* The listening descriptor is first in the walk.                          *)
Accept ==
  /\ VisitIn(m_tmpfds, ListenFd)
  /\ GoWorker("walk", "walk", ListenFd + 1)
  /\ backlog > 0
  /\ backlog' = backlog - 1
  /\ LET fd == Min(FreeFds)     \* the kernel hands out the lowest free one
     IN  /\ open' = open \cup {fd}
         /\ m_readfds' = m_readfds \cup {fd}
         /\ m_max_fd' = IF m_max_fd < fd THEN fd ELSE m_max_fd
         /\ m_hearts_mp' = FullHearts(fd)
         /\ m_mutex_mp' = m_mutex_mp \cup {fd}
         /\ missed' = [missed EXCEPT ![fd] = 0]
  /\ UNCHANGED <<recverVars, guarded, peer, inbox, owing, partly, full>>

(* recvn blocks while the peer is there and has not sent all of the part.  *)
Received(fd, part) ==
  /\ fd \in open
  /\ inbox[fd] # <<>> /\ Head(inbox[fd]) = part
  /\ inbox' = [inbox EXCEPT ![fd] = Tail(@)]
  /\ UNCHANGED <<backlog, open, peer, owing, partly, full>>

RecvFails(fd) == fd \notin open \/ (inbox[fd] = <<>> /\ peer[fd] # "open")

(* Mutant of Visit: the callback walks m_readfds.                          *)
VisitWatched(fd) == fd # ListenFd /\ VisitIn(m_readfds, fd)

Visit(fd) == fd # ListenFd /\ VisitIn(m_tmpfds, fd)

(* Mutant of RecvHeart: the count of hearts is not restored.               *)
RecvHeartUncounted(fd) ==
  /\ Visit(fd)
  /\ GoWorker("walk", "walk", fd + 1)
  /\ Received(fd, "heart")
  /\ missed' = [missed EXCEPT ![fd] = 0]
  /\ UNCHANGED <<recverVars, watchVars, m_hearts_mp, m_mutex_mp, guarded>>

RecvHeart(fd) ==
  /\ Visit(fd)
  /\ GoWorker("walk", "walk", fd + 1)
  /\ Received(fd, "heart")
  /\ m_hearts_mp' = FullHearts(fd)
  /\ missed' = [missed EXCEPT ![fd] = 0]
  /\ UNCHANGED <<recverVars, watchVars, m_mutex_mp, guarded>>

RecvFailed(fd) ==
  /\ Visit(fd)
  /\ GoWorker("walk", "walk", fd + 1)
  /\ RecvFails(fd)
  /\ LosedClient(fd)
  /\ UNCHANGED <<recverVars, guarded>>

(* A head of unknown type: the connection is given up.                     *)
RecvJunk(fd) ==
  /\ Visit(fd)
  /\ GoWorker("walk", "walk", fd + 1)
  /\ fd \in open /\ inbox[fd] # <<>> /\ Head(inbox[fd]) = "junk"
  /\ LosedClient(fd)
  /\ UNCHANGED <<recverVars, guarded>>

(* A data head; recv_data locks the client's mutex, which operator[] makes *)
(* if need be, and waits for the body.                                     *)
RecvHead(fd) ==
  /\ Visit(fd)
  /\ GoWorker("walk", "body", fd)
  /\ Received(fd, "head")
  /\ m_mutex_mp' = m_mutex_mp \cup {fd}
  /\ guarded' = fd
  /\ UNCHANGED <<recverVars, watchVars, m_hearts_mp, missed>>

RecvBody ==
  /\ GoWorker("body", "walk", at + 1)
  /\ Received(at, "body")
  /\ guarded' = NoFd
  /\ UNCHANGED <<recverVars, watchVars, mapVars>>

RecvBodyFailed ==
  /\ GoWorker("body", "unlock_recv", at)
  /\ RecvFails(at)
  /\ LosedClient(at)
  /\ UNCHANGED <<recverVars, guarded>>

(* The lock_guard goes out of scope after losed_clinet_handle.             *)
Unlock(from, to) ==
  /\ GoWorker(from, to, at + 1)
  /\ guarded' = NoFd
  /\ UNCHANGED <<recverVars, watchVars, mapVars, socketVars>>

UnlockRecv == Unlock("unlock_recv", "walk")

(* send_heart.                                                             *)
StartSendHeart ==
  /\ GoWorker("idle", "hearts", ListenFd)
  /\ UNCHANGED <<recverVars, watchVars, mapVars, guarded, socketVars>>

Clients == m_readfds \ {ListenFd}

SendHeartOnce(fd) ==
  /\ VisitIn(Clients, fd)
  /\ GoWorker("hearts", "send", fd)
  /\ m_mutex_mp' = m_mutex_mp \cup {fd}
  /\ guarded' = fd
  /\ UNCHANGED <<recverVars, watchVars, m_hearts_mp, missed, socketVars>>

(* sendn blocks while there is no room.  The kernel still accepts a send   *)
(* to a peer that has closed.                                              *)
HeartSent ==
  /\ GoWorker("send", "hearts", at + 1)
  /\ peer[at] \in {"open", "closed"}
  /\ at \notin full
  /\ guarded' = NoFd
  /\ UNCHANGED <<recverVars, watchVars, mapVars, socketVars>>

SendHeartFailed ==
  /\ GoWorker("send", "unlock_send", at)
  /\ peer[at] = "reset"
  /\ LosedClient(at)
  /\ UNCHANGED <<recverVars, guarded>>

(* send() with flags 0 on a connection that broke after the peer's close   *)
(* raises SIGPIPE, which nothing handles: the process ends.                *)
SendHeartKills ==
  /\ GoWorker("send", "dead", at)
  /\ peer[at] = "broken"
  /\ open' = {} /\ m_readfds' = {ListenFd} /\ m_max_fd' = ListenFd
  /\ m_hearts_mp' = [fd \in {} |-> 0] /\ m_mutex_mp' = {} /\ guarded' = NoFd
  /\ m_tmpfds' = {} /\ phase' = "handling" /\ selecting' = FALSE
  /\ UNCHANGED <<backlog, peer, inbox, owing, partly, full, missed>>

UnlockSend == Unlock("unlock_send", "hearts")

FinishSendHeart ==
  /\ Due(Clients) = {}
  /\ GoWorker("hearts", "idle", ListenFd)
  /\ UNCHANGED <<recverVars, watchVars, mapVars, guarded, socketVars>>

(* keep_alive.                                                             *)
StartKeepAlive ==
  /\ GoWorker("idle", "sweep", ListenFd)
  /\ UNCHANGED <<recverVars, watchVars, mapVars, guarded, socketVars>>

(* operator[] answers 0 for a client the map does not know.                *)
Hearts(fd) == IF fd \in DOMAIN m_hearts_mp THEN m_hearts_mp[fd] ELSE 0

GiveUp(fd) ==
  /\ VisitIn(Clients, fd)
  /\ Hearts(fd) = 0
  /\ GoWorker("sweep", "sweep", fd + 1)
  /\ LosedClient(fd)
  /\ UNCHANGED <<recverVars, guarded>>

(* Mutant of CountDown: the count goes below zero.                         *)
CountDownOn(fd) ==
  /\ VisitIn(Clients, fd)
  /\ GoWorker("sweep", "sweep", fd + 1)
  /\ m_hearts_mp' = [m_hearts_mp EXCEPT ![fd] = @ - 1]
  /\ missed' = [missed EXCEPT ![fd] = @ + 1]
  /\ UNCHANGED <<recverVars, watchVars, m_mutex_mp, guarded, socketVars>>

(* Mutant of CountDown: the sweep does not count.                          *)
PassBy(fd) ==
  /\ VisitIn(Clients, fd)
  /\ Hearts(fd) # 0
  /\ GoWorker("sweep", "sweep", fd + 1)
  /\ UNCHANGED <<recverVars, watchVars, mapVars, guarded, socketVars>>

CountDown(fd) ==
  /\ VisitIn(Clients, fd)
  /\ Hearts(fd) # 0
  /\ GoWorker("sweep", "sweep", fd + 1)
  /\ m_hearts_mp' = [m_hearts_mp EXCEPT ![fd] = @ - 1]
  /\ missed' = [missed EXCEPT ![fd] = @ + 1]
  /\ UNCHANGED <<recverVars, watchVars, m_mutex_mp, guarded, socketVars>>

FinishKeepAlive ==
  /\ Due(Clients) = {}
  /\ GoWorker("sweep", "idle", ListenFd)
  /\ UNCHANGED <<recverVars, watchVars, mapVars, guarded, socketVars>>

-----------------------------------------------------------------------------
PeerStep ==
  \/ Connect
  \/ \E fd \in ClientFds :
       \/ \E part \in Parts : Send(fd, part)
       \/ SendSome(fd) \/ StallsOrReads(fd) \/ Close(fd) \/ Reset(fd)

ListenerStep == CopyFds \/ CallSelect \/ SelectReturns

CallbackStep ==
  \/ FinishEvent \/ Accept \/ RecvBody \/ RecvBodyFailed \/ UnlockRecv
  \/ \E fd \in ClientFds :
       RecvHeart(fd) \/ RecvFailed(fd) \/ RecvJunk(fd) \/ RecvHead(fd)

SendHeartStep ==
  \/ HeartSent \/ SendHeartFailed \/ SendHeartKills
  \/ UnlockSend \/ FinishSendHeart
  \/ \E fd \in ClientFds : SendHeartOnce(fd)

KeepAliveStep ==
  \/ FinishKeepAlive
  \/ \E fd \in ClientFds : GiveUp(fd) \/ CountDown(fd)

Next ==
  \/ PeerStep
  \/ ListenerStep
  \/ TakeEvent \/ CallbackStep
  \/ StartSendHeart \/ SendHeartStep
  \/ StartKeepAlive \/ KeepAliveStep

Spec == Init /\ [][Next]_vars

(* A callback that can go on does, and the keep-alive timer gets its turn  *)
(* whenever the worker is idle again and again: both timers have the same  *)
(* interval of seconds and their callbacks are short.  Peers owe nothing,  *)
(* and the listener thread may be stranded in its wait (see Recver).       *)
Fairness ==
  /\ WF_vars(CallbackStep)
  /\ WF_vars(SendHeartStep)
  /\ WF_vars(KeepAliveStep)
  /\ SF_vars(StartKeepAlive)

FairSpec == Spec /\ Fairness

-----------------------------------------------------------------------------
(* The server's four records of a client agree: a descriptor is open, is   *)
(* watched, has a count of hearts and has a mutex, or none of the four,    *)
(* whatever closed it and however its number was used again.               *)
RecordsAgree ==
  /\ Clients = open
  /\ DOMAIN m_hearts_mp = open
  /\ m_mutex_mp = open

(* m_max_fd is a descriptor that is watched, so the loops and select()     *)
(* never run past what the server knows.                                   *)
MaxFdIsWatched == m_max_fd \in m_readfds

(* The keep-alive sweep gives a client up only after MaxHearts sweeps in a *)
(* row that heard nothing of it, counted from the accept or the last heart *)
(* of this very connection, not of an earlier one with its descriptor.     *)
GivenUpOnlyWhenSilent ==
  [][\A fd \in open \ open' : pc = "sweep" => missed[fd] = MaxHearts]_vars

(* The worker sits in a recv() whose peer is there and has not sent the    *)
(* whole part, or in a send() whose peer is there and reads nothing.       *)
NothingFrom(fd) == fd \in open /\ inbox[fd] = <<>> /\ peer[fd] = "open"

WaitsForPeer ==
  \/ pc = "body" /\ NothingFrom(at)
  \/ pc = "walk" /\ \E fd \in ClientFds : Visit(fd) /\ NothingFrom(fd)
  \/ pc = "send" /\ at \in full

(* A client that is heard no more is given up, unless a recv() or a send() *)
(* that waits for its peer keeps the worker for good, or m_max_fd falls    *)
(* below the client again and again, so that the sweeps do not reach it.   *)
(* A listener that never wakes up again is no excuse.                      *)
LostUnlessBlocked ==
  \A fd \in ClientFds :
    <>[](fd \in open) =>
      \/ []<><<RecvHeart(fd)>>_vars
      \/ <>[]WaitsForPeer
      \/ []<>(m_max_fd < fd)

(* The largest watched descriptor is m_max_fd ("max fd number is").        *)
MaxFdIsMax == m_max_fd = Max(m_readfds)

(* The recv of a head waits only for the rest of a head that has begun to  *)
(* arrive, or on a client accepted by this very callback, to which the     *)
(* kernel gave a descriptor of m_tmpfds: that of a client given up since   *)
(* the select, or one that no select reported but the garbage in m_tmpfds. *)
HeadRecvWaitsForRestOrNewClient ==
  pc = "walk" =>
    \A fd \in ClientFds :
      Visit(fd) /\ NothingFrom(fd) =>
        partly[fd] \/ (ListenFd \in m_tmpfds /\ missed[fd] = 0)
=============================================================================
