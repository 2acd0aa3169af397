---------------------------- MODULE TcpServerProofs ----------------------------
(***************************************************************************)
(* Proofs about TcpServer for any range of descriptors and any MAX_HEARTS: *)
(* the server's records of a client agree, m_max_fd is watched, a client   *)
(* is given up only after MAX_HEARTS silent sweeps, the recv of a head     *)
(* seldom has to wait, and a payload is read where one is due.             *)
(***************************************************************************)
EXTENDS TcpServer, FiniteSetTheorems, SequenceTheorems, WellFoundedInduction,
        TLAPS

-----------------------------------------------------------------------------
(* The invariant.                                                          *)

(* The listening socket is watched, and the worker sends to and waits for  *)
(* clients only.                                                           *)
FdsAreKnown ==
  /\ ListenFd \in m_readfds
  /\ open \subseteq ClientFds
  /\ pc \in {"body", "send"} => at \in ClientFds

(* accept() always finds a free descriptor.                                *)
BacklogFits == backlog \in Nat /\ backlog <= Cardinality(FreeFds)

(* A client has as many sweeps left as it has not been silent for.         *)
HeartsAreCounted ==
  /\ missed \in [ClientFds -> Nat]
  /\ \A fd \in open :
       m_hearts_mp[fd] \in Nat /\ m_hearts_mp[fd] + missed[fd] = MaxHearts

IInv ==
  /\ RecordsAgree /\ MaxFdIsWatched
  /\ FdsAreKnown /\ BacklogFits /\ HeartsAreCounted

-----------------------------------------------------------------------------
(* Descriptors are natural numbers, the listening one the least.           *)
LEMMA Fds ==
  /\ ListenFd \in Nat /\ ClientFds \subseteq Nat
  /\ \A fd \in ClientFds : ListenFd < fd
  /\ NoFd \notin ClientFds
  /\ MaxHearts \in Nat
BY FdAssumption, BoundAssumption DEF ClientFds, NoFd

(* A set of descriptors has a least one.                                   *)
LEMMA MinIsIn ==
  ASSUME NEW S, S \subseteq Nat, S # {}
  PROVE  Min(S) \in S /\ \A x \in S : Min(S) <= x
<1>1. PICK x \in S : \A y \in S : ~ (<<y, x>> \in OpToRel(<, Nat))
  BY WFMin, NatLessThanWellFounded
<1>2. \A y, z \in Nat : y < z => <<y, z>> \in OpToRel(<, Nat)
  BY DEF OpToRel
<1>3. \A y \in S : x <= y
  <2> SUFFICES ASSUME NEW y \in S, ~(x <= y) PROVE FALSE
    OBVIOUS
  <2>1. y < x
    OBVIOUS
  <2> QED
    BY <1>1, <1>2, <2>1
<1> QED
  BY <1>3 DEF Min

(* There are finitely many descriptors.                                    *)
LEMMA FreeFdsFinite ==
  /\ IsFiniteSet(ClientFds)
  /\ \A S \in SUBSET ClientFds : IsFiniteSet(S) /\ Cardinality(S) \in Nat
<1>1. IsFiniteSet(ClientFds)
  BY FdAssumption, FS_Interval DEF ClientFds
<1> QED
  BY <1>1, FS_Subset, FS_CardinalityType

(* At the start there is nobody.                                           *)
LEMMA IInvInit == Init => IInv
<1> SUFFICES ASSUME Init PROVE IInv
  OBVIOUS
<1>1. BacklogFits
  <2>1. Cardinality(FreeFds) \in Nat
    BY FreeFdsFinite DEF FreeFds
  <2> QED
    BY <2>1 DEF Init, BacklogFits
<1> QED
  BY <1>1 DEF Init, IInv, RecordsAgree, Clients, MaxFdIsWatched, FdsAreKnown,
     HeartsAreCounted

-----------------------------------------------------------------------------
(* Giving a client up, wherever it is done, keeps the records together.    *)
LEMMA LosedClientSound ==
  ASSUME IInv, NEW fd \in ClientFds, LosedClient(fd),
         pc' \in {"body", "send"} => at' \in ClientFds
  PROVE  IInv'
<1>1. ListenFd \in m_readfds \ {fd}
  BY Fds DEF IInv, FdsAreKnown
<1>2. m_readfds \ {fd} \subseteq Nat
  BY Fds DEF IInv, FdsAreKnown, RecordsAgree, Clients
<1>3. MaxFdIsWatched'
  BY <1>1, <1>2, MinIsIn DEF LosedClient, NewMaxFd, IInv, MaxFdIsWatched
<1>4. RecordsAgree'
  BY DEF LosedClient, IInv, RecordsAgree, Clients, Restrict
<1>5. BacklogFits'
  <2>1. FreeFds \subseteq FreeFds' /\ FreeFds' \in SUBSET ClientFds
    BY DEF LosedClient, FreeFds
  <2>2. Cardinality(FreeFds) <= Cardinality(FreeFds')
    BY <2>1, FreeFdsFinite, FS_Subset
  <2>3. Cardinality(FreeFds) \in Nat /\ Cardinality(FreeFds') \in Nat
    BY <2>1, FreeFdsFinite
  <2> QED
    BY <2>2, <2>3 DEF LosedClient, IInv, BacklogFits
<1>6. HeartsAreCounted'
  BY DEF LosedClient, IInv, HeartsAreCounted, RecordsAgree, Restrict
<1>7. FdsAreKnown'
  BY <1>1 DEF LosedClient, IInv, FdsAreKnown
<1> QED
  BY <1>3, <1>4, <1>5, <1>6, <1>7 DEF IInv

(* A new client gets a free descriptor and is recorded everywhere.         *)
LEMMA AcceptSound == IInv /\ Accept => IInv'
<1> SUFFICES ASSUME IInv, Accept PROVE IInv'
  OBVIOUS
<1> DEFINE fd == Min(FreeFds)
<1>1. FreeFds # {}
  BY FS_EmptySet DEF Accept, IInv, BacklogFits
<1>2. fd \in FreeFds /\ fd \in ClientFds
  BY <1>1, MinIsIn, Fds DEF FreeFds
<1>3. BacklogFits'
  <2>1. FreeFds' = FreeFds \ {fd}
    BY DEF Accept, FreeFds
  <2>2. Cardinality(FreeFds') = Cardinality(FreeFds) - 1
    BY <2>1, <1>2, FreeFdsFinite, FS_RemoveElement DEF FreeFds
  <2>3. Cardinality(FreeFds) \in Nat
    BY FreeFdsFinite DEF FreeFds
  <2> QED
    BY <2>2, <2>3 DEF Accept, IInv, BacklogFits
<1>4. /\ open' = open \cup {fd} /\ m_readfds' = m_readfds \cup {fd}
      /\ m_max_fd' = (IF m_max_fd < fd THEN fd ELSE m_max_fd)
      /\ m_hearts_mp' = FullHearts(fd)
      /\ m_mutex_mp' = m_mutex_mp \cup {fd}
      /\ missed' = [missed EXCEPT ![fd] = 0]
      /\ pc' = "walk"
  BY DEF Accept, GoWorker
<1> HIDE DEF fd
<1>5. /\ DOMAIN m_hearts_mp' = DOMAIN m_hearts_mp \cup {fd}
      /\ m_hearts_mp'[fd] = MaxHearts
      /\ \A d \in DOMAIN m_hearts_mp \ {fd} : m_hearts_mp'[d] = m_hearts_mp[d]
  BY <1>4 DEF FullHearts
<1>6. RecordsAgree' /\ MaxFdIsWatched' /\ FdsAreKnown'
  BY <1>2, <1>4, <1>5, Fds DEF IInv, RecordsAgree, Clients, MaxFdIsWatched,
     FdsAreKnown
<1>7. HeartsAreCounted'
  BY <1>2, <1>4, <1>5, Fds DEF IInv, RecordsAgree, HeartsAreCounted
<1> QED
  BY <1>3, <1>6, <1>7 DEF IInv

(* Steps that leave clients and their records alone.                       *)
LEMMA RecordsUntouched ==
  ASSUME IInv, UNCHANGED <<watchVars, m_hearts_mp, missed, open>>,
         m_mutex_mp' = m_mutex_mp \/ \E fd \in open : m_mutex_mp' = m_mutex_mp \cup {fd},
         pc' \in {"body", "send"} => at' \in ClientFds,
         backlog' \in Nat, backlog' <= Cardinality(FreeFds)
  PROVE  IInv'
BY DEF watchVars, IInv, RecordsAgree, Clients, MaxFdIsWatched, FdsAreKnown,
   BacklogFits, FreeFds, HeartsAreCounted

(* What a step of the environment, the listener or a loop that only moves  *)
(* on leaves alone.                                                        *)
LEMMA BacklogKept ==
  ASSUME IInv, UNCHANGED backlog
  PROVE  backlog' \in Nat /\ backlog' <= Cardinality(FreeFds)
BY DEF IInv, BacklogFits

(* The steps of the kernel and the peers.                                  *)
LEMMA PeerSound == IInv /\ PeerStep => IInv'
<1> SUFFICES ASSUME IInv, PeerStep PROVE IInv'
  OBVIOUS
<1>1. CASE Connect
  <2>1. backlog' \in Nat /\ backlog' <= Cardinality(FreeFds)
    BY <1>1, FreeFdsFinite DEF Connect, FreeFds, IInv, BacklogFits
  <2> QED
    BY <1>1, <2>1, RecordsUntouched DEF Connect, mapVars, workerVars, IInv,
       FdsAreKnown
<1>2. ASSUME NEW fd \in ClientFds,
             \/ Close(fd) \/ Reset(fd) \/ SendSome(fd) \/ StallsOrReads(fd)
             \/ \E part \in Parts : Send(fd, part)
      PROVE  IInv'
  BY <1>2, RecordsUntouched, BacklogKept DEF Close, Reset, Send, SendSome,
     StallsOrReads, mapVars, workerVars, IInv, FdsAreKnown
<1> QED
  BY <1>1, <1>2 DEF PeerStep

(* The listener thread only reads what IInv is about.                      *)
LEMMA ListenerSound == IInv /\ ListenerStep => IInv'
BY RecordsUntouched, BacklogKept DEF ListenerStep, CopyFds, CallSelect,
   SelectReturns, mapVars, workerVars, socketVars, IInv, FdsAreKnown

(* The callback of m_recver.                                               *)
LEMMA CallbackSound == IInv /\ (TakeEvent \/ CallbackStep) => IInv'
<1> SUFFICES ASSUME IInv, TakeEvent \/ CallbackStep PROVE IInv'
  OBVIOUS
<1>1. CASE TakeEvent \/ FinishEvent \/ UnlockRecv
  BY <1>1, RecordsUntouched, BacklogKept DEF TakeEvent, FinishEvent,
     UnlockRecv, Unlock, GoWorker, mapVars, socketVars
<1>2. CASE Accept
  BY <1>2, AcceptSound
<1>3. CASE RecvBody
  BY <1>3, RecordsUntouched, BacklogKept DEF RecvBody, Received, GoWorker,
     mapVars
<1>4. CASE RecvBodyFailed
  BY <1>4, LosedClientSound DEF RecvBodyFailed, GoWorker, IInv, FdsAreKnown
<1>5. ASSUME NEW fd \in ClientFds, RecvHeart(fd) PROVE IInv'
  <2>1. /\ fd \in open /\ UNCHANGED <<open, backlog, m_readfds, m_max_fd, m_mutex_mp>>
        /\ m_hearts_mp' = FullHearts(fd)
        /\ missed' = [missed EXCEPT ![fd] = 0]
        /\ pc' = "walk"
    BY <1>5 DEF RecvHeart, Received, GoWorker, watchVars
  <2>2. DOMAIN FullHearts(fd) = DOMAIN m_hearts_mp
    BY <2>1 DEF FullHearts, IInv, RecordsAgree
  <2>3. HeartsAreCounted'
    BY <2>1 DEF FullHearts, IInv, RecordsAgree, HeartsAreCounted
  <2> QED
    BY <2>1, <2>2, <2>3 DEF IInv, RecordsAgree, Clients, MaxFdIsWatched,
       FdsAreKnown, BacklogFits, FreeFds
<1>6. ASSUME NEW fd \in ClientFds, RecvFailed(fd) \/ RecvJunk(fd) PROVE IInv'
  BY <1>6, LosedClientSound DEF RecvFailed, RecvJunk, GoWorker
<1>7. ASSUME NEW fd \in ClientFds, RecvHead(fd) PROVE IInv'
  BY <1>7, RecordsUntouched, BacklogKept DEF RecvHead, Received, GoWorker
<1> QED
  BY <1>1, <1>2, <1>3, <1>4, <1>5, <1>6, <1>7 DEF CallbackStep

(* The callback of the heart timer.                                        *)
LEMMA SendHeartSound == IInv /\ (StartSendHeart \/ SendHeartStep) => IInv'
<1> SUFFICES ASSUME IInv, StartSendHeart \/ SendHeartStep PROVE IInv'
  OBVIOUS
<1>1. CASE StartSendHeart \/ HeartSent \/ UnlockSend \/ FinishSendHeart
  BY <1>1, RecordsUntouched, BacklogKept DEF StartSendHeart, HeartSent,
     UnlockSend, Unlock, FinishSendHeart, GoWorker, mapVars, socketVars
<1>2. CASE SendHeartFailed
  BY <1>2, LosedClientSound DEF SendHeartFailed, GoWorker, IInv, FdsAreKnown
<1>3. CASE SendHeartKills
  <2>1. BacklogFits'
    <3>1. FreeFds \in SUBSET FreeFds' /\ FreeFds' \in SUBSET ClientFds
      BY <1>3 DEF SendHeartKills, FreeFds
    <3>2. Cardinality(FreeFds) <= Cardinality(FreeFds')
      BY <3>1, FreeFdsFinite, FS_Subset
    <3>3. Cardinality(FreeFds) \in Nat /\ Cardinality(FreeFds') \in Nat
      BY <3>1, FreeFdsFinite
    <3> QED
      BY <1>3, <3>2, <3>3 DEF SendHeartKills, IInv, BacklogFits
  <2> QED
    BY <1>3, <2>1 DEF SendHeartKills, GoWorker, IInv, RecordsAgree, Clients,
       MaxFdIsWatched, FdsAreKnown, HeartsAreCounted
<1>4. ASSUME NEW fd \in ClientFds, SendHeartOnce(fd) PROVE IInv'
  <2>1. fd \in open
    BY <1>4, MinIsIn, Fds DEF SendHeartOnce, VisitIn, Due, IInv, RecordsAgree,
       FdsAreKnown
  <2> QED
    BY <1>4, <2>1, RecordsUntouched, BacklogKept DEF SendHeartOnce, GoWorker,
       socketVars
<1> QED
  BY <1>1, <1>2, <1>3, <1>4 DEF SendHeartStep

(* The callback of the keep-alive timer.                                   *)
LEMMA KeepAliveSound == IInv /\ (StartKeepAlive \/ KeepAliveStep) => IInv'
<1> SUFFICES ASSUME IInv, StartKeepAlive \/ KeepAliveStep PROVE IInv'
  OBVIOUS
<1>1. CASE StartKeepAlive \/ FinishKeepAlive
  BY <1>1, RecordsUntouched, BacklogKept DEF StartKeepAlive, FinishKeepAlive,
     GoWorker, mapVars, socketVars
<1>2. ASSUME NEW fd \in ClientFds, GiveUp(fd) PROVE IInv'
  BY <1>2, LosedClientSound DEF GiveUp, GoWorker
<1>3. ASSUME NEW fd \in ClientFds, CountDown(fd) PROVE IInv'
  <2>1. fd \in open /\ m_hearts_mp[fd] # 0
    BY <1>3 DEF CountDown, Hearts, IInv, RecordsAgree
  <2>2. /\ m_hearts_mp' = [m_hearts_mp EXCEPT ![fd] = @ - 1]
        /\ missed' = [missed EXCEPT ![fd] = @ + 1]
        /\ open' = open
    BY <1>3 DEF CountDown, socketVars
  <2>3. \A d \in open :
          m_hearts_mp'[d] \in Nat /\ m_hearts_mp'[d] + missed'[d] = MaxHearts
    BY <2>1, <2>2 DEF IInv, RecordsAgree, HeartsAreCounted
  <2>4. HeartsAreCounted'
    BY <2>2, <2>3 DEF IInv, HeartsAreCounted
  <2> QED
    BY <1>3, <2>4 DEF CountDown, GoWorker, watchVars, socketVars, IInv,
       RecordsAgree, Clients, MaxFdIsWatched, FdsAreKnown, BacklogFits,
       FreeFds
<1> QED
  BY <1>1, <1>2, <1>3 DEF KeepAliveStep

(* IInv holds all the time.                                                *)
LEMMA Invariance == Spec => []IInv
<1>1. IInv /\ [Next]_vars => IInv'
  <2>1. IInv /\ UNCHANGED vars => IInv'
    BY DEF vars, watchVars, mapVars, workerVars, socketVars, IInv,
       RecordsAgree, Clients, MaxFdIsWatched, FdsAreKnown, BacklogFits,
       FreeFds, HeartsAreCounted
  <2> QED
    BY <2>1, PeerSound, ListenerSound, CallbackSound, SendHeartSound,
       KeepAliveSound DEF Next
<1> QED
  BY <1>1, IInvInit, PTL DEF Spec

-----------------------------------------------------------------------------
(* The four records of a client agree, for any number of descriptors,      *)
(* whatever closed it and however its number was used again.               *)
THEOREM RecordsCorrect == Spec => []RecordsAgree
BY Invariance, PTL DEF IInv

(* m_max_fd is always a descriptor that is watched.                        *)
THEOREM MaxFdCorrect == Spec => []MaxFdIsWatched
BY Invariance, PTL DEF IInv

(* A sweep gives up a client only after MAX_HEARTS silent sweeps in a row, *)
(* for any MAX_HEARTS.                                                     *)
THEOREM KeepAliveIsPatient == Spec => GivenUpOnlyWhenSilent
<1>1. IInv /\ [Next]_vars
        => [\A fd \in open \ open' : pc = "sweep" => missed[fd] = MaxHearts]_vars
  <2> SUFFICES ASSUME IInv, Next, NEW fd \in open \ open', pc = "sweep"
               PROVE  missed[fd] = MaxHearts
    OBVIOUS
  <2>1. PICK d \in ClientFds : GiveUp(d)
    BY DEF Next, PeerStep, Connect, Send, SendSome, StallsOrReads, Close, Reset,
       ListenerStep, CopyFds,
       CallSelect, SelectReturns, TakeEvent, CallbackStep, FinishEvent,
       Accept, RecvBody, RecvBodyFailed, UnlockRecv, RecvHeart, RecvFailed,
       RecvJunk, RecvHead, StartSendHeart, SendHeartStep, HeartSent,
       SendHeartFailed, SendHeartKills, UnlockSend, Unlock, FinishSendHeart,
       SendHeartOnce, StartKeepAlive, KeepAliveStep, FinishKeepAlive,
       CountDown, GoWorker, socketVars
  <2>2. fd = d /\ m_hearts_mp[fd] = 0
    BY <2>1 DEF GiveUp, LosedClient, Hearts, IInv, RecordsAgree
  <2> QED
    BY <2>2 DEF IInv, HeartsAreCounted
<1> QED
  BY <1>1, Invariance, PTL DEF Spec, GivenUpOnlyWhenSilent
-----------------------------------------------------------------------------
(* What select() has reported is still so when the callback comes to it.   *)

Visiting == {"walk", "body", "unlock_recv"}

(* The listener thread rests while the callback of m_recver runs.          *)
EventIsHandled ==
  /\ pc \in Visiting => phase = "handling"
  /\ selecting => phase = "watching"

(* The callback has to come to a reported descriptor yet.                  *)
ToVisit(fd) ==
  /\ fd \in m_tmpfds /\ fd \in open
  /\ \/ phase = "event"
     \/ pc = "walk" /\ at <= fd
     \/ pc \in {"body", "unlock_recv"} /\ at < fd

EventIsReadable ==
  \A fd \in ClientFds :
    ToVisit(fd) =>
      \/ inbox[fd] # <<>> \/ partly[fd] \/ peer[fd] # "open"
      \/ pc \in Visiting /\ ListenFd \in m_tmpfds /\ missed[fd] = 0

(* The part of the types that IInv does not give.                          *)
SocketsTyped ==
  /\ peer \in [ClientFds -> PeerStates]
  /\ inbox \in [ClientFds -> Seq(Parts)]
  /\ owing \in [ClientFds -> BOOLEAN]
  /\ partly \in [ClientFds -> BOOLEAN]
  /\ full \subseteq ClientFds
  /\ missed \in [ClientFds -> 0 .. MaxHearts + 1]

WorkerTyped ==
  /\ m_tmpfds \subseteq AllFds
  /\ phase \in {"rest", "watching", "event", "handling"}
  /\ selecting \in BOOLEAN
  /\ pc \in WorkerPC
  /\ at \in ListenFd .. NoFd
  /\ guarded \in ClientFds \cup {NoFd}
  /\ pc \in {"unlock_recv", "unlock_send"} => at \in ClientFds

EventInv ==
  IInv /\ SocketsTyped /\ WorkerTyped /\ EventIsHandled /\ EventIsReadable
(* The descriptors that occur are natural numbers, one more fits, too.     *)
LEMMA Numbers ==
  /\ AllFds \subseteq Nat /\ ClientFds \subseteq AllFds
  /\ \A fd \in ClientFds :
       fd \in ListenFd .. NoFd /\ fd + 1 \in ListenFd .. NoFd /\ fd # ListenFd
  /\ ListenFd \in ListenFd .. NoFd /\ ListenFd + 1 \in ListenFd .. NoFd
  /\ ListenFd .. NoFd \subseteq Nat
BY FdAssumption DEF AllFds, ClientFds, NoFd

(* The loop stands at a descriptor of its set that it has not passed.      *)
LEMMA VisitFacts ==
  ASSUME NEW fds, fds \subseteq AllFds, NEW fd, VisitIn(fds, fd)
  PROVE  fd \in fds /\ at <= fd
<1>1. Due(fds) \subseteq Nat  BY Numbers DEF Due
<1>. QED  BY <1>1, MinIsIn DEF VisitIn, Due

(* Giving up a client touches no other.                                    *)
LEMMA LosedClientSockets ==
  ASSUME SocketsTyped, NEW fd \in ClientFds, LosedClient(fd)
  PROVE  /\ SocketsTyped'
         /\ open' = open \ {fd}
         /\ \A d \in ClientFds \ {fd} :
              /\ inbox'[d] = inbox[d] /\ partly'[d] = partly[d]
              /\ peer'[d] = peer[d] /\ missed'[d] = missed[d]
<1>1. /\ open' = open \ {fd}
      /\ peer' = [peer EXCEPT ![fd] = "open"]
      /\ inbox' = [inbox EXCEPT ![fd] = <<>>]
      /\ owing' = [owing EXCEPT ![fd] = FALSE]
      /\ partly' = [partly EXCEPT ![fd] = FALSE]
      /\ full' = full \ {fd}
      /\ missed' = [missed EXCEPT ![fd] = 0]
  BY DEF LosedClient
<1>2. peer' \in [ClientFds -> PeerStates]
  BY <1>1 DEF SocketsTyped, PeerStates
<1>3. inbox' \in [ClientFds -> Seq(Parts)]
  <2>1. <<>> \in Seq(Parts)  BY EmptySeq
  <2>. QED  BY <1>1, <2>1 DEF SocketsTyped
<1>4. owing' \in [ClientFds -> BOOLEAN] /\ partly' \in [ClientFds -> BOOLEAN]
  BY <1>1 DEF SocketsTyped
<1>5. missed' \in [ClientFds -> 0 .. MaxHearts + 1]
  <2>1. 0 \in 0 .. MaxHearts + 1  BY Fds
  <2>. QED  BY <1>1, <2>1 DEF SocketsTyped
<1>6. \A d \in ClientFds \ {fd} :
        /\ inbox'[d] = inbox[d] /\ partly'[d] = partly[d]
        /\ peer'[d] = peer[d] /\ missed'[d] = missed[d]
  BY <1>1 DEF SocketsTyped
<1>. QED  BY <1>1, <1>2, <1>3, <1>4, <1>5, <1>6 DEF SocketsTyped

(* A recv() touches no other client.                                       *)
LEMMA ReceivedSockets ==
  ASSUME SocketsTyped, NEW fd \in ClientFds, NEW part, Received(fd, part)
  PROVE  /\ inbox' \in [ClientFds -> Seq(Parts)]
         /\ \A d \in ClientFds \ {fd} : inbox'[d] = inbox[d]
<1>1. inbox[fd] \in Seq(Parts) /\ inbox[fd] # <<>>
  BY DEF SocketsTyped, Received
<1>2. Tail(inbox[fd]) \in Seq(Parts)  BY <1>1, HeadTailProperties
<1>3. inbox' = [inbox EXCEPT ![fd] = Tail(@)]  BY DEF Received
<1>. QED  BY <1>2, <1>3 DEF SocketsTyped

(* A step that only takes descriptors off the list of those to visit.      *)
LEMMA ReadableKept ==
  ASSUME EventIsReadable, m_tmpfds' = m_tmpfds,
         \A fd \in ClientFds :
           ToVisit(fd)' =>
             /\ ToVisit(fd)
             /\ inbox'[fd] = inbox[fd] /\ partly'[fd] = partly[fd]
             /\ peer'[fd] = peer[fd] /\ missed'[fd] = missed[fd]
             /\ pc \in Visiting => pc' \in Visiting
  PROVE  EventIsReadable'
BY DEF EventIsReadable

-----------------------------------------------------------------------------
(* At the start no client is there that could be reported.                 *)
LEMMA EventInit == Init => EventInv
<1>. SUFFICES ASSUME Init  PROVE EventInv
  OBVIOUS
<1>1. IInv  BY IInvInit
<1>. USE DEF Init
<1>2. SocketsTyped
  <2>1. <<>> \in Seq(Parts)  BY EmptySeq
  <2>2. 0 \in 0 .. MaxHearts + 1  BY Fds
  <2>. QED  BY <2>1, <2>2 DEF SocketsTyped, PeerStates
<1>3. WorkerTyped
  <2>1. m_tmpfds \subseteq AllFds /\ phase \in {"rest", "event"}  BY DEF BornIn
  <2>. QED  BY <2>1, Numbers DEF WorkerTyped, WorkerPC
<1>. QED
  BY <1>1, <1>2, <1>3 DEF EventInv, EventIsHandled, EventIsReadable, ToVisit, Visiting

(* The peers only add to what is readable.                                 *)
LEMMA EventPeer == EventInv /\ PeerStep => EventInv'
<1>. SUFFICES ASSUME EventInv, PeerStep  PROVE EventInv'
  OBVIOUS
<1>1. IInv'  BY PeerSound DEF EventInv
<1>2. /\ UNCHANGED <<recverVars, watchVars, mapVars, workerVars>> /\ open' = open
  BY DEF PeerStep, Connect, Send, SendSome, StallsOrReads, Close, Reset
<1>3. WorkerTyped' /\ EventIsHandled'
  BY <1>2 DEF EventInv, WorkerTyped, EventIsHandled, recverVars, workerVars
<1>4. /\ SocketsTyped'
      /\ \A d \in ClientFds :
           (inbox[d] # <<>> \/ partly[d] \/ peer[d] # "open")
             => (inbox'[d] # <<>> \/ partly'[d] \/ peer'[d] # "open")
  <2>1. missed' = missed  BY <1>2 DEF mapVars
  <2>2. CASE Connect
    BY <2>1, <2>2 DEF Connect, EventInv, SocketsTyped
  <2>3. ASSUME NEW fd \in ClientFds, NEW part \in Parts, Send(fd, part)
        PROVE  /\ SocketsTyped'
               /\ \A d \in ClientFds :
                    (inbox[d] # <<>> \/ partly[d] \/ peer[d] # "open")
                      => (inbox'[d] # <<>> \/ partly'[d] \/ peer'[d] # "open")
    <3>1. /\ inbox' = [inbox EXCEPT ![fd] = Append(@, part)]
          /\ owing' = [owing EXCEPT ![fd] = (part = "head")]
          /\ partly' = [partly EXCEPT ![fd] = FALSE]
          /\ peer' = peer /\ full' = full
      BY <2>3 DEF Send
    <3>2. Append(inbox[fd], part) \in Seq(Parts) /\ Append(inbox[fd], part) # <<>>
      <4>1. inbox[fd] \in Seq(Parts)  BY DEF EventInv, SocketsTyped
      <4>. QED  BY <4>1, AppendProperties
    <3>3. inbox' \in [ClientFds -> Seq(Parts)]
      BY <3>1, <3>2 DEF EventInv, SocketsTyped
    <3>4. owing' \in [ClientFds -> BOOLEAN] /\ partly' \in [ClientFds -> BOOLEAN]
      BY <3>1 DEF EventInv, SocketsTyped
    <3>5. \A d \in ClientFds :
            \/ inbox'[d] = inbox[d] /\ partly'[d] = partly[d]
            \/ inbox'[d] # <<>>
      BY <3>1, <3>2 DEF EventInv, SocketsTyped
    <3>. QED
      BY <2>1, <3>1, <3>3, <3>4, <3>5 DEF EventInv, SocketsTyped
  <2>4. ASSUME NEW fd \in ClientFds, Close(fd)
        PROVE  /\ SocketsTyped'
               /\ \A d \in ClientFds :
                    (inbox[d] # <<>> \/ partly[d] \/ peer[d] # "open")
                      => (inbox'[d] # <<>> \/ partly'[d] \/ peer'[d] # "open")
    BY <2>1, <2>4 DEF Close, EventInv, SocketsTyped, PeerStates
  <2>5. ASSUME NEW fd \in ClientFds, Reset(fd)
        PROVE  /\ SocketsTyped'
               /\ \A d \in ClientFds :
                    (inbox[d] # <<>> \/ partly[d] \/ peer[d] # "open")
                      => (inbox'[d] # <<>> \/ partly'[d] \/ peer'[d] # "open")
    <3>1. /\ peer' = [peer EXCEPT ![fd] = IF @ = "closed" THEN "broken" ELSE "reset"]
          /\ inbox' = [inbox EXCEPT ![fd] = <<>>]
          /\ partly' = [partly EXCEPT ![fd] = FALSE]
          /\ owing' = owing /\ full' = full \ {fd}
      BY <2>5 DEF Reset
    <3>2. peer' \in [ClientFds -> PeerStates]
      BY <3>1 DEF EventInv, SocketsTyped, PeerStates
    <3>3. <<>> \in Seq(Parts)  BY EmptySeq
    <3>4. inbox' \in [ClientFds -> Seq(Parts)]
      BY <3>1, <3>3 DEF EventInv, SocketsTyped
    <3>5. \A d \in ClientFds :
            d # fd => /\ inbox'[d] = inbox[d] /\ partly'[d] = partly[d]
                      /\ peer'[d] = peer[d]
      BY <3>1 DEF EventInv, SocketsTyped
    <3>6. peer'[fd] # "open"  BY <3>1 DEF EventInv, SocketsTyped
    <3>7. partly' \in [ClientFds -> BOOLEAN]
      BY <3>1 DEF EventInv, SocketsTyped
    <3>. QED
      BY <2>1, <3>1, <3>2, <3>4, <3>5, <3>6, <3>7 DEF EventInv, SocketsTyped
  <2>6. ASSUME NEW fd \in ClientFds, SendSome(fd) \/ StallsOrReads(fd)
        PROVE  /\ SocketsTyped'
               /\ \A d \in ClientFds :
                    (inbox[d] # <<>> \/ partly[d] \/ peer[d] # "open")
                      => (inbox'[d] # <<>> \/ partly'[d] \/ peer'[d] # "open")
    BY <2>1, <2>6 DEF SendSome, StallsOrReads, EventInv, SocketsTyped
  <2>. QED  BY <2>2, <2>3, <2>4, <2>5, <2>6 DEF PeerStep
<1>5. EventIsReadable'
  BY <1>2, <1>4
     DEF EventInv, EventIsReadable, ToVisit, recverVars, mapVars, workerVars
<1>. QED  BY <1>1, <1>3, <1>4, <1>5 DEF EventInv

(* select() reports what is readable, or no client's any more.             *)
LEMMA EventListener == EventInv /\ ListenerStep => EventInv'
<1>. SUFFICES ASSUME EventInv, ListenerStep  PROVE EventInv'
  OBVIOUS
<1>1. IInv'  BY ListenerSound DEF EventInv
<1>2. UNCHANGED <<watchVars, mapVars, workerVars, socketVars>>
  BY DEF ListenerStep, CopyFds, CallSelect, SelectReturns
<1>3. SocketsTyped'
  BY <1>2 DEF EventInv, SocketsTyped, mapVars, socketVars
<1>4. /\ phase \in {"rest", "watching"}
      /\ pc \notin Visiting /\ pc' = pc
  BY <1>2 DEF EventInv, EventIsHandled, ListenerStep, CopyFds, CallSelect,
              SelectReturns, workerVars
<1>5. m_readfds \subseteq AllFds
  BY DEF EventInv, IInv, RecordsAgree, FdsAreKnown, Clients, AllFds
<1>6. CASE CopyFds
  <2>1. /\ phase' = "watching" /\ m_tmpfds' = m_readfds /\ selecting' = selecting
    BY <1>6 DEF CopyFds
  <2>2. WorkerTyped'
    BY <1>2, <1>5, <2>1 DEF EventInv, WorkerTyped, workerVars
  <2>. QED
    BY <1>1, <1>3, <1>4, <2>1, <2>2
       DEF EventInv, EventIsHandled, EventIsReadable, ToVisit, Visiting
<1>7. CASE CallSelect
  <2>1. /\ phase = "watching"
        /\ \/ phase' = "rest" /\ selecting' = selecting /\ m_tmpfds' = m_tmpfds
              /\ ~selecting
           \/ phase' = phase /\ selecting' = TRUE /\ m_tmpfds' = Watched
    BY <1>7 DEF CallSelect
  <2>2. WorkerTyped'
    BY <1>2, <2>1 DEF EventInv, WorkerTyped, Watched, workerVars
  <2>. QED
    BY <1>1, <1>3, <1>4, <2>1, <2>2
       DEF EventInv, EventIsHandled, EventIsReadable, ToVisit, Visiting
<1>8. CASE SelectReturns
  <2>1. PICK gone \in SUBSET Stale(m_tmpfds) :
          m_tmpfds' = {fd \in m_tmpfds : Readable(fd)} \cup gone
    BY <1>8 DEF SelectReturns
  <2>2. phase' = "event" /\ selecting' = FALSE
    BY <1>8 DEF SelectReturns
  <2>3. WorkerTyped'
    BY <1>2, <2>1, <2>2 DEF EventInv, WorkerTyped, Stale, workerVars
  <2>4. EventIsReadable'
    BY <1>2, <2>1, Numbers
       DEF EventIsReadable, ToVisit, Readable, Stale, socketVars
  <2>. QED
    BY <1>1, <1>3, <1>4, <2>2, <2>3, <2>4 DEF EventInv, EventIsHandled
<1>. QED  BY <1>6, <1>7, <1>8 DEF ListenerStep
(* m_recver's callback: takes an event, accepts, visits, ends.             *)
LEMMA EventCallback == EventInv /\ (TakeEvent \/ CallbackStep) => EventInv'
<1>. SUFFICES ASSUME EventInv, TakeEvent \/ CallbackStep  PROVE EventInv'
  OBVIOUS
<1>1. IInv'  BY CallbackSound DEF EventInv
<1>2. /\ IInv /\ SocketsTyped /\ WorkerTyped /\ EventIsHandled /\ EventIsReadable
      /\ m_tmpfds \subseteq AllFds /\ guarded \in ClientFds \cup {NoFd}
      /\ NoFd \in ClientFds \cup {NoFd}
      /\ at \in ListenFd .. NoFd /\ at \in Nat
      /\ phase \in {"rest", "watching", "event", "handling"}
  BY Numbers DEF EventInv, WorkerTyped
<1>3. pc = "body" => at \in ClientFds  BY <1>2 DEF IInv, FdsAreKnown
<1>4. CASE TakeEvent
  <2>1. /\ pc = "idle" /\ phase = "event" /\ pc' = "walk" /\ at' = ListenFd
        /\ phase' = "handling" /\ m_tmpfds' = m_tmpfds /\ guarded' = guarded
        /\ UNCHANGED <<selecting, mapVars, socketVars>>
    BY <1>4 DEF TakeEvent, GoWorker
  <2>2. SocketsTyped'  BY <1>2, <2>1 DEF SocketsTyped, mapVars, socketVars
  <2>3. WorkerTyped'  BY <1>2, <2>1, Numbers DEF WorkerTyped, WorkerPC
  <2>4. EventIsHandled'  BY <1>2, <2>1 DEF EventIsHandled
  <2>5. EventIsReadable'
    BY <1>2, <2>1
       DEF EventIsReadable, ToVisit, Visiting, mapVars, socketVars
  <2>. QED  BY <1>1, <2>2, <2>3, <2>4, <2>5 DEF EventInv
<1>5. CASE FinishEvent
  <2>1. /\ pc = "walk" /\ pc' = "idle" /\ at' = ListenFd /\ phase' = "rest"
        /\ m_tmpfds' = m_tmpfds /\ guarded' = guarded
        /\ UNCHANGED <<selecting, mapVars, socketVars>>
    BY <1>5 DEF FinishEvent, GoWorker
  <2>2. SocketsTyped'  BY <1>2, <2>1 DEF SocketsTyped, mapVars, socketVars
  <2>3. WorkerTyped'  BY <1>2, <2>1, Numbers DEF WorkerTyped, WorkerPC
  <2>4. EventIsHandled'
    BY <1>2, <2>1 DEF EventIsHandled, Visiting
  <2>5. EventIsReadable'  BY <2>1 DEF EventIsReadable, ToVisit
  <2>. QED  BY <1>1, <2>2, <2>3, <2>4, <2>5 DEF EventInv
<1>6. CASE Accept
  <2>. DEFINE fd == Min(FreeFds)
  <2>1. /\ pc = "walk" /\ pc' = "walk" /\ at' = ListenFd + 1
        /\ UNCHANGED <<recverVars, guarded, peer, inbox, owing, partly, full>>
        /\ open' = open \cup {fd}
        /\ missed' = [missed EXCEPT ![fd] = 0]
        /\ VisitIn(m_tmpfds, ListenFd)
    BY <1>6 DEF Accept, GoWorker
  <2>2. ListenFd \in m_tmpfds /\ at <= ListenFd
    BY <1>2, <2>1, VisitFacts
  <2>3. fd \in ClientFds
    <3>1. FreeFds # {}
      BY <1>2, <1>6, FS_EmptySet DEF Accept, IInv, BacklogFits
    <3>2. FreeFds \subseteq Nat  BY Fds DEF FreeFds
    <3>. QED  BY <3>1, <3>2, MinIsIn DEF FreeFds
  <2>. HIDE DEF fd
  <2>4. missed' \in [ClientFds -> 0 .. MaxHearts + 1]
    <3>1. 0 \in 0 .. MaxHearts + 1  BY Fds
    <3>. QED  BY <1>2, <2>1, <2>3, <3>1 DEF SocketsTyped
  <2>5. SocketsTyped'  BY <1>2, <2>1, <2>4 DEF SocketsTyped
  <2>6. WorkerTyped'
    BY <1>2, <2>1, Numbers DEF WorkerTyped, WorkerPC, recverVars
  <2>7. EventIsHandled'  BY <1>2, <2>1 DEF EventIsHandled, Visiting, recverVars
  <2>8. EventIsReadable'
    <3>1. SUFFICES ASSUME NEW d \in ClientFds, ToVisit(d)'
                   PROVE  \/ inbox'[d] # <<>> \/ partly'[d] \/ peer'[d] # "open"
                          \/ missed'[d] = 0
      BY <2>1, <2>2 DEF EventIsReadable, Visiting, recverVars
    <3>2. CASE d = fd  BY <1>2, <2>1, <3>2 DEF SocketsTyped
    <3>3. CASE d # fd
      <4>1. missed'[d] = missed[d]  BY <1>2, <2>1, <3>3 DEF SocketsTyped
      <4>2. at <= d  BY <1>2, <2>2, Fds
      <4>3. ToVisit(d)
        BY <2>1, <3>1, <3>3, <4>2 DEF ToVisit, recverVars
      <4>. QED  BY <1>2, <2>1, <4>1, <4>3 DEF EventIsReadable
    <3>. QED  BY <3>2, <3>3
  <2>. QED  BY <1>1, <2>5, <2>6, <2>7, <2>8 DEF EventInv
<1>7. ASSUME NEW fd \in ClientFds, Visit(fd), UNCHANGED recverVars,
             \/ pc' = "walk" /\ at' = fd + 1
             \/ pc' = "body" /\ at' = fd,
             pc = "walk", guarded' \in {guarded, fd},
             SocketsTyped', open' \subseteq open,
             \A d \in ClientFds \ {fd} :
               \/ d \notin open'
               \/ /\ inbox'[d] = inbox[d] /\ partly'[d] = partly[d]
                  /\ peer'[d] = peer[d] /\ missed'[d] = missed[d]
      PROVE  EventInv'
  <2>1. fd \in m_tmpfds /\ at <= fd  BY <1>2, <1>7, VisitFacts DEF Visit
  <2>2. fd \in Nat /\ fd + 1 \in ListenFd .. NoFd /\ fd \in ListenFd .. NoFd
    BY Numbers
  <2>3. WorkerTyped'
    BY <1>2, <1>7, <2>2 DEF WorkerTyped, WorkerPC, recverVars
  <2>4. EventIsHandled'  BY <1>2, <1>7 DEF EventIsHandled, Visiting, recverVars
  <2>5. EventIsReadable'
    <3>1. ASSUME NEW d \in ClientFds, ToVisit(d)'
          PROVE  /\ ToVisit(d)
                 /\ inbox'[d] = inbox[d] /\ partly'[d] = partly[d]
                 /\ peer'[d] = peer[d] /\ missed'[d] = missed[d]
                 /\ pc \in Visiting => pc' \in Visiting
      <4>1. d \in m_tmpfds /\ d \in open' /\ d \in open /\ d \in Nat
        BY <1>7, <3>1, Fds DEF ToVisit, recverVars
      <4>2. phase = "handling"  BY <1>2, <1>7 DEF EventIsHandled, Visiting
      <4>3. phase' # "event"  BY <1>7, <4>2 DEF recverVars
      <4>4. fd < d
        BY <1>7, <2>2, <3>1, <4>1, <4>3 DEF ToVisit
      <4>5. at <= d  BY <1>2, <2>1, <2>2, <4>1, <4>4
      <4>6. d # fd  BY <2>2, <4>1, <4>4
      <4>. QED  BY <1>7, <4>1, <4>5, <4>6 DEF ToVisit, Visiting
    <3>. QED  BY <1>2, <1>7, <3>1, ReadableKept DEF recverVars
  <2>. QED  BY <1>1, <1>7, <2>3, <2>4, <2>5 DEF EventInv
<1>8. ASSUME NEW fd \in ClientFds, RecvHeart(fd)  PROVE EventInv'
  <2>1. /\ Visit(fd) /\ pc = "walk" /\ pc' = "walk" /\ at' = fd + 1
        /\ Received(fd, "heart") /\ missed' = [missed EXCEPT ![fd] = 0]
        /\ UNCHANGED <<recverVars, guarded>>
    BY <1>8 DEF RecvHeart, GoWorker
  <2>2. UNCHANGED <<open, peer, owing, partly, full>>  BY <2>1 DEF Received
  <2>3. /\ inbox' \in [ClientFds -> Seq(Parts)]
        /\ \A d \in ClientFds \ {fd} : inbox'[d] = inbox[d]
    BY <1>2, <2>1, ReceivedSockets
  <2>4. missed' \in [ClientFds -> 0 .. MaxHearts + 1]
    <3>1. 0 \in 0 .. MaxHearts + 1  BY Fds
    <3>. QED  BY <1>2, <2>1, <3>1 DEF SocketsTyped
  <2>5. \A d \in ClientFds \ {fd} : missed'[d] = missed[d]
    BY <1>2, <2>1 DEF SocketsTyped
  <2>6. SocketsTyped'  BY <1>2, <2>2, <2>3, <2>4 DEF SocketsTyped
  <2>. QED  BY <1>7, <2>1, <2>2, <2>3, <2>5, <2>6
<1>9. ASSUME NEW fd \in ClientFds, RecvFailed(fd) \/ RecvJunk(fd)  PROVE EventInv'
  <2>1. /\ Visit(fd) /\ pc = "walk" /\ pc' = "walk" /\ at' = fd + 1
        /\ LosedClient(fd) /\ UNCHANGED <<recverVars, guarded>>
    BY <1>9 DEF RecvFailed, RecvJunk, GoWorker
  <2>2. /\ SocketsTyped' /\ open' \subseteq open
        /\ \A d \in ClientFds \ {fd} :
             /\ inbox'[d] = inbox[d] /\ partly'[d] = partly[d]
             /\ peer'[d] = peer[d] /\ missed'[d] = missed[d]
    BY <1>2, <2>1, LosedClientSockets
  <2>. QED  BY <1>7, <2>1, <2>2
<1>10. ASSUME NEW fd \in ClientFds, RecvHead(fd)  PROVE EventInv'
  <2>1. /\ Visit(fd) /\ pc = "walk" /\ pc' = "body" /\ at' = fd
        /\ Received(fd, "head") /\ missed' = missed /\ guarded' = fd
        /\ UNCHANGED recverVars
    BY <1>10 DEF RecvHead, GoWorker
  <2>2. UNCHANGED <<open, peer, owing, partly, full>>  BY <2>1 DEF Received
  <2>3. /\ inbox' \in [ClientFds -> Seq(Parts)]
        /\ \A d \in ClientFds \ {fd} : inbox'[d] = inbox[d]
    BY <1>2, <2>1, ReceivedSockets
  <2>4. SocketsTyped'  BY <1>2, <2>1, <2>2, <2>3 DEF SocketsTyped
  <2>. QED  BY <1>7, <2>1, <2>2, <2>3, <2>4
<1>11. ASSUME UNCHANGED recverVars, pc \in {"body", "unlock_recv"}, at \in ClientFds,
              \/ pc' = "walk" /\ at' = at + 1
              \/ pc' = "unlock_recv" /\ at' = at,
              guarded' \in {guarded, NoFd},
              SocketsTyped', open' \subseteq open,
              \A d \in ClientFds \ {at} :
                /\ inbox'[d] = inbox[d] /\ partly'[d] = partly[d]
                /\ peer'[d] = peer[d] /\ missed'[d] = missed[d]
       PROVE  EventInv'
  <2>1. at + 1 \in ListenFd .. NoFd  BY <1>11, Numbers
  <2>2. WorkerTyped'
    BY <1>2, <1>11, <2>1 DEF WorkerTyped, WorkerPC, recverVars
  <2>3. EventIsHandled'
    BY <1>2, <1>11 DEF EventIsHandled, Visiting, recverVars
  <2>4. EventIsReadable'
    <3>1. ASSUME NEW d \in ClientFds, ToVisit(d)'
          PROVE  /\ ToVisit(d)
                 /\ inbox'[d] = inbox[d] /\ partly'[d] = partly[d]
                 /\ peer'[d] = peer[d] /\ missed'[d] = missed[d]
                 /\ pc \in Visiting => pc' \in Visiting
      <4>1. d \in m_tmpfds /\ d \in open /\ d \in Nat
        BY <1>11, <3>1, Fds DEF ToVisit, recverVars
      <4>2. phase' # "event"
        BY <1>2, <1>11 DEF EventIsHandled, Visiting, recverVars
      <4>3. at < d
        BY <1>2, <1>11, <3>1, <4>1, <4>2 DEF ToVisit
      <4>4. d # at  BY <1>2, <4>1, <4>3
      <4>. QED  BY <1>11, <4>1, <4>3, <4>4 DEF ToVisit, Visiting
    <3>. QED  BY <1>2, <1>11, <3>1, ReadableKept DEF recverVars
  <2>. QED  BY <1>1, <1>11, <2>2, <2>3, <2>4 DEF EventInv
<1>12. CASE RecvBody
  <2>1. /\ pc = "body" /\ pc' = "walk" /\ at' = at + 1 /\ at \in ClientFds
        /\ Received(at, "body") /\ guarded' = NoFd
        /\ UNCHANGED <<recverVars, mapVars>>
    BY <1>3, <1>12 DEF RecvBody, GoWorker
  <2>2. UNCHANGED <<open, peer, owing, partly, full, missed>>
    BY <2>1 DEF Received, mapVars
  <2>3. /\ inbox' \in [ClientFds -> Seq(Parts)]
        /\ \A d \in ClientFds \ {at} : inbox'[d] = inbox[d]
    BY <1>2, <2>1, ReceivedSockets
  <2>4. SocketsTyped'  BY <1>2, <2>2, <2>3 DEF SocketsTyped
  <2>. QED  BY <1>11, <2>1, <2>2, <2>3, <2>4
<1>13. CASE RecvBodyFailed
  <2>1. /\ pc = "body" /\ pc' = "unlock_recv" /\ at' = at /\ at \in ClientFds
        /\ LosedClient(at) /\ UNCHANGED <<recverVars, guarded>>
    BY <1>3, <1>13 DEF RecvBodyFailed, GoWorker
  <2>2. /\ SocketsTyped' /\ open' \subseteq open
        /\ \A d \in ClientFds \ {at} :
             /\ inbox'[d] = inbox[d] /\ partly'[d] = partly[d]
             /\ peer'[d] = peer[d] /\ missed'[d] = missed[d]
    BY <1>2, <2>1, LosedClientSockets
  <2>. QED  BY <1>11, <2>1, <2>2
<1>14. CASE UnlockRecv
  <2>1. /\ pc = "unlock_recv" /\ pc' = "walk" /\ at' = at + 1 /\ guarded' = NoFd
        /\ UNCHANGED <<recverVars, mapVars, socketVars>>
    BY <1>14 DEF UnlockRecv, Unlock, GoWorker
  <2>2. at \in ClientFds  BY <1>2, <2>1 DEF WorkerTyped
  <2>3. SocketsTyped'  BY <1>2, <2>1 DEF SocketsTyped, mapVars, socketVars
  <2>4. open' \subseteq open /\ UNCHANGED <<inbox, partly, peer, missed>>
    BY <2>1 DEF mapVars, socketVars
  <2>. QED  BY <1>11, <2>1, <2>2, <2>3, <2>4
<1>. QED
  BY <1>4, <1>5, <1>6, <1>8, <1>9, <1>10, <1>12, <1>13, <1>14 DEF CallbackStep
(* The callbacks of the timers accept nobody and read nothing: an event    *)
(* that waits for the worker stays readable, or its client is given up.    *)
LEMMA OutsideVisit ==
  ASSUME EventInv, IInv', SocketsTyped', UNCHANGED recverVars,
         NEW from \in WorkerPC \ Visiting, NEW to \in WorkerPC \ Visiting, NEW fd,
         GoWorker(from, to, fd), fd \in ListenFd .. NoFd,
         to = "unlock_send" => fd \in ClientFds,
         guarded' \in ClientFds \cup {NoFd},
         open' \subseteq open,
         \A d \in open' :
           inbox'[d] = inbox[d] /\ partly'[d] = partly[d] /\ peer'[d] = peer[d]
  PROVE  EventInv'
<1>1. pc \notin Visiting /\ pc' \notin Visiting  BY DEF GoWorker
<1>2. WorkerTyped'
  BY DEF EventInv, WorkerTyped, GoWorker, Visiting, recverVars
<1>3. EventIsHandled'
  BY <1>1 DEF EventInv, EventIsHandled, recverVars
<1>4. EventIsReadable'
  <2>1. SUFFICES ASSUME NEW d \in ClientFds, ToVisit(d)'
                 PROVE  inbox'[d] # <<>> \/ partly'[d] \/ peer'[d] # "open"
    BY DEF EventIsReadable
  <2>2. phase = "event" /\ d \in m_tmpfds /\ d \in open'
    BY <1>1, <2>1 DEF ToVisit, Visiting, recverVars
  <2>3. ToVisit(d)  BY <2>2 DEF ToVisit
  <2>. QED  BY <1>1, <2>2, <2>3 DEF EventInv, EventIsReadable
<1>. QED  BY <1>2, <1>3, <1>4 DEF EventInv

(* The callback of the heart timer.                                        *)
LEMMA EventSendHeart == EventInv /\ (StartSendHeart \/ SendHeartStep) => EventInv'
<1>. SUFFICES ASSUME EventInv, StartSendHeart \/ SendHeartStep  PROVE EventInv'
  OBVIOUS
<1>1. IInv'  BY SendHeartSound DEF EventInv
<1>2. /\ IInv /\ SocketsTyped /\ WorkerTyped
      /\ guarded \in ClientFds \cup {NoFd} /\ NoFd \in ClientFds \cup {NoFd}
      /\ pc \in {"send", "unlock_send"} => at \in ClientFds
  BY DEF EventInv, WorkerTyped, IInv, FdsAreKnown
<1>. USE DEF WorkerPC, Visiting
<1>3. CASE StartSendHeart \/ FinishSendHeart \/ HeartSent \/ UnlockSend
  <2>1. /\ UNCHANGED <<recverVars, socketVars, mapVars>>
        /\ guarded' \in {guarded, NoFd}
        /\ \/ GoWorker("idle", "hearts", ListenFd)
           \/ GoWorker("hearts", "idle", ListenFd)
           \/ GoWorker("send", "hearts", at + 1)
           \/ GoWorker("unlock_send", "hearts", at + 1)
    BY <1>3 DEF StartSendHeart, FinishSendHeart, HeartSent, UnlockSend, Unlock
  <2>2. SocketsTyped'  BY <1>2, <2>1 DEF SocketsTyped, mapVars, socketVars
  <2>3. open' \subseteq open /\ UNCHANGED <<inbox, partly, peer>>
    BY <2>1 DEF socketVars
  <2>4. GoWorker("send", "hearts", at + 1)
          \/ GoWorker("unlock_send", "hearts", at + 1)
          => at + 1 \in ListenFd .. NoFd
    BY <1>2, Numbers DEF GoWorker
  <2>. QED
    BY <1>1, <1>2, <2>1, <2>2, <2>3, <2>4, Numbers, OutsideVisit
<1>4. CASE SendHeartFailed
  <2>1. /\ GoWorker("send", "unlock_send", at) /\ LosedClient(at)
        /\ UNCHANGED <<recverVars, guarded>>
    BY <1>4 DEF SendHeartFailed
  <2>2. at \in ClientFds /\ at \in ListenFd .. NoFd
    BY <1>2, <2>1, Numbers DEF GoWorker
  <2>3. /\ SocketsTyped' /\ open' = open \ {at}
        /\ \A d \in ClientFds \ {at} :
             inbox'[d] = inbox[d] /\ partly'[d] = partly[d] /\ peer'[d] = peer[d]
    BY <1>2, <2>1, <2>2, LosedClientSockets
  <2>4. open \subseteq ClientFds  BY <1>2 DEF IInv, FdsAreKnown
  <2>. QED  BY <1>1, <1>2, <2>1, <2>2, <2>3, <2>4, OutsideVisit
<1>5. CASE SendHeartKills
  <2>1. /\ pc' = "dead" /\ at' = at /\ open' = {} /\ guarded' = NoFd
        /\ m_tmpfds' = {} /\ phase' = "handling" /\ selecting' = FALSE
        /\ UNCHANGED <<peer, inbox, owing, partly, full, missed>>
    BY <1>5 DEF SendHeartKills, GoWorker
  <2>2. SocketsTyped'  BY <1>2, <2>1 DEF SocketsTyped
  <2>3. WorkerTyped'  BY <1>2, <2>1 DEF WorkerTyped
  <2>4. EventIsHandled' /\ EventIsReadable'
    BY <2>1 DEF EventIsHandled, EventIsReadable, ToVisit
  <2>. QED  BY <1>1, <2>2, <2>3, <2>4 DEF EventInv
<1>6. ASSUME NEW fd \in ClientFds, SendHeartOnce(fd)  PROVE EventInv'
  <2>1. /\ GoWorker("hearts", "send", fd) /\ guarded' = fd /\ missed' = missed
        /\ UNCHANGED <<recverVars, socketVars>>
    BY <1>6 DEF SendHeartOnce
  <2>2. SocketsTyped'  BY <1>2, <2>1 DEF SocketsTyped, socketVars
  <2>3. open' \subseteq open /\ UNCHANGED <<inbox, partly, peer>>
    BY <2>1 DEF socketVars
  <2>. QED  BY <1>1, <2>1, <2>2, <2>3, Numbers, OutsideVisit
<1>. QED  BY <1>3, <1>4, <1>5, <1>6 DEF SendHeartStep

(* The callback of the keep-alive timer.                                   *)
LEMMA EventKeepAlive == EventInv /\ (StartKeepAlive \/ KeepAliveStep) => EventInv'
<1>. SUFFICES ASSUME EventInv, StartKeepAlive \/ KeepAliveStep  PROVE EventInv'
  OBVIOUS
<1>1. IInv'  BY KeepAliveSound DEF EventInv
<1>2. /\ IInv /\ SocketsTyped /\ WorkerTyped /\ guarded \in ClientFds \cup {NoFd}
      /\ open \subseteq ClientFds
  BY DEF EventInv, WorkerTyped, IInv, FdsAreKnown
<1>. USE DEF WorkerPC, Visiting
<1>3. CASE StartKeepAlive \/ FinishKeepAlive
  <2>1. /\ UNCHANGED <<recverVars, socketVars, mapVars, guarded>>
        /\ \/ GoWorker("idle", "sweep", ListenFd)
           \/ GoWorker("sweep", "idle", ListenFd)
    BY <1>3 DEF StartKeepAlive, FinishKeepAlive
  <2>2. SocketsTyped'  BY <1>2, <2>1 DEF SocketsTyped, mapVars, socketVars
  <2>3. open' \subseteq open /\ UNCHANGED <<inbox, partly, peer>>
    BY <2>1 DEF socketVars
  <2>. QED  BY <1>1, <1>2, <2>1, <2>2, <2>3, Numbers, OutsideVisit
<1>4. ASSUME NEW fd \in ClientFds, GiveUp(fd)  PROVE EventInv'
  <2>1. /\ GoWorker("sweep", "sweep", fd + 1) /\ LosedClient(fd)
        /\ UNCHANGED <<recverVars, guarded>>
    BY <1>4 DEF GiveUp
  <2>2. /\ SocketsTyped' /\ open' = open \ {fd}
        /\ \A d \in ClientFds \ {fd} :
             inbox'[d] = inbox[d] /\ partly'[d] = partly[d] /\ peer'[d] = peer[d]
    BY <1>2, <2>1, LosedClientSockets
  <2>3. fd + 1 \in ListenFd .. NoFd  BY Numbers
  <2>. QED  BY <1>1, <1>2, <2>1, <2>2, <2>3, OutsideVisit
<1>5. ASSUME NEW fd \in ClientFds, CountDown(fd)  PROVE EventInv'
  <2>1. /\ GoWorker("sweep", "sweep", fd + 1) /\ Hearts(fd) # 0
        /\ missed' = [missed EXCEPT ![fd] = @ + 1]
        /\ UNCHANGED <<recverVars, guarded, socketVars>>
    BY <1>5 DEF CountDown
  <2>2. missed[fd] + 1 \in 0 .. MaxHearts + 1
    <3>1. missed[fd] \in 0 .. MaxHearts + 1 /\ MaxHearts \in Nat
      BY <1>2, Fds DEF SocketsTyped
    <3>2. fd \in open /\ m_hearts_mp[fd] # 0
      BY <1>2, <2>1 DEF Hearts, IInv, RecordsAgree
    <3>3. m_hearts_mp[fd] \in Nat /\ m_hearts_mp[fd] + missed[fd] = MaxHearts
      BY <1>2, <3>2 DEF IInv, HeartsAreCounted
    <3>. QED  BY <3>1, <3>2, <3>3
  <2>3. missed' \in [ClientFds -> 0 .. MaxHearts + 1]
    BY <1>2, <2>1, <2>2 DEF SocketsTyped
  <2>4. SocketsTyped'  BY <1>2, <2>1, <2>3 DEF SocketsTyped, socketVars
  <2>5. open' \subseteq open /\ UNCHANGED <<inbox, partly, peer>>
    BY <2>1 DEF socketVars
  <2>6. fd + 1 \in ListenFd .. NoFd  BY Numbers
  <2>. QED  BY <1>1, <1>2, <2>1, <2>4, <2>5, <2>6, OutsideVisit
<1>. QED  BY <1>3, <1>4, <1>5 DEF KeepAliveStep

(* EventInv holds all the time.                                            *)
LEMMA EventInvariance == Spec => []EventInv
<1>1. EventInv /\ [Next]_vars => EventInv'
  <2>1. EventInv /\ UNCHANGED vars => EventInv'
    BY DEF vars, recverVars, watchVars, mapVars, workerVars, socketVars, IInv,
       RecordsAgree, Clients, MaxFdIsWatched, FdsAreKnown, BacklogFits, FreeFds,
       HeartsAreCounted, EventInv, SocketsTyped, WorkerTyped, EventIsHandled,
       EventIsReadable, ToVisit
  <2>. QED
    BY <2>1, EventPeer, EventListener, EventCallback, EventSendHeart,
       EventKeepAlive DEF Next
<1>. QED  BY <1>1, EventInit, PTL DEF Spec

(* For any number of descriptors the recv of a head waits only for the     *)
(* rest of a head that has begun to arrive, or on a client accepted in     *)
(* this very walk, whatever m_tmpfds holds at first.                       *)
THEOREM HeadRecvIsPrompt == Spec => []HeadRecvWaitsForRestOrNewClient
<1>1. EventInv => HeadRecvWaitsForRestOrNewClient
  <2>. SUFFICES ASSUME EventInv, pc = "walk", NEW fd \in ClientFds, Visit(fd),
                       NothingFrom(fd)
                PROVE  partly[fd] \/ (ListenFd \in m_tmpfds /\ missed[fd] = 0)
    BY DEF HeadRecvWaitsForRestOrNewClient
  <2>1. fd \in m_tmpfds /\ at <= fd
    BY VisitFacts DEF Visit, EventInv, WorkerTyped
  <2>2. ToVisit(fd)  BY <2>1 DEF ToVisit, NothingFrom
  <2>. QED  BY <2>2 DEF EventInv, EventIsReadable, NothingFrom
<1>. QED  BY <1>1, EventInvariance, PTL

(* Types: descriptors stay in range, and no count of hearts goes below     *)
(* zero or above MAX_HEARTS.                                               *)
THEOREM TypeCorrect == Spec => []TypeOK
<1>1. EventInv => TypeOK
  <2>. SUFFICES ASSUME EventInv  PROVE TypeOK
    OBVIOUS
  <2>1. /\ m_readfds \subseteq AllFds /\ m_max_fd \in AllFds
        /\ DOMAIN m_hearts_mp \subseteq ClientFds
        /\ m_mutex_mp \subseteq ClientFds /\ open \subseteq ClientFds
    BY DEF EventInv, IInv, RecordsAgree, MaxFdIsWatched, FdsAreKnown, Clients,
           AllFds
  <2>2. \A fd \in DOMAIN m_hearts_mp : m_hearts_mp[fd] \in 0 .. MaxHearts
    <3>1. SUFFICES ASSUME NEW fd \in open
                   PROVE  m_hearts_mp[fd] \in 0 .. MaxHearts
      BY DEF EventInv, IInv, RecordsAgree
    <3>2. /\ m_hearts_mp[fd] \in Nat
          /\ m_hearts_mp[fd] + missed[fd] = MaxHearts
      BY DEF EventInv, IInv, HeartsAreCounted
    <3>3. missed[fd] \in Nat /\ MaxHearts \in Nat
      BY Fds DEF EventInv, IInv, HeartsAreCounted, FdsAreKnown
    <3>. QED  BY <3>2, <3>3
  <2>3. backlog \in 0 .. Cardinality(ClientFds)
    <3>1. FreeFds \subseteq ClientFds  BY DEF FreeFds
    <3>2. /\ Cardinality(FreeFds) \in Nat /\ Cardinality(ClientFds) \in Nat
          /\ Cardinality(FreeFds) <= Cardinality(ClientFds)
      BY <3>1, FreeFdsFinite, FS_Subset
    <3>. QED  BY <3>2 DEF EventInv, IInv, BacklogFits
  <2>. QED
    BY <2>1, <2>2, <2>3 DEF TypeOK, EventInv, SocketsTyped, WorkerTyped
<1>. QED  BY <1>1, EventInvariance, PTL
-----------------------------------------------------------------------------
(* The worker reads each part of a frame as what it is.                    *)

(* What the worker's next recv() from a client takes: the recv() of        *)
(* recv_data a payload, the one of the callback's walk a frame's head.     *)
Awaited(fd) == IF pc = "body" /\ at = fd THEN "body" ELSE "head"

(* The bytes under way, and those the peer still owes it: a payload        *)
(* follows a head and nothing else, also the head that was read last.      *)
InStep(parts, owes, end, next) ==
  /\ \A i \in 1 .. Len(parts) - 1 : parts[i] = "head" <=> parts[i + 1] = "body"
  /\ parts # <<>> => (parts[1] = "body" <=> next = "body")
  /\ end = "open" /\ parts = <<>> => (owes <=> next = "body")
  /\ end = "open" /\ parts # <<>> => (owes <=> parts[Len(parts)] = "head")

ClientInStep(fd) ==
  /\ fd \in open => InStep(inbox[fd], owing[fd], peer[fd], Awaited(fd))
  /\ fd \notin open => /\ inbox[fd] = <<>> /\ peer[fd] = "open" /\ ~owing[fd]
                      /\ Awaited(fd) = "head"

StepInv == pc # "dead" => \A fd \in ClientFds : ClientInStep(fd)

(* A payload comes first in what a peer has sent exactly if the worker has *)
(* read the head before it, and waits for it.                              *)
ReadsInStep ==
  pc # "dead" =>
    \A fd \in open : inbox[fd] # <<>> => (Head(inbox[fd]) = "body" <=> Awaited(fd) = "body")

(* What the peer sends next keeps the parts in step.                       *)
LEMMA InStepSent ==
  ASSUME NEW parts \in Seq(Parts), NEW owes \in BOOLEAN, NEW next,
         InStep(parts, owes, "open", next),
         NEW part \in Parts, owes <=> part = "body",
         NEW still \in BOOLEAN, still <=> part = "head"
  PROVE  InStep(Append(parts, part), still, "open", next)
<1> DEFINE new == Append(parts, part)
           n == Len(parts)
<1>1. /\ n \in Nat /\ Len(new) = n + 1 /\ new[n + 1] = part /\ new # <<>>
      /\ \A i \in 1 .. n : new[i] = parts[i]
      /\ parts = <<>> <=> n = 0
  OBVIOUS
<1> HIDE DEF new, n
<1>2. ASSUME NEW i \in 1 .. Len(new) - 1
      PROVE  new[i] = "head" <=> new[i + 1] = "body"
  <2>1. CASE i = n
    <3>1. n \in 1 .. n /\ n # 0
      BY <1>1, <2>1
    <3>2. owes <=> parts[n] = "head"
      BY <1>1, <3>1 DEF InStep, n
    <3> QED
      BY <1>1, <2>1, <3>1, <3>2
  <2>2. CASE i # n
    <3>1. i \in 1 .. n - 1 /\ i \in 1 .. n /\ i + 1 \in 1 .. n
      BY <1>1, <2>2
    <3>2. parts[i] = "head" <=> parts[i + 1] = "body"
      BY <3>1 DEF InStep, n
    <3> QED
      BY <1>1, <3>1, <3>2
  <2> QED
    BY <2>1, <2>2
<1>3. new[1] = "body" <=> next = "body"
  <2>1. CASE n = 0
    BY <1>1, <2>1 DEF InStep
  <2>2. CASE n # 0
    <3>1. 1 \in 1 .. n
      BY <1>1, <2>2
    <3> QED
      BY <1>1, <2>2, <3>1 DEF InStep
  <2> QED
    BY <2>1, <2>2
<1>4. new[Len(new)] = part
  BY <1>1
<1> QED
  BY <1>1, <1>2, <1>3, <1>4 DEF InStep, new

(* What recv() takes leaves the rest in step with it.                      *)
LEMMA InStepRead ==
  ASSUME NEW parts \in Seq(Parts), parts # <<>>,
         NEW owes \in BOOLEAN, NEW end, NEW next, InStep(parts, owes, end, next),
         NEW then, then = "body" <=> Head(parts) = "head"
  PROVE  InStep(Tail(parts), owes, end, then)
<1> DEFINE rest == Tail(parts)
           n == Len(parts)
<1>1. /\ n \in Nat /\ n # 0 /\ Len(rest) = n - 1 /\ Head(parts) = parts[1]
      /\ \A i \in 1 .. n - 1 : rest[i] = parts[i + 1]
      /\ rest = <<>> <=> n = 1
  <2>1. n \in Nat /\ n # 0 /\ Head(parts) = parts[1]
    OBVIOUS
  <2>2. /\ rest \in Seq(Parts) /\ Len(rest) = n - 1
        /\ \A i \in 1 .. Len(rest) : rest[i] = parts[i + 1]
    BY HeadTailProperties
  <2> HIDE DEF rest, n
  <2>3. rest = <<>> <=> Len(rest) = 0
    BY <2>2, EmptySeq
  <2> QED
    BY <2>1, <2>2, <2>3
<1> HIDE DEF rest, n
<1>2. ASSUME NEW i \in 1 .. Len(rest) - 1
      PROVE  rest[i] = "head" <=> rest[i + 1] = "body"
  <2>1. i \in 1 .. n - 1 /\ i + 1 \in 1 .. n - 1
    BY <1>1
  <2>2. parts[i + 1] = "head" <=> parts[(i + 1) + 1] = "body"
    BY <2>1 DEF InStep, n
  <2> QED
    BY <1>1, <2>1, <2>2
<1>3. ASSUME rest # <<>> PROVE rest[1] = "body" <=> parts[1] = "head"
  <2>1. 1 \in 1 .. n - 1
    BY <1>1, <1>3
  <2>2. parts[1] = "head" <=> parts[1 + 1] = "body"
    BY <2>1 DEF InStep, n
  <2> QED
    BY <1>1, <2>1, <2>2
<1>4. ASSUME end = "open"
      PROVE  /\ rest = <<>> => (owes <=> parts[1] = "head")
             /\ rest # <<>> => (owes <=> rest[Len(rest)] = "head")
  <2>1. owes <=> parts[n] = "head"
    BY <1>4 DEF InStep, n
  <2>2. CASE n = 1
    BY <1>1, <2>1, <2>2
  <2>3. CASE n # 1
    <3>1. n - 1 \in 1 .. n - 1 /\ (n - 1) + 1 = n
      BY <1>1, <2>3
    <3>2. rest[n - 1] = parts[n]
      BY <1>1, <3>1
    <3> QED
      BY <1>1, <2>1, <2>3, <3>2
  <2> QED
    BY <2>2, <2>3
<1> QED
  BY <1>1, <1>2, <1>3, <1>4 DEF InStep, rest

(* Where nothing is under way there is nothing to be out of step.          *)
LEMMA InStepEmpty ==
  ASSUME NEW owes \in BOOLEAN, NEW end, NEW next,
         end = "open" => (owes <=> next = "body")
  PROVE  InStep(<<>>, owes, end, next)
BY DEF InStep

(* A step that leaves the sockets, and what the worker waits for.          *)
LEMMA StepUntouched ==
  ASSUME StepInv, UNCHANGED <<open, inbox, owing, peer>>,
         pc' # "dead" => pc # "dead",
         \A fd \in ClientFds : Awaited(fd)' = Awaited(fd)
  PROVE  StepInv'
BY DEF StepInv, ClientInStep

(* The peers keep their parts in step.                                     *)
LEMMA StepPeer == EventInv /\ StepInv /\ PeerStep => StepInv'
<1> SUFFICES ASSUME EventInv, StepInv, PeerStep PROVE StepInv'
  OBVIOUS
<1>1. SocketsTyped
  BY DEF EventInv
<1>2. CASE Connect
  BY <1>2, StepUntouched DEF Connect, workerVars, Awaited
<1>3. ASSUME NEW fd \in ClientFds, NEW part \in Parts, Send(fd, part)
      PROVE  StepInv'
  <2> SUFFICES ASSUME pc # "dead", NEW d \in ClientFds PROVE ClientInStep(d)'
    BY <1>3 DEF Send, workerVars, StepInv
  <2>1. ClientInStep(d)
    BY DEF StepInv
  <2>2. /\ open' = open /\ peer' = peer /\ Awaited(d)' = Awaited(d)
        /\ inbox'[d] = IF d = fd THEN Append(inbox[d], part) ELSE inbox[d]
        /\ owing'[d] = IF d = fd THEN (part = "head") ELSE owing[d]
    BY <1>1, <1>3 DEF Send, SocketsTyped, workerVars, Awaited
  <2>3. CASE d # fd
    BY <2>1, <2>2, <2>3 DEF ClientInStep
  <2>4. CASE d = fd
    <3>1. InStep(inbox[d], owing[d], "open", Awaited(d))
      BY <1>3, <2>1, <2>4 DEF Send, ClientInStep
    <3>2. InStep(inbox'[d], owing'[d], "open", Awaited(d))
      BY <1>1, <1>3, <2>4, <3>1, InStepSent DEF Send, SocketsTyped, Awaited
    <3> QED
      BY <1>3, <2>2, <2>4, <3>2 DEF Send, ClientInStep
  <2> QED
    BY <2>3, <2>4
<1>4. ASSUME NEW fd \in ClientFds, Close(fd) \/ Reset(fd) PROVE StepInv'
  <2> SUFFICES ASSUME pc # "dead", NEW d \in ClientFds PROVE ClientInStep(d)'
    BY <1>4 DEF Close, Reset, workerVars, StepInv
  <2>1. ClientInStep(d)
    BY DEF StepInv
  <2>2. open' = open /\ owing' = owing /\ Awaited(d)' = Awaited(d) /\ fd \in open
    BY <1>4 DEF Close, Reset, workerVars, Awaited
  <2>3. CASE d # fd
    <3>1. inbox'[d] = inbox[d] /\ peer'[d] = peer[d]
      BY <1>1, <1>4, <2>3 DEF Close, Reset, SocketsTyped
    <3> QED
      BY <2>1, <2>2, <3>1 DEF ClientInStep
  <2>4. CASE d = fd
    <3>1. peer'[d] # "open" /\ (inbox'[d] = inbox[d] \/ inbox'[d] = <<>>)
      BY <1>1, <1>4, <2>4 DEF Close, Reset, SocketsTyped
    <3>2. InStep(inbox'[d], owing[d], peer'[d], Awaited(d))
      BY <2>1, <2>2, <2>4, <3>1, InStepEmpty DEF ClientInStep, InStep
    <3> QED
      BY <2>2, <2>4, <3>1, <3>2 DEF ClientInStep
  <2> QED
    BY <2>3, <2>4
<1>5. ASSUME NEW fd \in ClientFds, SendSome(fd) \/ StallsOrReads(fd) PROVE StepInv'
  BY <1>5, StepUntouched DEF SendSome, StallsOrReads, workerVars, Awaited
<1> QED
  BY <1>2, <1>3, <1>4, <1>5 DEF PeerStep

(* A client that is given up leaves nothing behind for the next with its   *)
(* descriptor.                                                             *)
LEMMA StepLosedClient ==
  ASSUME SocketsTyped, StepInv, pc # "dead", NEW fd \in ClientFds, LosedClient(fd),
         \A d \in ClientFds :
           Awaited(d)' = IF d = fd THEN "head" ELSE Awaited(d)
  PROVE  StepInv'
<1> SUFFICES ASSUME NEW d \in ClientFds PROVE ClientInStep(d)'
  BY DEF StepInv
<1>1. ClientInStep(d)
  BY DEF StepInv
<1>2. CASE d = fd
  BY <1>2 DEF LosedClient, SocketsTyped, ClientInStep
<1>3. CASE d # fd
  <2>1. /\ d \in open' <=> d \in open
        /\ inbox'[d] = inbox[d] /\ peer'[d] = peer[d] /\ owing'[d] = owing[d]
    BY <1>3 DEF LosedClient, SocketsTyped
  <2> QED
    BY <1>1, <1>3, <2>1 DEF ClientInStep
<1> QED
  BY <1>2, <1>3

(* A recv() that delivers leaves the worker in step.                       *)
LEMMA StepReceived ==
  ASSUME SocketsTyped, StepInv, pc # "dead",
         NEW fd \in ClientFds, NEW part, Received(fd, part),
         \A d \in ClientFds \ {fd} : Awaited(d)' = Awaited(d),
         Awaited(fd)' = "body" <=> part = "head"
  PROVE  StepInv'
<1> SUFFICES ASSUME NEW d \in ClientFds PROVE ClientInStep(d)'
  BY DEF StepInv
<1>1. ClientInStep(d)
  BY DEF StepInv
<1>2. open' = open /\ peer' = peer /\ owing' = owing
  BY DEF Received
<1>3. CASE d # fd
  <2>1. inbox'[d] = inbox[d]
    BY <1>3, ReceivedSockets
  <2> QED
    BY <1>1, <1>2, <1>3, <2>1 DEF ClientInStep
<1>4. CASE d = fd
  <2>1. /\ fd \in open /\ inbox[fd] \in Seq(Parts) /\ inbox[fd] # <<>>
        /\ Head(inbox[fd]) = part /\ inbox'[fd] = Tail(inbox[fd])
        /\ owing[fd] \in BOOLEAN
    BY DEF Received, SocketsTyped
  <2>2. InStep(inbox[fd], owing[fd], peer[fd], Awaited(fd))
    BY <1>1, <1>4, <2>1 DEF ClientInStep
  <2>3. InStep(Tail(inbox[fd]), owing[fd], peer[fd], Awaited(fd)')
    BY <2>1, <2>2, InStepRead
  <2> QED
    BY <1>2, <1>4, <2>1, <2>3 DEF ClientInStep
<1> QED
  BY <1>3, <1>4

(* The recver's callback takes parts off as what they are.                 *)
LEMMA StepCallback == EventInv /\ StepInv /\ CallbackStep => StepInv'
<1> SUFFICES ASSUME EventInv, StepInv, CallbackStep PROVE StepInv'
  OBVIOUS
<1>1. SocketsTyped
  BY DEF EventInv
<1>2. CASE FinishEvent \/ UnlockRecv
  BY <1>2, StepUntouched
     DEF FinishEvent, UnlockRecv, Unlock, GoWorker, socketVars, Awaited
<1>3. CASE Accept
  <2> DEFINE fd == Min(FreeFds)
  <2>1. /\ open' = open \cup {fd} /\ peer' = peer /\ inbox' = inbox /\ owing' = owing
        /\ pc = "walk" /\ pc' = "walk"
    BY <1>3 DEF Accept, GoWorker
  <2> HIDE DEF fd
  <2> SUFFICES ASSUME NEW d \in ClientFds PROVE ClientInStep(d)'
    BY DEF StepInv
  <2>2. ClientInStep(d) /\ Awaited(d) = "head" /\ Awaited(d)' = "head"
    BY <2>1 DEF StepInv, Awaited
  <2>3. CASE d \in open <=> d \in open'
    BY <2>1, <2>2, <2>3 DEF ClientInStep
  <2>4. CASE d \notin open /\ d \in open'
    <3>1. inbox[d] = <<>> /\ ~owing[d] /\ owing[d] \in BOOLEAN
      BY <1>1, <2>2, <2>4 DEF ClientInStep, SocketsTyped
    <3>2. InStep(<<>>, owing[d], peer[d], "head")
      BY <3>1, InStepEmpty
    <3> QED
      BY <2>1, <2>2, <2>4, <3>1, <3>2 DEF ClientInStep
  <2> QED
    BY <2>1, <2>3, <2>4
<1>4. CASE RecvBody
  <2>1. pc = "body" /\ pc' = "walk" /\ at \in ClientFds
    BY <1>4 DEF RecvBody, GoWorker, EventInv, IInv, FdsAreKnown
  <2> QED
    BY <1>1, <1>4, <2>1, StepReceived DEF RecvBody, Awaited
<1>5. CASE RecvBodyFailed
  <2>1. pc = "body" /\ pc' = "unlock_recv" /\ at \in ClientFds
    BY <1>5 DEF RecvBodyFailed, GoWorker, EventInv, IInv, FdsAreKnown
  <2> QED
    BY <1>1, <1>5, <2>1, StepLosedClient DEF RecvBodyFailed, Awaited
<1>6. ASSUME NEW fd \in ClientFds, RecvHeart(fd) PROVE StepInv'
  BY <1>1, <1>6, StepReceived DEF RecvHeart, GoWorker, Awaited
<1>7. ASSUME NEW fd \in ClientFds, RecvFailed(fd) \/ RecvJunk(fd) PROVE StepInv'
  BY <1>1, <1>7, StepLosedClient DEF RecvFailed, RecvJunk, GoWorker, Awaited
<1>8. ASSUME NEW fd \in ClientFds, RecvHead(fd) PROVE StepInv'
  BY <1>1, <1>8, StepReceived DEF RecvHead, GoWorker, Awaited
<1> QED
  BY <1>2, <1>3, <1>4, <1>5, <1>6, <1>7, <1>8 DEF CallbackStep

(* The callbacks of the timers take no part, and give clients up.          *)
LEMMA StepTimers ==
  EventInv /\ StepInv /\ (SendHeartStep \/ KeepAliveStep) => StepInv'
<1> SUFFICES ASSUME EventInv, StepInv, SendHeartStep \/ KeepAliveStep PROVE StepInv'
  OBVIOUS
<1>1. SocketsTyped
  BY DEF EventInv
<1>2. CASE HeartSent \/ UnlockSend \/ FinishSendHeart \/ FinishKeepAlive
  BY <1>2, StepUntouched DEF HeartSent, UnlockSend, Unlock, FinishSendHeart,
                             FinishKeepAlive, GoWorker, socketVars, Awaited
<1>3. ASSUME NEW fd \in ClientFds, SendHeartOnce(fd) \/ CountDown(fd) PROVE StepInv'
  BY <1>3, StepUntouched DEF SendHeartOnce, CountDown, GoWorker, socketVars, Awaited
<1>4. CASE SendHeartFailed
  <2>1. pc = "send" /\ pc' = "unlock_send" /\ at \in ClientFds
    BY <1>4 DEF SendHeartFailed, GoWorker, EventInv, IInv, FdsAreKnown
  <2> QED
    BY <1>1, <1>4, <2>1, StepLosedClient DEF SendHeartFailed, Awaited
<1>5. CASE SendHeartKills
  BY <1>5 DEF SendHeartKills, GoWorker, StepInv
<1>6. ASSUME NEW fd \in ClientFds, GiveUp(fd) PROVE StepInv'
  BY <1>1, <1>6, StepLosedClient DEF GiveUp, GoWorker, Awaited
<1> QED
  BY <1>2, <1>3, <1>4, <1>5, <1>6 DEF SendHeartStep, KeepAliveStep

(* The worker reads a payload where it has read the head of one, and       *)
(* nowhere else, for any number of descriptors, however connections end    *)
(* inside a frame and their descriptors are used again.                    *)
THEOREM FramesInStep == Spec => []ReadsInStep
<1>1. Init => StepInv
  BY DEF Init, StepInv, ClientInStep, Awaited
<1>2. EventInv /\ StepInv /\ [Next]_vars => StepInv'
  <2> SUFFICES ASSUME EventInv, StepInv, [Next]_vars PROVE StepInv'
    OBVIOUS
  <2>1. CASE ListenerStep
    BY <2>1, StepUntouched DEF ListenerStep, CopyFds, CallSelect, SelectReturns,
                               workerVars, socketVars, Awaited
  <2>2. CASE TakeEvent \/ StartSendHeart \/ StartKeepAlive
    BY <2>2, StepUntouched DEF TakeEvent, StartSendHeart, StartKeepAlive, GoWorker,
                               socketVars, Awaited
  <2>3. CASE UNCHANGED vars
    BY <2>3, StepUntouched DEF vars, workerVars, socketVars, Awaited
  <2> QED
    BY <2>1, <2>2, <2>3, StepPeer, StepCallback, StepTimers DEF Next
<1>3. EventInv /\ StepInv => ReadsInStep
  <2> SUFFICES ASSUME EventInv, StepInv, pc # "dead", NEW fd \in open,
                      inbox[fd] # <<>>
               PROVE  Head(inbox[fd]) = "body" <=> Awaited(fd) = "body"
    BY DEF ReadsInStep
  <2>1. fd \in ClientFds /\ inbox[fd] \in Seq(Parts)
    BY DEF EventInv, IInv, FdsAreKnown, SocketsTyped
  <2>2. InStep(inbox[fd], owing[fd], peer[fd], Awaited(fd))
    BY <2>1 DEF StepInv, ClientInStep
  <2>3. Head(inbox[fd]) = inbox[fd][1]
    BY <2>1, HeadTailProperties
  <2> QED
    BY <2>2, <2>3 DEF InStep
<1> QED
  BY <1>1, <1>2, <1>3, EventInvariance, PTL DEF Spec
-----------------------------------------------------------------------------
(* The recver, as ExecutableProofs and ExecutorProofs say it behaves.      *)

Channel == INSTANCE EventChannel
  WITH Recvers <- {"m_recver"}, Initially <- BornIn,
       phase <- [r \in {"m_recver"} |-> phase]

ChannelMoves ==
  \/ phase = "rest" /\ phase' = "watching"
  \/ phase = "watching" /\ phase' \in {"rest", "event"}
  \/ phase = "event" /\ phase' = "handling"
  \/ phase = "handling" /\ phase' = "rest"

(* A move of the phase is one of the channel.                              *)
LEMMA MovesAreChannels == ChannelMoves => Channel!Next
BY DEF ChannelMoves, Channel!Next, Channel!Watch, Channel!Abandon,
       Channel!Announce, Channel!Take, Channel!Finish, Channel!Move

(* What the server does to the phase of its recver; the process takes all  *)
(* of it along when it ends.                                               *)
LEMMA PhaseStep ==
  ASSUME EventInv, Next
  PROVE  phase' = phase \/ ChannelMoves \/ pc' = "dead"
<1>1. CASE PeerStep
  BY <1>1 DEF PeerStep, Connect, Send, SendSome, StallsOrReads, Close, Reset,
       recverVars
<1>2. CASE ListenerStep
  BY <1>2 DEF ListenerStep, CopyFds, CallSelect, SelectReturns, EventInv,
              EventIsHandled, ChannelMoves
<1>3. CASE TakeEvent
  BY <1>3 DEF TakeEvent, ChannelMoves
<1>4. CASE CallbackStep
  <2>1. CASE FinishEvent
    BY <2>1 DEF FinishEvent, GoWorker, EventInv, EventIsHandled, Visiting,
                ChannelMoves
  <2>2. CASE Accept \/ RecvBody \/ RecvBodyFailed \/ UnlockRecv
    BY <2>2 DEF Accept, RecvBody, RecvBodyFailed, UnlockRecv, Unlock, recverVars
  <2>3. ASSUME NEW fd \in ClientFds,
               RecvHeart(fd) \/ RecvFailed(fd) \/ RecvJunk(fd) \/ RecvHead(fd)
        PROVE  phase' = phase
    BY <2>3 DEF RecvHeart, RecvFailed, RecvJunk, RecvHead, recverVars
  <2>. QED  BY <1>4, <2>1, <2>2, <2>3 DEF CallbackStep
<1>5. CASE StartSendHeart \/ StartKeepAlive
  BY <1>5 DEF StartSendHeart, StartKeepAlive, recverVars
<1>6. CASE SendHeartStep
  BY <1>6 DEF SendHeartStep, HeartSent, SendHeartFailed, SendHeartKills, GoWorker,
              UnlockSend, Unlock, FinishSendHeart, SendHeartOnce, recverVars
<1>7. CASE KeepAliveStep
  BY <1>7 DEF KeepAliveStep, FinishKeepAlive, GiveUp, CountDown, recverVars
<1>. QED  BY <1>1, <1>2, <1>3, <1>4, <1>5, <1>6, <1>7 DEF Next

(* The server's check function and callbacks ask of their recver nothing   *)
(* but what EventChannel promises, up to the SIGPIPE that ends the process.*)
THEOREM RecverIsAChannel ==
  Spec => Channel!Init /\ [][Channel!Next \/ pc' = "dead"]_phase
<1>1. Init => Channel!Init  BY DEF Init, Channel!Init
<1>2. EventInv /\ [Next]_vars => [Channel!Next \/ pc' = "dead"]_phase
  BY PhaseStep, MovesAreChannels DEF vars, recverVars
<1>. QED  BY <1>1, <1>2, EventInvariance, PTL DEF Spec
=============================================================================
