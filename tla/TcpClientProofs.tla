---------------------------- MODULE TcpClientProofs ----------------------------
(***************************************************************************)
(* Proofs about TcpClient for any MAX_HEARTS and m_max_reconnects: which   *)
(* connection a payload is read from, when the recv of a head has to wait, *)
(* and when the keep-alive sweep gives the connection up.                  *)
(***************************************************************************)
EXTENDS TcpClient, TLAPS, SequenceTheorems

-----------------------------------------------------------------------------
(* The invariant.                                                          *)

(* The client has as many sweeps left as the connection was not silent for.*)
HeartsAreCounted == m_hearts + missed = MaxHearts

(* The worker is in recv_data, or on its way back to it.                   *)
InRecvData ==
  \/ pc \in {"head", "body"}
  \/ pc \in {"ensure", "connect"} /\ after = "body"

(* Only the event that the check function has found is handled.            *)
EventIsHandled == InRecvData => phase = "handling"

(* While recv_data has a head and no payload yet, the connection is lost   *)
(* exactly if the head came from a connection that was not, or no longer,  *)
(* taken for connected.                                                    *)
HeadIsKnown ==
  /\ InRecvData /\ pc # "head" => headFrom \in Connections
  /\ pc = "ensure" /\ after = "body" =>
       /\ headLost <=> ~m_is_connected
       /\ ~headLost => headFrom = conn
  /\ pc = "connect" /\ after = "body" => headLost

(* What select() reported is still readable, unless it is not the          *)
(* connection any more.                                                    *)
EventIsReadable ==
  (phase = "event" \/ pc = "head") /\ polled = conn => Readable(conn)

(* connect_ensure has a try left when it tries.                            *)
StillTrying == pc = "connect" => ~m_is_connected /\ tries < MaxReconnects

IInv ==
  /\ TypeOK /\ HeartsAreCounted /\ StillTrying /\ EventIsHandled /\ HeadIsKnown
  /\ PayloadOfHead /\ EventIsReadable
-----------------------------------------------------------------------------
(* Types of the connections' state, and of the rest.                       *)

LinksTyped ==
  /\ link \in [Connections -> LinkStates]
  /\ inbox \in [Connections -> Seq(Parts)]
  /\ owing \in [Connections -> BOOLEAN]
  /\ partly \in [Connections -> BOOLEAN]
  /\ full \in BOOLEAN

(* Zero is no connection.                                                  *)
LEMMA NoneIsNone == None \notin Connections
BY DEF None, Connections

(* There is always a fresh name: it is none of the two that are in use.    *)
LEMMA FreshIsFresh ==
  Fresh \in Connections /\ Fresh # polled /\ Fresh # headFrom
<1>. DEFINE S == Connections \ {polled, headFrom}
<1>1. S \subseteq {1, 2, 3} /\ S # {}  BY DEF Connections
<1>2. \E x \in S : \A y \in S : x <= y
  <2>1. CASE 1 \in S  BY <1>1, <2>1
  <2>2. CASE 1 \notin S /\ 2 \in S  BY <1>1, <2>2
  <2>3. CASE 1 \notin S /\ 2 \notin S  BY <1>1, <2>3
  <2>. QED  BY <2>1, <2>2, <2>3
<1>3. Min(S) \in S  BY <1>2 DEF Min
<1>. QED  BY <1>3 DEF Fresh

(* Forgetting a connection touches no other.                               *)
LEMMA ForgetOne ==
  ASSUME LinksTyped, NEW c \in Connections \cup {None}, Forget(c)
  PROVE  /\ LinksTyped'
         /\ \A d \in Connections \ {c} :
              /\ inbox'[d] = inbox[d] /\ link'[d] = link[d]
              /\ partly'[d] = partly[d]
<1>1. CASE c = None
  BY <1>1 DEF Forget, linkVars, LinksTyped
<1>2. CASE c # None
  <2>1. /\ link' = [link EXCEPT ![c] = "open"]
        /\ inbox' = [inbox EXCEPT ![c] = <<>>]
        /\ owing' = [owing EXCEPT ![c] = FALSE]
        /\ partly' = [partly EXCEPT ![c] = FALSE]
        /\ full' \in BOOLEAN
    BY <1>2 DEF Forget
  <2>2. link' \in [Connections -> LinkStates]
    BY <2>1 DEF LinksTyped, LinkStates
  <2>3. <<>> \in Seq(Parts)  BY EmptySeq
  <2>4. inbox' \in [Connections -> Seq(Parts)]  BY <2>1, <2>3 DEF LinksTyped
  <2>5. /\ owing' \in [Connections -> BOOLEAN]
        /\ partly' \in [Connections -> BOOLEAN]
    BY <2>1 DEF LinksTyped
  <2>. QED  BY <2>1, <2>2, <2>4, <2>5 DEF LinksTyped
<1>. QED  BY <1>1, <1>2

(* A recv() takes from the current connection only.                        *)
LEMMA ReceivedTyped ==
  ASSUME LinksTyped, conn \in Connections \cup {None}, NEW p, Received(p)
  PROVE  LinksTyped'
<1>1. /\ conn \in Connections /\ inbox[conn] # <<>>
      /\ inbox' = [inbox EXCEPT ![conn] = Tail(@)]
      /\ link' = link /\ owing' = owing /\ partly' = partly /\ full' = full
  BY DEF Received
<1>2. inbox[conn] \in Seq(Parts)  BY <1>1 DEF LinksTyped
<1>3. Tail(inbox[conn]) \in Seq(Parts)  BY <1>1, <1>2, HeadTailProperties
<1>4. inbox' \in [Connections -> Seq(Parts)]
  BY <1>1, <1>3 DEF LinksTyped
<1>. QED  BY <1>1, <1>4 DEF LinksTyped

(* The server's end: what was readable stays readable.                     *)
LEMMA ServerKeepsLinks ==
  ASSUME LinksTyped, ServerStep
  PROVE  /\ LinksTyped'
         /\ \A c \in Connections :
              (inbox[c] # <<>> \/ partly[c] \/ link[c] # "open")
                => (inbox'[c] # <<>> \/ partly'[c] \/ link'[c] # "open")
<1>1. CASE ServerComesOrGoes
  BY <1>1 DEF ServerComesOrGoes, linkVars, LinksTyped
<1>2. ASSUME NEW c \in Connections, NEW part \in Parts, ServerSends(c, part)
      PROVE  /\ LinksTyped'
             /\ \A d \in Connections :
                  (inbox[d] # <<>> \/ partly[d] \/ link[d] # "open")
                    => (inbox'[d] # <<>> \/ partly'[d] \/ link'[d] # "open")
  <2>1. /\ inbox' = [inbox EXCEPT ![c] = Append(@, part)]
        /\ owing' = [owing EXCEPT ![c] = (part = "head")]
        /\ partly' = [partly EXCEPT ![c] = FALSE]
        /\ link' = link /\ full' = full
    BY <1>2 DEF ServerSends
  <2>2. Append(inbox[c], part) \in Seq(Parts) /\ Append(inbox[c], part) # <<>>
    BY AppendProperties DEF LinksTyped
  <2>3. inbox' \in [Connections -> Seq(Parts)]  BY <2>1, <2>2 DEF LinksTyped
  <2>4. /\ owing' \in [Connections -> BOOLEAN]
        /\ partly' \in [Connections -> BOOLEAN]
    BY <2>1 DEF LinksTyped
  <2>5. \A d \in Connections :
          (inbox'[d] = inbox[d] /\ partly'[d] = partly[d]) \/ inbox'[d] # <<>>
    BY <2>1, <2>2 DEF LinksTyped
  <2>. QED  BY <2>1, <2>3, <2>4, <2>5 DEF LinksTyped
<1>5. CASE ServerStallsOrReads
  BY <1>5 DEF ServerStallsOrReads, LinksTyped
<1>6. ASSUME NEW c \in Connections, ServerSendsSome(c)
      PROVE  /\ LinksTyped'
             /\ \A d \in Connections :
                  (inbox[d] # <<>> \/ partly[d] \/ link[d] # "open")
                    => (inbox'[d] # <<>> \/ partly'[d] \/ link'[d] # "open")
  BY <1>6 DEF ServerSendsSome, LinksTyped
<1>3. ASSUME NEW c \in Connections, ServerCloses(c)
      PROVE  /\ LinksTyped'
             /\ \A d \in Connections :
                  (inbox[d] # <<>> \/ partly[d] \/ link[d] # "open")
                    => (inbox'[d] # <<>> \/ partly'[d] \/ link'[d] # "open")
  BY <1>3 DEF ServerCloses, LinksTyped, LinkStates
<1>4. ASSUME NEW c \in Connections, LinkBreaks(c)
      PROVE  /\ LinksTyped'
             /\ \A d \in Connections :
                  (inbox[d] # <<>> \/ partly[d] \/ link[d] # "open")
                    => (inbox'[d] # <<>> \/ partly'[d] \/ link'[d] # "open")
  <2>1. /\ link' = [link EXCEPT ![c] = IF @ = "closed" THEN "broken" ELSE "reset"]
        /\ inbox' = [inbox EXCEPT ![c] = <<>>]
        /\ owing' = owing /\ full' = full
        /\ partly' = [partly EXCEPT ![c] = FALSE]
    BY <1>4 DEF LinkBreaks
  <2>2. link' \in [Connections -> LinkStates]
    BY <2>1 DEF LinksTyped, LinkStates
  <2>3. <<>> \in Seq(Parts)  BY EmptySeq
  <2>4. /\ inbox' \in [Connections -> Seq(Parts)]
        /\ partly' \in [Connections -> BOOLEAN]
    BY <2>1, <2>3 DEF LinksTyped
  <2>5. \A d \in Connections :
          d # c => /\ inbox'[d] = inbox[d] /\ link'[d] = link[d]
                   /\ partly'[d] = partly[d]
    BY <2>1 DEF LinksTyped
  <2>6. link'[c] # "open"  BY <2>1 DEF LinksTyped
  <2>. QED  BY <2>1, <2>2, <2>4, <2>5, <2>6 DEF LinksTyped
<1>. QED  BY <1>1, <1>2, <1>3, <1>4, <1>5, <1>6 DEF ServerStep

(* The other variables' types.                                             *)
RestTyped ==
  /\ m_is_connected \in BOOLEAN
  /\ m_hearts \in 0 .. MaxHearts
  /\ conn \in Connections \cup {None}
  /\ served \in BOOLEAN
  /\ phase \in {"none", "rest", "watching", "event", "handling"}
  /\ polled \in Connections \cup {None}
  /\ pc \in WorkerPC
  /\ after \in {"body", "heart", "send_head"}
  /\ tries \in 0 .. MaxReconnects
  /\ headFrom \in Connections \cup {None}
  /\ headLost \in BOOLEAN
  /\ missed \in 0 .. MaxHearts + 1
  /\ up \in BOOLEAN

(* The invariant without the connections' types.                           *)
Sound ==
  /\ RestTyped /\ HeartsAreCounted /\ StillTrying /\ EventIsHandled /\ HeadIsKnown
  /\ PayloadOfHead /\ EventIsReadable

(* The two parts are the invariant.                                        *)
LEMMA Parted == IInv <=> LinksTyped /\ Sound
BY DEF IInv, TypeOK, LinksTyped, RestTyped, Sound

-----------------------------------------------------------------------------
(* At the start nothing was read.                                          *)
LEMMA InitSound == Init => IInv
<1>. SUFFICES ASSUME Init  PROVE LinksTyped /\ Sound
  BY Parted
<1>. USE DEF Init
<1>1. LinksTyped  BY EmptySeq DEF LinksTyped, LinkStates
<1>2. RestTyped
  <2>1. conn \in Connections \cup {None} /\ None \in Connections \cup {None}
    BY DEF Connections
  <2>2. /\ m_is_connected \in BOOLEAN /\ up \in BOOLEAN /\ served \in BOOLEAN
        /\ headLost \in BOOLEAN
    OBVIOUS
  <2>3. /\ MaxHearts \in 0 .. MaxHearts /\ 0 \in 0 .. MaxHearts + 1
        /\ 0 \in 0 .. MaxReconnects
    BY ClientBoundAssumption
  <2>. QED  BY <2>1, <2>2, <2>3 DEF RestTyped, WorkerPC, BornIn
<1>3. HeartsAreCounted  BY ClientBoundAssumption DEF HeartsAreCounted
<1>4. ~InRecvData /\ pc # "body"  BY DEF InRecvData
<1>5. EventIsReadable
  <2>1. polled = conn => conn = None  OBVIOUS
  <2>. QED  BY <2>1 DEF EventIsReadable, Readable
<1>. QED
  BY <1>1, <1>2, <1>3, <1>4, <1>5
     DEF Sound, StillTrying, EventIsHandled, HeadIsKnown, PayloadOfHead

(* The server's and the network's steps.                                   *)
LEMMA ServerSound == IInv /\ ServerStep => IInv'
<1>. SUFFICES ASSUME IInv, ServerStep  PROVE LinksTyped' /\ Sound'
  BY Parted, PTL
<1>1. LinksTyped /\ Sound  BY Parted
<1>2. /\ UNCHANGED <<clientVars, served, recverVars, workerVars>>
      /\ up' = up \/ up' = ~up
  BY DEF ServerStep, ServerComesOrGoes, ServerStallsOrReads, ServerSends,
         ServerSendsSome, ServerCloses, LinkBreaks
<1>3. /\ LinksTyped'
      /\ \A c \in Connections :
           (inbox[c] # <<>> \/ partly[c] \/ link[c] # "open")
             => (inbox'[c] # <<>> \/ partly'[c] \/ link'[c] # "open")
  BY <1>1, ServerKeepsLinks
<1>4. RestTyped'
  BY <1>1, <1>2 DEF Sound, RestTyped, clientVars, recverVars, workerVars
<1>5. EventIsReadable'
  <2>1. conn \in Connections \cup {None}  BY <1>1 DEF Sound, RestTyped
  <2>2. Readable(conn) => Readable(conn)'
    <3>1. conn' = conn  BY <1>2 DEF clientVars
    <3>. QED  BY <1>3, <2>1, <3>1 DEF Readable
  <2>. QED
    BY <1>1, <1>2, <2>2
       DEF Sound, EventIsReadable, clientVars, recverVars, workerVars
<1>. QED
  BY <1>1, <1>2, <1>3, <1>4, <1>5
     DEF Sound, HeartsAreCounted, StillTrying, EventIsHandled, InRecvData, HeadIsKnown,
         PayloadOfHead, clientVars, recverVars, workerVars

(* The listener thread: an event is reported of a readable connection.     *)
LEMMA ListenerSound == IInv /\ ListenerStep => IInv'
<1>. SUFFICES ASSUME IInv, ListenerStep  PROVE LinksTyped' /\ Sound'
  BY Parted, PTL
<1>1. LinksTyped /\ Sound  BY Parted
<1>2. UNCHANGED <<clientVars, served, workerVars, up>>
  BY DEF ListenerStep, CallSelect, SelectReturns, SelectFails
<1>3. phase # "handling" /\ phase' # "handling"
  BY DEF ListenerStep, CallSelect, SelectReturns, SelectFails
<1>4. ~InRecvData /\ ~InRecvData'
  BY <1>1, <1>2, <1>3 DEF Sound, EventIsHandled, InRecvData, workerVars
<1>5. pc # "body" /\ pc # "head"  BY <1>4 DEF InRecvData
<1>6. CASE CallSelect
  <2>1. LinksTyped'  BY <1>1, <1>6 DEF CallSelect, linkVars, LinksTyped
  <2>2. phase' = "watching" /\ polled' = conn  BY <1>6 DEF CallSelect
  <2>3. RestTyped'
    BY <1>1, <1>2, <2>2 DEF Sound, RestTyped, clientVars, workerVars
  <2>. QED
    BY <1>1, <1>2, <1>4, <1>5, <2>1, <2>2, <2>3
       DEF Sound, HeartsAreCounted, StillTrying, EventIsHandled, InRecvData, HeadIsKnown,
           PayloadOfHead, EventIsReadable, clientVars, workerVars
<1>7. CASE SelectReturns
  <2>1. /\ phase' = "event" /\ polled' = polled /\ Readable(polled)
        /\ IF polled = conn THEN UNCHANGED linkVars ELSE Forget(polled)
    BY <1>7 DEF SelectReturns
  <2>2. LinksTyped'
    <3>1. polled \in Connections \cup {None}  BY <1>1 DEF Sound, RestTyped
    <3>. QED
      BY <1>1, <2>1, <3>1, ForgetOne DEF linkVars, LinksTyped
  <2>3. RestTyped'
    BY <1>1, <1>2, <2>1 DEF Sound, RestTyped, clientVars, workerVars
  <2>4. EventIsReadable'
    BY <1>2, <2>1 DEF EventIsReadable, Readable, clientVars, linkVars
  <2>. QED
    BY <1>1, <1>2, <1>4, <1>5, <2>2, <2>3, <2>4
       DEF Sound, HeartsAreCounted, StillTrying, EventIsHandled, InRecvData, HeadIsKnown,
           PayloadOfHead, clientVars, workerVars
<1>8. CASE SelectFails
  <2>1. /\ phase' = "rest" /\ polled' = None
        /\ IF polled = conn THEN UNCHANGED linkVars ELSE Forget(polled)
    BY <1>8 DEF SelectFails
  <2>2. LinksTyped'
    <3>1. polled \in Connections \cup {None}  BY <1>1 DEF Sound, RestTyped
    <3>. QED
      BY <1>1, <2>1, <3>1, ForgetOne DEF linkVars, LinksTyped
  <2>3. RestTyped'
    BY <1>1, <1>2, <2>1 DEF Sound, RestTyped, clientVars, workerVars
  <2>. QED
    BY <1>1, <1>2, <1>4, <1>5, <2>1, <2>2, <2>3
       DEF Sound, HeartsAreCounted, StillTrying, EventIsHandled, InRecvData, HeadIsKnown,
           PayloadOfHead, EventIsReadable, clientVars, workerVars
<1>. QED  BY <1>6, <1>7, <1>8 DEF ListenerStep

-----------------------------------------------------------------------------
(* A callback that returns leaves recv_data, if it was there.              *)
LEMMA FinishSound ==
  ASSUME LinksTyped, Sound, Finish, LinksTyped',
         served' = served, up' = up,
         conn' = conn, m_is_connected' \in BOOLEAN,
         m_hearts' \in 0 .. MaxHearts, missed' \in 0 .. MaxHearts + 1,
         m_hearts' + missed' = MaxHearts, tries' = tries,
         phase = "handling" \/ UNCHANGED linkVars
  PROVE  LinksTyped' /\ Sound'
<1>1. /\ pc' = "idle" /\ headFrom' = None /\ headLost' = FALSE
      /\ after' = after
      /\ \/ phase = "handling" /\ phase' = "rest" /\ polled' = None
         \/ phase # "handling" /\ phase' = phase /\ polled' = polled
  BY DEF Finish, recverVars
<1>2. RestTyped'  BY <1>1 DEF Sound, RestTyped, WorkerPC
<1>3. ~InRecvData' /\ pc' # "body" /\ pc' # "head"  BY <1>1 DEF InRecvData
<1>4. EventIsReadable'
  BY <1>1, <1>3 DEF Sound, EventIsReadable, Readable, linkVars
<1>5. HeartsAreCounted'  BY DEF HeartsAreCounted
<1>6. StillTrying' /\ EventIsHandled' /\ HeadIsKnown' /\ PayloadOfHead'
  BY <1>1, <1>3 DEF StillTrying, EventIsHandled, HeadIsKnown, PayloadOfHead
<1>. QED  BY <1>2, <1>4, <1>5, <1>6 DEF Sound

(* connect_ensure: a payload is read from a new connection if and only if  *)
(* the one of its head was lost.                                           *)
LEMMA EnsureSound ==
  IInv /\ (EnsureConnected \/ EnsureFails \/ CloseSocket \/ Connect \/ ConnectFails)
    => IInv'
<1>. SUFFICES ASSUME IInv,
                     EnsureConnected \/ EnsureFails \/ CloseSocket \/ Connect
                       \/ ConnectFails
              PROVE LinksTyped' /\ Sound'
  BY Parted, PTL
<1>1. LinksTyped /\ Sound  BY Parted
<1>2. /\ MaxHearts \in Nat /\ MaxReconnects \in Nat
      /\ m_hearts + missed = MaxHearts /\ m_hearts \in 0 .. MaxHearts
      /\ missed \in 0 .. MaxHearts + 1
  BY <1>1, ClientBoundAssumption DEF Sound, RestTyped, HeartsAreCounted
<1>3. CASE EnsureConnected
  <2>1. /\ pc = "ensure" /\ m_is_connected /\ pc' = after
        /\ UNCHANGED <<clientVars, served, recverVars, after, tries, headFrom,
                       headLost, up, linkVars>>
    BY <1>3 DEF EnsureConnected
  <2>2. LinksTyped'  BY <1>1, <2>1 DEF linkVars, LinksTyped
  <2>3. after \in {"body", "heart", "send_head"}  BY <1>1 DEF Sound, RestTyped
  <2>4. RestTyped'
    BY <1>1, <2>1, <2>3
       DEF Sound, RestTyped, WorkerPC, clientVars, recverVars
  <2>5. after = "body" =>
          /\ phase = "handling" /\ headFrom \in Connections
          /\ ~headLost /\ headFrom = conn
    BY <1>1, <2>1 DEF Sound, EventIsHandled, InRecvData, HeadIsKnown
  <2>6. EventIsHandled' /\ HeadIsKnown' /\ PayloadOfHead'
    BY <2>1, <2>3, <2>5
       DEF EventIsHandled, InRecvData, HeadIsKnown, PayloadOfHead,
           clientVars, recverVars
  <2>7. EventIsReadable'
    BY <1>1, <2>1, <2>3
       DEF Sound, EventIsReadable, Readable, clientVars, recverVars, linkVars
  <2>. QED
    BY <1>1, <2>1, <2>2, <2>3, <2>4, <2>6, <2>7
       DEF Sound, HeartsAreCounted, StillTrying, clientVars
<1>4. CASE EnsureFails
  <2>1. /\ Finish /\ UNCHANGED <<clientVars, served, tries, up, linkVars>>
    BY <1>4 DEF EnsureFails
  <2>2. LinksTyped'  BY <1>1, <2>1 DEF linkVars, LinksTyped
  <2>3. m_is_connected \in BOOLEAN  BY <1>1 DEF Sound, RestTyped
  <2>. QED  BY <1>1, <1>2, <2>1, <2>2, <2>3, FinishSound DEF clientVars
<1>5. CASE CloseSocket
  <2>1. /\ pc = "ensure" /\ ~m_is_connected /\ pc' = "connect" /\ conn' = None
        /\ \/ full' = FALSE /\ UNCHANGED <<link, inbox, owing, partly>>
           \/ Forget(conn)
        /\ UNCHANGED <<m_is_connected, m_hearts, missed, served, recverVars,
                       after, tries, headFrom, headLost, up>>
        /\ tries < MaxReconnects
    BY <1>5 DEF CloseSocket
  <2>2. LinksTyped'
    <3>1. conn \in Connections \cup {None}  BY <1>1 DEF Sound, RestTyped
    <3>. QED
      BY <1>1, <2>1, <3>1, ForgetOne DEF linkVars, LinksTyped
  <2>3. RestTyped'
    BY <1>1, <2>1 DEF Sound, RestTyped, WorkerPC, recverVars
  <2>4. EventIsHandled' /\ HeadIsKnown' /\ PayloadOfHead'
    BY <1>1, <2>1
       DEF Sound, EventIsHandled, InRecvData, HeadIsKnown, PayloadOfHead,
           recverVars
  <2>5. EventIsReadable'
    BY <2>1 DEF EventIsReadable, Readable, recverVars
  <2>. QED
    BY <1>1, <2>1, <2>2, <2>3, <2>4, <2>5
       DEF Sound, HeartsAreCounted, StillTrying
<1>6. CASE Connect
  <2>1. /\ pc = "connect" /\ pc' = after /\ conn' = Fresh
        /\ m_is_connected' = TRUE /\ m_hearts' = MaxHearts /\ missed' = 0
        /\ tries' = 0
        /\ \/ phase' = phase
           \/ phase = "none" /\ phase' \in {"rest", "event"}
        /\ UNCHANGED <<served, polled, after, headFrom, headLost, up, linkVars>>
    BY <1>6 DEF Connect, BornIn
  <2>2. LinksTyped'  BY <1>1, <2>1 DEF linkVars, LinksTyped
  <2>3. after \in {"body", "heart", "send_head"}  BY <1>1 DEF Sound, RestTyped
  <2>4. Fresh \in Connections /\ Fresh # polled /\ Fresh # headFrom
    BY FreshIsFresh
  <2>5. RestTyped'
    BY <1>1, <1>2, <2>1, <2>3, <2>4 DEF Sound, RestTyped, WorkerPC
  <2>6. after = "body" =>
          phase = "handling" /\ headFrom \in Connections /\ headLost
    BY <1>1, <2>1 DEF Sound, EventIsHandled, InRecvData, HeadIsKnown
  <2>7. EventIsHandled' /\ HeadIsKnown' /\ PayloadOfHead'
    BY <2>1, <2>3, <2>4, <2>6
       DEF EventIsHandled, InRecvData, HeadIsKnown, PayloadOfHead
  <2>8. EventIsReadable'
    BY <2>1, <2>4 DEF EventIsReadable
  <2>. QED
    BY <1>2, <2>1, <2>2, <2>3, <2>5, <2>7, <2>8
       DEF Sound, HeartsAreCounted, StillTrying
<1>7. CASE ConnectFails
  <2>1. /\ pc = "connect" /\ pc' = "ensure" /\ tries' = tries + 1
        /\ UNCHANGED <<clientVars, served, recverVars, after, headFrom, headLost,
                       up, linkVars>>
    BY <1>7 DEF ConnectFails
  <2>2. LinksTyped'  BY <1>1, <2>1 DEF linkVars, LinksTyped
  <2>3. ~m_is_connected /\ tries < MaxReconnects /\ tries \in 0 .. MaxReconnects
    BY <1>1, <2>1 DEF Sound, StillTrying, RestTyped
  <2>4. tries' \in 0 .. MaxReconnects  BY <1>2, <2>1, <2>3
  <2>5. RestTyped'
    BY <1>1, <2>1, <2>4 DEF Sound, RestTyped, WorkerPC, clientVars, recverVars
  <2>6. after = "body" =>
          phase = "handling" /\ headFrom \in Connections /\ headLost
    BY <1>1, <2>1 DEF Sound, EventIsHandled, InRecvData, HeadIsKnown
  <2>7. EventIsHandled' /\ HeadIsKnown' /\ PayloadOfHead' /\ StillTrying'
    BY <2>1, <2>3, <2>6
       DEF EventIsHandled, InRecvData, HeadIsKnown, PayloadOfHead, StillTrying,
           clientVars, recverVars
  <2>8. EventIsReadable'
    BY <1>1, <2>1
       DEF Sound, EventIsReadable, Readable, clientVars, recverVars, linkVars
  <2>. QED
    BY <1>1, <2>1, <2>2, <2>5, <2>7, <2>8 DEF Sound, HeartsAreCounted, clientVars
<1>. QED  BY <1>3, <1>4, <1>5, <1>6, <1>7
(* The recver's callback: it starts with an event, and its reads end it or *)
(* go on to a payload.                                                     *)
LEMMA RecvSound ==
  IInv /\ (TakeEvent \/ RecvHeart \/ RecvJunk \/ RecvHead \/ RecvBody \/ RecvFails)
    => IInv'
<1>. SUFFICES ASSUME IInv,
                     TakeEvent \/ RecvHeart \/ RecvJunk \/ RecvHead \/ RecvBody
                       \/ RecvFails
              PROVE LinksTyped' /\ Sound'
  BY Parted, PTL
<1>1. LinksTyped /\ Sound  BY Parted
<1>2. /\ MaxHearts \in Nat
      /\ m_hearts + missed = MaxHearts /\ m_hearts \in 0 .. MaxHearts
      /\ missed \in 0 .. MaxHearts + 1
      /\ m_is_connected \in BOOLEAN /\ conn \in Connections \cup {None}
  BY <1>1, ClientBoundAssumption DEF Sound, RestTyped, HeartsAreCounted
<1>3. pc \in {"head", "body"} => phase = "handling"
  BY <1>1 DEF Sound, EventIsHandled, InRecvData
<1>4. CASE TakeEvent
  <2>1. /\ pc = "idle" /\ phase = "event" /\ pc' = "head" /\ phase' = "handling"
        /\ UNCHANGED <<polled, clientVars, served, after, tries, headFrom,
                       headLost, up, linkVars>>
    BY <1>4 DEF TakeEvent
  <2>2. LinksTyped'  BY <1>1, <2>1 DEF linkVars, LinksTyped
  <2>3. RestTyped'
    BY <1>1, <2>1 DEF Sound, RestTyped, WorkerPC, clientVars
  <2>4. EventIsReadable'
    BY <1>1, <2>1 DEF Sound, EventIsReadable, Readable, clientVars, linkVars
  <2>. QED
    BY <1>1, <2>1, <2>2, <2>3, <2>4
       DEF Sound, HeartsAreCounted, StillTrying, EventIsHandled, InRecvData,
           HeadIsKnown, PayloadOfHead, clientVars
<1>5. CASE RecvHeart
  <2>1. /\ pc = "head" /\ m_hearts' = MaxHearts /\ missed' = 0 /\ Finish
        /\ UNCHANGED <<m_is_connected, conn, served, tries, up>>
        /\ HeadLooksLike("heart")
    BY <1>5 DEF RecvHeart
  <2>2. LinksTyped'  BY <1>1, <1>2, <2>1, ReceivedTyped DEF HeadLooksLike
  <2>. QED  BY <1>1, <1>2, <1>3, <2>1, <2>2, FinishSound
<1>6. CASE RecvJunk
  <2>1. /\ pc = "head" /\ Finish /\ UNCHANGED <<clientVars, served, tries, up>>
        /\ HeadLooksLike("junk")
    BY <1>6 DEF RecvJunk
  <2>2. LinksTyped'  BY <1>1, <1>2, <2>1, ReceivedTyped DEF HeadLooksLike
  <2>. QED  BY <1>1, <1>2, <1>3, <2>1, <2>2, FinishSound DEF clientVars
<1>7. CASE RecvHead
  <2>1. /\ pc = "head" /\ headFrom' = conn /\ headLost' = ~m_is_connected
        /\ pc' = "ensure" /\ after' = "body" /\ tries' = 0
        /\ UNCHANGED <<clientVars, served, recverVars, up>>
        /\ HeadLooksLike("head")
    BY <1>7 DEF RecvHead, CallEnsure
  <2>2. LinksTyped'  BY <1>1, <1>2, <2>1, ReceivedTyped DEF HeadLooksLike
  <2>3. conn \in Connections
    BY <1>2, <2>1 DEF HeadLooksLike, Received
  <2>4. RestTyped'
    <3>1. 0 \in 0 .. MaxReconnects  BY ClientBoundAssumption
    <3>2. headLost' \in BOOLEAN  BY <2>1
    <3>. QED
      BY <1>1, <2>1, <2>3, <3>1, <3>2
         DEF Sound, RestTyped, WorkerPC, clientVars, recverVars
  <2>5. HeadIsKnown'
    <3>1. headLost' <=> ~m_is_connected'  BY <2>1 DEF clientVars
    <3>2. headFrom' = conn' /\ headFrom' \in Connections
      BY <2>1, <2>3 DEF clientVars
    <3>. QED  BY <2>1, <3>1, <3>2 DEF HeadIsKnown
  <2>6. EventIsReadable'
    <3>1. phase' = "handling" /\ pc' # "head"
      BY <1>3, <2>1 DEF recverVars
    <3>. QED  BY <3>1 DEF EventIsReadable
  <2>7. EventIsHandled'
    BY <1>3, <2>1 DEF EventIsHandled, recverVars
  <2>. QED
    BY <1>1, <2>1, <2>2, <2>4, <2>5, <2>6, <2>7
       DEF Sound, HeartsAreCounted, StillTrying, PayloadOfHead, clientVars
<1>8. CASE RecvBody
  <2>1. /\ pc = "body" /\ Finish /\ UNCHANGED <<clientVars, served, tries, up>>
        /\ \E part \in Parts : Received(part)
    BY <1>8 DEF RecvBody
  <2>2. LinksTyped'  BY <1>1, <1>2, <2>1, ReceivedTyped
  <2>. QED  BY <1>1, <1>2, <1>3, <2>1, <2>2, FinishSound DEF clientVars
<1>9. CASE RecvFails
  <2>1. /\ pc \in {"head", "body"} /\ m_is_connected' = FALSE /\ Finish
        /\ UNCHANGED <<m_hearts, conn, missed, served, tries, up, linkVars>>
    BY <1>9 DEF RecvFails
  <2>2. LinksTyped'  BY <1>1, <2>1 DEF linkVars, LinksTyped
  <2>. QED  BY <1>1, <1>2, <1>3, <2>1, <2>2, FinishSound
<1>. QED  BY <1>4, <1>5, <1>6, <1>7, <1>8, <1>9

(* Sends and the keep-alive sweep.                                         *)
LEMMA TimersSound ==
  IInv /\ (StartSendHeart \/ StartSendData \/ KeepAlive \/ Sent \/ SendFails \/ SendKills)
    => IInv'
<1>. SUFFICES ASSUME IInv,
                     StartSendHeart \/ StartSendData \/ KeepAlive \/ Sent
                       \/ SendFails \/ SendKills
              PROVE LinksTyped' /\ Sound'
  BY Parted, PTL
<1>1. LinksTyped /\ Sound  BY Parted
<1>2. /\ MaxHearts \in Nat
      /\ m_hearts + missed = MaxHearts /\ m_hearts \in 0 .. MaxHearts
      /\ missed \in 0 .. MaxHearts + 1
      /\ m_is_connected \in BOOLEAN /\ conn \in Connections \cup {None}
      /\ 0 \in 0 .. MaxReconnects
  BY <1>1, ClientBoundAssumption DEF Sound, RestTyped, HeartsAreCounted
<1>3. CASE StartSendHeart \/ StartSendData
  <2>1. PICK next \in {"heart", "send_head"} :
          /\ pc' = "ensure" /\ after' = next /\ tries' = 0
          /\ UNCHANGED <<clientVars, served, recverVars, headFrom, headLost, up,
                         linkVars>>
    BY <1>3 DEF StartSendHeart, StartSendData, CallEnsure
  <2>2. LinksTyped'  BY <1>1, <2>1 DEF linkVars, LinksTyped
  <2>3. RestTyped'
    BY <1>1, <1>2, <2>1 DEF Sound, RestTyped, WorkerPC, clientVars, recverVars
  <2>4. EventIsReadable'
    BY <1>1, <2>1
       DEF Sound, EventIsReadable, Readable, clientVars, recverVars, linkVars
  <2>. QED
    BY <1>1, <2>1, <2>2, <2>3, <2>4
       DEF Sound, HeartsAreCounted, StillTrying, EventIsHandled, InRecvData,
           HeadIsKnown, PayloadOfHead, clientVars
<1>4. CASE KeepAlive
  <2>1. /\ pc = "idle"
        /\ UNCHANGED <<conn, served, recverVars, workerVars, up, linkVars>>
        /\ \/ m_hearts = 0 /\ m_is_connected' = FALSE
              /\ m_hearts' = m_hearts /\ missed' = missed
           \/ m_hearts # 0 /\ m_is_connected' = m_is_connected
              /\ m_hearts' = m_hearts - 1 /\ missed' = missed + 1
    BY <1>4 DEF KeepAlive
  <2>2. LinksTyped'  BY <1>1, <2>1 DEF linkVars, LinksTyped
  <2>3. /\ m_hearts' \in 0 .. MaxHearts /\ missed' \in 0 .. MaxHearts + 1
        /\ m_hearts' + missed' = MaxHearts
    BY <1>2, <2>1
  <2>4. m_is_connected' \in BOOLEAN  BY <1>2, <2>1
  <2>5. RestTyped'
    BY <1>1, <2>1, <2>3, <2>4 DEF Sound, RestTyped, recverVars, workerVars
  <2>6. EventIsReadable'
    BY <1>1, <2>1
       DEF Sound, EventIsReadable, Readable, recverVars, workerVars, linkVars
  <2>. QED
    BY <1>1, <2>1, <2>2, <2>3, <2>5, <2>6
       DEF Sound, HeartsAreCounted, StillTrying, EventIsHandled, InRecvData,
           HeadIsKnown, PayloadOfHead, workerVars
<1>5. CASE Sent
  <2>1. /\ Sending
        /\ UNCHANGED <<clientVars, served, tries, up, linkVars>>
        /\ \/ pc' = "send_body" /\ UNCHANGED <<recverVars, after, headFrom, headLost>>
           \/ Finish
    BY <1>5 DEF Sent
  <2>2. LinksTyped'  BY <1>1, <2>1 DEF linkVars, LinksTyped
  <2>3. CASE Finish
    BY <1>1, <1>2, <2>1, <2>2, <2>3, FinishSound DEF clientVars
  <2>4. CASE pc' = "send_body" /\ UNCHANGED <<recverVars, after, headFrom, headLost>>
    <3>1. RestTyped'
      BY <1>1, <2>1, <2>4 DEF Sound, RestTyped, WorkerPC, clientVars, recverVars
    <3>2. EventIsReadable'
      BY <1>1, <2>1, <2>4
         DEF Sound, EventIsReadable, Readable, clientVars, recverVars, linkVars
    <3>. QED
      BY <1>1, <2>1, <2>2, <2>4, <3>1, <3>2
         DEF Sound, HeartsAreCounted, StillTrying, EventIsHandled, InRecvData,
             HeadIsKnown, PayloadOfHead, clientVars
  <2>. QED  BY <2>1, <2>3, <2>4
<1>6. CASE SendFails
  <2>1. /\ m_is_connected' = FALSE /\ Finish
        /\ UNCHANGED <<m_hearts, conn, missed, served, tries, up, linkVars>>
    BY <1>6 DEF SendFails
  <2>2. LinksTyped'  BY <1>1, <2>1 DEF linkVars, LinksTyped
  <2>. QED  BY <1>1, <1>2, <2>1, <2>2, FinishSound
<1>7. CASE SendKills
  <2>1. /\ pc' = "dead"
        /\ UNCHANGED <<clientVars, served, recverVars, after, tries, headFrom,
                       headLost, up, linkVars>>
    BY <1>7 DEF SendKills
  <2>2. LinksTyped'  BY <1>1, <2>1 DEF linkVars, LinksTyped
  <2>3. RestTyped'
    BY <1>1, <2>1 DEF Sound, RestTyped, WorkerPC, clientVars, recverVars
  <2>4. EventIsReadable'
    BY <1>1, <2>1
       DEF Sound, EventIsReadable, Readable, clientVars, recverVars, linkVars
  <2>. QED
    BY <1>1, <2>1, <2>2, <2>3, <2>4
       DEF Sound, HeartsAreCounted, StillTrying, EventIsHandled, InRecvData,
           HeadIsKnown, PayloadOfHead, clientVars
<1>. QED  BY <1>3, <1>4, <1>5, <1>6, <1>7

(* What a step leaves alone keeps the invariant.                           *)
LEMMA StutterSound == IInv /\ UNCHANGED vars => IInv'
BY DEF IInv, TypeOK, HeartsAreCounted, StillTrying, EventIsHandled, InRecvData,
       HeadIsKnown, PayloadOfHead, EventIsReadable, Readable, vars, clientVars,
       recverVars, workerVars, linkVars

(* The invariant holds in every state.                                     *)
LEMMA Invariance == Spec => []IInv
<1>1. IInv /\ [Next]_vars => IInv'
  BY ServerSound, ListenerSound, EnsureSound, RecvSound, TimersSound, StutterSound
     DEF Next, CallbackStep
<1>. QED  BY <1>1, InitSound, PTL DEF Spec

-----------------------------------------------------------------------------
(* Types: hearts are never counted below zero, and connect_ensure never    *)
(* tries more often than m_max_reconnects.                                 *)
THEOREM TypeCorrect == Spec => []TypeOK
BY Invariance, PTL DEF IInv

(* A payload is read from the connection its head came from, unless that   *)
(* connection had been given up or lost when the head was read.            *)
THEOREM PayloadBelongs == Spec => []PayloadOfHead
BY Invariance, PTL DEF IInv

(* The recv of a head waits only for the rest of a head that has begun to  *)
(* arrive, or on a connection that select() did not report.                *)
THEOREM HeadRecvIsPrompt == Spec => []HeadRecvWaitsForRestOrNewLink
<1>1. IInv => HeadRecvWaitsForRestOrNewLink
  BY DEF IInv, EventIsReadable, Readable, HeadRecvWaitsForRestOrNewLink,
         NothingFrom
<1>. QED  BY <1>1, Invariance, PTL

(* The keep-alive sweep gives the connection up only after MAX_HEARTS      *)
(* sweeps in a row in which no heart was read from it.                     *)
THEOREM KeepAliveIsPatient == Spec => GivenUpOnlyWhenSilent
<1>1. IInv /\ [Next]_vars =>
        [pc = "idle" /\ m_is_connected /\ ~m_is_connected' => missed = MaxHearts]_vars
  <2>. SUFFICES ASSUME IInv, Next, pc = "idle", m_is_connected, ~m_is_connected'
                PROVE  missed = MaxHearts
    OBVIOUS
  <2>1. KeepAlive
    BY DEF Next, ServerStep, ServerComesOrGoes, ServerStallsOrReads,
           ServerSends, ServerSendsSome, ServerCloses, LinkBreaks, ListenerStep, CallSelect, SelectReturns, SelectFails,
           TakeEvent, StartSendHeart, StartSendData, CallbackStep,
           EnsureConnected, EnsureFails, CloseSocket, Connect, ConnectFails,
           RecvHeart, RecvJunk, RecvHead, RecvBody, RecvFails, Sent, SendFails,
           SendKills, Sending, clientVars
  <2>2. m_hearts = 0  BY <2>1 DEF KeepAlive
  <2>. QED
    BY <2>2, ClientBoundAssumption DEF IInv, TypeOK, HeartsAreCounted
<1>. QED  BY <1>1, Invariance, PTL DEF Spec, GivenUpOnlyWhenSilent
-----------------------------------------------------------------------------
(* The recver, as ExecutableProofs and ExecutorProofs say it behaves.      *)

Channel == INSTANCE EventChannel
  WITH Recvers <- {"m_recver"}, Initially <- BornIn,
       phase <- [r \in {"m_recver"} |-> phase]

ChannelMoves ==
  \/ phase = "rest" /\ phase' = "watching"
  \/ phase = "watching" /\ phase' \in {"rest", "event"}
  \/ phase = "event" /\ phase' = "handling"
  \/ phase = "handling" /\ phase' = "rest"

(* A move of the phase is one of the channel.                              *)
LEMMA MovesAreChannels == ChannelMoves => Channel!Next
BY DEF ChannelMoves, Channel!Next, Channel!Watch, Channel!Abandon,
       Channel!Announce, Channel!Take, Channel!Finish, Channel!Move

(* connect_to_server creates the recver at the first connection.           *)
Creates == phase = "none" /\ phase' \in BornIn

(* What the client does to the phase of its recver.                        *)
LEMMA PhaseStep ==
  ASSUME Next
  PROVE  phase' = phase \/ ChannelMoves \/ Creates
<1>1. Finish => phase' = phase \/ ChannelMoves
  BY DEF Finish, recverVars, ChannelMoves
<1>2. CASE ServerStep
  BY <1>2 DEF ServerStep, ServerComesOrGoes, ServerStallsOrReads, ServerSends,
              ServerSendsSome, ServerCloses, LinkBreaks, recverVars
<1>3. CASE ListenerStep
  BY <1>3 DEF ListenerStep, CallSelect, SelectReturns, SelectFails, ChannelMoves
<1>4. CASE TakeEvent \/ StartSendHeart \/ StartSendData \/ KeepAlive
  BY <1>4 DEF TakeEvent, StartSendHeart, StartSendData, KeepAlive, recverVars,
              ChannelMoves
<1>5. CASE CallbackStep
  <2>1. CASE EnsureConnected \/ CloseSocket \/ Connect \/ ConnectFails
    BY <2>1 DEF EnsureConnected, CloseSocket, Connect, ConnectFails, Creates,
                recverVars
  <2>2. CASE EnsureFails \/ RecvHeart \/ RecvJunk \/ RecvBody \/ RecvFails \/ SendFails
    BY <1>1, <2>2 DEF EnsureFails, RecvHeart, RecvJunk, RecvBody, RecvFails, SendFails
  <2>3. CASE RecvHead \/ SendKills
    BY <2>3 DEF RecvHead, SendKills, recverVars
  <2>4. CASE Sent
    BY <1>1, <2>4 DEF Sent, recverVars
  <2>. QED  BY <1>5, <2>1, <2>2, <2>3, <2>4 DEF CallbackStep
<1>. QED  BY <1>2, <1>3, <1>4, <1>5 DEF Next

(* The client's check function and callbacks ask of their recver nothing   *)
(* but what EventChannel promises, however often connections come and go.  *)
(* The channel is there from the start, or begins, in one of its initial   *)
(* phases, with the first connection.                                      *)
THEOREM RecverIsAChannel ==
  Spec => /\ served => Channel!Init
          /\ [][Channel!Next \/ (phase = "none" /\ Channel!Init')]_phase
<1>1. Init => (served => Channel!Init)  BY DEF Init, Channel!Init
<1>2. Creates => phase = "none" /\ Channel!Init'
  BY DEF Creates, Channel!Init
<1>3. [Next]_vars => [Channel!Next \/ (phase = "none" /\ Channel!Init')]_phase
  BY <1>2, PhaseStep, MovesAreChannels DEF vars, recverVars
<1>. QED  BY <1>1, <1>3, PTL DEF Spec
=============================================================================
