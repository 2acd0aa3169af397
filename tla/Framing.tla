------------------------------- MODULE Framing -------------------------------
(***************************************************************************)
(* Frames on one tcp connection, from the threads that call send_data()    *)
(* and send_heart() of a client to the callback of the server.  A frame is *)
(* a head of fixed length and a payload; the socket takes and gives as     *)
(* much of either as it likes at a time.  m_mutex keeps the two parts of a *)
(* frame together.  recv_data() takes m_mutex as well: of the frames that  *)
(* come the other way only its wait for a payload is here.  All three call *)
(* connect_ensure() under the mutex; this module ends where that connects  *)
(* anew, and TcpClient and TcpServer go on from connection to connection,  *)
(* with frames cut into head and payload only.                             *)
(***************************************************************************)
EXTENDS Naturals, Sequences, SequencesExt

CONSTANTS
  Threads,     \* threads that send
  HeadLen,     \* units of a head, sizeof(PackHead)
  MaxLen,      \* bound: units of a payload
  SocketRoom,  \* units the connection holds
  MaxFrames    \* bound: frames sent

ASSUME LengthAssumption ==
  /\ HeadLen \in Nat \ {0} /\ SocketRoom \in Nat \ {0}
  /\ MaxLen \in Nat /\ MaxFrames \in Nat

Frames == [type : {"heart"}, len : {0}] \cup [type : {"data"}, len : 0 .. MaxLen]
Garbled == [type |-> "garbled", len |-> 0]

VARIABLES
  m_mutex,       \* the threads that hold the client's mutex
  pc, nleft,     \* where a thread is, and what sendn() has still to send
  begun,         \* the frames whose sending began
  mine,          \* the index in begun of the frame of a thread
  socket,        \* units under way: of which frame, and which in it
  m_is_connected,
  up,            \* the connection has not broken
  reader, buf,   \* what the receiver reads, and what recvn() has read of it
  received       \* the frames the receiver has read

sendVars == <<m_mutex, pc, nleft, begun, mine>>
recvVars == <<reader, buf, received>>
linkVars == <<m_is_connected, socket, up>>
vars == <<sendVars, linkVars, recvVars>>

Init ==
  /\ m_mutex = {}
  /\ pc = [t \in Threads |-> "idle"]
  /\ nleft = [t \in Threads |-> 0]
  /\ begun = <<>>
  /\ mine = [t \in Threads |-> 0]
  /\ m_is_connected = TRUE /\ socket = <<>> /\ up = TRUE
  /\ reader = "head" /\ buf = <<>> /\ received = <<>>

-----------------------------------------------------------------------------
(* send_data, send_heart: lock, ensure, head, payload, unlock.             *)

Lock(t) ==
  /\ pc[t] = "idle" /\ m_mutex = {}
  /\ m_mutex' = {t}
  /\ pc' = [pc EXCEPT ![t] = "ensure"]
  /\ UNCHANGED <<nleft, begun, mine, linkVars, recvVars>>

Unlock(t) ==
  /\ m_mutex' = m_mutex \ {t}
  /\ pc' = [pc EXCEPT ![t] = "idle"]
  /\ nleft' = [nleft EXCEPT ![t] = 0]
  /\ mine' = [mine EXCEPT ![t] = 0]
  /\ UNCHANGED begun

(* connect_ensure finds the client connected, and the head comes next.     *)
Begin(t, f) ==
  /\ pc[t] = "ensure" /\ m_is_connected
  /\ Len(begun) < MaxFrames
  /\ pc' = [pc EXCEPT ![t] = "head"]
  /\ nleft' = [nleft EXCEPT ![t] = HeadLen]
  /\ begun' = Append(begun, f)
  /\ mine' = [mine EXCEPT ![t] = Len(begun')]
  /\ UNCHANGED <<m_mutex, linkVars, recvVars>>

(* recv_data; whether a payload comes is up to the server.                 *)
BeginRecv(t) ==
  /\ pc[t] = "ensure" /\ m_is_connected
  /\ pc' = [pc EXCEPT ![t] = "recv"]
  /\ UNCHANGED <<m_mutex, nleft, begun, mine, linkVars, recvVars>>

DataReceived(t) ==
  /\ pc[t] = "recv"
  /\ Unlock(t)
  /\ UNCHANGED <<linkVars, recvVars>>

DataRecvFails(t) ==
  /\ pc[t] = "recv" /\ ~up
  /\ m_is_connected' = FALSE
  /\ Unlock(t)
  /\ UNCHANGED <<socket, up, recvVars>>

(* The connection is over; what is under way is still delivered, or not.   *)
Ends == up' = FALSE /\ socket' \in {socket, <<>>}

(* connect_ensure closes what socket there is, and connects anew, or has   *)
(* failed max_reconnects times and gives up.                               *)
CloseSocket(t) ==
  /\ pc[t] = "ensure" /\ ~m_is_connected
  /\ Ends
  /\ pc' = [pc EXCEPT ![t] = "reconnect"]
  /\ UNCHANGED <<m_mutex, nleft, begun, mine, m_is_connected, recvVars>>

Reconnected(t) ==
  /\ pc[t] = "reconnect"
  /\ pc' = [pc EXCEPT ![t] = "elsewhere"]
  /\ m_is_connected' = TRUE
  /\ UNCHANGED <<m_mutex, nleft, begun, mine, socket, up, recvVars>>

ReconnectFails(t) ==
  /\ pc[t] = "reconnect"
  /\ Unlock(t)
  /\ UNCHANGED <<linkVars, recvVars>>

FrameOf(t) == begun[mine[t]]

(* The units of its part that thread t has not sent yet.                   *)
Unsent(t) ==
  LET end == HeadLen + IF pc[t] = "head" THEN 0 ELSE FrameOf(t).len
  IN  [i \in 1 .. nleft[t] |-> [of |-> mine[t], pos |-> end - nleft[t] + i]]

(* Mutant of SendSome: what one send() takes is taken for all.             *)
SendOnce(t) ==
  /\ pc[t] \in {"head", "payload"} /\ up
  /\ \E n \in 1 .. nleft[t] :
       /\ Len(socket) + n <= SocketRoom
       /\ socket' = socket \o SubSeq(Unsent(t), 1, n)
       /\ nleft' = [nleft EXCEPT ![t] = 0]
  /\ UNCHANGED <<m_mutex, pc, begun, mine, m_is_connected, up, recvVars>>

(* One send() of sendn().                                                  *)
SendSome(t) ==
  /\ pc[t] \in {"head", "payload"} /\ up
  /\ \E n \in 1 .. nleft[t] :
       /\ Len(socket) + n <= SocketRoom
       /\ socket' = socket \o SubSeq(Unsent(t), 1, n)
       /\ nleft' = [nleft EXCEPT ![t] = @ - n]
  /\ UNCHANGED <<m_mutex, pc, begun, mine, m_is_connected, up, recvVars>>

(* Mutant of HeadSent: the mutex guards each part on its own.              *)
HeadSentUnlocks(t) ==
  /\ pc[t] = "head" /\ nleft[t] = 0
  /\ IF FrameOf(t).type = "data"
     THEN /\ pc' = [pc EXCEPT ![t] = "payload"]
          /\ nleft' = [nleft EXCEPT ![t] = FrameOf(t).len]
          /\ m_mutex' = {}
          /\ UNCHANGED <<begun, mine>>
     ELSE Unlock(t)
  /\ UNCHANGED <<linkVars, recvVars>>

HeadSent(t) ==
  /\ pc[t] = "head" /\ nleft[t] = 0
  /\ IF FrameOf(t).type = "data"
     THEN /\ pc' = [pc EXCEPT ![t] = "payload"]
          /\ nleft' = [nleft EXCEPT ![t] = FrameOf(t).len]
          /\ UNCHANGED <<m_mutex, begun, mine>>
     ELSE Unlock(t)
  /\ UNCHANGED <<linkVars, recvVars>>

PayloadSent(t) ==
  /\ pc[t] = "payload" /\ nleft[t] = 0
  /\ Unlock(t)
  /\ UNCHANGED <<linkVars, recvVars>>

(* Mutant of SendFails: a return without the guard.                        *)
SendFailsLocked(t) ==
  /\ pc[t] \in {"head", "payload"} /\ nleft[t] > 0 /\ ~up
  /\ m_is_connected' = FALSE
  /\ pc' = [pc EXCEPT ![t] = "idle"]
  /\ UNCHANGED <<m_mutex, nleft, begun, mine, socket, up, recvVars>>

SendFails(t) ==
  /\ pc[t] \in {"head", "payload"} /\ nleft[t] > 0 /\ ~up
  /\ m_is_connected' = FALSE
  /\ Unlock(t)
  /\ UNCHANGED <<socket, up, recvVars>>

-----------------------------------------------------------------------------
(* keep_alive gives the connection up without the mutex.                   *)
KeepAlive ==
  /\ m_is_connected /\ m_is_connected' = FALSE
  /\ UNCHANGED <<sendVars, socket, up, recvVars>>

Break ==
  /\ up /\ Ends
  /\ UNCHANGED <<sendVars, m_is_connected, recvVars>>

-----------------------------------------------------------------------------
(* The receiver: recv_from, then recv_data for what the head says.         *)

Wanted == IF reader = "head" THEN HeadLen ELSE begun[buf[HeadLen].of].len

BytesRead == IF reader = "head" THEN Len(buf) ELSE Len(buf) - HeadLen

(* One recv() of recvn().                                                  *)
RecvSome ==
  /\ reader # "closed"
  /\ \E n \in 1 .. Len(socket) :
       /\ BytesRead + n <= Wanted
       /\ buf' = buf \o SubSeq(socket, 1, n)
       /\ socket' = SubSeq(socket, n + 1, Len(socket))
  /\ UNCHANGED <<sendVars, m_is_connected, up, reader, received>>

(* The frame whose head was read, if the units in buf are those it sent.   *)
FrameRead ==
  LET i == buf[HeadLen].of
  IN  IF buf = [p \in 1 .. HeadLen + begun[i].len |-> [of |-> i, pos |-> p]]
      THEN begun[i] ELSE Garbled

Receive ==
  /\ received' = Append(received, FrameRead)
  /\ reader' = "head" /\ buf' = <<>>

(* The head's type and length are those of the frame its units came from.  *)
HeadRead ==
  /\ reader = "head" /\ BytesRead = Wanted
  /\ IF begun[buf[HeadLen].of].type = "data"
     THEN reader' = "payload" /\ UNCHANGED <<buf, received>>
     ELSE Receive
  /\ UNCHANGED <<sendVars, linkVars>>

PayloadRead ==
  /\ reader = "payload" /\ BytesRead = Wanted
  /\ Receive
  /\ UNCHANGED <<sendVars, linkVars>>

RecvFails ==
  /\ reader \in {"head", "payload"} /\ BytesRead < Wanted
  /\ ~up /\ socket = <<>>
  /\ reader' = "closed" /\ buf' = <<>>
  /\ UNCHANGED <<sendVars, linkVars, received>>

-----------------------------------------------------------------------------
(* What a thread does under the mutex without waiting for the server, or   *)
(* as soon as the socket has room.                                         *)
ThreadStep(t) ==
  \/ BeginRecv(t) \/ \E f \in Frames : Begin(t, f)
  \/ CloseSocket(t) \/ Reconnected(t) \/ ReconnectFails(t)
  \/ SendSome(t) \/ HeadSent(t) \/ PayloadSent(t) \/ SendFails(t)

ReaderStep == RecvSome \/ HeadRead \/ PayloadRead \/ RecvFails

Next ==
  \/ \E t \in Threads :
       Lock(t) \/ ThreadStep(t) \/ DataReceived(t) \/ DataRecvFails(t)
  \/ ReaderStep
  \/ KeepAlive \/ Break

Spec == Init /\ [][Next]_vars

(* The server's callback is inside a frame.                                *)
Reading == reader = "payload" \/ buf # <<>>

(* A thread in a call goes on when the socket has room, and the server     *)
(* reads on what it has begun to read.  When it comes to the next frame is *)
(* not promised: its listener may be stranded (see Recver), m_max_fd may   *)
(* hide the client, and its worker may wait for another one (TcpServer).   *)
(* Nobody has to send.                                                     *)
Fairness ==
  /\ \A t \in Threads : WF_vars(ThreadStep(t))
  /\ WF_vars(Reading /\ ReaderStep)

FairSpec == Spec /\ Fairness

-----------------------------------------------------------------------------
(* However send() and recv() cut them, and whichever threads send, whole   *)
(* frames arrive in the order in which their threads got the mutex.        *)
Channel == INSTANCE FrameChannel WITH sent <- begun

ImplementsChannel == Channel!Spec

(* Bytes have arrived, and the server does not turn to them.               *)
Unattended == ~Reading /\ reader = "head" /\ socket # <<>>

(* Every frame that was begun arrives, unless the connection breaks or the *)
(* server turns to it no more: the two ends agree on what is still to come *)
(* of a frame, and neither waits for the other inside one.                 *)
AllArrive ==
  \/ \A n \in 1 .. MaxFrames :
       Len(begun) >= n ~> (Len(received) >= n \/ ~up)
  \/ <>[]Unattended

(* Waiting for a payload, or for room in a socket that nobody empties, or  *)
(* at work on a new connection, which is not in this module.               *)
KeptWaiting(t) ==
  \/ pc[t] \in {"recv", "elsewhere"}
  \/ nleft[t] > 0 /\ Unattended

(* A thread keeps the mutex, which the client's other callbacks need, for  *)
(* good only if the server keeps it waiting for good.                      *)
MutexIsReleased ==
  \A t \in Threads : <>[](t \in m_mutex) => <>[]KeptWaiting(t)
=============================================================================
