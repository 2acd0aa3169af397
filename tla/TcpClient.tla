------------------------------ MODULE TcpClient ------------------------------
(***************************************************************************)
(* smfcpp::tcp::Client: one connection to the server, looked after by a    *)
(* recver, a heart timer, a keep-alive timer and the application's own     *)
(* sends; a send or a payload that finds the client not connected closes   *)
(* the socket and connects again, within the callback that needed it.      *)
(*                                                                         *)
(* Two threads run this code: the listener thread of m_recver (select with *)
(* a timeout) and the executor's worker, which runs every callback.  So    *)
(* m_mutex, taken only by callbacks, is never contended and is left out.   *)
(* That the check function and the recver's callback do not overlap is     *)
(* taken from EventChannel, as in TcpServer.                               *)
(*                                                                         *)
(* A connection has a name; the descriptor's number is the same for all of *)
(* them, for socket() hands out the number that close() has just freed.  A *)
(* payload is as long as a head, so that what is read from a stream begins *)
(* where a head or a payload begins.  TCP delivers it in pieces: recvn has *)
(* part of it and waits for the rest, as select() reports the first byte.  *)
(***************************************************************************)
EXTENDS Naturals, Sequences, FiniteSets, FiniteSetsExt

CONSTANTS
  MaxHearts,       \* MAX_HEARTS
  MaxReconnects,   \* m_max_reconnects
  InboxLimit       \* bound: frame parts under way from the server

ASSUME ClientBoundAssumption ==
  MaxHearts \in Nat /\ MaxReconnects \in Nat \ {0} /\ InboxLimit \in Nat \ {0}

(* The names in use at a time: the current connection, one that select()   *)
(* still looks at, and the one the pending head came from.                 *)
Connections == 1 .. 3
None == 0          \* a socket that is closed or was never connected

VARIABLES
  m_is_connected, m_hearts,
  conn,          \* the connection of m_socket_fd
  served,        \* m_recver and the timers were created before spin()
                 \* and so have their threads
  phase, polled, \* the EventChannel of m_recver, or "none" before it exists;
                 \* the connection select() was called for
  pc, after,     \* the worker; where connect_ensure returns to
  tries,         \* the loop of connect_ensure
  headFrom,      \* history: where the head of the pending payload came from
  headLost,      \* history: m_is_connected was false when it was read
  missed,        \* history: sweeps since a heart was read or a connection made
  up,            \* the server accepts connections
  link, inbox,   \* the server's end of each connection, what it has sent
  owing,         \* the server has sent a head whose payload is to come
  partly,        \* part of the next head or payload has arrived, not all
  full           \* the server reads nothing: the socket takes no more

clientVars == <<m_is_connected, m_hearts, conn, missed>>
recverVars == <<phase, polled>>
workerVars == <<pc, after, tries, headFrom, headLost>>
linkVars == <<link, inbox, owing, partly, full>>
vars == <<clientVars, served, recverVars, workerVars, up, linkVars>>

Parts == {"heart", "head", "body", "junk"}

LinkStates == {"open",
               "closed",   \* the server closed: recv() delivers the end of file
               "reset",    \* the connection broke
               "broken"}   \* the same, after the server had closed

WorkerPC == {"idle",
             "head", "body",              \* the recver's callback, recv_data
             "ensure", "connect",         \* connect_ensure
             "heart",                     \* send_heart
             "send_head", "send_body",    \* send_data
             "dead"}                      \* killed by SIGPIPE

(* The counts stay in their ranges: hearts are never counted below zero,   *)
(* and connect_ensure never tries more often than it may.                  *)
TypeOK ==
  /\ m_is_connected \in BOOLEAN
  /\ m_hearts \in 0 .. MaxHearts
  /\ conn \in Connections \cup {None}
  /\ served \in BOOLEAN
  /\ phase \in {"none", "rest", "watching", "event", "handling"}
  /\ polled \in Connections \cup {None}
  /\ pc \in WorkerPC
  /\ after \in {"body", "heart", "send_head"}
  /\ tries \in 0 .. MaxReconnects
  /\ headFrom \in Connections \cup {None}
  /\ headLost \in BOOLEAN
  /\ missed \in 0 .. MaxHearts + 1
  /\ up \in BOOLEAN
  /\ link \in [Connections -> LinkStates]
  /\ inbox \in [Connections -> Seq(Parts)]
  /\ owing \in [Connections -> BOOLEAN]
  /\ partly \in [Connections -> BOOLEAN]
  /\ full \in BOOLEAN

(* The flag m_ready of a recver is not initialised: one that is born with  *)
(* the flag up gets its callback before its check function has run.        *)
BornIn == {"rest", "event"}

(* main() has called connect_to_server once, added the node and is about   *)
(* to spin.  If that call failed, m_recver and the two timers do not exist *)
(* yet; created later they are not started (see Executor), while the       *)
(* application's timer is.                                                 *)
Init ==
  /\ served \in BOOLEAN
  /\ m_is_connected = served
  /\ conn = IF served THEN 1 ELSE None
  /\ m_hearts = MaxHearts
  /\ phase \in (IF served THEN BornIn ELSE {"none"}) /\ polled = None
  /\ pc = "idle" /\ after = "heart" /\ tries = 0
  /\ headFrom = None /\ headLost = FALSE /\ missed = 0
  /\ up = served
  /\ link = [c \in Connections |-> "open"]
  /\ inbox = [c \in Connections |-> <<>>]
  /\ owing = [c \in Connections |-> FALSE]
  /\ partly = [c \in Connections |-> FALSE]
  /\ full = FALSE

-----------------------------------------------------------------------------
(* The server and the network.                                             *)

(* select() keeps the connection it looks at, although it was closed.      *)
Held == ({conn} \cup (IF phase = "watching" THEN {polled} ELSE {})) \ {None}

ServerComesOrGoes ==
  /\ up' = ~up
  /\ UNCHANGED <<clientVars, served, recverVars, workerVars, linkVars>>

(* The whole of a head or a payload has arrived, or its first bytes have   *)
(* (bytes behind what is still unread show only once that has been read).  *)
ServerSends(c, part) ==
  /\ c \in Held /\ link[c] = "open"
  /\ Len(inbox[c]) < InboxLimit
  /\ owing[c] <=> part = "body"
  /\ inbox' = [inbox EXCEPT ![c] = Append(@, part)]
  /\ owing' = [owing EXCEPT ![c] = (part = "head")]
  /\ partly' = [partly EXCEPT ![c] = FALSE]
  /\ UNCHANGED <<clientVars, served, recverVars, workerVars, up, link, full>>

ServerSendsSome(c) ==
  /\ c \in Held /\ link[c] = "open"
  /\ inbox[c] = <<>> /\ ~partly[c]
  /\ partly' = [partly EXCEPT ![c] = TRUE]
  /\ UNCHANGED <<clientVars, served, recverVars, workerVars, up, link, inbox,
                 owing, full>>

(* The server stops reading until no more fits in, or reads again.         *)
ServerStallsOrReads ==
  /\ conn # None /\ link[conn] = "open"
  /\ full' = ~full
  /\ UNCHANGED <<clientVars, served, recverVars, workerVars, up, link, inbox,
                 owing, partly>>

ServerCloses(c) ==
  /\ c \in Held /\ link[c] = "open"
  /\ link' = [link EXCEPT ![c] = "closed"]
  /\ UNCHANGED <<clientVars, served, recverVars, workerVars, up, inbox, owing,
                 partly, full>>

LinkBreaks(c) ==
  /\ c \in Held /\ link[c] \in {"open", "closed"}
  /\ link' = [link EXCEPT ![c] = IF @ = "closed" THEN "broken" ELSE "reset"]
  /\ inbox' = [inbox EXCEPT ![c] = <<>>]
  /\ partly' = [partly EXCEPT ![c] = FALSE]
  /\ UNCHANGED <<clientVars, served, recverVars, workerVars, up, owing, full>>

(* A connection that nobody holds any more is gone; its name is free.      *)
Forget(c) ==
  IF c = None THEN UNCHANGED linkVars
  ELSE /\ link' = [link EXCEPT ![c] = "open"]
       /\ inbox' = [inbox EXCEPT ![c] = <<>>]
       /\ owing' = [owing EXCEPT ![c] = FALSE]
       /\ partly' = [partly EXCEPT ![c] = FALSE]
       /\ full' = (full /\ c # conn)

Readable(c) == c # None => inbox[c] # <<>> \/ partly[c] \/ link[c] # "open"

-----------------------------------------------------------------------------
(* The check function, in the listener thread.                             *)

CallSelect ==
  /\ served
  /\ phase = "rest"
  /\ phase' = "watching"
  /\ polled' = conn
  /\ UNCHANGED <<clientVars, served, workerVars, up, linkVars>>

(* Mutant of SelectReturns: a timeout counts as an event.                  *)
SelectReturnsAnyway ==
  /\ phase = "watching"
  /\ phase' = "event"
  /\ IF polled = conn THEN UNCHANGED linkVars ELSE Forget(polled)
  /\ UNCHANGED <<polled, clientVars, served, workerVars, up>>

(* A socket that is not connected is reported, too: its state is a hangup. *)
SelectReturns ==
  /\ phase = "watching"
  /\ Readable(polled)
  /\ phase' = "event"
  /\ IF polled = conn THEN UNCHANGED linkVars ELSE Forget(polled)
  /\ UNCHANGED <<polled, clientVars, served, workerVars, up>>

(* The timeout, or EBADF after the worker closed the descriptor.           *)
SelectFails ==
  /\ phase = "watching"
  /\ phase' = "rest"
  /\ polled' = None
  /\ IF polled = conn THEN UNCHANGED linkVars ELSE Forget(polled)
  /\ UNCHANGED <<clientVars, served, workerVars, up>>

-----------------------------------------------------------------------------
(* connect_ensure and connect_to_server, for the caller that goes on at    *)
(* next when the client is connected.                                      *)

(* Mutant of CallEnsure: the loop goes on counting from the last time.     *)
CallEnsureAgain(next) ==
  /\ pc' = "ensure"
  /\ after' = next
  /\ UNCHANGED tries

CallEnsure(next) ==
  /\ pc' = "ensure"
  /\ after' = next
  /\ tries' = 0

(* Mutant of EnsureConnected: an open socket counts as connected.          *)
EnsureOpen ==
  /\ pc = "ensure" /\ conn # None
  /\ pc' = after
  /\ UNCHANGED <<clientVars, served, recverVars,
                 after, tries, headFrom, headLost, up, linkVars>>

EnsureConnected ==
  /\ pc = "ensure" /\ m_is_connected
  /\ pc' = after
  /\ UNCHANGED <<clientVars, served, recverVars,
                 after, tries, headFrom, headLost, up, linkVars>>

(* The callback that needed the connection returns, the recver's with it.  *)
Finish ==
  /\ pc' = "idle"
  /\ headFrom' = None
  /\ headLost' = FALSE
  /\ IF phase = "handling" THEN phase' = "rest" /\ polled' = None
                            ELSE UNCHANGED recverVars
  /\ UNCHANGED after

(* All tries were in vain; recv_data's caller clears m_is_connected again. *)
EnsureFails ==
  /\ pc = "ensure" /\ ~m_is_connected /\ tries = MaxReconnects
  /\ Finish
  /\ UNCHANGED <<clientVars, served, tries, up, linkVars>>

(* The old socket is closed, whatever its connection was.                  *)
CloseSocket ==
  /\ pc = "ensure" /\ ~m_is_connected /\ tries < MaxReconnects
  /\ pc' = "connect"
  /\ conn' = None
  /\ IF phase = "watching" /\ polled = conn
     THEN full' = FALSE /\ UNCHANGED <<link, inbox, owing, partly>>
     ELSE Forget(conn)
  /\ UNCHANGED <<m_is_connected, m_hearts, missed, served, recverVars,
                 after, tries, headFrom, headLost, up>>

Fresh == Min(Connections \ {polled, headFrom})

(* The first connection creates m_recver.                                  *)
Connect ==
  /\ pc = "connect" /\ up
  /\ pc' = after
  /\ conn' = Fresh
  /\ m_is_connected' = TRUE
  /\ m_hearts' = MaxHearts
  /\ missed' = 0
  /\ tries' = 0
  /\ phase' \in (IF phase = "none" THEN BornIn ELSE {phase})
  /\ UNCHANGED <<served, polled, after, headFrom, headLost, up, linkVars>>

(* connect() fails; the loop sleeps and tries again.                       *)
ConnectFails ==
  /\ pc = "connect" /\ ~up
  /\ pc' = "ensure"
  /\ tries' = tries + 1
  /\ UNCHANGED <<clientVars, served, recverVars,
                 after, headFrom, headLost, up, linkVars>>

-----------------------------------------------------------------------------
(* The recver's callback.                                                  *)

TakeEvent ==
  /\ pc = "idle" /\ phase = "event"
  /\ pc' = "head"
  /\ phase' = "handling"
  /\ UNCHANGED <<polled, clientVars, served, after, tries, headFrom, headLost,
                 up, linkVars>>

(* recvn blocks while the server is there and has not sent all of it.      *)
Received(part) ==
  /\ conn # None
  /\ inbox[conn] # <<>> /\ Head(inbox[conn]) = part
  /\ inbox' = [inbox EXCEPT ![conn] = Tail(@)]
  /\ UNCHANGED <<link, owing, partly, full>>

NothingToRead == conn # None => inbox[conn] = <<>> /\ link[conn] # "open"

(* A payload that is read as a head may look like a head of any type.      *)
HeadLooksLike(type) == Received(type) \/ Received("body")

RecvHeart ==
  /\ pc = "head" /\ HeadLooksLike("heart")
  /\ m_hearts' = MaxHearts
  /\ missed' = 0
  /\ Finish
  /\ UNCHANGED <<m_is_connected, conn, served, tries, up>>

(* A head of unknown type is read and the connection kept.                 *)
RecvJunk ==
  /\ pc = "head" /\ HeadLooksLike("junk")
  /\ Finish
  /\ UNCHANGED <<clientVars, served, tries, up>>

RecvHead ==
  /\ pc = "head" /\ HeadLooksLike("head")
  /\ headFrom' = conn
  /\ headLost' = ~m_is_connected
  /\ CallEnsure("body")
  /\ UNCHANGED <<clientVars, served, recverVars, up>>

(* The payload of the head is whatever the connection delivers next.       *)
RecvBody ==
  /\ pc = "body" /\ \E part \in Parts : Received(part)
  /\ Finish
  /\ UNCHANGED <<clientVars, served, tries, up>>

RecvFails ==
  /\ pc \in {"head", "body"} /\ NothingToRead
  /\ m_is_connected' = FALSE
  /\ Finish
  /\ UNCHANGED <<m_hearts, conn, missed, served, tries, up, linkVars>>

-----------------------------------------------------------------------------
(* send_heart, send_data and keep_alive.                                   *)

StartSendHeart ==
  /\ served
  /\ pc = "idle"
  /\ CallEnsure("heart")
  /\ UNCHANGED <<clientVars, served, recverVars, headFrom, headLost, up, linkVars>>

StartSendData ==
  /\ pc = "idle"
  /\ CallEnsure("send_head")
  /\ UNCHANGED <<clientVars, served, recverVars, headFrom, headLost, up, linkVars>>

Sending == pc \in {"heart", "send_head", "send_body"}

NoRoomIn(c) == c # None /\ full /\ link[c] = "open"

(* sendn blocks while there is no room.  The kernel still accepts a send   *)
(* to a server that has closed.                                            *)
Sent ==
  /\ Sending /\ link[conn] \in {"open", "closed"}
  /\ ~NoRoomIn(conn)
  /\ IF pc = "send_head"
     THEN pc' = "send_body" /\ UNCHANGED <<recverVars, after, headFrom, headLost>>
     ELSE Finish
  /\ UNCHANGED <<clientVars, served, tries, up, linkVars>>

SendFails ==
  /\ Sending /\ link[conn] = "reset"
  /\ m_is_connected' = FALSE
  /\ Finish
  /\ UNCHANGED <<m_hearts, conn, missed, served, tries, up, linkVars>>

(* send() with flags 0 on a connection that broke after the server's close *)
(* raises SIGPIPE, which nothing handles: the process ends.                *)
SendKills ==
  /\ Sending /\ link[conn] = "broken"
  /\ pc' = "dead"
  /\ UNCHANGED <<clientVars, served, recverVars,
                 after, tries, headFrom, headLost, up, linkVars>>

(* Mutants of KeepAlive: the count goes below zero; it is one short.       *)
KeepAliveOn ==
  /\ served
  /\ pc = "idle"
  /\ m_hearts' = m_hearts - 1
  /\ missed' = missed + 1
  /\ UNCHANGED <<m_is_connected, conn, served, recverVars, workerVars, up, linkVars>>

KeepAliveShort ==
  /\ served
  /\ pc = "idle"
  /\ IF m_hearts <= 1
     THEN m_is_connected' = FALSE /\ UNCHANGED <<m_hearts, missed>>
     ELSE m_hearts' = m_hearts - 1 /\ missed' = missed + 1 /\ UNCHANGED m_is_connected
  /\ UNCHANGED <<conn, served, recverVars, workerVars, up, linkVars>>

(* The socket of a connection that is given up stays open and watched.     *)
KeepAlive ==
  /\ served
  /\ pc = "idle"
  /\ IF m_hearts = 0
     THEN m_is_connected' = FALSE /\ UNCHANGED <<m_hearts, missed>>
     ELSE m_hearts' = m_hearts - 1 /\ missed' = missed + 1 /\ UNCHANGED m_is_connected
  /\ UNCHANGED <<conn, served, recverVars, workerVars, up, linkVars>>

-----------------------------------------------------------------------------
ServerStep ==
  \/ ServerComesOrGoes \/ ServerStallsOrReads
  \/ \E c \in Connections :
       \/ \E part \in Parts : ServerSends(c, part)
       \/ ServerSendsSome(c) \/ ServerCloses(c) \/ LinkBreaks(c)

ListenerStep == CallSelect \/ SelectReturns \/ SelectFails

CallbackStep ==
  \/ EnsureConnected \/ EnsureFails \/ CloseSocket \/ Connect \/ ConnectFails
  \/ RecvHeart \/ RecvJunk \/ RecvHead \/ RecvBody \/ RecvFails
  \/ Sent \/ SendFails \/ SendKills

Next ==
  \/ ServerStep
  \/ ListenerStep
  \/ TakeEvent \/ StartSendHeart \/ StartSendData \/ KeepAlive
  \/ CallbackStep

Spec == Init /\ [][Next]_vars

(* A callback that can go on does.  When the worker is idle again and      *)
(* again, so is its scan, which looks at the timers before the recvers and *)
(* at the application's timer, the older one, before that of the hearts:   *)
(* the latter gets its turn unless the former takes every scan, which it   *)
(* can only, its interval being seconds, by calls that collect and send.   *)
(* An application's timer that finds nothing to send is owed nothing, nor  *)
(* do the server and the listener thread owe anything.                     *)
Fairness ==
  /\ WF_vars(CallbackStep)
  /\ SF_vars(served /\ (StartSendHeart \/ StartSendData))

FairSpec == Spec /\ Fairness

-----------------------------------------------------------------------------
(* A payload is read from the connection its head came from, unless the    *)
(* head was read from a connection that had been given up or lost before:  *)
(* then, and only then, recv_data connects anew between the two, and reads *)
(* the payload from the new connection.                                    *)
PayloadOfHead ==
  pc = "body" => (headFrom = conn <=> ~headLost)

NothingFrom(c) == c # None /\ inbox[c] = <<>> /\ link[c] = "open"

(* The recv of a head waits only for the rest of a head that has begun to  *)
(* arrive, or on a connection that select() did not report: the worker has *)
(* connected anew between the select and the callback, or there was no     *)
(* select, for m_recver was born with its flag up.                         *)
HeadRecvWaitsForRestOrNewLink ==
  pc = "head" /\ NothingFrom(conn) => partly[conn] \/ polled # conn

WaitsForServer ==
  \/ pc \in {"head", "body"} /\ NothingFrom(conn)
  \/ Sending /\ NoRoomIn(conn)

(* While the server accepts connections the client is connected again and  *)
(* again, however often the connection is lost, unless the worker is stuck *)
(* in a recv() or send() or SIGPIPE ended the process.  A client that      *)
(* could not connect at first has neither recver nor timers: it connects   *)
(* as long as the application goes on sending.                             *)
ReconnectsUnlessBlocked ==
  <>[]up /\ (served \/ []<><<StartSendData>>_vars)
    => []<>m_is_connected \/ <>[]WaitsForServer \/ <>(pc = "dead")

(* The keep-alive sweep gives the connection up only after MaxHearts       *)
(* sweeps in a row in which no heart was read from it.                     *)
GivenUpOnlyWhenSilent ==
  [][pc = "idle" /\ m_is_connected /\ ~m_is_connected' => missed = MaxHearts]_vars
=============================================================================
