------------------------------ MODULE SensorBus ------------------------------
(***************************************************************************)
(* The serial line of the sensors.  The client's collector reads sensors,  *)
(* and a console gives a sensor its address; both open the same device,    *)
(* nobody locks it, and what the sensors answer lands in one input queue.  *)
(* An answer is taken for what the reader expects: the collector looks     *)
(* neither at the address nor at the checksum of what it reads, the        *)
(* console compares the echo of its request.                               *)
(*                                                                         *)
(* An answer comes in chunks of about eight bytes: one for the echo of a   *)
(* change of address, two for data.  Checksums are in Crc.                 *)
(***************************************************************************)
EXTENDS Naturals, Sequences, SequencesExt

CONSTANTS
  Devices,     \* sensors on the line
  MaxAddr,     \* max_addr
  LineLimit    \* bound: chunks that are under way or unread

ASSUME BusAssumption == MaxAddr \in 0 .. 255 /\ LineLimit \in Nat

Users == {"collector", "console"}
Other(u) == IF u = "collector" THEN "console" ELSE "collector"

Addrs == 0 .. MaxAddr

(* A change of address names the new one; a request for data the sensor    *)
(* whose data it is to be reported as.                                     *)
Request(kind, addr, to) == [kind |-> kind, addr |-> addr, to |-> to]
Requests == [kind : {"read", "move"}, addr : Addrs, to : Addrs]
NoRequest == Request("none", 0, 0)

VARIABLES
  at,         \* the address of each sensor
  wire, rx,   \* chunks under way, and in the input queue
  pc, req,    \* where a user is in its request, and the request
  result,     \* what the last call of each user came to: the chunks read,
              \* and whether set_addr returned
  clean,      \* history: the line was quiet when the user sent its request,
              \* at most one sensor answered, nothing was lost, and nobody
              \* else used the line since
  sure, at0   \* history: all requests of the set_addr that runs were clean,
              \* heard and answered in time; the addresses when it began

lineVars == <<wire, rx>>
vars == <<at, lineVars, pc, req, result, clean, sure, at0>>

Chunk(r, part) == [req |-> r, part |-> part]
Chunks == [req : Requests \cup {NoRequest}, part : 1 .. 2]

Count(r) == IF r.kind = "read" THEN 2 ELSE 1
Data(addr) == [i \in 1 .. 2 |-> Chunk(Request("read", addr, addr), i)]
Answer(r) == IF r.kind = "read" THEN Data(r.addr) ELSE <<Chunk(r, 1)>>
Noise == <<Chunk(NoRequest, 1)>>

TypeOK ==
  /\ at \in [Devices -> 0 .. MaxAddr + 1]
  /\ wire \in Seq(Chunks) /\ rx \in Seq(Chunks)
  /\ Len(wire \o rx) <= LineLimit
  /\ pc \in [Users -> {"idle", "next", "wait", "read"}]
  /\ req \in [Users -> Requests \cup {NoRequest}]
  /\ result.got \in Seq(Chunks) /\ Len(result.got) <= 2
  /\ result.of \in Requests \cup {NoRequest}
  /\ result.done \in {"none", "moved", "thrown"}
  /\ clean \in [Users -> BOOLEAN]
  /\ at0 \in [Devices -> 0 .. MaxAddr + 1]
  /\ sure \in BOOLEAN

Unknown == [d \in Devices |-> 0]
NoResult == [of |-> NoRequest, got |-> <<>>, done |-> "none"]

(* A sensor may have an address beyond max_addr.                           *)
Init ==
  /\ at \in [Devices -> 0 .. MaxAddr + 1]
  /\ wire = <<>> /\ rx = <<>>
  /\ pc = [u \in Users |-> "idle"]
  /\ req = [u \in Users |-> NoRequest]
  /\ result = NoResult
  /\ clean = [u \in Users |-> FALSE]
  /\ sure = FALSE /\ at0 = Unknown

-----------------------------------------------------------------------------
(* Uart::send, and the sensors that hear the request.  A sensor that is    *)
(* given an address takes it before it answers; two answers at once are    *)
(* noise.                                                                  *)

Owners(addr) == {d \in Devices : at[d] = addr}

Heard(r, ds) ==
  /\ at' = IF r.kind = "move"
           THEN [d \in Devices |-> IF d \in ds THEN r.to ELSE at[d]] ELSE at
  /\ wire' = wire \o CASE ds = {} -> <<>>
                       [] \E d \in ds : ds = {d} -> Answer(r)
                       [] OTHER -> Noise

Send(u, from, r) ==
  /\ pc[u] = from
  /\ pc' = [pc EXCEPT ![u] = "wait"]
  /\ req' = [req EXCEPT ![u] = r]
  /\ \E ds \in SUBSET Owners(r.addr) :
       /\ Heard(r, ds)
       /\ Len(wire' \o rx) <= LineLimit
       /\ clean' = [v \in Users |-> /\ v = u
                                    /\ rx \o wire = <<>>
                                    /\ pc[Other(u)] = "idle"
                                    /\ \A d, e \in ds : d = e]
       /\ sure' = (sure /\ clean'["console"] /\ ds = Owners(r.addr))
  /\ result' = NoResult
  /\ UNCHANGED rx

Deliver ==
  /\ wire # <<>>
  /\ rx' = Append(rx, Head(wire)) /\ wire' = Tail(wire)
  /\ UNCHANGED <<at, pc, req, result, clean, sure>>

Lose ==
  /\ wire # <<>>
  /\ wire' = Tail(wire)
  /\ clean' = [u \in Users |-> FALSE] /\ sure' = FALSE
  /\ UNCHANGED <<at, rx, pc, req, result>>

-----------------------------------------------------------------------------
(* Uart::receive: a wait for the first byte, a sleep for the rest, and one *)
(* read, which may find less than it asks for, or nothing.                 *)

Select(u) ==
  /\ pc[u] = "wait" /\ rx # <<>>
  /\ pc' = [pc EXCEPT ![u] = "read"]
  /\ UNCHANGED <<at, lineVars, req, result, clean, sure>>

(* What the caller makes of the chunks it got; none after a timeout.       *)
Collected(got) ==
  /\ pc' = [pc EXCEPT !["collector"] = "idle"]
  /\ result' = [of |-> req["collector"], got |-> got, done |-> "none"]
  /\ req' = [req EXCEPT !["collector"] = NoRequest]

(* change_addr compares the echo, set_addr goes on to the next address.    *)
TriedUpTo(last, got) ==
  LET r == req["console"]
      Ends(done) == /\ pc' = [pc EXCEPT !["console"] = "idle"]
                    /\ result' = [NoResult EXCEPT !.done = done]
                    /\ UNCHANGED req
  IN  IF IsPrefix(Answer(r), got) THEN Ends("moved")
      ELSE IF r.addr = last THEN Ends("thrown")
      ELSE /\ pc' = [pc EXCEPT !["console"] = "next"]
           /\ req' = [req EXCEPT !["console"].addr = @ + 1]
           /\ UNCHANGED result

TriedBeyond(got) == TriedUpTo(MaxAddr + 1, got)    \* mutants of Tried
TriedShort(got) == TriedUpTo(MaxAddr - 1, got)

Tried(got) == TriedUpTo(MaxAddr, got)

Received(u, got) == IF u = "collector" THEN Collected(got) ELSE Tried(got)

(* Mutant of Timeout: the wait has no end.                                 *)
WaitOn(u) == pc[u] = "wait" /\ rx = <<>> /\ UNCHANGED vars

Timeout(u) ==
  /\ pc[u] = "wait" /\ rx = <<>>
  /\ Received(u, <<>>)
  /\ sure' = (sure /\ wire = <<>>)
  /\ UNCHANGED <<at, lineVars, clean>>

Read(u) ==
  LET n == IF Count(req[u]) <= Len(rx) THEN Count(req[u]) ELSE Len(rx)
  IN  /\ pc[u] = "read"
      /\ Received(u, SubSeq(rx, 1, n))
      /\ rx' = SubSeq(rx, n + 1, Len(rx))
      /\ UNCHANGED <<at, wire, clean, sure>>

-----------------------------------------------------------------------------
(* Mutant of Collect: the frame keeps the address it was declared with.    *)
CollectUnaddressed(addr) == Send("collector", "idle", Request("read", 1, addr))

(* collect_air_data, collect_soil_data for an address of the cache.        *)
Collect(addr) == Send("collector", "idle", Request("read", addr, addr))

(* set_addr: opening the port throws away what is unread.                  *)
SetAddr(dst) ==
  /\ pc["console"] = "idle"
  /\ pc' = [pc EXCEPT !["console"] = "next"]
  /\ req' = [req EXCEPT !["console"] = Request("move", 0, dst)]
  /\ rx' = <<>>
  /\ clean' = [u \in Users |-> FALSE]
  /\ sure' = TRUE
  /\ UNCHANGED <<at, wire, result>>

ChangeAddr == Send("console", "next", req["console"])

UserStep(u) == Select(u) \/ Timeout(u) \/ Read(u)

Remember ==
  at0' = IF pc'["console"] = "idle" \/ ~sure' THEN Unknown
         ELSE IF pc["console"] = "idle" THEN at ELSE at0

Next ==
  /\ \/ \E addr \in Addrs : Collect(addr) \/ SetAddr(addr)
     \/ ChangeAddr
     \/ Deliver \/ Lose
     \/ \E u \in Users : UserStep(u)
  /\ Remember

Spec == Init /\ [][Next]_vars

(* The select has a timeout, so a user goes on whatever the line does.     *)
Fairness ==
  /\ \A u \in Users : WF_vars(UserStep(u) /\ Remember)
  /\ WF_vars(ChangeAddr /\ Remember)

FairSpec == Spec /\ Fairness

-----------------------------------------------------------------------------
(* What the collector reports of a sensor is the beginning of that         *)
(* sensor's own answer to this very request, if the line was quiet when it *)
(* asked, no two sensors answered, nothing was lost and no console used    *)
(* the line: neither a short read nor a timeout makes it report another's. *)
ReportIsCurrent ==
  result.of # NoRequest /\ clean["collector"] =>
    IsPrefix(result.got, Data(result.of.to))

(* A set_addr whose requests were all heard and answered in time moves one *)
(* sensor, the one with the lowest address, and says so; it throws only if *)
(* no sensor has an address up to max_addr.                                *)
SetAddrMovesLowest ==
  [][LET InReach == {d \in Devices : at0[d] <= MaxAddr}
     IN  sure' /\ pc["console"] # "idle" /\ pc'["console"] = "idle" =>
           /\ result'.done = "thrown" <=> InReach = {}
           /\ InReach # {} =>
                \E d \in InReach :
                  /\ \A e \in InReach : at0[d] <= at0[e]
                  /\ at' = [at0 EXCEPT ![d] = req["console"].to]]_vars

(* Neither the collector, which shares its thread with everything else the *)
(* client does, nor a console stays in a call, whoever takes its answers.  *)
CallsEnd == \A u \in Users : pc[u] # "idle" ~> pc[u] = "idle"
=============================================================================
