---------------------------- MODULE SensorBusProofs ----------------------------
(***************************************************************************)
(* Proofs about SensorBus for any number of sensors and any max_addr: what *)
(* the collector reports, and which sensor a set_addr moves.               *)
(***************************************************************************)
EXTENDS SensorBus, SequenceTheorems, TLAPS

-----------------------------------------------------------------------------
(* The invariant.                                                          *)

(* A user that is in a call asks for what its caller told it to.           *)
Asking ==
  /\ pc["collector"] \in {"wait", "read"} =>
       /\ req["collector"] \in Requests /\ req["collector"].kind = "read"
       /\ req["collector"].addr = req["collector"].to
  /\ pc["collector"] # "next"
  /\ pc["console"] # "idle" =>
       req["console"] \in Requests /\ req["console"].kind = "move"

(* What is on the line while a user's request is clean: nothing but its    *)
(* own answer.                                                             *)
OwnAnswer(u) == rx \o wire \in {<<>>, Answer(req[u])}

CollectorIsAlone ==
  clean["collector"] =>
    /\ pc["console"] = "idle"
    /\ pc["collector"] \in {"wait", "read"} => OwnAnswer("collector")

(* The sensor that was moved had the lowest address of all, and the answer *)
(* is on the line; if none was moved, none had the address that was tried. *)
MovedBy(r) ==
  \/ /\ at = at0 /\ rx \o wire = <<>>
     /\ \A d \in Devices : at0[d] # r.addr
  \/ /\ rx \o wire = <<Chunk(r, 1)>>
     /\ \E d \in Devices :
          at0[d] = r.addr /\ at = [at0 EXCEPT ![d] = r.to]

ConsoleIsAlone ==
  sure /\ pc["console"] # "idle" =>
    /\ \A d \in Devices : at0[d] >= req["console"].addr
    /\ pc["console"] = "next" => at = at0
    /\ pc["console"] \in {"wait", "read"} =>
         pc["collector"] = "idle" /\ MovedBy(req["console"])
    /\ pc["console"] = "read" => rx # <<>>

IInv == TypeOK /\ Asking /\ CollectorIsAlone /\ ReportIsCurrent /\ ConsoleIsAlone
-----------------------------------------------------------------------------
(* Types of the line, the answers and the requests.                        *)

(* Addresses are bytes.                                                    *)
LEMMA AddrFacts ==
  /\ MaxAddr \in Nat /\ LineLimit \in Nat
  /\ Addrs \subseteq Nat /\ Addrs \subseteq 0 .. MaxAddr + 1 /\ 0 \in Addrs
  /\ NoRequest \notin Requests
  /\ NoRequest = [kind |-> "none", addr |-> 0, to |-> 0]
BY BusAssumption DEF Addrs, Requests, NoRequest, Request

(* The answers are made of chunks; data take two, everything else one.     *)
LEMMA AnswerTyped ==
  ASSUME NEW r \in Requests
  PROVE  /\ Answer(r) \in Seq(Chunks) /\ Noise \in Seq(Chunks)
         /\ <<>> \in Seq(Chunks)
         /\ r.kind = "read" =>
              /\ Answer(r) = Data(r.addr) /\ Len(Answer(r)) = 2
         /\ r.kind = "move" =>
              /\ Answer(r) = <<Chunk(r, 1)>> /\ Len(Answer(r)) = 1
<1>1. /\ r.addr \in Addrs /\ r.to \in Addrs /\ r.kind \in {"read", "move"}
  BY DEF Requests
<1>2. NoRequest \in Requests \cup {NoRequest} /\ r \in Requests \cup {NoRequest}
  OBVIOUS
<1>3. \A q \in Requests \cup {NoRequest}, i \in 1 .. 2 : Chunk(q, i) \in Chunks
  BY DEF Chunk, Chunks
<1>4. 1 \in 1 .. 2  OBVIOUS
<1>5. <<Chunk(r, 1)>> \in Seq(Chunks) /\ Noise \in Seq(Chunks)
  <2>1. Chunk(r, 1) \in Chunks /\ Chunk(NoRequest, 1) \in Chunks
    BY <1>2, <1>3, <1>4
  <2>. QED  BY <2>1 DEF Noise
<1>6. Data(r.addr) \in Seq(Chunks) /\ Len(Data(r.addr)) = 2
  <2>. DEFINE q == Request("read", r.addr, r.addr)
  <2>1. q \in Requests  BY <1>1 DEF Request, Requests
  <2>2. Data(r.addr) = [i \in 1 .. 2 |-> Chunk(q, i)]  BY DEF Data
  <2>3. \A i \in 1 .. 2 : Chunk(q, i) \in Chunks  BY <1>3, <2>1
  <2>. HIDE DEF q
  <2>4. Data(r.addr) \in [1 .. 2 -> Chunks]  BY <2>2, <2>3
  <2>5. 2 \in Nat  OBVIOUS
  <2>6. Data(r.addr) \in Seq(Chunks)  BY <2>4, <2>5, SeqDef
  <2>7. Len(Data(r.addr)) \in Nat /\ DOMAIN Data(r.addr) = 1 .. Len(Data(r.addr))
    BY <2>6, LenProperties
  <2>8. DOMAIN Data(r.addr) = 1 .. 2  BY <2>2
  <2>9. Len(Data(r.addr)) = 2  BY <2>7, <2>8
  <2>. QED  BY <2>6, <2>9
<1>7. <<>> \in Seq(Chunks)  BY EmptySeq
<1>8. Len(<<Chunk(r, 1)>>) = 1  OBVIOUS
<1>. QED  BY <1>1, <1>5, <1>6, <1>7, <1>8 DEF Answer

LineTyped ==
  /\ wire \in Seq(Chunks) /\ rx \in Seq(Chunks)
  /\ Len(wire \o rx) <= LineLimit

(* The line's lengths.                                                     *)
LEMMA LineFacts ==
  ASSUME NEW w \in Seq(Chunks), NEW x \in Seq(Chunks)
  PROVE  /\ Len(w) \in Nat /\ Len(x) \in Nat
         /\ w \o x \in Seq(Chunks) /\ x \o w \in Seq(Chunks)
         /\ Len(w \o x) = Len(w) + Len(x) /\ Len(x \o w) = Len(w) + Len(x)
         /\ Len(w) = 0 <=> w = <<>>
         /\ x \o w = <<>> <=> x = <<>> /\ w = <<>>
         /\ x = <<>> => x \o w = w
         /\ w = <<>> => x \o w = x
         /\ \A i \in 1 .. Len(x) : (x \o w)[i] = x[i]
<1>1. Len(w) \in Nat /\ Len(x) \in Nat  BY LenProperties
<1>2. /\ w \o x \in Seq(Chunks) /\ x \o w \in Seq(Chunks)
      /\ Len(w \o x) = Len(w) + Len(x) /\ Len(x \o w) = Len(x) + Len(w)
  BY ConcatProperties
<1>3. Len(w) = 0 <=> w = <<>>  BY EmptySeq
<1>4. x \o w = <<>> <=> x = <<>> /\ w = <<>>  BY ConcatEqualIffEmpty
<1>5. (x = <<>> => x \o w = w) /\ (w = <<>> => x \o w = x)
  BY ConcatEmptySeq
<1>6. \A i \in 1 .. Len(x) : (x \o w)[i] = x[i]
  <2>1. \A i \in 1 .. Len(x) + Len(w) :
          (x \o w)[i] = IF i <= Len(x) THEN x[i] ELSE w[i - Len(x)]
    BY ConcatProperties
  <2>. QED  BY <1>1, <2>1
<1>. QED  BY <1>1, <1>2, <1>3, <1>4, <1>5, <1>6

(* A chunk arrives: the line as a whole stays as it is.                    *)
LEMMA DeliverKeepsLine ==
  ASSUME LineTyped, Deliver
  PROVE  LineTyped' /\ rx' \o wire' = rx \o wire /\ rx' # <<>>
<1>1. /\ wire # <<>> /\ rx' = Append(rx, Head(wire)) /\ wire' = Tail(wire)
  BY DEF Deliver
<1>2. /\ Head(wire) \in Chunks /\ Tail(wire) \in Seq(Chunks)
      /\ Len(Tail(wire)) = Len(wire) - 1
      /\ \A i \in 1 .. Len(Tail(wire)) : Tail(wire)[i] = wire[i + 1]
  BY <1>1, HeadTailProperties DEF LineTyped
<1>3. /\ rx' \in Seq(Chunks) /\ rx' # <<>> /\ rx' = rx \o <<Head(wire)>>
      /\ Len(rx') = Len(rx) + 1
  BY <1>1, <1>2, AppendProperties, AppendIsConcat DEF LineTyped
<1>4. <<Head(wire)>> \in Seq(Chunks)  BY <1>2
<1>5. <<Head(wire)>> \o Tail(wire) = wire
  <2>1. wire \in Seq(Chunks) /\ wire # <<>>  BY <1>1 DEF LineTyped
  <2>2. Len(wire) \in Nat /\ 1 \in 1 .. Len(wire) /\ Len(wire) \in 1 .. Len(wire)
    BY <2>1, EmptySeq
  <2>3. /\ SubSeq(wire, 1, Len(wire)) = wire
        /\ Tail(wire) = SubSeq(wire, 2, Len(wire))
    BY <2>1, SubSeqFull, TailIsSubSeq
  <2>4. Head(SubSeq(wire, 1, Len(wire))) = wire[1]
    BY <2>1, <2>2, HeadTailOfSubSeq
  <2>5. SubSeq(wire, 1, Len(wire)) = <<wire[1]>> \o SubSeq(wire, 1 + 1, Len(wire))
    BY <2>1, <2>2, SubSeqRecursiveFirst
  <2>. QED  BY <2>3, <2>4, <2>5
<1>6. rx' \o wire' = rx \o wire
  <2>1. (rx \o <<Head(wire)>>) \o Tail(wire) = rx \o (<<Head(wire)>> \o Tail(wire))
    BY <1>2, <1>4, ConcatAssociative DEF LineTyped
  <2>. QED  BY <1>1, <1>3, <1>5, <2>1
<1>7. Len(wire' \o rx') <= LineLimit
  <2>1. /\ Len(wire' \o rx') = Len(wire') + Len(rx')
        /\ Len(wire \o rx) = Len(wire) + Len(rx)
        /\ Len(wire) \in Nat /\ Len(rx) \in Nat
    BY <1>1, <1>2, <1>3, LineFacts DEF LineTyped
  <2>2. Len(wire' \o rx') = Len(wire \o rx)  BY <1>1, <1>2, <1>3, <2>1
  <2>. QED  BY <2>2 DEF LineTyped
<1>. QED  BY <1>1, <1>2, <1>3, <1>6, <1>7 DEF LineTyped
(* What is a prefix of what.                                               *)
LEMMA PrefixByElements ==
  ASSUME NEW g \in Seq(Chunks), NEW t \in Seq(Chunks), Len(g) <= Len(t),
         \A i \in 1 .. Len(g) : g[i] = t[i]
  PROVE  IsPrefix(g, t)
<1>1. Len(g) \in Nat /\ Len(t) \in Nat  BY LenProperties
<1>2. \A i \in 1 .. Len(g) : g[i] \in Chunks /\ t[i] \in Chunks
  BY <1>1, ElementOfSeq
<1>3. /\ SubSeq(t, 1, Len(g)) \in Seq(Chunks)
      /\ Len(SubSeq(t, 1, Len(g))) = IF 1 <= Len(g) THEN Len(g) - 1 + 1 ELSE 0
      /\ \A i \in 1 .. Len(g) - 1 + 1 : SubSeq(t, 1, Len(g))[i] = t[1 + i - 1]
  BY <1>1, <1>2, SubSeqProperties
<1>4. Len(SubSeq(t, 1, Len(g))) = Len(g)  BY <1>1, <1>3
<1>5. \A i \in 1 .. Len(g) : SubSeq(t, 1, Len(g))[i] = g[i]
  <2>. SUFFICES ASSUME NEW i \in 1 .. Len(g)
                PROVE  SubSeq(t, 1, Len(g))[i] = g[i]
    OBVIOUS
  <2>1. i \in 1 .. Len(g) - 1 + 1 /\ 1 + i - 1 = i  BY <1>1
  <2>2. SubSeq(t, 1, Len(g))[i] = t[1 + i - 1]  BY <1>3, <2>1
  <2>. QED  BY <2>1, <2>2
<1>6. SubSeq(t, 1, Len(g)) = g  BY <1>3, <1>4, <1>5, SeqEqual
<1>7. SubSeq(g, 1, Len(g)) = g  BY SubSeqFull
<1>. QED  BY <1>6, <1>7 DEF IsPrefix

(* Uart::receive takes the beginning of the input queue.                   *)
LEMMA TakenFacts ==
  ASSUME NEW x \in Seq(Chunks), NEW n \in 0 .. Len(x)
  PROVE  /\ SubSeq(x, 1, n) \in Seq(Chunks) /\ Len(SubSeq(x, 1, n)) = n
         /\ \A i \in 1 .. n : SubSeq(x, 1, n)[i] = x[i]
         /\ SubSeq(x, n + 1, Len(x)) \in Seq(Chunks)
         /\ Len(SubSeq(x, n + 1, Len(x))) = Len(x) - n
<1>1. Len(x) \in Nat /\ n \in Nat /\ n <= Len(x) /\ 1 \in Int /\ n + 1 \in Int
  BY LenProperties
<1>2. \A i \in 1 .. Len(x) : x[i] \in Chunks  BY ElementOfSeq
<1>3. /\ \A i \in 1 .. n : x[i] \in Chunks
      /\ \A i \in n + 1 .. Len(x) : x[i] \in Chunks
  BY <1>1, <1>2
<1>4. /\ SubSeq(x, 1, n) \in Seq(Chunks)
      /\ Len(SubSeq(x, 1, n)) = IF 1 <= n THEN n - 1 + 1 ELSE 0
      /\ \A i \in 1 .. n - 1 + 1 : SubSeq(x, 1, n)[i] = x[1 + i - 1]
  BY <1>1, <1>3, SubSeqProperties
<1>5. /\ SubSeq(x, n + 1, Len(x)) \in Seq(Chunks)
      /\ Len(SubSeq(x, n + 1, Len(x)))
           = IF n + 1 <= Len(x) THEN Len(x) - (n + 1) + 1 ELSE 0
  BY <1>1, <1>3, SubSeqProperties
<1>6. \A i \in 1 .. n : SubSeq(x, 1, n)[i] = x[i]
  <2>. SUFFICES ASSUME NEW i \in 1 .. n  PROVE SubSeq(x, 1, n)[i] = x[i]
    OBVIOUS
  <2>1. i \in 1 .. n - 1 + 1 /\ 1 + i - 1 = i  BY <1>1
  <2>2. SubSeq(x, 1, n)[i] = x[1 + i - 1]  BY <1>4, <2>1
  <2>. QED  BY <2>1, <2>2
<1>. QED  BY <1>1, <1>4, <1>5, <1>6

(* What the set_addr remembers when a step leaves it sure.                 *)
LEMMA RememberFacts ==
  ASSUME TypeOK, at' \in [Devices -> 0 .. MaxAddr + 1], Remember
  PROVE  /\ at0' \in [Devices -> 0 .. MaxAddr + 1]
         /\ sure' /\ pc'["console"] # "idle" =>
              at0' = IF pc["console"] = "idle" THEN at ELSE at0
<1>1. Unknown \in [Devices -> 0 .. MaxAddr + 1]
  <2>1. 0 \in 0 .. MaxAddr + 1  BY AddrFacts
  <2>. QED  BY <2>1 DEF Unknown
<1>2. /\ at \in [Devices -> 0 .. MaxAddr + 1]
      /\ at0 \in [Devices -> 0 .. MaxAddr + 1]
  BY DEF TypeOK
<1>3. CASE pc'["console"] = "idle" \/ ~sure'
  <2>1. at0' = Unknown  BY <1>3 DEF Remember
  <2>. QED  BY <1>1, <1>3, <2>1
<1>4. CASE ~(pc'["console"] = "idle" \/ ~sure') /\ pc["console"] = "idle"
  <2>1. at0' = at  BY <1>4 DEF Remember
  <2>. QED  BY <1>2, <1>4, <2>1
<1>5. CASE ~(pc'["console"] = "idle" \/ ~sure') /\ pc["console"] # "idle"
  <2>1. at0' = at0  BY <1>5 DEF Remember
  <2>. QED  BY <1>2, <1>5, <2>1
<1>. QED  BY <1>3, <1>4, <1>5

-----------------------------------------------------------------------------
(* A request is sent.                                                      *)

(* What the sensors put on the line when ds have heard a request.          *)
LEMMA HeardFacts ==
  ASSUME NEW r \in Requests, NEW ds \in SUBSET Devices,
         at \in [Devices -> 0 .. MaxAddr + 1], wire \in Seq(Chunks),
         Heard(r, ds)
  PROVE  /\ at' \in [Devices -> 0 .. MaxAddr + 1]
         /\ ds = {} => at' = at
         /\ \A d \in Devices : ds = {d} /\ r.kind = "move" =>
                                 at' = [at EXCEPT ![d] = r.to]
         /\ \E ans \in Seq(Chunks) :
              /\ wire' = wire \o ans
              /\ ds = {} => ans = <<>>
              /\ \A d \in Devices : ds = {d} => ans = Answer(r)
<1>1. r.to \in 0 .. MaxAddr + 1  BY AddrFacts DEF Requests
<1>2. at' = IF r.kind = "move"
            THEN [d \in Devices |-> IF d \in ds THEN r.to ELSE at[d]] ELSE at
  BY DEF Heard
<1>3. at' \in [Devices -> 0 .. MaxAddr + 1]  BY <1>1, <1>2
<1>4. ds = {} => at' = at  BY <1>2
<1>5. \A d \in Devices : ds = {d} /\ r.kind = "move" => at' = [at EXCEPT ![d] = r.to]
  BY <1>2
<1>6. \E ans \in Seq(Chunks) :
        /\ wire' = wire \o ans
        /\ ds = {} => ans = <<>>
        /\ \A d \in Devices : ds = {d} => ans = Answer(r)
  <2>1. Answer(r) \in Seq(Chunks) /\ Noise \in Seq(Chunks) /\ <<>> \in Seq(Chunks)
    BY AnswerTyped
  <2>2. CASE ds = {}
    <3>1. wire' = wire \o <<>>  BY <2>2 DEF Heard
    <3>. QED  BY <2>1, <2>2, <3>1
  <2>3. CASE ds # {} /\ \E d \in ds : ds = {d}
    <3>1. wire' = wire \o Answer(r)  BY <2>3 DEF Heard
    <3>. QED  BY <2>1, <2>3, <3>1
  <2>4. CASE ds # {} /\ ~ \E d \in ds : ds = {d}
    <3>1. wire' = wire \o Noise  BY <2>4 DEF Heard
    <3>2. \A d \in Devices : ds # {d}  BY <2>4
    <3>. QED  BY <2>1, <2>4, <3>1, <3>2
  <2>. QED  BY <2>2, <2>3, <2>4
<1>. QED  BY <1>3, <1>4, <1>5, <1>6

(* The request of a user goes out: what becomes of the state, whoever      *)
(* hears it.  If it stays clean, at most one sensor has heard it.          *)
LEMMA SendFacts ==
  ASSUME TypeOK, NEW u \in Users, NEW from, NEW r \in Requests,
         Send(u, from, r), Remember
  PROVE  /\ TypeOK'
         /\ pc[u] = from /\ pc' = [pc EXCEPT ![u] = "wait"]
         /\ req' = [req EXCEPT ![u] = r]
         /\ result' = NoResult /\ rx' = rx
         /\ \A v \in Users : clean'[v] =>
              /\ v = u /\ rx \o wire = <<>> /\ pc[Other(u)] = "idle"
              /\ rx' \o wire' \in {<<>>, Answer(r)}
         /\ sure' =>
              /\ sure /\ clean'["console"]
              /\ \/ /\ Owners(r.addr) = {} /\ at' = at /\ rx' \o wire' = <<>>
                 \/ \E d \in Devices :
                      /\ at[d] = r.addr /\ rx' \o wire' = Answer(r)
                      /\ r.kind = "move" => at' = [at EXCEPT ![d] = r.to]
<1>. PICK ds \in SUBSET Owners(r.addr) :
       /\ Heard(r, ds)
       /\ Len(wire' \o rx) <= LineLimit
       /\ clean' = [v \in Users |-> /\ v = u
                                    /\ rx \o wire = <<>>
                                    /\ pc[Other(u)] = "idle"
                                    /\ \A d, e \in ds : d = e]
       /\ sure' = (sure /\ clean'["console"] /\ ds = Owners(r.addr))
  BY DEF Send
<1>1. /\ pc[u] = from /\ pc' = [pc EXCEPT ![u] = "wait"]
      /\ req' = [req EXCEPT ![u] = r]
      /\ result' = NoResult /\ rx' = rx
  BY DEF Send
<1>2. /\ at \in [Devices -> 0 .. MaxAddr + 1]
      /\ wire \in Seq(Chunks) /\ rx \in Seq(Chunks)
  BY DEF TypeOK
<1>3. ds \in SUBSET Devices  BY DEF Owners
<1>4. /\ at' \in [Devices -> 0 .. MaxAddr + 1]
      /\ ds = {} => at' = at
      /\ \A d \in Devices : ds = {d} /\ r.kind = "move" =>
                              at' = [at EXCEPT ![d] = r.to]
  BY <1>2, <1>3, HeardFacts
<1>. PICK ans \in Seq(Chunks) : /\ wire' = wire \o ans
                                /\ ds = {} => ans = <<>>
                                /\ \A d \in Devices : ds = {d} => ans = Answer(r)
  BY <1>2, <1>3, HeardFacts
<1>5. wire' \in Seq(Chunks)  BY <1>2, ConcatProperties
<1>6. ASSUME NEW v \in Users, clean'[v]
      PROVE  /\ v = u /\ rx \o wire = <<>> /\ pc[Other(u)] = "idle"
             /\ \A d, e \in ds : d = e
  BY <1>6
<1>7. rx \o wire = <<>> => rx' \o wire' = ans
  <2>. SUFFICES ASSUME rx \o wire = <<>>  PROVE rx' \o wire' = ans
    OBVIOUS
  <2>1. rx = <<>> /\ wire = <<>>  BY <1>2, LineFacts
  <2>2. <<>> \o ans = ans  BY ConcatEmptySeq
  <2>. QED  BY <1>1, <2>1, <2>2
<1>8. ASSUME \A d, e \in ds : d = e
      PROVE  ds = {} \/ \E d \in ds : ds = {d}
  BY <1>8
<1>9. ASSUME NEW v \in Users, clean'[v]
      PROVE  rx' \o wire' \in {<<>>, Answer(r)}
  <2>1. rx' \o wire' = ans  BY <1>6, <1>7, <1>9
  <2>2. ds = {} \/ \E d \in ds : ds = {d}  BY <1>6, <1>8, <1>9
  <2>. QED  BY <1>3, <2>1, <2>2
<1>10. ASSUME sure'
       PROVE  /\ sure /\ clean'["console"]
              /\ \/ /\ Owners(r.addr) = {} /\ at' = at /\ rx' \o wire' = <<>>
                 \/ \E d \in Devices :
                      /\ at[d] = r.addr /\ rx' \o wire' = Answer(r)
                      /\ r.kind = "move" => at' = [at EXCEPT ![d] = r.to]
  <2>1. sure /\ clean'["console"] /\ ds = Owners(r.addr)  BY <1>10
  <2>2. "console" \in Users  BY DEF Users
  <2>3. ds = {} \/ \E d \in ds : ds = {d}  BY <1>6, <1>8, <2>1, <2>2
  <2>4. rx' \o wire' = ans  BY <1>6, <1>7, <2>1, <2>2
  <2>5. CASE ds = {}  BY <1>4, <2>1, <2>4, <2>5
  <2>6. CASE \E d \in ds : ds = {d}
    <3>. PICK d \in ds : ds = {d}  BY <2>6
    <3>1. d \in Devices /\ at[d] = r.addr  BY DEF Owners
    <3>2. /\ rx' \o wire' = Answer(r)
          /\ r.kind = "move" => at' = [at EXCEPT ![d] = r.to]
      BY <1>4, <2>4, <3>1
    <3>. QED  BY <2>1, <3>1, <3>2
  <2>. QED  BY <2>3, <2>5, <2>6
<1>11. TypeOK'
  <2>1. pc' \in [Users -> {"idle", "next", "wait", "read"}]
    <3>1. pc \in [Users -> {"idle", "next", "wait", "read"}]  BY DEF TypeOK
    <3>. QED  BY <1>1, <3>1
  <2>2. req' \in [Users -> Requests \cup {NoRequest}]
    <3>1. req \in [Users -> Requests \cup {NoRequest}]  BY DEF TypeOK
    <3>. QED  BY <1>1, <3>1
  <2>3. clean' \in [Users -> BOOLEAN]  OBVIOUS
  <2>4. sure' \in BOOLEAN
    <3>1. (sure /\ clean'["console"] /\ ds = Owners(r.addr)) \in BOOLEAN  OBVIOUS
    <3>. QED  BY <3>1
  <2>5. at0' \in [Devices -> 0 .. MaxAddr + 1]  BY <1>4, RememberFacts
  <2>6. /\ result'.got \in Seq(Chunks) /\ Len(result'.got) <= 2
        /\ result'.of \in Requests \cup {NoRequest}
        /\ result'.done \in {"none", "moved", "thrown"}
    <3>1. result'.got = <<>> /\ result'.of = NoRequest /\ result'.done = "none"
      BY <1>1 DEF NoResult
    <3>2. <<>> \in Seq(Chunks) /\ Len(<<>>) = 0  BY EmptySeq
    <3>. QED  BY <3>1, <3>2
  <2>7. Len(wire' \o rx') <= LineLimit  BY <1>1
  <2>. QED  BY <1>1, <1>2, <1>4, <1>5, <2>1, <2>2, <2>3, <2>4, <2>5, <2>6, <2>7
            DEF TypeOK
<1>. QED  BY <1>1, <1>6, <1>9, <1>10, <1>11
-----------------------------------------------------------------------------
(* A user has waited, and read what there was.                             *)

(* What a reader takes; none after a timeout.                              *)
TakenBy(u) == SubSeq(rx, 1, IF Count(req[u]) <= Len(rx) THEN Count(req[u])
                            ELSE Len(rx))

(* Reading takes the beginning of the queue, at most as much as the answer *)
(* to the request has.                                                     *)
LEMMA ReadFacts ==
  ASSUME TypeOK, NEW u \in Users, Read(u)
  PROVE  /\ pc[u] = "read" /\ Received(u, TakenBy(u))
         /\ TakenBy(u) \in Seq(Chunks) /\ Len(TakenBy(u)) <= 2
         /\ Len(TakenBy(u)) = IF Count(req[u]) <= Len(rx) THEN Count(req[u])
                              ELSE Len(rx)
         /\ \A i \in 1 .. Len(TakenBy(u)) : i \in 1 .. Len(rx) /\ TakenBy(u)[i] = rx[i]
         /\ LineTyped'
         /\ UNCHANGED <<at, wire, clean, sure>>
<1>. DEFINE n == IF Count(req[u]) <= Len(rx) THEN Count(req[u]) ELSE Len(rx)
<1>1. /\ pc[u] = "read" /\ Received(u, SubSeq(rx, 1, n))
      /\ rx' = SubSeq(rx, n + 1, Len(rx))
      /\ UNCHANGED <<at, wire, clean, sure>>
  BY DEF Read
<1>2. rx \in Seq(Chunks) /\ wire \in Seq(Chunks) /\ Len(wire \o rx) <= LineLimit
  BY DEF TypeOK
<1>3. Len(rx) \in Nat /\ Len(wire) \in Nat  BY <1>2, LenProperties
<1>4. Count(req[u]) \in 1 .. 2  BY DEF Count
<1>5. n \in 0 .. Len(rx) /\ n <= 2  BY <1>3, <1>4
<1>. HIDE DEF n
<1>6. /\ SubSeq(rx, 1, n) \in Seq(Chunks) /\ Len(SubSeq(rx, 1, n)) = n
      /\ \A i \in 1 .. n : SubSeq(rx, 1, n)[i] = rx[i]
      /\ SubSeq(rx, n + 1, Len(rx)) \in Seq(Chunks)
      /\ Len(SubSeq(rx, n + 1, Len(rx))) = Len(rx) - n
  BY <1>2, <1>5, TakenFacts
<1>7. TakenBy(u) = SubSeq(rx, 1, n)  BY DEF TakenBy, n
<1>8. LineTyped'
  <2>1. wire' \in Seq(Chunks) /\ rx' \in Seq(Chunks) /\ Len(rx') = Len(rx) - n
    BY <1>1, <1>2, <1>6
  <2>2. /\ Len(wire' \o rx') = Len(wire') + Len(rx')
        /\ Len(wire \o rx) = Len(wire) + Len(rx)
    BY <1>2, <2>1, LineFacts
  <2>3. Len(wire' \o rx') <= Len(wire \o rx)
    BY <1>1, <1>3, <1>5, <2>1, <2>2
  <2>4. LineLimit \in Nat /\ Len(wire \o rx) \in Nat /\ Len(wire' \o rx') \in Nat
    BY <1>1, <1>3, <1>5, <2>1, <2>2, AddrFacts
  <2>. QED  BY <1>2, <2>1, <2>3, <2>4 DEF LineTyped
<1>9. \A i \in 1 .. n : i \in 1 .. Len(rx)  BY <1>3, <1>5
<1>. QED  BY <1>1, <1>5, <1>6, <1>7, <1>8, <1>9 DEF n

(* What a user makes of what it got keeps the types.                       *)
LEMMA ReceivedTyped ==
  ASSUME TypeOK, Asking, NEW u \in Users, pc[u] \in {"wait", "read"},
         NEW got \in Seq(Chunks), Len(got) <= 2, Received(u, got),
         UNCHANGED at, Remember, LineTyped', clean' = clean, sure' \in BOOLEAN
  PROVE  TypeOK'
<1>1. /\ pc \in [Users -> {"idle", "next", "wait", "read"}]
      /\ req \in [Users -> Requests \cup {NoRequest}]
      /\ at \in [Devices -> 0 .. MaxAddr + 1]
      /\ clean \in [Users -> BOOLEAN]
  BY DEF TypeOK
<1>2. at0' \in [Devices -> 0 .. MaxAddr + 1]  BY <1>1, RememberFacts
<1>3. /\ pc' \in [Users -> {"idle", "next", "wait", "read"}]
      /\ req' \in [Users -> Requests \cup {NoRequest}]
      /\ result'.got \in Seq(Chunks) /\ Len(result'.got) <= 2
      /\ result'.of \in Requests \cup {NoRequest}
      /\ result'.done \in {"none", "moved", "thrown"}
  <2>1. CASE u = "collector"
    <3>1. Collected(got)  BY <2>1 DEF Received
    <3>2. /\ pc' = [pc EXCEPT !["collector"] = "idle"]
          /\ req' = [req EXCEPT !["collector"] = NoRequest]
      BY <3>1 DEF Collected
    <3>3. result' = [of |-> req["collector"], got |-> got, done |-> "none"]
      BY <3>1 DEF Collected
    <3>4. result'.of = req["collector"] /\ result'.got = got /\ result'.done = "none"
      BY <3>3
    <3>5. req["collector"] \in Requests \cup {NoRequest}  BY <1>1 DEF Users
    <3>6. pc' \in [Users -> {"idle", "next", "wait", "read"}]  BY <1>1, <3>2
    <3>7. req' \in [Users -> Requests \cup {NoRequest}]  BY <1>1, <3>2
    <3>. QED  BY <3>4, <3>5, <3>6, <3>7
  <2>2. CASE u = "console"
    <3>1. Tried(got)  BY <2>2 DEF Received
    <3>2. req["console"] \in Requests  BY <2>2 DEF Asking
    <3>3. CASE /\ pc' = [pc EXCEPT !["console"] = "idle"] /\ UNCHANGED req
               /\ \E done \in {"moved", "thrown"} :
                    result' = [NoResult EXCEPT !.done = done]
      <4>. PICK done \in {"moved", "thrown"} :
             result' = [NoResult EXCEPT !.done = done]
        BY <3>3
      <4>1. result' = [of |-> NoRequest, got |-> <<>>, done |-> done]
        BY DEF NoResult
      <4>2. result'.of = NoRequest /\ result'.got = <<>> /\ result'.done = done
        BY <4>1
      <4>3. <<>> \in Seq(Chunks) /\ Len(<<>>) <= 2
        <5>1. <<>> \in Seq(Chunks) /\ Len(<<>>) = 0  BY EmptySeq
        <5>. QED  BY <5>1
      <4>4. pc' \in [Users -> {"idle", "next", "wait", "read"}]  BY <1>1, <3>3
      <4>5. req' \in [Users -> Requests \cup {NoRequest}]  BY <1>1, <3>3
      <4>6. result'.of \in Requests \cup {NoRequest}  BY <4>2
      <4>7. result'.done \in {"none", "moved", "thrown"}  BY <4>2
      <4>8. result'.got \in Seq(Chunks) /\ Len(result'.got) <= 2
        <5>1. result'.got = <<>>  BY <4>2
        <5>. QED  BY <4>3, <5>1
      <4>. QED  BY <4>4, <4>5, <4>6, <4>7, <4>8
    <3>4. CASE /\ req["console"].addr # MaxAddr
               /\ pc' = [pc EXCEPT !["console"] = "next"]
               /\ req' = [req EXCEPT !["console"].addr = @ + 1]
               /\ UNCHANGED result
      <4>1. /\ result.got \in Seq(Chunks) /\ Len(result.got) <= 2
            /\ result.of \in Requests \cup {NoRequest}
            /\ result.done \in {"none", "moved", "thrown"}
        BY DEF TypeOK
      <4>2. [req["console"] EXCEPT !.addr = @ + 1] \in Requests
        <5>1. req["console"].addr \in Addrs  BY <3>2 DEF Requests
        <5>2. req["console"].addr + 1 \in Addrs
          BY <3>4, <5>1, AddrFacts DEF Addrs
        <5>. QED  BY <3>2, <5>2 DEF Requests
      <4>3. req' = [req EXCEPT !["console"] = [req["console"] EXCEPT !.addr = @ + 1]]
        BY <3>4
      <4>4. req' \in [Users -> Requests \cup {NoRequest}]  BY <1>1, <4>2, <4>3
      <4>5. pc' \in [Users -> {"idle", "next", "wait", "read"}]  BY <1>1, <3>4
      <4>. QED  BY <3>4, <4>1, <4>4, <4>5
    <3>5. CASE IsPrefix(Answer(req["console"]), got)
      <4>1. /\ pc' = [pc EXCEPT !["console"] = "idle"] /\ UNCHANGED req
            /\ result' = [NoResult EXCEPT !.done = "moved"]
        BY <3>1, <3>5 DEF Tried, TriedUpTo
      <4>. QED  BY <3>3, <4>1
    <3>6. CASE ~IsPrefix(Answer(req["console"]), got) /\ req["console"].addr = MaxAddr
      <4>1. /\ pc' = [pc EXCEPT !["console"] = "idle"] /\ UNCHANGED req
            /\ result' = [NoResult EXCEPT !.done = "thrown"]
        BY <3>1, <3>6 DEF Tried, TriedUpTo
      <4>. QED  BY <3>3, <4>1
    <3>7. CASE ~IsPrefix(Answer(req["console"]), got) /\ req["console"].addr # MaxAddr
      <4>1. /\ pc' = [pc EXCEPT !["console"] = "next"]
            /\ req' = [req EXCEPT !["console"].addr = @ + 1]
            /\ UNCHANGED result
        BY <3>1, <3>7 DEF Tried, TriedUpTo
      <4>. QED  BY <3>4, <3>7, <4>1
    <3>. QED  BY <3>5, <3>6, <3>7
  <2>. QED  BY <2>1, <2>2 DEF Users
<1>. QED  BY <1>1, <1>2, <1>3 DEF TypeOK, LineTyped

(* What a set_addr makes of what it got: it ends or goes on with the next  *)
(* address.                                                                *)
LEMMA TriedFacts ==
  ASSUME TypeOK, Asking, pc["console"] # "idle", NEW got, Tried(got)
  PROVE  /\ pc'["collector"] = pc["collector"]
         /\ req'["collector"] = req["collector"]
         /\ pc'["console"] \in {"idle", "next"}
         /\ pc'["console"] = "idle" =>
              /\ req' = req
              /\ result'.of = NoRequest
              /\ \/ /\ IsPrefix(Answer(req["console"]), got)
                    /\ result'.done = "moved"
                 \/ /\ ~IsPrefix(Answer(req["console"]), got)
                    /\ req["console"].addr = MaxAddr
                    /\ result'.done = "thrown"
         /\ pc'["console"] = "next" =>
              /\ ~IsPrefix(Answer(req["console"]), got)
              /\ req'["console"] \in Requests
              /\ req'["console"].kind = "move"
              /\ req'["console"].addr = req["console"].addr + 1
              /\ result' = result
<1>1. /\ pc \in [Users -> {"idle", "next", "wait", "read"}]
      /\ req \in [Users -> Requests \cup {NoRequest}]
      /\ "console" \in Users /\ "collector" \in Users
  BY DEF TypeOK, Users
<1>2. req["console"] \in Requests /\ req["console"].kind = "move"
  BY DEF Asking
<1>3. CASE IsPrefix(Answer(req["console"]), got)
  <2>1. /\ pc' = [pc EXCEPT !["console"] = "idle"] /\ req' = req
        /\ result' = [NoResult EXCEPT !.done = "moved"]
    BY <1>3 DEF Tried, TriedUpTo
  <2>2. result' = [of |-> NoRequest, got |-> <<>>, done |-> "moved"]
    BY <2>1 DEF NoResult
  <2>3. result'.of = NoRequest /\ result'.done = "moved"  BY <2>2
  <2>. QED  BY <1>1, <1>3, <2>1, <2>3
<1>4. CASE ~IsPrefix(Answer(req["console"]), got) /\ req["console"].addr = MaxAddr
  <2>1. /\ pc' = [pc EXCEPT !["console"] = "idle"] /\ req' = req
        /\ result' = [NoResult EXCEPT !.done = "thrown"]
    BY <1>4 DEF Tried, TriedUpTo
  <2>2. result' = [of |-> NoRequest, got |-> <<>>, done |-> "thrown"]
    BY <2>1 DEF NoResult
  <2>3. result'.of = NoRequest /\ result'.done = "thrown"  BY <2>2
  <2>. QED  BY <1>1, <1>4, <2>1, <2>3
<1>5. CASE ~IsPrefix(Answer(req["console"]), got) /\ req["console"].addr # MaxAddr
  <2>1. /\ pc' = [pc EXCEPT !["console"] = "next"]
        /\ req' = [req EXCEPT !["console"].addr = @ + 1]
        /\ result' = result
    BY <1>5 DEF Tried, TriedUpTo
  <2>2. /\ req'["console"] = [req["console"] EXCEPT !.addr = @ + 1]
        /\ req'["collector"] = req["collector"]
    BY <1>1, <2>1
  <2>3. req["console"].addr + 1 \in Addrs
    <3>1. req["console"].addr \in Addrs  BY <1>2 DEF Requests
    <3>. QED  BY <1>5, <3>1, AddrFacts DEF Addrs
  <2>4. /\ req'["console"] \in Requests /\ req'["console"].kind = "move"
        /\ req'["console"].addr = req["console"].addr + 1
    BY <1>2, <2>2, <2>3 DEF Requests
  <2>. QED  BY <1>1, <1>5, <2>1, <2>2, <2>4
<1>. QED  BY <1>3, <1>4, <1>5
-----------------------------------------------------------------------------
(* The invariant holds.                                                    *)

(* The values of a state that has the invariant, user by user.             *)
LEMMA UserFacts ==
  ASSUME TypeOK
  PROVE  /\ "collector" \in Users /\ "console" \in Users
         /\ \A u \in Users : u = "collector" \/ u = "console"
         /\ DOMAIN pc = Users /\ DOMAIN req = Users
         /\ \A u \in Users : pc[u] \in {"idle", "next", "wait", "read"}
         /\ wire \in Seq(Chunks) /\ rx \in Seq(Chunks)
         /\ at \in [Devices -> 0 .. MaxAddr + 1]
         /\ at0 \in [Devices -> 0 .. MaxAddr + 1]
BY DEF TypeOK, Users

(* Everything is quiet at the start.                                       *)
LEMMA InitHolds ==
  ASSUME Init
  PROVE  IInv
<1>1. /\ "collector" \in Users /\ "console" \in Users  BY DEF Users
<1>2. /\ pc["collector"] = "idle" /\ pc["console"] = "idle"
      /\ ~clean["collector"] /\ sure = FALSE
  BY <1>1 DEF Init
<1>3. TypeOK
  <2>1. <<>> \in Seq(Chunks) /\ Len(<<>>) = 0 /\ <<>> \o <<>> = <<>>
    BY EmptySeq, ConcatEmptySeq
  <2>2. wire \in Seq(Chunks) /\ rx \in Seq(Chunks) /\ Len(wire \o rx) <= LineLimit
    BY <2>1, AddrFacts DEF Init
  <2>3. /\ pc \in [Users -> {"idle", "next", "wait", "read"}]
        /\ req \in [Users -> Requests \cup {NoRequest}]
        /\ clean \in [Users -> BOOLEAN]
    BY DEF Init
  <2>4. /\ result.got \in Seq(Chunks) /\ Len(result.got) <= 2
        /\ result.of \in Requests \cup {NoRequest}
        /\ result.done \in {"none", "moved", "thrown"}
    <3>1. result.got = <<>> /\ result.of = NoRequest /\ result.done = "none"
      BY DEF Init, NoResult
    <3>. QED  BY <2>1, <3>1
  <2>5. at0 \in [Devices -> 0 .. MaxAddr + 1]
    <3>1. 0 \in 0 .. MaxAddr + 1  BY AddrFacts
    <3>. QED  BY <3>1 DEF Init, Unknown
  <2>6. at \in [Devices -> 0 .. MaxAddr + 1] /\ sure \in BOOLEAN  BY DEF Init
  <2>. QED  BY <2>2, <2>3, <2>4, <2>5, <2>6 DEF TypeOK
<1>4. Asking  BY <1>2 DEF Asking
<1>5. CollectorIsAlone  BY <1>2 DEF CollectorIsAlone
<1>6. ReportIsCurrent  BY <1>2 DEF ReportIsCurrent
<1>7. ConsoleIsAlone  BY <1>2 DEF ConsoleIsAlone
<1>. QED  BY <1>3, <1>4, <1>5, <1>6, <1>7 DEF IInv

(* The collector asks: what is clean is its own request, and the console   *)
(* cannot be sure any more.                                                *)
LEMMA CollectKeeps ==
  ASSUME IInv, NEW addr \in Addrs, Collect(addr), Remember
  PROVE  IInv'
<1>. DEFINE r == Request("read", addr, addr)
<1>1. r \in Requests /\ r.kind = "read" /\ r.addr = addr /\ r.to = addr
  BY DEF Request, Requests
<1>. HIDE DEF r
<1>2. TypeOK /\ Asking  BY DEF IInv
<1>3. Send("collector", "idle", r)  BY DEF Collect, r
<1>4. /\ TypeOK'
      /\ pc["collector"] = "idle" /\ pc' = [pc EXCEPT !["collector"] = "wait"]
      /\ req' = [req EXCEPT !["collector"] = r]
      /\ result' = NoResult
      /\ \A v \in Users : clean'[v] =>
           /\ v = "collector" /\ pc[Other("collector")] = "idle"
           /\ rx' \o wire' \in {<<>>, Answer(r)}
      /\ sure' => clean'["console"]
  BY <1>1, <1>2, <1>3, SendFacts, UserFacts
<1>5. /\ pc'["collector"] = "wait" /\ pc'["console"] = pc["console"]
      /\ req'["collector"] = r /\ req'["console"] = req["console"]
      /\ ~sure'
  BY <1>2, <1>4, UserFacts
<1>6. Asking'  BY <1>1, <1>2, <1>5 DEF Asking
<1>7. CollectorIsAlone'
  BY <1>2, <1>4, <1>5, UserFacts DEF CollectorIsAlone, OwnAnswer, Other
<1>8. ReportIsCurrent'
  <2>1. result'.of = NoRequest  BY <1>4 DEF NoResult
  <2>. QED  BY <2>1 DEF ReportIsCurrent
<1>9. ConsoleIsAlone'  BY <1>5 DEF ConsoleIsAlone
<1>. QED  BY <1>4, <1>6, <1>7, <1>8, <1>9 DEF IInv

(* The console sends the request for the address it is at.                 *)
LEMMA ChangeAddrKeeps ==
  ASSUME IInv, ChangeAddr, Remember
  PROVE  IInv'
<1>1. TypeOK /\ Asking /\ ConsoleIsAlone  BY DEF IInv
<1>2. Send("console", "next", req["console"]) /\ pc["console"] = "next"
  BY DEF ChangeAddr, Send
<1>. PICK r \in Requests : r = req["console"] /\ r.kind = "move"
  BY <1>1, <1>2 DEF Asking
<1>3. Send("console", "next", r) /\ "console" \in Users
  BY <1>1, <1>2, UserFacts
<1>4. /\ TypeOK'
      /\ pc' = [pc EXCEPT !["console"] = "wait"]
      /\ req' = [req EXCEPT !["console"] = r]
      /\ result' = NoResult
      /\ \A v \in Users : clean'[v] =>
           /\ v = "console" /\ rx \o wire = <<>> /\ pc[Other("console")] = "idle"
           /\ rx' \o wire' \in {<<>>, Answer(r)}
      /\ sure' =>
           /\ sure /\ clean'["console"]
           /\ \/ /\ Owners(r.addr) = {} /\ at' = at /\ rx' \o wire' = <<>>
              \/ \E d \in Devices :
                   /\ at[d] = r.addr /\ rx' \o wire' = Answer(r)
                   /\ r.kind = "move" => at' = [at EXCEPT ![d] = r.to]
  BY <1>1, <1>3, SendFacts
<1>5. /\ pc'["console"] = "wait" /\ pc'["collector"] = pc["collector"]
      /\ req'["console"] = r /\ req'["collector"] = req["collector"]
      /\ ~clean'["collector"]
  BY <1>1, <1>4, UserFacts
<1>6. Asking'  BY <1>1, <1>3, <1>5 DEF Asking
<1>7. CollectorIsAlone'  BY <1>5 DEF CollectorIsAlone
<1>8. ReportIsCurrent'  BY <1>5 DEF ReportIsCurrent
<1>9. ConsoleIsAlone'
  <2>. SUFFICES ASSUME sure'
                PROVE  /\ \A d \in Devices : at0'[d] >= r.addr
                       /\ pc'["collector"] = "idle"
                       /\ MovedBy(r)'
    BY <1>5 DEF ConsoleIsAlone, MovedBy
  <2>1. /\ sure /\ clean'["console"]
        /\ at = at0 /\ \A d \in Devices : at0[d] >= r.addr
    BY <1>1, <1>2, <1>4 DEF ConsoleIsAlone
  <2>2. at0' = at0
    <3>1. at' \in [Devices -> 0 .. MaxAddr + 1]  BY <1>4 DEF TypeOK
    <3>. QED  BY <1>1, <1>2, <1>5, <3>1, RememberFacts
  <2>3. pc'["collector"] = "idle"  BY <1>1, <1>4, <1>5, <2>1, UserFacts DEF Other
  <2>4. CASE Owners(r.addr) = {} /\ at' = at /\ rx' \o wire' = <<>>
    <3>1. \A d \in Devices : at0'[d] # r.addr  BY <2>1, <2>2, <2>4 DEF Owners
    <3>2. MovedBy(r)'  BY <1>5, <2>1, <2>2, <2>4, <3>1 DEF MovedBy
    <3>. QED  BY <2>1, <2>2, <2>3, <3>2
  <2>5. CASE \E d \in Devices :
               /\ at[d] = r.addr /\ rx' \o wire' = Answer(r)
               /\ r.kind = "move" => at' = [at EXCEPT ![d] = r.to]
    <3>1. Answer(r) = <<Chunk(r, 1)>>  BY <1>3, AnswerTyped
    <3>2. MovedBy(r)'  BY <1>3, <1>5, <2>1, <2>2, <2>5, <3>1 DEF MovedBy
    <3>. QED  BY <2>1, <2>2, <2>3, <3>2
  <2>. QED  BY <1>4, <2>4, <2>5
<1>. QED  BY <1>4, <1>6, <1>7, <1>8, <1>9 DEF IInv

(* A set_addr begins: it remembers the addresses, and tries the first one. *)
LEMMA SetAddrKeeps ==
  ASSUME IInv, NEW dst \in Addrs, SetAddr(dst), Remember
  PROVE  IInv'
<1>1. TypeOK /\ Asking  BY DEF IInv
<1>2. /\ pc["console"] = "idle"
      /\ pc' = [pc EXCEPT !["console"] = "next"]
      /\ req' = [req EXCEPT !["console"] = Request("move", 0, dst)]
      /\ rx' = <<>>
      /\ clean' = [u \in Users |-> FALSE]
      /\ sure' = TRUE
      /\ at' = at /\ wire' = wire /\ result' = result
  BY DEF SetAddr
<1>3. /\ Request("move", 0, dst) \in Requests
      /\ Request("move", 0, dst).kind = "move" /\ Request("move", 0, dst).addr = 0
  BY AddrFacts DEF Request, Requests
<1>4. /\ pc'["console"] = "next" /\ pc'["collector"] = pc["collector"]
      /\ req'["console"] = Request("move", 0, dst)
      /\ req'["collector"] = req["collector"]
      /\ ~clean'["collector"]
  BY <1>1, <1>2, UserFacts
<1>5. at' \in [Devices -> 0 .. MaxAddr + 1]  BY <1>1, <1>2 DEF TypeOK
<1>6. at0' = at /\ at0' \in [Devices -> 0 .. MaxAddr + 1]
  BY <1>1, <1>2, <1>4, <1>5, RememberFacts
<1>7. TypeOK'
  <2>1. /\ pc' \in [Users -> {"idle", "next", "wait", "read"}]
        /\ req' \in [Users -> Requests \cup {NoRequest}]
        /\ clean' \in [Users -> BOOLEAN] /\ sure' \in BOOLEAN
    BY <1>1, <1>2, <1>3 DEF TypeOK
  <2>2. /\ wire' \in Seq(Chunks) /\ rx' \in Seq(Chunks)
        /\ Len(wire' \o rx') <= LineLimit
    <3>1. /\ wire \in Seq(Chunks) /\ rx \in Seq(Chunks)
          /\ Len(wire \o rx) <= LineLimit
      BY <1>1 DEF TypeOK
    <3>2. /\ Len(wire) \in Nat /\ Len(rx) \in Nat
          /\ Len(wire \o rx) = Len(wire) + Len(rx)
      BY <3>1, LineFacts
    <3>3. wire' \o rx' = wire  BY <1>2, <3>1, ConcatEmptySeq
    <3>4. rx' \in Seq(Chunks)  BY <1>2, EmptySeq
    <3>5. Len(wire) <= LineLimit  BY <3>1, <3>2, AddrFacts
    <3>. QED  BY <1>2, <3>1, <3>3, <3>4, <3>5
  <2>3. /\ result'.got \in Seq(Chunks) /\ Len(result'.got) <= 2
        /\ result'.of \in Requests \cup {NoRequest}
        /\ result'.done \in {"none", "moved", "thrown"}
    BY <1>1, <1>2 DEF TypeOK
  <2>. QED  BY <1>5, <1>6, <2>1, <2>2, <2>3 DEF TypeOK
<1>8. Asking'  BY <1>1, <1>3, <1>4 DEF Asking
<1>9. CollectorIsAlone'  BY <1>4 DEF CollectorIsAlone
<1>10. ReportIsCurrent'  BY <1>4 DEF ReportIsCurrent
<1>11. ConsoleIsAlone'
  <2>1. \A d \in Devices : at0'[d] >= 0  BY <1>6, AddrFacts
  <2>2. at' = at0'  BY <1>2, <1>6
  <2>3. req'["console"].addr = 0  BY <1>3, <1>4
  <2>. QED  BY <1>4, <2>1, <2>2, <2>3 DEF ConsoleIsAlone
<1>. QED  BY <1>7, <1>8, <1>9, <1>10, <1>11 DEF IInv
(* A chunk arrives: the line as a whole does not change.                   *)
LEMMA DeliverKeeps ==
  ASSUME IInv, Deliver, Remember
  PROVE  IInv'
<1>1. /\ TypeOK /\ Asking /\ CollectorIsAlone /\ ReportIsCurrent
      /\ ConsoleIsAlone
  BY DEF IInv
<1>2. UNCHANGED <<at, pc, req, result, clean, sure>>  BY DEF Deliver
<1>3. LineTyped' /\ rx' \o wire' = rx \o wire /\ rx' # <<>>
  <2>1. LineTyped  BY <1>1 DEF TypeOK, LineTyped
  <2>. QED  BY <2>1, DeliverKeepsLine
<1>4. /\ at0' \in [Devices -> 0 .. MaxAddr + 1]
      /\ sure' /\ pc'["console"] # "idle" => at0' = at0
  <2>1. at' \in [Devices -> 0 .. MaxAddr + 1]  BY <1>1, <1>2 DEF TypeOK
  <2>. QED  BY <1>1, <1>2, <2>1, RememberFacts
<1>5. TypeOK'  BY <1>1, <1>2, <1>3, <1>4 DEF TypeOK, LineTyped
<1>6. Asking'  BY <1>1, <1>2 DEF Asking
<1>7. CollectorIsAlone'
  BY <1>1, <1>2, <1>3 DEF CollectorIsAlone, OwnAnswer
<1>8. ReportIsCurrent'  BY <1>1, <1>2 DEF ReportIsCurrent
<1>9. ConsoleIsAlone'
  BY <1>1, <1>2, <1>3, <1>4 DEF ConsoleIsAlone, MovedBy
<1>. QED  BY <1>5, <1>6, <1>7, <1>8, <1>9 DEF IInv

(* What is lost is nobody's clean request any more.                        *)
LEMMA LoseKeeps ==
  ASSUME IInv, Lose, Remember
  PROVE  IInv'
<1>1. TypeOK /\ Asking  BY DEF IInv
<1>2. /\ wire # <<>> /\ wire' = Tail(wire)
      /\ clean' = [u \in Users |-> FALSE] /\ sure' = FALSE
      /\ UNCHANGED <<at, rx, pc, req, result>>
  BY DEF Lose
<1>3. at0' \in [Devices -> 0 .. MaxAddr + 1]
  <2>1. at' \in [Devices -> 0 .. MaxAddr + 1]  BY <1>1, <1>2 DEF TypeOK
  <2>. QED  BY <1>1, <2>1, RememberFacts
<1>4. LineTyped'
  <2>1. /\ wire \in Seq(Chunks) /\ rx \in Seq(Chunks)
        /\ Len(wire \o rx) <= LineLimit
    BY <1>1 DEF TypeOK
  <2>2. wire' \in Seq(Chunks) /\ Len(wire') = Len(wire) - 1
    BY <1>2, <2>1, HeadTailProperties
  <2>3. /\ Len(wire' \o rx') = Len(wire') + Len(rx)
        /\ Len(wire \o rx) = Len(wire) + Len(rx)
        /\ Len(wire) \in Nat /\ Len(rx) \in Nat
    BY <1>2, <2>1, <2>2, LineFacts
  <2>4. Len(wire' \o rx') <= LineLimit  BY <2>1, <2>2, <2>3, AddrFacts
  <2>. QED  BY <1>2, <2>1, <2>2, <2>4 DEF LineTyped
<1>5. TypeOK'
  <2>1. clean' \in [Users -> BOOLEAN] /\ sure' \in BOOLEAN  BY <1>2
  <2>. QED  BY <1>1, <1>2, <1>3, <1>4, <2>1 DEF TypeOK, LineTyped
<1>6. ~clean'["collector"] /\ ~sure'  BY <1>1, <1>2, UserFacts
<1>7. Asking'  BY <1>1, <1>2 DEF Asking
<1>. QED  BY <1>5, <1>6, <1>7
          DEF IInv, CollectorIsAlone, ReportIsCurrent, ConsoleIsAlone

(* A user sees that there is something to read.                            *)
LEMMA SelectKeeps ==
  ASSUME IInv, NEW u \in Users, Select(u), Remember
  PROVE  IInv'
<1>1. /\ TypeOK /\ Asking /\ CollectorIsAlone /\ ReportIsCurrent
      /\ ConsoleIsAlone
  BY DEF IInv
<1>2. /\ pc[u] = "wait" /\ rx # <<>>
      /\ pc' = [pc EXCEPT ![u] = "read"]
      /\ at' = at /\ wire' = wire /\ rx' = rx /\ req' = req
      /\ result' = result /\ clean' = clean /\ sure' = sure
  BY DEF Select, lineVars
<1>3. \A v \in Users : pc'[v] = IF v = u THEN "read" ELSE pc[v]
  BY <1>1, <1>2, UserFacts
<1>4. /\ at0' \in [Devices -> 0 .. MaxAddr + 1]
      /\ sure' /\ pc["console"] # "idle" => at0' = at0
  <2>1. at' \in [Devices -> 0 .. MaxAddr + 1]  BY <1>1, <1>2 DEF TypeOK
  <2>2. pc["console"] # "idle" => pc'["console"] # "idle"
    BY <1>1, <1>3, UserFacts
  <2>. QED  BY <1>1, <2>1, <2>2, RememberFacts
<1>5. TypeOK'
  <2>1. pc' \in [Users -> {"idle", "next", "wait", "read"}]
    BY <1>1, <1>2 DEF TypeOK
  <2>. QED  BY <1>1, <1>2, <1>4, <2>1 DEF TypeOK
<1>6. /\ pc'["collector"] \in {"wait", "read"} <=> pc["collector"] \in {"wait", "read"}
      /\ pc'["collector"] = "next" <=> pc["collector"] = "next"
      /\ pc'["collector"] = "idle" <=> pc["collector"] = "idle"
      /\ pc'["console"] \in {"wait", "read"} <=> pc["console"] \in {"wait", "read"}
      /\ pc'["console"] = "next" <=> pc["console"] = "next"
      /\ pc'["console"] = "idle" <=> pc["console"] = "idle"
  BY <1>1, <1>2, <1>3, UserFacts
<1>7. Asking'  BY <1>1, <1>2, <1>6 DEF Asking
<1>8. CollectorIsAlone'
  BY <1>1, <1>2, <1>6 DEF CollectorIsAlone, OwnAnswer
<1>9. ReportIsCurrent'  BY <1>1, <1>2 DEF ReportIsCurrent
<1>10. ConsoleIsAlone'
  BY <1>1, <1>2, <1>4, <1>6 DEF ConsoleIsAlone, MovedBy
<1>. QED  BY <1>5, <1>7, <1>8, <1>9, <1>10 DEF IInv

(* The collector reports the beginning of its own answer, if its request   *)
(* is clean.                                                               *)
LEMMA CollectedKeeps ==
  ASSUME IInv, pc["collector"] \in {"wait", "read"},
         NEW got \in Seq(Chunks), Len(got) <= 2,
         \A i \in 1 .. Len(got) : i \in 1 .. Len(rx) /\ got[i] = rx[i],
         Collected(got), TypeOK', Remember,
         UNCHANGED <<at, clean>>, sure' => sure
  PROVE  IInv'
<1>1. /\ TypeOK /\ Asking /\ CollectorIsAlone /\ ConsoleIsAlone
  BY DEF IInv
<1>2. /\ pc' = [pc EXCEPT !["collector"] = "idle"]
      /\ req' = [req EXCEPT !["collector"] = NoRequest]
      /\ result' = [of |-> req["collector"], got |-> got, done |-> "none"]
  BY DEF Collected
<1>3. /\ pc'["collector"] = "idle" /\ pc'["console"] = pc["console"]
      /\ req'["console"] = req["console"]
      /\ result'.of = req["collector"] /\ result'.got = got
  BY <1>1, <1>2, UserFacts
<1>4. Asking'  BY <1>1, <1>3 DEF Asking
<1>5. CollectorIsAlone'  BY <1>1, <1>3 DEF CollectorIsAlone
<1>6. ReportIsCurrent'
  <2>. SUFFICES ASSUME clean["collector"]
                PROVE  IsPrefix(got, Data(req["collector"].to))
    BY <1>3 DEF ReportIsCurrent
  <2>. PICK r \in Requests :
         r = req["collector"] /\ r.kind = "read" /\ r.addr = r.to
    BY <1>1 DEF Asking
  <2>1. /\ Answer(r) = Data(r.to) /\ Len(Answer(r)) = 2
        /\ Answer(r) \in Seq(Chunks)
    BY AnswerTyped
  <2>2. rx \o wire \in {<<>>, Answer(r)}
    BY <1>1 DEF CollectorIsAlone, OwnAnswer
  <2>3. rx \in Seq(Chunks) /\ wire \in Seq(Chunks)  BY <1>1, UserFacts
  <2>4. \A i \in 1 .. Len(got) : got[i] = Answer(r)[i]
    <3>1. CASE rx \o wire = <<>>
      <4>1. Len(rx) = 0  BY <2>3, <3>1, LineFacts, EmptySeq
      <4>. QED  BY <4>1
    <3>2. CASE rx \o wire = Answer(r)
      <4>1. \A i \in 1 .. Len(rx) : (rx \o wire)[i] = rx[i]  BY <2>3, LineFacts
      <4>. QED  BY <3>2, <4>1
    <3>. QED  BY <2>2, <3>1, <3>2
  <2>5. IsPrefix(got, Answer(r))  BY <2>1, <2>4, PrefixByElements
  <2>. QED  BY <2>1, <2>5
<1>7. ConsoleIsAlone'
  <2>. SUFFICES ASSUME sure', pc["console"] # "idle"
                PROVE  ConsoleIsAlone'
    BY <1>3 DEF ConsoleIsAlone
  <2>1. at0' = at0
    <3>1. at' \in [Devices -> 0 .. MaxAddr + 1]  BY <1>1 DEF TypeOK
    <3>. QED  BY <1>1, <1>3, <3>1, RememberFacts
  <2>2. pc["console"] \notin {"wait", "read"}  BY <1>1 DEF ConsoleIsAlone
  <2>. QED  BY <1>1, <1>3, <2>1, <2>2 DEF ConsoleIsAlone
<1>. QED  BY <1>4, <1>5, <1>6, <1>7 DEF IInv

(* A set_addr goes on to the next address only if nobody has the one that  *)
(* it tried.                                                               *)
LEMMA TriedKeeps ==
  ASSUME IInv, pc["console"] \in {"wait", "read"},
         NEW got, Tried(got), TypeOK', Remember, UNCHANGED <<at, clean>>,
         sure' => sure,
         sure' /\ ~IsPrefix(Answer(req["console"]), got) =>
           /\ at = at0
           /\ \A d \in Devices : at0[d] # req["console"].addr
  PROVE  IInv'
<1>1. /\ TypeOK /\ Asking /\ CollectorIsAlone /\ ReportIsCurrent
      /\ ConsoleIsAlone
  BY DEF IInv
<1>2. /\ pc'["collector"] = pc["collector"]
      /\ req'["collector"] = req["collector"]
      /\ pc'["console"] \in {"idle", "next"}
      /\ pc'["console"] = "idle" => result'.of = NoRequest
      /\ pc'["console"] = "next" =>
           /\ ~IsPrefix(Answer(req["console"]), got)
           /\ req'["console"] \in Requests
           /\ req'["console"].kind = "move"
           /\ req'["console"].addr = req["console"].addr + 1
           /\ result' = result
  <2>1. pc["console"] # "idle"  OBVIOUS
  <2>. QED  BY <1>1, <2>1, TriedFacts
<1>3. ~clean["collector"]  BY <1>1 DEF CollectorIsAlone
<1>4. Asking'  BY <1>1, <1>2 DEF Asking
<1>5. CollectorIsAlone' /\ ReportIsCurrent'
  BY <1>3 DEF CollectorIsAlone, ReportIsCurrent
<1>6. ConsoleIsAlone'
  <2>. SUFFICES ASSUME sure', pc'["console"] = "next"
                PROVE  /\ \A d \in Devices : at0'[d] >= req'["console"].addr
                       /\ at' = at0'
    BY <1>2 DEF ConsoleIsAlone
  <2>1. at0' = at0 /\ at = at0
    <3>1. at' \in [Devices -> 0 .. MaxAddr + 1]  BY <1>1 DEF TypeOK
    <3>. QED  BY <1>1, <1>2, <3>1, RememberFacts
  <2>. PICK r \in Requests : r = req["console"]  BY <1>1 DEF Asking
  <2>2. r.addr \in Nat  BY AddrFacts DEF Requests
  <2>3. \A d \in Devices : at0[d] \in Nat  BY <1>1, AddrFacts DEF TypeOK
  <2>4. \A d \in Devices : at0[d] >= r.addr /\ at0[d] # r.addr
    BY <1>1, <1>2 DEF ConsoleIsAlone
  <2>5. \A d \in Devices : at0[d] >= r.addr + 1  BY <2>2, <2>3, <2>4
  <2>. QED  BY <1>2, <2>1, <2>5
<1>. QED  BY <1>4, <1>5, <1>6 DEF IInv
(* A set_addr that is sure waits in vain only for an address that nobody   *)
(* has.                                                                    *)
LEMMA ConsoleTimesOut ==
  ASSUME IInv, Timeout("console"), sure'
  PROVE  /\ sure /\ at = at0
         /\ \A d \in Devices : at0[d] # req["console"].addr
         /\ ~IsPrefix(Answer(req["console"]), <<>>)
<1>1. TypeOK /\ Asking /\ ConsoleIsAlone  BY DEF IInv
<1>2. pc["console"] = "wait" /\ rx = <<>> /\ sure /\ wire = <<>>
  BY DEF Timeout
<1>. PICK r \in Requests : r = req["console"] /\ r.kind = "move"
  BY <1>1, <1>2 DEF Asking
<1>3. MovedBy(r)  BY <1>1, <1>2 DEF ConsoleIsAlone
<1>4. Answer(r) = <<Chunk(r, 1)>> /\ Len(Answer(r)) = 1  BY AnswerTyped
<1>5. Len(<<>>) = 0  BY EmptySeq
<1>6. rx \o wire = <<>>  BY <1>1, <1>2, UserFacts, LineFacts
<1>7. rx \o wire # <<Chunk(r, 1)>>  BY <1>4, <1>5, <1>6
<1>8. ~IsPrefix(Answer(r), <<>>)
  <2>1. ~(Len(Answer(r)) <= Len(<<>>))  BY <1>4, <1>5
  <2>. QED  BY <2>1 DEF IsPrefix
<1>. QED  BY <1>2, <1>3, <1>7, <1>8 DEF MovedBy

(* A set_addr that is sure reads the echo of its own request, and one      *)
(* sensor has moved.                                                       *)
LEMMA ConsoleReads ==
  ASSUME IInv, Read("console"), sure'
  PROVE  /\ sure
         /\ IsPrefix(Answer(req["console"]), TakenBy("console"))
         /\ \E d \in Devices : /\ at0[d] = req["console"].addr
                               /\ at = [at0 EXCEPT ![d] = req["console"].to]
<1>1. TypeOK /\ Asking /\ ConsoleIsAlone  BY DEF IInv
<1>2. /\ pc["console"] = "read"
      /\ TakenBy("console") \in Seq(Chunks)
      /\ Len(TakenBy("console"))
           = IF Count(req["console"]) <= Len(rx) THEN Count(req["console"])
             ELSE Len(rx)
      /\ \A i \in 1 .. Len(TakenBy("console")) :
           i \in 1 .. Len(rx) /\ TakenBy("console")[i] = rx[i]
      /\ sure' = sure
  BY <1>1, ReadFacts, UserFacts
<1>. PICK r \in Requests : r = req["console"] /\ r.kind = "move"
  BY <1>1, <1>2 DEF Asking
<1>3. rx # <<>> /\ MovedBy(r)  BY <1>1, <1>2 DEF ConsoleIsAlone
<1>4. /\ Answer(r) = <<Chunk(r, 1)>> /\ Len(Answer(r)) = 1
      /\ Answer(r) \in Seq(Chunks)
  BY AnswerTyped
<1>5. rx \in Seq(Chunks) /\ wire \in Seq(Chunks)  BY <1>1, UserFacts
<1>6. rx \o wire # <<>>  BY <1>3, <1>5, LineFacts
<1>7. rx \o wire = Answer(r)  BY <1>3, <1>4, <1>6 DEF MovedBy
<1>8. Len(rx) = 1
  <2>. DEFINE n == Len(rx)
              m == Len(wire)
              k == Len(rx \o wire)
  <2>1. n \in Nat /\ m \in Nat /\ k = m + n  BY <1>5, LineFacts
  <2>2. n # 0
    <3>1. n = 0 <=> rx = <<>>  BY <1>5, LineFacts, EmptySeq
    <3>. QED  BY <1>3, <3>1
  <2>3. k = 1  BY <1>4, <1>7
  <2>. HIDE DEF n, m, k
  <2>4. n = 1  BY <2>1, <2>2, <2>3
  <2>. QED  BY <2>4 DEF n
<1>9. Len(TakenBy("console")) = 1  BY <1>2, <1>8 DEF Count
<1>10. \A i \in 1 .. Len(Answer(r)) : Answer(r)[i] = TakenBy("console")[i]
  <2>1. \A i \in 1 .. Len(rx) : (rx \o wire)[i] = rx[i]  BY <1>5, LineFacts
  <2>. QED  BY <1>2, <1>4, <1>7, <1>8, <1>9, <2>1
<1>11. IsPrefix(Answer(r), TakenBy("console"))
  BY <1>2, <1>4, <1>9, <1>10, PrefixByElements
<1>. QED  BY <1>2, <1>3, <1>6, <1>11 DEF MovedBy

(* A user gives up waiting.                                                *)
LEMMA TimeoutKeeps ==
  ASSUME IInv, NEW u \in Users, Timeout(u), Remember
  PROVE  IInv'
<1>1. TypeOK /\ Asking  BY DEF IInv
<1>2. /\ pc[u] = "wait" /\ rx = <<>>
      /\ Received(u, <<>>)
      /\ sure' = (sure /\ wire = <<>>)
      /\ at' = at /\ wire' = wire /\ rx' = rx /\ clean' = clean
  BY DEF Timeout, lineVars
<1>3. <<>> \in Seq(Chunks) /\ Len(<<>>) = 0 /\ Len(<<>>) <= 2
  <2>1. <<>> \in Seq(Chunks) /\ Len(<<>>) = 0  BY EmptySeq
  <2>. QED  BY <2>1
<1>4. TypeOK'
  <2>1. LineTyped'  BY <1>1, <1>2 DEF TypeOK, LineTyped
  <2>2. sure' \in BOOLEAN
    <3>1. (sure /\ wire = <<>>) \in BOOLEAN  OBVIOUS
    <3>. QED  BY <1>2, <3>1
  <2>3. pc[u] \in {"wait", "read"} /\ UNCHANGED at  BY <1>2
  <2>. QED  BY <1>1, <1>2, <1>3, <2>1, <2>2, <2>3, ReceivedTyped
<1>5. CASE u = "collector"
  <2>1. Collected(<<>>) /\ pc["collector"] \in {"wait", "read"}
    BY <1>2, <1>5 DEF Received
  <2>2. \A i \in 1 .. Len(<<>>) : i \in 1 .. Len(rx) /\ <<>>[i] = rx[i]
    BY <1>3
  <2>3. (sure' => sure) /\ UNCHANGED <<at, clean>>  BY <1>2
  <2>. QED  BY <1>3, <1>4, <2>1, <2>2, <2>3, CollectedKeeps
<1>6. CASE u = "console"
  <2>1. Tried(<<>>) /\ pc["console"] \in {"wait", "read"}
    BY <1>2, <1>6 DEF Received
  <2>2. (sure' => sure) /\ UNCHANGED <<at, clean>>  BY <1>2
  <2>3. sure' => /\ at = at0
                 /\ \A d \in Devices : at0[d] # req["console"].addr
    BY <1>6, ConsoleTimesOut
  <2>. QED  BY <1>4, <2>1, <2>2, <2>3, TriedKeeps
<1>. QED  BY <1>5, <1>6 DEF Users

(* A user reads.                                                           *)
LEMMA ReadKeeps ==
  ASSUME IInv, NEW u \in Users, Read(u), Remember
  PROVE  IInv'
<1>1. TypeOK /\ Asking  BY DEF IInv
<1>. PICK got \in Seq(Chunks) : got = TakenBy(u)
  BY <1>1, ReadFacts
<1>2. /\ pc[u] = "read" /\ Received(u, got)
      /\ Len(got) <= 2
      /\ \A i \in 1 .. Len(got) : i \in 1 .. Len(rx) /\ got[i] = rx[i]
      /\ LineTyped'
      /\ UNCHANGED <<at, wire, clean, sure>>
  BY <1>1, ReadFacts
<1>3. (sure' => sure) /\ sure' \in BOOLEAN /\ UNCHANGED <<at, clean>>
  BY <1>1, <1>2 DEF TypeOK
<1>4. TypeOK'
  <2>1. pc[u] \in {"wait", "read"} /\ UNCHANGED at /\ clean' = clean  BY <1>2
  <2>. QED  BY <1>1, <1>2, <1>3, <2>1, ReceivedTyped
<1>5. CASE u = "collector"
  <2>1. Collected(got) /\ pc["collector"] \in {"wait", "read"}
    BY <1>2, <1>5 DEF Received
  <2>. QED  BY <1>2, <1>3, <1>4, <2>1, CollectedKeeps
<1>6. CASE u = "console"
  <2>1. Tried(got) /\ pc["console"] \in {"wait", "read"}
    BY <1>2, <1>6 DEF Received
  <2>2. sure' => IsPrefix(Answer(req["console"]), got)  BY <1>6, ConsoleReads
  <2>. QED  BY <1>3, <1>4, <2>1, <2>2, TriedKeeps
<1>. QED  BY <1>5, <1>6 DEF Users

(* The invariant holds in every state, whatever the sensors are and        *)
(* whoever hears, loses or reads what.                                     *)
THEOREM IInvHolds == Spec => []IInv
<1>1. Init => IInv  BY InitHolds
<1>2. IInv /\ [Next]_vars => IInv'
  <2>. SUFFICES ASSUME IInv, [Next]_vars
                PROVE  IInv'
    OBVIOUS
  <2>1. CASE UNCHANGED vars
    BY <2>1 DEF vars, lineVars, IInv, TypeOK, Asking, CollectorIsAlone, OwnAnswer,
                ReportIsCurrent, ConsoleIsAlone, MovedBy
  <2>2. CASE Next
    <3>1. Remember  BY <2>2 DEF Next
    <3>2. ASSUME NEW addr \in Addrs, Collect(addr)  PROVE IInv'
      BY <3>1, <3>2, CollectKeeps
    <3>3. ASSUME NEW addr \in Addrs, SetAddr(addr)  PROVE IInv'
      BY <3>1, <3>3, SetAddrKeeps
    <3>4. CASE ChangeAddr  BY <3>1, <3>4, ChangeAddrKeeps
    <3>5. CASE Deliver  BY <3>1, <3>5, DeliverKeeps
    <3>6. CASE Lose  BY <3>1, <3>6, LoseKeeps
    <3>7. ASSUME NEW u \in Users, UserStep(u)  PROVE IInv'
      <4>1. CASE Select(u)  BY <3>1, <4>1, SelectKeeps
      <4>2. CASE Timeout(u)  BY <3>1, <4>2, TimeoutKeeps
      <4>3. CASE Read(u)  BY <3>1, <4>3, ReadKeeps
      <4>. QED  BY <3>7, <4>1, <4>2, <4>3 DEF UserStep
    <3>. QED  BY <2>2, <3>2, <3>3, <3>4, <3>5, <3>6, <3>7 DEF Next
  <2>. QED  BY <2>1, <2>2
<1>. QED  BY <1>1, <1>2, PTL DEF Spec

(* The line, the requests and the results always have their types, for any *)
(* number of sensors and any bound on what is under way.                   *)
THEOREM TypeCorrect == Spec => []TypeOK
<1>1. IInv => TypeOK  BY DEF IInv
<1>. QED  BY <1>1, IInvHolds, PTL

(* What the collector reports of a sensor begins that sensor's answer to   *)
(* this very request, if the line was quiet when it asked, no two sensors  *)
(* answered, nothing was lost and no console used the line: receive() may  *)
(* read too little, and never another's data.                              *)
THEOREM ReportCorrect == Spec => []ReportIsCurrent
<1>1. IInv => ReportIsCurrent  BY DEF IInv
<1>. QED  BY <1>1, IInvHolds, PTL

(* A set_addr whose requests were all heard and answered in time moves one *)
(* sensor, the one with the lowest address, and says so; it throws only if *)
(* no sensor has an address up to max_addr.                                *)
THEOREM MovesLowest == Spec => SetAddrMovesLowest
<1>. DEFINE InReach == {d \in Devices : at0[d] <= MaxAddr}
            Moved == /\ result'.done = "thrown" <=> InReach = {}
                     /\ InReach # {} =>
                          \E d \in InReach :
                            /\ \A e \in InReach : at0[d] <= at0[e]
                            /\ at' = [at0 EXCEPT ![d] = req["console"].to]
            Act == sure' /\ pc["console"] # "idle" /\ pc'["console"] = "idle" => Moved
<1>1. IInv /\ [Next]_vars => [Act]_vars
  <2>. SUFFICES ASSUME IInv, Next, sure', pc["console"] # "idle",
                       pc'["console"] = "idle"
                PROVE  Moved
    OBVIOUS
  <2>. HIDE DEF Moved
  <2>1. TypeOK /\ Asking /\ ConsoleIsAlone  BY DEF IInv
  <2>. PICK r \in Requests : r = req["console"]  BY <2>1 DEF Asking
  <2>2. r.addr \in Nat /\ r.addr <= MaxAddr /\ MaxAddr \in Nat
    BY AddrFacts DEF Requests, Addrs
  <2>3. \A d \in Devices : at0[d] \in Nat  BY <2>1, AddrFacts DEF TypeOK
  <2>4. sure => \A d \in Devices : at0[d] >= r.addr
    BY <2>1 DEF ConsoleIsAlone
  <2>5. CASE Timeout("console")
    <3>1. /\ sure /\ \A d \in Devices : at0[d] # r.addr
          /\ ~IsPrefix(Answer(r), <<>>)
      BY <2>5, ConsoleTimesOut
    <3>2. Tried(<<>>)  BY <2>5 DEF Timeout, Received
    <3>3. r.addr = MaxAddr /\ result'.done = "thrown"
      BY <2>1, <3>1, <3>2, TriedFacts
    <3>4. InReach = {}  BY <2>2, <2>3, <2>4, <3>1, <3>3
    <3>. QED  BY <3>3, <3>4 DEF Moved
  <2>6. CASE Read("console")
    <3>1. sure /\ IsPrefix(Answer(r), TakenBy("console"))
      BY <2>6, ConsoleReads
    <3>. PICK d \in Devices : at0[d] = r.addr /\ at = [at0 EXCEPT ![d] = r.to]
      BY <2>6, ConsoleReads
    <3>2. Tried(TakenBy("console")) /\ at' = at
      BY <2>1, <2>6, ReadFacts, UserFacts DEF Received
    <3>3. result'.done = "moved"  BY <2>1, <3>1, <3>2, TriedFacts
    <3>4. d \in InReach  BY <2>2
    <3>5. \A e \in InReach : at0[d] <= at0[e]  BY <2>2, <2>3, <2>4, <3>1
    <3>6. at' = [at0 EXCEPT ![d] = r.to]  BY <3>2
    <3>. QED  BY <3>3, <3>4, <3>5, <3>6 DEF Moved
  <2>7. Timeout("console") \/ Read("console")
    <3>1. ASSUME NEW addr \in Addrs, Collect(addr)  PROVE FALSE
      <4>1. pc' = [pc EXCEPT !["collector"] = "wait"]
        BY <3>1 DEF Collect, Send
      <4>. QED  BY <2>1, <4>1, UserFacts
    <3>2. ASSUME NEW addr \in Addrs, SetAddr(addr)  PROVE FALSE
      BY <3>2 DEF SetAddr
    <3>3. ChangeAddr => FALSE
      <4>. SUFFICES ASSUME ChangeAddr  PROVE FALSE
        OBVIOUS
      <4>1. pc' = [pc EXCEPT !["console"] = "wait"]  BY DEF ChangeAddr, Send
      <4>. QED  BY <2>1, <4>1, UserFacts
    <3>4. ~Deliver /\ ~Lose
      <4>1. Deliver \/ Lose => pc' = pc  BY DEF Deliver, Lose
      <4>. QED  BY <4>1
    <3>5. ASSUME NEW u \in Users, UserStep(u)
          PROVE  Timeout("console") \/ Read("console")
      <4>1. CASE u = "console"
        <5>1. ~Select("console")
          <6>1. Select("console") => pc' = [pc EXCEPT !["console"] = "read"]
            BY DEF Select
          <6>. QED  BY <2>1, <6>1, UserFacts
        <5>. QED  BY <3>5, <4>1, <5>1 DEF UserStep
      <4>2. CASE u = "collector"
        <5>1. pc' = [pc EXCEPT !["collector"] = "read"]
              \/ pc' = [pc EXCEPT !["collector"] = "idle"]
          BY <3>5, <4>2 DEF UserStep, Select, Timeout, Read, Received, Collected
        <5>. QED  BY <2>1, <5>1, UserFacts
      <4>. QED  BY <4>1, <4>2 DEF Users
    <3>. QED  BY <3>1, <3>2, <3>3, <3>4, <3>5 DEF Next
  <2>. QED  BY <2>5, <2>6, <2>7
<1>2. Spec => [][Act]_vars  BY <1>1, IInvHolds, PTL DEF Spec
<1>. QED  BY <1>2, PTL DEF SetAddrMovesLowest
=============================================================================
