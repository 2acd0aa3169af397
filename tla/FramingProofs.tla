---------------------------- MODULE FramingProofs ----------------------------
(***************************************************************************)
(* Proofs about Framing, for any number of threads, lengths of heads and   *)
(* payloads, room in the socket and cuts that send() and recv() make:      *)
(* whole frames arrive, in the order in which their threads got the mutex. *)
(***************************************************************************)
EXTENDS Framing, TLAPS, SequenceTheorems

-----------------------------------------------------------------------------
(* The senders: the thread that holds the mutex may be in the frame that   *)
(* was begun last, all others are idle.                                    *)

Units == [of : Nat, pos : Nat]

Typed ==
  /\ m_mutex \in SUBSET Threads
  /\ pc \in [Threads -> {"idle", "ensure", "head", "payload", "recv",
                         "reconnect", "elsewhere"}]
  /\ nleft \in [Threads -> Nat]
  /\ begun \in Seq(Frames)
  /\ mine \in [Threads -> Nat]
  /\ socket \in Seq(Units)
  /\ up \in BOOLEAN
  /\ reader \in {"head", "payload", "closed"}
  /\ buf \in Seq(Units)
  /\ received \in Seq(Frames)

(* The threads inside a frame.                                             *)
Sending == {t \in Threads : pc[t] \in {"head", "payload"}}

(* The part of a frame that a thread is in, and where that part ends.      *)
PartLen(t) == IF pc[t] = "head" THEN HeadLen ELSE begun[Len(begun)].len

Holding ==
  \A t \in Threads :
    /\ pc[t] # "idle" <=> m_mutex = {t}
    /\ t \in m_mutex => m_mutex = {t}
    /\ t \in Sending =>
         /\ Len(begun) > 0 /\ mine[t] = Len(begun)
         /\ nleft[t] <= PartLen(t)
    /\ pc[t] = "payload" => begun[Len(begun)].type = "data"

-----------------------------------------------------------------------------
(* The units between the senders and the receiver: those that recvn() has  *)
(* read of the frame it is in, and those in the socket.                    *)
Stream == buf \o socket

Size(i) == HeadLen + begun[i].len

(* The unit that comes after unit p of frame i.                            *)
UnitAfter(i, p) ==
  IF p < Size(i) THEN [of |-> i, pos |-> p + 1] ELSE [of |-> i + 1, pos |-> 1]

(* Units of frames that were begun.                                        *)
UnitsBegun ==
  \A l \in 1 .. Len(Stream) :
    /\ Stream[l].of \in 1 .. Len(begun)
    /\ Stream[l].pos \in 1 .. Size(Stream[l].of)

(* Unit m of the stream is the one that is due m - l units after unit l,   *)
(* as far as the frame of unit l and the first unit of the next one go.    *)
InOrder ==
  \A l, m \in 1 .. Len(Stream) :
    l <= m =>
      LET u == Stream[l]
      IN  /\ u.pos + (m - l) <= Size(u.of)
               => Stream[m] = [of |-> u.of, pos |-> u.pos + (m - l)]
          /\ u.pos + (m - l) = Size(u.of) + 1
               => Stream[m] = [of |-> u.of + 1, pos |-> 1]

(* The receiver is at the beginning of the first frame it has not read.    *)
Current == Len(received) + 1

StartsAtCurrent == Len(Stream) > 0 => Stream[1] = [of |-> Current, pos |-> 1]

(* What the senders send next.                                             *)
SentOf(t) == (IF pc[t] = "head" THEN HeadLen ELSE Size(Len(begun))) - nleft[t]

IsNext(u) ==
  /\ Sending = {} => u = [of |-> Len(begun) + 1, pos |-> 1]
  /\ \A t \in Sending : u = UnitAfter(Len(begun), SentOf(t))

(* While the connection stands, it follows what is under way.              *)
SenderFollows ==
  up => /\ Len(Stream) = 0 => IsNext([of |-> Current, pos |-> 1])
        /\ Len(Stream) > 0 =>
             IsNext(UnitAfter(Stream[Len(Stream)].of, Stream[Len(Stream)].pos))

(* The receiver has read no more than the part it is in.                   *)
ReaderInPart ==
  /\ reader = "head" => Len(buf) <= HeadLen
  /\ reader = "payload" =>
       /\ HeadLen <= Len(buf) /\ Len(buf) <= Size(Current)
       /\ begun[Current].type = "data"
  /\ reader = "closed" => Len(buf) = 0

IInv ==
  /\ Typed /\ Holding /\ UnitsBegun /\ InOrder /\ StartsAtCurrent
  /\ SenderFollows /\ ReaderInPart
-----------------------------------------------------------------------------
(* Types: a length and a begun frame have the sizes they should.           *)
LEMMA Lengths ==
  ASSUME NEW F \in Seq(Frames), NEW i \in 1 .. Len(F)
  PROVE  /\ F[i] \in Frames
         /\ F[i].len \in Nat
         /\ F[i].type \in {"heart", "data"}
         /\ F[i].type # "data" => F[i].len = 0
<1>1. F[i] \in Frames  BY ElementOfSeq
<1>2. MaxLen \in Nat  BY LengthAssumption
<1>. QED  BY <1>1, <1>2 DEF Frames

(* The units of the stream, in the buffer and in the socket.               *)
LEMMA StreamFacts ==
  ASSUME NEW b \in Seq(Units), NEW s \in Seq(Units)
  PROVE  /\ b \o s \in Seq(Units)
         /\ Len(b) \in Nat /\ Len(s) \in Nat
         /\ Len(b \o s) = Len(b) + Len(s)
         /\ \A l \in 1 .. Len(b) : (b \o s)[l] = b[l]
         /\ \A l \in 1 .. Len(s) : (b \o s)[Len(b) + l] = s[l]
<1>1. /\ b \o s \in Seq(Units)
      /\ Len(b \o s) = Len(b) + Len(s)
      /\ \A i \in 1 .. Len(b) + Len(s) :
           (b \o s)[i] = IF i <= Len(b) THEN b[i] ELSE s[i - Len(b)]
  BY ConcatProperties
<1>2. Len(b) \in Nat /\ Len(s) \in Nat  BY LenProperties
<1>3. ASSUME NEW l \in 1 .. Len(s)
      PROVE  (b \o s)[Len(b) + l] = s[l]
  <2>. DEFINE j == Len(b) + l
  <2>1. j \in 1 .. Len(b) + Len(s) /\ ~(j <= Len(b)) /\ j - Len(b) = l
    BY <1>2
  <2>. QED  BY <1>1, <2>1
<1>4. ASSUME NEW l \in 1 .. Len(b)
      PROVE  (b \o s)[l] = b[l]
  BY <1>1, <1>2
<1>. QED  BY <1>1, <1>2, <1>3, <1>4

(* What the sender appends, unit by unit.                                  *)
LEMMA StreamGrows ==
  ASSUME Typed, UnitsBegun, InOrder, StartsAtCurrent,
         begun' = begun, received' = received,
         NEW k \in 1 .. Len(begun), NEW p \in Nat, NEW n \in Nat \ {0},
         p + n <= Size(k),
         NEW more \in Seq(Units), Len(more) = n,
         \A i \in 1 .. n : more[i] = [of |-> k, pos |-> p + i],
         Len(Stream) = 0 => [of |-> k, pos |-> p + 1] = [of |-> Current, pos |-> 1],
         Len(Stream) > 0 =>
           [of |-> k, pos |-> p + 1]
             = UnitAfter(Stream[Len(Stream)].of, Stream[Len(Stream)].pos),
         Stream' = Stream \o more
  PROVE  /\ UnitsBegun' /\ InOrder' /\ StartsAtCurrent'
         /\ Len(Stream') = Len(Stream) + n
         /\ Stream'[Len(Stream')] = [of |-> k, pos |-> p + n]
<1>. DEFINE L == Len(Stream)
            S == Stream
            T == Stream'
<1>1. Stream \in Seq(Units)  BY StreamFacts DEF Typed, Stream
<1>2. /\ T \in Seq(Units) /\ L \in Nat
      /\ Len(T) = L + n
      /\ \A l \in 1 .. L : T[l] = S[l]
      /\ \A i \in 1 .. n : T[L + i] = [of |-> k, pos |-> p + i]
  <2>1. /\ S \o more \in Seq(Units) /\ L \in Nat
        /\ Len(S \o more) = L + n
        /\ \A l \in 1 .. L : (S \o more)[l] = S[l]
        /\ \A i \in 1 .. n : (S \o more)[L + i] = more[i]
    BY <1>1, StreamFacts
  <2>. QED  BY <2>1
<1>3. \A i \in 1 .. Len(begun) : Size(i) \in Nat
  BY Lengths, LengthAssumption DEF Typed, Size
<1>4. \A l \in 1 .. L : /\ S[l] \in Units
                         /\ S[l].of \in 1 .. Len(begun)
                         /\ S[l].pos \in 1 .. Size(S[l].of)
  BY <1>1, ElementOfSeq DEF UnitsBegun
<1>5. Len(begun) \in Nat  BY LenProperties DEF Typed
<1>6. \A m \in 1 .. Len(T) : m <= L \/ \E i \in 1 .. n : m = L + i
  <2>1. SUFFICES ASSUME NEW m \in 1 .. Len(T), ~(m <= L)
                 PROVE  \E i \in 1 .. n : m = L + i
    OBVIOUS
  <2>2. m - L \in 1 .. n /\ m = L + (m - L)  BY <1>2, <2>1
  <2>. QED  BY <2>2
<1>. HIDE DEF L, S, T
<1>7. UnitsBegun'
  <2>1. SUFFICES ASSUME NEW l \in 1 .. Len(T)
                 PROVE  /\ T[l].of \in 1 .. Len(begun)
                        /\ T[l].pos \in 1 .. Size(T[l].of)
    BY DEF UnitsBegun, Size, T
  <2>2. CASE l <= L
    <3>1. l \in 1 .. L /\ T[l] = S[l]  BY <1>2, <2>1, <2>2
    <3>. QED  BY <1>4, <3>1
  <2>3. ASSUME NEW i \in 1 .. n, l = L + i
        PROVE  /\ T[l].of \in 1 .. Len(begun)
               /\ T[l].pos \in 1 .. Size(T[l].of)
    <3>1. T[l] = [of |-> k, pos |-> p + i]  BY <1>2, <2>3
    <3>2. p + i \in 1 .. Size(k)  BY <1>3
    <3>. QED  BY <3>1, <3>2
  <2>. QED  BY <1>6, <2>1, <2>2, <2>3
<1>8. InOrder'
  <2>0. SUFFICES ASSUME NEW l \in 1 .. Len(T), NEW m \in 1 .. Len(T), l <= m
                 PROVE  /\ T[l].pos + (m - l) <= Size(T[l].of)
                             => T[m] = [of |-> T[l].of, pos |-> T[l].pos + (m - l)]
                        /\ T[l].pos + (m - l) = Size(T[l].of) + 1
                             => T[m] = [of |-> T[l].of + 1, pos |-> 1]
    BY DEF InOrder, Size, T
  <2>1. SUFFICES ASSUME NEW d, d = m - l
                 PROVE  /\ T[l].pos + d <= Size(T[l].of)
                             => T[m] = [of |-> T[l].of, pos |-> T[l].pos + d]
                        /\ T[l].pos + d = Size(T[l].of) + 1
                             => T[m] = [of |-> T[l].of + 1, pos |-> 1]
    OBVIOUS
  <2>2. CASE m <= L
    <3>1. l \in 1 .. L /\ m \in 1 .. L  BY <1>2, <2>0, <2>2
    <3>2. /\ S[l].pos + d <= Size(S[l].of)
               => S[m] = [of |-> S[l].of, pos |-> S[l].pos + d]
          /\ S[l].pos + d = Size(S[l].of) + 1
               => S[m] = [of |-> S[l].of + 1, pos |-> 1]
      BY <2>0, <2>1, <3>1 DEF InOrder, S, L
    <3>. QED  BY <1>2, <3>1, <3>2
  <2>3. ASSUME NEW i \in 1 .. n, m = L + i, l <= L
        PROVE  /\ T[l].pos + d <= Size(T[l].of)
                    => T[m] = [of |-> T[l].of, pos |-> T[l].pos + d]
               /\ T[l].pos + d = Size(T[l].of) + 1
                    => T[m] = [of |-> T[l].of + 1, pos |-> 1]
    <3>0. PICK e \in Nat : e = L - l  BY <1>2, <2>1, <2>3
    <3>1. /\ l \in 1 .. L /\ L \in 1 .. L /\ L > 0
          /\ d = e + i
      BY <1>2, <2>1, <2>3, <3>0
    <3>9. PICK o \in 1 .. Len(begun), q \in 1 .. Size(S[l].of) : S[l] = [of |-> o, pos |-> q]
      BY <1>4, <3>1 DEF Units
    <3>2. q + e <= Size(o) => S[L] = [of |-> o, pos |-> q + e]
      <4>1. S[l].pos + (L - l) <= Size(S[l].of)
              => S[L] = [of |-> S[l].of, pos |-> S[l].pos + (L - l)]
        BY <2>3, <3>1 DEF InOrder, S, L
      <4>. QED  BY <4>1, <3>0, <3>9
    <3>3. q \in 1 .. Size(o) /\ Size(o) \in Nat /\ T[l] = S[l]
      BY <1>2, <1>3, <3>1, <3>9
    <3>4. T[m] = [of |-> k, pos |-> p + i]  BY <1>2, <2>3
    <3>5. [of |-> k, pos |-> p + 1] = UnitAfter(S[L].of, S[L].pos)
      BY <3>1 DEF S, L
    <3>6. ASSUME q + d <= Size(o)
          PROVE  T[m] = [of |-> o, pos |-> q + d]
      <4>1. q + e < Size(o)  BY <3>1, <3>3, <3>6
      <4>2. S[L].of = o /\ S[L].pos = q + e  BY <3>2, <3>1, <3>3, <4>1
      <4>3. [of |-> k, pos |-> p + 1] = [of |-> o, pos |-> q + e + 1]
        BY <3>5, <4>1, <4>2 DEF UnitAfter
      <4>4. k = o /\ p + 1 = q + e + 1  BY <4>3
      <4>5. p + i = q + d  BY <4>4, <3>1, <3>3
      <4>. QED  BY <3>4, <4>4, <4>5
    <3>7. ASSUME q + d = Size(o) + 1
          PROVE  T[m] = [of |-> o + 1, pos |-> 1]
      <4>0. q + (e + i) = Size(o) + 1  BY <3>1, <3>7
      <4>1. q + e <= Size(o) /\ q + e = Size(o) + 1 - i
        <5>1. i \in Nat /\ i > 0 /\ q \in Nat /\ Size(o) \in Nat /\ e \in Nat
          BY <3>3, <2>3
        <5>2. ASSUME NEW z \in Nat, q + (e + i) = z + 1
              PROVE  q + e <= z /\ q + e = z + 1 - i
          BY <5>1, <5>2
        <5>. QED  BY <4>0, <5>1, <5>2
      <4>2. S[L].of = o /\ S[L].pos = q + e  BY <3>2, <4>1
      <4>3. CASE i = 1
        <5>1. [of |-> k, pos |-> p + 1] = [of |-> o + 1, pos |-> 1]
          BY <3>5, <3>3, <4>1, <4>2, <4>3 DEF UnitAfter
        <5>. QED  BY <3>4, <4>3, <5>1
      <4>4. CASE i # 1
        <5>1. q + e < Size(o)  BY <4>1, <4>4, <3>1, <3>3
        <5>2. [of |-> k, pos |-> p + 1] = [of |-> o, pos |-> q + e + 1]
          BY <3>5, <5>1, <4>2 DEF UnitAfter
        <5>3. k = o /\ p + 1 = q + e + 1  BY <5>2
        <5>4. FALSE  BY <5>3, <4>1, <3>1, <3>3
        <5>. QED  BY <5>4
      <4>. QED  BY <4>3, <4>4
    <3>8. T[l].of = o /\ T[l].pos = q  BY <3>3, <3>9
    <3>. QED  BY <3>3, <3>6, <3>7, <3>8
  <2>4. ASSUME NEW i \in 1 .. n, m = L + i, NEW j \in 1 .. n, l = L + j
        PROVE  /\ T[l].pos + d <= Size(T[l].of)
                    => T[m] = [of |-> T[l].of, pos |-> T[l].pos + d]
               /\ T[l].pos + d = Size(T[l].of) + 1
                    => T[m] = [of |-> T[l].of + 1, pos |-> 1]
    <3>1. T[l] = [of |-> k, pos |-> p + j] /\ T[m] = [of |-> k, pos |-> p + i]
      BY <1>2, <2>4
    <3>2. p + j + d = p + i  BY <1>2, <2>0, <2>1, <2>4
    <3>3. Size(k) \in Nat  BY <1>3
    <3>4. p + i <= Size(k)  BY <3>3
    <3>5. T[l].of = k /\ T[l].pos + d = p + i  BY <3>1, <3>2
    <3>. QED  BY <3>1, <3>3, <3>4, <3>5
  <2>. QED  BY <1>6, <2>1, <2>2, <2>3, <2>4
<1>9. StartsAtCurrent'
  <2>1. Current' = Current  BY DEF Current
  <2>2. CASE L = 0
    <3>1. T[1] = [of |-> k, pos |-> p + 1]
      <4>1. 1 \in 1 .. n /\ L + 1 = 1  BY <2>2
      <4>. QED  BY <1>2, <4>1
    <3>. QED  BY <2>1, <2>2, <3>1 DEF StartsAtCurrent, T, L
  <2>3. CASE L # 0
    <3>1. L > 0 /\ 1 \in 1 .. L  BY <1>2, <2>3
    <3>2. T[1] = S[1]  BY <1>2, <3>1
    <3>. QED  BY <2>1, <3>1, <3>2 DEF StartsAtCurrent, T, S, L
  <2>. QED  BY <2>2, <2>3
<1>10. T[Len(T)] = [of |-> k, pos |-> p + n]
  <2>1. n \in 1 .. n  OBVIOUS
  <2>. QED  BY <1>2, <2>1
<1>. QED  BY <1>2, <1>7, <1>8, <1>9, <1>10 DEF T, L
(* The stream stays as it is: so does what is said of it.                  *)
LEMMA StreamSame ==
  ASSUME UnitsBegun, InOrder, StartsAtCurrent,
         Stream' = Stream, begun' = begun, received' = received
  PROVE  UnitsBegun' /\ InOrder' /\ StartsAtCurrent'
<1>1. UnitsBegun'  BY DEF UnitsBegun, Size
<1>2. InOrder'  BY DEF InOrder, Size
<1>3. StartsAtCurrent'  BY DEF StartsAtCurrent, Current
<1>. QED  BY <1>1, <1>2, <1>3

(* What a receiver that has read a head has in its buffer.                 *)
LEMMA InBuffer ==
  ASSUME IInv, HeadLen <= Len(buf)
  PROVE  /\ Current \in 1 .. Len(begun)
         /\ buf[HeadLen].of = Current
         /\ Size(Current) \in Nat /\ HeadLen <= Size(Current)
         /\ \A p \in 1 .. Len(buf) :
              p <= Size(Current) => buf[p] = [of |-> Current, pos |-> p]
<1>1. HeadLen \in Nat \ {0}  BY LengthAssumption
<1>2. /\ Stream \in Seq(Units) /\ Len(buf) \in Nat /\ Len(socket) \in Nat
      /\ Len(Stream) = Len(buf) + Len(socket)
      /\ \A l \in 1 .. Len(buf) : Stream[l] = buf[l]
  BY StreamFacts DEF IInv, Typed, Stream
<1>3. 1 \in 1 .. Len(Stream) /\ HeadLen \in 1 .. Len(buf)  BY <1>1, <1>2
<1>4. Stream[1] = [of |-> Current, pos |-> 1]
  BY <1>3 DEF IInv, StartsAtCurrent
<1>5. Current \in 1 .. Len(begun)  BY <1>3, <1>4 DEF IInv, UnitsBegun
<1>6. Size(Current) \in Nat /\ HeadLen <= Size(Current)
  BY <1>1, <1>5, Lengths DEF IInv, Typed, Size
<1>7. ASSUME NEW p \in 1 .. Len(buf), p <= Size(Current)
      PROVE  buf[p] = [of |-> Current, pos |-> p]
  <2>1. p \in 1 .. Len(Stream) /\ 1 <= p /\ 1 + (p - 1) = p  BY <1>2
  <2>2. Stream[1].pos + (p - 1) <= Size(Stream[1].of)
          => Stream[p] = [of |-> Stream[1].of, pos |-> Stream[1].pos + (p - 1)]
    BY <1>3, <2>1 DEF IInv, InOrder
  <2>3. Stream[p] = [of |-> Current, pos |-> p]  BY <1>4, <1>7, <2>1, <2>2
  <2>. QED  BY <1>2, <2>3
<1>8. buf[HeadLen] = [of |-> Current, pos |-> HeadLen]  BY <1>3, <1>6, <1>7
<1>. QED  BY <1>5, <1>6, <1>7, <1>8

(* Where the thread that is inside a frame is in it.                       *)
LEMMA AtSender ==
  ASSUME IInv, NEW t \in Threads, pc[t] \in {"head", "payload"}
  PROVE  /\ m_mutex = {t} /\ Sending = {t}
         /\ mine[t] = Len(begun) /\ Len(begun) \in 1 .. Len(begun)
         /\ nleft[t] \in Nat /\ SentOf(t) \in Nat
         /\ begun[Len(begun)] \in Frames /\ begun[Len(begun)].len \in Nat
         /\ Size(Len(begun)) = HeadLen + begun[Len(begun)].len
         /\ pc[t] = "head" => SentOf(t) + nleft[t] = HeadLen
         /\ pc[t] = "payload" => SentOf(t) + nleft[t] = Size(Len(begun))
         /\ pc[t] \in {"head", "payload"}
         /\ \A s \in Threads : s # t => pc[s] = "idle"
<1>1. /\ m_mutex = {t} /\ mine[t] = Len(begun) /\ Len(begun) > 0
      /\ nleft[t] <= PartLen(t) /\ Sending = {t}
      /\ \A s \in Threads : s # t => pc[s] = "idle"
  BY DEF IInv, Holding, Sending
<1>2. Len(begun) \in Nat  BY LenProperties DEF IInv, Typed
<1>3. nleft[t] \in Nat /\ pc[t] \in {"head", "payload"}  BY DEF IInv, Typed
<1>4. /\ begun[Len(begun)] \in Frames /\ begun[Len(begun)].len \in Nat
  BY <1>1, <1>2, Lengths DEF IInv, Typed
<1>5. HeadLen \in Nat  BY LengthAssumption
<1>6. Size(Len(begun)) = HeadLen + begun[Len(begun)].len  BY DEF Size
<1>7. CASE pc[t] = "head"
  <2>1. nleft[t] <= HeadLen /\ SentOf(t) = HeadLen - nleft[t]
    BY <1>1, <1>7 DEF PartLen, SentOf
  <2>2. SentOf(t) \in Nat /\ SentOf(t) + nleft[t] = HeadLen
    BY <2>1, <1>3, <1>5
  <2>. QED  BY <1>1, <1>2, <1>3, <1>4, <1>6, <1>7, <2>2
<1>8. CASE pc[t] = "payload"
  <2>1. /\ nleft[t] <= begun[Len(begun)].len
        /\ SentOf(t) = Size(Len(begun)) - nleft[t]
    BY <1>1, <1>8 DEF PartLen, SentOf
  <2>2. SentOf(t) \in Nat /\ SentOf(t) + nleft[t] = Size(Len(begun))
    BY <2>1, <1>3, <1>4, <1>5, <1>6
  <2>. QED  BY <1>1, <1>2, <1>3, <1>4, <1>6, <1>8, <2>2
<1>. QED  BY <1>3, <1>7, <1>8

-----------------------------------------------------------------------------
(* The sender's steps.                                                     *)

(* The thread that has the mutex begins a frame.                           *)
LEMMA BeginKeeps ==
  ASSUME IInv, NEW t \in Threads, NEW f \in Frames, Begin(t, f)
  PROVE  IInv'
<1>. DEFINE N == Len(begun)
<1>0. HeadLen \in Nat \ {0}  BY LengthAssumption
<1>1. /\ pc[t] = "ensure" /\ m_mutex' = m_mutex
      /\ pc' = [pc EXCEPT ![t] = "head"]
      /\ nleft' = [nleft EXCEPT ![t] = HeadLen]
      /\ begun' = Append(begun, f)
      /\ mine' = [mine EXCEPT ![t] = Len(begun')]
      /\ socket' = socket /\ up' = up /\ reader' = reader /\ buf' = buf
      /\ received' = received
  BY DEF Begin, linkVars, recvVars
<1>2. /\ begun' \in Seq(Frames) /\ Len(begun') = N + 1 /\ N \in Nat
      /\ \A i \in 1 .. N : begun'[i] = begun[i]
      /\ begun'[N + 1] = f
  BY <1>1, AppendProperties, LenProperties DEF IInv, Typed
<1>3. Typed'  BY <1>0, <1>1, <1>2 DEF IInv, Typed
<1>4. Stream' = Stream /\ Current' = Current  BY <1>1 DEF Stream, Current
<1>5. /\ m_mutex = {t} /\ Sending = {}
      /\ \A s \in Threads : s # t => pc[s] = "idle"
  BY <1>1 DEF IInv, Holding, Sending
<1>13. Sending' = {t}
  <2>1. \A s \in Threads : pc'[s] = IF s = t THEN "head" ELSE "idle"
    BY <1>1, <1>5 DEF IInv, Typed
  <2>. QED  BY <2>1 DEF Sending
<1>6. Holding'
  <2>1. ASSUME NEW s \in Threads
        PROVE  /\ pc'[s] # "idle" <=> m_mutex' = {s}
               /\ s \in m_mutex' => m_mutex' = {s}
               /\ s \in Sending' =>
                    /\ Len(begun') > 0 /\ mine'[s] = Len(begun')
                    /\ nleft'[s] <= PartLen(s)'
               /\ pc'[s] = "payload" => begun'[Len(begun')].type = "data"
    <3>1. CASE s = t
      <4>1. pc'[t] = "head" /\ nleft'[t] = HeadLen /\ mine'[t] = Len(begun')
        BY <1>1 DEF IInv, Typed
      <4>2. nleft'[t] <= PartLen(t)'  BY <4>1, <1>0 DEF PartLen
      <4>. QED  BY <1>1, <1>2, <1>5, <3>1, <4>1, <4>2
    <3>2. CASE s # t
      <4>1. pc'[s] = "idle" /\ s \notin m_mutex'
        BY <1>1, <1>5, <3>2 DEF IInv, Typed
      <4>. QED  BY <1>1, <1>5, <1>13, <3>2, <4>1
    <3>. QED  BY <3>1, <3>2
  <2>. QED  BY <2>1 DEF Holding
<1>7. \A i \in 1 .. N : Size(i)' = HeadLen + begun[i].len
  BY <1>2 DEF Size
<1>8. UnitsBegun'
  <2>1. ASSUME NEW l \in 1 .. Len(Stream)
        PROVE  /\ Stream[l].of \in 1 .. Len(begun')
               /\ Stream[l].pos \in 1 .. HeadLen + begun'[Stream[l].of].len
    <3>1. Stream[l].of \in 1 .. N /\ Stream[l].pos \in 1 .. Size(Stream[l].of)
      BY DEF IInv, UnitsBegun
    <3>. QED  BY <1>2, <3>1 DEF Size
  <2>. QED  BY <1>4, <2>1 DEF UnitsBegun, Size
<1>9. InOrder'
  <2>1. ASSUME NEW l \in 1 .. Len(Stream), NEW m \in 1 .. Len(Stream), l <= m
        PROVE  /\ Stream[l].pos + (m - l) <= HeadLen + begun'[Stream[l].of].len
                    => Stream[m] = [of |-> Stream[l].of, pos |-> Stream[l].pos + (m - l)]
               /\ Stream[l].pos + (m - l) = HeadLen + begun'[Stream[l].of].len + 1
                    => Stream[m] = [of |-> Stream[l].of + 1, pos |-> 1]
    <3>1. begun'[Stream[l].of] = begun[Stream[l].of]
      BY <1>2 DEF IInv, UnitsBegun
    <3>. QED  BY <2>1, <3>1 DEF IInv, InOrder, Size
  <2>. QED  BY <1>4, <2>1 DEF InOrder, Size
<1>10. StartsAtCurrent'  BY <1>4 DEF IInv, StartsAtCurrent
<1>11. SenderFollows'
  <2>6. SUFFICES ASSUME up  PROVE SenderFollows'
    BY <1>1 DEF SenderFollows
  <2>1. SentOf(t)' = 0
    <3>1. pc'[t] = "head" /\ nleft'[t] = HeadLen
      BY <1>1 DEF IInv, Typed
    <3>. QED  BY <3>1, <1>0 DEF SentOf
  <2>2. begun'[N + 1].len \in Nat  BY <1>2, Lengths
  <2>3. ASSUME NEW u, u = [of |-> N + 1, pos |-> 1]
        PROVE  /\ Sending' = {} => u = [of |-> Len(begun') + 1, pos |-> 1]
               /\ \A s \in Sending' :
                    u = IF SentOf(s)' < HeadLen + begun'[Len(begun')].len
                        THEN [of |-> Len(begun'), pos |-> SentOf(s)' + 1]
                        ELSE [of |-> Len(begun') + 1, pos |-> 1]
    BY <1>0, <1>1, <1>2, <1>13, <2>1, <2>2, <2>3
  <2>4. CASE Len(Stream) = 0
    <3>1. [of |-> Current, pos |-> 1] = [of |-> N + 1, pos |-> 1]
      BY <1>5, <2>4, <2>6 DEF IInv, SenderFollows, IsNext
    <3>2. IsNext([of |-> Current, pos |-> 1])'
      BY <1>4, <2>3, <3>1 DEF IsNext, UnitAfter, Size
    <3>. QED  BY <1>4, <2>4, <3>2 DEF SenderFollows
  <2>5. CASE Len(Stream) # 0
    <3>. DEFINE z == Stream[Len(Stream)]
    <3>1. Len(Stream) \in 1 .. Len(Stream) /\ Len(Stream) > 0
      BY <2>5, StreamFacts DEF IInv, Typed, Stream
    <3>2. UnitAfter(z.of, z.pos) = [of |-> N + 1, pos |-> 1]
      BY <1>5, <2>6, <3>1 DEF IInv, SenderFollows, IsNext
    <3>3. z.of \in 1 .. N  BY <3>1 DEF IInv, UnitsBegun
    <3>4. begun'[z.of] = begun[z.of]  BY <1>2, <3>3
    <3>5. (IF z.pos < HeadLen + begun'[z.of].len
           THEN [of |-> z.of, pos |-> z.pos + 1]
           ELSE [of |-> z.of + 1, pos |-> 1]) = [of |-> N + 1, pos |-> 1]
      BY <3>2, <3>4 DEF UnitAfter, Size
    <3>6. IsNext(UnitAfter(Stream[Len(Stream)].of, Stream[Len(Stream)].pos))'
      BY <1>4, <2>3, <3>5 DEF IsNext, UnitAfter, Size
    <3>. QED  BY <1>4, <2>5, <3>6 DEF SenderFollows
  <2>. QED  BY <2>4, <2>5
<1>12. ReaderInPart'
  <2>1. CASE reader = "payload"
    <3>1. Current \in 1 .. N /\ HeadLen <= Len(buf)
      BY <2>1, InBuffer DEF IInv, ReaderInPart
    <3>2. begun'[Current] = begun[Current]  BY <1>2, <3>1
    <3>. QED  BY <1>1, <1>4, <2>1, <3>2 DEF IInv, ReaderInPart, Size
  <2>2. CASE reader # "payload"
    BY <1>1, <2>2 DEF IInv, ReaderInPart
  <2>. QED  BY <2>1, <2>2
<1>. QED  BY <1>3, <1>6, <1>8, <1>9, <1>10, <1>11, <1>12 DEF IInv
(* One send() of sendn().                                                  *)
LEMMA SendSomeKeeps ==
  ASSUME IInv, NEW t \in Threads, SendSome(t)
  PROVE  IInv'
<1>0. HeadLen \in Nat \ {0}  BY LengthAssumption
<1>1. PICK n \in 1 .. nleft[t] :
        /\ socket' = socket \o SubSeq(Unsent(t), 1, n)
        /\ nleft' = [nleft EXCEPT ![t] = @ - n]
  BY DEF SendSome
<1>2. /\ pc[t] \in {"head", "payload"} /\ up
      /\ m_mutex' = m_mutex /\ pc' = pc /\ begun' = begun /\ mine' = mine
      /\ up' = up /\ reader' = reader /\ buf' = buf /\ received' = received
  BY DEF SendSome, recvVars
<1>19. PICK k \in Nat, p \in Nat : k = Len(begun) /\ p = SentOf(t)
  <2>1. Len(begun) \in Nat  BY LenProperties DEF IInv, Typed
  <2>2. SentOf(t) \in Nat  BY <1>2, AtSender
  <2>. QED  BY <2>1, <2>2
<1>3. /\ m_mutex = {t} /\ Sending = {t} /\ mine[t] = k /\ k \in 1 .. Len(begun) /\ k \in Nat
      /\ nleft[t] \in Nat /\ p \in Nat
      /\ begun[k].len \in Nat /\ Size(k) = HeadLen + begun[k].len
      /\ pc[t] = "head" => p + nleft[t] = HeadLen
      /\ pc[t] = "payload" => p + nleft[t] = Size(k)
  BY <1>2, <1>19, AtSender
<1>4. n \in Nat \ {0} /\ n <= nleft[t]  BY <1>3
<1>5. p + n <= Size(k)
  <2>1. p + nleft[t] <= Size(k)
    <3>1. CASE pc[t] = "head"
      <4>1. HeadLen <= HeadLen + begun[k].len  BY <1>0, <1>3
      <4>. QED  BY <3>1, <4>1, <1>3
    <3>2. CASE pc[t] = "payload"
      <4>1. Size(k) \in Nat  BY <1>0, <1>3
      <4>. QED  BY <3>2, <4>1, <1>3
    <3>. QED  BY <3>1, <3>2, <1>2
  <2>2. Size(k) \in Nat  BY <1>0, <1>3
  <2>. QED  BY <2>1, <2>2, <1>3, <1>4
<1>6. \A i \in 1 .. nleft[t] : Unsent(t)[i] = [of |-> k, pos |-> p + i]
  <2>. DEFINE end == HeadLen + IF pc[t] = "head" THEN 0 ELSE FrameOf(t).len
  <2>1. Unsent(t) = [i \in 1 .. nleft[t] |->
                       [of |-> mine[t], pos |-> end - nleft[t] + i]]
    BY DEF Unsent
  <2>2. end - nleft[t] = p
    <3>1. CASE pc[t] = "head"
      <4>1. end = HeadLen  BY <3>1, <1>0
      <4>. QED  BY <4>1, <3>1, <1>0, <1>3
    <3>2. CASE pc[t] = "payload"
      <4>1. end = HeadLen + begun[k].len  BY <3>2, <1>3 DEF FrameOf
      <4>2. p + nleft[t] = HeadLen + begun[k].len  BY <3>2, <1>3
      <4>. HIDE DEF end
      <4>. QED  BY <4>1, <4>2, <1>0, <1>3
    <3>. QED  BY <3>1, <3>2, <1>2
  <2>. HIDE DEF end
  <2>3. mine[t] = k  BY <1>3
  <2>. QED  BY <2>1, <2>2, <2>3
<1>. DEFINE more == SubSeq(Unsent(t), 1, n)
<1>7. /\ more \in Seq(Units) /\ Len(more) = n
      /\ \A i \in 1 .. n : more[i] = [of |-> k, pos |-> p + i]
  <2>1. \A i \in 1 .. n : Unsent(t)[i] \in Units
    <3>1. \A i \in 1 .. n : i \in 1 .. nleft[t] /\ p + i \in Nat
      BY <1>3, <1>4
    <3>2. \A i \in 1 .. n : Unsent(t)[i] = [of |-> k, pos |-> p + i]
      BY <3>1, <1>6
    <3>3. \A i \in 1 .. n : [of |-> k, pos |-> p + i] \in Units
      BY <3>1 DEF Units
    <3>. QED  BY <3>2, <3>3
  <2>2. /\ more \in Seq(Units)
        /\ Len(more) = IF 1 <= n THEN n - 1 + 1 ELSE 0
        /\ \A i \in 1 .. n - 1 + 1 : more[i] = Unsent(t)[1 + i - 1]
    BY <2>1, <1>4, SubSeqProperties
  <2>3. Len(more) = n  BY <2>2, <1>4
  <2>4. ASSUME NEW i \in 1 .. n
        PROVE  more[i] = [of |-> k, pos |-> p + i]
    <3>1. i \in 1 .. n - 1 + 1 /\ 1 + i - 1 = i /\ i \in 1 .. nleft[t]
      BY <1>3, <1>4
    <3>2. more[i] = Unsent(t)[i]  BY <2>2, <3>1
    <3>. QED  BY <3>1, <3>2, <1>6
  <2>. QED  BY <2>2, <2>3, <2>4
<1>. HIDE DEF more
<1>8. Stream' = Stream \o more
  <2>1. socket' = socket \o more  BY <1>1 DEF more
  <2>2. (buf \o socket) \o more = buf \o (socket \o more)
    <3>1. buf \in Seq(Units) /\ socket \in Seq(Units) /\ more \in Seq(Units)
      BY <1>7 DEF IInv, Typed
    <3>. QED  BY <3>1, ConcatAssociative
  <2>. QED  BY <2>1, <2>2, <1>2 DEF Stream
<1>9. Len(Stream) \in Nat  BY StreamFacts DEF IInv, Typed, Stream
<1>10. p < Size(k)  BY <1>0, <1>3, <1>4, <1>5
<1>11. UnitAfter(k, p) = [of |-> k, pos |-> p + 1]  BY <1>10 DEF UnitAfter
<1>12. /\ Len(Stream) = 0
            => [of |-> k, pos |-> p + 1] = [of |-> Current, pos |-> 1]
       /\ Len(Stream) > 0
            => [of |-> k, pos |-> p + 1]
                 = UnitAfter(Stream[Len(Stream)].of, Stream[Len(Stream)].pos)
  <2>1. /\ Len(Stream) = 0 => IsNext([of |-> Current, pos |-> 1])
        /\ Len(Stream) > 0 =>
             IsNext(UnitAfter(Stream[Len(Stream)].of, Stream[Len(Stream)].pos))
    BY <1>2 DEF IInv, SenderFollows
  <2>2. ASSUME NEW u, IsNext(u)
        PROVE  u = [of |-> k, pos |-> p + 1]
    BY <2>2, <1>3, <1>11, <1>19 DEF IsNext
  <2>. QED  BY <2>1, <2>2
<1>13. /\ UnitsBegun' /\ InOrder' /\ StartsAtCurrent'
       /\ Len(Stream') = Len(Stream) + n
       /\ Stream'[Len(Stream')] = [of |-> k, pos |-> p + n]
  <2>1. Typed /\ UnitsBegun /\ InOrder /\ StartsAtCurrent  BY DEF IInv
  <2>2. begun' = begun /\ received' = received  BY <1>2
  <2>3. k \in 1 .. Len(begun)  BY <1>3
  <2>. QED  BY <2>1, <2>2, <2>3, <1>4, <1>5, <1>7, <1>8, <1>12, StreamGrows
<1>14. nleft'[t] = nleft[t] - n /\ \A s \in Threads : s # t => nleft'[s] = nleft[s]
  BY <1>1 DEF IInv, Typed
<1>15. Typed'
  <2>1. socket' \in Seq(Units)
    BY <1>1, <1>7, ConcatProperties DEF IInv, Typed, more
  <2>2. nleft[t] - n \in Nat  BY <1>3, <1>4
  <2>3. nleft' \in [Threads -> Nat]  BY <1>1, <2>2 DEF IInv, Typed
  <2>. QED  BY <1>2, <2>1, <2>3 DEF IInv, Typed
<1>16. Holding'
  <2>1. ASSUME NEW s \in Threads
        PROVE  PartLen(s)' = PartLen(s) /\ nleft'[s] <= nleft[s]
    <3>1. PartLen(s)' = PartLen(s)  BY <1>2 DEF PartLen
    <3>2. nleft[s] \in Nat  BY DEF IInv, Typed
    <3>. QED  BY <3>1, <3>2, <1>3, <1>4, <1>14
  <2>2. ASSUME NEW s \in Threads, s \in Sending
        PROVE  nleft'[s] <= PartLen(s)'
    <3>1. s = t  BY <2>2, <1>3
    <3>2. nleft[t] <= PartLen(t) /\ PartLen(t) \in Nat
      BY <1>0, <1>2, <1>3, <1>19 DEF IInv, Holding, PartLen, Sending
    <3>. QED  BY <2>1, <3>1, <3>2, <1>3, <1>4, <1>14
  <2>3. Sending' = Sending  BY <1>2 DEF Sending
  <2>. QED  BY <1>2, <2>2, <2>3 DEF IInv, Holding
<1>17. SenderFollows'
  <2>1. SentOf(t)' = p + n
    <3>1. CASE pc[t] = "head"
      <4>1. SentOf(t)' = HeadLen - (nleft[t] - n)
        BY <1>2, <1>14, <3>1 DEF SentOf
      <4>. QED  BY <4>1, <3>1, <1>0, <1>3, <1>4
    <3>2. CASE pc[t] = "payload"
      <4>1. SentOf(t)' = Size(k) - (nleft[t] - n)
        BY <1>2, <1>14, <1>19, <3>2 DEF SentOf, Size
      <4>. QED  BY <4>1, <3>2, <1>0, <1>3, <1>4
    <3>. QED  BY <3>1, <3>2, <1>2
  <2>2. \A i, j : UnitAfter(i, j)' = UnitAfter(i, j)
    BY <1>2 DEF UnitAfter, Size
  <2>3. IsNext(UnitAfter(k, p + n))'
    <3>1. Sending' = {t}  BY <1>2, <1>3 DEF Sending
    <3>2. SUFFICES UnitAfter(k, p + n)' = UnitAfter(Len(begun), SentOf(t))'
      BY <3>1 DEF IsNext
    <3>. QED  BY <2>1, <1>2, <1>19 DEF UnitAfter, Size
  <2>4. Len(Stream') > 0 /\ Len(Stream') # 0  BY <1>4, <1>9, <1>13
  <2>5. IsNext(UnitAfter(Stream[Len(Stream)].of, Stream[Len(Stream)].pos))'
    <3>1. Stream'[Len(Stream')].of = k /\ Stream'[Len(Stream')].pos = p + n
      BY <1>13
    <3>. QED  BY <3>1, <2>3, <1>2 DEF IsNext, UnitAfter, Size
  <2>. QED  BY <2>4, <2>5 DEF SenderFollows
<1>18. ReaderInPart'
  BY <1>2 DEF IInv, ReaderInPart, Current, Size
<1>. QED  BY <1>13, <1>15, <1>16, <1>17, <1>18 DEF IInv
(* The thread gives the mutex up: after its frame, or when sendn() failed. *)
LEMMA UnlockKeeps ==
  ASSUME IInv, NEW t \in Threads, pc[t] \in {"head", "payload"}, Unlock(t),
         socket' = socket, up' = up, reader' = reader, buf' = buf,
         received' = received,
         up => SentOf(t) = Size(Len(begun))
  PROVE  IInv'
<1>1. /\ m_mutex' = m_mutex \ {t}
      /\ pc' = [pc EXCEPT ![t] = "idle"]
      /\ nleft' = [nleft EXCEPT ![t] = 0]
      /\ mine' = [mine EXCEPT ![t] = 0]
      /\ begun' = begun
  BY DEF Unlock
<1>2. /\ m_mutex = {t} /\ Sending = {t} /\ Len(begun) \in 1 .. Len(begun)
      /\ \A s \in Threads : s # t => pc[s] = "idle"
  BY AtSender
<1>3. Stream' = Stream /\ Current' = Current  BY DEF Stream, Current
<1>4. m_mutex' = {}  BY <1>1, <1>2
<1>5. Typed'  BY <1>1, <1>4 DEF IInv, Typed
<1>6. \A s \in Threads : pc'[s] = "idle"  BY <1>1, <1>2 DEF IInv, Typed
<1>11. Sending' = {}  BY <1>6 DEF Sending
<1>7. Holding'  BY <1>4, <1>6, <1>11 DEF Holding
<1>8. UnitsBegun' /\ InOrder' /\ StartsAtCurrent'
  BY <1>1, <1>3, StreamSame DEF IInv
<1>9. SenderFollows'
  <2>1. SUFFICES ASSUME up
                 PROVE  SenderFollows'
    BY DEF SenderFollows
  <2>2. UnitAfter(Len(begun), SentOf(t)) = [of |-> Len(begun) + 1, pos |-> 1]
    <3>1. Size(Len(begun)) \in Nat  BY LengthAssumption, AtSender
    <3>. QED  BY <2>1, <3>1 DEF UnitAfter
  <2>3. \A u : IsNext(u) => u = [of |-> Len(begun) + 1, pos |-> 1]
    BY <1>2, <2>2 DEF IsNext
  <2>4. CASE Len(Stream) = 0
    <3>1. [of |-> Current, pos |-> 1] = [of |-> Len(begun) + 1, pos |-> 1]
      BY <2>1, <2>3, <2>4 DEF IInv, SenderFollows
    <3>2. IsNext([of |-> Current, pos |-> 1])'
      BY <1>1, <1>3, <1>11, <3>1 DEF IsNext
    <3>. QED  BY <1>3, <2>4, <3>2 DEF SenderFollows
  <2>5. CASE Len(Stream) # 0
    <3>0. Len(Stream) > 0
      BY <2>5, StreamFacts DEF IInv, Typed, Stream
    <3>1. UnitAfter(Stream[Len(Stream)].of, Stream[Len(Stream)].pos)
            = [of |-> Len(begun) + 1, pos |-> 1]
      BY <2>1, <2>3, <3>0 DEF IInv, SenderFollows
    <3>2. IsNext(UnitAfter(Stream[Len(Stream)].of, Stream[Len(Stream)].pos))'
      BY <1>1, <1>3, <1>11, <3>1 DEF IsNext, UnitAfter, Size
    <3>. QED  BY <1>3, <2>5, <3>2 DEF SenderFollows
  <2>. QED  BY <2>4, <2>5
<1>10. ReaderInPart'  BY <1>1, <1>3 DEF IInv, ReaderInPart, Size
<1>. QED  BY <1>5, <1>7, <1>8, <1>9, <1>10 DEF IInv

(* A head has gone: the payload follows, under the same lock, if any.      *)
LEMMA HeadSentKeeps ==
  ASSUME IInv, NEW t \in Threads, HeadSent(t)
  PROVE  IInv'
<1>0. HeadLen \in Nat \ {0}  BY LengthAssumption
<1>1. /\ pc[t] = "head" /\ nleft[t] = 0
      /\ socket' = socket /\ up' = up /\ reader' = reader /\ buf' = buf
      /\ received' = received
  BY DEF HeadSent, linkVars, recvVars
<1>2. /\ m_mutex = {t} /\ Sending = {t} /\ mine[t] = Len(begun) /\ Len(begun) \in 1 .. Len(begun)
      /\ begun[Len(begun)].len \in Nat
      /\ Size(Len(begun)) = HeadLen + begun[Len(begun)].len
      /\ SentOf(t) \in Nat /\ SentOf(t) + nleft[t] = HeadLen
      /\ \A s \in Threads : s # t => pc[s] = "idle"
  BY <1>1, AtSender
<1>3. SentOf(t) = HeadLen  BY <1>1, <1>2
<1>4. FrameOf(t) = begun[Len(begun)]  BY <1>2 DEF FrameOf
<1>5. CASE FrameOf(t).type # "data"
  <2>1. Unlock(t)  BY <1>5 DEF HeadSent
  <2>2. begun[Len(begun)].len = 0
    BY <1>2, <1>4, <1>5, Lengths DEF IInv, Typed
  <2>3. SentOf(t) = Size(Len(begun))  BY <1>0, <1>2, <1>3, <2>2
  <2>. QED  BY <1>1, <2>1, <2>3, UnlockKeeps
<1>6. CASE FrameOf(t).type = "data"
  <2>1. /\ pc' = [pc EXCEPT ![t] = "payload"]
        /\ nleft' = [nleft EXCEPT ![t] = begun[Len(begun)].len]
        /\ m_mutex' = m_mutex /\ begun' = begun /\ mine' = mine
    BY <1>4, <1>6 DEF HeadSent
  <2>2. /\ pc'[t] = "payload" /\ nleft'[t] = begun[Len(begun)].len
        /\ \A s \in Threads : s # t => pc'[s] = "idle"
    BY <1>2, <2>1 DEF IInv, Typed
  <2>9. Sending' = {t}  BY <1>1, <1>2, <2>2 DEF Sending
  <2>3. Stream' = Stream /\ Current' = Current
    BY <1>1 DEF Stream, Current
  <2>4. Typed'  BY <1>1, <1>2, <2>1 DEF IInv, Typed
  <2>5. Holding'
    <3>1. ASSUME NEW s \in Threads
          PROVE  /\ pc'[s] # "idle" <=> m_mutex' = {s}
                 /\ s \in m_mutex' => m_mutex' = {s}
                 /\ s \in Sending' =>
                      /\ Len(begun') > 0 /\ mine'[s] = Len(begun')
                      /\ nleft'[s] <= PartLen(s)'
                 /\ pc'[s] = "payload" => begun'[Len(begun')].type = "data"
      <4>1. CASE s = t
        <5>1. nleft'[t] <= PartLen(t)'
          BY <1>2, <2>1, <2>2 DEF PartLen
        <5>. QED  BY <1>2, <1>4, <1>6, <2>1, <2>2, <4>1, <5>1
      <4>2. CASE s # t  BY <1>2, <2>1, <2>2, <2>9, <4>2
      <4>. QED  BY <4>1, <4>2
    <3>. QED  BY <3>1 DEF Holding
  <2>6. UnitsBegun' /\ InOrder' /\ StartsAtCurrent'
    BY <1>1, <2>1, <2>3, StreamSame DEF IInv
  <2>7. SenderFollows'
    <3>1. SentOf(t)' = SentOf(t)
      <4>1. SentOf(t)' = Size(Len(begun)) - begun[Len(begun)].len
        BY <2>1, <2>2 DEF SentOf, Size
      <4>. QED  BY <4>1, <1>0, <1>2, <1>3
    <3>2. \A u : IsNext(u) => u = UnitAfter(Len(begun), SentOf(t))
      BY <1>2 DEF IsNext
    <3>3. /\ Sending' = {t}
          /\ UnitAfter(Len(begun), SentOf(t))' = UnitAfter(Len(begun), SentOf(t))
      BY <2>1, <2>9, <3>1 DEF UnitAfter, Size
    <3>4. SUFFICES ASSUME up
                   PROVE  SenderFollows'
      BY <1>1 DEF SenderFollows
    <3>5. CASE Len(Stream) = 0
      <4>1. [of |-> Current, pos |-> 1] = UnitAfter(Len(begun), SentOf(t))
        BY <3>2, <3>4, <3>5 DEF IInv, SenderFollows
      <4>2. IsNext([of |-> Current, pos |-> 1])'
        BY <2>3, <3>3, <4>1 DEF IsNext
      <4>. QED  BY <2>3, <3>5, <4>2 DEF SenderFollows
    <3>6. CASE Len(Stream) # 0
      <4>0. Len(Stream) > 0
        BY <3>6, StreamFacts DEF IInv, Typed, Stream
      <4>1. UnitAfter(Stream[Len(Stream)].of, Stream[Len(Stream)].pos)
              = UnitAfter(Len(begun), SentOf(t))
        BY <3>2, <3>4, <4>0 DEF IInv, SenderFollows
      <4>2. UnitAfter(Stream[Len(Stream)].of, Stream[Len(Stream)].pos)'
              = UnitAfter(Stream[Len(Stream)].of, Stream[Len(Stream)].pos)
        BY <2>1, <2>3 DEF UnitAfter, Size
      <4>3. IsNext(UnitAfter(Stream[Len(Stream)].of, Stream[Len(Stream)].pos))'
        BY <3>3, <4>1, <4>2 DEF IsNext
      <4>. QED  BY <2>3, <3>6, <4>3 DEF SenderFollows
    <3>. QED  BY <3>5, <3>6
  <2>8. ReaderInPart'  BY <1>1, <2>1, <2>3 DEF IInv, ReaderInPart, Size
  <2>. QED  BY <2>4, <2>5, <2>6, <2>7, <2>8 DEF IInv
<1>. QED  BY <1>5, <1>6

(* A payload has gone.                                                     *)
LEMMA PayloadSentKeeps ==
  ASSUME IInv, NEW t \in Threads, PayloadSent(t)
  PROVE  IInv'
<1>1. /\ pc[t] = "payload" /\ nleft[t] = 0 /\ Unlock(t)
      /\ socket' = socket /\ up' = up /\ reader' = reader /\ buf' = buf
      /\ received' = received
  BY DEF PayloadSent, linkVars, recvVars
<1>2. SentOf(t) \in Nat /\ SentOf(t) + nleft[t] = Size(Len(begun))
  BY <1>1, AtSender
<1>3. SentOf(t) = Size(Len(begun))  BY <1>1, <1>2
<1>. QED  BY <1>1, <1>3, UnlockKeeps

(* sendn() fails: the lock guard releases the mutex on the way out.        *)
LEMMA SendFailsKeeps ==
  ASSUME IInv, NEW t \in Threads, SendFails(t)
  PROVE  IInv'
<1>1. /\ pc[t] \in {"head", "payload"} /\ ~up /\ Unlock(t)
      /\ socket' = socket /\ up' = up /\ reader' = reader /\ buf' = buf
      /\ received' = received
  BY DEF SendFails, recvVars
<1>. QED  BY <1>1, UnlockKeeps

(* A step of a thread outside a frame, with the mutex or to get it.        *)
LEMMA OutsideKeeps ==
  ASSUME IInv, NEW t \in Threads, pc[t] \notin {"head", "payload"},
         m_mutex \in {{}, {t}},
         NEW to \in {"idle", "ensure", "recv", "reconnect", "elsewhere"},
         pc' = [pc EXCEPT ![t] = to],
         m_mutex' = IF to = "idle" THEN {} ELSE {t},
         nleft' \in [Threads -> Nat], mine' \in [Threads -> Nat],
         UNCHANGED begun
  PROVE  /\ Sending = {} /\ Sending' = {} /\ Holding'
         /\ UNCHANGED <<socket, up, recvVars>> => IInv'
<1>1. \A s \in Threads : s # t => pc[s] = "idle"
  BY DEF IInv, Holding
<1>2. \A s \in Threads : pc'[s] = IF s = t THEN to ELSE "idle"
  BY <1>1 DEF IInv, Typed
<1>3. Sending = {} /\ Sending' = {}
  BY <1>1, <1>2 DEF Sending
<1>4. Holding'
  BY <1>2, <1>3 DEF Holding
<1>5. ASSUME UNCHANGED <<socket, up, recvVars>> PROVE IInv'
  <2>1. Stream' = Stream /\ Current' = Current
    BY <1>5 DEF Stream, Current, recvVars
  <2>2. Typed'
    BY <1>5 DEF IInv, Typed, recvVars
  <2>3. UnitsBegun' /\ InOrder' /\ StartsAtCurrent'
    BY <1>5, <2>1, StreamSame DEF IInv, recvVars
  <2>4. SenderFollows'
    <3>1. IsNext([of |-> Current, pos |-> 1]) =>
            IsNext([of |-> Current, pos |-> 1])'
      BY <1>3, <2>1 DEF IsNext
    <3>2. IsNext(UnitAfter(Stream[Len(Stream)].of, Stream[Len(Stream)].pos)) =>
            IsNext(UnitAfter(Stream[Len(Stream)].of, Stream[Len(Stream)].pos))'
      BY <1>3, <2>1 DEF IsNext, UnitAfter, Size
    <3>. QED  BY <1>5, <2>1, <3>1, <3>2 DEF IInv, SenderFollows
  <2>5. ReaderInPart'
    BY <1>5, <2>1 DEF IInv, ReaderInPart, Size, recvVars
  <2>. QED  BY <1>4, <2>2, <2>3, <2>4, <2>5 DEF IInv
<1>. QED  BY <1>3, <1>4, <1>5

(* The steps of connect_ensure() and recv_data() that leave the connection *)
(* alone.                                                                  *)
LEMMA CallKeeps ==
  ASSUME IInv, NEW t \in Threads,
         \/ Lock(t) \/ BeginRecv(t) \/ DataReceived(t) \/ DataRecvFails(t)
         \/ Reconnected(t) \/ ReconnectFails(t)
  PROVE  IInv' /\ UNCHANGED <<begun, received>>
<1>1. /\ nleft \in [Threads -> Nat] /\ mine \in [Threads -> Nat]
      /\ pc[t] # "idle" => m_mutex = {t}
  BY DEF IInv, Typed, Holding
<1>2. CASE Lock(t) \/ BeginRecv(t) \/ Reconnected(t)
  BY <1>1, <1>2, OutsideKeeps DEF Lock, BeginRecv, Reconnected, linkVars, recvVars
<1>3. CASE DataReceived(t) \/ DataRecvFails(t) \/ ReconnectFails(t)
  <2>1. /\ pc[t] \in {"recv", "reconnect"} /\ Unlock(t)
        /\ UNCHANGED <<socket, up, recvVars>>
    BY <1>3 DEF DataReceived, DataRecvFails, ReconnectFails, linkVars
  <2>2. /\ m_mutex' = {} /\ pc' = [pc EXCEPT ![t] = "idle"]
        /\ nleft' \in [Threads -> Nat] /\ mine' \in [Threads -> Nat]
        /\ begun' = begun
    BY <1>1, <2>1 DEF Unlock
  <2>. QED
    BY <1>1, <2>1, <2>2, OutsideKeeps DEF recvVars
<1>. QED  BY <1>2, <1>3

-----------------------------------------------------------------------------
(* The receiver's steps.                                                   *)

(* When the receiver is in a payload, it wants what its head says.         *)
LEMMA WantedIsPart ==
  ASSUME IInv
  PROVE  /\ reader = "head" => Wanted = HeadLen /\ BytesRead = Len(buf)
         /\ reader = "payload" =>
              /\ Wanted = begun[Current].len
              /\ BytesRead = Len(buf) - HeadLen
              /\ Size(Current) = HeadLen + begun[Current].len
              /\ begun[Current].len \in Nat
<1>1. CASE reader = "payload"
  <2>1. HeadLen <= Len(buf)  BY <1>1 DEF IInv, ReaderInPart
  <2>2. buf[HeadLen].of = Current /\ Current \in 1 .. Len(begun)
    BY <2>1, InBuffer
  <2>3. begun[Current].len \in Nat  BY <2>2, Lengths DEF IInv, Typed
  <2>. QED  BY <1>1, <2>2, <2>3 DEF Wanted, BytesRead, Size
<1>2. CASE reader # "payload"  BY <1>2 DEF Wanted, BytesRead
<1>. QED  BY <1>1, <1>2

(* One recv() of recvn(): units go from the socket to the buffer.          *)
LEMMA RecvSomeKeeps ==
  ASSUME IInv, RecvSome
  PROVE  IInv'
<1>0. HeadLen \in Nat \ {0}  BY LengthAssumption
<1>1. /\ reader # "closed" /\ m_mutex' = m_mutex /\ pc' = pc /\ nleft' = nleft
      /\ begun' = begun /\ mine' = mine /\ up' = up /\ reader' = reader
      /\ received' = received
  BY DEF RecvSome, sendVars
<1>2. PICK n \in 1 .. Len(socket) :
        /\ BytesRead + n <= Wanted
        /\ buf' = buf \o SubSeq(socket, 1, n)
        /\ socket' = SubSeq(socket, n + 1, Len(socket))
  BY DEF RecvSome
<1>3. buf \in Seq(Units) /\ socket \in Seq(Units)  BY DEF IInv, Typed
<1>4. Len(socket) \in Nat /\ Len(buf) \in Nat /\ n \in Nat /\ n <= Len(socket)
  BY <1>3, LenProperties
<1>5. \A l \in 1 .. Len(socket) : socket[l] \in Units  BY <1>3, ElementOfSeq
<1>6. /\ SubSeq(socket, 1, n) \in Seq(Units)
      /\ Len(SubSeq(socket, 1, n)) = n
  <2>1. \A l \in 1 .. n : socket[l] \in Units  BY <1>4, <1>5
  <2>2. /\ SubSeq(socket, 1, n) \in Seq(Units)
        /\ Len(SubSeq(socket, 1, n)) = IF 1 <= n THEN n - 1 + 1 ELSE 0
    BY <2>1, <1>4, SubSeqProperties
  <2>. QED  BY <2>2
<1>7. socket' \in Seq(Units)
  <2>1. \A l \in n + 1 .. Len(socket) : socket[l] \in Units  BY <1>4, <1>5
  <2>2. SubSeq(socket, n + 1, Len(socket)) \in Seq(Units)
    BY <2>1, <1>4, SubSeqProperties
  <2>. QED  BY <2>2, <1>2
<1>8. SubSeq(socket, 1, n) \o socket' = socket
  <2>1. /\ 1 \in 1 .. Len(socket) + 1 /\ n \in 1 - 1 .. Len(socket)
        /\ Len(socket) \in n .. Len(socket)
    BY <1>4
  <2>2. SubSeq(socket, 1, n) \o SubSeq(socket, n + 1, Len(socket))
          = SubSeq(socket, 1, Len(socket))
    BY <2>1, <1>3, ConcatAdjacentSubSeq
  <2>3. SubSeq(socket, 1, Len(socket)) = socket
    BY <1>3, SubSeqFull
  <2>. QED  BY <2>2, <2>3, <1>2
<1>9. buf' \in Seq(Units) /\ Len(buf') = Len(buf) + n
  BY <1>2, <1>3, <1>6, ConcatProperties
<1>10. Stream' = Stream
  <2>1. (buf \o SubSeq(socket, 1, n)) \o socket'
          = buf \o (SubSeq(socket, 1, n) \o socket')
    BY <1>3, <1>6, <1>7, ConcatAssociative
  <2>. QED  BY <2>1, <1>2, <1>8 DEF Stream
<1>11. Current' = Current  BY <1>1 DEF Current
<1>12. Typed'  BY <1>1, <1>7, <1>9 DEF IInv, Typed
<1>13. Holding'  BY <1>1 DEF IInv, Holding, PartLen, Sending
<1>14. UnitsBegun' /\ InOrder' /\ StartsAtCurrent'
  BY <1>1, <1>10, StreamSame DEF IInv
<1>15. SenderFollows'
  <2>1. \A i, j : UnitAfter(i, j)' = UnitAfter(i, j)
    BY <1>1 DEF UnitAfter, Size
  <2>2. \A t : SentOf(t)' = SentOf(t)  BY <1>1 DEF SentOf, Size
  <2>3. IsNext([of |-> Current, pos |-> 1]) =>
          IsNext([of |-> Current, pos |-> 1])'
    BY <1>1, <1>11 DEF IsNext, UnitAfter, Sending, SentOf, Size
  <2>4. IsNext(UnitAfter(Stream[Len(Stream)].of, Stream[Len(Stream)].pos)) =>
          IsNext(UnitAfter(Stream[Len(Stream)].of, Stream[Len(Stream)].pos))'
    BY <1>1, <1>10 DEF IsNext, UnitAfter, Sending, SentOf, Size
  <2>. QED  BY <1>1, <1>10, <2>3, <2>4 DEF IInv, SenderFollows
<1>16. ReaderInPart'
  <2>1. CASE reader = "head"
    <3>1. Len(buf) + n <= HeadLen  BY <2>1, <1>2, WantedIsPart
    <3>. QED  BY <2>1, <3>1, <1>1, <1>9 DEF ReaderInPart
  <2>2. CASE reader = "payload"
    <3>1. /\ Len(buf) - HeadLen + n <= begun[Current].len
          /\ Size(Current) = HeadLen + begun[Current].len
          /\ begun[Current].len \in Nat
      BY <2>2, <1>2, WantedIsPart
    <3>2. HeadLen <= Len(buf) /\ begun[Current].type = "data"
      BY <2>2 DEF IInv, ReaderInPart
    <3>3. HeadLen <= Len(buf) + n /\ Len(buf) + n <= Size(Current)
      BY <3>1, <3>2, <1>0, <1>4
    <3>. QED  BY <2>2, <3>2, <3>3, <1>1, <1>9, <1>11 DEF ReaderInPart, Size
  <2>. QED  BY <2>1, <2>2, <1>1 DEF IInv, Typed
<1>. QED  BY <1>12, <1>13, <1>14, <1>15, <1>16 DEF IInv

(* The receiver has the whole current frame: it is the one that was begun. *)
LEMMA WholeFrame ==
  ASSUME IInv, HeadLen <= Len(buf), Len(buf) = Size(Current)
  PROVE  FrameRead = begun[Current] /\ Current \in 1 .. Len(begun)
<1>0. HeadLen \in Nat \ {0}  BY LengthAssumption
<1>1. /\ Current \in 1 .. Len(begun) /\ buf[HeadLen].of = Current
      /\ Size(Current) \in Nat
      /\ \A p \in 1 .. Len(buf) :
           p <= Size(Current) => buf[p] = [of |-> Current, pos |-> p]
  BY InBuffer
<1>2. \A p \in 1 .. Size(Current) : buf[p] = [of |-> Current, pos |-> p]
  BY <1>1
<1>3. buf \in [1 .. Size(Current) -> Units]
  BY LenProperties DEF IInv, Typed
<1>4. buf = [p \in 1 .. Size(Current) |-> [of |-> Current, pos |-> p]]
  BY <1>2, <1>3
<1>5. Size(Current) = HeadLen + begun[Current].len  BY DEF Size
<1>. QED  BY <1>1, <1>4, <1>5 DEF FrameRead

(* The receiver hands the frame to the callback and starts on the next.    *)
LEMMA ReceiveKeeps ==
  ASSUME IInv, Receive, HeadLen <= Len(buf), Len(buf) = Size(Current),
         m_mutex' = m_mutex, pc' = pc, nleft' = nleft, begun' = begun,
         mine' = mine, socket' = socket, up' = up
  PROVE  IInv'
<1>0. HeadLen \in Nat \ {0}  BY LengthAssumption
<1>. DEFINE c == Current
            Z == Len(buf)
<1>1. /\ FrameRead = begun[c] /\ c \in 1 .. Len(begun)
  BY WholeFrame
<1>2. /\ received' = Append(received, begun[c])
      /\ reader' = "head" /\ buf' = <<>>
  BY <1>1 DEF Receive
<1>3. /\ received' \in Seq(Frames) /\ Len(received') = Len(received) + 1
      /\ Len(received) \in Nat
  <2>1. begun[c] \in Frames  BY <1>1, ElementOfSeq DEF IInv, Typed
  <2>2. received \in Seq(Frames)  BY DEF IInv, Typed
  <2>. QED  BY <1>2, <2>1, <2>2, AppendProperties, LenProperties
<1>4. Current' = Current + 1 /\ Current \in Nat  BY <1>3 DEF Current
<1>5. /\ buf \in Seq(Units) /\ socket \in Seq(Units)
      /\ Stream \in Seq(Units) /\ Z \in Nat /\ Z > 0 /\ Len(socket) \in Nat
      /\ Len(Stream) = Z + Len(socket)
      /\ \A l \in 1 .. Z : Stream[l] = buf[l]
      /\ \A l \in 1 .. Len(socket) : Stream[Z + l] = socket[l]
  <2>1. buf \in Seq(Units) /\ socket \in Seq(Units)  BY DEF IInv, Typed
  <2>2. /\ Stream \in Seq(Units) /\ Z \in Nat /\ Len(socket) \in Nat
        /\ Len(Stream) = Z + Len(socket)
        /\ \A l \in 1 .. Z : Stream[l] = buf[l]
        /\ \A l \in 1 .. Len(socket) : Stream[Z + l] = socket[l]
    BY <2>1, StreamFacts DEF Stream
  <2>3. Z > 0  BY <1>0, <2>2
  <2>. QED  BY <2>1, <2>2, <2>3
<1>6. Stream' = socket
  BY <1>2, <1>5, ConcatEmptySeq DEF Stream
<1>7. Typed'
  <2>1. buf' \in Seq(Units)  BY <1>2, EmptySeq
  <2>. QED  BY <1>2, <1>3, <2>1 DEF IInv, Typed
<1>8. Holding'  BY DEF IInv, Holding, PartLen, Sending
<1>9. \A l \in 1 .. Len(socket) : Z + l \in 1 .. Len(Stream)  BY <1>5
<1>10. UnitsBegun'
  <2>1. ASSUME NEW l \in 1 .. Len(socket)
        PROVE  /\ socket[l].of \in 1 .. Len(begun)
               /\ socket[l].pos \in 1 .. Size(socket[l].of)
    <3>1. Z + l \in 1 .. Len(Stream) /\ socket[l] = Stream[Z + l]
      BY <1>5, <1>9
    <3>. QED  BY <3>1 DEF IInv, UnitsBegun
  <2>. QED  BY <2>1, <1>6 DEF UnitsBegun, Size
<1>11. InOrder'
  <2>1. ASSUME NEW l \in 1 .. Len(socket), NEW m \in 1 .. Len(socket), l <= m
        PROVE  /\ socket[l].pos + (m - l) <= Size(socket[l].of)
                    => socket[m]
                         = [of |-> socket[l].of, pos |-> socket[l].pos + (m - l)]
               /\ socket[l].pos + (m - l) = Size(socket[l].of) + 1
                    => socket[m] = [of |-> socket[l].of + 1, pos |-> 1]
    <3>1. /\ Z + l \in 1 .. Len(Stream) /\ socket[l] = Stream[Z + l]
          /\ Z + m \in 1 .. Len(Stream) /\ socket[m] = Stream[Z + m]
          /\ Z + l <= Z + m /\ (Z + m) - (Z + l) = m - l
      <4>1. /\ Z + l \in 1 .. Len(Stream) /\ socket[l] = Stream[Z + l]
            /\ Z + m \in 1 .. Len(Stream) /\ socket[m] = Stream[Z + m]
        BY <1>5, <1>9
      <4>2. Z + l <= Z + m /\ (Z + m) - (Z + l) = m - l
        <5>1. Z \in Nat  BY <1>5
        <5>. HIDE DEF Z
        <5>. QED  BY <5>1, <2>1
      <4>. QED  BY <4>1, <4>2
    <3>. DEFINE a == Z + l
                b == Z + m
    <3>2. /\ Stream[a].pos + (b - a) <= Size(Stream[a].of)
               => Stream[b]
                    = [of |-> Stream[a].of, pos |-> Stream[a].pos + (b - a)]
          /\ Stream[a].pos + (b - a) = Size(Stream[a].of) + 1
               => Stream[b] = [of |-> Stream[a].of + 1, pos |-> 1]
      <4>1. a \in 1 .. Len(Stream) /\ b \in 1 .. Len(Stream) /\ a <= b
        BY <3>1
      <4>. HIDE DEF a, b
      <4>. QED  BY <4>1 DEF IInv, InOrder
    <3>. QED  BY <3>1, <3>2
  <2>. QED  BY <2>1, <1>6 DEF InOrder, Size
<1>12. Stream[1] = [of |-> c, pos |-> 1] /\ 1 \in 1 .. Len(Stream)
  BY <1>5 DEF IInv, StartsAtCurrent
<1>13. StartsAtCurrent'
  <2>1. SUFFICES ASSUME Len(socket) > 0
                 PROVE  socket[1] = [of |-> c + 1, pos |-> 1]
    BY <1>4, <1>6 DEF StartsAtCurrent
  <2>2. /\ Z + 1 \in 1 .. Len(Stream) /\ socket[1] = Stream[Z + 1]
        /\ 1 <= Z + 1 /\ 1 + ((Z + 1) - 1) = Size(c) + 1
    BY <1>5, <2>1
  <2>3. Stream[1].pos + ((Z + 1) - 1) = Size(Stream[1].of) + 1
          => Stream[Z + 1] = [of |-> Stream[1].of + 1, pos |-> 1]
    <3>. DEFINE z == Z + 1
    <3>1. z \in 1 .. Len(Stream) /\ 1 <= z  BY <2>2
    <3>. HIDE DEF z
    <3>2. Stream[1].pos + (z - 1) = Size(Stream[1].of) + 1
            => Stream[z] = [of |-> Stream[1].of + 1, pos |-> 1]
      BY <1>12, <3>1 DEF IInv, InOrder
    <3>. QED  BY <3>2 DEF z
  <2>. QED  BY <1>12, <2>2, <2>3
<1>14. SenderFollows'
  <2>1. SUFFICES ASSUME up
                 PROVE  SenderFollows'
    BY DEF SenderFollows
  <2>2. IsNext(UnitAfter(Stream[Len(Stream)].of, Stream[Len(Stream)].pos))
    BY <2>1, <1>5 DEF IInv, SenderFollows
  <2>3. CASE Len(socket) = 0
    <3>1. Len(Stream) = Z /\ Z \in 1 .. Z /\ Z = Size(c)  BY <2>3, <1>5
    <3>2. Stream[Z] = [of |-> c, pos |-> Z]
      <4>1. buf[Z] = [of |-> c, pos |-> Z]  BY <3>1, InBuffer
      <4>. QED  BY <4>1, <3>1, <1>5
    <3>3. UnitAfter(Stream[Len(Stream)].of, Stream[Len(Stream)].pos)
            = [of |-> c + 1, pos |-> 1]
      <4>1. /\ Stream[Len(Stream)].of = c /\ Stream[Len(Stream)].pos = Z
            /\ ~(Z < Size(c))
        BY <3>1, <3>2, <1>5
      <4>. QED  BY <4>1 DEF UnitAfter
    <3>4. IsNext([of |-> c + 1, pos |-> 1])  BY <2>2, <3>3
    <3>5. IsNext([of |-> Current, pos |-> 1])'
      BY <3>4, <1>4 DEF IsNext, UnitAfter, Sending, SentOf, Size
    <3>. QED  BY <3>5, <2>3, <1>6 DEF SenderFollows
  <2>4. CASE Len(socket) # 0
    <3>1. Len(socket) \in 1 .. Len(socket) /\ Len(socket) > 0
      BY <2>4, <1>5
    <3>2. Stream[Len(Stream)] = socket[Len(socket)]  BY <3>1, <1>5
    <3>3. IsNext(UnitAfter(socket[Len(socket)].of, socket[Len(socket)].pos))
      BY <2>2, <3>2
    <3>4. IsNext(UnitAfter(Stream[Len(Stream)].of, Stream[Len(Stream)].pos))'
      BY <3>3, <1>6 DEF IsNext, UnitAfter, Sending, SentOf, Size
    <3>. QED  BY <3>1, <3>4, <1>6 DEF SenderFollows
  <2>. QED  BY <2>3, <2>4
<1>15. ReaderInPart'
  <2>1. Len(buf') = 0 /\ reader' = "head"  BY <1>2
  <2>. QED  BY <2>1, <1>0 DEF ReaderInPart
<1>. QED  BY <1>7, <1>8, <1>10, <1>11, <1>13, <1>14, <1>15 DEF IInv
(* A head was read: the frame is whole, or its payload is to come.         *)
LEMMA HeadReadStep ==
  ASSUME IInv, HeadRead
  PROVE  /\ IInv'
         /\ \/ received' = received
            \/ /\ received' = Append(received, begun[Current])
               /\ Current \in 1 .. Len(begun)
<1>0. HeadLen \in Nat \ {0}  BY LengthAssumption
<1>1. /\ reader = "head" /\ BytesRead = Wanted
      /\ m_mutex' = m_mutex /\ pc' = pc /\ nleft' = nleft /\ begun' = begun
      /\ mine' = mine /\ socket' = socket /\ up' = up
  BY DEF HeadRead, sendVars, linkVars
<1>2. Len(buf) = HeadLen  BY <1>1, WantedIsPart
<1>3. /\ Current \in 1 .. Len(begun) /\ buf[HeadLen].of = Current
      /\ HeadLen <= Size(Current) /\ HeadLen <= Len(buf)
  BY <1>0, <1>2, InBuffer
<1>4. CASE begun[Current].type = "data"
  <2>1. reader' = "payload" /\ buf' = buf /\ received' = received
    BY <1>3, <1>4 DEF HeadRead
  <2>2. Stream' = Stream /\ Current' = Current
    BY <1>1, <2>1 DEF Stream, Current
  <2>3. Typed'  BY <1>1, <2>1 DEF IInv, Typed
  <2>4. Holding'  BY <1>1 DEF IInv, Holding, PartLen, Sending
  <2>5. UnitsBegun' /\ InOrder' /\ StartsAtCurrent'
    BY <1>1, <2>1, <2>2, StreamSame DEF IInv
  <2>6. SenderFollows'
    <3>1. IsNext([of |-> Current, pos |-> 1]) =>
            IsNext([of |-> Current, pos |-> 1])'
      BY <1>1, <2>2 DEF IsNext, UnitAfter, Sending, SentOf, Size
    <3>2. IsNext(UnitAfter(Stream[Len(Stream)].of, Stream[Len(Stream)].pos)) =>
            IsNext(UnitAfter(Stream[Len(Stream)].of, Stream[Len(Stream)].pos))'
      BY <1>1, <2>2 DEF IsNext, UnitAfter, Sending, SentOf, Size
    <3>. QED  BY <1>1, <2>2, <3>1, <3>2 DEF IInv, SenderFollows
  <2>7. ReaderInPart'
    <3>1. Len(buf) <= Size(Current)  BY <1>2, <1>3
    <3>. QED  BY <1>1, <1>3, <1>4, <2>1, <2>2, <3>1 DEF ReaderInPart, Size
  <2>. QED  BY <2>1, <2>3, <2>4, <2>5, <2>6, <2>7 DEF IInv
<1>5. CASE begun[Current].type # "data"
  <2>1. Receive  BY <1>3, <1>5 DEF HeadRead
  <2>2. begun[Current].len = 0  BY <1>3, <1>5, Lengths DEF IInv, Typed
  <2>3. Len(buf) = Size(Current)  BY <1>0, <1>2, <2>2 DEF Size
  <2>4. IInv'  BY <1>1, <1>3, <2>1, <2>3, ReceiveKeeps
  <2>5. received' = Append(received, begun[Current])
    BY <1>3, <2>1, <2>3, WholeFrame DEF Receive
  <2>. QED  BY <1>3, <2>4, <2>5
<1>. QED  BY <1>4, <1>5

(* A payload was read: the frame is whole.                                 *)
LEMMA PayloadReadStep ==
  ASSUME IInv, PayloadRead
  PROVE  /\ IInv'
         /\ received' = Append(received, begun[Current])
         /\ Current \in 1 .. Len(begun)
<1>1. /\ reader = "payload" /\ BytesRead = Wanted /\ Receive
      /\ m_mutex' = m_mutex /\ pc' = pc /\ nleft' = nleft /\ begun' = begun
      /\ mine' = mine /\ socket' = socket /\ up' = up
  BY DEF PayloadRead, sendVars, linkVars
<1>2. HeadLen <= Len(buf)  BY <1>1 DEF IInv, ReaderInPart
<1>3. Len(buf) = Size(Current)
  <2>1. /\ Len(buf) - HeadLen = begun[Current].len
        /\ Size(Current) = HeadLen + begun[Current].len
    BY <1>1, WantedIsPart
  <2>2. Len(buf) \in Nat /\ HeadLen \in Nat
    BY LenProperties, LengthAssumption DEF IInv, Typed
  <2>3. begun[Current].len \in Nat  BY <1>1, WantedIsPart
  <2>. QED  BY <2>1, <2>2, <2>3
<1>4. FrameRead = begun[Current] /\ Current \in 1 .. Len(begun)
  BY <1>2, <1>3, WholeFrame
<1>5. received' = Append(received, begun[Current])
  BY <1>1, <1>4 DEF Receive
<1>6. IInv'  BY <1>1, <1>2, <1>3, ReceiveKeeps
<1>. QED  BY <1>4, <1>5, <1>6

(* recvn() fails: what it has read of a frame is forgotten.                *)
LEMMA RecvFailsKeeps ==
  ASSUME IInv, RecvFails
  PROVE  IInv'
<1>0. HeadLen \in Nat  BY LengthAssumption
<1>1. /\ ~up /\ socket = <<>> /\ reader' = "closed" /\ buf' = <<>>
      /\ m_mutex' = m_mutex /\ pc' = pc /\ nleft' = nleft /\ begun' = begun
      /\ mine' = mine /\ socket' = socket /\ up' = up /\ received' = received
  BY DEF RecvFails, sendVars, linkVars
<1>2. Stream' = <<>>
  BY <1>1, EmptySeq, ConcatEmptySeq DEF Stream
<1>3. Len(Stream') = 0  BY <1>2
<1>4. Typed'
  <2>1. buf' \in Seq(Units)  BY <1>1, EmptySeq
  <2>. QED  BY <1>1, <2>1 DEF IInv, Typed
<1>5. Holding'  BY <1>1 DEF IInv, Holding, PartLen, Sending
<1>6. UnitsBegun' /\ InOrder' /\ StartsAtCurrent'
  BY <1>3 DEF UnitsBegun, InOrder, StartsAtCurrent
<1>7. SenderFollows'  BY <1>1 DEF SenderFollows
<1>8. ReaderInPart'  BY <1>1 DEF ReaderInPart
<1>. QED  BY <1>4, <1>5, <1>6, <1>7, <1>8 DEF IInv

(* The connection ends: what is in the socket is still there, or lost.     *)
LEMMA EndsKeeps ==
  ASSUME IInv, Ends, Holding', m_mutex' \in SUBSET Threads,
         pc' \in [Threads -> {"idle", "ensure", "head", "payload", "recv",
                              "reconnect", "elsewhere"}],
         UNCHANGED <<nleft, begun, mine, recvVars>>
  PROVE  IInv'
<1>1. /\ up' = FALSE /\ (socket' = socket \/ socket' = <<>>)
      /\ nleft' = nleft /\ begun' = begun
      /\ mine' = mine /\ reader' = reader /\ buf' = buf
      /\ received' = received
  BY DEF Ends, recvVars
<1>2. Typed'
  <2>1. socket' \in Seq(Units)  BY <1>1, EmptySeq DEF IInv, Typed
  <2>. QED  BY <1>1, <2>1 DEF IInv, Typed
<1>4. Current' = Current  BY <1>1 DEF Current
<1>5. SenderFollows'  BY <1>1 DEF SenderFollows
<1>6. ReaderInPart'  BY <1>1, <1>4 DEF IInv, ReaderInPart, Size
<1>7. UnitsBegun' /\ InOrder' /\ StartsAtCurrent'
  <2>1. CASE socket' = socket
    <3>1. Stream' = Stream  BY <1>1, <2>1 DEF Stream
    <3>. QED  BY <1>1, <3>1, StreamSame DEF IInv
  <2>2. CASE socket' = <<>>
    <3>1. /\ Stream \in Seq(Units) /\ Len(buf) \in Nat /\ Len(socket) \in Nat
          /\ Len(Stream) = Len(buf) + Len(socket)
          /\ \A l \in 1 .. Len(buf) : Stream[l] = buf[l]
      BY StreamFacts DEF IInv, Typed, Stream
    <3>2. Stream' = buf
      BY <1>1, <2>2, ConcatEmptySeq DEF IInv, Typed, Stream
    <3>3. \A l \in 1 .. Len(buf) : l \in 1 .. Len(Stream)  BY <3>1
    <3>4. UnitsBegun'
      BY <1>1, <3>1, <3>2, <3>3 DEF IInv, UnitsBegun, Size
    <3>5. InOrder'
      <4>1. ASSUME NEW l \in 1 .. Len(buf), NEW m \in 1 .. Len(buf), l <= m
            PROVE  /\ buf[l].pos + (m - l) <= Size(buf[l].of)
                        => buf[m] = [of |-> buf[l].of, pos |-> buf[l].pos + (m - l)]
                   /\ buf[l].pos + (m - l) = Size(buf[l].of) + 1
                        => buf[m] = [of |-> buf[l].of + 1, pos |-> 1]
        <5>1. /\ buf[l] = Stream[l] /\ buf[m] = Stream[m]
              /\ l \in 1 .. Len(Stream) /\ m \in 1 .. Len(Stream)
          BY <3>1, <3>3
        <5>. QED  BY <4>1, <5>1 DEF IInv, InOrder
      <4>. QED  BY <1>1, <3>2, <4>1 DEF InOrder, Size
    <3>6. StartsAtCurrent'
      BY <1>4, <3>1, <3>2 DEF IInv, StartsAtCurrent
    <3>. QED  BY <3>4, <3>5, <3>6
  <2>. QED  BY <1>1, <2>1, <2>2
<1>. QED  BY <1>2, <1>5, <1>6, <1>7 DEF IInv

(* It breaks, or connect_ensure() closes it.                               *)
LEMMA EndingKeeps ==
  ASSUME IInv, Break \/ \E t \in Threads : CloseSocket(t)
  PROVE  IInv' /\ UNCHANGED <<begun, received>>
<1>1. CASE Break
  <2>1. Ends /\ UNCHANGED <<sendVars, recvVars>>
    BY <1>1 DEF Break
  <2>2. Holding'
    BY <2>1 DEF IInv, Holding, PartLen, Sending, sendVars
  <2>. QED  BY <2>1, <2>2, EndsKeeps DEF IInv, Typed, sendVars, recvVars
<1>2. ASSUME NEW t \in Threads, CloseSocket(t)
      PROVE  IInv' /\ UNCHANGED <<begun, received>>
  <2>1. /\ pc[t] = "ensure" /\ Ends /\ pc' = [pc EXCEPT ![t] = "reconnect"]
        /\ UNCHANGED <<m_mutex, nleft, begun, mine, recvVars>>
    BY <1>2 DEF CloseSocket
  <2>2. /\ m_mutex = {t} /\ m_mutex' \in SUBSET Threads
        /\ nleft' \in [Threads -> Nat] /\ mine' \in [Threads -> Nat]
        /\ pc' \in [Threads -> {"idle", "ensure", "head", "payload", "recv",
                                "reconnect", "elsewhere"}]
    BY <2>1 DEF IInv, Typed, Holding
  <2>3. Holding'  BY <2>1, <2>2, OutsideKeeps
  <2>. QED  BY <2>1, <2>2, <2>3, EndsKeeps DEF recvVars
<1>. QED  BY <1>1, <1>2

-----------------------------------------------------------------------------
(* At the start nothing was sent.                                          *)
LEMMA InitEstablishes == Init => IInv
<1>. SUFFICES ASSUME Init  PROVE IInv
  OBVIOUS
<1>. USE DEF Init
<1>1. Typed  BY EmptySeq DEF Typed
<1>2. Stream = <<>>  BY EmptySeq, ConcatEmptySeq DEF Stream
<1>3. Len(Stream) = 0 /\ Len(begun) = 0 /\ Len(received) = 0  BY <1>2
<1>8. Sending = {}  BY DEF Sending
<1>4. Holding  BY <1>8 DEF Holding
<1>5. UnitsBegun /\ InOrder /\ StartsAtCurrent
  BY <1>3 DEF UnitsBegun, InOrder, StartsAtCurrent
<1>6. SenderFollows  BY <1>3, <1>8 DEF SenderFollows, IsNext, Current
<1>7. ReaderInPart
  BY LengthAssumption DEF ReaderInPart
<1>. QED  BY <1>1, <1>4, <1>5, <1>6, <1>7 DEF IInv

(* A step that leaves alone all but m_is_connected keeps the invariant.    *)
LEMMA StutterKeeps ==
  ASSUME IInv, UNCHANGED <<sendVars, socket, up, recvVars>>
  PROVE  IInv'
BY DEF IInv, vars, sendVars, linkVars, recvVars, Typed, Holding, PartLen, UnitsBegun,
       InOrder, StartsAtCurrent, SenderFollows, IsNext, UnitAfter, SentOf, Sending,
       ReaderInPart, Stream, Size, Current

(* Every step keeps the invariant, and is a step of the channel.           *)
LEMMA StepKeeps ==
  ASSUME IInv, [Next]_vars
  PROVE  IInv' /\ [Channel!Next]_<<begun, received>>
<1>1. ASSUME NEW t \in Threads, NEW f \in Frames, Begin(t, f)
      PROVE  IInv' /\ Channel!Next
  <2>1. Channel!Send(f)  BY <1>1 DEF Begin, recvVars, Channel!Send
  <2>. QED  BY <1>1, <2>1, BeginKeeps DEF Channel!Next
<1>2. ASSUME NEW t \in Threads, SendSome(t)
      PROVE  IInv' /\ UNCHANGED <<begun, received>>
  BY <1>2, SendSomeKeeps DEF SendSome, recvVars
<1>3. ASSUME NEW t \in Threads, HeadSent(t)
      PROVE  IInv' /\ UNCHANGED <<begun, received>>
  BY <1>3, HeadSentKeeps DEF HeadSent, Unlock, recvVars
<1>4. ASSUME NEW t \in Threads, PayloadSent(t)
      PROVE  IInv' /\ UNCHANGED <<begun, received>>
  BY <1>4, PayloadSentKeeps DEF PayloadSent, Unlock, recvVars
<1>5. ASSUME NEW t \in Threads, SendFails(t)
      PROVE  IInv' /\ UNCHANGED <<begun, received>>
  BY <1>5, SendFailsKeeps DEF SendFails, Unlock, recvVars
<1>6. ASSUME Current \in 1 .. Len(begun), begun' = begun,
             received' = Append(received, begun[Current])
      PROVE  Channel!Next
  <2>1. Len(received) < Len(begun)
    BY <1>6, LenProperties DEF IInv, Typed, Current
  <2>. QED  BY <1>6, <2>1 DEF Channel!Next, Channel!Deliver, Current
<1>7. CASE RecvSome
  BY <1>7, RecvSomeKeeps DEF RecvSome, sendVars
<1>8. CASE HeadRead
  <2>1. begun' = begun  BY <1>8 DEF HeadRead, sendVars
  <2>. QED  BY <1>6, <1>8, <2>1, HeadReadStep
<1>9. CASE PayloadRead
  <2>1. begun' = begun  BY <1>9 DEF PayloadRead, sendVars
  <2>. QED  BY <1>6, <1>9, <2>1, PayloadReadStep
<1>10. CASE RecvFails
  BY <1>10, RecvFailsKeeps DEF RecvFails, sendVars
<1>11. CASE Break \/ \E t \in Threads : CloseSocket(t)
  BY <1>11, EndingKeeps
<1>12. CASE KeepAlive \/ UNCHANGED vars
  BY <1>12, StutterKeeps DEF KeepAlive, vars, linkVars, sendVars, recvVars
<1>13. ASSUME NEW t \in Threads,
              \/ Lock(t) \/ BeginRecv(t) \/ DataReceived(t) \/ DataRecvFails(t)
              \/ Reconnected(t) \/ ReconnectFails(t)
       PROVE  IInv' /\ UNCHANGED <<begun, received>>
  BY <1>13, CallKeeps
<1>. QED
  BY <1>1, <1>2, <1>3, <1>4, <1>5, <1>7, <1>8, <1>9, <1>10, <1>11, <1>12, <1>13
     DEF Next, ThreadStep, ReaderStep

-----------------------------------------------------------------------------
(* Only the thread that holds the mutex is in a frame, the one that was    *)
(* begun last, and the units between the two ends are, in order, those     *)
(* that the receiver misses and the senders have sent.                     *)
THEOREM IInvHolds == Spec => []IInv
BY InitEstablishes, StepKeeps, PTL DEF Spec

(* However send() and recv() cut them, whichever threads send, and whether *)
(* the connection breaks or not, the frames that arrive are those whose    *)
(* sending began, whole and in that order.                                 *)
THEOREM Implementation == Spec => ImplementsChannel
<1>1. Init => Channel!Init  BY DEF Init, Channel!Init
<1>2. IInv /\ [Next]_vars => [Channel!Next]_<<begun, received>>
  BY StepKeeps
<1>. QED  BY <1>1, <1>2, IInvHolds, PTL DEF Spec, ImplementsChannel, Channel!Spec
=============================================================================
