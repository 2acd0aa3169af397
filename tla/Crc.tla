---------------------------------- MODULE Crc ----------------------------------
(***************************************************************************)
(* The checksum of the requests on the serial line, CRC-16 as Modbus wants *)
(* it: crc_comlete() appends it to the six bytes of a request.  It ignores *)
(* the Poly and OutputXOR it is given and works for 16 bits only.          *)
(*                                                                         *)
(* The requests for data live in two static arrays, whose address byte and *)
(* checksum are overwritten for every request; the one that changes an     *)
(* address is made anew.                                                   *)
(***************************************************************************)
EXTENDS Naturals, Sequences

CONSTANTS
  Addrs,         \* the addresses that are used
  MaxRequests    \* bound: requests sent

ASSUME AddrAssumption == Addrs \subseteq 0 .. 255 /\ MaxRequests \in Nat

VARIABLES
  air_acquire, soil_acquire,   \* the static arrays
  sent,                        \* the request sent last
  requests                     \* how many were sent

vars == <<air_acquire, soil_acquire, sent, requests>>

(* A word is the set of its bits that are 1.                               *)
Bytes(seq) == [i \in DOMAIN seq |-> {k \in 0 .. 7 : (seq[i] \div 2^k) % 2 = 1}]

a \oplus b == (a \ b) \cup (b \ a)
Up(word, n) == {k + n : k \in word}
Down(word, n) == {k - n : k \in {j \in word : j >= n}}

(* Mutant of reverse: the shift is off by one.                             *)
ReversedShort(data, len) == {len - k : k \in data \ {0}}

reverse(data, len) == {len - 1 - k : k \in data}

Poly == {0, 2, 15}   \* 0x8005

(* One turn of the inner loop, on a uint16_t.                              *)
Shift(crc) ==
  LET up == Up(crc, 1) \ {16}
  IN  IF 15 \in crc THEN up \oplus Poly ELSE up

AddByte(crc, byte) ==
  LET turn[j \in 0 .. 8] == IF j = 0 THEN crc \oplus Up(reverse(byte, 8), 8)
                            ELSE Shift(turn[j - 1])
  IN  turn[8]

(* The register after the outer loop.                                      *)
Register(data) ==
  LET crc[i \in 0 .. Len(data)] == IF i = 0 THEN 0 .. 15
                                   ELSE AddByte(crc[i - 1], data[i])
  IN  crc[Len(data)]

crc_comlete(data) ==
  LET crc == reverse(Register(data), 16)
  IN  data \o <<crc \cap 0 .. 7, Down(crc, 8)>>

Init ==
  /\ air_acquire = Bytes(<<2, 3, 0, 0, 0, 5, 0, 0>>)
  /\ soil_acquire = Bytes(<<1, 3, 0, 0, 0, 7, 0, 0>>)
  /\ sent = <<>> /\ requests = 0

(* The array with a new address, completed in place.                       *)
Addressed(frame, addr) ==
  crc_comlete(Bytes(<<addr>>) \o SubSeq(frame, 2, 6))

CollectAir(addr) ==
  /\ air_acquire' = Addressed(air_acquire, addr)
  /\ sent' = air_acquire'
  /\ UNCHANGED soil_acquire

CollectSoil(addr) ==
  /\ soil_acquire' = Addressed(soil_acquire, addr)
  /\ sent' = soil_acquire'
  /\ UNCHANGED air_acquire

ChangeAddr(src, dst) ==
  /\ sent' = crc_comlete(Bytes(<<src, 6, 7, 208, 0, dst>>))
  /\ UNCHANGED <<air_acquire, soil_acquire>>

Next ==
  /\ requests < MaxRequests
  /\ requests' = requests + 1
  /\ \E a \in Addrs : \/ CollectAir(a) \/ CollectSoil(a)
                       \/ \E b \in Addrs : ChangeAddr(a, b)

Spec == Init /\ [][Next]_vars

-----------------------------------------------------------------------------
(* The definition of the checksum.  A polynomial over GF(2) is the set of  *)
(* its exponents.  The bits of a frame in the order of the wire are one,   *)
(* which x^16 + x^15 + x^2 + 1 must divide once the first sixteen of them  *)
(* are inverted.                                                           *)
Generator == {0, 2, 15, 16}

Polynomial(frame) ==
  {d \in 0 .. 8 * Len(frame) - 1 :
     LET pos == 8 * Len(frame) - 1 - d
     IN  pos % 8 \in frame[pos \div 8 + 1]}

(* Long division of a polynomial of degree below n.                        *)
DivideAt(d, poly) ==
  IF d \in poly THEN poly \oplus Up(Generator, d - 16) ELSE poly

Remainder(poly, n) ==
  LET rest[s \in 0 .. n - 16] == IF s = 0 THEN poly
                                 ELSE DivideAt(n - s, rest[s - 1])
  IN  rest[n - 16]

Accepted(frame) ==
  LET n == 8 * Len(frame)
  IN  Remainder(Polynomial(frame) \oplus (n - 16 .. n - 1), n) = {}

(* Every request that is sent, from a fresh array or one that was used     *)
(* before, is one its sensor accepts, and the last has no part of others.  *)
SentIsDivisible == sent # <<>> => Len(sent) = 8 /\ Accepted(sent)
=============================================================================
