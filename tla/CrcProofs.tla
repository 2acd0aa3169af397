------------------------------- MODULE CrcProofs -------------------------------
(***************************************************************************)
(* Proofs about Crc: whatever bytes crc_comlete() is given, and however    *)
(* many, the frame it makes of them is one that the division accepts.      *)
(***************************************************************************)
EXTENDS Crc, WellFoundedInduction, SequenceTheorems, TLAPS

-----------------------------------------------------------------------------
(* Induction and iteration, for sets and functions instead of operators.   *)

(* A set that holds 0, and n + 1 whenever it holds n, holds every number.  *)
LEMMA Induction ==
  ASSUME NEW S, 0 \in S, \A n \in Nat : n \in S => n + 1 \in S
  PROVE  Nat \subseteq S
<1> DEFINE Less == OpToRel(<, Nat)
           Rest == Nat \ S
<1>1. IsWellFoundedOn(Less, Nat)
  BY NatLessThanWellFounded
<1>2. \A m, n \in Nat : m < n => <<m, n>> \in Less
  BY DEF OpToRel
<1> SUFFICES ASSUME Rest # {} PROVE FALSE
  OBVIOUS
<1>3. Rest \subseteq Nat
  OBVIOUS
<1> HIDE DEF Less, Rest
<1>4. PICK n \in Rest : \A m \in Rest : <<m, n>> \notin Less
  BY <1>1, <1>3, WFMin
<1>5. n \in Nat \ {0} /\ n - 1 \in Nat /\ n - 1 < n
  BY <1>3 DEF Rest
<1>6. n - 1 \in S
  BY <1>2, <1>4, <1>5 DEF Rest
<1> QED
  BY <1>5, <1>6 DEF Rest

Iterates(f, a, step, n) ==
  f[0] = a /\ \A i \in 1 .. n : f[i] = step[<<i, f[i - 1]>>]

(* The recursive function that applies step n times exists, and its values *)
(* are of the type of step.                                                *)
LEMMA Iteration ==
  ASSUME NEW T, NEW a \in T, NEW step \in [Nat \X T -> T], NEW n \in Nat
  PROVE  \E f \in [0 .. n -> T] : Iterates(f, a, step, n)
<1> USE DEF Iterates
<1> DEFINE Is(f, m) == f \in [0 .. m -> T] /\ Iterates(f, a, step, m)
           S == {m \in Nat : \E f : Is(f, m)}
<1>1. 0 \in S
  <2> DEFINE f == [i \in 0 .. 0 |-> a]
  <2>1. Is(f, 0)
    OBVIOUS
  <2> HIDE DEF Is, f
  <2> QED
    BY <2>1
<1>2. ASSUME NEW m \in Nat, m \in S PROVE m + 1 \in S
  <2>1. PICK f : Is(f, m)
    BY <1>2
  <2> DEFINE g == [i \in 0 .. m + 1 |->
                     IF i = m + 1 THEN step[<<i, f[m]>>] ELSE f[i]]
  <2>2. g \in [0 .. m + 1 -> T]
    BY <2>1
  <2>3. g[0] = a
    BY <2>1
  <2>4. ASSUME NEW i \in 1 .. m + 1 PROVE g[i] = step[<<i, g[i - 1]>>]
    <3>1. i - 1 \in 0 .. m /\ i - 1 # m + 1
      OBVIOUS
    <3>2. g[i - 1] = f[i - 1]
      BY <3>1
    <3>3. CASE i = m + 1
      BY <3>2, <3>3
    <3>4. CASE i \in 1 .. m
      <4>1. g[i] = f[i] /\ f[i] = step[<<i, f[i - 1]>>]
        BY <2>1, <3>4
      <4> HIDE DEF g
      <4> QED
        BY <3>2, <4>1
    <3> QED
      BY <3>3, <3>4
  <2>5. Is(g, m + 1)
    <3> HIDE DEF g
    <3> QED
      BY <2>2, <2>3, <2>4
  <2> HIDE DEF Is, g
  <2> QED
    BY <2>5
<1>3. Nat \subseteq S
  BY <1>1, <1>2, Induction
<1> QED
  BY <1>3

-----------------------------------------------------------------------------
(* Words and polynomials.                                                  *)

(* Polynomials have a degree.                                              *)
Polynomials == {p \in SUBSET Nat : \E n \in Nat : \A k \in p : k < n}

(* A shift by its members.                                                 *)
LEMMA Members ==
  ASSUME NEW a \in SUBSET Nat, NEW n \in Nat
  PROVE  /\ Up(a, n) \in SUBSET Nat
         /\ \A k : k \in Up(a, n) <=> k \in Nat /\ k >= n /\ k - n \in a
BY DEF Up

(* A sum holds what one of its terms holds.                                *)
LEMMA SumMembers ==
  ASSUME NEW a, NEW b
  PROVE  \A k : k \in a \oplus b <=> ~(k \in a <=> k \in b)
BY DEF \oplus

(* Sums and shifts of polynomials are polynomials.                         *)
LEMMA Closed ==
  ASSUME NEW a \in Polynomials, NEW b \in Polynomials, NEW n \in Nat
  PROVE  a \oplus b \in Polynomials /\ Up(a, n) \in Polynomials
<1>1. PICK i \in Nat : \A k \in a : k < i
  BY DEF Polynomials
<1>2. PICK j \in Nat : \A k \in b : k < j
  BY DEF Polynomials
<1>3. \A k \in a \oplus b : k < i + j
  BY <1>1, <1>2 DEF \oplus, Polynomials
<1>4. \A k \in Up(a, n) : k < i + n
  BY <1>1 DEF Up, Polynomials
<1>5. a \oplus b \in SUBSET Nat /\ Up(a, n) \in SUBSET Nat
  BY DEF \oplus, Up, Polynomials
<1>6. i + j \in Nat /\ i + n \in Nat
  OBVIOUS
<1> QED
  BY <1>3, <1>4, <1>5, <1>6 DEF Polynomials

-----------------------------------------------------------------------------
(* Congruence modulo the generator.                                        *)

Multiple(q) == (Up(q, 16) \oplus Up(q, 15)) \oplus (Up(q, 2) \oplus q)

Congruent(a, b) == \E q \in Polynomials : a \oplus b = Multiple(q)

(* Sums may be reordered, and a sum with itself is nothing.                *)
LEMMA SumLaws ==
  ASSUME NEW a, NEW b, NEW c, NEW d
  PROVE  /\ a \oplus b = b \oplus a
         /\ (a \oplus b) \oplus c = a \oplus (b \oplus c)
         /\ (a \oplus c) \oplus (b \oplus d) = (a \oplus b) \oplus (c \oplus d)
         /\ a \oplus a = {}
<1>1. a \oplus b = b \oplus a /\ a \oplus a = {}
  BY DEF \oplus
<1>2. (a \oplus b) \oplus c = a \oplus (b \oplus c)
  <2>1. ASSUME NEW k
        PROVE  k \in (a \oplus b) \oplus c <=> k \in a \oplus (b \oplus c)
    BY DEF \oplus
  <2> QED
    BY <2>1 DEF \oplus
<1>3. (a \oplus c) \oplus (b \oplus d) = (a \oplus b) \oplus (c \oplus d)
  <2>1. ASSUME NEW k
        PROVE  k \in (a \oplus c) \oplus (b \oplus d)
                 <=> k \in (a \oplus b) \oplus (c \oplus d)
    BY DEF \oplus
  <2> QED
    BY <2>1 DEF \oplus
<1> QED
  BY <1>1, <1>2, <1>3

(* A shift distributes over a sum.                                         *)
LEMMA UpSum ==
  ASSUME NEW a \in SUBSET Nat, NEW b \in SUBSET Nat, NEW n \in Nat
  PROVE  Up(a \oplus b, n) = Up(a, n) \oplus Up(b, n)
<1>1. a \oplus b \in SUBSET Nat
  BY DEF \oplus
<1>2. ASSUME NEW k
      PROVE  k \in Up(a \oplus b, n) <=> k \in Up(a, n) \oplus Up(b, n)
  <2>1. k \in Up(a \oplus b, n) <=> k \in Nat /\ k >= n /\ k - n \in a \oplus b
    BY <1>1, Members
  <2>2. /\ k \in Up(a, n) <=> k \in Nat /\ k >= n /\ k - n \in a
        /\ k \in Up(b, n) <=> k \in Nat /\ k >= n /\ k - n \in b
    BY Members
  <2> QED
    BY <2>1, <2>2 DEF \oplus
<1> QED
  BY <1>2 DEF \oplus

(* Two shifts are one.                                                     *)
LEMMA UpTwice ==
  ASSUME NEW a \in SUBSET Nat, NEW m \in Nat, NEW n \in Nat, NEW s, s = m + n
  PROVE  Up(Up(a, m), n) = Up(a, s)
<1>1. Up(a, m) \in SUBSET Nat /\ s \in Nat
  BY Members
<1>2. ASSUME NEW k PROVE k \in Up(Up(a, m), n) <=> k \in Up(a, s)
  <2>1. k \in Up(Up(a, m), n) <=> k \in Nat /\ k >= n /\ k - n \in Up(a, m)
    BY <1>1, Members
  <2>2. k \in Up(a, s) <=> k \in Nat /\ k >= m + n /\ k - (m + n) \in a
    BY <1>1, Members
  <2>3. k - n \in Up(a, m) <=> k - n \in Nat /\ k - n >= m /\ (k - n) - m \in a
    BY Members
  <2>4. k \in Nat => (k - n) - m = k - (m + n)
    OBVIOUS
  <2> QED
    BY <2>1, <2>2, <2>3, <2>4
<1> QED
  BY <1>2

(* A shift by nothing changes nothing.                                     *)
LEMMA UpNot == ASSUME NEW a \in SUBSET Nat PROVE Up(a, 0) = a
<1>1. ASSUME NEW k PROVE k \in Up(a, 0) <=> k \in a
  <2>1. k \in Up(a, 0) <=> k \in Nat /\ k >= 0 /\ k - 0 \in a
    BY Members
  <2>2. k \in Nat => k >= 0 /\ k - 0 = k
    OBVIOUS
  <2> QED
    BY <2>1, <2>2
<1> QED
  BY <1>1

(* The sum of two multiples is the multiple of the sum.                    *)
LEMMA MultipleSum ==
  ASSUME NEW q \in Polynomials, NEW r \in Polynomials
  PROVE  Multiple(q \oplus r) = Multiple(q) \oplus Multiple(r)
<1>1. q \in SUBSET Nat /\ r \in SUBSET Nat
  BY DEF Polynomials
<1>2. \A n \in Nat : Up(q \oplus r, n) = Up(q, n) \oplus Up(r, n)
  BY <1>1, UpSum
<1> DEFINE A(n) == Up(q, n)
           B(n) == Up(r, n)
<1>3. (A(16) \oplus B(16)) \oplus (A(15) \oplus B(15))
        = (A(16) \oplus A(15)) \oplus (B(16) \oplus B(15))
  BY SumLaws
<1>4. (A(2) \oplus B(2)) \oplus (q \oplus r)
        = (A(2) \oplus q) \oplus (B(2) \oplus r)
  BY SumLaws
<1>5. Multiple(q \oplus r)
        = ((A(16) \oplus A(15)) \oplus (B(16) \oplus B(15)))
            \oplus ((A(2) \oplus q) \oplus (B(2) \oplus r))
  BY <1>2, <1>3, <1>4 DEF Multiple
<1> QED
  BY <1>5, SumLaws DEF Multiple

(* A shifted multiple is the multiple of the shifted.                      *)
LEMMA MultipleUp ==
  ASSUME NEW q \in Polynomials, NEW n \in Nat
  PROVE  Multiple(Up(q, n)) = Up(Multiple(q), n)
<1>1. q \in SUBSET Nat
  BY DEF Polynomials
<1>2. \A m \in Nat : Up(q, m) \in SUBSET Nat
  BY <1>1, Members
<1>3. ASSUME NEW m \in Nat PROVE Up(Up(q, n), m) = Up(Up(q, m), n)
  <2>1. Up(Up(q, n), m) = Up(q, n + m) /\ Up(Up(q, m), n) = Up(q, n + m)
    BY <1>1, UpTwice
  <2> QED
    BY <2>1
<1>4. /\ Up(q, 16) \oplus Up(q, 15) \in SUBSET Nat
      /\ Up(q, 2) \oplus q \in SUBSET Nat
  BY <1>1, <1>2 DEF \oplus
<1>5. /\ Up(Up(q, 16) \oplus Up(q, 15), n)
           = Up(Up(q, 16), n) \oplus Up(Up(q, 15), n)
      /\ Up(Up(q, 2) \oplus q, n) = Up(Up(q, 2), n) \oplus Up(q, n)
  <2>1. \A a, b \in SUBSET Nat : Up(a \oplus b, n) = Up(a, n) \oplus Up(b, n)
    BY UpSum
  <2> QED
    BY <1>1, <1>2, <2>1
<1>6. Up(Multiple(q), n)
        = Up(Up(q, 16) \oplus Up(q, 15), n) \oplus Up(Up(q, 2) \oplus q, n)
  BY <1>4, UpSum DEF Multiple
<1> QED
  BY <1>3, <1>5, <1>6 DEF Multiple

(* Congruence is reflexive.                                                *)
LEMMA CongruentReflexive == \A a \in Polynomials : Congruent(a, a)
<1>1. {} \in Polynomials
  BY DEF Polynomials
<1>2. Multiple({}) = {}
  BY DEF Multiple, Up, \oplus
<1>3. \A a : a \oplus a = {}
  BY SumLaws
<1> QED
  BY <1>1, <1>2, <1>3 DEF Congruent

(* Congruence is transitive.                                               *)
LEMMA CongruentTransitive ==
  ASSUME NEW a, NEW b, NEW c, Congruent(a, b), Congruent(b, c)
  PROVE  Congruent(a, c)
<1>1. PICK q \in Polynomials : a \oplus b = Multiple(q)
  BY DEF Congruent
<1>2. PICK r \in Polynomials : b \oplus c = Multiple(r)
  BY DEF Congruent
<1>3. a \oplus c = (a \oplus b) \oplus (b \oplus c)
  <2>1. ASSUME NEW k
        PROVE  k \in a \oplus c <=> k \in (a \oplus b) \oplus (b \oplus c)
    BY DEF \oplus
  <2> QED
    BY <2>1 DEF \oplus
<1> QED
  BY <1>1, <1>2, <1>3, MultipleSum, Closed DEF Congruent

(* Sums of congruent polynomials are congruent.                            *)
LEMMA CongruentSum ==
  ASSUME NEW a, NEW b, NEW c, NEW d, Congruent(a, b), Congruent(c, d)
  PROVE  Congruent(a \oplus c, b \oplus d)
<1>1. PICK q \in Polynomials : a \oplus b = Multiple(q)
  BY DEF Congruent
<1>2. PICK r \in Polynomials : c \oplus d = Multiple(r)
  BY DEF Congruent
<1>3. (a \oplus c) \oplus (b \oplus d) = (a \oplus b) \oplus (c \oplus d)
  BY SumLaws
<1> QED
  BY <1>1, <1>2, <1>3, MultipleSum, Closed DEF Congruent

(* Shifts of congruent polynomials are congruent.                          *)
LEMMA CongruentUp ==
  ASSUME NEW a \in Polynomials, NEW b \in Polynomials, NEW n \in Nat,
         Congruent(a, b)
  PROVE  Congruent(Up(a, n), Up(b, n))
<1>1. PICK q \in Polynomials : a \oplus b = Multiple(q)
  BY DEF Congruent
<1>2. Up(a, n) \oplus Up(b, n) = Up(a \oplus b, n)
  BY UpSum DEF Polynomials
<1> QED
  BY <1>1, <1>2, MultipleUp, Closed DEF Congruent

-----------------------------------------------------------------------------
(* The code.                                                               *)

Word == SUBSET (0 .. 15)   \* a uint16_t
Octet == SUBSET (0 .. 7)   \* a uint8_t

(* Words are polynomials.                                                  *)
LEMMA WordsArePolynomials ==
  /\ Word \subseteq Polynomials /\ Octet \subseteq Word /\ {} \in Polynomials
  /\ \A n \in Nat : SUBSET (0 .. n) \subseteq Polynomials
<1>1. \A n \in Nat : SUBSET (0 .. n) \subseteq Polynomials
  <2>1. ASSUME NEW n \in Nat, NEW p \in SUBSET (0 .. n) PROVE p \in Polynomials
    <3>1. n + 1 \in Nat /\ p \in SUBSET Nat /\ \A k \in p : k < n + 1
      OBVIOUS
    <3> QED
      BY <3>1 DEF Polynomials
  <2> QED
    BY <2>1
<1> QED
  BY <1>1 DEF Word, Octet, Polynomials

(* One turn of the inner loop multiplies by x.                             *)
LEMMA ShiftCorrect ==
  ASSUME NEW c \in Word
  PROVE  Shift(c) \in Word /\ Congruent(Shift(c), Up(c, 1))
<1>1. c \in SUBSET Nat
  BY DEF Word
<1>2. ASSUME NEW k PROVE k \in Up(c, 1) <=> k \in 1 .. 16 /\ k - 1 \in c
  <2>1. k \in Up(c, 1) <=> k \in Nat /\ k >= 1 /\ k - 1 \in c
    BY <1>1, Members
  <2>2. k - 1 \in c => k - 1 \in 0 .. 15
    BY DEF Word
  <2>3. k \in Nat /\ k >= 1 /\ k - 1 \in 0 .. 15 <=> k \in 1 .. 16
    OBVIOUS
  <2> QED
    BY <2>1, <2>2, <2>3
<1>3. CASE 15 \notin c
  <2>1. Shift(c) = Up(c, 1) /\ Shift(c) \in Word
    BY <1>2, <1>3 DEF Shift, Word
  <2> QED
    BY <2>1, WordsArePolynomials, CongruentReflexive
<1>4. CASE 15 \in c
  <2>1. 16 \in Up(c, 1)
    BY <1>2, <1>4
  <2>2. Shift(c) = (Up(c, 1) \ {16}) \oplus Poly
    BY <1>4 DEF Shift
  <2>3. Shift(c) \in Word
    BY <1>2, <2>2 DEF Word, Poly, \oplus
  <2>4. Shift(c) \oplus Up(c, 1) = {0, 2, 15, 16}
    <3>1. ASSUME NEW k
          PROVE  k \in Shift(c) \oplus Up(c, 1) <=> k \in {0, 2, 15, 16}
      BY <2>1, <2>2 DEF Poly, \oplus
    <3> QED
      BY <3>1 DEF \oplus
  <2>5. Multiple({0}) = {0, 2, 15, 16}
    <3>1. Up({0}, 16) = {16} /\ Up({0}, 15) = {15} /\ Up({0}, 2) = {2}
      BY DEF Up
    <3> QED
      BY <3>1 DEF Multiple, \oplus
  <2>6. {0} \in Polynomials
    BY DEF Polynomials
  <2> QED
    BY <2>3, <2>4, <2>5, <2>6 DEF Congruent
<1> QED
  BY <1>3, <1>4

(* A reversed octet by its bits.                                           *)
LEMMA ReverseOctet ==
  ASSUME NEW b \in Octet
  PROVE  /\ reverse(b, 8) \in Octet
         /\ \A k : k \in reverse(b, 8) <=> k \in 0 .. 7 /\ 7 - k \in b
BY DEF reverse, Octet

(* A reversed word, as the two octets that follow the data.                *)
LEMMA ReverseWord ==
  ASSUME NEW c \in Word
  PROVE  /\ reverse(c, 16) \cap 0 .. 7 \in Octet
         /\ Down(reverse(c, 16), 8) \in Octet
         /\ Up(reverse(reverse(c, 16) \cap 0 .. 7, 8), 8)
              \oplus reverse(Down(reverse(c, 16), 8), 8) = c
<1> DEFINE r == reverse(c, 16)
           low == r \cap 0 .. 7
           high == Down(r, 8)
<1>1. \A k : k \in r <=> k \in 0 .. 15 /\ 15 - k \in c
  BY DEF reverse, Word
<1>2. low \in Octet /\ high \in Octet
  BY <1>1 DEF Octet, Down
<1>3. \A k : k \in high <=> k \in 0 .. 7 /\ k + 8 \in r
  BY <1>1 DEF Down
<1>4. \A k : /\ k \in reverse(low, 8) <=> k \in 0 .. 7 /\ 7 - k \in low
             /\ k \in reverse(high, 8) <=> k \in 0 .. 7 /\ 7 - k \in high
  BY <1>2, ReverseOctet
<1>5. \A k : k \in Up(reverse(low, 8), 8)
               <=> k \in Nat /\ k >= 8 /\ k - 8 \in reverse(low, 8)
  BY <1>2, ReverseOctet, Members DEF Octet
<1>6. ASSUME NEW k
      PROVE  k \in Up(reverse(low, 8), 8) \oplus reverse(high, 8) <=> k \in c
  <2>1. k \in Up(reverse(low, 8), 8) <=> k \in 8 .. 15 /\ k \in c
    <3>1. k \in Up(reverse(low, 8), 8)
            <=> k \in Nat /\ k >= 8 /\ k - 8 \in 0 .. 7 /\ 7 - (k - 8) \in low
      BY <1>4, <1>5
    <3>2. k \in Nat /\ k >= 8 /\ k - 8 \in 0 .. 7 <=> k \in 8 .. 15
      OBVIOUS
    <3>3. ASSUME k \in 8 .. 15 PROVE 7 - (k - 8) \in low <=> k \in c
      <4>1. 7 - (k - 8) = 15 - k /\ 15 - (15 - k) = k /\ 15 - k \in 0 .. 7
        BY <3>3
      <4>2. 15 - k \in r <=> 15 - k \in 0 .. 15 /\ 15 - (15 - k) \in c
        BY <1>1
      <4> QED
        BY <4>1, <4>2
    <3> HIDE DEF low
    <3> QED
      BY <3>1, <3>2, <3>3
  <2>2. k \in reverse(high, 8) <=> k \in 0 .. 7 /\ k \in c
    <3>1. k \in Nat => (7 - k) + 8 = 15 - k /\ 15 - (15 - k) = k
      OBVIOUS
    <3> QED
      BY <1>1, <1>3, <1>4, <3>1
  <2>3. k \in c => k \in 0 .. 7 \/ k \in 8 .. 15
    BY DEF Word
  <2>4. ~(k \in 0 .. 7 /\ k \in 8 .. 15)
    OBVIOUS
  <2> HIDE DEF low, high
  <2> QED
    BY <2>1, <2>2, <2>3, <2>4 DEF \oplus
<1>7. Up(reverse(low, 8), 8) \oplus reverse(high, 8) = c
  BY <1>6 DEF \oplus
<1> QED
  BY <1>2, <1>7

(* The inner loop adds an octet and multiplies by x^8.                     *)
LEMMA AddByteCorrect ==
  ASSUME NEW c \in Word, NEW b \in Octet
  PROVE  /\ AddByte(c, b) \in Word
         /\ Congruent(AddByte(c, b), Up(c, 8) \oplus Up(reverse(b, 8), 16))
<1> DEFINE start == c \oplus Up(reverse(b, 8), 8)
           step == [p \in Nat \X Word |-> Shift(p[2])]
           Is(f) == f = [j \in 0 .. 8 |-> IF j = 0 THEN start ELSE Shift(f[j - 1])]
           turn == CHOOSE f : Is(f)
<1>1. reverse(b, 8) \in SUBSET Nat /\ c \in SUBSET Nat
  BY ReverseOctet DEF Octet, Word
<1>2. start \in Word
  <2>1. \A k : k \in Up(reverse(b, 8), 8) => k \in 0 .. 15
    <3>1. \A k : k \in Up(reverse(b, 8), 8)
                   <=> k \in Nat /\ k >= 8 /\ k - 8 \in reverse(b, 8)
      BY <1>1, Members
    <3>2. \A k : k - 8 \in reverse(b, 8) => k - 8 \in 0 .. 7
      BY ReverseOctet
    <3> QED
      BY <3>1, <3>2
  <2> QED
    BY <2>1 DEF Word, \oplus
<1>3. \E f \in [0 .. 8 -> Word] : Is(f)
  <2>1. step \in [Nat \X Word -> Word]
    BY ShiftCorrect
  <2> HIDE DEF step, start
  <2>2. PICK f \in [0 .. 8 -> Word] : Iterates(f, start, step, 8)
    BY <1>2, <2>1, Iteration
  <2>3. \A j \in 1 .. 8 : f[j] = Shift(f[j - 1])
    BY <2>2 DEF step, Iterates
  <2>4. Is(f)
    BY <2>2, <2>3 DEF Iterates
  <2> QED
    BY <2>4
<1>4. Is(turn)
  BY <1>3
<1>5. AddByte(c, b) = turn[8]
  BY DEF AddByte
<1> HIDE DEF turn, start
<1>6. turn[0] = start /\ \A j \in 0 .. 7 : turn[j + 1] = Shift(turn[j])
  BY <1>4
<1> DEFINE Sound(j) == turn[j] \in Word /\ Congruent(turn[j], Up(start, j))
           S == {j \in Nat : j <= 8 => Sound(j)}
<1>7. start \in Polynomials /\ start \in SUBSET Nat
  BY <1>2, WordsArePolynomials DEF Polynomials
<1>8. 0 \in S
  BY <1>2, <1>6, <1>7, UpNot, CongruentReflexive
<1>9. ASSUME NEW j \in Nat, j \in S PROVE j + 1 \in S
  <2> SUFFICES ASSUME j + 1 <= 8 PROVE Sound(j + 1)
    OBVIOUS
  <2>1. Sound(j) /\ j \in 0 .. 7
    BY <1>9
  <2>2. turn[j + 1] = Shift(turn[j])
    BY <1>6, <2>1
  <2>3. turn[j + 1] \in Word /\ Congruent(turn[j + 1], Up(turn[j], 1))
    BY <2>1, <2>2, ShiftCorrect
  <2>4. Congruent(Up(turn[j], 1), Up(Up(start, j), 1))
    BY <1>7, <2>1, Closed, CongruentUp, WordsArePolynomials
  <2>5. Up(Up(start, j), 1) = Up(start, j + 1)
    BY <1>7, UpTwice
  <2> QED
    BY <2>3, <2>4, <2>5, CongruentTransitive
<1>10. Sound(8)
  BY <1>8, <1>9, Induction
<1>11. Up(start, 8) = Up(c, 8) \oplus Up(reverse(b, 8), 16)
  <2>1. Up(reverse(b, 8), 8) \in SUBSET Nat
    BY <1>1, Members
  <2>2. Up(start, 8) = Up(c, 8) \oplus Up(Up(reverse(b, 8), 8), 8)
    BY <1>1, <2>1, UpSum DEF start
  <2>3. Up(Up(reverse(b, 8), 8), 8) = Up(reverse(b, 8), 16)
    BY <1>1, UpTwice
  <2> QED
    BY <2>2, <2>3
<1> QED
  BY <1>5, <1>10, <1>11

(* The polynomial of the first n octets of a frame.                        *)
Leading(frame, n) ==
  {d \in 0 .. 8 * n - 1 :
     LET pos == 8 * n - 1 - d
     IN  pos % 8 \in frame[pos \div 8 + 1]}

(* The next octet adds its bits, reversed, to the polynomial before it.    *)
LEMMA LeadingStep ==
  ASSUME NEW frame, NEW n \in Nat, frame[n + 1] \in Octet
  PROVE  Leading(frame, n + 1)
           = Up(Leading(frame, n), 8) \oplus reverse(frame[n + 1], 8)
<1>1. Leading(frame, n) \in SUBSET Nat
  BY DEF Leading
<1>2. ASSUME NEW k
      PROVE  k \in Leading(frame, n + 1)
               <=> k \in Up(Leading(frame, n), 8) \oplus reverse(frame[n + 1], 8)
  <2>1. /\ k \in Up(Leading(frame, n), 8)
              <=> k \in Nat /\ k >= 8 /\ k - 8 \in Leading(frame, n)
        /\ k \in reverse(frame[n + 1], 8) <=> k \in 0 .. 7 /\ 7 - k \in frame[n + 1]
    BY <1>1, Members, ReverseOctet
  <2>2. CASE k \in 0 .. 7
    <3>1. /\ 8 * (n + 1) - 1 - k = 8 * n + (7 - k)
          /\ (8 * n + (7 - k)) % 8 = 7 - k /\ (8 * n + (7 - k)) \div 8 = n
          /\ k \in 0 .. 8 * (n + 1) - 1
      BY <2>2
    <3>2. k \in Leading(frame, n + 1) <=> 7 - k \in frame[n + 1]
      BY <3>1 DEF Leading
    <3> QED
      BY <2>1, <2>2, <3>2 DEF \oplus
  <2>3. CASE k \in Nat /\ k >= 8
    <3>1. /\ 8 * (n + 1) - 1 - k = 8 * n - 1 - (k - 8)
          /\ k \in 0 .. 8 * (n + 1) - 1 <=> k - 8 \in 0 .. 8 * n - 1
      BY <2>3
    <3>2. k \in Leading(frame, n + 1) <=> k - 8 \in Leading(frame, n)
      BY <3>1 DEF Leading
    <3> QED
      BY <2>1, <2>3, <3>2 DEF \oplus
  <2>4. CASE k \notin Nat
    BY <2>1, <2>4 DEF Leading, \oplus
  <2> QED
    BY <2>2, <2>3, <2>4
<1> QED
  BY <1>2 DEF \oplus, Leading

(* What the register stands for, one octet on.                             *)
LEMMA TargetStep ==
  ASSUME NEW M \in SUBSET Nat, NEW r \in SUBSET Nat, NEW m \in Nat
  PROVE  Up(Up(M, 16) \oplus Up(0 .. 15, m), 8) \oplus Up(r, 16)
           = Up(Up(M, 8) \oplus r, 16) \oplus Up(0 .. 15, m + 8)
<1>1. 0 .. 15 \in SUBSET Nat
  OBVIOUS
<1>2. /\ Up(M, 16) \in SUBSET Nat /\ Up(M, 8) \in SUBSET Nat
      /\ Up(0 .. 15, m) \in SUBSET Nat
  BY <1>1, Members
<1>3. Up(Up(M, 16) \oplus Up(0 .. 15, m), 8)
        = Up(Up(M, 16), 8) \oplus Up(Up(0 .. 15, m), 8)
  BY <1>2, UpSum
<1>4. Up(Up(M, 8) \oplus r, 16) = Up(Up(M, 8), 16) \oplus Up(r, 16)
  BY <1>2, UpSum
<1>5. Up(Up(M, 16), 8) = Up(M, 24) /\ Up(Up(M, 8), 16) = Up(M, 24)
  BY UpTwice
<1>6. Up(Up(0 .. 15, m), 8) = Up(0 .. 15, m + 8)
  BY <1>1, UpTwice
<1> DEFINE a == Up(M, 24)
           b == Up(0 .. 15, m + 8)
           c == Up(r, 16)
<1>7. (a \oplus b) \oplus c = (a \oplus c) \oplus b
  <2> HIDE DEF a, b, c
  <2>1. ASSUME NEW k PROVE k \in (a \oplus b) \oplus c <=> k \in (a \oplus c) \oplus b
    BY DEF \oplus
  <2> QED
    BY <2>1 DEF \oplus
<1> QED
  BY <1>3, <1>4, <1>5, <1>6, <1>7

(* The outer loop: the register holds the data times x^16, its first       *)
(* sixteen bits inverted, up to multiples of the generator.                *)
LEMMA RegisterCorrect ==
  ASSUME NEW data \in Seq(Octet)
  PROVE  /\ Register(data) \in Word
         /\ Congruent(Register(data), Up(Leading(data, Len(data)), 16)
                                        \oplus Up(0 .. 15, 8 * Len(data)))
<1> DEFINE n == Len(data)
           step == [p \in Nat \X Word |->
                      IF p[1] \in 1 .. n THEN AddByte(p[2], data[p[1]]) ELSE p[2]]
           Is(f) == f = [i \in 0 .. n |-> IF i = 0 THEN 0 .. 15
                                          ELSE AddByte(f[i - 1], data[i])]
           crc == CHOOSE f : Is(f)
<1>1. n \in Nat /\ \A i \in 1 .. n : data[i] \in Octet
  OBVIOUS
<1>2. Register(data) = crc[n]
  BY DEF Register
<1> HIDE DEF n
<1>3. 0 .. 15 \in Word
  BY DEF Word
<1>4. \E f \in [0 .. n -> Word] : Is(f)
  <2>1. step \in [Nat \X Word -> Word]
    BY <1>1, AddByteCorrect
  <2> HIDE DEF step
  <2>2. PICK f \in [0 .. n -> Word] : Iterates(f, 0 .. 15, step, n)
    BY <1>1, <1>3, <2>1, Iteration
  <2>3. \A i \in 1 .. n : f[i] = AddByte(f[i - 1], data[i])
    BY <1>1, <2>2 DEF step, Iterates
  <2>4. Is(f)
    BY <1>1, <2>2, <2>3 DEF Iterates
  <2> QED
    BY <2>4
<1>5. Is(crc)
  BY <1>4
<1> HIDE DEF crc
<1>6. crc[0] = 0 .. 15 /\ \A i \in 1 .. n : crc[i] = AddByte(crc[i - 1], data[i])
  <2>1. 0 \in 0 .. n /\ \A i \in 1 .. n : i \in 0 .. n /\ i # 0
    BY <1>1
  <2> QED
    BY <1>5, <2>1
<1> DEFINE Target(i) == Up(Leading(data, i), 16) \oplus Up(0 .. 15, 8 * i)
           Sound(i) == crc[i] \in Word /\ Congruent(crc[i], Target(i))
           S == {i \in Nat : i <= n => Sound(i)}
<1>7. ASSUME NEW i \in Nat
      PROVE  /\ Leading(data, i) \in SUBSET Nat
             /\ Target(i) \in Polynomials
  <2>1. Leading(data, i) \in SUBSET (0 .. 8 * i) /\ 8 * i \in Nat
    BY DEF Leading
  <2>2. Leading(data, i) \in Polynomials /\ 0 .. 15 \in Polynomials
    BY <1>3, <2>1, WordsArePolynomials
  <2>3. /\ Up(Leading(data, i), 16) \in Polynomials
        /\ Up(0 .. 15, 8 * i) \in Polynomials
    BY <2>1, <2>2, Closed
  <2> QED
    BY <2>2, <2>3, Closed DEF Polynomials
<1>8. 0 \in S
  <2>1. Leading(data, 0) = {}
    BY DEF Leading
  <2>2. Up({}, 16) = {}
    BY DEF Up
  <2>3. Up(0 .. 15, 8 * 0) = 0 .. 15
    <3>1. 0 .. 15 \in SUBSET Nat /\ 8 * 0 = 0
      OBVIOUS
    <3> QED
      BY <3>1, UpNot
  <2>4. Target(0) = {} \oplus (0 .. 15)
    BY <2>1, <2>2, <2>3
  <2> QED
    <3>1. {} \oplus (0 .. 15) = 0 .. 15
      BY DEF \oplus
    <3> QED
      BY <1>3, <1>6, <2>4, <3>1, CongruentReflexive, WordsArePolynomials
<1>9. ASSUME NEW i \in Nat, i \in S PROVE i + 1 \in S
  <2> SUFFICES ASSUME i + 1 <= n PROVE Sound(i + 1)
    OBVIOUS
  <2> DEFINE b == data[i + 1]
  <2>1. i + 1 \in 1 .. n /\ b \in Octet /\ crc[i + 1] = AddByte(crc[i], b)
    <3>1. i + 1 \in 1 .. n /\ (i + 1) - 1 = i
      BY <1>1
    <3> QED
      BY <1>1, <1>6, <3>1
  <2>2. Sound(i)
    BY <1>1, <1>9
  <2> HIDE DEF b
  <2> DEFINE M == Leading(data, i)
             tail == Up(reverse(b, 8), 16)
             ones == Up(0 .. 15, 8 * i)
             head == Up(M, 16)
             next == Up(0 .. 15, 8 * (i + 1))
  <2>3. /\ crc[i + 1] \in Word
        /\ Congruent(crc[i + 1], Up(crc[i], 8) \oplus tail)
    BY <2>1, <2>2, AddByteCorrect
  <2>4. tail \in Polynomials
    BY <2>1, ReverseOctet, WordsArePolynomials, Closed
  <2>5. Congruent(Up(crc[i], 8) \oplus tail, Up(Target(i), 8) \oplus tail)
    <3>1. Congruent(Up(crc[i], 8), Up(Target(i), 8))
      BY <1>7, <2>2, CongruentUp, WordsArePolynomials
    <3> QED
      BY <2>4, <3>1, CongruentSum, CongruentReflexive
  <2>6. M \in SUBSET Nat /\ Target(i) = head \oplus ones
    BY <1>7
  <2>7. Leading(data, i + 1) = Up(M, 8) \oplus reverse(b, 8)
    BY <2>1, LeadingStep DEF b
  <2>8. Target(i + 1) = Up(Leading(data, i + 1), 16) \oplus next
    OBVIOUS
  <2> HIDE DEF M, Target
  <2>9. Up(Target(i), 8) \oplus tail = Target(i + 1)
    <3>1. reverse(b, 8) \in SUBSET Nat
      BY <2>1, ReverseOctet DEF Octet
    <3>2. 8 * i \in Nat /\ 8 * (i + 1) = 8 * i + 8
      OBVIOUS
    <3>3. Up(head \oplus ones, 8) \oplus tail
            = Up(Up(M, 8) \oplus reverse(b, 8), 16) \oplus next
      BY <2>6, <3>1, <3>2, TargetStep
    <3> HIDE DEF tail, next, head, ones
    <3> QED
      BY <2>6, <2>7, <2>8, <3>3
  <2> QED
    BY <2>3, <2>5, <2>9, CongruentTransitive
<1>10. Sound(n)
  <2>1. Nat \subseteq S
    <3> HIDE DEF S
    <3> QED
      BY <1>8, <1>9, Induction
  <2> HIDE DEF Sound
  <2> QED
    BY <1>1, <2>1
<1> QED
  BY <1>2, <1>10 DEF n

(* The two octets that are appended to the data turn the register's        *)
(* congruence into divisibility.                                           *)
LEMMA FrameCorrect ==
  ASSUME NEW data \in Seq(Octet)
  PROVE  LET frame == crc_comlete(data)
             n == Len(data)
         IN  /\ frame \in Seq(Octet) /\ Len(frame) = n + 2
             /\ \A i \in 1 .. n : frame[i] = data[i]
             /\ Congruent(Leading(frame, n + 2) \oplus Up(0 .. 15, 8 * n), {})
<1> DEFINE n == Len(data)
           crc == Register(data)
           low == reverse(crc, 16) \cap 0 .. 7
           high == Down(reverse(crc, 16), 8)
           frame == data \o <<low, high>>
<1>1. n \in Nat /\ crc \in Word
  BY RegisterCorrect
<1>2. low \in Octet /\ high \in Octet
  BY <1>1, ReverseWord
<1>3. crc_comlete(data) = frame
  BY DEF crc_comlete
<1> HIDE DEF crc, low, high
<1>4. /\ frame \in Seq(Octet) /\ Len(frame) = n + 2
      /\ \A i \in 1 .. n : frame[i] = data[i]
      /\ frame[n + 1] = low /\ frame[n + 2] = high
  BY <1>2
<1> HIDE DEF frame, n
<1>5. Leading(frame, n) = Leading(data, n)
  <2>1. ASSUME NEW d \in 0 .. 8 * n - 1
        PROVE  (8 * n - 1 - d) \div 8 + 1 \in 1 .. n
    BY <1>1
  <2> QED
    BY <1>4, <2>1 DEF Leading
<1> DEFINE M == Leading(data, n)
           a == reverse(low, 8)
           b == reverse(high, 8)
           ones == Up(0 .. 15, 8 * n)
<1>6. Leading(frame, n + 2) = Up(M, 16) \oplus crc
  <2>1. M \in SUBSET Nat /\ a \in SUBSET Nat /\ Up(M, 8) \in SUBSET Nat
    <3>1. M \in SUBSET Nat
      BY <1>1 DEF Leading
    <3>2. a \in SUBSET Nat
      BY <1>2, ReverseOctet DEF Octet
    <3> HIDE DEF M
    <3> QED
      BY <3>1, <3>2, Members
  <2>2. Leading(frame, n + 1) = Up(M, 8) \oplus a
    BY <1>1, <1>2, <1>4, <1>5, LeadingStep
  <2>3. Leading(frame, n + 2) = Up(Leading(frame, n + 1), 8) \oplus b
    <3>1. n + 1 \in Nat /\ (n + 1) + 1 = n + 2
      BY <1>1
    <3>2. Leading(frame, (n + 1) + 1) = Up(Leading(frame, n + 1), 8) \oplus b
      BY <1>2, <1>4, <3>1, LeadingStep
    <3> QED
      BY <3>1, <3>2
  <2>4. Up(a, 8) \oplus b = crc
    BY <1>1, ReverseWord DEF low, high
  <2> HIDE DEF M, a, b
  <2>5. Up(Up(M, 8) \oplus a, 8) = Up(Up(M, 8), 8) \oplus Up(a, 8)
    BY <2>1, UpSum
  <2>6. Up(Up(M, 8), 8) = Up(M, 16)
    BY <2>1, UpTwice
  <2>7. (Up(M, 16) \oplus Up(a, 8)) \oplus b = Up(M, 16) \oplus (Up(a, 8) \oplus b)
    BY SumLaws
  <2> QED
    BY <2>2, <2>3, <2>4, <2>5, <2>6, <2>7
<1>7. Congruent(crc, Up(M, 16) \oplus ones)
  BY RegisterCorrect DEF crc, n
<1>8. (Up(M, 16) \oplus crc) \oplus ones = crc \oplus (Up(M, 16) \oplus ones)
  <2> HIDE DEF M, ones
  <2>1. ASSUME NEW k
        PROVE  k \in (Up(M, 16) \oplus crc) \oplus ones
                 <=> k \in crc \oplus (Up(M, 16) \oplus ones)
    BY DEF \oplus
  <2> QED
    BY <2>1 DEF \oplus
<1>9. Congruent(crc \oplus (Up(M, 16) \oplus ones), {})
  <2> HIDE DEF M, ones
  <2> DEFINE t == crc \oplus (Up(M, 16) \oplus ones)
  <2>1. t \oplus {} = t
    BY DEF \oplus
  <2>2. PICK q \in Polynomials : t = Multiple(q)
    BY <1>7 DEF Congruent
  <2> QED
    BY <2>1, <2>2 DEF Congruent
<1>10. Congruent(Leading(frame, n + 2) \oplus ones, {})
  BY <1>6, <1>8, <1>9
<1> QED
  BY <1>3, <1>4, <1>10 DEF n

-----------------------------------------------------------------------------
(* The division.                                                           *)

(* One step of it takes the term of degree d away.                         *)
LEMMA DivideAtCorrect ==
  ASSUME NEW d \in Nat, d >= 16, NEW p \in SUBSET (0 .. d)
  PROVE  DivideAt(d, p) \in SUBSET (0 .. d - 1) /\ Congruent(DivideAt(d, p), p)
<1>1. p \in Polynomials
  BY WordsArePolynomials
<1>2. CASE d \notin p
  <2>1. p \in SUBSET (0 .. d - 1) /\ DivideAt(d, p) = p
    BY <1>2 DEF DivideAt
  <2> QED
    BY <1>1, <2>1, CongruentReflexive
<1>3. CASE d \in p
  <2> DEFINE e == d - 16
             g == Up(Generator, e)
  <2>1. e \in Nat /\ e + 16 = d
    OBVIOUS
  <2> HIDE DEF e
  <2>2. g = {e, 2 + e, 15 + e, 16 + e}
    BY <2>1 DEF Up, Generator
  <2>3. Multiple({e}) = g
    <3>1. Up({e}, 16) = {16 + e} /\ Up({e}, 15) = {15 + e} /\ Up({e}, 2) = {2 + e}
      BY <2>1 DEF Up
    <3> QED
      BY <2>1, <2>2, <3>1 DEF Multiple, \oplus
  <2>4. DivideAt(d, p) = p \oplus g
    BY <1>3 DEF DivideAt, e
  <2>5. p \oplus g \in SUBSET (0 .. d - 1)
    BY <1>3, <2>1, <2>2 DEF \oplus
  <2>6. (p \oplus g) \oplus p = g
    <3> HIDE DEF g
    <3>1. ASSUME NEW k PROVE k \in (p \oplus g) \oplus p <=> k \in g
      BY DEF \oplus
    <3> QED
      BY <3>1 DEF \oplus
  <2>7. {e} \in Polynomials
    <3>1. {e} \in SUBSET (0 .. e)
      BY <2>1
    <3> QED
      BY <2>1, <3>1, WordsArePolynomials
  <2> QED
    BY <2>3, <2>4, <2>5, <2>6, <2>7 DEF Congruent
<1> QED
  BY <1>2, <1>3

(* What long division leaves is a word, congruent to the dividend.         *)
LEMMA DivisionCorrect ==
  ASSUME NEW n \in Nat, n >= 16, NEW p \in SUBSET (0 .. n - 1)
  PROVE  Remainder(p, n) \in Word /\ Congruent(Remainder(p, n), p)
<1> DEFINE last == n - 16
           T == SUBSET (0 .. n - 1)
           step == [x \in Nat \X T |->
                      IF x[1] \in 1 .. last THEN DivideAt(n - x[1], x[2]) ELSE x[2]]
           Is(f) == f = [s \in 0 .. last |-> IF s = 0 THEN p
                                             ELSE DivideAt(n - s, f[s - 1])]
           rest == CHOOSE f : Is(f)
<1>1. last \in Nat /\ last + 16 = n
  OBVIOUS
<1>2. Remainder(p, n) = rest[last]
  BY DEF Remainder
<1> HIDE DEF last
<1>3. ASSUME NEW s \in 1 .. last, NEW q \in T PROVE DivideAt(n - s, q) \in T
  <2>1. n - s \in 16 .. n - 1
    BY <1>1
  <2>2. Up(Generator, (n - s) - 16) \subseteq 0 .. n - 1
    BY <2>1 DEF Up, Generator
  <2> QED
    BY <2>2 DEF DivideAt, \oplus
<1>4. \E f \in [0 .. last -> T] : Is(f)
  <2>1. step \in [Nat \X T -> T]
    BY <1>3
  <2> HIDE DEF step, T
  <2>2. p \in T
    BY DEF T
  <2>3. PICK f \in [0 .. last -> T] : Iterates(f, p, step, last)
    BY <1>1, <2>1, <2>2, Iteration
  <2>4. ASSUME NEW s \in 1 .. last PROVE f[s] = DivideAt(n - s, f[s - 1])
    <3>1. s - 1 \in 0 .. last /\ s \in Nat
      BY <1>1
    <3> QED
      BY <2>3, <3>1 DEF step, Iterates
  <2>5. Is(f)
    BY <1>1, <2>3, <2>4 DEF Iterates
  <2> QED
    BY <2>5
<1>5. Is(rest)
  BY <1>4
<1> HIDE DEF rest
<1>6. rest[0] = p /\ \A s \in 1 .. last : rest[s] = DivideAt(n - s, rest[s - 1])
  <2>1. 0 \in 0 .. last /\ \A s \in 1 .. last : s \in 0 .. last /\ s # 0
    BY <1>1
  <2> QED
    BY <1>5, <2>1
<1> DEFINE Sound(s) == rest[s] \in SUBSET (0 .. n - 1 - s) /\ Congruent(rest[s], p)
           S == {s \in Nat : s <= last => Sound(s)}
<1>7. p \in Polynomials
  <2>1. n - 1 \in Nat
    OBVIOUS
  <2> QED
    BY <2>1, WordsArePolynomials
<1>8. 0 \in S
  <2>1. n - 1 - 0 = n - 1
    OBVIOUS
  <2>2. Sound(0)
    BY <1>6, <1>7, <2>1, CongruentReflexive
  <2> HIDE DEF Sound
  <2> QED
    BY <2>2
<1>9. ASSUME NEW s \in Nat, s \in S PROVE s + 1 \in S
  <2> SUFFICES ASSUME s + 1 <= last PROVE Sound(s + 1)
    OBVIOUS
  <2> DEFINE d == n - (s + 1)
             q == rest[s]
  <2>1. s + 1 \in 1 .. last /\ (s + 1) - 1 = s /\ s <= last
    BY <1>1
  <2>2. d \in Nat /\ d >= 16 /\ n - 1 - s = d /\ n - 1 - (s + 1) = d - 1
    BY <1>1
  <2>3. rest[s + 1] = DivideAt(d, q)
    BY <1>6, <2>1
  <2>4. q \in SUBSET (0 .. d) /\ Congruent(q, p)
    BY <1>9, <2>1, <2>2
  <2> HIDE DEF d, q
  <2>5. DivideAt(d, q) \in SUBSET (0 .. d - 1) /\ Congruent(DivideAt(d, q), q)
    BY <2>2, <2>4, DivideAtCorrect
  <2> QED
    BY <2>2, <2>3, <2>4, <2>5, CongruentTransitive
<1>10. Sound(last)
  <2>1. Nat \subseteq S
    <3> HIDE DEF S
    <3> QED
      BY <1>8, <1>9, Induction
  <2> HIDE DEF Sound
  <2> QED
    BY <1>1, <2>1
<1>11. n - 1 - last = 15
  BY <1>1
<1> QED
  BY <1>2, <1>10, <1>11 DEF Word

(* A polynomial that is not empty has a term of highest degree.            *)
LEMMA Degree ==
  ASSUME NEW q \in Polynomials, q # {}
  PROVE  \E m \in q : \A k \in q : k <= m
<1> DEFINE S == {n \in Nat : (\A k \in q : k < n) => \E m \in q : \A k \in q : k <= m}
<1>1. q \in SUBSET Nat
  BY DEF Polynomials
<1>2. 0 \in S
  <2>1. PICK k \in q : TRUE
    OBVIOUS
  <2>2. ~(k < 0)
    BY <1>1
  <2> QED
    BY <2>2
<1>3. ASSUME NEW n \in Nat, n \in S PROVE n + 1 \in S
  <2> SUFFICES ASSUME \A k \in q : k < n + 1 PROVE \E m \in q : \A k \in q : k <= m
    OBVIOUS
  <2>1. \A k \in q : k <= n
    BY <1>1
  <2>2. CASE n \in q
    BY <2>1, <2>2
  <2>3. CASE n \notin q
    <3>1. \A k \in q : k < n
      BY <1>1, <2>1, <2>3
    <3> QED
      BY <1>3, <3>1
  <2> QED
    BY <2>2, <2>3
<1>4. Nat \subseteq S
  <2> HIDE DEF S
  <2> QED
    BY <1>2, <1>3, Induction
<1>5. PICK n \in Nat : \A k \in q : k < n
  BY DEF Polynomials
<1> QED
  BY <1>4, <1>5

(* The only word that the generator divides is 0.                          *)
LEMMA NoMultipleIsAWord ==
  ASSUME NEW q \in Polynomials, Multiple(q) \in Word
  PROVE  q = {}
<1> SUFFICES ASSUME q # {} PROVE FALSE
  OBVIOUS
<1>1. q \in SUBSET Nat
  BY DEF Polynomials
<1>2. PICK m \in q : \A k \in q : k <= m
  BY Degree
<1>3. m \in Nat /\ m + 16 \in Nat
  BY <1>1
<1>4. m + 16 \in Up(q, 16)
  BY DEF Up
<1>5. m + 16 \notin q
  BY <1>1, <1>2
<1>6. m + 16 \notin Up(q, 15) /\ m + 16 \notin Up(q, 2)
  BY <1>1, <1>2 DEF Up
<1>7. m + 16 \in Multiple(q)
  BY <1>4, <1>5, <1>6 DEF Multiple, \oplus
<1> QED
  BY <1>3, <1>7 DEF Word

(* The long division decides divisibility by x^16 + x^15 + x^2 + 1: it     *)
(* leaves nothing of the multiples of the generator, of any length, and of *)
(* nothing else.                                                           *)
THEOREM RemainderIsDivisibility ==
  ASSUME NEW n \in Nat, n >= 16, NEW p \in SUBSET (0 .. n - 1)
  PROVE  Remainder(p, n) = {} <=> \E q \in Polynomials : p = Multiple(q)
<1> DEFINE r == Remainder(p, n)
<1>1. r \in Word /\ Congruent(r, p)
  BY DivisionCorrect
<1>2. PICK q \in Polynomials : r \oplus p = Multiple(q)
  BY <1>1 DEF Congruent
<1> HIDE DEF r
<1>3. ASSUME r = {} PROVE p = Multiple(q)
  BY <1>2, <1>3 DEF \oplus
<1>4. ASSUME NEW s \in Polynomials, p = Multiple(s) PROVE r = {}
  <2>1. r = Multiple(q \oplus s)
    <3>1. ASSUME NEW k PROVE k \in r <=> k \in (r \oplus p) \oplus p
      BY DEF \oplus
    <3>2. r = (r \oplus p) \oplus p
      BY <3>1 DEF \oplus
    <3> QED
      BY <1>2, <1>4, <3>2, MultipleSum
  <2>2. q \oplus s = {}
    BY <1>1, <2>1, Closed, NoMultipleIsAWord
  <2> QED
    BY <2>1, <2>2 DEF Multiple, Up, \oplus
<1> QED
  BY <1>3, <1>4 DEF r

-----------------------------------------------------------------------------
(* The frames.                                                             *)

(* Whatever octets crc_comlete() is given, and however many, its result is *)
(* accepted.                                                               *)
THEOREM CompletedIsAccepted ==
  ASSUME NEW data \in Seq(Octet)
  PROVE  Accepted(crc_comlete(data))
<1> DEFINE frame == crc_comlete(data)
           m == Len(data)
           n == 8 * Len(frame)
           p == Polynomial(frame) \oplus (n - 16 .. n - 1)
<1>1. /\ frame \in Seq(Octet) /\ Len(frame) = m + 2
      /\ Congruent(Leading(frame, m + 2) \oplus Up(0 .. 15, 8 * m), {})
  BY FrameCorrect
<1>2. m \in Nat
  OBVIOUS
<1> HIDE DEF m, frame
<1>3. n = 8 * (m + 2) /\ n \in Nat /\ n >= 16 /\ n - 16 = 8 * m
  BY <1>1, <1>2
<1>4. Polynomial(frame) = Leading(frame, m + 2)
  BY <1>1 DEF Polynomial, Leading
<1>5. n - 16 .. n - 1 = Up(0 .. 15, 8 * m)
  <2> HIDE DEF n
  <2>1. ASSUME NEW k PROVE k \in n - 16 .. n - 1 <=> k \in Up(0 .. 15, 8 * m)
    <3>1. /\ 8 * m \in Nat /\ 0 .. 15 \in SUBSET Nat
          /\ n - 16 = 8 * m /\ n - 1 = 8 * m + 15
      BY <1>2, <1>3
    <3> DEFINE e == 8 * m
    <3>2. k \in Up(0 .. 15, e) <=> k \in Nat /\ k >= e /\ k - e \in 0 .. 15
      BY <3>1, Members
    <3> HIDE DEF e
    <3>3. e \in Nat /\ n - 16 = e /\ n - 1 = e + 15
      BY <3>1 DEF e
    <3>4. k \in e .. e + 15 <=> k \in Nat /\ k >= e /\ k - e \in 0 .. 15
      <4>1. CASE k \in Nat
        BY <3>3, <4>1
      <4>2. CASE k \notin Nat
        <5>1. e .. e + 15 \subseteq Nat
          BY <3>3
        <5> QED
          BY <4>2, <5>1
      <4> QED
        BY <4>1, <4>2
    <3> QED
      BY <3>2, <3>3, <3>4 DEF e
  <2> QED
    BY <2>1
<1>6. p \in SUBSET (0 .. n - 1)
  <2>1. Polynomial(frame) \subseteq 0 .. n - 1
    BY DEF Polynomial
  <2>2. n - 16 .. n - 1 \subseteq 0 .. n - 1
    BY <1>3
  <2> HIDE DEF n
  <2> QED
    BY <2>1, <2>2 DEF \oplus
<1>7. \E q \in Polynomials : p = Multiple(q)
  <2>1. Congruent(p, {})
    BY <1>1, <1>4, <1>5
  <2> HIDE DEF p
  <2>2. p \oplus {} = p
    BY DEF \oplus
  <2> QED
    BY <2>1, <2>2 DEF Congruent
<1>8. Remainder(p, n) = {}
  <2> HIDE DEF p, n
  <2> QED
    BY <1>3, <1>6, <1>7, RemainderIsDivisibility
<1> QED
  BY <1>8 DEF Accepted, frame

(* Two frames that go on from the same polynomial by two octets each, with *)
(* a difference that the generator divides, end in the same octets.        *)
LEMMA SameTail ==
  ASSUME NEW M \in SUBSET Nat,
         NEW a \in Octet, NEW b \in Octet, NEW c \in Octet, NEW d \in Octet,
         NEW q \in Polynomials,
         (Up(Up(M, 8) \oplus a, 8) \oplus b) \oplus (Up(Up(M, 8) \oplus c, 8) \oplus d)
           = Multiple(q)
  PROVE  a = c /\ b = d
<1>1. /\ a \in SUBSET Nat /\ c \in SUBSET Nat /\ Up(M, 8) \in SUBSET Nat
  <2>1. a \in SUBSET Nat /\ c \in SUBSET Nat
    BY DEF Octet
  <2>2. Up(M, 8) \in SUBSET Nat
    BY Members
  <2> QED
    BY <2>1, <2>2
<1> DEFINE m == Up(Up(M, 8), 8)
           x == Up(a, 8)
           y == Up(c, 8)
           w == (x \oplus b) \oplus (y \oplus d)
<1>2. /\ Up(Up(M, 8) \oplus a, 8) = m \oplus x
      /\ Up(Up(M, 8) \oplus c, 8) = m \oplus y
  BY <1>1, UpSum
<1>3. ((m \oplus x) \oplus b) \oplus ((m \oplus y) \oplus d) = w
  <2> HIDE DEF m, x, y
  <2>1. ASSUME NEW k
        PROVE  k \in ((m \oplus x) \oplus b) \oplus ((m \oplus y) \oplus d) <=> k \in w
    BY DEF \oplus
  <2> HIDE DEF w
  <2> QED
    BY <2>1
<1>4. w = Multiple(q)
  BY <1>2, <1>3
<1>5. \A k : /\ k \in x <=> k \in Nat /\ k >= 8 /\ k - 8 \in a
             /\ k \in y <=> k \in Nat /\ k >= 8 /\ k - 8 \in c
  BY <1>1, Members
<1> HIDE DEF x, y, m
<1>6. \A k \in a \cup b \cup c \cup d : k \in 0 .. 7
  BY DEF Octet
<1>7. w \in Word
  <2>1. ASSUME NEW k \in w PROVE k \in 0 .. 15
    <3>1. k \in x \/ k \in y \/ k \in b \cup d
      BY DEF \oplus
    <3>2. CASE k \in b \cup d
      BY <1>6, <3>2
    <3>3. CASE k \in x \/ k \in y
      <4>1. k \in Nat /\ k >= 8 /\ k - 8 \in 0 .. 7
        BY <1>5, <1>6, <3>3
      <4> QED
        BY <4>1
    <3> QED
      BY <3>1, <3>2, <3>3
  <2> HIDE DEF w
  <2> QED
    BY <2>1 DEF Word
<1>8. w = {}
  <2> HIDE DEF w
  <2>1. q = {}
    BY <1>4, <1>7, NoMultipleIsAWord
  <2> QED
    BY <1>4, <2>1 DEF Multiple, Up, \oplus
<1>9. \A k : (k \in x <=> k \in b) <=> (k \in y <=> k \in d)
  BY <1>8 DEF \oplus
<1>10. ASSUME NEW k \in 0 .. 7
       PROVE  /\ k \in b <=> k \in d
              /\ k \in a <=> k \in c
  <2>1. k \notin x /\ k \notin y
    BY <1>5
  <2>2. k + 8 \notin b /\ k + 8 \notin d
    BY <1>6
  <2>3. k + 8 \in Nat /\ k + 8 >= 8 /\ (k + 8) - 8 = k
    OBVIOUS
  <2>4. (k + 8 \in x <=> k \in a) /\ (k + 8 \in y <=> k \in c)
    BY <1>5, <2>3
  <2> QED
    BY <1>9, <2>1, <2>2, <2>4
<1> QED
  BY <1>6, <1>10

(* No other frame with the same data is accepted: the two octets that      *)
(* crc_comlete() appends are the only ones.                                *)
THEOREM CompletionIsUnique ==
  ASSUME NEW data \in Seq(Octet), NEW a \in Octet, NEW b \in Octet,
         Accepted(data \o <<a, b>>)
  PROVE  data \o <<a, b>> = crc_comlete(data)
<1> DEFINE m == Len(data)
           f == crc_comlete(data)
           g == data \o <<a, b>>
           ones == 8 * (m + 2) - 16 .. 8 * (m + 2) - 1
           pf == Leading(f, m + 2) \oplus ones
           pg == Leading(g, m + 2) \oplus ones
<1>1. m \in Nat
  OBVIOUS
<1>2. /\ f \in Seq(Octet) /\ Len(f) = m + 2 /\ \A i \in 1 .. m : f[i] = data[i]
  BY FrameCorrect
<1>3. /\ g \in Seq(Octet) /\ Len(g) = m + 2 /\ \A i \in 1 .. m : g[i] = data[i]
      /\ g[m + 1] = a /\ g[m + 2] = b
  OBVIOUS
<1>4. Accepted(f) /\ Accepted(g)
  BY CompletedIsAccepted
<1> HIDE DEF m, f, g
<1>5. ASSUME NEW h \in Seq(Octet), Len(h) = m + 2, Accepted(h)
      PROVE  \E q \in Polynomials : Leading(h, m + 2) \oplus ones = Multiple(q)
  <2> DEFINE n == 8 * (m + 2)
             p == Polynomial(h) \oplus (n - 16 .. n - 1)
  <2>1. n \in Nat /\ n >= 16
    BY <1>1
  <2>2. Remainder(p, n) = {}
    BY <1>5 DEF Accepted
  <2>3. Polynomial(h) = Leading(h, m + 2)
    BY <1>5 DEF Polynomial, Leading
  <2>4. p \in SUBSET (0 .. n - 1)
    <3>1. Polynomial(h) \subseteq 0 .. n - 1
      BY <2>3 DEF Leading
    <3>2. n - 16 .. n - 1 \subseteq 0 .. n - 1
      BY <2>1
    <3> HIDE DEF n
    <3> QED
      BY <3>1, <3>2 DEF \oplus
  <2>5. p = Leading(h, m + 2) \oplus ones
    BY <2>3
  <2> HIDE DEF n, p, ones
  <2> QED
    BY <2>1, <2>2, <2>4, <2>5, RemainderIsDivisibility
<1>6. PICK q \in Polynomials : pf = Multiple(q)
  BY <1>2, <1>4, <1>5
<1>7. PICK r \in Polynomials : pg = Multiple(r)
  BY <1>3, <1>4, <1>5
<1>8. q \oplus r \in Polynomials
        /\ Leading(f, m + 2) \oplus Leading(g, m + 2) = Multiple(q \oplus r)
  <2>1. pf \oplus pg = Multiple(q \oplus r)
    BY <1>6, <1>7, MultipleSum
  <2>2. Leading(f, m + 2) \oplus Leading(g, m + 2) = pf \oplus pg
    <3> HIDE DEF ones
    <3>1. ASSUME NEW k
          PROVE  k \in Leading(f, m + 2) \oplus Leading(g, m + 2)
                   <=> k \in pf \oplus pg
      BY DEF \oplus
    <3> QED
      BY <3>1 DEF \oplus
  <2> QED
    BY <2>1, <2>2, Closed
<1> DEFINE M == Leading(data, m)
<1>9. ASSUME NEW h \in Seq(Octet), Len(h) = m + 2, \A i \in 1 .. m : h[i] = data[i]
      PROVE  /\ h[m + 1] \in Octet /\ h[m + 2] \in Octet
             /\ Leading(h, m + 2)
                  = Up(Up(M, 8) \oplus reverse(h[m + 1], 8), 8) \oplus reverse(h[m + 2], 8)
  <2>1. h[m + 1] \in Octet /\ h[m + 2] \in Octet
    <3>1. m + 1 \in 1 .. Len(h) /\ m + 2 \in 1 .. Len(h)
      BY <1>1, <1>9
    <3> QED
      BY <3>1, ElementOfSeq
  <2>2. Leading(h, m) = M
    <3>1. ASSUME NEW d \in 0 .. 8 * m - 1
          PROVE  (8 * m - 1 - d) \div 8 + 1 \in 1 .. m
      BY <1>1
    <3> QED
      BY <1>9, <3>1 DEF Leading
  <2> HIDE DEF M
  <2>3. Leading(h, m + 1) = Up(M, 8) \oplus reverse(h[m + 1], 8)
    BY <1>1, <2>1, <2>2, LeadingStep
  <2>4. m + 1 \in Nat /\ (m + 1) + 1 = m + 2
    BY <1>1
  <2>5. Leading(h, (m + 1) + 1) = Up(Leading(h, m + 1), 8) \oplus reverse(h[m + 2], 8)
    BY <2>1, <2>4, LeadingStep
  <2> QED
    BY <2>1, <2>3, <2>4, <2>5
<1>10. /\ f[m + 1] \in Octet /\ f[m + 2] \in Octet
       /\ reverse(f[m + 1], 8) = reverse(a, 8) /\ reverse(f[m + 2], 8) = reverse(b, 8)
  <2>1. M \in SUBSET Nat
    BY DEF Leading
  <2> HIDE DEF M
  <2>2. /\ f[m + 1] \in Octet /\ f[m + 2] \in Octet
        /\ Leading(f, m + 2)
             = Up(Up(M, 8) \oplus reverse(f[m + 1], 8), 8) \oplus reverse(f[m + 2], 8)
    BY <1>2, <1>9
  <2>3. Leading(g, m + 2)
          = Up(Up(M, 8) \oplus reverse(a, 8), 8) \oplus reverse(b, 8)
    BY <1>3, <1>9
  <2>4. /\ reverse(f[m + 1], 8) \in Octet /\ reverse(f[m + 2], 8) \in Octet
        /\ reverse(a, 8) \in Octet /\ reverse(b, 8) \in Octet
    BY <2>2, ReverseOctet
  <2> QED
    BY <1>8, <2>1, <2>2, <2>3, <2>4, SameTail
<1>11. ASSUME NEW x \in Octet, NEW y \in Octet, reverse(x, 8) = reverse(y, 8)
       PROVE  x = y
  <2>1. ASSUME NEW k \in 0 .. 7 PROVE k \in x <=> k \in y
    <3>1. 7 - k \in 0 .. 7 /\ 7 - (7 - k) = k
      OBVIOUS
    <3>2. /\ 7 - k \in reverse(x, 8) <=> k \in x
          /\ 7 - k \in reverse(y, 8) <=> k \in y
      BY <3>1, ReverseOctet
    <3> QED
      BY <1>11, <3>2
  <2> QED
    BY <2>1 DEF Octet
<1>12. f[m + 1] = a /\ f[m + 2] = b
  BY <1>10, <1>11
<1>13. \A i \in 1 .. m + 2 : f[i] = g[i]
  <2>1. ASSUME NEW i \in 1 .. m + 2 PROVE i \in 1 .. m \/ i = m + 1 \/ i = m + 2
    BY <1>1
  <2> QED
    BY <1>2, <1>3, <1>12, <2>1
<1> QED
  BY <1>1, <1>2, <1>3, <1>13 DEF f, g

(* The static arrays have the length of a request whatever was done to     *)
(* them, and hold octets.                                                  *)
Request == {f \in Seq(Octet) : Len(f) = 8}

ArraysIntact == air_acquire \in Request /\ soil_acquire \in Request

(* Bytes makes octets of numbers.                                          *)
LEMMA BytesType ==
  ASSUME NEW seq \in Seq(Nat)
  PROVE  Bytes(seq) \in Seq(Octet) /\ Len(Bytes(seq)) = Len(seq)
<1> DEFINE bits(x) == {k \in 0 .. 7 : (x \div 2^k) % 2 = 1}
<1>1. \A x : bits(x) \in Octet
  BY DEF Octet
<1>2. Bytes(seq) = [i \in DOMAIN seq |-> bits(seq[i])]
  BY DEF Bytes
<1> HIDE DEF bits
<1>3. DOMAIN seq = 1 .. Len(seq) /\ Len(seq) \in Nat
  OBVIOUS
<1>4. Bytes(seq) \in [1 .. Len(seq) -> Octet]
  BY <1>1, <1>2, <1>3
<1> QED
  BY <1>3, <1>4

(* What is completed of six octets is a request, and accepted.             *)
LEMMA CompletedRequest ==
  ASSUME NEW data \in Seq(Octet), Len(data) = 6
  PROVE  crc_comlete(data) \in Request /\ Accepted(crc_comlete(data))
<1>1. /\ crc_comlete(data) \in Seq(Octet)
      /\ Len(crc_comlete(data)) = Len(data) + 2
  BY FrameCorrect
<1>2. Len(crc_comlete(data)) = 8
  BY <1>1
<1>3. Accepted(crc_comlete(data))
  BY CompletedIsAccepted
<1> QED
  BY <1>1, <1>2, <1>3 DEF Request

(* An array with a new address is a request, and accepted.                 *)
LEMMA AddressedCorrect ==
  ASSUME NEW frame \in Request, NEW addr \in Nat
  PROVE  Addressed(frame, addr) \in Request /\ Accepted(Addressed(frame, addr))
<1> DEFINE head == Bytes(<<addr>>)
           data == head \o SubSeq(frame, 2, 6)
<1>1. head \in Seq(Octet) /\ Len(head) = 1
  <2>1. <<addr>> \in Seq(Nat) /\ Len(<<addr>>) = 1
    OBVIOUS
  <2> QED
    BY <2>1, BytesType
<1>2. SubSeq(frame, 2, 6) \in Seq(Octet) /\ Len(SubSeq(frame, 2, 6)) = 5
  <2>1. frame \in Seq(Octet) /\ Len(frame) = 8
    BY DEF Request
  <2>2. \A i \in 2 .. 6 : frame[i] \in Octet
    <3>1. \A i \in 1 .. Len(frame) : frame[i] \in Octet
      BY <2>1, ElementOfSeq
    <3>2. 2 .. 6 \subseteq 1 .. Len(frame)
      BY <2>1
    <3> QED
      BY <3>1, <3>2
  <2> QED
    BY <2>1, <2>2, SubSeqProperties
<1> DEFINE tail == SubSeq(frame, 2, 6)
<1> HIDE DEF head, tail
<1>3. data \in Seq(Octet) /\ Len(data) = 6
  <2>1. tail \in Seq(Octet) /\ Len(tail) = 5
    BY <1>2 DEF tail
  <2>2. head \o tail \in Seq(Octet) /\ Len(head \o tail) = Len(head) + Len(tail)
    BY <1>1, <2>1, ConcatProperties
  <2>3. Len(head \o tail) = 6
    BY <1>1, <2>1, <2>2
  <2> QED
    BY <2>2, <2>3 DEF tail
<1>4. Addressed(frame, addr) = crc_comlete(data)
  BY DEF Addressed, head
<1> HIDE DEF data
<1> QED
  BY <1>3, <1>4, CompletedRequest

(* The arrays stay intact, and what a step sends is accepted.              *)
LEMMA SendStep ==
  ASSUME ArraysIntact, SentIsDivisible, [Next]_vars
  PROVE  ArraysIntact' /\ SentIsDivisible'
<1> USE DEF ArraysIntact, SentIsDivisible
<1>1. Addrs \subseteq Nat
  BY AddrAssumption
<1>2. ASSUME NEW a \in Addrs, CollectAir(a) PROVE ArraysIntact' /\ SentIsDivisible'
  BY <1>1, <1>2, AddressedCorrect DEF CollectAir, Request
<1>3. ASSUME NEW a \in Addrs, CollectSoil(a) PROVE ArraysIntact' /\ SentIsDivisible'
  BY <1>1, <1>3, AddressedCorrect DEF CollectSoil, Request
<1>4. ASSUME NEW a \in Addrs, NEW b \in Addrs, ChangeAddr(a, b)
      PROVE  ArraysIntact' /\ SentIsDivisible'
  <2> DEFINE numbers == <<a, 6, 7, 208, 0, b>>
             data == Bytes(numbers)
  <2>1. numbers \in Seq(Nat) /\ Len(numbers) = 6
    BY <1>1
  <2>2. sent' = crc_comlete(data)
    BY <1>4 DEF ChangeAddr
  <2>3. data \in Seq(Octet) /\ Len(data) = 6
    <3> HIDE DEF numbers
    <3> QED
      BY <2>1, BytesType
  <2> HIDE DEF data
  <2>4. Len(sent') = 8 /\ Accepted(sent')
    BY <2>2, <2>3, CompletedRequest DEF Request
  <2> QED
    BY <1>4, <2>4 DEF ChangeAddr
<1>5. CASE UNCHANGED vars
  BY <1>5 DEF vars
<1> QED
  BY <1>2, <1>3, <1>4, <1>5 DEF Next

(* Every request that is sent is one its sensor accepts, whatever          *)
(* addresses are used and however often the arrays were used before.       *)
THEOREM SentCorrect == Spec => []SentIsDivisible
<1>1. Init => ArraysIntact /\ SentIsDivisible
  <2> SUFFICES ASSUME Init PROVE ArraysIntact /\ SentIsDivisible
    OBVIOUS
  <2> DEFINE air == <<2, 3, 0, 0, 0, 5, 0, 0>>
             soil == <<1, 3, 0, 0, 0, 7, 0, 0>>
  <2>1. /\ air \in Seq(Nat) /\ Len(air) = 8
        /\ soil \in Seq(Nat) /\ Len(soil) = 8
    OBVIOUS
  <2>2. air_acquire = Bytes(air) /\ soil_acquire = Bytes(soil) /\ sent = <<>>
    BY DEF Init
  <2> HIDE DEF air, soil
  <2> QED
    BY <2>1, <2>2, BytesType DEF ArraysIntact, Request, SentIsDivisible
<1> QED
  BY <1>1, SendStep, PTL DEF Spec
=============================================================================
