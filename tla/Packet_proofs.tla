--------------------------- MODULE Packet_proofs ----------------------------
(***************************************************************************)
(* For every message: the packet is read back as it was sent, and any one  *)
(* bit turned over outside the borders of its numbers, and any number of   *)
(* bytes cut off, is noticed.                                              *)
(*                                                                         *)
(* The checksum of any two texts of the same length that differ in a       *)
(* single byte differs, because a round, and so the inclusion of a byte,   *)
(* loses nothing: the high byte of a table entry tells its index.  What is *)
(* read is encoded again before it is compared, so a changed field gives   *)
(* another packet, with another checksum than the one that was sent.       *)
(***************************************************************************)
EXTENDS Packet, FiniteSetTheorems, SequenceTheorems, TLAPS

-----------------------------------------------------------------------------
(* Induction over numbers, and what is computed step by step.              *)

(* A set of numbers that is not empty has a least element.                 *)
LEMMA LeastNumber ==
    ASSUME NEW T, T \subseteq Nat, T # {}
    PROVE  \E x \in T : \A y \in T : x <= y
<1> DEFINE R == OpToRel(<, Nat)
<1>1. IsWellFoundedOn(R, Nat)
    BY NatLessThanWellFounded
<1>2. \A x, y \in Nat : y < x => <<y, x>> \in R
    BY DEF OpToRel
<1> HIDE DEF R
<1>3. PICK x \in T : \A y \in T : <<y, x>> \notin R
    BY <1>1, WFMin
<1>4. ASSUME NEW y \in T PROVE x <= y
  <2>1. x \in Nat /\ y \in Nat /\ <<y, x>> \notin R
      BY <1>3
  <2>2. ~(y < x)
      BY <1>2, <2>1
  <2> QED BY <2>1, <2>2
<1> QED BY <1>4

(* Induction over the numbers up to N.                                     *)
LEMMA Induction ==
    ASSUME NEW N \in Nat, NEW S, 0 \in S, \A n \in 1 .. N : n - 1 \in S => n \in S
    PROVE  \A n \in 0 .. N : n \in S
<1> SUFFICES ASSUME (0 .. N) \ S # {} PROVE FALSE
    OBVIOUS
<1>1. (0 .. N) \ S \subseteq Nat
    OBVIOUS
<1>2. PICK n \in (0 .. N) \ S : \A y \in (0 .. N) \ S : n <= y
    BY <1>1, LeastNumber
<1>3. n \in 1 .. N /\ n - 1 \in 0 .. N /\ n - 1 \in S
    BY <1>2
<1> QED BY <1>2, <1>3

(* What f computes step by step from a first value.                        *)
Computes(f, N, V, a, step) ==
    f \in [0 .. N -> V] /\ f[0] = a /\ \A k \in 1 .. N : f[k] = step[<<k, f[k - 1]>>]

(* What is computed step by step from a first value has a value.           *)
LEMMA Recursion ==
    ASSUME NEW N \in Nat, NEW V, NEW a \in V, NEW step \in [(1 .. N) \X V -> V]
    PROVE  \E f : Computes(f, N, V, a, step)
<1> DEFINE Goes(n, f) == f[0] = a /\ \A k \in 1 .. n : f[k] = step[<<k, f[k - 1]>>]
           S == {n \in 0 .. N : \E f \in [0 .. n -> V] : Goes(n, f)}
<1>1. 0 \in S
  <2> DEFINE f == [i \in 0 .. 0 |-> a]
  <2>1. f \in [0 .. 0 -> V] /\ Goes(0, f)
      OBVIOUS
  <2> HIDE DEF f, Goes
  <2> QED BY <2>1
<1>2. ASSUME NEW n \in 1 .. N, n - 1 \in S PROVE n \in S
  <2>1. PICK f \in [0 .. n - 1 -> V] : Goes(n - 1, f)
      BY <1>2
  <2> DEFINE last == step[<<n, f[n - 1]>>]
             g == [i \in 0 .. n |-> IF i = n THEN last ELSE f[i]]
  <2>2. last \in V
    <3>1. f[n - 1] \in V
        BY <2>1
    <3> QED BY <3>1
  <2>3. g \in [0 .. n -> V] /\ g[n] = last /\ \A i \in 0 .. n - 1 : g[i] = f[i]
      BY <2>1, <2>2
  <2> HIDE DEF g
  <2>4. g[0] = a
      BY <2>1, <2>3
  <2>5. ASSUME NEW k \in 1 .. n PROVE g[k] = step[<<k, g[k - 1]>>]
    <3>1. g[k - 1] = f[k - 1]
        BY <2>3
    <3>2. CASE k = n
        BY <2>3, <3>1, <3>2
    <3>3. CASE k # n
      <4>1. k \in 1 .. n - 1 /\ g[k] = f[k]
          BY <2>3, <3>3
      <4> QED BY <2>1, <3>1, <4>1
    <3> QED BY <3>2, <3>3
  <2>6. Goes(n, g)
      BY <2>4, <2>5
  <2> HIDE DEF Goes
  <2> QED BY <2>3, <2>6
<1>3. \A n \in 0 .. N : n \in S
  <2> HIDE DEF S
  <2> QED BY <1>1, <1>2, Induction
<1>4. PICK f \in [0 .. N -> V] : Goes(N, f)
    BY <1>3
<1> QED BY <1>4 DEF Computes

-----------------------------------------------------------------------------
(* CRC-32C.                                                                *)

(* The 32 bits of a checksum.                                              *)
Word == SUBSET (0 .. 31)

(* Two words agree on some bits.                                           *)
Agree(c, d, bits) == \A b \in bits : b \in c <=> b \in d

(* What shifting right does to every bit.                                  *)
LEMMA ShiftRightIs ==
    ASSUME NEW bits \in SUBSET Nat, NEW n \in Nat
    PROVE  \A b : b \in ShiftRight(bits, n) <=> b \in Nat /\ b + n \in bits
<1>1. ASSUME NEW b, b \in ShiftRight(bits, n) PROVE b \in Nat /\ b + n \in bits
  <2>1. PICK e \in {e \in bits : e >= n} : b = e - n
      BY <1>1 DEF ShiftRight
  <2>2. e \in Nat /\ e \in bits /\ e >= n
      BY <2>1
  <2>3. b \in Nat /\ b + n = e
      BY <2>1, <2>2
  <2> QED BY <2>2, <2>3
<1>2. ASSUME NEW b \in Nat, b + n \in bits PROVE b \in ShiftRight(bits, n)
  <2> DEFINE e == b + n
  <2>1. e >= n /\ b = e - n
      OBVIOUS
  <2>2. e \in {c \in bits : c >= n}
      BY <1>2, <2>1
  <2> HIDE DEF e
  <2> QED BY <2>1, <2>2 DEF ShiftRight
<1> QED BY <1>1, <1>2

(* What a round of the table's computation does to every bit.              *)
LEMMA RoundIs ==
    ASSUME NEW c \in Word
    PROVE  /\ Round(c) \in Word
           /\ 31 \in Round(c) <=> 0 \in c
           /\ \A b \in 0 .. 30 :
                  b \in Round(c) <=> ~(b + 1 \in c <=> (0 \in c /\ b \in CRC32C_POLY))
<1> DEFINE s == ShiftRight(c, 1)
           p == IF 0 \in c THEN CRC32C_POLY ELSE {}
<1>1. \A b : b \in s <=> b \in 0 .. 30 /\ b + 1 \in c
  <2>1. \A b : b \in s <=> b \in Nat /\ b + 1 \in c
      BY ShiftRightIs DEF Word
  <2>2. \A b \in Nat : b + 1 \in 0 .. 31 <=> b \in 0 .. 30
      OBVIOUS
  <2> QED BY <2>1, <2>2 DEF Word
<1>2. /\ p \subseteq 0 .. 31 /\ (31 \in p <=> 0 \in c)
      /\ \A b : b \in p <=> 0 \in c /\ b \in CRC32C_POLY
    BY DEF CRC32C_POLY
<1>3. Round(c) = (s \ p) \cup (p \ s)
    BY DEF Round, SymDiff
<1> HIDE DEF s, p
<1>4. 31 \notin s /\ s \subseteq 0 .. 31
    BY <1>1
<1>5. Round(c) \in Word
    BY <1>2, <1>3, <1>4 DEF Word
<1>6. 31 \in Round(c) <=> 0 \in c
    BY <1>2, <1>3, <1>4
<1>7. \A b \in 0 .. 30 : b \in Round(c) <=> ~(b \in s <=> b \in p)
    BY <1>3
<1> QED BY <1>1, <1>2, <1>5, <1>6, <1>7

(* What two words had in common before a round.                            *)
LEMMA RoundBack ==
    ASSUME NEW c \in Word, NEW d \in Word, NEW k \in 1 .. 8,
           Agree(Round(c), Round(d), (0 .. 7 - k) \cup (32 - k .. 31))
    PROVE  Agree(c, d, (0 .. 8 - k) \cup (33 - k .. 31))
<1>1. 0 \in c <=> 0 \in d
    BY RoundIs DEF Agree
<1>2. ASSUME NEW b \in (0 .. 8 - k) \cup (33 - k .. 31), b # 0
      PROVE  b \in c <=> b \in d
  <2>1. b - 1 \in 0 .. 30 /\ b - 1 \in (0 .. 7 - k) \cup (32 - k .. 31) /\ (b - 1) + 1 = b
      BY <1>2
  <2>2. b - 1 \in Round(c) <=> b - 1 \in Round(d)
      BY <2>1 DEF Agree
  <2>3. b - 1 \in Round(c) <=> ~(b \in c <=> (0 \in c /\ b - 1 \in CRC32C_POLY))
      BY <2>1, RoundIs
  <2>4. b - 1 \in Round(d) <=> ~(b \in d <=> (0 \in d /\ b - 1 \in CRC32C_POLY))
      BY <2>1, RoundIs
  <2> QED BY <1>1, <2>2, <2>3, <2>4
<1> QED BY <1>1, <1>2 DEF Agree

(* The rounds from a first word.                                           *)
Rounds(f, c) == f \in [0 .. 8 -> Word] /\ f[0] = c /\ \A j \in 1 .. 8 : f[j] = Round(f[j - 1])

(* A byte is a word.                                                       *)
LEMMA BytesAreWords == Byte \subseteq Word
BY DEF Byte, Word

(* An entry of the table is its byte after eight rounds.                   *)
LEMMA TableIs ==
    ASSUME NEW byte \in Byte
    PROVE  \E f : Rounds(f, byte) /\ crc32c_table[byte] = f[8]
<1> DEFINE step == [p \in (1 .. 8) \X Word |-> Round(p[2])]
<1>1. byte \in Word
    BY BytesAreWords
<1>2. step \in [(1 .. 8) \X Word -> Word]
  <2>1. \A c \in Word : Round(c) \in Word
      BY RoundIs
  <2> QED BY <2>1
<1>3. \A j \in 1 .. 8, c \in Word : step[<<j, c>>] = Round(c)
    OBVIOUS
<1> HIDE DEF step
<1>4. PICK f : Computes(f, 8, Word, byte, step)
    BY <1>1, <1>2, Recursion
<1>5. Rounds(f, byte)
  <2>1. \A j \in 1 .. 8 : f[j - 1] \in Word
      BY <1>4 DEF Computes
  <2> QED BY <1>3, <1>4, <2>1 DEF Computes, Rounds
<1> DEFINE Fix(g) == g = [j \in 0 .. 8 |-> IF j = 0 THEN byte ELSE Round(g[j - 1])]
           g == CHOOSE g : Fix(g)
<1>6. crc32c_table[byte] = g[8]
    BY DEF crc32c_table
<1>7. Fix(f)
    BY <1>5 DEF Rounds
<1>8. Fix(g)
  <2> HIDE DEF Fix
  <2> QED BY <1>7
<1> HIDE DEF g
<1>9. g[0] = byte /\ \A j \in 1 .. 8 : g[j] = Round(g[j - 1])
    BY <1>8
<1> DEFINE S == {j \in 0 .. 8 : g[j] = f[j]}
<1>10. 0 \in S
    BY <1>5, <1>9 DEF Rounds
<1>11. \A j \in 1 .. 8 : j - 1 \in S => j \in S
    BY <1>5, <1>9 DEF Rounds
<1>12. 8 \in S
  <2> HIDE DEF S
  <2>1. \A j \in 0 .. 8 : j \in S
      BY <1>10, <1>11, Induction
  <2> QED BY <2>1
<1> QED BY <1>5, <1>6, <1>12

(* The highest byte of an entry tells which entry it is.                   *)
LEMMA HighByteTells ==
    ASSUME NEW c \in Byte, NEW d \in Byte,
           Agree(crc32c_table[c], crc32c_table[d], 24 .. 31)
    PROVE  c = d
<1>1. PICK f : Rounds(f, c) /\ crc32c_table[c] = f[8]
    BY TableIs
<1>2. PICK g : Rounds(g, d) /\ crc32c_table[d] = g[8]
    BY TableIs
<1> DEFINE Back(j) == Agree(f[8 - j], g[8 - j], (0 .. j - 1) \cup (24 + j .. 31))
           S == {j \in 0 .. 8 : Back(j)}
<1>3. 0 \in S
  <2>1. (0 .. 0 - 1) \cup (24 + 0 .. 31) = 24 .. 31 /\ 8 - 0 = 8
      OBVIOUS
  <2> QED BY <1>1, <1>2, <2>1
<1>4. ASSUME NEW j \in 1 .. 8, j - 1 \in S PROVE j \in S
  <2> DEFINE k == 9 - j
  <2>1. k \in 1 .. 8 /\ 8 - (j - 1) = k /\ 8 - j = k - 1 /\ j - 1 = 8 - k
        /\ (j - 1) - 1 = 7 - k /\ 24 + (j - 1) = 32 - k /\ 24 + j = 33 - k
      OBVIOUS
  <2>2. f[k] = Round(f[k - 1]) /\ g[k] = Round(g[k - 1]) /\ f[k - 1] \in Word /\ g[k - 1] \in Word
      BY <1>1, <1>2, <2>1 DEF Rounds
  <2>3. Back(j - 1)
      BY <1>4
  <2>4. Agree(f[k], g[k], (0 .. 7 - k) \cup (32 - k .. 31))
      BY <2>1, <2>3
  <2>5. Agree(f[k - 1], g[k - 1], (0 .. 8 - k) \cup (33 - k .. 31))
      BY <2>1, <2>2, <2>4, RoundBack
  <2>6. Back(j)
      BY <2>1, <2>5
  <2> HIDE DEF Back
  <2> QED BY <2>6
<1>5. 8 \in S
  <2> HIDE DEF S
  <2>1. \A j \in 0 .. 8 : j \in S
      BY <1>3, <1>4, Induction
  <2> QED BY <2>1
<1>6. Agree(c, d, 0 .. 7)
  <2>1. (0 .. 8 - 1) \cup (24 + 8 .. 31) = 0 .. 7 /\ 8 - 8 = 0
      OBVIOUS
  <2> QED BY <1>1, <1>2, <1>5, <2>1 DEF Rounds
<1> QED BY <1>6 DEF Agree, Byte

(* The table's entries are words.                                          *)
LEMMA TableType ==
    ASSUME NEW byte \in Byte
    PROVE  crc32c_table[byte] \in Word
BY TableIs DEF Rounds

(* What including a byte in the checksum does to every bit.                *)
LEMMA IncludeIs ==
    ASSUME NEW crc \in Word, NEW byte \in Byte
    PROVE  LET x == SymDiff(crc \cap (0 .. 7), byte) IN
           /\ x \in Byte
           /\ \A b : b \in x <=> ~(b \in crc \cap (0 .. 7) <=> b \in byte)
           /\ Include(crc, byte) \in Word
           /\ \A b : b \in Include(crc, byte) <=>
                         ~(b \in 0 .. 23 /\ b + 8 \in crc <=> b \in crc32c_table[x])
<1> DEFINE x == SymDiff(crc \cap (0 .. 7), byte)
           s == ShiftRight(crc, 8)
           t == crc32c_table[x]
<1>1. x \in Byte /\ \A b : b \in x <=> ~(b \in crc \cap (0 .. 7) <=> b \in byte)
    BY DEF Byte, SymDiff
<1>2. \A b : b \in s <=> b \in 0 .. 23 /\ b + 8 \in crc
  <2>1. \A b : b \in s <=> b \in Nat /\ b + 8 \in crc
      BY ShiftRightIs DEF Word
  <2>2. \A b \in Nat : b + 8 \in 0 .. 31 <=> b \in 0 .. 23
      OBVIOUS
  <2> QED BY <2>1, <2>2 DEF Word
<1>3. t \in Word
    BY <1>1, TableType
<1>4. Include(crc, byte) = (s \ t) \cup (t \ s)
    BY DEF Include, SymDiff
<1> HIDE DEF x, s, t
<1>5. Include(crc, byte) \in Word
  <2>1. s \subseteq 0 .. 31
      BY <1>2
  <2> QED BY <1>3, <1>4, <2>1 DEF Word
<1>6. \A b : b \in Include(crc, byte) <=> ~(b \in s <=> b \in t)
    BY <1>4
<1> QED BY <1>1, <1>2, <1>5, <1>6 DEF x, t

(* A checksum with a byte included is a word.                              *)
LEMMA IncludeType ==
    ASSUME NEW crc \in Word, NEW byte \in Byte
    PROVE  Include(crc, byte) \in Word
BY IncludeIs

(* Neither another byte nor another word before it gives the same word.    *)
LEMMA IncludeTells ==
    ASSUME NEW c \in Word, NEW d \in Word, NEW a \in Byte, NEW b \in Byte,
           Include(c, a) = Include(d, b)
    PROVE  (a = b => c = d) /\ (c = d => a = b)
<1> DEFINE x == SymDiff(c \cap (0 .. 7), a)
           y == SymDiff(d \cap (0 .. 7), b)
<1>1. /\ x \in Byte /\ \A e : e \in x <=> ~(e \in c \cap (0 .. 7) <=> e \in a)
      /\ \A e : e \in Include(c, a) <=> ~(e \in 0 .. 23 /\ e + 8 \in c <=> e \in crc32c_table[x])
    BY IncludeIs
<1>2. /\ y \in Byte /\ \A e : e \in y <=> ~(e \in d \cap (0 .. 7) <=> e \in b)
      /\ \A e : e \in Include(d, b) <=> ~(e \in 0 .. 23 /\ e + 8 \in d <=> e \in crc32c_table[y])
    BY IncludeIs
<1> HIDE DEF x, y
<1>3. \A e \in 24 .. 31 : e \notin 0 .. 23
    OBVIOUS
<1>4. Agree(crc32c_table[x], crc32c_table[y], 24 .. 31)
    BY <1>1, <1>2, <1>3 DEF Agree
<1>5. x = y
    BY <1>1, <1>2, <1>4, HighByteTells
<1>6. ASSUME NEW e \in 8 .. 31 PROVE e \in c <=> e \in d
  <2>1. e - 8 \in 0 .. 23 /\ (e - 8) + 8 = e
      OBVIOUS
  <2> QED BY <1>1, <1>2, <1>5, <2>1
<1>7. ASSUME a = b PROVE c = d
  <2>1. \A e \in 0 .. 7 : e \in c <=> e \in d
      BY <1>1, <1>2, <1>5, <1>7
  <2>2. \A e \in 0 .. 31 : e \in 0 .. 7 \/ e \in 8 .. 31
      OBVIOUS
  <2> QED BY <1>6, <2>1, <2>2 DEF Word
<1>8. ASSUME c = d PROVE a = b
    BY <1>1, <1>2, <1>5, <1>8
<1> QED BY <1>7, <1>8

-----------------------------------------------------------------------------
(* The words after each byte of some bytes, from a first word.             *)
Included(f, data, first, crc) ==
    /\ f \in [0 .. Len(data) - first + 1 -> Word] /\ f[0] = crc
    /\ \A k \in 1 .. Len(data) - first + 1 : f[k] = Include(f[k - 1], data[first + k - 1])

(* The bytes from one on can be included one after the other.              *)
LEMMA InclusionIs ==
    ASSUME NEW data \in Seq(Byte), NEW first \in 1 .. Len(data), NEW crc \in Word
    PROVE  \E f : Included(f, data, first, crc)
<1> DEFINE n == Len(data) - first + 1
           step == [p \in (1 .. n) \X Word |-> Include(p[2], data[first + p[1] - 1])]
<1>1. n \in Nat /\ \A k \in 1 .. n : data[first + k - 1] \in Byte
    OBVIOUS
<1>2. step \in [(1 .. n) \X Word -> Word]
  <2>1. \A k \in 1 .. n, c \in Word : Include(c, data[first + k - 1]) \in Word
      BY <1>1, IncludeType
  <2> HIDE DEF n
  <2> QED BY <2>1
<1>3. \A k \in 1 .. n, c \in Word : step[<<k, c>>] = Include(c, data[first + k - 1])
    OBVIOUS
<1> HIDE DEF step
<1>4. PICK f : Computes(f, n, Word, crc, step)
  <2> HIDE DEF n
  <2> QED BY <1>1, <1>2, Recursion
<1>5. \A k \in 1 .. n : f[k - 1] \in Word
  <2> HIDE DEF n
  <2> QED BY <1>1, <1>4 DEF Computes
<1>6. Included(f, data, first, crc)
    BY <1>3, <1>4, <1>5 DEF Computes, Included
<1> QED BY <1>6

(* The word after the bytes from first to last.                            *)
After(data, first, last, crc) ==
    (CHOOSE f : Included(f, data, first, crc))[last - first + 1]

(* The checksum after one byte, and after each of the bytes that follow.   *)
LEMMA AfterIs ==
    ASSUME NEW data \in Seq(Byte), NEW first \in 1 .. Len(data), NEW crc \in Word
    PROVE  /\ \A last \in first .. Len(data) : After(data, first, last, crc) \in Word
           /\ After(data, first, first, crc) = Include(crc, data[first])
           /\ \E f : /\ Included(f, data, first, crc)
                    /\ \A last \in first - 1 .. Len(data) :
                           After(data, first, last, crc) = f[last - first + 1]
<1> DEFINE f == CHOOSE f : Included(f, data, first, crc)
<1>1. Included(f, data, first, crc)
    BY InclusionIs
<1>2. \A last \in first - 1 .. Len(data) : After(data, first, last, crc) = f[last - first + 1]
    BY DEF After
<1> HIDE DEF f
<1>3. \A last \in first .. Len(data) : f[last - first + 1] \in Word
  <2>1. \A last \in first .. Len(data) : last - first + 1 \in 0 .. Len(data) - first + 1
      OBVIOUS
  <2> QED BY <1>1, <2>1 DEF Included
<1>4. f[1] = Include(crc, data[first])
  <2>1. 1 \in 1 .. Len(data) - first + 1 /\ 1 - 1 = 0 /\ first + 1 - 1 = first
      OBVIOUS
  <2>2. f[1] = Include(f[1 - 1], data[first + 1 - 1])
      BY <1>1, <2>1 DEF Included
  <2> QED BY <1>1, <2>1, <2>2 DEF Included
<1>5. first - first + 1 = 1 /\ first \in first - 1 .. Len(data)
    OBVIOUS
<1> QED BY <1>1, <1>2, <1>3, <1>4, <1>5

(* Bytes may be taken in two parts.                                        *)
LEMMA AfterInParts ==
    ASSUME NEW data \in Seq(Byte), NEW first \in 1 .. Len(data), NEW crc \in Word,
           NEW mid \in first .. Len(data) - 1
    PROVE  \A last \in mid + 1 .. Len(data) :
               After(data, first, last, crc)
                   = After(data, mid + 1, last, After(data, first, mid, crc))
<1>1. PICK f : /\ Included(f, data, first, crc)
               /\ \A last \in first - 1 .. Len(data) :
                      After(data, first, last, crc) = f[last - first + 1]
    BY AfterIs
<1> DEFINE middle == After(data, first, mid, crc)
<1>2. middle \in Word /\ mid + 1 \in 1 .. Len(data) /\ middle = f[mid - first + 1]
  <2>1. mid + 1 \in 1 .. Len(data) /\ mid \in first .. Len(data) /\ mid \in first - 1 .. Len(data)
      OBVIOUS
  <2> QED BY <1>1, <2>1, AfterIs
<1> HIDE DEF middle
<1>3. PICK g : /\ Included(g, data, mid + 1, middle)
               /\ \A last \in (mid + 1) - 1 .. Len(data) :
                      After(data, mid + 1, last, middle) = g[last - (mid + 1) + 1]
    BY <1>2, AfterIs
<1> DEFINE n == Len(data) - mid
           S == {k \in 0 .. n : g[k] = f[mid - first + 1 + k]}
<1>4. n \in Nat /\ n = Len(data) - (mid + 1) + 1
    OBVIOUS
<1>5. 0 \in S
    BY <1>2, <1>3 DEF Included
<1>6. ASSUME NEW k \in 1 .. n, k - 1 \in S PROVE k \in S
  <2> DEFINE j == mid - first + 1 + k
  <2>1. j \in 1 .. Len(data) - first + 1 /\ j - 1 = mid - first + 1 + (k - 1)
        /\ first + j - 1 = mid + 1 + k - 1
      OBVIOUS
  <2>2. f[j] = Include(f[j - 1], data[first + j - 1])
      BY <1>1, <2>1 DEF Included
  <2>3. g[k] = Include(g[k - 1], data[mid + 1 + k - 1])
      BY <1>3, <1>4 DEF Included
  <2>4. g[k - 1] = f[j - 1]
      BY <1>6, <2>1
  <2> QED BY <2>1, <2>2, <2>3, <2>4
<1>7. \A k \in 0 .. n : k \in S
  <2> HIDE DEF n, S
  <2> QED BY <1>4, <1>5, <1>6, Induction
<1>8. ASSUME NEW last \in mid + 1 .. Len(data)
      PROVE  After(data, first, last, crc) = After(data, mid + 1, last, middle)
  <2> DEFINE k == last - mid
  <2>1. k \in 0 .. n /\ last - first + 1 = mid - first + 1 + k /\ last - (mid + 1) + 1 = k
      OBVIOUS
  <2>2. g[k] = f[mid - first + 1 + k]
      BY <1>7, <2>1
  <2>3. last \in first - 1 .. Len(data) /\ last \in (mid + 1) - 1 .. Len(data)
      OBVIOUS
  <2>4. After(data, first, last, crc) = f[last - first + 1]
      BY <1>1, <2>3
  <2>5. After(data, mid + 1, last, middle) = g[last - (mid + 1) + 1]
      BY <1>3, <2>3
  <2> QED BY <2>1, <2>2, <2>4, <2>5
<1> QED BY <1>8 DEF middle

(* The checksum takes halves of the bytes, and yet every byte in turn.     *)
LEMMA ChecksumIs ==
    ASSUME NEW data \in Seq(Byte), data # <<>>
    PROVE  \E f : /\ Included(f, data, 1, 0 .. 31)
                 /\ CalculateCRC32C(data) = (0 .. 31) \ f[Len(data)]
<1> DEFINE L == Len(data)
           Mid(first, last) == (first + last) \div 2
           D == (DOMAIN data) \X (DOMAIN data) \X Word
           Part(g, first, last, crc) ==
               IF first = last THEN Include(crc, data[first])
               ELSE g[<<Mid(first, last) + 1, last, g[<<first, Mid(first, last), crc>>]>>]
           Fix(g) == g = [p \in D |-> Part(g, p[1], p[2], p[3])]
           a == [p \in D |-> IF p[1] <= p[2] THEN After(data, p[1], p[2], p[3]) ELSE p[3]]
           g == CHOOSE g : Fix(g)
<1>1. L \in Nat \ {0} /\ DOMAIN data = 1 .. L /\ 0 .. 31 \in Word
    BY DEF Word
<1>2. CalculateCRC32C(data) = (0 .. 31) \ g[<<1, L, 0 .. 31>>]
    BY DEF CalculateCRC32C, Word
<1>3. \A first, last \in Int : first < last =>
          Mid(first, last) \in first .. last - 1
    OBVIOUS
<1>4. \A first, last \in Int : last < first =>
          Mid(first, last) \in last .. first - 1
    OBVIOUS
<1>5. \A first \in 1 .. L, last \in 1 .. L, crc \in Word :
          /\ <<first, last, crc>> \in D
          /\ a[<<first, last, crc>>] =
                 IF first <= last THEN After(data, first, last, crc) ELSE crc
    BY <1>1
<1> HIDE DEF a
<1>6. ASSUME NEW first \in 1 .. L, NEW last \in 1 .. L, NEW crc \in Word
      PROVE  a[<<first, last, crc>>] = Part(a, first, last, crc)
  <2> DEFINE m == Mid(first, last)
  <2>1. CASE first = last
    <3>1. a[<<first, last, crc>>] = After(data, first, first, crc)
        BY <1>5, <2>1
    <3> QED BY <1>1, <2>1, <3>1, AfterIs
  <2>2. CASE first < last
    <3>1. m \in first .. last - 1
        BY <1>3, <2>2
    <3> HIDE DEF Mid, m
    <3>2. m \in 1 .. L /\ m + 1 \in 1 .. L /\ m \in first .. Len(data) - 1
          /\ last \in m + 1 .. Len(data) /\ first <= m /\ m + 1 <= last /\ m \in first .. Len(data)
        BY <3>1
    <3>3. After(data, first, m, crc) \in Word
        BY <1>1, <3>2, AfterIs
    <3>4. a[<<first, m, crc>>] = After(data, first, m, crc)
        BY <1>5, <3>2
    <3>5. a[<<m + 1, last, a[<<first, m, crc>>]>>]
              = After(data, m + 1, last, After(data, first, m, crc))
        BY <1>5, <3>2, <3>3, <3>4
    <3>6. After(data, first, last, crc) = After(data, m + 1, last, After(data, first, m, crc))
        BY <1>1, <3>2, AfterInParts
    <3>7. a[<<first, last, crc>>] = After(data, first, last, crc)
        BY <1>5, <2>2
    <3>8. first # last
        BY <2>2
    <3> QED BY <3>5, <3>6, <3>7, <3>8 DEF m
  <2>3. CASE last < first
    <3>1. m \in last .. first - 1
        BY <1>4, <2>3
    <3> HIDE DEF Mid, m
    <3>2. m \in 1 .. L /\ m + 1 \in 1 .. L /\ ~(first <= m) /\ ~(m + 1 <= last)
        BY <3>1
    <3>3. a[<<first, m, crc>>] = crc
        BY <1>5, <3>2
    <3>4. a[<<first, last, crc>>] = crc
        BY <1>5, <2>3
    <3>5. a[<<m + 1, last, crc>>] = crc
        BY <1>5, <3>2
    <3>6. first # last
        BY <2>3
    <3> QED BY <3>3, <3>4, <3>5, <3>6 DEF m
  <2>4. first = last \/ first < last \/ last < first
      OBVIOUS
  <2> QED BY <2>1, <2>2, <2>3, <2>4
<1>7. Fix(a)
  <2>2. ASSUME NEW p \in D PROVE a[p] = Part(a, p[1], p[2], p[3])
    <3>1. p[1] \in 1 .. L /\ p[2] \in 1 .. L /\ p[3] \in Word /\ p = <<p[1], p[2], p[3]>>
        BY <1>1
    <3> HIDE DEF D, Part
    <3>2. a[<<p[1], p[2], p[3]>>] = Part(a, p[1], p[2], p[3])
        BY <1>6, <3>1
    <3> QED BY <3>1, <3>2
  <2>3. DOMAIN a = D /\ a = [p \in D |-> a[p]]
      BY DEF a
  <2> HIDE DEF D, Part
  <2> QED BY <2>2, <2>3
<1>8. Fix(g)
  <2> HIDE DEF Fix
  <2> QED BY <1>7
<1> HIDE DEF g
<1>9. \A first \in 1 .. L, last \in 1 .. L, crc \in Word :
          g[<<first, last, crc>>] = Part(g, first, last, crc)
  <2> SUFFICES ASSUME NEW first \in 1 .. L, NEW last \in 1 .. L, NEW crc \in Word
               PROVE  g[<<first, last, crc>>] = Part(g, first, last, crc)
      OBVIOUS
  <2> DEFINE p == <<first, last, crc>>
  <2>1. p \in D /\ p[1] = first /\ p[2] = last /\ p[3] = crc
      BY <1>5
  <2> HIDE DEF D, Part, p
  <2>2. g[p] = Part(g, p[1], p[2], p[3])
      BY <1>8, <2>1
  <2> QED BY <2>1, <2>2 DEF p
<1> DEFINE Right(k) == \A first \in 1 .. L, last \in 1 .. L, crc \in Word :
                           last - first \in 0 .. k =>
                               g[<<first, last, crc>>] = After(data, first, last, crc)
           S == {k \in 0 .. L - 1 : Right(k)}
<1>10. 0 \in S
  <2> SUFFICES ASSUME NEW first \in 1 .. L, NEW last \in 1 .. L, NEW crc \in Word,
                      last - first \in 0 .. 0
               PROVE  g[<<first, last, crc>>] = After(data, first, last, crc)
      BY <1>1
  <2>1. first = last
      OBVIOUS
  <2>2. g[<<first, last, crc>>] = Include(crc, data[first])
      BY <1>9, <2>1
  <2> QED BY <1>1, <2>1, <2>2, AfterIs
<1>11. ASSUME NEW k \in 1 .. L - 1, k - 1 \in S PROVE k \in S
  <2> SUFFICES ASSUME NEW first \in 1 .. L, NEW last \in 1 .. L, NEW crc \in Word,
                      last - first \in 0 .. k
               PROVE  g[<<first, last, crc>>] = After(data, first, last, crc)
      BY <1>1
  <2>1. Right(k - 1)
      BY <1>11
  <2>2. CASE last - first \in 0 .. k - 1
      BY <2>1, <2>2
  <2>3. CASE last - first = k
    <3> DEFINE m == Mid(first, last)
    <3>1. m \in first .. last - 1
        BY <1>3, <2>3
    <3> HIDE DEF Mid, m
    <3>2. /\ m \in 1 .. L /\ m + 1 \in 1 .. L /\ m \in first .. Len(data) - 1
          /\ last \in m + 1 .. Len(data) /\ m \in first .. Len(data)
          /\ m - first \in 0 .. k - 1 /\ last - (m + 1) \in 0 .. k - 1 /\ first # last
        BY <2>3, <3>1
    <3>3. After(data, first, m, crc) \in Word
        BY <1>1, <3>2, AfterIs
    <3>4. g[<<first, m, crc>>] = After(data, first, m, crc)
        BY <2>1, <3>2
    <3>5. g[<<m + 1, last, g[<<first, m, crc>>]>>]
              = After(data, m + 1, last, After(data, first, m, crc))
        BY <2>1, <3>2, <3>3, <3>4
    <3>6. After(data, first, last, crc) = After(data, m + 1, last, After(data, first, m, crc))
        BY <1>1, <3>2, AfterInParts
    <3>7. g[<<first, last, crc>>] = g[<<m + 1, last, g[<<first, m, crc>>]>>]
        BY <1>9, <3>2 DEF m
    <3> QED BY <3>5, <3>6, <3>7
  <2> QED BY <2>2, <2>3
<1>12. Right(L - 1)
  <2>1. L - 1 \in Nat /\ L - 1 \in 0 .. L - 1
      BY <1>1
  <2> HIDE DEF S, L
  <2>2. \A k \in 0 .. L - 1 : k \in S
      BY <1>10, <1>11, <2>1, Induction
  <2> HIDE DEF Right
  <2> QED BY <2>1, <2>2 DEF S
<1>13. g[<<1, L, 0 .. 31>>] = After(data, 1, L, 0 .. 31)
  <2>1. 1 \in 1 .. L /\ L \in 1 .. L /\ L - 1 \in 0 .. L - 1
      BY <1>1
  <2> DEFINE all == 0 .. 31
  <2>2. all \in Word
      BY <1>1
  <2> HIDE DEF L, all
  <2>3. L - 1 \in 0 .. L - 1 => g[<<1, L, all>>] = After(data, 1, L, all)
      BY <1>12, <2>1, <2>2, Zenon
  <2> QED BY <2>1, <2>3 DEF all
<1>14. PICK f : /\ Included(f, data, 1, 0 .. 31)
                /\ \A last \in 1 - 1 .. Len(data) :
                       After(data, 1, last, 0 .. 31) = f[last - 1 + 1]
    BY <1>1, AfterIs
<1>15. L \in 1 - 1 .. Len(data) /\ L - 1 + 1 = L
    BY <1>1
<1>16. After(data, 1, L, 0 .. 31) = f[L]
    BY <1>14, <1>15
<1> QED BY <1>2, <1>13, <1>14, <1>16

-----------------------------------------------------------------------------
(* The bytes differ in one place.                                          *)
DifferAt(a, b, i) ==
    /\ a \in Seq(Byte) /\ b \in Seq(Byte) /\ Len(a) = Len(b)
    /\ i \in 1 .. Len(a) /\ a[i] # b[i]
    /\ \A j \in 1 .. Len(a) : j # i => a[j] = b[j]

(* CRC-32C notices every byte that is not what it was, whatever the bytes  *)
(* and however many of its bits have changed: the table tells bytes apart, *)
(* and words that differ never become equal again.                         *)
THEOREM OneByteIsNoticed ==
    ASSUME NEW a, NEW b, NEW i, DifferAt(a, b, i)
    PROVE  CalculateCRC32C(a) # CalculateCRC32C(b)
<1> DEFINE n == Len(a)
<1>1. /\ a \in Seq(Byte) /\ b \in Seq(Byte) /\ n = Len(a) /\ n = Len(b) /\ n \in Nat
      /\ i \in 1 .. n /\ a[i] # b[i] /\ a # <<>> /\ b # <<>>
      /\ \A j \in 1 .. n : j # i => a[j] = b[j]
      /\ \A j \in 1 .. n : a[j] \in Byte /\ b[j] \in Byte
    BY DEF DifferAt
<1> HIDE DEF n
<1>2. PICK f : Included(f, a, 1, 0 .. 31) /\ CalculateCRC32C(a) = (0 .. 31) \ f[Len(a)]
    BY <1>1, ChecksumIs
<1>3. PICK g : Included(g, b, 1, 0 .. 31) /\ CalculateCRC32C(b) = (0 .. 31) \ g[Len(b)]
    BY <1>1, ChecksumIs
<1>4. /\ f[0] = g[0] /\ \A k \in 0 .. n : f[k] \in Word /\ g[k] \in Word
      /\ \A k \in 1 .. n : f[k] = Include(f[k - 1], a[k]) /\ g[k] = Include(g[k - 1], b[k])
  <2>1. n - 1 + 1 = n /\ \A k \in 1 .. n : 1 + k - 1 = k
      BY <1>1
  <2> QED BY <1>1, <1>2, <1>3, <2>1 DEF Included
<1> DEFINE S == {k \in 0 .. n : f[k] = g[k] <=> k < i}
<1>5. 0 \in S
    BY <1>1, <1>4
<1>6. ASSUME NEW k \in 1 .. n, k - 1 \in S PROVE k \in S
  <2>1. f[k - 1] \in Word /\ g[k - 1] \in Word /\ a[k] \in Byte /\ b[k] \in Byte
      BY <1>1, <1>4
  <2>2. f[k] = g[k] => (a[k] = b[k] => f[k - 1] = g[k - 1]) /\ (f[k - 1] = g[k - 1] => a[k] = b[k])
      BY <1>4, <2>1, IncludeTells
  <2>3. f[k - 1] = g[k - 1] <=> k - 1 < i
      BY <1>6
  <2>4. k < i => k # i /\ k - 1 < i
      BY <1>1
  <2>5. ~(k < i) => k = i \/ ~(k - 1 < i)
      BY <1>1
  <2>6. CASE k < i
      BY <1>1, <1>4, <2>3, <2>4, <2>6
  <2>7. CASE ~(k < i)
    <3>1. CASE k = i
        BY <1>1, <2>2, <2>3, <2>7, <3>1
    <3>2. CASE k # i
        BY <1>1, <2>2, <2>3, <2>5, <2>7, <3>2
    <3> QED BY <3>1, <3>2
  <2> QED BY <2>6, <2>7
<1>7. n \in S
  <2> HIDE DEF S
  <2>1. \A k \in 0 .. n : k \in S
      BY <1>1, <1>5, <1>6, Induction
  <2> QED BY <1>1, <2>1
<1>8. f[n] # g[n] /\ f[n] \in Word /\ g[n] \in Word
    BY <1>1, <1>4, <1>7
<1>9. \E e \in 0 .. 31 : ~(e \in f[n] <=> e \in g[n])
    BY <1>8 DEF Word
<1>10. CalculateCRC32C(a) = (0 .. 31) \ f[n] /\ CalculateCRC32C(b) = (0 .. 31) \ g[n]
    BY <1>1, <1>2, <1>3
<1> QED BY <1>9, <1>10

-----------------------------------------------------------------------------
(* Variable-length numbers.                                                *)

(* The 64 bits of a package's id.                                          *)
Long == SUBSET (0 .. 63)

(* Bytes that are a number's groups: seven bits a byte, the last not       *)
(* empty unless it is the only one, bit 7 in all but the last.             *)
IsEncoding(s, v) ==
    /\ s \in Seq(Byte) /\ Len(s) \in 1 .. 10 /\ v \in Long
    /\ \A b \in v : b < 7 * Len(s)
    /\ Len(s) = 1 \/ \E b \in v : 7 * (Len(s) - 1) <= b
    /\ \A i \in 1 .. Len(s) : 7 \in s[i] <=> i < Len(s)
    /\ \A i \in 1 .. Len(s), b \in 0 .. 6 : b \in s[i] <=> b + 7 * (i - 1) \in v

(* A value has no two encodings.                                           *)
LEMMA OneEncoding ==
    ASSUME NEW s, NEW t, NEW v, IsEncoding(s, v), IsEncoding(t, v)
    PROVE  s = t
<1> DEFINE n == Len(s)
           m == Len(t)
<1>1. /\ s \in Seq(Byte) /\ t \in Seq(Byte) /\ n \in 1 .. 10 /\ m \in 1 .. 10 /\ v \in Long
      /\ \A b \in v : b < 7 * n /\ b < 7 * m
      /\ n = 1 \/ \E b \in v : 7 * (n - 1) <= b
      /\ m = 1 \/ \E b \in v : 7 * (m - 1) <= b
    BY DEF IsEncoding
<1>2. n = m
  <2> HIDE DEF n, m
  <2>1. \A b \in v : b \in Int
      BY <1>1 DEF Long
  <2>2. ~(n < m)
      BY <1>1, <2>1
  <2>3. ~(m < n)
      BY <1>1, <2>1
  <2> QED BY <1>1, <2>2, <2>3
<1>3. ASSUME NEW i \in 1 .. n PROVE s[i] = t[i]
  <2>1. s[i] \in Byte /\ t[i] \in Byte
      BY <1>1, <1>2, <1>3
  <2>2. 7 \in s[i] <=> 7 \in t[i]
      BY <1>2, <1>3 DEF IsEncoding
  <2>3. \A b \in 0 .. 6 : b \in s[i] <=> b \in t[i]
      BY <1>2, <1>3 DEF IsEncoding
  <2>4. \A b \in 0 .. 7 : b \in 0 .. 6 \/ b = 7
      OBVIOUS
  <2>5. \A b \in 0 .. 7 : b \in s[i] <=> b \in t[i]
      BY <2>2, <2>3, <2>4
  <2> HIDE DEF n, m
  <2>6. s[i] \subseteq t[i] /\ t[i] \subseteq s[i]
      BY <2>1, <2>5 DEF Byte
  <2> QED BY <2>6
<1> QED BY <1>1, <1>2, <1>3

(* The groups of a number, first to last.                                  *)
LEMMA FirstGroup ==
    ASSUME NEW v \in Long, v \subseteq 0 .. 6
    PROVE  IsEncoding(<<v>>, v)
<1>1. <<v>> \in Seq(Byte) /\ Len(<<v>>) = 1 /\ <<v>>[1] = v /\ v \in Byte
    BY DEF Byte
<1>2. \A i \in 1 .. 1 : i = 1
    OBVIOUS
<1> QED BY <1>1, <1>2 DEF IsEncoding

(* A value without its first group.                                        *)
LEMMA ShiftLong ==
    ASSUME NEW v \in Long
    PROVE  /\ ShiftRight(v, 7) \in Long
           /\ \A b : b \in ShiftRight(v, 7) <=> b \in Nat /\ b + 7 \in v
           /\ \A k \in Nat : v \subseteq 0 .. 7 * (k + 1) - 1
                                 => ShiftRight(v, 7) \subseteq 0 .. 7 * k - 1
<1>1. \A b : b \in ShiftRight(v, 7) <=> b \in Nat /\ b + 7 \in v
    BY ShiftRightIs DEF Long
<1>2. ShiftRight(v, 7) \in Long
    BY <1>1 DEF Long
<1>3. ASSUME NEW k \in Nat, v \subseteq 0 .. 7 * (k + 1) - 1
      PROVE  ShiftRight(v, 7) \subseteq 0 .. 7 * k - 1
  <2> SUFFICES ASSUME NEW b \in ShiftRight(v, 7) PROVE b \in 0 .. 7 * k - 1
      OBVIOUS
  <2>1. b \in Nat /\ b + 7 \in 0 .. 7 * (k + 1) - 1
      BY <1>1, <1>3
  <2> QED BY <2>1
<1> QED BY <1>1, <1>2, <1>3

(* The encoding of a value of several groups, from that of its later ones. *)
LEMMA NextGroup ==
    ASSUME NEW v \in Long, ~(v \subseteq 0 .. 6), NEW s, IsEncoding(s, ShiftRight(v, 7))
    PROVE  IsEncoding(<<(v \cap (0 .. 6)) \cup {7}>> \o s, v)
<1> DEFINE w == ShiftRight(v, 7)
           g == (v \cap (0 .. 6)) \cup {7}
           t == <<g>> \o s
           n == Len(s)
<1>1. w \in Long /\ \A b : b \in w <=> b \in Nat /\ b + 7 \in v
    BY ShiftLong
<1> HIDE DEF w
<1>2. s \in Seq(Byte) /\ n \in 1 .. 10 /\ IsEncoding(s, w)
    BY DEF IsEncoding, w
<1>3. g \in Byte /\ 7 \in g /\ \A b \in 0 .. 6 : b \in g <=> b \in v
    BY DEF Byte
<1> HIDE DEF g
<1>4. /\ t \in Seq(Byte) /\ Len(t) = n + 1 /\ t[1] = g
      /\ \A i \in 2 .. n + 1 : t[i] = s[i - 1]
    BY <1>2, <1>3
<1> HIDE DEF t
<1>5. \E b \in w : 7 * (n - 1) <= b
  <2>1. CASE n = 1
    <3>1. PICK b \in v : b \notin 0 .. 6
        OBVIOUS
    <3>2. b - 7 \in Nat /\ (b - 7) + 7 = b
        BY <3>1 DEF Long
    <3>3. b - 7 \in w
        BY <1>1, <3>1, <3>2
    <3> HIDE DEF n
    <3> QED BY <2>1, <3>2, <3>3
  <2>2. CASE n # 1
      BY <1>2, <2>2 DEF IsEncoding
  <2> QED BY <2>1, <2>2
<1>6. \E b \in v : 7 * n <= b
  <2>1. PICK b \in w : 7 * (n - 1) <= b
      BY <1>5
  <2>2. b \in Nat /\ b + 7 \in v
      BY <1>1, <2>1
  <2> HIDE DEF n
  <2>3. 7 * n <= b + 7
      BY <1>2, <2>1, <2>2
  <2> QED BY <2>2, <2>3
<1>7. n + 1 \in 1 .. 10
  <2>1. \A b \in v : b <= 63
      BY DEF Long
  <2> HIDE DEF n
  <2> QED BY <1>2, <1>6, <2>1 DEF Long
<1>8. \A b \in v : b < 7 * (n + 1)
  <2> SUFFICES ASSUME NEW b \in v PROVE b < 7 * (n + 1)
      OBVIOUS
  <2>1. b \in Nat
      BY DEF Long
  <2>2. CASE b < 7
    <3> HIDE DEF n
    <3> QED BY <1>2, <2>1, <2>2
  <2>3. CASE 7 <= b
    <3>1. b - 7 \in Nat /\ (b - 7) + 7 = b
        BY <2>1, <2>3
    <3>2. b - 7 \in w
        BY <1>1, <3>1
    <3>3. b - 7 < 7 * n
        BY <1>2, <3>2 DEF IsEncoding
    <3> HIDE DEF n
    <3> QED BY <1>2, <2>1, <3>3
  <2> QED BY <2>1, <2>2, <2>3
<1>9. ASSUME NEW i \in 1 .. n + 1 PROVE 7 \in t[i] <=> i < n + 1
  <2>1. CASE i = 1
    <3> HIDE DEF n
    <3> QED BY <1>2, <1>3, <1>4, <2>1
  <2>2. CASE i # 1
    <3>1. t[i] = s[i - 1] /\ i - 1 \in 1 .. n
      <4> HIDE DEF n
      <4> QED BY <1>2, <1>4, <2>2
    <3>2. 7 \in s[i - 1] <=> i - 1 < n
        BY <1>2, <3>1 DEF IsEncoding
    <3> HIDE DEF n
    <3> QED BY <1>2, <3>1, <3>2
  <2> QED BY <2>1, <2>2
<1>10. ASSUME NEW i \in 1 .. n + 1, NEW b \in 0 .. 6
       PROVE  b \in t[i] <=> b + 7 * (i - 1) \in v
  <2>1. CASE i = 1
    <3>1. b + 7 * (1 - 1) = b
        OBVIOUS
    <3> QED BY <1>3, <1>4, <2>1, <3>1
  <2>2. CASE i # 1
    <3>1. t[i] = s[i - 1] /\ i - 1 \in 1 .. n
      <4> HIDE DEF n
      <4> QED BY <1>2, <1>4, <2>2
    <3>2. b \in s[i - 1] <=> b + 7 * (i - 1 - 1) \in w
        BY <1>2, <3>1 DEF IsEncoding
    <3>3. b + 7 * (i - 1 - 1) \in Nat /\ (b + 7 * (i - 1 - 1)) + 7 = b + 7 * (i - 1)
      <4> HIDE DEF n
      <4> QED BY <1>2, <3>1
    <3> QED BY <1>1, <3>1, <3>2, <3>3
  <2> QED BY <2>1, <2>2
<1>11. Len(t) \in 1 .. 10 /\ Len(t) - 1 = n
  <2> HIDE DEF n
  <2> QED BY <1>2, <1>4, <1>7
<1>12. v \in Long
    OBVIOUS
<1>13. IsEncoding(t, v)
  <2>1. Len(t) = n + 1
      BY <1>4
  <2> HIDE DEF n
  <2> QED BY <1>4, <1>6, <1>8, <1>9, <1>10, <1>11, <1>12, <2>1 DEF IsEncoding
<1> QED BY <1>13 DEF t, g

(* Every value has an encoding.                                            *)
LEMMA EncodingExists ==
    ASSUME NEW v \in Long
    PROVE  \E s : IsEncoding(s, v)
<1> DEFINE Has(k) == \A x \in Long : x \subseteq 0 .. 7 * k - 1 => \E s : IsEncoding(s, x)
           S == {k \in 0 .. 10 : Has(k)}
<1>1. 0 \in S
  <2> SUFFICES ASSUME NEW x \in Long, x \subseteq 0 .. 7 * 0 - 1
               PROVE  \E s : IsEncoding(s, x)
      OBVIOUS
  <2>1. x \subseteq 0 .. 6
      OBVIOUS
  <2> QED BY <2>1, FirstGroup
<1>2. ASSUME NEW k \in 1 .. 10, k - 1 \in S PROVE k \in S
  <2> SUFFICES ASSUME NEW x \in Long, x \subseteq 0 .. 7 * k - 1
               PROVE  \E s : IsEncoding(s, x)
      BY <1>2
  <2>1. CASE x \subseteq 0 .. 6
      BY <2>1, FirstGroup
  <2>2. CASE ~(x \subseteq 0 .. 6)
    <3>1. k - 1 \in Nat /\ (k - 1) + 1 = k
        OBVIOUS
    <3>2. ShiftRight(x, 7) \in Long /\ ShiftRight(x, 7) \subseteq 0 .. 7 * (k - 1) - 1
        BY <3>1, ShiftLong
    <3>3. PICK s : IsEncoding(s, ShiftRight(x, 7))
        BY <1>2, <3>2
    <3> QED BY <2>2, <3>3, NextGroup
  <2> QED BY <2>1, <2>2
<1>3. 10 \in S
  <2> HIDE DEF S
  <2>1. \A k \in 0 .. 10 : k \in S
      BY <1>1, <1>2, Induction
  <2> QED BY <2>1
<1>4. v \subseteq 0 .. 7 * 10 - 1
    BY DEF Long
<1> QED BY <1>3, <1>4

(* What EncodeVariableLength makes is the encoding of its number.          *)
LEMMA EncodeIs ==
    ASSUME NEW v \in Long
    PROVE  IsEncoding(EncodeVariableLength(v), v)
<1> DEFINE Group(g, x) == IF x \subseteq 0 .. 6 THEN <<x>>
                          ELSE <<(x \cap (0 .. 6)) \cup {7}>> \o g[ShiftRight(x, 7)]
           Fix(g) == g = [x \in Long |-> Group(g, x)]
           a == [x \in Long |-> CHOOSE s : IsEncoding(s, x)]
           g == CHOOSE g : Fix(g)
<1>1. EncodeVariableLength(v) = g[v]
    BY DEF EncodeVariableLength, Long
<1>2. \A x \in Long : IsEncoding(a[x], x)
    BY EncodingExists
<1>3. DOMAIN a = Long /\ a = [x \in Long |-> a[x]]
    OBVIOUS
<1> HIDE DEF a
<1>4. ASSUME NEW x \in Long PROVE a[x] = Group(a, x)
  <2>1. CASE x \subseteq 0 .. 6
      BY <1>2, <2>1, FirstGroup, OneEncoding
  <2>2. CASE ~(x \subseteq 0 .. 6)
    <3>1. IsEncoding(a[ShiftRight(x, 7)], ShiftRight(x, 7))
        BY <1>2, ShiftLong
    <3>2. IsEncoding(<<(x \cap (0 .. 6)) \cup {7}>> \o a[ShiftRight(x, 7)], x)
        BY <2>2, <3>1, NextGroup
    <3> QED BY <1>2, <2>2, <3>2, OneEncoding
  <2> QED BY <2>1, <2>2
<1>5. Fix(a)
  <2> HIDE DEF Group
  <2> QED BY <1>3, <1>4
<1>6. Fix(g)
  <2> HIDE DEF Fix
  <2> QED BY <1>5
<1> HIDE DEF g
<1>7. \A x \in Long : g[x] = Group(g, x)
  <2> HIDE DEF Group
  <2> QED BY <1>6
<1> DEFINE Right(k) == \A x \in Long : x \subseteq 0 .. 7 * k - 1 => IsEncoding(g[x], x)
           S == {k \in 0 .. 10 : Right(k)}
<1>8. ASSUME NEW x \in Long, x \subseteq 0 .. 6 PROVE IsEncoding(g[x], x)
  <2>1. g[x] = <<x>>
      BY <1>7, <1>8
  <2> QED BY <1>8, <2>1, FirstGroup
<1>9. 0 \in S
  <2> SUFFICES ASSUME NEW x \in Long, x \subseteq 0 .. 7 * 0 - 1
               PROVE  IsEncoding(g[x], x)
      OBVIOUS
  <2>1. x \subseteq 0 .. 6
      OBVIOUS
  <2> QED BY <1>8, <2>1
<1>10. ASSUME NEW k \in 1 .. 10, k - 1 \in S PROVE k \in S
  <2> SUFFICES ASSUME NEW x \in Long, x \subseteq 0 .. 7 * k - 1
               PROVE  IsEncoding(g[x], x)
      BY <1>10
  <2>1. CASE x \subseteq 0 .. 6
      BY <1>8, <2>1
  <2>2. CASE ~(x \subseteq 0 .. 6)
    <3>1. k - 1 \in Nat /\ (k - 1) + 1 = k
        OBVIOUS
    <3>2. ShiftRight(x, 7) \in Long /\ ShiftRight(x, 7) \subseteq 0 .. 7 * (k - 1) - 1
        BY <3>1, ShiftLong
    <3>3. IsEncoding(g[ShiftRight(x, 7)], ShiftRight(x, 7))
        BY <1>10, <3>2
    <3>4. g[x] = <<(x \cap (0 .. 6)) \cup {7}>> \o g[ShiftRight(x, 7)]
        BY <1>7, <2>2
    <3> QED BY <2>2, <3>3, <3>4, NextGroup
  <2> QED BY <2>1, <2>2
<1>11. 10 \in S
  <2> HIDE DEF S
  <2>1. \A k \in 0 .. 10 : k \in S
      BY <1>9, <1>10, Induction
  <2> QED BY <2>1
<1>12. v \subseteq 0 .. 7 * 10 - 1
    BY DEF Long
<1> QED BY <1>1, <1>11, <1>12

(* The place of the last of at most ten groups.                            *)
LEMMA AtMostTen == \A n \in 1 .. 10 : n \in Nat /\ n <= 10 /\ n \in 1 .. n
OBVIOUS

(* The bits that DecodeVariableLength reads, and where it reads them.      *)
LEMMA DecodeBits ==
    ASSUME NEW s \in Seq(Byte), Len(s) <= 10, NEW wraps \in BOOLEAN
    PROVE  /\ DecodeVariableLength(s, wraps) \in Long
           /\ \A b \in 0 .. 63 : b \in DecodeVariableLength(s, wraps) <=>
                  \E i \in 1 .. Len(s), c \in 0 .. 6 : c \in s[i] /\ b = c + 7 * (i - 1)
<1> DEFINE Shift(i) == IF wraps THEN (7 * (i - 1)) % 64 ELSE 7 * (i - 1)
           U == UNION {ShiftLeft(s[i] \ {7}, Shift(i)) : i \in DOMAIN s}
<1>1. DecodeVariableLength(s, wraps) = U \cap (0 .. 63)
    BY DEF DecodeVariableLength
<1>2. ASSUME NEW i \in 1 .. Len(s)
      PROVE  \A b : b \in ShiftLeft(s[i] \ {7}, Shift(i)) <=>
                        \E c \in 0 .. 6 : c \in s[i] /\ b = c + 7 * (i - 1)
  <2>1. i \in 1 .. 10
      OBVIOUS
  <2>2. (7 * (i - 1)) % 64 = 7 * (i - 1)
      BY <2>1
  <2>3. Shift(i) = 7 * (i - 1)
      BY <2>2
  <2>4. s[i] \in Byte
      OBVIOUS
  <2>5. \A c : c \in s[i] \ {7} <=> c \in 0 .. 6 /\ c \in s[i]
    <3>1. \A c \in 0 .. 7 : c \in 0 .. 6 <=> c # 7
        OBVIOUS
    <3> QED BY <2>4, <3>1 DEF Byte
  <2> HIDE DEF Shift
  <2> QED BY <2>3, <2>5 DEF ShiftLeft
<1>3. DOMAIN s = 1 .. Len(s)
    OBVIOUS
<1> HIDE DEF Shift
<1>4. \A b : b \in U <=> \E i \in 1 .. Len(s) : b \in ShiftLeft(s[i] \ {7}, Shift(i))
    BY <1>3
<1> HIDE DEF U
<1>5. \A b : b \in U <=> \E i \in 1 .. Len(s), c \in 0 .. 6 : c \in s[i] /\ b = c + 7 * (i - 1)
  <2> DEFINE G(i) == ShiftLeft(s[i] \ {7}, Shift(i))
  <2>1. \A b : b \in U <=> \E i \in 1 .. Len(s) : b \in G(i)
      BY <1>4
  <2>2. \A i \in 1 .. Len(s) : \A b :
            b \in G(i) <=> \E c \in 0 .. 6 : c \in s[i] /\ b = c + 7 * (i - 1)
      BY <1>2
  <2> HIDE DEF G
  <2> QED BY <2>1, <2>2
<1>6. DecodeVariableLength(s, wraps) \in Long
    BY <1>1 DEF Long
<1>7. \A b \in 0 .. 63 : b \in DecodeVariableLength(s, wraps) <=> b \in U
    BY <1>1
<1> QED BY <1>5, <1>6, <1>7

(* Groups that could be those of a number of so many bits.                 *)
Groups(s, width) ==
    /\ s \in Seq(Byte) /\ Len(s) \in 1 .. 10
    /\ \A i \in 1 .. Len(s) : 7 \in s[i] <=> i < Len(s)
    /\ Len(s) = 1 \/ s[Len(s)] # {}
    /\ \A i \in 1 .. Len(s), b \in 0 .. 6 : b \in s[i] => b + 7 * (i - 1) < width

(* Groups of a number of some width are decoded and encoded back, whether  *)
(* or not a shift wraps.                                                   *)
LEMMA GroupsAreRead ==
    ASSUME NEW width \in 1 .. 64, NEW s, Groups(s, width), NEW wraps \in BOOLEAN
    PROVE  EncodeVariableLength(DecodeVariableLength(s, wraps) \cap (0 .. width - 1)) = s
<1> DEFINE d == DecodeVariableLength(s, wraps)
           n == Len(s)
<1>1. s \in Seq(Byte) /\ n \in 1 .. 10
    BY DEF Groups
<1> Len(s) <= 10
    BY <1>1, AtMostTen
<1>2. d \in Long /\ \A b \in 0 .. 63 : b \in d <=>
          \E i \in 1 .. n, c \in 0 .. 6 : c \in s[i] /\ b = c + 7 * (i - 1)
    BY <1>1, DecodeBits
<1> HIDE DEF d
<1>3. d \subseteq 0 .. width - 1
  <2> SUFFICES ASSUME NEW b \in d PROVE b \in 0 .. width - 1
      OBVIOUS
  <2>1. b \in 0 .. 63
      BY <1>2 DEF Long
  <2>2. PICK i \in 1 .. n, c \in 0 .. 6 : c \in s[i] /\ b = c + 7 * (i - 1)
      BY <1>2, <2>1
  <2>3. b < width
      BY <2>2 DEF Groups
  <2> QED BY <2>1, <2>3
<1>4. d \cap (0 .. width - 1) = d
    BY <1>3
<1>5. ASSUME NEW i \in 1 .. n, NEW b \in 0 .. 6 PROVE b \in s[i] <=> b + 7 * (i - 1) \in d
  <2> DEFINE e == b + 7 * (i - 1)
  <2>1. ASSUME b \in s[i] PROVE e \in d
    <3>1. e < width
        BY <2>1 DEF Groups
    <3>2. e \in 0 .. 63
      <4> HIDE DEF n
      <4> QED BY <1>1, <3>1
    <3> QED BY <1>2, <2>1, <3>2
  <2>2. ASSUME e \in d PROVE b \in s[i]
    <3>1. e \in 0 .. 63
        BY <1>2, <2>2 DEF Long
    <3>2. PICK j \in 1 .. n, c \in 0 .. 6 : c \in s[j] /\ e = c + 7 * (j - 1)
        BY <1>2, <2>2, <3>1
    <3> HIDE DEF n
    <3>3. i = j /\ b = c
        BY <1>1, <3>2
    <3> QED BY <3>2, <3>3
  <2> QED BY <2>1, <2>2
<1>6. \A b \in d : b < 7 * n
  <2> SUFFICES ASSUME NEW b \in d PROVE b < 7 * n
      OBVIOUS
  <2>1. PICK i \in 1 .. n, c \in 0 .. 6 : c \in s[i] /\ b = c + 7 * (i - 1)
      BY <1>2 DEF Long
  <2> HIDE DEF n
  <2> QED BY <1>1, <2>1
<1>7. n = 1 \/ \E b \in d : 7 * (n - 1) <= b
  <2> SUFFICES ASSUME n # 1 PROVE \E b \in d : 7 * (n - 1) <= b
      OBVIOUS
  <2>1. PICK b : b \in s[n]
      BY DEF Groups
  <2>2. s[n] \in Byte /\ n \in 1 .. n
    <3>1. n \in 1 .. n
        BY <1>1, AtMostTen
    <3> QED BY <1>1, <3>1
  <2>3. 7 \notin s[n]
    <3>1. 7 \in s[n] <=> n < n
        BY <2>2 DEF Groups
    <3> HIDE DEF n
    <3> QED BY <1>1, <3>1
  <2>4. b \in 0 .. 6
    <3>1. b \in 0 .. 7 /\ b # 7
        BY <2>1, <2>2, <2>3 DEF Byte
    <3> QED BY <3>1
  <2>5. b + 7 * (n - 1) \in d
      BY <1>5, <2>1, <2>2, <2>4
  <2> HIDE DEF n
  <2>6. 7 * (n - 1) <= b + 7 * (n - 1)
      BY <1>1, <2>4
  <2> QED BY <2>5, <2>6
<1>8. IsEncoding(s, d)
    BY <1>1, <1>2, <1>5, <1>6, <1>7 DEF IsEncoding, Groups
<1>9. IsEncoding(EncodeVariableLength(d), d)
    BY <1>2, EncodeIs
<1> QED BY <1>4, <1>8, <1>9, OneEncoding DEF d

(* What a number of some width is encoded as is groups of that width.      *)
LEMMA EncodingGroups ==
    ASSUME NEW width \in 1 .. 64, NEW v, v \subseteq 0 .. width - 1
    PROVE  /\ IsEncoding(EncodeVariableLength(v), v)
           /\ Groups(EncodeVariableLength(v), width)
<1> DEFINE s == EncodeVariableLength(v)
           n == Len(s)
<1>1. v \in Long
    BY DEF Long
<1>2. IsEncoding(s, v)
    BY <1>1, EncodeIs
<1> HIDE DEF s
<1>3. s \in Seq(Byte) /\ n \in 1 .. 10
    BY <1>2 DEF IsEncoding
<1>4. n = 1 \/ s[n] # {}
  <2> SUFFICES ASSUME n # 1 PROVE s[n] # {}
      OBVIOUS
  <2>1. PICK b \in v : 7 * (n - 1) <= b
      BY <1>2 DEF IsEncoding
  <2>2. b < 7 * n
      BY <1>2 DEF IsEncoding
  <2> DEFINE c == b - 7 * (n - 1)
  <2>3. c \in 0 .. 6 /\ c + 7 * (n - 1) = b /\ n \in 1 .. n
    <3> HIDE DEF n
    <3> QED BY <1>1, <1>3, <2>1, <2>2 DEF Long
  <2>4. c \in s[n]
    <3> HIDE DEF c
    <3> QED BY <1>2, <2>1, <2>3 DEF IsEncoding
  <2> QED BY <2>4
<1>5. ASSUME NEW i \in 1 .. n, NEW b \in 0 .. 6, b \in s[i] PROVE b + 7 * (i - 1) < width
  <2>1. b + 7 * (i - 1) \in v
      BY <1>2, <1>5 DEF IsEncoding
  <2>2. b + 7 * (i - 1) \in 0 .. width - 1
      BY <2>1
  <2> QED BY <2>2
<1>6. Groups(s, width)
    BY <1>2, <1>3, <1>4, <1>5 DEF IsEncoding, Groups
<1> QED BY <1>2, <1>6 DEF s

(* Groups with the same bits below some width.                             *)
SameBelow(s, t, width) ==
    /\ s \in Seq(Byte) /\ t \in Seq(Byte) /\ Len(s) \in 1 .. 10 /\ Len(t) = Len(s)
    /\ \A i \in 1 .. Len(s), b \in 0 .. 6 :
           b + 7 * (i - 1) < width => (b \in t[i] <=> b \in s[i])

(* Groups that are read as the same number of some width.                  *)
ReadAlike(s, t, width, wraps) ==
    DecodeVariableLength(t, wraps) \cap (0 .. width - 1)
        = DecodeVariableLength(s, wraps) \cap (0 .. width - 1)

(* Bits beyond the width are not read.                                     *)
LEMMA SpareBits ==
    ASSUME NEW width \in 1 .. 64, NEW s, NEW t, SameBelow(s, t, width), NEW wraps \in BOOLEAN
    PROVE  ReadAlike(s, t, width, wraps)
<1> SUFFICES ASSUME s \in Seq(Byte), t \in Seq(Byte), Len(s) \in 1 .. 10, Len(t) = Len(s),
                    \A i \in 1 .. Len(s), b \in 0 .. 6 :
                        b + 7 * (i - 1) < width => (b \in t[i] <=> b \in s[i])
             PROVE  ReadAlike(s, t, width, wraps)
    BY DEF SameBelow
<1> Len(s) <= 10 /\ Len(t) <= 10
    BY AtMostTen
<1>1. \A b \in 0 .. 63 : b \in DecodeVariableLength(s, wraps) <=>
          \E i \in 1 .. Len(s), c \in 0 .. 6 : c \in s[i] /\ b = c + 7 * (i - 1)
    BY DecodeBits
<1>2. \A b \in 0 .. 63 : b \in DecodeVariableLength(t, wraps) <=>
          \E i \in 1 .. Len(t), c \in 0 .. 6 : c \in t[i] /\ b = c + 7 * (i - 1)
    BY DecodeBits
<1>3. ASSUME NEW b \in 0 .. width - 1
      PROVE  b \in DecodeVariableLength(t, wraps) <=> b \in DecodeVariableLength(s, wraps)
  <2>1. b \in 0 .. 63 /\ b < width
      OBVIOUS
  <2> QED BY <1>1, <1>2, <2>1
<1> QED BY <1>3 DEF ReadAlike

(* A number of 32 bits has no more than five groups.                       *)
LEMMA FiveGroups ==
    ASSUME NEW s, Groups(s, 32)
    PROVE  Len(s) \in 1 .. 5
<1> DEFINE n == Len(s)
<1>1. s \in Seq(Byte) /\ n \in 1 .. 10
    BY DEF Groups
<1>2. ASSUME n # 1 PROVE n <= 5
  <2>1. PICK b : b \in s[n]
      BY <1>2 DEF Groups
  <2>2. s[n] \in Byte /\ n \in 1 .. n
    <3>1. n \in 1 .. n
        BY <1>1, AtMostTen
    <3> QED BY <1>1, <3>1
  <2>3. 7 \notin s[n]
    <3>1. 7 \in s[n] <=> n < n
        BY <2>2 DEF Groups
    <3> HIDE DEF n
    <3> QED BY <1>1, <3>1
  <2>4. b \in 0 .. 6
    <3>1. b \in 0 .. 7 /\ b # 7
        BY <2>1, <2>2, <2>3 DEF Byte
    <3> QED BY <3>1
  <2>5. b + 7 * (n - 1) < 32
      BY <2>1, <2>2, <2>4 DEF Groups
  <2> HIDE DEF n
  <2> QED BY <1>1, <2>4, <2>5
<1> HIDE DEF n
<1>3. n \in 1 .. 5
    BY <1>1, <1>2
<1> QED BY <1>3 DEF n

-----------------------------------------------------------------------------
(* Bytes, and the two bytes of the size.                                   *)

(* A bit's share in a sum, and a byte's value as such a sum.               *)
Share(s, b, weight) == IF b \in s THEN weight ELSE 0

(* The number that a byte is.                                              *)
ByteValue(s) ==
    Share(s, 0, 1) + Share(s, 1, 2) + Share(s, 2, 4) + Share(s, 3, 8)
        + Share(s, 4, 16) + Share(s, 5, 32) + Share(s, 6, 64) + Share(s, 7, 128)

(* A byte is a number below 256.                                           *)
LEMMA ByteValueType ==
    ASSUME NEW s
    PROVE  ByteValue(s) \in 0 .. 255
BY DEF ByteValue, Share

(* A byte without one of its bits.                                         *)
LEMMA ByteValueWithout ==
    ASSUME NEW s \in Byte, NEW x \in s
    PROVE  2^x \in Nat \ {0} /\ ByteValue(s) = 2^x + ByteValue(s \ {x}) /\ s \ {x} \in Byte
<1>1. x \in {0, 1, 2, 3, 4, 5, 6, 7} /\ s \ {x} \in Byte
    BY DEF Byte
<1>2. \A b : b \in s \ {x} <=> b \in s /\ b # x
    OBVIOUS
<1> DEFINE t == s \ {x}
           p == 2^x
<1> HIDE DEF t
<1>3. /\ (x = 0 => p = 2^0) /\ (x = 1 => p = 2^1) /\ (x = 2 => p = 2^2) /\ (x = 3 => p = 2^3)
      /\ (x = 4 => p = 2^4) /\ (x = 5 => p = 2^5) /\ (x = 6 => p = 2^6) /\ (x = 7 => p = 2^7)
    BY Zenon
<1> HIDE DEF p
<1>4. x = 0 \/ x = 1 \/ x = 2 \/ x = 3 \/ x = 4 \/ x = 5 \/ x = 6 \/ x = 7
    BY <1>1
<1>5. p \in Nat \ {0}
    BY <1>3, <1>4
<1>6. /\ \A b \in 0 .. 7 : b # x => (b \in t <=> b \in s)
      /\ x \notin t /\ x \in s
    BY <1>2 DEF t
<1>7. ByteValue(s) = p + ByteValue(t)
    BY <1>3, <1>4, <1>6 DEF ByteValue, Share
<1> QED BY <1>1, <1>5, <1>7 DEF t, p

(* Number adds up the bits one by one.                                     *)
LEMMA NumberIs ==
    ASSUME NEW bits \in Byte
    PROVE  Number(bits) = ByteValue(bits)
<1> DEFINE Pick(s) == CHOOSE x \in s : TRUE
           D == SUBSET bits
           Plus(g, s) == IF s = {} THEN 0 ELSE 2^Pick(s) + g[s \ {Pick(s)}]
           Fix(g) == g = [s \in D |-> Plus(g, s)]
           a == [s \in D |-> ByteValue(s)]
           g == CHOOSE g : Fix(g)
<1>1. Number(bits) = g[bits]
    BY DEF Number, MapThenSumSet, MapThenFoldSet
<1>2. \A s : s # {} => Pick(s) \in s
    OBVIOUS
<1> HIDE DEF Pick
<1>3. \A s \in D : a[s] = ByteValue(s) /\ s \in Byte
    BY DEF Byte
<1>4. DOMAIN a = D /\ a = [s \in D |-> a[s]]
    OBVIOUS
<1>5. ByteValue({}) = 0
    BY DEF ByteValue, Share
<1> HIDE DEF a
<1>6. ASSUME NEW s \in D PROVE a[s] = Plus(a, s)
  <2>1. CASE s = {}
      BY <1>3, <1>5, <2>1
  <2>2. CASE s # {}
    <3>1. Pick(s) \in s /\ s \ {Pick(s)} \in D
        BY <1>2, <2>2
    <3>2. ByteValue(s) = 2^Pick(s) + ByteValue(s \ {Pick(s)})
        BY <1>3, <3>1, ByteValueWithout
    <3> QED BY <1>3, <2>2, <3>1, <3>2
  <2> QED BY <2>1, <2>2
<1>7. Fix(a)
  <2> HIDE DEF Plus, D
  <2> QED BY <1>4, <1>6
<1>8. Fix(g)
  <2> HIDE DEF Fix
  <2> QED BY <1>7
<1> HIDE DEF g
<1>9. \A s \in D : g[s] = Plus(g, s)
  <2> HIDE DEF Plus, D
  <2> QED BY <1>8
<1> DEFINE Wrong == {s \in D : g[s] # ByteValue(s)}
           T == {ByteValue(s) : s \in Wrong}
<1>10. ASSUME Wrong # {} PROVE FALSE
  <2>1. T \subseteq Nat /\ T # {}
      BY <1>10, ByteValueType
  <2> HIDE DEF T, Wrong
  <2>2. PICK n \in T : \A m \in T : n <= m
      BY <2>1, LeastNumber
  <2> USE DEF T, Wrong
  <2>3. PICK s \in Wrong : n = ByteValue(s)
      BY <2>2
  <2>4. s \in D /\ s \in Byte /\ g[s] # ByteValue(s)
      BY <1>3, <2>3
  <2>5. s # {}
      BY <1>5, <1>9, <2>4
  <2> DEFINE x == Pick(s)
             t == s \ {x}
  <2>6. x \in s
      BY <1>2, <2>5
  <2> HIDE DEF x
  <2>7. t \in D /\ 2^x \in Nat \ {0} /\ ByteValue(s) = 2^x + ByteValue(t)
      BY <2>4, <2>6, ByteValueWithout
  <2>8. g[s] = 2^x + g[t]
      BY <1>9, <2>4, <2>5 DEF x
  <2>9. g[t] # ByteValue(t)
      BY <2>4, <2>7, <2>8
  <2>10. ByteValue(t) \in T
      BY <2>7, <2>9
  <2> HIDE DEF T, Wrong, t
  <2>11. ByteValue(s) <= ByteValue(t)
      BY <2>2, <2>3, <2>10
  <2>12. ByteValue(t) \in 0 .. 255 /\ ByteValue(s) \in 0 .. 255
      BY ByteValueType
  <2> QED BY <2>7, <2>11, <2>12
<1>11. bits \in D
    OBVIOUS
<1> QED BY <1>1, <1>10, <1>11

(* A byte's number tells the byte.                                         *)
LEMMA NumberTells ==
    ASSUME NEW s \in Byte, NEW t \in Byte, Number(s) = Number(t)
    PROVE  s = t
<1>1. ByteValue(s) = ByteValue(t)
    BY NumberIs
<1>2. /\ 0 \in s <=> 0 \in t
      /\ 1 \in s <=> 1 \in t
      /\ 2 \in s <=> 2 \in t
      /\ 3 \in s <=> 3 \in t
      /\ 4 \in s <=> 4 \in t
      /\ 5 \in s <=> 5 \in t
      /\ 6 \in s <=> 6 \in t
      /\ 7 \in s <=> 7 \in t
    BY <1>1 DEF ByteValue, Share
<1>3. \A b \in 0 .. 7 : b \in s <=> b \in t
    BY <1>2
<1>4. s \subseteq t /\ t \subseteq s
    BY <1>3 DEF Byte
<1> QED BY <1>4

(* A byte is a number below 256.                                           *)
LEMMA NumberType ==
    ASSUME NEW s \in Byte
    PROVE  Number(s) \in 0 .. 255
BY NumberIs, ByteValueType

(* The bits of byte i of a number.                                         *)
LEMMA ByteOfIs ==
    ASSUME NEW S, S \subseteq Nat, NEW i \in Nat
    PROVE  /\ ByteOf(S, i) \in Byte
           /\ \A b \in 0 .. 7 : b \in ByteOf(S, i) <=> b + 8 * i \in S
<1> DEFINE n == 8 * i
<1>1. n \in Nat
    OBVIOUS
<1> HIDE DEF n
<1>2. \A b : b \in ShiftRight(S, n) <=> b \in Nat /\ b + n \in S
    BY <1>1, ShiftRightIs
<1>3. ByteOf(S, i) = ShiftRight(S, n) \cap (0 .. 7)
    BY DEF ByteOf, n
<1> QED BY <1>2, <1>3 DEF Byte, n

(* The number that two bytes are read as.                                  *)
SizeIn(low, high) == Number(low) + 256 * Number(high)

(* A size is a number.                                                     *)
LEMMA SizeInType ==
    ASSUME NEW low \in Byte, NEW high \in Byte
    PROVE  SizeIn(low, high) \in Nat
<1>1. Number(low) \in Nat /\ Number(high) \in Nat
    BY NumberType
<1>2. \A x, y \in Nat : x + 256 * y \in Nat
    OBVIOUS
<1> QED BY <1>1, <1>2 DEF SizeIn

(* Different bytes are read as different numbers.                          *)
LEMMA SizeTells ==
    ASSUME NEW a \in Byte, NEW b \in Byte, NEW c \in Byte, NEW d \in Byte,
           SizeIn(a, b) = SizeIn(c, d)
    PROVE  a = c /\ b = d
<1> DEFINE w == Number(a)
           x == Number(b)
           y == Number(c)
           z == Number(d)
<1>1. w \in 0 .. 255 /\ x \in 0 .. 255 /\ y \in 0 .. 255 /\ z \in 0 .. 255
    BY NumberType
<1>2. w + 256 * x = y + 256 * z
    BY DEF SizeIn
<1>3. w = y /\ x = z
  <2> HIDE DEF w, x, y, z
  <2> QED BY <1>1, <1>2
<1> QED BY <1>3, NumberTells

(* 2^SizeBits is what it is.                                               *)
LEMMA LimitIs ==
    /\ SizeBits \in {8, 9, 10, 11, 12, 13, 14, 15, 16}
    /\ SizeBits = 8 => 2^SizeBits = 2^8
    /\ SizeBits = 9 => 2^SizeBits = 2^9
    /\ SizeBits = 10 => 2^SizeBits = 2^10
    /\ SizeBits = 11 => 2^SizeBits = 2^11
    /\ SizeBits = 12 => 2^SizeBits = 2^12
    /\ SizeBits = 13 => 2^SizeBits = 2^13
    /\ SizeBits = 14 => 2^SizeBits = 2^14
    /\ SizeBits = 15 => 2^SizeBits = 2^15
    /\ SizeBits = 16 => 2^SizeBits = 2^16
<1>1. SizeBits \in {8, 9, 10, 11, 12, 13, 14, 15, 16}
    BY SizeBitsAssumption
<1>2. /\ SizeBits = 8 => 2^SizeBits = 2^8
      /\ SizeBits = 9 => 2^SizeBits = 2^9
      /\ SizeBits = 10 => 2^SizeBits = 2^10
      /\ SizeBits = 11 => 2^SizeBits = 2^11
      /\ SizeBits = 12 => 2^SizeBits = 2^12
      /\ SizeBits = 13 => 2^SizeBits = 2^13
      /\ SizeBits = 14 => 2^SizeBits = 2^14
      /\ SizeBits = 15 => 2^SizeBits = 2^15
      /\ SizeBits = 16 => 2^SizeBits = 2^16
    BY Zenon
<1> QED BY <1>1, <1>2

(* A size of so many bits is read as a number of so many bits.             *)
LEMMA SizeFits ==
    ASSUME NEW low \in Byte, NEW high \in Byte, \A b \in high : b < SizeBits - 8
    PROVE  SizeIn(low, high) < 2^SizeBits
<1> DEFINE limit == 2^SizeBits
<1> SUFFICES SizeIn(low, high) < limit
    OBVIOUS
<1>1. /\ SizeBits \in {8, 9, 10, 11, 12, 13, 14, 15, 16}
      /\ (SizeBits = 8 => limit = 2^8) /\ (SizeBits = 9 => limit = 2^9)
      /\ (SizeBits = 10 => limit = 2^10) /\ (SizeBits = 11 => limit = 2^11)
      /\ (SizeBits = 12 => limit = 2^12) /\ (SizeBits = 13 => limit = 2^13)
      /\ (SizeBits = 14 => limit = 2^14) /\ (SizeBits = 15 => limit = 2^15)
      /\ (SizeBits = 16 => limit = 2^16)
    BY LimitIs, Zenon
<1> HIDE DEF limit
<1>2. Number(low) \in 0 .. 255
    BY NumberType
<1>3. Number(high) = ByteValue(high)
    BY NumberIs
<1>4. /\ 0 \in high => 8 < SizeBits
      /\ 1 \in high => 9 < SizeBits
      /\ 2 \in high => 10 < SizeBits
      /\ 3 \in high => 11 < SizeBits
      /\ 4 \in high => 12 < SizeBits
      /\ 5 \in high => 13 < SizeBits
      /\ 6 \in high => 14 < SizeBits
      /\ 7 \in high => 15 < SizeBits
    BY <1>1
<1>5. 256 * ByteValue(high) + 256 <= limit
    BY <1>1, <1>4 DEF ByteValue, Share
<1>6. ByteValue(high) \in 0 .. 255
    BY ByteValueType
<1>7. limit \in Nat
    BY <1>1
<1> DEFINE x == Number(low)
           y == ByteValue(high)
<1>8. x \in 0 .. 255 /\ y \in 0 .. 255 /\ 256 * y + 256 <= limit
    BY <1>2, <1>5, <1>6
<1> HIDE DEF x, y
<1>9. x + 256 * y < limit
    BY <1>7, <1>8
<1> QED BY <1>3, <1>9 DEF SizeIn, x, y

(* The bits of a number, one by one.                                       *)
LEMMA BitsAre ==
    ASSUME NEW n \in Nat
    PROVE  /\ Bits(n) \subseteq 0 .. 15
           /\ \A b \in 0 .. 15 : b \in Bits(n) <=> (n \div 2^b) % 2 = 1
           /\ 0 \in Bits(n) <=> n % 2 = 1
           /\ 1 \in Bits(n) <=> (n \div 2) % 2 = 1
           /\ 2 \in Bits(n) <=> (n \div 4) % 2 = 1
           /\ 3 \in Bits(n) <=> (n \div 8) % 2 = 1
           /\ 4 \in Bits(n) <=> (n \div 16) % 2 = 1
           /\ 5 \in Bits(n) <=> (n \div 32) % 2 = 1
           /\ 6 \in Bits(n) <=> (n \div 64) % 2 = 1
           /\ 7 \in Bits(n) <=> (n \div 128) % 2 = 1
           /\ 8 \in Bits(n) <=> (n \div 256) % 2 = 1
           /\ 9 \in Bits(n) <=> (n \div 512) % 2 = 1
           /\ 10 \in Bits(n) <=> (n \div 1024) % 2 = 1
           /\ 11 \in Bits(n) <=> (n \div 2048) % 2 = 1
           /\ 12 \in Bits(n) <=> (n \div 4096) % 2 = 1
           /\ 13 \in Bits(n) <=> (n \div 8192) % 2 = 1
           /\ 14 \in Bits(n) <=> (n \div 16384) % 2 = 1
           /\ 15 \in Bits(n) <=> (n \div 32768) % 2 = 1
<1>1. Bits(n) \subseteq 0 .. 15 /\ \A b \in 0 .. 15 : b \in Bits(n) <=> (n \div 2^b) % 2 = 1
    BY DEF Bits
<1>2. /\ (0 \in Bits(n) <=> (n \div 2^0) % 2 = 1)
      /\ (1 \in Bits(n) <=> (n \div 2^1) % 2 = 1)
      /\ (2 \in Bits(n) <=> (n \div 2^2) % 2 = 1)
      /\ (3 \in Bits(n) <=> (n \div 2^3) % 2 = 1)
      /\ (4 \in Bits(n) <=> (n \div 2^4) % 2 = 1)
      /\ (5 \in Bits(n) <=> (n \div 2^5) % 2 = 1)
      /\ (6 \in Bits(n) <=> (n \div 2^6) % 2 = 1)
      /\ (7 \in Bits(n) <=> (n \div 2^7) % 2 = 1)
      /\ (8 \in Bits(n) <=> (n \div 2^8) % 2 = 1)
      /\ (9 \in Bits(n) <=> (n \div 2^9) % 2 = 1)
      /\ (10 \in Bits(n) <=> (n \div 2^10) % 2 = 1)
      /\ (11 \in Bits(n) <=> (n \div 2^11) % 2 = 1)
      /\ (12 \in Bits(n) <=> (n \div 2^12) % 2 = 1)
      /\ (13 \in Bits(n) <=> (n \div 2^13) % 2 = 1)
      /\ (14 \in Bits(n) <=> (n \div 2^14) % 2 = 1)
      /\ (15 \in Bits(n) <=> (n \div 2^15) % 2 = 1)
  <2>1. /\ 0 \in 0 .. 15 /\ 1 \in 0 .. 15 /\ 2 \in 0 .. 15 /\ 3 \in 0 .. 15
        /\ 4 \in 0 .. 15 /\ 5 \in 0 .. 15 /\ 6 \in 0 .. 15 /\ 7 \in 0 .. 15
        /\ 8 \in 0 .. 15 /\ 9 \in 0 .. 15 /\ 10 \in 0 .. 15 /\ 11 \in 0 .. 15
        /\ 12 \in 0 .. 15 /\ 13 \in 0 .. 15 /\ 14 \in 0 .. 15 /\ 15 \in 0 .. 15
      OBVIOUS
  <2> QED BY <1>1, <2>1, Zenon
<1>3. n \div 2^0 = n
    OBVIOUS
<1> QED BY <1>1, <1>2, <1>3

(* payloadSize is read as the size when it fits, and never as more than    *)
(* fits.                                                                   *)
LEMMA SizeRead ==
    ASSUME NEW n \in Nat
    PROVE  LET S == Bits(n) \cap (0 .. SizeBits - 1) IN
           /\ ByteOf(S, 0) \in Byte /\ ByteOf(S, 1) \in Byte
           /\ \A b \in ByteOf(S, 1) : b < SizeBits - 8
           /\ n < 2^SizeBits => SizeIn(ByteOf(S, 0), ByteOf(S, 1)) = n
<1> DEFINE S == Bits(n) \cap (0 .. SizeBits - 1)
           low == ByteOf(S, 0)
           high == ByteOf(S, 1)
           limit == 2^SizeBits
<1>1. Bits(n) \subseteq 0 .. 15
    BY BitsAre
<1>2. S \subseteq Nat
    OBVIOUS
<1> HIDE DEF S
<1>3. low \in Byte /\ \A b \in 0 .. 7 : b \in low <=> b + 8 * 0 \in S
    BY <1>2, ByteOfIs
<1>4. high \in Byte /\ \A b \in 0 .. 7 : b \in high <=> b + 8 * 1 \in S
    BY <1>2, ByteOfIs
<1> HIDE DEF low, high
<1>5. ASSUME NEW b \in high PROVE b < SizeBits - 8
  <2>1. b \in 0 .. 7 /\ b + 8 * 1 \in 0 .. SizeBits - 1
      BY <1>4 DEF Byte, S
  <2> QED BY <2>1, SizeBitsAssumption
<1>6. ASSUME n < limit PROVE SizeIn(low, high) = n
  <2>1. /\ SizeBits \in {8, 9, 10, 11, 12, 13, 14, 15, 16}
        /\ (SizeBits = 8 => limit = 2^8) /\ (SizeBits = 9 => limit = 2^9)
        /\ (SizeBits = 10 => limit = 2^10) /\ (SizeBits = 11 => limit = 2^11)
        /\ (SizeBits = 12 => limit = 2^12) /\ (SizeBits = 13 => limit = 2^13)
        /\ (SizeBits = 14 => limit = 2^14) /\ (SizeBits = 15 => limit = 2^15)
        /\ (SizeBits = 16 => limit = 2^16)
      BY LimitIs, Zenon
  <2> HIDE DEF limit
  <2>2. n < 65536
      BY <1>6, <2>1
  <2> DEFINE T == Bits(n)
  <2>3. /\ (0 \in T <=> n % 2 = 1)
        /\ (1 \in T <=> (n \div 2) % 2 = 1)
        /\ (2 \in T <=> (n \div 4) % 2 = 1)
        /\ (3 \in T <=> (n \div 8) % 2 = 1)
        /\ (4 \in T <=> (n \div 16) % 2 = 1)
        /\ (5 \in T <=> (n \div 32) % 2 = 1)
        /\ (6 \in T <=> (n \div 64) % 2 = 1)
        /\ (7 \in T <=> (n \div 128) % 2 = 1)
        /\ (8 \in T <=> (n \div 256) % 2 = 1)
        /\ (9 \in T <=> (n \div 512) % 2 = 1)
        /\ (10 \in T <=> (n \div 1024) % 2 = 1)
        /\ (11 \in T <=> (n \div 2048) % 2 = 1)
        /\ (12 \in T <=> (n \div 4096) % 2 = 1)
        /\ (13 \in T <=> (n \div 8192) % 2 = 1)
        /\ (14 \in T <=> (n \div 16384) % 2 = 1)
        /\ (15 \in T <=> (n \div 32768) % 2 = 1)
      BY BitsAre
  <2> HIDE DEF T
  <2>4. /\ n < 256 => n \div 256 = 0
        /\ n < 512 => n \div 512 = 0
        /\ n < 1024 => n \div 1024 = 0
        /\ n < 2048 => n \div 2048 = 0
        /\ n < 4096 => n \div 4096 = 0
        /\ n < 8192 => n \div 8192 = 0
        /\ n < 16384 => n \div 16384 = 0
        /\ n < 32768 => n \div 32768 = 0
      OBVIOUS
  <2>5. T \subseteq 0 .. 15
      BY <1>1 DEF T
  <2>6. /\ SizeBits <= 8 => 8 \notin T
        /\ SizeBits <= 9 => 9 \notin T
        /\ SizeBits <= 10 => 10 \notin T
        /\ SizeBits <= 11 => 11 \notin T
        /\ SizeBits <= 12 => 12 \notin T
        /\ SizeBits <= 13 => 13 \notin T
        /\ SizeBits <= 14 => 14 \notin T
        /\ SizeBits <= 15 => 15 \notin T
    <3>1. /\ (SizeBits <= 8 => n < 256) /\ (SizeBits <= 9 => n < 512)
          /\ (SizeBits <= 10 => n < 1024) /\ (SizeBits <= 11 => n < 2048)
          /\ (SizeBits <= 12 => n < 4096) /\ (SizeBits <= 13 => n < 8192)
          /\ (SizeBits <= 14 => n < 16384) /\ (SizeBits <= 15 => n < 32768)
        BY <1>6, <2>1
    <3> QED BY <2>3, <2>4, <3>1
  <2>7. \A b \in 0 .. 15 : b \in S <=> b \in T
    <3>1. ASSUME NEW b \in 0 .. 15, b \in T PROVE b < SizeBits
      <4>1. b \in {0, 1, 2, 3, 4, 5, 6, 7} \/ b \in {8, 9, 10, 11, 12, 13, 14, 15}
          OBVIOUS
      <4> QED BY <2>1, <2>6, <3>1, <4>1
    <3> QED BY <2>1, <3>1 DEF S, T
  <2>8. /\ (0 \in low <=> 0 \in T) /\ (1 \in low <=> 1 \in T) /\ (2 \in low <=> 2 \in T)
        /\ (3 \in low <=> 3 \in T) /\ (4 \in low <=> 4 \in T) /\ (5 \in low <=> 5 \in T)
        /\ (6 \in low <=> 6 \in T) /\ (7 \in low <=> 7 \in T)
        /\ (0 \in high <=> 8 \in T) /\ (1 \in high <=> 9 \in T) /\ (2 \in high <=> 10 \in T)
        /\ (3 \in high <=> 11 \in T) /\ (4 \in high <=> 12 \in T) /\ (5 \in high <=> 13 \in T)
        /\ (6 \in high <=> 14 \in T) /\ (7 \in high <=> 15 \in T)
      BY <1>3, <1>4, <2>7
  <2>9. Number(low) = ByteValue(low) /\ Number(high) = ByteValue(high)
      BY <1>3, <1>4, NumberIs
  <2>10. \A m \in Nat :
             /\ m = (m % 2) + 2 * (m \div 2)
             /\ m \div 2 = ((m \div 2) % 2) + 2 * (m \div 4)
             /\ m \div 4 = ((m \div 4) % 2) + 2 * (m \div 8)
             /\ m \div 8 = ((m \div 8) % 2) + 2 * (m \div 16)
             /\ m \div 16 = ((m \div 16) % 2) + 2 * (m \div 32)
             /\ m \div 32 = ((m \div 32) % 2) + 2 * (m \div 64)
             /\ m \div 64 = ((m \div 64) % 2) + 2 * (m \div 128)
             /\ m \div 128 = ((m \div 128) % 2) + 2 * (m \div 256)
      OBVIOUS
  <2>11. ByteValue(low) = n - 256 * (n \div 256)
      BY <2>3, <2>8, <2>10 DEF ByteValue, Share
  <2> DEFINE h == n \div 256
  <2>12. /\ h \in Nat /\ h < 256
         /\ n \div 512 = h \div 2 /\ n \div 1024 = h \div 4 /\ n \div 2048 = h \div 8
         /\ n \div 4096 = h \div 16 /\ n \div 8192 = h \div 32 /\ n \div 16384 = h \div 64
         /\ n \div 32768 = h \div 128
      BY <2>2
  <2>13. h \div 256 = 0
    <3> HIDE DEF h
    <3> QED BY <2>12
  <2> HIDE DEF h
  <2>14. /\ (0 \in high <=> h % 2 = 1) /\ (1 \in high <=> (h \div 2) % 2 = 1)
         /\ (2 \in high <=> (h \div 4) % 2 = 1) /\ (3 \in high <=> (h \div 8) % 2 = 1)
         /\ (4 \in high <=> (h \div 16) % 2 = 1) /\ (5 \in high <=> (h \div 32) % 2 = 1)
         /\ (6 \in high <=> (h \div 64) % 2 = 1) /\ (7 \in high <=> (h \div 128) % 2 = 1)
      BY <2>3, <2>8, <2>12 DEF h
  <2>15. ByteValue(high) = h
      BY <2>10, <2>12, <2>13, <2>14 DEF ByteValue, Share
  <2> QED BY <2>9, <2>11, <2>12, <2>15 DEF SizeIn, h
<1> QED BY <1>3, <1>4, <1>5, <1>6 DEF S, low, high

-----------------------------------------------------------------------------
(* Bytes and what is in them at which place.                               *)

(* What the bytes are after the first k of them.                           *)
At(bytes, k, s) == k + Len(s) <= Len(bytes) /\ \A j \in 1 .. Len(s) : bytes[k + j] = s[j]

(* Two sequences of bytes joined are in their places.                      *)
LEMMA Joined ==
    ASSUME NEW s \in Seq(Byte), NEW t \in Seq(Byte)
    PROVE  /\ s \o t \in Seq(Byte) /\ Len(s \o t) = Len(s) + Len(t)
           /\ At(s \o t, 0, s) /\ At(s \o t, Len(s), t)
<1> DEFINE n == Len(s)
           m == Len(t)
           u == s \o t
<1>1. n \in Nat /\ m \in Nat /\ u \in Seq(Byte) /\ Len(u) = n + m
    OBVIOUS
<1>2. \A j \in 1 .. n : u[j] = s[j]
    OBVIOUS
<1>3. \A j \in 1 .. m : u[n + j] = t[j]
    OBVIOUS
<1> HIDE DEF u
<1>4. At(u, 0, s)
  <2>1. \A j \in 1 .. n : 0 + j = j
      BY <1>1
  <2>2. 0 + n <= Len(u)
    <3> HIDE DEF n, m
    <3> QED BY <1>1
  <2> QED BY <1>2, <2>1, <2>2 DEF At
<1>5. At(u, n, t)
  <2>1. n + m <= Len(u)
    <3> HIDE DEF n, m
    <3> QED BY <1>1
  <2> QED BY <1>3, <2>1 DEF At
<1> QED BY <1>1, <1>4, <1>5 DEF u

(* What is in its place stays there when more bytes follow.                *)
LEMMA AtJoined ==
    ASSUME NEW s \in Seq(Byte), NEW t \in Seq(Byte), NEW u \in Seq(Byte), NEW k \in Nat, At(s, k, u)
    PROVE  At(s \o t, k, u)
<1> DEFINE n == Len(s)
           x == s \o t
<1>1. n \in Nat /\ Len(u) \in Nat /\ n <= Len(x) /\ Len(x) \in Nat
    OBVIOUS
<1>2. \A j \in 1 .. n : x[j] = s[j]
    OBVIOUS
<1> HIDE DEF x, n
<1>3. k + Len(u) <= n /\ \A j \in 1 .. Len(u) : s[k + j] = u[j]
    BY DEF At, n
<1>4. \A j \in 1 .. Len(u) : k + j \in 1 .. n
    BY <1>1, <1>3
<1>5. k + Len(u) <= Len(x)
    BY <1>1, <1>3
<1> QED BY <1>2, <1>3, <1>4, <1>5 DEF At, x

(* Bytes in their place can be cut out.                                    *)
LEMMA AtSub ==
    ASSUME NEW bytes \in Seq(Byte), NEW s \in Seq(Byte), NEW k \in Nat, At(bytes, k, s)
    PROVE  SubSeq(bytes, k + 1, k + Len(s)) = s
<1> DEFINE n == Len(s)
           x == SubSeq(bytes, k + 1, k + n)
<1>1. n \in Nat /\ k + n <= Len(bytes) /\ Len(bytes) \in Nat
    BY DEF At
<1>2. x \in Seq(Byte) /\ Len(x) = n /\ \A j \in 1 .. n : x[j] = bytes[k + j]
  <2>1. k + 1 \in Int /\ k + n \in Int /\ (k + n) - (k + 1) + 1 = n
        /\ \A j \in 1 .. n : k + 1 + j - 1 = k + j
      BY <1>1
  <2> HIDE DEF n
  <2>2. \A i \in k + 1 .. k + n : bytes[i] \in Byte
    <3>1. \A i \in k + 1 .. k + n : i \in 1 .. Len(bytes)
        BY <1>1
    <3> QED BY <3>1
  <2>3. x \in Seq(Byte)
      BY <1>1, <2>2
  <2>4. Len(x) = n
      BY <1>1
  <2>5. \A j \in 1 .. n : x[j] = bytes[k + j]
      BY <1>1
  <2> QED BY <2>3, <2>4, <2>5
<1>3. \A j \in 1 .. n : x[j] = s[j]
    BY <1>2 DEF At
<1> HIDE DEF x
<1>4. x = s
    BY <1>1, <1>2, <1>3
<1> QED BY <1>4 DEF x

(* One byte replaced is replaced in the part that it is in.                *)
LEMMA AtFlip ==
    ASSUME NEW bytes \in Seq(Byte), NEW s \in Seq(Byte), NEW k \in Nat, At(bytes, k, s),
           NEW i \in 1 .. Len(bytes), NEW byte \in Byte
    PROVE  LET changed == [bytes EXCEPT ![i] = byte] IN
           /\ changed \in Seq(Byte) /\ Len(changed) = Len(bytes)
           /\ i \notin k + 1 .. k + Len(s) => At(changed, k, s)
           /\ i \in k + 1 .. k + Len(s) => At(changed, k, [s EXCEPT ![i - k] = byte])
<1> DEFINE changed == [bytes EXCEPT ![i] = byte]
           n == Len(s)
           L == Len(bytes)
<1>1. n \in Nat /\ L \in Nat /\ k + n <= L /\ \A j \in 1 .. n : bytes[k + j] = s[j]
    BY DEF At
<1>2. /\ changed \in Seq(Byte) /\ Len(changed) = L
      /\ \A j \in 1 .. L : changed[j] = IF j = i THEN byte ELSE bytes[j]
    OBVIOUS
<1> HIDE DEF changed
<1>3. ASSUME i \notin k + 1 .. k + n PROVE At(changed, k, s)
  <2>1. \A j \in 1 .. n : k + j \in 1 .. L /\ k + j # i
    <3> HIDE DEF L, n
    <3> QED BY <1>1, <1>3
  <2> QED BY <1>1, <1>2, <2>1 DEF At
<1>4. ASSUME i \in k + 1 .. k + n PROVE At(changed, k, [s EXCEPT ![i - k] = byte])
  <2> DEFINE t == [s EXCEPT ![i - k] = byte]
  <2>1. i - k \in 1 .. n /\ \A j \in 1 .. n : k + j \in 1 .. L /\ (k + j = i <=> j = i - k)
    <3> HIDE DEF L, n
    <3> QED BY <1>1, <1>4
  <2>2. t \in Seq(Byte) /\ Len(t) = n /\ \A j \in 1 .. n : t[j] = IF j = i - k THEN byte ELSE s[j]
      BY <2>1
  <2> HIDE DEF t
  <2> QED BY <1>1, <1>2, <2>1, <2>2 DEF At
<1> QED BY <1>2, <1>3, <1>4 DEF changed

(* Bytes in their place stay there when later ones are cut off.            *)
LEMMA AtCut ==
    ASSUME NEW bytes \in Seq(Byte), NEW s \in Seq(Byte), NEW k \in Nat, At(bytes, k, s),
           NEW n \in 0 .. Len(bytes)
    PROVE  /\ SubSeq(bytes, 1, n) \in Seq(Byte) /\ Len(SubSeq(bytes, 1, n)) = n
           /\ \A j \in 1 .. n : SubSeq(bytes, 1, n)[j] = bytes[j]
           /\ k + Len(s) <= n => At(SubSeq(bytes, 1, n), k, s)
<1> DEFINE x == SubSeq(bytes, 1, n)
<1>1. x \in Seq(Byte) /\ Len(x) = n /\ \A j \in 1 .. n : x[j] = bytes[j]
    OBVIOUS
<1> HIDE DEF x
<1>2. ASSUME k + Len(s) <= n PROVE At(x, k, s)
  <2>1. \A j \in 1 .. Len(s) : k + j \in 1 .. n
      BY <1>2
  <2> QED BY <1>1, <1>2, <2>1 DEF At
<1> QED BY <1>1, <1>2 DEF x

-----------------------------------------------------------------------------
(* Groups of which the last says that it is the last.                      *)
Marked(s) ==
    s \in Seq(Byte) /\ Len(s) \in 1 .. 10 /\ \A i \in 1 .. Len(s) : 7 \in s[i] <=> i < Len(s)

(* A number ends where its last group is.                                  *)
LEMMA EndIs ==
    ASSUME NEW bytes \in Seq(Byte), NEW k \in Nat, NEW s, Marked(s), At(bytes, k, s)
    PROVE  EndOfNumber(bytes, k + 1) = k + Len(s)
<1> DEFINE n == Len(s)
           last == {i \in k + 1 .. Len(bytes) : 7 \notin bytes[i]}
<1>1. /\ n \in Nat \ {0} /\ Len(bytes) \in Nat /\ k + n <= Len(bytes)
      /\ \A j \in 1 .. n : bytes[k + j] = s[j] /\ (7 \in s[j] <=> j < n)
  <2>1. n \in 1 .. 10 /\ \A j \in 1 .. n : 7 \in s[j] <=> j < n
      BY DEF Marked
  <2>2. k + n <= Len(bytes) /\ \A j \in 1 .. n : bytes[k + j] = s[j]
      BY DEF At
  <2> HIDE DEF n
  <2> QED BY <2>1, <2>2
<1> HIDE DEF n
<1>2. k + n \in last
    BY <1>1
<1>3. ASSUME NEW i \in last PROVE k + n <= i
  <2> SUFFICES ASSUME i < k + n PROVE FALSE
      BY <1>1
  <2>1. i - k \in 1 .. n /\ k + (i - k) = i /\ i - k < n
      BY <1>1
  <2> QED BY <1>1, <2>1
<1>4. last \subseteq Nat
    BY <1>1
<1>5. Min(last) = k + n
  <2> HIDE DEF last
  <2>1. \A x, y \in Nat : x <= y /\ y <= x => x = y
      OBVIOUS
  <2>2. \A x \in last : (\A y \in last : x <= y) => x = k + n
      BY <1>1, <1>2, <1>3, <1>4, <2>1
  <2>3. Min(last) = CHOOSE x \in last : \A y \in last : x <= y
      BY DEF Min
  <2> QED BY <1>2, <1>3, <2>2, <2>3
<1>6. EndOfNumber(bytes, k + 1) = IF last = {} THEN Len(bytes) ELSE Min(last)
    BY DEF EndOfNumber
<1> QED BY <1>2, <1>5, <1>6 DEF n

(* A number may end with the bytes.                                        *)
LEMMA EndWithBytes ==
    ASSUME NEW bytes \in Seq(Byte), NEW k \in Nat, \A i \in k + 1 .. Len(bytes) : 7 \in bytes[i]
    PROVE  EndOfNumber(bytes, k + 1) = Len(bytes)
BY DEF EndOfNumber

(* A number ends somewhere.                                                *)
LEMMA EndType ==
    ASSUME NEW bytes \in Seq(Byte), NEW k \in Nat
    PROVE  EndOfNumber(bytes, k) \in Nat
<1> DEFINE last == {i \in k .. Len(bytes) : 7 \notin bytes[i]}
<1>1. EndOfNumber(bytes, k) = IF last = {} THEN Len(bytes) ELSE Min(last)
    BY DEF EndOfNumber
<1>2. last \subseteq Nat /\ Len(bytes) \in Nat
    OBVIOUS
<1> HIDE DEF last
<1>3. ASSUME last # {} PROVE Min(last) \in Nat
  <2>1. \E x \in last : \A y \in last : x <= y
      BY <1>2, <1>3, LeastNumber
  <2>2. Min(last) \in last
      BY <2>1 DEF Min
  <2> QED BY <1>2, <2>2
<1> QED BY <1>1, <1>2, <1>3

-----------------------------------------------------------------------------
(* The bytes of a packet, field by field.                                  *)
Laid(bytes, flags, id, seq, total, low, high, crc, payload) ==
    /\ bytes \in Seq(Byte) /\ flags \in Byte /\ low \in Byte /\ high \in Byte
    /\ Marked(id) /\ Marked(seq) /\ Marked(total)
    /\ crc \in Seq(Byte) /\ Len(crc) = 4 /\ payload \in Seq(Byte)
    /\ Len(bytes) = 1 + Len(id) + Len(seq) + Len(total) + 6 + Len(payload)
    /\ At(bytes, 0, <<flags>>)
    /\ At(bytes, 1, id)
    /\ At(bytes, 1 + Len(id), seq)
    /\ At(bytes, 1 + Len(id) + Len(seq), total)
    /\ At(bytes, 1 + Len(id) + Len(seq) + Len(total), <<low, high>>)
    /\ At(bytes, 1 + Len(id) + Len(seq) + Len(total) + 2, crc)
    /\ At(bytes, 1 + Len(id) + Len(seq) + Len(total) + 6, payload)

(* Bytes x that begin with the n bytes s, and go on with t.                *)
Follows(x, s, n, t) ==
    /\ x \in Seq(Byte) /\ Len(x) = n + Len(t) /\ At(x, n, t)
    /\ \A k \in Nat, u \in Seq(Byte) : At(s, k, u) => At(x, k, u)

(* Bytes appended follow, and nothing moves.                               *)
LEMMA Appended ==
    ASSUME NEW s \in Seq(Byte), NEW t \in Seq(Byte), NEW n \in Nat, Len(s) = n
    PROVE  Follows(s \o t, s, n, t)
<1>1. s \o t \in Seq(Byte) /\ Len(s \o t) = n + Len(t) /\ At(s \o t, n, t)
    BY Joined
<1>2. \A k \in Nat, u \in Seq(Byte) : At(s, k, u) => At(s \o t, k, u)
    BY AtJoined
<1> QED BY <1>1, <1>2 DEF Follows

(* The fields of a packet one after the other.                             *)
LEMMA LaidOut ==
    ASSUME NEW flags \in Byte, NEW id, NEW seq, NEW total, Marked(id), Marked(seq), Marked(total),
           NEW low \in Byte, NEW high \in Byte, NEW crc \in Seq(Byte), Len(crc) = 4,
           NEW payload \in Seq(Byte)
    PROVE  Laid(<<flags>> \o id \o seq \o total \o <<low, high>> \o crc \o payload,
                flags, id, seq, total, low, high, crc, payload)
<1> DEFINE a == <<flags>>
           size == <<low, high>>
           b == a \o id
           c == b \o seq
           d == c \o total
           e == d \o size
           f == e \o crc
           g == f \o payload
           n1 == 1 + Len(id)
           n2 == n1 + Len(seq)
           n3 == n2 + Len(total)
<1>1. /\ id \in Seq(Byte) /\ seq \in Seq(Byte) /\ total \in Seq(Byte)
      /\ Len(id) \in Nat /\ Len(seq) \in Nat /\ Len(total) \in Nat /\ Len(payload) \in Nat
    BY DEF Marked
<1>2. a \in Seq(Byte) /\ Len(a) = 1 /\ size \in Seq(Byte) /\ Len(size) = 2 /\ 1 \in Nat /\ 0 \in Nat
      /\ 2 \in Nat /\ 4 \in Nat
    OBVIOUS
<1>3. At(a, 0, a)
    BY DEF At
<1>4. n1 \in Nat /\ n2 \in Nat /\ n3 \in Nat /\ n3 + 2 \in Nat /\ n3 + 6 \in Nat
      /\ (n3 + 2) + 4 = n3 + 6
    BY <1>1
<1> HIDE DEF a, size
<1>5. b \in Seq(Byte) /\ Len(b) = n1 /\ At(b, 1, id)
      /\ \A k \in Nat, u \in Seq(Byte) : At(a, k, u) => At(b, k, u)
  <2>1. Follows(b, a, 1, id)
      BY <1>1, <1>2, Appended
  <2> HIDE DEF b
  <2> QED BY <2>1 DEF Follows
<1> HIDE DEF b, n1
<1>6. c \in Seq(Byte) /\ Len(c) = n2 /\ At(c, n1, seq)
      /\ \A k \in Nat, u \in Seq(Byte) : At(b, k, u) => At(c, k, u)
  <2>1. Follows(c, b, n1, seq)
      BY <1>1, <1>4, <1>5, Appended
  <2> HIDE DEF c
  <2> QED BY <2>1 DEF Follows
<1> HIDE DEF c, n2
<1>7. d \in Seq(Byte) /\ Len(d) = n3 /\ At(d, n2, total)
      /\ \A k \in Nat, u \in Seq(Byte) : At(c, k, u) => At(d, k, u)
  <2>1. Follows(d, c, n2, total)
      BY <1>1, <1>4, <1>6, Appended
  <2> HIDE DEF d
  <2> QED BY <2>1 DEF Follows
<1> HIDE DEF d, n3
<1>8. e \in Seq(Byte) /\ Len(e) = n3 + 2 /\ At(e, n3, size)
      /\ \A k \in Nat, u \in Seq(Byte) : At(d, k, u) => At(e, k, u)
  <2>1. Follows(e, d, n3, size)
      BY <1>2, <1>4, <1>7, Appended
  <2> HIDE DEF e
  <2> QED BY <1>2, <2>1 DEF Follows
<1> HIDE DEF e
<1>9. f \in Seq(Byte) /\ Len(f) = n3 + 6 /\ At(f, n3 + 2, crc)
      /\ \A k \in Nat, u \in Seq(Byte) : At(e, k, u) => At(f, k, u)
  <2>1. Follows(f, e, n3 + 2, crc)
      BY <1>4, <1>8, Appended
  <2> HIDE DEF f
  <2> QED BY <1>4, <2>1 DEF Follows
<1> HIDE DEF f
<1>10. g \in Seq(Byte) /\ Len(g) = n3 + 6 + Len(payload) /\ At(g, n3 + 6, payload)
       /\ \A k \in Nat, u \in Seq(Byte) : At(f, k, u) => At(g, k, u)
  <2>1. Follows(g, f, n3 + 6, payload)
      BY <1>1, <1>4, <1>9, Appended
  <2> HIDE DEF g
  <2> QED BY <2>1 DEF Follows
<1> HIDE DEF g
<1>11. At(g, 0, a) /\ At(g, 1, id) /\ At(g, n1, seq) /\ At(g, n2, total)
  <2>1. At(d, 0, a) /\ At(d, 1, id) /\ At(d, n1, seq) /\ At(d, n2, total)
      BY <1>1, <1>2, <1>3, <1>4, <1>5, <1>6, <1>7
  <2> QED BY <1>1, <1>2, <1>4, <1>8, <1>9, <1>10, <2>1
<1>12. At(g, n3, size) /\ At(g, n3 + 2, crc)
    BY <1>2, <1>4, <1>8, <1>9, <1>10
<1>13. Laid(g, flags, id, seq, total, low, high, crc, payload)
  <2>1. At(g, 0, <<flags>>) /\ At(g, n3, <<low, high>>)
      BY <1>11, <1>12 DEF a, size
  <2> USE DEF n1, n2, n3
  <2> QED BY <1>10, <1>11, <1>12, <2>1 DEF Laid
<1> QED BY <1>13 DEF g, f, e, d, c, b, a, size

(* A packet of these fields, with the size that its payload has.           *)
Built(flags, id, seq, total, payload) ==
    [flags          |-> flags,
     packageId      |-> id,
     sequenceNumber |-> seq,
     totalPackets   |-> total,
     payloadSize    |-> Bits(Len(payload)) \cap (0 .. SizeBits - 1),
     payload        |-> payload]

(* The checksum of a packet as toBytes writes it.                          *)
CrcBytes(p) == [i \in 1 .. 4 |-> ByteOf(CalculateCRC32C(CheckedData(p)), i - 1)]

-----------------------------------------------------------------------------
(* Packets and their bytes.                                                *)

(* A packet as the constructor makes it.                                   *)
Proper(p) ==
    /\ p = Built(p.flags, p.packageId, p.sequenceNumber, p.totalPackets, p.payload)
    /\ p.flags \in Byte /\ p.flags = Version \cup (p.flags \cap (0 .. 3))
    /\ Groups(p.packageId, 64) /\ Groups(p.sequenceNumber, 32) /\ Groups(p.totalPackets, 32)
    /\ p.payload \in Seq(Byte)

(* The two bytes of the size.                                              *)
Low(p) == ByteOf(p.payloadSize, 0)
High(p) == ByteOf(p.payloadSize, 1)

(* The constructor makes such packets of every message.                    *)
LEMMA NewPacketIs ==
    ASSUME NEW m, IsMessage(m)
    PROVE  Proper(NewPacket(m))
<1> DEFINE flags == Version \cup (m.type \cap (0 .. 3))
           id == EncodeVariableLength(m.packageId)
           seq == EncodeVariableLength(m.sequenceNumber)
           total == EncodeVariableLength(m.totalPackets)
           p == NewPacket(m)
<1>1. /\ m.packageId \subseteq 0 .. 64 - 1 /\ m.sequenceNumber \subseteq 0 .. 32 - 1
      /\ m.totalPackets \subseteq 0 .. 32 - 1 /\ m.payload \in Seq(Byte)
  <2>1. 64 - 1 = 63 /\ 32 - 1 = 31
      OBVIOUS
  <2> QED BY <2>1 DEF IsMessage
<1>2. Groups(id, 64) /\ Groups(seq, 32) /\ Groups(total, 32)
  <2>1. 64 \in 1 .. 64 /\ 32 \in 1 .. 64
      OBVIOUS
  <2> QED BY <1>1, <2>1, EncodingGroups, Zenon
<1>3. flags \in Byte /\ flags = Version \cup (flags \cap (0 .. 3))
    BY DEF Version, Byte
<1> HIDE DEF flags, id, seq, total
<1>4. p = Built(flags, id, seq, total, m.payload)
    BY DEF NewPacket, Built, flags, id, seq, total
<1> HIDE DEF p
<1>5. p.flags = flags /\ p.packageId = id /\ p.sequenceNumber = seq /\ p.totalPackets = total
      /\ p.payload = m.payload
    BY <1>4 DEF Built
<1>6. Proper(p)
    BY <1>1, <1>2, <1>3, <1>4, <1>5 DEF Proper
<1> QED BY <1>6 DEF p

(* Groups of any width say which of them is the last.                      *)
LEMMA GroupsAreMarked ==
    ASSUME NEW s, NEW width, Groups(s, width)
    PROVE  Marked(s)
BY DEF Groups, Marked

(* The size of a packet is that of its payload, if that fits.              *)
LEMMA SizeOfProper ==
    ASSUME NEW p, Proper(p)
    PROVE  /\ Low(p) \in Byte /\ High(p) \in Byte
           /\ \A b \in High(p) : b < SizeBits - 8
           /\ Len(p.payload) < 2^SizeBits => SizeIn(Low(p), High(p)) = Len(p.payload)
<1>1. p.payloadSize = Bits(Len(p.payload)) \cap (0 .. SizeBits - 1)
    BY DEF Proper, Built
<1>2. Len(p.payload) \in Nat
    BY DEF Proper
<1> QED BY <1>1, <1>2, SizeRead DEF Low, High

(* The checksum takes four bytes.                                          *)
LEMMA CrcBytesAre ==
    ASSUME NEW p
    PROVE  CrcBytes(p) \in Seq(Byte) /\ Len(CrcBytes(p)) = 4
<1> DEFINE crc == CalculateCRC32C(CheckedData(p))
<1>1. crc \subseteq Nat
  <2>1. crc \subseteq 0 .. 31
      BY DEF CalculateCRC32C
  <2> HIDE DEF crc
  <2> QED BY <2>1
<1> HIDE DEF crc
<1>2. \A i \in 1 .. 4 : ByteOf(crc, i - 1) \in Byte
  <2>1. \A i \in 1 .. 4 : i - 1 \in Nat
      OBVIOUS
  <2> QED BY <1>1, <2>1, ByteOfIs
<1>3. CrcBytes(p) = [i \in 1 .. 4 |-> ByteOf(crc, i - 1)]
    BY DEF CrcBytes, crc
<1> QED BY <1>2, <1>3

(* Other checksums have other bytes.                                       *)
LEMMA CrcBytesTell ==
    ASSUME NEW p, NEW q, CrcBytes(p) = CrcBytes(q)
    PROVE  CalculateCRC32C(CheckedData(p)) = CalculateCRC32C(CheckedData(q))
<1> DEFINE c == CalculateCRC32C(CheckedData(p))
           d == CalculateCRC32C(CheckedData(q))
<1>1. c \subseteq 0 .. 31 /\ d \subseteq 0 .. 31
    BY DEF CalculateCRC32C
<1>2. [i \in 1 .. 4 |-> ByteOf(c, i - 1)] = [i \in 1 .. 4 |-> ByteOf(d, i - 1)]
    BY DEF CrcBytes
<1> HIDE DEF c, d
<1>3. \A i \in 1 .. 4 : ByteOf(c, i - 1) = ByteOf(d, i - 1)
  <2> DEFINE f == [i \in 1 .. 4 |-> ByteOf(c, i - 1)]
             g == [i \in 1 .. 4 |-> ByteOf(d, i - 1)]
  <2>1. \A i \in 1 .. 4 : f[i] = ByteOf(c, i - 1) /\ g[i] = ByteOf(d, i - 1)
      OBVIOUS
  <2>2. f = g
      BY <1>2
  <2> HIDE DEF f, g
  <2> QED BY <2>1, <2>2
<1>4. ASSUME NEW e \in 0 .. 31 PROVE e \in c <=> e \in d
  <2> DEFINE i == e \div 8
             b == e % 8
  <2>1. i \in Nat /\ i + 1 \in 1 .. 4 /\ (i + 1) - 1 = i /\ b \in 0 .. 7 /\ b + 8 * i = e
      OBVIOUS
  <2> HIDE DEF i, b
  <2>2. ByteOf(c, i) = ByteOf(d, i)
      BY <1>3, <2>1
  <2>3. (b \in ByteOf(c, i) <=> e \in c) /\ (b \in ByteOf(d, i) <=> e \in d)
    <3>1. c \subseteq Nat /\ d \subseteq Nat
        BY <1>1
    <3> QED BY <2>1, <3>1, ByteOfIs
  <2> QED BY <2>2, <2>3
<1>5. c = d
    BY <1>1, <1>4
<1> QED BY <1>5 DEF c, d

(* toBytes lays the fields out.                                            *)
LEMMA WireIs ==
    ASSUME NEW p, Proper(p)
    PROVE  Laid(ToBytes(p), p.flags, p.packageId, p.sequenceNumber, p.totalPackets,
                Low(p), High(p), CrcBytes(p), p.payload)
<1> DEFINE flags == p.flags
           id == p.packageId
           seq == p.sequenceNumber
           total == p.totalPackets
           payload == p.payload
           low == Low(p)
           high == High(p)
           crc == CrcBytes(p)
<1>1. ToBytes(p) = <<flags>> \o id \o seq \o total \o <<low, high>> \o crc \o payload
    BY DEF ToBytes, CrcBytes, Low, High
<1>2. flags \in Byte /\ payload \in Seq(Byte)
    BY DEF Proper
<1>3. Marked(id) /\ Marked(seq) /\ Marked(total)
    BY GroupsAreMarked DEF Proper
<1>4. low \in Byte /\ high \in Byte
    BY SizeOfProper
<1>5. crc \in Seq(Byte) /\ Len(crc) = 4
    BY CrcBytesAre
<1> HIDE DEF flags, id, seq, total, payload, low, high, crc
<1>6. Laid(<<flags>> \o id \o seq \o total \o <<low, high>> \o crc \o payload,
           flags, id, seq, total, low, high, crc, payload)
    BY <1>2, <1>3, <1>4, <1>5, LaidOut
<1>7. Laid(ToBytes(p), flags, id, seq, total, low, high, crc, payload)
    BY <1>1, <1>6
<1> QED BY <1>7 DEF flags, id, seq, total, payload, low, high, crc

(* The numbers of a proper packet are read back.                           *)
LEMMA NumbersRead ==
    ASSUME NEW p, Proper(p), NEW wraps \in BOOLEAN
    PROVE  /\ EncodeVariableLength(DecodeVariableLength(p.packageId, wraps)) = p.packageId
           /\ EncodeVariableLength(DecodeVariableLength(p.sequenceNumber, wraps) \cap (0 .. 31))
                  = p.sequenceNumber
           /\ EncodeVariableLength(DecodeVariableLength(p.totalPackets, wraps) \cap (0 .. 31))
                  = p.totalPackets
<1> DEFINE d == DecodeVariableLength(p.packageId, wraps)
<1>1. d \cap (0 .. 63) = d
    BY DEF DecodeVariableLength
<1>2. 64 - 1 = 63 /\ 32 - 1 = 31
    OBVIOUS
<1>3. Groups(p.packageId, 64) /\ Groups(p.sequenceNumber, 32) /\ Groups(p.totalPackets, 32)
    BY DEF Proper
<1>4. EncodeVariableLength(d \cap (0 .. 64 - 1)) = p.packageId
    BY <1>3, GroupsAreRead
<1>5. EncodeVariableLength(DecodeVariableLength(p.sequenceNumber, wraps) \cap (0 .. 32 - 1))
          = p.sequenceNumber
    BY <1>3, GroupsAreRead
<1>6. EncodeVariableLength(DecodeVariableLength(p.totalPackets, wraps) \cap (0 .. 32 - 1))
          = p.totalPackets
    BY <1>3, GroupsAreRead
<1> QED BY <1>1, <1>2, <1>4, <1>5, <1>6

(* Bytes laid out as a packet's, the fields of which are read as those of  *)
(* a proper packet q: the fields, and the bytes if there are such fields.  *)
ReadAs(bytes, wraps, low, high, crc, q, flags, id, seq, total) ==
    /\ Laid(bytes, flags, id, seq, total, low, high, crc, q.payload)
    /\ flags \cap (0 .. 3) = q.flags \cap (0 .. 3)
    /\ EncodeVariableLength(DecodeVariableLength(id, wraps)) = q.packageId
    /\ EncodeVariableLength(DecodeVariableLength(seq, wraps) \cap (0 .. 31)) = q.sequenceNumber
    /\ EncodeVariableLength(DecodeVariableLength(total, wraps) \cap (0 .. 31)) = q.totalPackets

Reads(bytes, wraps, low, high, crc, q) ==
    \E flags, id, seq, total : ReadAs(bytes, wraps, low, high, crc, q, flags, id, seq, total)

(* What fromBytes makes of such bytes.                                     *)
LEMMA Rebuilt ==
    ASSUME NEW q, Proper(q), NEW bytes, NEW wraps \in BOOLEAN, NEW low, NEW high, NEW crc,
           Reads(bytes, wraps, low, high, crc, q)
    PROVE  FromBytes(bytes, wraps) =
               IF Len(q.payload) # SizeIn(low, high) \/ crc # CrcBytes(q) THEN Refused ELSE q
<1> DEFINE payload == q.payload
<1>0. PICK flags, id, seq, total : ReadAs(bytes, wraps, low, high, crc, q, flags, id, seq, total)
    BY DEF Reads
<1> DEFINE n1 == 1 + Len(id)
           n2 == n1 + Len(seq)
           n3 == n2 + Len(total)
           p == Built(Version \cup (flags \cap (0 .. 3)), q.packageId, q.sequenceNumber,
                      q.totalPackets, payload)
           idEnd == EndOfNumber(bytes, 2)
           seqEnd == EndOfNumber(bytes, idEnd + 1)
           totalEnd == EndOfNumber(bytes, seqEnd + 1)
           value(first, last) == DecodeVariableLength(SubSeq(bytes, first, last), wraps)
           size == Number(bytes[totalEnd + 1]) + 256 * Number(bytes[totalEnd + 2])
           sum == SubSeq(bytes, totalEnd + 3, totalEnd + 6)
           message == [type           |-> bytes[1] \cap (0 .. 3),
                       packageId      |-> value(2, idEnd),
                       sequenceNumber |-> value(idEnd + 1, seqEnd) \cap (0 .. 31),
                       totalPackets   |-> value(seqEnd + 1, totalEnd) \cap (0 .. 31),
                       payload        |-> SubSeq(bytes, totalEnd + 7, Len(bytes))]
           rebuilt == NewPacket(message)
           own == CalculateCRC32C(CheckedData(rebuilt))
<1>1. FromBytes(bytes, wraps) =
          IF \/ Len(bytes) < 8
             \/ Len(bytes) - totalEnd < 6
             \/ Len(bytes) # totalEnd + 6 + size
             \/ sum # [i \in 1 .. 4 |-> ByteOf(own, i - 1)]
          THEN Refused
          ELSE rebuilt
    BY DEF FromBytes
<1>2. /\ bytes \in Seq(Byte) /\ flags \in Byte /\ low \in Byte /\ high \in Byte
      /\ Marked(id) /\ Marked(seq) /\ Marked(total)
      /\ crc \in Seq(Byte) /\ Len(crc) = 4 /\ payload \in Seq(Byte)
      /\ Len(bytes) = n3 + 6 + Len(payload)
      /\ At(bytes, 0, <<flags>>)
      /\ At(bytes, 1, id)
      /\ At(bytes, n1, seq)
      /\ At(bytes, n2, total)
      /\ At(bytes, n3, <<low, high>>)
      /\ At(bytes, n3 + 2, crc)
      /\ At(bytes, n3 + 6, payload)
    BY <1>0 DEF ReadAs, Laid
<1>3. /\ id \in Seq(Byte) /\ seq \in Seq(Byte) /\ total \in Seq(Byte)
      /\ Len(id) \in 1 .. 10 /\ Len(seq) \in 1 .. 10 /\ Len(total) \in 1 .. 10
    BY <1>2 DEF Marked
<1>4. n1 \in Nat /\ n2 \in Nat /\ n3 \in Nat /\ Len(payload) \in Nat /\ 4 <= n3
  <2> DEFINE i == Len(id)
             j == Len(seq)
             k == Len(total)
  <2>1. i \in 1 .. 10 /\ j \in 1 .. 10 /\ k \in 1 .. 10
      BY <1>3
  <2>2. Len(payload) \in Nat
      BY <1>2
  <2> HIDE DEF i, j, k
  <2>3. 1 + i \in Nat /\ 1 + i + j \in Nat /\ 1 + i + j + k \in Nat /\ 4 <= 1 + i + j + k
      BY <2>1
  <2> QED BY <2>2, <2>3 DEF i, j, k
<1>5. idEnd = n1
  <2>1. 1 \in Nat /\ 1 + 1 = 2
      OBVIOUS
  <2>2. EndOfNumber(bytes, 1 + 1) = 1 + Len(id)
      BY <1>2, <2>1, EndIs
  <2> QED BY <2>1, <2>2
<1> HIDE DEF idEnd, n1
<1>6. seqEnd = n2
    BY <1>2, <1>4, <1>5, EndIs
<1> HIDE DEF seqEnd, n2
<1>7. totalEnd = n3
    BY <1>2, <1>4, <1>6, EndIs
<1> HIDE DEF totalEnd, n3
<1>8. value(2, idEnd) = DecodeVariableLength(id, wraps)
  <2>1. SubSeq(bytes, 1 + 1, 1 + Len(id)) = id
      BY <1>2, <1>3, AtSub
  <2>2. 1 + 1 = 2
      OBVIOUS
  <2> QED BY <1>5, <2>1, <2>2 DEF n1
<1>9. value(idEnd + 1, seqEnd) = DecodeVariableLength(seq, wraps)
  <2>1. SubSeq(bytes, n1 + 1, n1 + Len(seq)) = seq
      BY <1>2, <1>3, <1>4, AtSub
  <2> QED BY <1>5, <1>6, <2>1 DEF n2
<1>10. value(seqEnd + 1, totalEnd) = DecodeVariableLength(total, wraps)
  <2>1. SubSeq(bytes, n2 + 1, n2 + Len(total)) = total
      BY <1>2, <1>3, <1>4, AtSub
  <2> QED BY <1>6, <1>7, <2>1 DEF n3
<1>11. size = SizeIn(low, high)
  <2>1. bytes[n3 + 1] = low /\ bytes[n3 + 2] = high
    <3> DEFINE s == <<low, high>>
    <3>1. At(bytes, n3, s)
        BY <1>2
    <3>2. Len(s) = 2 /\ s[1] = low /\ s[2] = high
        OBVIOUS
    <3> HIDE DEF s
    <3> QED BY <3>1, <3>2 DEF At
  <2> QED BY <1>7, <2>1 DEF SizeIn
<1>12. sum = crc
  <2> DEFINE k == n3 + 2
  <2>1. k \in Nat /\ k + 1 = n3 + 3 /\ k + 4 = n3 + 6
      BY <1>4
  <2>2. At(bytes, k, crc)
      BY <1>2
  <2> HIDE DEF k
  <2>3. SubSeq(bytes, k + 1, k + Len(crc)) = crc
      BY <1>2, <2>1, <2>2, AtSub
  <2> QED BY <1>2, <1>7, <2>1, <2>3
<1>13. SubSeq(bytes, totalEnd + 7, Len(bytes)) = payload
  <2> DEFINE k == n3 + 6
  <2>1. k \in Nat /\ k + 1 = n3 + 7
      BY <1>4
  <2>2. At(bytes, k, payload) /\ Len(bytes) = k + Len(payload)
      BY <1>2
  <2> HIDE DEF k
  <2>3. SubSeq(bytes, k + 1, k + Len(payload)) = payload
      BY <1>2, <2>1, <2>2, AtSub
  <2> QED BY <1>7, <2>1, <2>2, <2>3
<1>14. bytes[1] = flags
  <2> DEFINE s == <<flags>>
  <2>1. At(bytes, 0, s)
      BY <1>2
  <2>2. Len(s) = 1 /\ s[1] = flags /\ 0 + 1 = 1
      OBVIOUS
  <2> HIDE DEF s
  <2>3. bytes[0 + 1] = s[1]
      BY <2>1, <2>2 DEF At
  <2> QED BY <2>2, <2>3
<1> HIDE DEF value, size, sum
<1>15. rebuilt = p
    BY <1>0, <1>8, <1>9, <1>10, <1>13, <1>14 DEF ReadAs, NewPacket, Built
<1> HIDE DEF message, p, rebuilt
<1>16. [i \in 1 .. 4 |-> ByteOf(own, i - 1)] = CrcBytes(p)
    BY <1>15 DEF CrcBytes
<1>17. size \in Nat
    BY <1>2, <1>11, SizeInType
<1>18. ~(Len(bytes) < 8) /\ ~(Len(bytes) - totalEnd < 6)
       /\ (Len(bytes) # totalEnd + 6 + size <=> Len(payload) # size)
  <2> DEFINE n == Len(bytes)
             m == Len(payload)
  <2>1. n = n3 + 6 + m /\ m \in Nat
      BY <1>2, <1>4
  <2> HIDE DEF n, m
  <2>2. ~(n < 8) /\ ~(n - n3 < 6) /\ (n # n3 + 6 + size <=> m # size)
      BY <1>4, <1>17, <2>1
  <2> QED BY <1>7, <2>2 DEF n, m
<1> HIDE DEF own
<1>19. FromBytes(bytes, wraps) =
           IF Len(payload) # size \/ crc # CrcBytes(p) THEN Refused ELSE p
    BY <1>1, <1>12, <1>15, <1>16, <1>18
<1>20. p = q
    BY <1>0 DEF ReadAs, Proper, p
<1> QED BY <1>11, <1>19, <1>20

(* What was sent is read back if its size is what its two bytes say.       *)
LEMMA SentIsRead ==
    ASSUME NEW p, Proper(p), NEW wraps \in BOOLEAN
    PROVE  FromBytes(ToBytes(p), wraps) = IF Len(p.payload) < 2^SizeBits THEN p ELSE Refused
<1>1. FromBytes(ToBytes(p), wraps) =
          IF Len(p.payload) # SizeIn(Low(p), High(p)) \/ CrcBytes(p) # CrcBytes(p)
          THEN Refused ELSE p
  <2>1. ReadAs(ToBytes(p), wraps, Low(p), High(p), CrcBytes(p), p,
               p.flags, p.packageId, p.sequenceNumber, p.totalPackets)
      BY WireIs, NumbersRead DEF ReadAs
  <2>2. Reads(ToBytes(p), wraps, Low(p), High(p), CrcBytes(p), p)
      BY <2>1, Zenon DEF Reads
  <2> QED BY <2>2, Rebuilt
<1>2. Len(p.payload) = SizeIn(Low(p), High(p)) <=> Len(p.payload) < 2^SizeBits
    BY SizeOfProper, SizeFits
<1> QED BY <1>1, <1>2

-----------------------------------------------------------------------------
(* Bytes that differ in one.                                               *)

(* A difference stays one whatever the bytes before and after it.          *)
LEMMA DifferLeft ==
    ASSUME NEW a, NEW b, NEW i, DifferAt(a, b, i), NEW s \in Seq(Byte)
    PROVE  DifferAt(a \o s, b \o s, i)
<1> DEFINE x == a \o s
           y == b \o s
           n == Len(a)
           m == Len(s)
<1>1. a \in Seq(Byte) /\ b \in Seq(Byte) /\ Len(b) = n /\ i \in 1 .. n /\ a[i] # b[i]
      /\ \A j \in 1 .. n : j # i => a[j] = b[j]
    BY DEF DifferAt
<1>2. /\ x \in Seq(Byte) /\ y \in Seq(Byte) /\ Len(x) = n + m /\ Len(y) = n + m
      /\ n \in Nat /\ m \in Nat
    BY <1>1
<1>3. \A j \in 1 .. n : x[j] = a[j] /\ y[j] = b[j]
    BY <1>1
<1>4. \A j \in 1 .. n + m : j \notin 1 .. n => x[j] = s[j - n] /\ y[j] = s[j - n]
    BY <1>1
<1> HIDE DEF x, y, n, m
<1>5. i \in 1 .. n + m
    BY <1>1, <1>2
<1>6. DifferAt(x, y, i)
  <2>1. \A j \in 1 .. n + m : j # i => x[j] = y[j]
      BY <1>1, <1>3, <1>4
  <2>2. x[i] # y[i]
      BY <1>1, <1>3
  <2> QED BY <1>2, <1>5, <2>1, <2>2 DEF DifferAt
<1> QED BY <1>6 DEF x, y

LEMMA DifferRight ==
    ASSUME NEW a, NEW b, NEW i, DifferAt(a, b, i), NEW s \in Seq(Byte)
    PROVE  DifferAt(s \o a, s \o b, Len(s) + i)
<1> DEFINE x == s \o a
           y == s \o b
           n == Len(a)
           m == Len(s)
<1>1. a \in Seq(Byte) /\ b \in Seq(Byte) /\ Len(b) = n /\ i \in 1 .. n /\ a[i] # b[i]
      /\ \A j \in 1 .. n : j # i => a[j] = b[j]
    BY DEF DifferAt
<1>2. /\ x \in Seq(Byte) /\ y \in Seq(Byte) /\ Len(x) = m + n /\ Len(y) = m + n
      /\ n \in Nat /\ m \in Nat
    BY <1>1
<1>3. \A j \in 1 .. m : x[j] = s[j] /\ y[j] = s[j]
    BY <1>1
<1>4. \A j \in 1 .. n : x[m + j] = a[j] /\ y[m + j] = b[j]
    BY <1>1
<1> HIDE DEF x, y, n, m
<1>5. m + i \in 1 .. m + n
    BY <1>1, <1>2
<1>6. DifferAt(x, y, m + i)
  <2>1. ASSUME NEW j \in 1 .. m + n, j # m + i PROVE x[j] = y[j]
    <3>1. CASE j \in 1 .. m
        BY <1>3, <3>1
    <3>2. CASE j \notin 1 .. m
      <4>1. j - m \in 1 .. n /\ m + (j - m) = j /\ j - m # i
          BY <1>1, <1>2, <2>1, <3>2
      <4> QED BY <1>1, <1>4, <4>1
    <3> QED BY <3>1, <3>2
  <2>2. x[m + i] # y[m + i]
      BY <1>1, <1>4
  <2> QED BY <1>2, <1>5, <2>1, <2>2 DEF DifferAt
<1> QED BY <1>6 DEF x, y, m

(* Somewhere the bytes differ, and nowhere else.                           *)
DifferOnce(a, b) == \E i : DifferAt(a, b, i)

(* One difference stays one whatever the bytes before and after it.        *)
LEMMA DifferInside ==
    ASSUME NEW a, NEW b, DifferOnce(a, b), NEW s \in Seq(Byte)
    PROVE  DifferOnce(a \o s, b \o s) /\ DifferOnce(s \o a, s \o b)
<1>1. PICK i : DifferAt(a, b, i)
    BY DEF DifferOnce
<1>2. DifferAt(a \o s, b \o s, i)
    BY <1>1, DifferLeft
<1>3. DifferAt(s \o a, s \o b, Len(s) + i)
    BY <1>1, DifferRight
<1> QED BY <1>2, <1>3 DEF DifferOnce

(* What the checksum covers, field by field.                               *)
Covered(flags, id, seq, total, size, payload) ==
    <<flags>> \o id \o seq \o total \o size \o payload

(* One difference in a field is one in the bytes that the checksum covers. *)
LEMMA CoveredOnce ==
    ASSUME NEW flags \in Byte, NEW id \in Seq(Byte), NEW seq \in Seq(Byte), NEW total \in Seq(Byte),
           NEW size \in Seq(Byte), NEW payload \in Seq(Byte)
    PROVE  /\ \A f \in Byte : f # flags =>
                  DifferOnce(Covered(f, id, seq, total, size, payload),
                             Covered(flags, id, seq, total, size, payload))
           /\ \A s : DifferOnce(s, id) =>
                  DifferOnce(Covered(flags, s, seq, total, size, payload),
                             Covered(flags, id, seq, total, size, payload))
           /\ \A s : DifferOnce(s, seq) =>
                  DifferOnce(Covered(flags, id, s, total, size, payload),
                             Covered(flags, id, seq, total, size, payload))
           /\ \A s : DifferOnce(s, total) =>
                  DifferOnce(Covered(flags, id, seq, s, size, payload),
                             Covered(flags, id, seq, total, size, payload))
           /\ \A s : DifferOnce(s, payload) =>
                  DifferOnce(Covered(flags, id, seq, total, size, s),
                             Covered(flags, id, seq, total, size, payload))
<1> DEFINE a == <<flags>>
           b == a \o id
           c == b \o seq
           d == c \o total
           e == d \o size
<1>1. a \in Seq(Byte)
    OBVIOUS
<1> HIDE DEF a
<1>2. b \in Seq(Byte)
    BY <1>1
<1> HIDE DEF b
<1>3. c \in Seq(Byte)
    BY <1>2
<1> HIDE DEF c
<1>4. d \in Seq(Byte)
    BY <1>3
<1> HIDE DEF d
<1>5. e \in Seq(Byte)
    BY <1>4
<1> HIDE DEF e
<1>6. Covered(flags, id, seq, total, size, payload) = e \o payload
    BY DEF Covered, e, d, c, b, a
<1>7. ASSUME NEW s, DifferOnce(s, d)
      PROVE  DifferOnce(s \o size \o payload, Covered(flags, id, seq, total, size, payload))
  <2>1. DifferOnce(s \o size, e)
      BY <1>7, DifferInside DEF e
  <2>2. DifferOnce((s \o size) \o payload, e \o payload)
      BY <2>1, DifferInside
  <2> QED BY <1>6, <2>2
<1>8. ASSUME NEW s, DifferOnce(s, c)
      PROVE  DifferOnce(s \o total \o size \o payload,
                        Covered(flags, id, seq, total, size, payload))
  <2>1. DifferOnce(s \o total, d)
      BY <1>8, DifferInside DEF d
  <2> QED BY <1>7, <2>1
<1>9. ASSUME NEW s, DifferOnce(s, b)
      PROVE  DifferOnce(s \o seq \o total \o size \o payload,
                        Covered(flags, id, seq, total, size, payload))
  <2>1. DifferOnce(s \o seq, c)
      BY <1>9, DifferInside DEF c
  <2> QED BY <1>8, <2>1
<1>10. ASSUME NEW f \in Byte, f # flags
       PROVE  DifferOnce(Covered(f, id, seq, total, size, payload),
                         Covered(flags, id, seq, total, size, payload))
  <2>1. DifferAt(<<f>>, a, 1)
      BY <1>10 DEF DifferAt, a
  <2>2. DifferOnce(<<f>>, a)
      BY <2>1 DEF DifferOnce
  <2>3. DifferOnce(<<f>> \o id, b)
      BY <2>2, DifferInside DEF b
  <2>4. DifferOnce(<<f>> \o id \o seq \o total \o size \o payload,
                   Covered(flags, id, seq, total, size, payload))
      BY <1>9, <2>3
  <2> QED BY <2>4 DEF Covered
<1>11. ASSUME NEW s, DifferOnce(s, id)
       PROVE  DifferOnce(Covered(flags, s, seq, total, size, payload),
                         Covered(flags, id, seq, total, size, payload))
  <2>1. DifferOnce(a \o s, b)
      BY <1>1, <1>11, DifferInside DEF b
  <2>2. DifferOnce((a \o s) \o seq \o total \o size \o payload,
                   Covered(flags, id, seq, total, size, payload))
      BY <1>9, <2>1
  <2> QED BY <2>2 DEF Covered, a
<1>12. ASSUME NEW s, DifferOnce(s, seq)
       PROVE  DifferOnce(Covered(flags, id, s, total, size, payload),
                         Covered(flags, id, seq, total, size, payload))
  <2>1. DifferOnce(b \o s, c)
      BY <1>2, <1>12, DifferInside DEF c
  <2>2. DifferOnce((b \o s) \o total \o size \o payload,
                   Covered(flags, id, seq, total, size, payload))
      BY <1>8, <2>1
  <2> QED BY <2>2 DEF Covered, b, a
<1>13. ASSUME NEW s, DifferOnce(s, total)
       PROVE  DifferOnce(Covered(flags, id, seq, s, size, payload),
                         Covered(flags, id, seq, total, size, payload))
  <2>1. DifferOnce(c \o s, d)
      BY <1>3, <1>13, DifferInside DEF d
  <2>2. DifferOnce((c \o s) \o size \o payload, Covered(flags, id, seq, total, size, payload))
      BY <1>7, <2>1
  <2> QED BY <2>2 DEF Covered, c, b, a
<1>14. ASSUME NEW s, DifferOnce(s, payload)
       PROVE  DifferOnce(Covered(flags, id, seq, total, size, s),
                         Covered(flags, id, seq, total, size, payload))
  <2>1. DifferOnce(e \o s, e \o payload)
      BY <1>5, <1>14, DifferInside
  <2> QED BY <1>6, <2>1 DEF Covered, e, d, c, b, a
<1> QED BY <1>10, <1>11, <1>12, <1>13, <1>14

(* A byte with one bit turned over.                                        *)
Turned(byte, old, b) ==
    /\ byte \in Byte /\ old \in Byte /\ byte # old
    /\ \A e : e \in byte <=> (e \in old /\ e # b) \/ (e \notin old /\ e = b)

(* Exclusive or with one bit turns that bit over.                          *)
LEMMA TurnedIs ==
    ASSUME NEW old \in Byte, NEW b \in 0 .. 7
    PROVE  Turned(SymDiff(old, {b}), old, b)
<1> DEFINE byte == SymDiff(old, {b})
<1>1. byte = (old \ {b}) \cup ({b} \ old)
    BY DEF SymDiff
<1> HIDE DEF byte
<1>2. \A e : e \in byte <=> (e \in old /\ e # b) \/ (e \notin old /\ e = b)
    BY <1>1
<1>3. byte # old
    BY <1>2
<1>4. byte \in Byte
    BY <1>1 DEF Byte
<1> QED BY <1>2, <1>3, <1>4 DEF Turned, byte

(* Bit b of byte j of the groups s turned over, where that does not empty  *)
(* the last of several groups.                                             *)
MayTurn(width, s, j, b, byte) ==
    /\ Groups(s, width) /\ j \in 1 .. Len(s) /\ b \in 0 .. 6
    /\ ~(j >= 2 /\ s[j] = {b}) /\ Turned(byte, s[j], b)

(* The groups t are those of another number, or read as s because the bit  *)
(* that was turned over is dropped.                                        *)
OtherGroups(width, s, j, b, t) ==
    /\ Marked(t) /\ DifferOnce(t, s)
    /\ b + 7 * (j - 1) < width => Groups(t, width)
    /\ b + 7 * (j - 1) >= width => \A wraps \in BOOLEAN :
           EncodeVariableLength(DecodeVariableLength(t, wraps) \cap (0 .. width - 1)) = s

(* One bit of a number turned over, where that leaves its groups in place. *)
LEMMA FlipNumber ==
    ASSUME NEW width \in 1 .. 64, NEW s, NEW j, NEW b, NEW byte, MayTurn(width, s, j, b, byte)
    PROVE  OtherGroups(width, s, j, b, [s EXCEPT ![j] = byte])
<1> SUFFICES ASSUME Groups(s, width), j \in 1 .. Len(s), b \in 0 .. 6,
                    ~(j >= 2 /\ s[j] = {b}), Turned(byte, s[j], b)
             PROVE  OtherGroups(width, s, j, b, [s EXCEPT ![j] = byte])
    BY DEF MayTurn
<1> DEFINE n == Len(s)
           t == [s EXCEPT ![j] = byte]
<1>1. s \in Seq(Byte) /\ n \in 1 .. 10 /\ \A i \in 1 .. n : s[i] \in Byte
    BY DEF Groups
<1>2. /\ byte \in Byte /\ byte # s[j]
      /\ \A e : e \in byte <=> (e \in s[j] /\ e # b) \/ (e \notin s[j] /\ e = b)
    BY DEF Turned
<1>3. /\ t \in Seq(Byte) /\ Len(t) = n
      /\ \A i \in 1 .. n : t[i] = IF i = j THEN byte ELSE s[i]
    BY <1>1, <1>2
<1> HIDE DEF t
<1>4. \A i \in 1 .. n : 7 \in s[i] <=> i < n
    BY DEF Groups
<1>5. 7 # b
    OBVIOUS
<1>6. \A i \in 1 .. n : 7 \in t[i] <=> i < n
    BY <1>2, <1>3, <1>4, <1>5
<1>7. Marked(t)
    BY <1>1, <1>3, <1>6 DEF Marked
<1>8. DifferOnce(t, s)
  <2>1. t[j] # s[j] /\ \A i \in 1 .. n : i # j => t[i] = s[i]
      BY <1>2, <1>3
  <2>2. DifferAt(t, s, j)
      BY <1>1, <1>3, <2>1 DEF DifferAt
  <2> QED BY <2>2 DEF DifferOnce
<1>9. \A i \in 1 .. n, e \in 0 .. 6 : e \in s[i] => e + 7 * (i - 1) < width
    BY DEF Groups
<1>10. ASSUME b + 7 * (j - 1) < width PROVE Groups(t, width)
  <2>1. n = 1 \/ t[n] # {}
    <3> SUFFICES ASSUME n # 1, t[n] = {} PROVE FALSE
        OBVIOUS
    <3>1. n \in 1 .. n /\ n >= 2
      <4> HIDE DEF n
      <4> QED BY <1>1, AtMostTen
    <3>2. s[n] # {}
        BY DEF Groups
    <3>3. j = n /\ byte = {}
        BY <1>3, <3>1, <3>2
    <3>4. s[j] = {b}
        BY <1>2, <3>3
    <3> QED BY <3>1, <3>3, <3>4
  <2>2. ASSUME NEW i \in 1 .. n, NEW e \in 0 .. 6, e \in t[i] PROVE e + 7 * (i - 1) < width
    <3>1. CASE i = j
      <4>1. e \in s[j] \/ e = b
          BY <1>2, <1>3, <2>2, <3>1
      <4>2. CASE e = b
          BY <1>10, <3>1, <4>2
      <4>3. CASE e \in s[j]
          BY <1>9, <3>1, <4>3
      <4> QED BY <4>1, <4>2, <4>3
    <3>2. CASE i # j
        BY <1>3, <1>9, <2>2, <3>2
    <3> QED BY <3>1, <3>2
  <2> QED BY <1>1, <1>3, <1>6, <2>1, <2>2 DEF Groups
<1>11. ASSUME b + 7 * (j - 1) >= width, NEW wraps \in BOOLEAN
       PROVE  EncodeVariableLength(DecodeVariableLength(t, wraps) \cap (0 .. width - 1)) = s
  <2>1. ASSUME NEW i \in 1 .. n, NEW e \in 0 .. 6, e + 7 * (i - 1) < width
        PROVE  e \in t[i] <=> e \in s[i]
    <3>1. CASE i = j
      <4>1. j \in Int
          OBVIOUS
      <4>2. e # b
          BY <1>11, <2>1, <3>1, <4>1
      <4> QED BY <1>2, <1>3, <3>1, <4>2
    <3>2. CASE i # j
        BY <1>3, <3>2
    <3> QED BY <3>1, <3>2
  <2>2. DecodeVariableLength(t, wraps) \cap (0 .. width - 1)
            = DecodeVariableLength(s, wraps) \cap (0 .. width - 1)
    <3>1. SameBelow(s, t, width)
        BY <1>1, <1>3, <2>1 DEF SameBelow
    <3>2. ReadAlike(s, t, width, wraps)
        BY <3>1, SpareBits
    <3> QED BY <3>2 DEF ReadAlike
  <2>3. EncodeVariableLength(DecodeVariableLength(s, wraps) \cap (0 .. width - 1)) = s
      BY GroupsAreRead
  <2> QED BY <2>2, <2>3
<1> QED BY <1>7, <1>8, <1>10, <1>11 DEF t, OtherGroups

-----------------------------------------------------------------------------
(* A packet with one of its bytes replaced.                                *)

(* The last byte of each of a packet's numbers.                            *)
IdEndOf(p) == 1 + Len(p.packageId)
SeqEndOf(p) == IdEndOf(p) + Len(p.sequenceNumber)
TotalEndOf(p) == SeqEndOf(p) + Len(p.totalPackets)

(* The numbers follow one another and leave room for what comes after      *)
(* them.                                                                   *)
LEMMA EndsAre ==
    ASSUME NEW p, Proper(p)
    PROVE  /\ Len(p.packageId) \in 1 .. 10
           /\ Len(p.sequenceNumber) \in 1 .. 5
           /\ Len(p.totalPackets) \in 1 .. 5
           /\ Len(p.payload) \in Nat
           /\ IdEndOf(p) \in Nat /\ SeqEndOf(p) \in Nat /\ TotalEndOf(p) \in Nat
           /\ 2 <= IdEndOf(p) /\ IdEndOf(p) < SeqEndOf(p) /\ SeqEndOf(p) < TotalEndOf(p)
           /\ IdEndOf(p) <= 11 /\ SeqEndOf(p) <= IdEndOf(p) + 5
           /\ Len(ToBytes(p)) = TotalEndOf(p) + 6 + Len(p.payload)
           /\ Len(ToBytes(p)) \in Nat /\ TotalEndOf(p) + 6 <= Len(ToBytes(p))
<1> DEFINE i == Len(p.packageId)
           j == Len(p.sequenceNumber)
           k == Len(p.totalPackets)
           l == Len(p.payload)
           n == Len(ToBytes(p))
<1>1. i \in 1 .. 10
    BY DEF Proper, Groups
<1>2. j \in 1 .. 5 /\ k \in 1 .. 5
    BY FiveGroups DEF Proper
<1>3. l \in Nat
    BY DEF Proper
<1>4. n = 1 + i + j + k + 6 + l
    BY WireIs DEF Laid
<1> HIDE DEF i, j, k, l, n
<1>5. /\ 1 + i \in Nat /\ 1 + i + j \in Nat /\ 1 + i + j + k \in Nat
      /\ 2 <= 1 + i /\ 1 + i < 1 + i + j /\ 1 + i + j < 1 + i + j + k
      /\ 1 + i <= 11 /\ 1 + i + j <= 1 + i + 5
      /\ n \in Nat /\ 1 + i + j + k + 6 <= n
    BY <1>1, <1>2, <1>3, <1>4
<1> QED BY <1>1, <1>2, <1>3, <1>4, <1>5 DEF i, j, k, l, n, IdEndOf, SeqEndOf, TotalEndOf

(* One byte of a sequence of bytes replaced.                               *)
LEMMA Replaced ==
    ASSUME NEW s \in Seq(Byte), NEW byte \in Byte
    PROVE  \A j \in 1 .. Len(s) :
               [s EXCEPT ![j] = byte] \in Seq(Byte) /\ Len([s EXCEPT ![j] = byte]) = Len(s)
OBVIOUS

(* The bytes of a packet with one byte replaced: the field that the byte   *)
(* is in is replaced.                                                      *)
LEMMA FlipLaid ==
    ASSUME NEW p, Proper(p), NEW i \in 1 .. Len(ToBytes(p)), NEW byte \in Byte
    PROVE  LET w == [ToBytes(p) EXCEPT ![i] = byte]
               id == [p.packageId EXCEPT ![i - 1] = byte]
               seq == [p.sequenceNumber EXCEPT ![i - IdEndOf(p)] = byte]
               total == [p.totalPackets EXCEPT ![i - SeqEndOf(p)] = byte]
               crc == [CrcBytes(p) EXCEPT ![i - (TotalEndOf(p) + 2)] = byte]
               payload == [p.payload EXCEPT ![i - (TotalEndOf(p) + 6)] = byte]
           IN  /\ i = 1 =>
                      Laid(w, byte, p.packageId, p.sequenceNumber, p.totalPackets,
                           Low(p), High(p), CrcBytes(p), p.payload)
               /\ i \in 2 .. IdEndOf(p) /\ Marked(id) =>
                      Laid(w, p.flags, id, p.sequenceNumber, p.totalPackets,
                           Low(p), High(p), CrcBytes(p), p.payload)
               /\ i \in IdEndOf(p) + 1 .. SeqEndOf(p) /\ Marked(seq) =>
                      Laid(w, p.flags, p.packageId, seq, p.totalPackets,
                           Low(p), High(p), CrcBytes(p), p.payload)
               /\ i \in SeqEndOf(p) + 1 .. TotalEndOf(p) /\ Marked(total) =>
                      Laid(w, p.flags, p.packageId, p.sequenceNumber, total,
                           Low(p), High(p), CrcBytes(p), p.payload)
               /\ i = TotalEndOf(p) + 1 =>
                      Laid(w, p.flags, p.packageId, p.sequenceNumber, p.totalPackets,
                           byte, High(p), CrcBytes(p), p.payload)
               /\ i = TotalEndOf(p) + 2 =>
                      Laid(w, p.flags, p.packageId, p.sequenceNumber, p.totalPackets,
                           Low(p), byte, CrcBytes(p), p.payload)
               /\ i \in TotalEndOf(p) + 3 .. TotalEndOf(p) + 6 =>
                      Laid(w, p.flags, p.packageId, p.sequenceNumber, p.totalPackets,
                           Low(p), High(p), crc, p.payload)
               /\ i > TotalEndOf(p) + 6 =>
                      Laid(w, p.flags, p.packageId, p.sequenceNumber, p.totalPackets,
                           Low(p), High(p), CrcBytes(p), payload)
<1> DEFINE u == ToBytes(p)
           w == [u EXCEPT ![i] = byte]
           flags == p.flags
           id == p.packageId
           seq == p.sequenceNumber
           total == p.totalPackets
           low == Low(p)
           high == High(p)
           crc == CrcBytes(p)
           payload == p.payload
           a == Len(id)
           b == Len(seq)
           c == Len(total)
           d == Len(payload)
           n1 == IdEndOf(p)
           n2 == SeqEndOf(p)
           n3 == TotalEndOf(p)
           one == <<flags>>
           size == <<low, high>>
           id2 == [id EXCEPT ![i - 1] = byte]
           seq2 == [seq EXCEPT ![i - n1] = byte]
           total2 == [total EXCEPT ![i - n2] = byte]
           crc2 == [crc EXCEPT ![i - (n3 + 2)] = byte]
           payload2 == [payload EXCEPT ![i - (n3 + 6)] = byte]
<1>1. Laid(u, flags, id, seq, total, low, high, crc, payload)
    BY WireIs
<1>2. /\ a \in 1 .. 10 /\ b \in 1 .. 5 /\ c \in 1 .. 5 /\ d \in Nat
      /\ n1 \in Nat /\ n2 \in Nat /\ n3 \in Nat
      /\ 2 <= n1 /\ n1 < n2 /\ n2 < n3 /\ Len(u) = n3 + 6 + d
    BY EndsAre
<1>3. n1 = 1 + a /\ n2 = n1 + b /\ n3 = n2 + c
    BY DEF IdEndOf, SeqEndOf, TotalEndOf
<1> HIDE DEF u, flags, id, seq, total, low, high, crc, payload, n1, n2, n3
<1>4. /\ u \in Seq(Byte) /\ flags \in Byte /\ low \in Byte /\ high \in Byte
      /\ Marked(id) /\ Marked(seq) /\ Marked(total)
      /\ crc \in Seq(Byte) /\ Len(crc) = 4 /\ payload \in Seq(Byte)
    BY <1>1 DEF Laid
<1>5. id \in Seq(Byte) /\ seq \in Seq(Byte) /\ total \in Seq(Byte)
    BY <1>4 DEF Marked
<1>6. /\ At(u, 0, one) /\ At(u, 1, id) /\ At(u, n1, seq) /\ At(u, n2, total)
      /\ At(u, n3, size) /\ At(u, n3 + 2, crc) /\ At(u, n3 + 6, payload)
    BY <1>1, <1>3 DEF Laid
<1>7. one \in Seq(Byte) /\ Len(one) = 1 /\ size \in Seq(Byte) /\ Len(size) = 2
    BY <1>4
<1>8. [one EXCEPT ![1] = byte] = <<byte>> /\ [size EXCEPT ![1] = byte] = <<byte, high>>
      /\ [size EXCEPT ![2] = byte] = <<low, byte>>
    OBVIOUS
<1> HIDE DEF one, size, a, b, c, d
<1>9. i \in 1 .. n3 + 6 + d /\ 0 \in Nat /\ 1 \in Nat /\ n3 + 2 \in Nat /\ n3 + 6 \in Nat
    BY <1>2 DEF u
<1>10. w \in Seq(Byte) /\ Len(w) = n3 + 6 + d /\ i \in 1 .. Len(u)
    BY <1>2, <1>4, <1>9
<1> DEFINE Same(k, s) == At(w, k, s)
           Other(k, s, j) == At(w, k, [s EXCEPT ![j] = byte])
<1>11. /\ i \notin 0 + 1 .. 0 + 1 => Same(0, one)
       /\ i \in 0 + 1 .. 0 + 1 => Other(0, one, i - 0)
    BY <1>4, <1>6, <1>7, <1>9, <1>10, AtFlip
<1>12. /\ i \notin 1 + 1 .. 1 + a => Same(1, id)
       /\ i \in 1 + 1 .. 1 + a => Other(1, id, i - 1)
    BY <1>4, <1>5, <1>6, <1>9, <1>10, AtFlip DEF a
<1>13. /\ i \notin n1 + 1 .. n1 + b => Same(n1, seq)
       /\ i \in n1 + 1 .. n1 + b => Other(n1, seq, i - n1)
    BY <1>2, <1>4, <1>5, <1>6, <1>10, AtFlip DEF b
<1>14. /\ i \notin n2 + 1 .. n2 + c => Same(n2, total)
       /\ i \in n2 + 1 .. n2 + c => Other(n2, total, i - n2)
    BY <1>2, <1>4, <1>5, <1>6, <1>10, AtFlip DEF c
<1>15. /\ i \notin n3 + 1 .. n3 + 2 => Same(n3, size)
       /\ i \in n3 + 1 .. n3 + 2 => Other(n3, size, i - n3)
    BY <1>2, <1>4, <1>6, <1>7, <1>10, AtFlip
<1>16. /\ i \notin (n3 + 2) + 1 .. (n3 + 2) + 4 => Same(n3 + 2, crc)
       /\ i \in (n3 + 2) + 1 .. (n3 + 2) + 4 => Other(n3 + 2, crc, i - (n3 + 2))
    BY <1>4, <1>6, <1>9, <1>10, AtFlip
<1>17. /\ i \notin (n3 + 6) + 1 .. (n3 + 6) + d => Same(n3 + 6, payload)
       /\ i \in (n3 + 6) + 1 .. (n3 + 6) + d => Other(n3 + 6, payload, i - (n3 + 6))
    BY <1>4, <1>6, <1>9, <1>10, AtFlip DEF d
<1> HIDE DEF w, Same, Other
<1>18. /\ i # 1 => Same(0, one)
       /\ i \notin 2 .. n1 => Same(1, id)
       /\ i \notin n1 + 1 .. n2 => Same(n1, seq)
       /\ i \notin n2 + 1 .. n3 => Same(n2, total)
       /\ i # n3 + 1 /\ i # n3 + 2 => Same(n3, size)
       /\ i \notin n3 + 3 .. n3 + 6 => Same(n3 + 2, crc)
       /\ i <= n3 + 6 => Same(n3 + 6, payload)
    BY <1>2, <1>3, <1>9, <1>11, <1>12, <1>13, <1>14, <1>15, <1>16, <1>17
<1>19. w \in Seq(Byte) /\ Len(w) = n3 + 6 + d
    BY <1>10
<1>20. /\ byte \in Byte /\ Len(id) = a /\ Len(seq) = b /\ Len(total) = c /\ Len(payload) = d
       /\ 1 + a = n1 /\ n1 + b = n2 /\ n2 + c = n3
    BY <1>3 DEF a, b, c, d
<1>21. ASSUME i = 1
       PROVE  Laid(w, byte, id, seq, total, low, high, crc, payload)
  <2>1. At(w, 0, <<byte>>)
    <3>1. 1 \in 0 + 1 .. 0 + 1 /\ 1 - 0 = 1
        OBVIOUS
    <3> QED BY <1>8, <1>11, <1>21, <3>1 DEF Other
  <2>2. i \notin 2 .. n1 /\ i \notin n1 + 1 .. n2 /\ i \notin n2 + 1 .. n3
        /\ i # n3 + 1 /\ i # n3 + 2 /\ i \notin n3 + 3 .. n3 + 6 /\ i <= n3 + 6
      BY <1>2, <1>21
  <2> QED BY <1>4, <1>18, <1>19, <1>20, <2>1, <2>2 DEF Laid, Same, size
<1>22. ASSUME i \in 2 .. n1, Marked(id2)
       PROVE  Laid(w, flags, id2, seq, total, low, high, crc, payload)
  <2>1. At(w, 1, id2) /\ Len(id2) = a
    <3>1. i \in 1 + 1 .. 1 + a
        BY <1>20, <1>22
    <3>2. Len(id2) = Len(id)
        BY <1>5
    <3> QED BY <1>12, <1>20, <3>1, <3>2 DEF Other
  <2>2. i # 1 /\ i \notin n1 + 1 .. n2 /\ i \notin n2 + 1 .. n3
        /\ i # n3 + 1 /\ i # n3 + 2 /\ i \notin n3 + 3 .. n3 + 6 /\ i <= n3 + 6
      BY <1>2, <1>22
  <2> HIDE DEF id2
  <2> QED BY <1>4, <1>18, <1>19, <1>20, <1>22, <2>1, <2>2 DEF Laid, Same, size, one
<1>23. ASSUME i \in n1 + 1 .. n2, Marked(seq2)
       PROVE  Laid(w, flags, id, seq2, total, low, high, crc, payload)
  <2>1. At(w, n1, seq2) /\ Len(seq2) = b
    <3>1. i \in n1 + 1 .. n1 + b
        BY <1>20, <1>23
    <3>2. Len(seq2) = Len(seq)
        BY <1>5
    <3> QED BY <1>13, <1>20, <3>1, <3>2 DEF Other
  <2>2. i # 1 /\ i \notin 2 .. n1 /\ i \notin n2 + 1 .. n3
        /\ i # n3 + 1 /\ i # n3 + 2 /\ i \notin n3 + 3 .. n3 + 6 /\ i <= n3 + 6
      BY <1>2, <1>23
  <2> HIDE DEF seq2
  <2> QED BY <1>4, <1>18, <1>19, <1>20, <1>23, <2>1, <2>2 DEF Laid, Same, size, one
<1>24. ASSUME i \in n2 + 1 .. n3, Marked(total2)
       PROVE  Laid(w, flags, id, seq, total2, low, high, crc, payload)
  <2>1. At(w, n2, total2) /\ Len(total2) = c
    <3>1. i \in n2 + 1 .. n2 + c
        BY <1>20, <1>24
    <3>2. Len(total2) = Len(total)
        BY <1>5
    <3> QED BY <1>14, <1>20, <3>1, <3>2 DEF Other
  <2>2. i # 1 /\ i \notin 2 .. n1 /\ i \notin n1 + 1 .. n2
        /\ i # n3 + 1 /\ i # n3 + 2 /\ i \notin n3 + 3 .. n3 + 6 /\ i <= n3 + 6
      BY <1>2, <1>24
  <2> HIDE DEF total2
  <2> QED BY <1>4, <1>18, <1>19, <1>20, <1>24, <2>1, <2>2 DEF Laid, Same, size, one
<1>25. ASSUME i = n3 + 1
       PROVE  Laid(w, flags, id, seq, total, byte, high, crc, payload)
  <2>1. At(w, n3, <<byte, high>>)
    <3>1. i \in n3 + 1 .. n3 + 2 /\ i - n3 = 1
        BY <1>2, <1>25
    <3> QED BY <1>8, <1>15, <3>1 DEF Other
  <2>2. i # 1 /\ i \notin 2 .. n1 /\ i \notin n1 + 1 .. n2 /\ i \notin n2 + 1 .. n3
        /\ i \notin n3 + 3 .. n3 + 6 /\ i <= n3 + 6
      BY <1>2, <1>25
  <2> QED BY <1>4, <1>18, <1>19, <1>20, <2>1, <2>2 DEF Laid, Same, one
<1>26. ASSUME i = n3 + 2
       PROVE  Laid(w, flags, id, seq, total, low, byte, crc, payload)
  <2>1. At(w, n3, <<low, byte>>)
    <3>1. i \in n3 + 1 .. n3 + 2 /\ i - n3 = 2
        BY <1>2, <1>26
    <3> QED BY <1>8, <1>15, <3>1 DEF Other
  <2>2. i # 1 /\ i \notin 2 .. n1 /\ i \notin n1 + 1 .. n2 /\ i \notin n2 + 1 .. n3
        /\ i \notin n3 + 3 .. n3 + 6 /\ i <= n3 + 6
      BY <1>2, <1>26
  <2> QED BY <1>4, <1>18, <1>19, <1>20, <2>1, <2>2 DEF Laid, Same, one
<1>27. ASSUME i \in n3 + 3 .. n3 + 6
       PROVE  Laid(w, flags, id, seq, total, low, high, crc2, payload)
  <2>1. At(w, n3 + 2, crc2)
    <3>1. i \in (n3 + 2) + 1 .. (n3 + 2) + 4
        BY <1>2, <1>27
    <3> QED BY <1>16, <3>1 DEF Other
  <2>2. i # 1 /\ i \notin 2 .. n1 /\ i \notin n1 + 1 .. n2 /\ i \notin n2 + 1 .. n3
        /\ i # n3 + 1 /\ i # n3 + 2 /\ i <= n3 + 6
      BY <1>2, <1>27
  <2>3. crc2 \in Seq(Byte) /\ Len(crc2) = 4
      <3>1. i - (n3 + 2) \in 1 .. 4
          BY <1>2, <1>27
      <3> QED BY <1>4, <3>1, Replaced
  <2> HIDE DEF crc2
  <2> QED BY <1>4, <1>18, <1>19, <1>20, <2>1, <2>2, <2>3 DEF Laid, Same, size, one
<1>28. ASSUME i > n3 + 6
       PROVE  Laid(w, flags, id, seq, total, low, high, crc, payload2)
  <2>1. At(w, n3 + 6, payload2)
    <3>1. i \in (n3 + 6) + 1 .. (n3 + 6) + d
        BY <1>2, <1>9, <1>28
    <3> QED BY <1>17, <3>1 DEF Other
  <2>2. i # 1 /\ i \notin 2 .. n1 /\ i \notin n1 + 1 .. n2 /\ i \notin n2 + 1 .. n3
        /\ i # n3 + 1 /\ i # n3 + 2 /\ i \notin n3 + 3 .. n3 + 6
      BY <1>2, <1>9, <1>28
  <2>3. payload2 \in Seq(Byte) /\ Len(payload2) = d
      <3>1. i - (n3 + 6) \in 1 .. d
          BY <1>2, <1>9, <1>28
      <3> QED BY <1>4, <1>20, <3>1, Replaced
  <2> HIDE DEF payload2
  <2> QED BY <1>4, <1>18, <1>19, <1>20, <2>1, <2>2, <2>3 DEF Laid, Same, size, one
<1> QED
  BY <1>21, <1>22, <1>23, <1>24, <1>25, <1>26, <1>27, <1>28
     DEF w, u, flags, id, seq, total, low, high, crc, payload, n1, n2, n3

(* Two packets of the same size that differ in one byte.                   *)
OneField(q, p) ==
    /\ Proper(p) /\ Proper(q) /\ q.payloadSize = p.payloadSize
    /\ \/ /\ q.flags # p.flags
          /\ q.packageId = p.packageId /\ q.sequenceNumber = p.sequenceNumber
          /\ q.totalPackets = p.totalPackets /\ q.payload = p.payload
       \/ /\ DifferOnce(q.packageId, p.packageId)
          /\ q.flags = p.flags /\ q.sequenceNumber = p.sequenceNumber
          /\ q.totalPackets = p.totalPackets /\ q.payload = p.payload
       \/ /\ DifferOnce(q.sequenceNumber, p.sequenceNumber)
          /\ q.flags = p.flags /\ q.packageId = p.packageId
          /\ q.totalPackets = p.totalPackets /\ q.payload = p.payload
       \/ /\ DifferOnce(q.totalPackets, p.totalPackets)
          /\ q.flags = p.flags /\ q.packageId = p.packageId
          /\ q.sequenceNumber = p.sequenceNumber /\ q.payload = p.payload
       \/ /\ DifferOnce(q.payload, p.payload)
          /\ q.flags = p.flags /\ q.packageId = p.packageId
          /\ q.sequenceNumber = p.sequenceNumber /\ q.totalPackets = p.totalPackets

(* Two packets that differ in one byte have different checksums.           *)
LEMMA OtherChecksum ==
    ASSUME NEW p, NEW q, OneField(q, p)
    PROVE  CrcBytes(q) # CrcBytes(p)
<1> DEFINE size == <<Low(p), High(p)>>
<1>1. CheckedData(p) = Covered(p.flags, p.packageId, p.sequenceNumber, p.totalPackets,
                               size, p.payload)
    BY DEF CheckedData, Covered, Low, High
<1>2. CheckedData(q) = Covered(q.flags, q.packageId, q.sequenceNumber, q.totalPackets,
                               size, q.payload)
    BY DEF CheckedData, Covered, Low, High, OneField
<1>3. Proper(p) /\ Proper(q)
    BY DEF OneField
<1>4. /\ p.flags \in Byte /\ p.packageId \in Seq(Byte) /\ p.sequenceNumber \in Seq(Byte)
      /\ p.totalPackets \in Seq(Byte) /\ p.payload \in Seq(Byte) /\ q.flags \in Byte
    BY <1>3 DEF Proper, Groups
<1>5. size \in Seq(Byte)
    BY <1>3, SizeOfProper
<1> HIDE DEF size
<1>6. DifferOnce(CheckedData(q), CheckedData(p))
  <2>1. CASE /\ q.flags # p.flags
            /\ q.packageId = p.packageId
            /\ q.sequenceNumber = p.sequenceNumber
            /\ q.totalPackets = p.totalPackets
            /\ q.payload = p.payload
    <3>1. DifferOnce(Covered(q.flags, p.packageId, p.sequenceNumber, p.totalPackets,
                             size, p.payload),
                     Covered(p.flags, p.packageId, p.sequenceNumber, p.totalPackets,
                             size, p.payload))
        BY <1>4, <1>5, <2>1, CoveredOnce
    <3> QED BY <1>1, <1>2, <2>1, <3>1
  <2>2. CASE /\ DifferOnce(q.packageId, p.packageId)
            /\ q.flags = p.flags
            /\ q.sequenceNumber = p.sequenceNumber
            /\ q.totalPackets = p.totalPackets
            /\ q.payload = p.payload
    <3>1. DifferOnce(Covered(p.flags, q.packageId, p.sequenceNumber, p.totalPackets,
                             size, p.payload),
                     Covered(p.flags, p.packageId, p.sequenceNumber, p.totalPackets,
                             size, p.payload))
        BY <1>4, <1>5, <2>2, CoveredOnce
    <3> QED BY <1>1, <1>2, <2>2, <3>1
  <2>3. CASE /\ DifferOnce(q.sequenceNumber, p.sequenceNumber)
            /\ q.flags = p.flags
            /\ q.packageId = p.packageId
            /\ q.totalPackets = p.totalPackets
            /\ q.payload = p.payload
    <3>1. DifferOnce(Covered(p.flags, p.packageId, q.sequenceNumber, p.totalPackets,
                             size, p.payload),
                     Covered(p.flags, p.packageId, p.sequenceNumber, p.totalPackets,
                             size, p.payload))
        BY <1>4, <1>5, <2>3, CoveredOnce
    <3> QED BY <1>1, <1>2, <2>3, <3>1
  <2>4. CASE /\ DifferOnce(q.totalPackets, p.totalPackets)
            /\ q.flags = p.flags
            /\ q.packageId = p.packageId
            /\ q.sequenceNumber = p.sequenceNumber
            /\ q.payload = p.payload
    <3>1. DifferOnce(Covered(p.flags, p.packageId, p.sequenceNumber, q.totalPackets,
                             size, p.payload),
                     Covered(p.flags, p.packageId, p.sequenceNumber, p.totalPackets,
                             size, p.payload))
        BY <1>4, <1>5, <2>4, CoveredOnce
    <3> QED BY <1>1, <1>2, <2>4, <3>1
  <2>5. CASE /\ DifferOnce(q.payload, p.payload)
            /\ q.flags = p.flags
            /\ q.packageId = p.packageId
            /\ q.sequenceNumber = p.sequenceNumber
            /\ q.totalPackets = p.totalPackets
    <3>1. DifferOnce(Covered(p.flags, p.packageId, p.sequenceNumber, p.totalPackets,
                             size, q.payload),
                     Covered(p.flags, p.packageId, p.sequenceNumber, p.totalPackets,
                             size, p.payload))
        BY <1>4, <1>5, <2>5, CoveredOnce
    <3> QED BY <1>1, <1>2, <2>5, <3>1
  <2> QED BY <2>1, <2>2, <2>3, <2>4, <2>5 DEF OneField
<1> QED BY <1>6, OneByteIsNoticed, CrcBytesTell DEF DifferOnce

(* The bytes of a packet with bit b of byte i turned over; the bits that   *)
(* are dropped when they are read, and those at the borders of a number.   *)
Flipped(p, i, b) == [ToBytes(p) EXCEPT ![i] = SymDiff(ToBytes(p)[i], {b})]

SpareIn(p, i, b) ==
    \/ i = 1 /\ b \in 4 .. 7
    \/ i = 11 /\ i = IdEndOf(p) /\ b \in 1 .. 6
    \/ i = IdEndOf(p) + 5 /\ i = SeqEndOf(p) /\ b \in 4 .. 6
    \/ i = SeqEndOf(p) + 5 /\ i = TotalEndOf(p) /\ b \in 4 .. 6

BorderIn(p, i, b) ==
    i \in 2 .. TotalEndOf(p) /\ (b = 7 \/ (7 \in ToBytes(p)[i - 1] /\ ToBytes(p)[i] = {b}))

(* What becomes of a packet with one bit turned over.                      *)
Noticed(p, i, b, wraps) ==
    /\ SpareIn(p, i, b) =>
           FromBytes(Flipped(p, i, b), wraps)
               = IF Len(p.payload) < 2^SizeBits THEN p ELSE Refused
    /\ ~SpareIn(p, i, b) /\ ~BorderIn(p, i, b) =>
           FromBytes(Flipped(p, i, b), wraps) = Refused

(* Bytes that are read as the packet they were made of.                    *)
LEMMA ReadAsSent ==
    ASSUME NEW p, Proper(p), NEW wraps \in BOOLEAN, NEW bytes,
           Reads(bytes, wraps, Low(p), High(p), CrcBytes(p), p)
    PROVE  FromBytes(bytes, wraps) = IF Len(p.payload) < 2^SizeBits THEN p ELSE Refused
<1>1. FromBytes(bytes, wraps) =
          IF Len(p.payload) # SizeIn(Low(p), High(p)) \/ CrcBytes(p) # CrcBytes(p)
          THEN Refused ELSE p
    BY Rebuilt
<1>2. Len(p.payload) = SizeIn(Low(p), High(p)) <=> Len(p.payload) < 2^SizeBits
    BY SizeOfProper, SizeFits
<1> QED BY <1>1, <1>2

(* Bytes that are read as another packet, with the checksum of the first.  *)
LEMMA ReadAsOther ==
    ASSUME NEW p, NEW q, OneField(q, p), NEW wraps \in BOOLEAN, NEW bytes,
           Reads(bytes, wraps, Low(p), High(p), CrcBytes(p), q)
    PROVE  FromBytes(bytes, wraps) = Refused
<1>1. FromBytes(bytes, wraps) =
          IF Len(q.payload) # SizeIn(Low(p), High(p)) \/ CrcBytes(p) # CrcBytes(q)
          THEN Refused ELSE q
    BY Rebuilt DEF OneField
<1> QED BY <1>1, OtherChecksum

(* A packet with one of its fields replaced is a packet.                   *)
LEMMA OtherPacket ==
    ASSUME NEW p, Proper(p)
    PROVE  /\ \A flags \in Byte : flags = Version \cup (flags \cap (0 .. 3)) =>
                  LET q == Built(flags, p.packageId, p.sequenceNumber, p.totalPackets, p.payload)
                  IN  Proper(q) /\ (flags # p.flags => OneField(q, p))
           /\ \A id : Groups(id, 64) /\ DifferOnce(id, p.packageId) =>
                  OneField(Built(p.flags, id, p.sequenceNumber, p.totalPackets, p.payload), p)
           /\ \A seq : Groups(seq, 32) /\ DifferOnce(seq, p.sequenceNumber) =>
                  OneField(Built(p.flags, p.packageId, seq, p.totalPackets, p.payload), p)
           /\ \A total : Groups(total, 32) /\ DifferOnce(total, p.totalPackets) =>
                  OneField(Built(p.flags, p.packageId, p.sequenceNumber, total, p.payload), p)
           /\ \A payload \in Seq(Byte) :
                  DifferOnce(payload, p.payload) /\ Len(payload) = Len(p.payload) =>
                  OneField(Built(p.flags, p.packageId, p.sequenceNumber, p.totalPackets, payload),
                           p)
<1>1. p.payloadSize = Bits(Len(p.payload)) \cap (0 .. SizeBits - 1)
    BY DEF Proper, Built
<1>2. /\ p.flags \in Byte /\ p.flags = Version \cup (p.flags \cap (0 .. 3))
      /\ Groups(p.packageId, 64) /\ Groups(p.sequenceNumber, 32) /\ Groups(p.totalPackets, 32)
      /\ p.payload \in Seq(Byte)
    BY DEF Proper
<1>3. ASSUME NEW flags \in Byte, flags = Version \cup (flags \cap (0 .. 3)),
             NEW id, Groups(id, 64), NEW seq, Groups(seq, 32), NEW total, Groups(total, 32),
             NEW payload \in Seq(Byte)
      PROVE  Proper(Built(flags, id, seq, total, payload))
    BY <1>3 DEF Proper, Built
<1>4. ASSUME NEW flags, NEW id, NEW seq, NEW total, NEW payload
      PROVE  LET q == Built(flags, id, seq, total, payload)
             IN  /\ q.flags = flags /\ q.packageId = id /\ q.sequenceNumber = seq
                 /\ q.totalPackets = total /\ q.payload = payload
                 /\ (Len(payload) = Len(p.payload) => q.payloadSize = p.payloadSize)
    BY <1>1 DEF Built
<1> QED BY <1>2, <1>3, <1>4 DEF OneField

-----------------------------------------------------------------------------
(* One bit of a packet turned over, field by field.                        *)

(* A bit of the byte with the version and the type turned over.            *)
LEMMA FlagsFlipped ==
    ASSUME NEW p, Proper(p), NEW b \in 0 .. 7, NEW wraps \in BOOLEAN
    PROVE  Noticed(p, 1, b, wraps)
<1> DEFINE byte == SymDiff(p.flags, {b})
           w == [ToBytes(p) EXCEPT ![1] = byte]
<1>1. /\ p.flags \in Byte /\ p.flags = Version \cup (p.flags \cap (0 .. 3))
      /\ Laid(ToBytes(p), p.flags, p.packageId, p.sequenceNumber, p.totalPackets,
              Low(p), High(p), CrcBytes(p), p.payload)
    BY WireIs DEF Proper
<1>2. ToBytes(p)[1] = p.flags /\ 1 \in 1 .. Len(ToBytes(p))
  <2>1. At(ToBytes(p), 0, <<p.flags>>) /\ ToBytes(p) \in Seq(Byte)
      BY <1>1 DEF Laid
  <2> QED BY <2>1 DEF At
<1>3. Turned(byte, p.flags, b)
    BY <1>1, TurnedIs
<1>4. Flipped(p, 1, b) = w
    BY <1>2 DEF Flipped
<1>5. IdEndOf(p) >= 2 /\ IdEndOf(p) < SeqEndOf(p) /\ SeqEndOf(p) < TotalEndOf(p)
      /\ IdEndOf(p) \in Nat /\ SeqEndOf(p) \in Nat /\ TotalEndOf(p) \in Nat
    BY EndsAre
<1>6. /\ SpareIn(p, 1, b) <=> b \in 4 .. 7
      /\ ~BorderIn(p, 1, b)
    BY <1>5 DEF SpareIn, BorderIn
<1> HIDE DEF byte
<1>7. byte \in Byte
    BY <1>3 DEF Turned
<1>8. Laid(w, byte, p.packageId, p.sequenceNumber, p.totalPackets,
           Low(p), High(p), CrcBytes(p), p.payload)
    BY <1>2, <1>7, FlipLaid
<1> HIDE DEF w
<1>9. ASSUME b \in 4 .. 7
      PROVE  FromBytes(w, wraps) = IF Len(p.payload) < 2^SizeBits THEN p ELSE Refused
  <2>1. byte \cap (0 .. 3) = p.flags \cap (0 .. 3)
      BY <1>3, <1>9 DEF Turned
  <2>2. ReadAs(w, wraps, Low(p), High(p), CrcBytes(p), p,
               byte, p.packageId, p.sequenceNumber, p.totalPackets)
      BY <1>8, <2>1, NumbersRead DEF ReadAs
  <2>3. Reads(w, wraps, Low(p), High(p), CrcBytes(p), p)
      BY <2>2, Zenon DEF Reads
  <2> QED BY <2>3, ReadAsSent
<1>10. ASSUME b \in 0 .. 3
       PROVE  FromBytes(w, wraps) = Refused
  <2> DEFINE q == Built(byte, p.packageId, p.sequenceNumber, p.totalPackets, p.payload)
  <2>1. byte = Version \cup (byte \cap (0 .. 3)) /\ byte # p.flags
      BY <1>1, <1>3, <1>10 DEF Turned, Version, Byte
  <2>2. OneField(q, p)
      BY <1>7, <2>1, OtherPacket
  <2>3. q.flags = byte /\ q.packageId = p.packageId /\ q.sequenceNumber = p.sequenceNumber
        /\ q.totalPackets = p.totalPackets /\ q.payload = p.payload
      BY DEF Built
  <2> HIDE DEF q
  <2>4. ReadAs(w, wraps, Low(p), High(p), CrcBytes(p), q,
               byte, p.packageId, p.sequenceNumber, p.totalPackets)
      BY <1>8, <2>3, NumbersRead DEF ReadAs
  <2>5. Reads(w, wraps, Low(p), High(p), CrcBytes(p), q)
      BY <2>4, Zenon DEF Reads
  <2> QED BY <2>2, <2>5, ReadAsOther
<1> QED BY <1>4, <1>6, <1>9, <1>10 DEF Noticed

(* A bit of the package's id turned over.                                  *)
LEMMA IdFlipped ==
    ASSUME NEW p, Proper(p), NEW i \in 2 .. IdEndOf(p), NEW b \in 0 .. 7, NEW wraps \in BOOLEAN
    PROVE  Noticed(p, i, b, wraps)
<1> DEFINE id == p.packageId
           j == i - 1
           byte == SymDiff(id[j], {b})
           other == [id EXCEPT ![j] = byte]
           w == [ToBytes(p) EXCEPT ![i] = byte]
           a == Len(id)
<1>1. /\ Groups(id, 64) /\ id \in Seq(Byte)
      /\ Laid(ToBytes(p), p.flags, p.packageId, p.sequenceNumber, p.totalPackets,
              Low(p), High(p), CrcBytes(p), p.payload)
    BY WireIs DEF Proper, Groups
<1>2. /\ a \in 1 .. 10 /\ IdEndOf(p) = 1 + a
      /\ IdEndOf(p) \in Nat /\ SeqEndOf(p) \in Nat /\ TotalEndOf(p) \in Nat
      /\ 2 <= IdEndOf(p) /\ IdEndOf(p) < SeqEndOf(p) /\ SeqEndOf(p) < TotalEndOf(p)
      /\ Len(ToBytes(p)) = TotalEndOf(p) + 6 + Len(p.payload) /\ Len(p.payload) \in Nat
    BY EndsAre DEF IdEndOf
<1>3. At(ToBytes(p), 1, id)
    BY <1>1 DEF Laid
<1> HIDE DEF id
<1>4. \A k \in 1 .. a : ToBytes(p)[1 + k] = id[k] /\ id[k] \in Byte
    BY <1>1, <1>3 DEF At
<1> HIDE DEF a
<1>5. j \in 1 .. a /\ 1 + j = i /\ i \in 1 .. Len(ToBytes(p)) /\ i \in 2 .. TotalEndOf(p)
      /\ (j >= 2 => j - 1 \in 1 .. a /\ 1 + (j - 1) = i - 1)
    BY <1>2
<1>6. ToBytes(p)[i] = id[j] /\ (j >= 2 => ToBytes(p)[i - 1] = id[j - 1])
    BY <1>4, <1>5
<1>7. Flipped(p, i, b) = w
    BY <1>6 DEF Flipped
<1>8. /\ b # 7 => (SpareIn(p, i, b) <=> b + 7 * (j - 1) >= 64)
      /\ b = 7 => ~SpareIn(p, i, b)
    BY <1>2, <1>5 DEF SpareIn
<1> HIDE DEF j
<1>9. b = 7 => BorderIn(p, i, b)
    BY <1>5 DEF BorderIn
<1>10. CASE b = 7
    BY <1>8, <1>9, <1>10 DEF Noticed
<1>11. ASSUME b # 7, j >= 2, id[j] = {b}
       PROVE  Noticed(p, i, b, wraps)
  <2>1. 7 \in id[j - 1]
    <3>1. \A k \in 1 .. a : 7 \in id[k] <=> k < a
        BY <1>1 DEF Groups, a
    <3> QED BY <1>2, <1>5, <1>11, <3>1
  <2>2. b + 7 * (j - 1) < 64
      BY <1>1, <1>5, <1>11 DEF Groups, a
  <2>3. BorderIn(p, i, b)
      BY <1>5, <1>6, <1>11, <2>1 DEF BorderIn
  <2>4. ~SpareIn(p, i, b)
      BY <1>2, <1>5, <1>8, <1>11, <2>2
  <2> QED BY <2>3, <2>4 DEF Noticed
<1>12. ASSUME b # 7, ~(j >= 2 /\ id[j] = {b})
       PROVE  Noticed(p, i, b, wraps)
  <2>1. Turned(byte, id[j], b)
      BY <1>4, <1>5, TurnedIs
  <2> HIDE DEF byte
  <2>2. byte \in Byte
      BY <2>1 DEF Turned
  <2>3. b \in 0 .. 6 /\ j \in 1 .. Len(id) /\ 64 \in 1 .. 64
      BY <1>5, <1>12 DEF a
  <2>4. /\ Marked(other) /\ DifferOnce(other, id)
        /\ b + 7 * (j - 1) < 64 => Groups(other, 64)
        /\ b + 7 * (j - 1) >= 64 =>
               EncodeVariableLength(DecodeVariableLength(other, wraps) \cap (0 .. 63)) = id
    <3>1. MayTurn(64, id, j, b, byte)
        BY <1>1, <1>12, <2>1, <2>3 DEF MayTurn
    <3>2. OtherGroups(64, id, j, b, other)
        BY <2>3, <3>1, FlipNumber
    <3> HIDE DEF other
    <3>3. 64 - 1 = 63
        OBVIOUS
    <3> QED BY <3>2, <3>3 DEF OtherGroups
  <2>5. Laid(w, p.flags, other, p.sequenceNumber, p.totalPackets,
             Low(p), High(p), CrcBytes(p), p.payload)
      BY <1>5, <2>2, <2>4, FlipLaid DEF id, j
  <2> HIDE DEF other, w
  <2>6. ASSUME b + 7 * (j - 1) >= 64
        PROVE  FromBytes(w, wraps) = IF Len(p.payload) < 2^SizeBits THEN p ELSE Refused
    <3>1. EncodeVariableLength(DecodeVariableLength(other, wraps)) = id
      <4>1. other \in Seq(Byte) /\ Len(other) <= 10
          BY <2>4 DEF Marked
      <4>2. DecodeVariableLength(other, wraps) \in Long
          BY <4>1, DecodeBits
      <4>3. DecodeVariableLength(other, wraps) \cap (0 .. 63) = DecodeVariableLength(other, wraps)
          BY <4>2 DEF Long
      <4> QED BY <2>4, <2>6, <4>3
    <3>2. ReadAs(w, wraps, Low(p), High(p), CrcBytes(p), p,
                 p.flags, other, p.sequenceNumber, p.totalPackets)
        BY <2>5, <3>1, NumbersRead DEF ReadAs, id
    <3>3. Reads(w, wraps, Low(p), High(p), CrcBytes(p), p)
        BY <3>2, Zenon DEF Reads
    <3> QED BY <3>3, ReadAsSent
  <2>7. ASSUME b + 7 * (j - 1) < 64
        PROVE  FromBytes(w, wraps) = Refused
    <3> DEFINE q == Built(p.flags, other, p.sequenceNumber, p.totalPackets, p.payload)
    <3>1. OneField(q, p)
        BY <2>4, <2>7, OtherPacket DEF id
    <3>2. q.flags = p.flags /\ q.packageId = other /\ q.sequenceNumber = p.sequenceNumber
          /\ q.totalPackets = p.totalPackets /\ q.payload = p.payload
        BY DEF Built
    <3> HIDE DEF q
    <3>3. Proper(q)
        BY <3>1 DEF OneField
    <3>4. ReadAs(w, wraps, Low(p), High(p), CrcBytes(p), q,
                 p.flags, other, p.sequenceNumber, p.totalPackets)
        BY <2>5, <3>2, <3>3, NumbersRead DEF ReadAs
    <3>5. Reads(w, wraps, Low(p), High(p), CrcBytes(p), q)
        BY <3>4, Zenon DEF Reads
    <3> QED BY <3>1, <3>5, ReadAsOther
  <2>8. b + 7 * (j - 1) >= 64 \/ b + 7 * (j - 1) < 64
      BY <1>2, <1>5
  <2> QED BY <1>7, <1>8, <1>12, <2>6, <2>7, <2>8 DEF Noticed
<1> QED BY <1>10, <1>11, <1>12

(* A bit of the sequence number turned over.                               *)
LEMMA SequenceFlipped ==
    ASSUME NEW p, Proper(p), NEW i \in IdEndOf(p) + 1 .. SeqEndOf(p), NEW b \in 0 .. 7,
           NEW wraps \in BOOLEAN
    PROVE  Noticed(p, i, b, wraps)
<1> DEFINE n == IdEndOf(p)
           seq == p.sequenceNumber
           j == i - n
           byte == SymDiff(seq[j], {b})
           other == [seq EXCEPT ![j] = byte]
           w == [ToBytes(p) EXCEPT ![i] = byte]
           a == Len(seq)
<1>1. /\ Groups(seq, 32) /\ seq \in Seq(Byte)
      /\ Laid(ToBytes(p), p.flags, p.packageId, p.sequenceNumber, p.totalPackets,
              Low(p), High(p), CrcBytes(p), p.payload)
    BY WireIs DEF Proper, Groups
<1>2. /\ a \in 1 .. 5 /\ SeqEndOf(p) = n + a
      /\ IdEndOf(p) \in Nat /\ SeqEndOf(p) \in Nat /\ TotalEndOf(p) \in Nat
      /\ 2 <= IdEndOf(p) /\ IdEndOf(p) < SeqEndOf(p) /\ SeqEndOf(p) < TotalEndOf(p)
      /\ Len(ToBytes(p)) = TotalEndOf(p) + 6 + Len(p.payload) /\ Len(p.payload) \in Nat
    BY EndsAre DEF SeqEndOf
<1>3. At(ToBytes(p), n, seq)
    BY <1>1 DEF Laid, IdEndOf
<1> HIDE DEF seq
<1>4. \A k \in 1 .. a : ToBytes(p)[n + k] = seq[k] /\ seq[k] \in Byte
    BY <1>1, <1>3 DEF At
<1> HIDE DEF a
<1>5. j \in 1 .. a /\ n + j = i /\ i \in 1 .. Len(ToBytes(p)) /\ i \in 2 .. TotalEndOf(p)
      /\ (j >= 2 => j - 1 \in 1 .. a /\ n + (j - 1) = i - 1)
  <2> DEFINE last == TotalEndOf(p)
             length == Len(ToBytes(p))
  <2>1. n \in Nat /\ 2 <= n /\ n + a <= last
        /\ i \in Nat /\ n + 1 <= i /\ i <= n + a /\ last <= length
        /\ last \in Nat /\ length \in Nat
      BY <1>2
  <2> HIDE DEF n, last, length
  <2>2. i \in 1 .. length /\ i \in 2 .. last
      BY <1>2, <2>1
  <2>3. i - n \in 1 .. a /\ n + (i - n) = i
        /\ (i - n >= 2 => (i - n) - 1 \in 1 .. a /\ n + ((i - n) - 1) = i - 1)
      BY <1>2, <2>1
  <2> QED BY <2>2, <2>3 DEF last, length
<1>6. ToBytes(p)[i] = seq[j] /\ (j >= 2 => ToBytes(p)[i - 1] = seq[j - 1])
    BY <1>4, <1>5
<1>7. Flipped(p, i, b) = w
    BY <1>6 DEF Flipped
<1>8. /\ b # 7 => (SpareIn(p, i, b) <=> b + 7 * (j - 1) >= 32)
      /\ b = 7 => ~SpareIn(p, i, b)
  <2>1. SpareIn(p, i, b) <=> i = n + 5 /\ i = SeqEndOf(p) /\ b \in 4 .. 6
    <3>1. i # 1 /\ i # IdEndOf(p) /\ i # TotalEndOf(p)
      <4> DEFINE n1 == IdEndOf(p)
                 n2 == SeqEndOf(p)
                 n3 == TotalEndOf(p)
      <4>1. /\ n1 \in Nat /\ n2 \in Nat /\ n3 \in Nat /\ 2 <= n1 /\ n1 < n2 /\ n2 < n3
            /\ i \in IdEndOf(p) + 1 .. SeqEndOf(p)
          BY <1>2
      <4> HIDE DEF n1, n2, n3
      <4>2. i \in n1 + 1 .. n2
          BY <4>1 DEF n1, n2, n3
      <4>3. i # 1 /\ i # n1 /\ i # n3
          BY <4>1, <4>2
      <4> QED BY <4>3 DEF n1, n2, n3
    <3> QED BY <3>1 DEF SpareIn
  <2>2. n \in Nat /\ i = n + j /\ j \in 1 .. a /\ SeqEndOf(p) = n + a /\ a \in 1 .. 5
      BY <1>2, <1>5
  <2> HIDE DEF j, n
  <2>3. i = n + 5 /\ i = SeqEndOf(p) <=> j = 5
      BY <2>2
  <2>4. b \in 0 .. 6 => (j = 5 /\ b \in 4 .. 6 <=> b + 7 * (j - 1) >= 32)
      BY <2>2
  <2> QED BY <2>1, <2>3, <2>4
<1> HIDE DEF j
<1>9. b = 7 => BorderIn(p, i, b)
    BY <1>5 DEF BorderIn
<1>10. CASE b = 7
    BY <1>8, <1>9, <1>10 DEF Noticed
<1>11. ASSUME b # 7, j >= 2, seq[j] = {b}
       PROVE  Noticed(p, i, b, wraps)
  <2>1. 7 \in seq[j - 1]
    <3>1. \A k \in 1 .. a : 7 \in seq[k] <=> k < a
        BY <1>1 DEF Groups, a
    <3> QED BY <1>2, <1>5, <1>11, <3>1
  <2>2. b + 7 * (j - 1) < 32
      BY <1>1, <1>5, <1>11 DEF Groups, a
  <2>3. BorderIn(p, i, b)
      BY <1>5, <1>6, <1>11, <2>1 DEF BorderIn
  <2>4. ~SpareIn(p, i, b)
      BY <1>2, <1>5, <1>8, <1>11, <2>2
  <2> QED BY <2>3, <2>4 DEF Noticed
<1>12. ASSUME b # 7, ~(j >= 2 /\ seq[j] = {b})
       PROVE  Noticed(p, i, b, wraps)
  <2>1. Turned(byte, seq[j], b)
      BY <1>4, <1>5, TurnedIs
  <2> HIDE DEF byte
  <2>2. byte \in Byte
      BY <2>1 DEF Turned
  <2>3. b \in 0 .. 6 /\ j \in 1 .. Len(seq) /\ 32 \in 1 .. 64
      BY <1>5, <1>12 DEF a
  <2>4. /\ Marked(other) /\ DifferOnce(other, seq)
        /\ b + 7 * (j - 1) < 32 => Groups(other, 32)
        /\ b + 7 * (j - 1) >= 32 =>
               EncodeVariableLength(DecodeVariableLength(other, wraps) \cap (0 .. 31)) = seq
    <3>1. MayTurn(32, seq, j, b, byte)
        BY <1>1, <1>12, <2>1, <2>3 DEF MayTurn
    <3>2. OtherGroups(32, seq, j, b, other)
        BY <2>3, <3>1, FlipNumber
    <3> HIDE DEF other
    <3>3. 32 - 1 = 31
        OBVIOUS
    <3> QED BY <3>2, <3>3 DEF OtherGroups
  <2>5. Laid(w, p.flags, p.packageId, other, p.totalPackets,
             Low(p), High(p), CrcBytes(p), p.payload)
      BY <1>5, <2>2, <2>4, FlipLaid DEF seq, j
  <2> HIDE DEF other, w
  <2>6. ASSUME b + 7 * (j - 1) >= 32
        PROVE  FromBytes(w, wraps) = IF Len(p.payload) < 2^SizeBits THEN p ELSE Refused
    <3>1. ReadAs(w, wraps, Low(p), High(p), CrcBytes(p), p,
                 p.flags, p.packageId, other, p.totalPackets)
        BY <2>4, <2>5, <2>6, NumbersRead DEF ReadAs, seq
    <3>2. Reads(w, wraps, Low(p), High(p), CrcBytes(p), p)
        BY <3>1, Zenon DEF Reads
    <3> QED BY <3>2, ReadAsSent
  <2>7. ASSUME b + 7 * (j - 1) < 32
        PROVE  FromBytes(w, wraps) = Refused
    <3> DEFINE q == Built(p.flags, p.packageId, other, p.totalPackets, p.payload)
    <3>1. OneField(q, p)
        BY <2>4, <2>7, OtherPacket DEF seq
    <3>2. q.flags = p.flags /\ q.packageId = p.packageId /\ q.sequenceNumber = other
          /\ q.totalPackets = p.totalPackets
          /\ q.payload = p.payload
        BY DEF Built
    <3> HIDE DEF q
    <3>3. Proper(q)
        BY <3>1 DEF OneField
    <3>4. ReadAs(w, wraps, Low(p), High(p), CrcBytes(p), q,
                 p.flags, p.packageId, other, p.totalPackets)
        BY <2>5, <3>2, <3>3, NumbersRead DEF ReadAs
    <3>5. Reads(w, wraps, Low(p), High(p), CrcBytes(p), q)
        BY <3>4, Zenon DEF Reads
    <3> QED BY <3>1, <3>5, ReadAsOther
  <2>8. b + 7 * (j - 1) >= 32 \/ b + 7 * (j - 1) < 32
      BY <1>2, <1>5
  <2> QED BY <1>7, <1>8, <1>12, <2>6, <2>7, <2>8 DEF Noticed
<1> QED BY <1>10, <1>11, <1>12

(* A bit of the number of packets turned over.                             *)
LEMMA TotalFlipped ==
    ASSUME NEW p, Proper(p), NEW i \in SeqEndOf(p) + 1 .. TotalEndOf(p), NEW b \in 0 .. 7,
           NEW wraps \in BOOLEAN
    PROVE  Noticed(p, i, b, wraps)
<1> DEFINE n == SeqEndOf(p)
           total == p.totalPackets
           j == i - n
           byte == SymDiff(total[j], {b})
           other == [total EXCEPT ![j] = byte]
           w == [ToBytes(p) EXCEPT ![i] = byte]
           a == Len(total)
<1>1. /\ Groups(total, 32) /\ total \in Seq(Byte)
      /\ Laid(ToBytes(p), p.flags, p.packageId, p.sequenceNumber, p.totalPackets,
              Low(p), High(p), CrcBytes(p), p.payload)
    BY WireIs DEF Proper, Groups
<1>2. /\ a \in 1 .. 5 /\ TotalEndOf(p) = n + a
      /\ IdEndOf(p) \in Nat /\ SeqEndOf(p) \in Nat /\ TotalEndOf(p) \in Nat
      /\ 2 <= IdEndOf(p) /\ IdEndOf(p) < SeqEndOf(p) /\ SeqEndOf(p) < TotalEndOf(p)
      /\ Len(ToBytes(p)) = TotalEndOf(p) + 6 + Len(p.payload) /\ Len(p.payload) \in Nat
    BY EndsAre DEF TotalEndOf
<1>3. At(ToBytes(p), n, total)
    BY <1>1 DEF Laid, IdEndOf, SeqEndOf
<1> HIDE DEF total
<1>4. \A k \in 1 .. a : ToBytes(p)[n + k] = total[k] /\ total[k] \in Byte
    BY <1>1, <1>3 DEF At
<1> HIDE DEF a
<1>5. j \in 1 .. a /\ n + j = i /\ i \in 1 .. Len(ToBytes(p)) /\ i \in 2 .. TotalEndOf(p)
      /\ (j >= 2 => j - 1 \in 1 .. a /\ n + (j - 1) = i - 1)
  <2> DEFINE last == TotalEndOf(p)
             length == Len(ToBytes(p))
  <2>1. n \in Nat /\ 2 <= n /\ n + a <= last
        /\ i \in Nat /\ n + 1 <= i /\ i <= n + a /\ last <= length
        /\ last \in Nat /\ length \in Nat
      BY <1>2
  <2> HIDE DEF n, last, length
  <2>2. i \in 1 .. length /\ i \in 2 .. last
      BY <1>2, <2>1
  <2>3. i - n \in 1 .. a /\ n + (i - n) = i
        /\ (i - n >= 2 => (i - n) - 1 \in 1 .. a /\ n + ((i - n) - 1) = i - 1)
      BY <1>2, <2>1
  <2> QED BY <2>2, <2>3 DEF last, length
<1>6. ToBytes(p)[i] = total[j] /\ (j >= 2 => ToBytes(p)[i - 1] = total[j - 1])
    BY <1>4, <1>5
<1>7. Flipped(p, i, b) = w
    BY <1>6 DEF Flipped
<1>8. /\ b # 7 => (SpareIn(p, i, b) <=> b + 7 * (j - 1) >= 32)
      /\ b = 7 => ~SpareIn(p, i, b)
  <2>1. SpareIn(p, i, b) <=> i = n + 5 /\ i = TotalEndOf(p) /\ b \in 4 .. 6
    <3>1. i # 1 /\ i # IdEndOf(p) /\ i # SeqEndOf(p)
      <4> DEFINE n1 == IdEndOf(p)
                 n2 == SeqEndOf(p)
                 n3 == TotalEndOf(p)
      <4>1. /\ n1 \in Nat /\ n2 \in Nat /\ n3 \in Nat /\ 2 <= n1 /\ n1 < n2 /\ n2 < n3
            /\ i \in SeqEndOf(p) + 1 .. TotalEndOf(p)
          BY <1>2
      <4> HIDE DEF n1, n2, n3
      <4>2. i \in n2 + 1 .. n3
          BY <4>1 DEF n1, n2, n3
      <4>3. i # 1 /\ i # n1 /\ i # n2
          BY <4>1, <4>2
      <4> QED BY <4>3 DEF n1, n2, n3
    <3> QED BY <3>1 DEF SpareIn
  <2>2. n \in Nat /\ i = n + j /\ j \in 1 .. a /\ TotalEndOf(p) = n + a /\ a \in 1 .. 5
      BY <1>2, <1>5
  <2> HIDE DEF j, n
  <2>3. i = n + 5 /\ i = TotalEndOf(p) <=> j = 5
      BY <2>2
  <2>4. b \in 0 .. 6 => (j = 5 /\ b \in 4 .. 6 <=> b + 7 * (j - 1) >= 32)
      BY <2>2
  <2> QED BY <2>1, <2>3, <2>4
<1> HIDE DEF j
<1>9. b = 7 => BorderIn(p, i, b)
    BY <1>5 DEF BorderIn
<1>10. CASE b = 7
    BY <1>8, <1>9, <1>10 DEF Noticed
<1>11. ASSUME b # 7, j >= 2, total[j] = {b}
       PROVE  Noticed(p, i, b, wraps)
  <2>1. 7 \in total[j - 1]
    <3>1. \A k \in 1 .. a : 7 \in total[k] <=> k < a
        BY <1>1 DEF Groups, a
    <3> QED BY <1>2, <1>5, <1>11, <3>1
  <2>2. b + 7 * (j - 1) < 32
      BY <1>1, <1>5, <1>11 DEF Groups, a
  <2>3. BorderIn(p, i, b)
      BY <1>5, <1>6, <1>11, <2>1 DEF BorderIn
  <2>4. ~SpareIn(p, i, b)
      BY <1>2, <1>5, <1>8, <1>11, <2>2
  <2> QED BY <2>3, <2>4 DEF Noticed
<1>12. ASSUME b # 7, ~(j >= 2 /\ total[j] = {b})
       PROVE  Noticed(p, i, b, wraps)
  <2>1. Turned(byte, total[j], b)
      BY <1>4, <1>5, TurnedIs
  <2> HIDE DEF byte
  <2>2. byte \in Byte
      BY <2>1 DEF Turned
  <2>3. b \in 0 .. 6 /\ j \in 1 .. Len(total) /\ 32 \in 1 .. 64
      BY <1>5, <1>12 DEF a
  <2>4. /\ Marked(other) /\ DifferOnce(other, total)
        /\ b + 7 * (j - 1) < 32 => Groups(other, 32)
        /\ b + 7 * (j - 1) >= 32 =>
               EncodeVariableLength(DecodeVariableLength(other, wraps) \cap (0 .. 31)) = total
    <3>1. MayTurn(32, total, j, b, byte)
        BY <1>1, <1>12, <2>1, <2>3 DEF MayTurn
    <3>2. OtherGroups(32, total, j, b, other)
        BY <2>3, <3>1, FlipNumber
    <3> HIDE DEF other
    <3>3. 32 - 1 = 31
        OBVIOUS
    <3> QED BY <3>2, <3>3 DEF OtherGroups
  <2>5. Laid(w, p.flags, p.packageId, p.sequenceNumber, other,
             Low(p), High(p), CrcBytes(p), p.payload)
      BY <1>5, <2>2, <2>4, FlipLaid DEF total, j
  <2> HIDE DEF other, w
  <2>6. ASSUME b + 7 * (j - 1) >= 32
        PROVE  FromBytes(w, wraps) = IF Len(p.payload) < 2^SizeBits THEN p ELSE Refused
    <3>1. ReadAs(w, wraps, Low(p), High(p), CrcBytes(p), p,
                 p.flags, p.packageId, p.sequenceNumber, other)
        BY <2>4, <2>5, <2>6, NumbersRead DEF ReadAs, total
    <3>2. Reads(w, wraps, Low(p), High(p), CrcBytes(p), p)
        BY <3>1, Zenon DEF Reads
    <3> QED BY <3>2, ReadAsSent
  <2>7. ASSUME b + 7 * (j - 1) < 32
        PROVE  FromBytes(w, wraps) = Refused
    <3> DEFINE q == Built(p.flags, p.packageId, p.sequenceNumber, other, p.payload)
    <3>1. OneField(q, p)
        BY <2>4, <2>7, OtherPacket DEF total
    <3>2. q.flags = p.flags /\ q.packageId = p.packageId
          /\ q.sequenceNumber = p.sequenceNumber /\ q.totalPackets = other
          /\ q.payload = p.payload
        BY DEF Built
    <3> HIDE DEF q
    <3>3. Proper(q)
        BY <3>1 DEF OneField
    <3>4. ReadAs(w, wraps, Low(p), High(p), CrcBytes(p), q,
                 p.flags, p.packageId, p.sequenceNumber, other)
        BY <2>5, <3>2, <3>3, NumbersRead DEF ReadAs
    <3>5. Reads(w, wraps, Low(p), High(p), CrcBytes(p), q)
        BY <3>4, Zenon DEF Reads
    <3> QED BY <3>1, <3>5, ReadAsOther
  <2>8. b + 7 * (j - 1) >= 32 \/ b + 7 * (j - 1) < 32
      BY <1>2, <1>5
  <2> QED BY <1>7, <1>8, <1>12, <2>6, <2>7, <2>8 DEF Noticed
<1> QED BY <1>10, <1>11, <1>12

(* Beyond the numbers no bit is dropped.                                   *)
LEMMA BeyondNumbers ==
    ASSUME NEW p, Proper(p), NEW i \in 1 .. Len(ToBytes(p)), i > TotalEndOf(p), NEW b,
           NEW wraps, FromBytes(Flipped(p, i, b), wraps) = Refused
    PROVE  Noticed(p, i, b, wraps)
<1>1. ~SpareIn(p, i, b)
    BY EndsAre DEF SpareIn
<1> QED BY <1>1 DEF Noticed

(* A bit of the size turned over.                                          *)
LEMMA SizeFlipped ==
    ASSUME NEW p, Proper(p), NEW i \in {TotalEndOf(p) + 1, TotalEndOf(p) + 2}, NEW b \in 0 .. 7,
           i = TotalEndOf(p) + 2 => b < SizeBits - 8, NEW wraps \in BOOLEAN
    PROVE  Noticed(p, i, b, wraps)
<1> DEFINE n == TotalEndOf(p)
           low == Low(p)
           high == High(p)
           old == ToBytes(p)[i]
           byte == SymDiff(old, {b})
           w == [ToBytes(p) EXCEPT ![i] = byte]
           length == Len(ToBytes(p))
<1>1. Laid(ToBytes(p), p.flags, p.packageId, p.sequenceNumber, p.totalPackets,
           low, high, CrcBytes(p), p.payload)
    BY WireIs
<1>2. low \in Byte /\ high \in Byte /\ \A e \in high : e < SizeBits - 8
    BY SizeOfProper
<1>3. n \in Nat /\ length \in Nat /\ n + 6 <= length
    BY EndsAre
<1>16. At(ToBytes(p), n, <<low, high>>)
    BY <1>1 DEF Laid, TotalEndOf, SeqEndOf, IdEndOf
<1> HIDE DEF n, length
<1>4. i \in {n + 1, n + 2} /\ (i = n + 2 => b < SizeBits - 8)
    BY DEF n
<1>5. i \in 1 .. length /\ i > n /\ (i = n + 2 => i # n + 1)
    BY <1>3, <1>4
<1> HIDE DEF low, high
<1>6. old = IF i = n + 1 THEN low ELSE high
  <2>1. ToBytes(p)[n + 1] = low /\ ToBytes(p)[n + 2] = high
      BY <1>16 DEF At
  <2> QED BY <1>4, <1>5, <2>1
<1> HIDE DEF old
<1>7. Turned(byte, old, b)
    BY <1>2, <1>6, TurnedIs
<1> HIDE DEF byte
<1>8. byte \in Byte /\ byte # old
    BY <1>7 DEF Turned
<1> DEFINE low2 == IF i = n + 1 THEN byte ELSE low
           high2 == IF i = n + 1 THEN high ELSE byte
<1>9. Laid(w, p.flags, p.packageId, p.sequenceNumber, p.totalPackets,
           low2, high2, CrcBytes(p), p.payload)
  <2>1. CASE i = n + 1
      BY <1>5, <1>8, <2>1, FlipLaid DEF n, low, high, length
  <2>2. CASE i = n + 2
    <3>1. i # n + 1
        BY <1>5, <2>2
    <3> QED BY <1>5, <1>8, <2>2, <3>1, FlipLaid DEF n, low, high, length
  <2> QED BY <1>4, <2>1, <2>2
<1> HIDE DEF w
<1>10. /\ low2 \in Byte /\ high2 \in Byte /\ ~(low2 = low /\ high2 = high)
       /\ \A e \in high2 : e < SizeBits - 8
  <2>1. CASE i = n + 1
      BY <1>2, <1>6, <1>8, <2>1
  <2>2. CASE i = n + 2
    <3>1. i # n + 1
        BY <1>5, <2>2
    <3>2. \A e \in byte : e \in high \/ e = b
        BY <1>6, <1>7, <3>1 DEF Turned
    <3> QED BY <1>2, <1>4, <1>6, <1>8, <2>2, <3>1, <3>2
  <2> QED BY <1>4, <2>1, <2>2
<1> HIDE DEF low2, high2
<1>11. Len(p.payload) # SizeIn(low2, high2)
  <2> SUFFICES ASSUME Len(p.payload) = SizeIn(low2, high2)
               PROVE  FALSE
      OBVIOUS
  <2>1. Len(p.payload) < 2^SizeBits
      BY <1>10, SizeFits
  <2>2. SizeIn(low, high) = SizeIn(low2, high2)
      BY <2>1, SizeOfProper DEF low, high
  <2> QED BY <1>2, <1>10, <2>2, SizeTells
<1>12. ReadAs(w, wraps, low2, high2, CrcBytes(p), p,
              p.flags, p.packageId, p.sequenceNumber, p.totalPackets)
    BY <1>9, NumbersRead DEF ReadAs
<1>13. Reads(w, wraps, low2, high2, CrcBytes(p), p)
    BY <1>12, Zenon DEF Reads
<1>14. FromBytes(w, wraps) = Refused
    BY <1>11, <1>13, Rebuilt
<1>15. Flipped(p, i, b) = w
    BY DEF Flipped, w, byte, old
<1> QED BY <1>5, <1>14, <1>15, BeyondNumbers DEF n, length

(* A bit of the checksum turned over.                                      *)
LEMMA ChecksumFlipped ==
    ASSUME NEW p, Proper(p), NEW i \in TotalEndOf(p) + 3 .. TotalEndOf(p) + 6, NEW b \in 0 .. 7,
           NEW wraps \in BOOLEAN
    PROVE  Noticed(p, i, b, wraps)
<1> DEFINE n == TotalEndOf(p)
           crc == CrcBytes(p)
           j == i - (n + 2)
           old == ToBytes(p)[i]
           byte == SymDiff(old, {b})
           other == [crc EXCEPT ![j] = byte]
           w == [ToBytes(p) EXCEPT ![i] = byte]
           length == Len(ToBytes(p))
<1>1. Laid(ToBytes(p), p.flags, p.packageId, p.sequenceNumber, p.totalPackets,
           Low(p), High(p), crc, p.payload)
    BY WireIs
<1>2. crc \in Seq(Byte) /\ Len(crc) = 4
    BY CrcBytesAre
<1>3. n \in Nat /\ length \in Nat /\ n + 6 <= length
    BY EndsAre
<1>15. At(ToBytes(p), n + 2, crc)
    BY <1>1 DEF Laid, TotalEndOf, SeqEndOf, IdEndOf
<1> HIDE DEF n, crc, length
<1>4. i \in n + 3 .. n + 6
    BY DEF n
<1>5. i \in 1 .. length /\ i > n /\ j \in 1 .. 4 /\ n + 2 + j = i
    BY <1>3, <1>4
<1>6. old = crc[j]
  <2>1. \A k \in 1 .. 4 : ToBytes(p)[n + 2 + k] = crc[k]
      BY <1>2, <1>15 DEF At
  <2> QED BY <1>5, <2>1
<1> HIDE DEF old, j
<1>7. Turned(byte, old, b)
  <2>1. \A k \in 1 .. 4 : crc[k] \in Byte
    <3>1. \A k \in 1 .. Len(crc) : crc[k] \in Byte
        BY <1>2, ElementOfSeq
    <3> QED BY <1>2, <3>1
  <2>2. old \in Byte
      BY <1>5, <1>6, <2>1
  <2> QED BY <2>2, TurnedIs
<1> HIDE DEF byte
<1>8. byte \in Byte /\ byte # old
    BY <1>7 DEF Turned
<1>9. Laid(w, p.flags, p.packageId, p.sequenceNumber, p.totalPackets,
           Low(p), High(p), other, p.payload)
    BY <1>5, <1>8, FlipLaid DEF n, crc, j, length
<1> HIDE DEF w
<1>10. other # crc
    BY <1>2, <1>5, <1>6, <1>8
<1> HIDE DEF other
<1>11. ReadAs(w, wraps, Low(p), High(p), other, p,
              p.flags, p.packageId, p.sequenceNumber, p.totalPackets)
    BY <1>9, NumbersRead DEF ReadAs
<1>12. Reads(w, wraps, Low(p), High(p), other, p)
    BY <1>11, Zenon DEF Reads
<1>13. FromBytes(w, wraps) = Refused
    BY <1>10, <1>12, Rebuilt DEF crc
<1>14. Flipped(p, i, b) = w
    BY DEF Flipped, w, byte, old
<1> QED BY <1>5, <1>13, <1>14, BeyondNumbers DEF n, length

(* A bit of the payload turned over.                                       *)
LEMMA PayloadFlipped ==
    ASSUME NEW p, Proper(p), NEW i \in 1 .. Len(ToBytes(p)), i > TotalEndOf(p) + 6,
           NEW b \in 0 .. 7, NEW wraps \in BOOLEAN
    PROVE  Noticed(p, i, b, wraps)
<1> DEFINE n == TotalEndOf(p)
           payload == p.payload
           j == i - (n + 6)
           old == ToBytes(p)[i]
           byte == SymDiff(old, {b})
           other == [payload EXCEPT ![j] = byte]
           w == [ToBytes(p) EXCEPT ![i] = byte]
           l == Len(payload)
<1>1. /\ Laid(ToBytes(p), p.flags, p.packageId, p.sequenceNumber, p.totalPackets,
              Low(p), High(p), CrcBytes(p), payload)
      /\ payload \in Seq(Byte)
    BY WireIs DEF Proper
<1>2. n \in Nat /\ n = 1 + Len(p.packageId) + Len(p.sequenceNumber) + Len(p.totalPackets)
      /\ Len(ToBytes(p)) = n + 6 + l /\ l \in Nat
    BY EndsAre DEF TotalEndOf, SeqEndOf, IdEndOf
<1> HIDE DEF n, payload
<1>3. i \in 1 .. n + 6 + l /\ i > n + 6
    BY <1>2 DEF n
<1>4. At(ToBytes(p), n + 6, payload)
    BY <1>1, <1>2 DEF Laid, payload
<1>5. \A k \in 1 .. l : ToBytes(p)[n + 6 + k] = payload[k] /\ payload[k] \in Byte
    BY <1>1, <1>4 DEF At
<1> HIDE DEF l
<1>6. i > n /\ j \in 1 .. l /\ n + 6 + j = i
  <2>1. n \in Nat /\ l \in Nat
      BY <1>2
  <2> QED BY <1>3, <2>1
<1>7. old = payload[j] /\ old \in Byte
    BY <1>5, <1>6
<1> HIDE DEF old, j
<1>8. Turned(byte, old, b)
    BY <1>7, TurnedIs
<1> HIDE DEF byte
<1>9. byte \in Byte /\ byte # old
    BY <1>8 DEF Turned
<1>10. Laid(w, p.flags, p.packageId, p.sequenceNumber, p.totalPackets,
            Low(p), High(p), CrcBytes(p), other)
    BY <1>3, <1>9, FlipLaid DEF n, payload, j
<1> HIDE DEF w
<1>11. other \in Seq(Byte) /\ Len(other) = Len(payload)
    BY <1>1, <1>6, <1>9, Replaced DEF l
<1>12. DifferOnce(other, payload)
  <2>1. other[j] # payload[j] /\ \A k \in 1 .. l : k # j => other[k] = payload[k]
      BY <1>1, <1>6, <1>7, <1>9 DEF l
  <2>2. DifferAt(other, payload, j)
      BY <1>1, <1>6, <1>11, <2>1 DEF DifferAt, l
  <2> QED BY <2>2 DEF DifferOnce
<1> HIDE DEF other
<1> DEFINE q == Built(p.flags, p.packageId, p.sequenceNumber, p.totalPackets, other)
<1>13. OneField(q, p)
    BY <1>11, <1>12, OtherPacket DEF payload
<1>14. q.flags = p.flags /\ q.packageId = p.packageId /\ q.sequenceNumber = p.sequenceNumber
       /\ q.totalPackets = p.totalPackets /\ q.payload = other
    BY DEF Built
<1> HIDE DEF q
<1>15. ReadAs(w, wraps, Low(p), High(p), CrcBytes(p), q,
              p.flags, p.packageId, p.sequenceNumber, p.totalPackets)
    BY <1>10, <1>14, NumbersRead DEF ReadAs
<1>16. Reads(w, wraps, Low(p), High(p), CrcBytes(p), q)
    BY <1>15, Zenon DEF Reads
<1>17. FromBytes(w, wraps) = Refused
    BY <1>13, <1>16, ReadAsOther
<1>18. Flipped(p, i, b) = w
    BY DEF Flipped, w, byte, old
<1> QED BY <1>6, <1>17, <1>18, BeyondNumbers DEF n

(* One bit turned over anywhere but at the border of a number.             *)
LEMMA FlipIsNoticed ==
    ASSUME NEW p, Proper(p), NEW i \in 1 .. Len(ToBytes(p)), NEW b \in 0 .. 7,
           i = TotalEndOf(p) + 2 => b < SizeBits - 8, NEW wraps \in BOOLEAN
    PROVE  Noticed(p, i, b, wraps)
<1> DEFINE n1 == IdEndOf(p)
           n2 == SeqEndOf(p)
           n3 == TotalEndOf(p)
<1>1. n1 \in Nat /\ n2 \in Nat /\ n3 \in Nat /\ 2 <= n1 /\ n1 < n2 /\ n2 < n3
    BY EndsAre
<1>2. i \in Nat /\ 1 <= i
    OBVIOUS
<1> HIDE DEF n1, n2, n3
<1>3. \/ i = 1 \/ i \in 2 .. n1 \/ i \in n1 + 1 .. n2 \/ i \in n2 + 1 .. n3
      \/ i \in {n3 + 1, n3 + 2} \/ i \in n3 + 3 .. n3 + 6 \/ i > n3 + 6
    BY <1>1, <1>2
<1>4. CASE i = 1
    BY <1>4, FlagsFlipped
<1>5. CASE i \in 2 .. n1
    BY <1>5, IdFlipped DEF n1
<1>6. CASE i \in n1 + 1 .. n2
    BY <1>6, SequenceFlipped DEF n1, n2
<1>7. CASE i \in n2 + 1 .. n3
    BY <1>7, TotalFlipped DEF n2, n3
<1>8. CASE i \in {n3 + 1, n3 + 2}
    BY <1>8, SizeFlipped DEF n3
<1>9. CASE i \in n3 + 3 .. n3 + 6
    BY <1>9, ChecksumFlipped DEF n3
<1>10. CASE i > n3 + 6
    BY <1>10, PayloadFlipped DEF n3
<1> QED BY <1>3, <1>4, <1>5, <1>6, <1>7, <1>8, <1>9, <1>10

-----------------------------------------------------------------------------
(* A packet cut off, and any bytes.                                        *)

(* A number that is laid out in full before the cut still ends where it    *)
(* did; one that is cut ends with the bytes.                               *)
LEMMA CutNumber ==
    ASSUME NEW bytes \in Seq(Byte), NEW k \in Nat, NEW s, Marked(s), At(bytes, k, s),
           NEW n \in 0 .. Len(bytes)
    PROVE  /\ k + Len(s) <= n => EndOfNumber(SubSeq(bytes, 1, n), k + 1) = k + Len(s)
           /\ n < k + Len(s) => EndOfNumber(SubSeq(bytes, 1, n), k + 1) = n
<1> DEFINE x == SubSeq(bytes, 1, n)
           a == Len(s)
<1>1. s \in Seq(Byte) /\ a \in 1 .. 10 /\ \A j \in 1 .. a : 7 \in s[j] <=> j < a
    BY DEF Marked
<1>2. /\ x \in Seq(Byte) /\ Len(x) = n /\ \A j \in 1 .. n : x[j] = bytes[j]
      /\ k + a <= n => At(x, k, s)
    BY <1>1, AtCut
<1> HIDE DEF x
<1>3. ASSUME k + a <= n PROVE EndOfNumber(x, k + 1) = k + a
    BY <1>2, <1>3, EndIs
<1>4. ASSUME n < k + a PROVE EndOfNumber(x, k + 1) = n
  <2>1. \A j \in 1 .. a : bytes[k + j] = s[j]
      BY DEF At
  <2> HIDE DEF a
  <2>2. ASSUME NEW i \in k + 1 .. n PROVE 7 \in x[i]
    <3>1. i - k \in 1 .. a /\ k + (i - k) = i /\ i - k < a /\ i \in 1 .. n
        BY <1>1, <1>4
    <3>2. bytes[i] = s[i - k] /\ 7 \in s[i - k]
        BY <1>1, <2>1, <3>1
    <3> QED BY <1>2, <3>1, <3>2
  <2> QED BY <1>2, <2>2, EndWithBytes
<1> QED BY <1>3, <1>4 DEF x, a

(* After the end of the bytes there is nothing to read.                    *)
LEMMA NothingLeft ==
    ASSUME NEW x \in Seq(Byte), NEW n, Len(x) = n
    PROVE  EndOfNumber(x, n + 1) = n
<1>1. n \in Nat
    OBVIOUS
<1>2. n + 1 .. n = {}
    BY <1>1
<1> QED BY <1>1, <1>2, EndWithBytes

(* A packet whose last bytes are lost is refused, if its size is right.    *)
LEMMA CutIsNoticed ==
    ASSUME NEW p, Proper(p), Len(p.payload) < 2^SizeBits, NEW n \in 0 .. Len(ToBytes(p)) - 1,
           NEW wraps \in BOOLEAN
    PROVE  FromBytes(SubSeq(ToBytes(p), 1, n), wraps) = Refused
<1> DEFINE w == ToBytes(p)
           x == SubSeq(w, 1, n)
           n1 == IdEndOf(p)
           n2 == SeqEndOf(p)
           n3 == TotalEndOf(p)
           length == Len(w)
           l == Len(p.payload)
           low == Low(p)
           high == High(p)
           idEnd == EndOfNumber(x, 2)
           seqEnd == EndOfNumber(x, idEnd + 1)
           totalEnd == EndOfNumber(x, seqEnd + 1)
           size == Number(x[totalEnd + 1]) + 256 * Number(x[totalEnd + 2])
<1>1. /\ w \in Seq(Byte) /\ low \in Byte /\ high \in Byte
      /\ Marked(p.packageId) /\ Marked(p.sequenceNumber) /\ Marked(p.totalPackets)
      /\ At(w, 1, p.packageId) /\ At(w, n1, p.sequenceNumber) /\ At(w, n2, p.totalPackets)
      /\ At(w, n3, <<low, high>>)
    BY WireIs DEF Laid, IdEndOf, SeqEndOf, TotalEndOf
<1>2. /\ n1 \in Nat /\ n2 \in Nat /\ n3 \in Nat /\ l \in Nat
      /\ 2 <= n1 /\ n1 < n2 /\ n2 < n3 /\ length = n3 + 6 + l
    BY EndsAre
<1>3. /\ 1 + Len(p.packageId) = n1 /\ n1 + Len(p.sequenceNumber) = n2
      /\ n2 + Len(p.totalPackets) = n3
    BY DEF IdEndOf, SeqEndOf, TotalEndOf
<1>4. SizeIn(low, high) = l
    BY SizeOfProper
<1> HIDE DEF n1, n2, n3, l, low, high, length
<1>5. n \in 0 .. length - 1
    BY DEF length
<1>6. n \in Nat /\ n < length /\ n \in 0 .. length
    BY <1>2, <1>5
<1>7. /\ x \in Seq(Byte) /\ Len(x) = n /\ \A j \in 1 .. n : x[j] = w[j]
    BY <1>1, <1>6, AtCut DEF length
<1>8. /\ n1 <= n => EndOfNumber(x, 2) = n1
      /\ n < n1 => EndOfNumber(x, 2) = n
  <2>1. 1 \in Nat /\ 1 + 1 = 2
      OBVIOUS
  <2>2. /\ 1 + Len(p.packageId) <= n => EndOfNumber(x, 1 + 1) = 1 + Len(p.packageId)
        /\ n < 1 + Len(p.packageId) => EndOfNumber(x, 1 + 1) = n
      BY <1>1, <1>6, CutNumber DEF length
  <2> QED BY <1>3, <2>1, <2>2
<1>9. /\ n2 <= n => EndOfNumber(x, n1 + 1) = n2
      /\ n < n2 => EndOfNumber(x, n1 + 1) = n
    BY <1>1, <1>2, <1>3, <1>6, CutNumber DEF length
<1>10. /\ n3 <= n => EndOfNumber(x, n2 + 1) = n3
       /\ n < n3 => EndOfNumber(x, n2 + 1) = n
    BY <1>1, <1>2, <1>3, <1>6, CutNumber DEF length
<1>11. EndOfNumber(x, n + 1) = n
    BY <1>7, NothingLeft
<1>12. FromBytes(x, wraps) = Refused \/ (~(n - totalEnd < 6) /\ n = totalEnd + 6 + size)
  <2>1. FromBytes(x, wraps) # Refused =>
            ~(Len(x) - totalEnd < 6) /\ Len(x) = totalEnd + 6 + size
      BY DEF FromBytes
  <2> QED BY <1>7, <2>1
<1> HIDE DEF x
<1>13. totalEnd = IF n3 <= n THEN n3 ELSE n
  <2>1. CASE n < n1
      BY <1>2, <1>6, <1>8, <1>11, <2>1
  <2>2. CASE n1 <= n /\ n < n2
      BY <1>2, <1>6, <1>8, <1>9, <1>11, <2>2
  <2>3. CASE n2 <= n
      BY <1>2, <1>6, <1>8, <1>9, <1>10, <2>3
  <2> QED BY <1>2, <1>6, <2>1, <2>2, <2>3
<1> HIDE DEF idEnd, seqEnd, totalEnd
<1>14. CASE n < n3 + 6
  <2>1. n - totalEnd < 6
      BY <1>2, <1>6, <1>13, <1>14
  <2> QED BY <1>12, <2>1 DEF x, w
<1>15. CASE n >= n3 + 6
  <2>1. totalEnd = n3 /\ n3 + 1 \in 1 .. n /\ n3 + 2 \in 1 .. n
      BY <1>2, <1>6, <1>13, <1>15
  <2>2. w[n3 + 1] = low /\ w[n3 + 2] = high
      BY <1>1 DEF At
  <2>3. size = l
      BY <1>4, <1>7, <2>1, <2>2 DEF SizeIn
  <2> HIDE DEF size
  <2>4. n # totalEnd + 6 + size
      BY <1>2, <1>6, <2>1, <2>3
  <2> QED BY <1>12, <2>4 DEF x, w
<1> QED BY <1>2, <1>6, <1>14, <1>15

(* What is read of any bytes is a packet, or refused.                      *)
LEMMA ProperIsPacket ==
    ASSUME NEW p, Proper(p)
    PROVE  IsPacket(p)
<1>1. p.payloadSize = Bits(Len(p.payload)) \cap (0 .. SizeBits - 1)
    BY DEF Proper, Built
<1> QED BY <1>1 DEF Proper, Groups, IsPacket

(* What is read of any bytes, damaged or not, is a packet or refused.      *)
LEMMA ReadType ==
    ASSUME NEW bytes \in Seq(Byte), NEW wraps \in BOOLEAN
    PROVE  FromBytes(bytes, wraps) = Refused \/ IsPacket(FromBytes(bytes, wraps))
<1> DEFINE idEnd == EndOfNumber(bytes, 2)
           seqEnd == EndOfNumber(bytes, idEnd + 1)
           totalEnd == EndOfNumber(bytes, seqEnd + 1)
           value(first, last) == DecodeVariableLength(SubSeq(bytes, first, last), wraps)
           payload == SubSeq(bytes, totalEnd + 7, Len(bytes))
           message == [type           |-> bytes[1] \cap (0 .. 3),
                       packageId      |-> value(2, idEnd),
                       sequenceNumber |-> value(idEnd + 1, seqEnd) \cap (0 .. 31),
                       totalPackets   |-> value(seqEnd + 1, totalEnd) \cap (0 .. 31),
                       payload        |-> payload]
<1>1. FromBytes(bytes, wraps) \in {Refused, NewPacket(message)}
    BY DEF FromBytes
<1>2. totalEnd \in Nat
  <2>1. idEnd \in Nat
      BY EndType
  <2>2. seqEnd \in Nat
      BY <2>1, EndType
  <2> HIDE DEF idEnd, seqEnd
  <2> QED BY <2>2, EndType
<1> HIDE DEF idEnd, seqEnd, totalEnd
<1>3. payload \in Seq(Byte)
  <2> DEFINE n == Len(bytes)
             first == totalEnd + 7
  <2>1. n \in Int /\ first \in Int /\ \A i \in first .. n : i \in 1 .. n
      BY <1>2
  <2>2. \A i \in first .. n : bytes[i] \in Byte
      BY <2>1, ElementOfSeq
  <2> HIDE DEF n, first
  <2>3. SubSeq(bytes, first, n) \in Seq(Byte)
      BY <2>1, <2>2, SubSeqProperties
  <2> QED BY <2>3 DEF n, first
<1> HIDE DEF payload
<1>4. \A first, last : value(first, last) \subseteq 0 .. 63
    BY DEF DecodeVariableLength
<1> HIDE DEF value
<1>5. IsMessage(message)
    BY <1>3, <1>4 DEF IsMessage, Byte
<1> HIDE DEF message
<1>6. IsPacket(NewPacket(message))
    BY <1>5, NewPacketIs, ProperIsPacket
<1> QED BY <1>1, <1>6

-----------------------------------------------------------------------------
(* The invariants.                                                         *)

(* What is on the wire is the packet's bytes, whole, cut, or with one bit  *)
(* turned over; what was received is what they are read as.                *)
Arrived ==
    \/ damage = "none" /\ wire = ToBytes(packet)
    \/ /\ damage = "cut"
       /\ \E n \in 0 .. Len(ToBytes(packet)) - 1 : wire = SubSeq(ToBytes(packet), 1, n)
    \/ \E i \in 1 .. Len(ToBytes(packet)), b \in 0 .. 7 :
           /\ i = TotalEndOf(packet) + 2 => b < SizeBits - 8
           /\ wire = Flipped(packet, i, b)
           /\ damage = IF SpareIn(packet, i, b) THEN "spare"
                       ELSE IF BorderIn(packet, i, b) THEN "border" ELSE "bit"

(* Before the packet is sent.                                              *)
NotSent == packet = Nothing /\ wire = <<>> /\ damage = "none" /\ received = Nothing

(* The inductive invariant: the packet is one that the constructor makes,  *)
(* and what was received is read from what arrived.                        *)
Inv ==
    \/ NotSent
    \/ /\ Proper(packet)
       /\ Arrived
       /\ received = Nothing \/ \E wraps \in BOOLEAN : received = FromBytes(wire, wraps)

(* A packet is not the absence of one.                                     *)
LEMMA ProperIsSomething ==
    ASSUME NEW p, Proper(p)
    PROVE  p # Nothing
<1>1. "flags" \in DOMAIN p
    BY DEF Proper, Built
<1>2. DOMAIN Nothing = {"none"}
    BY DEF Nothing
<1> QED BY <1>1, <1>2

(* The invariant holds at first.                                           *)
LEMMA InitInv == Init => Inv
BY DEF Init, Inv, NotSent

(* Before it was damaged or read the packet is on the wire as it was sent. *)
LEMMA OnItsWay ==
    ASSUME Inv, InTransit
    PROVE  Proper(packet) /\ wire = ToBytes(packet)
<1>1. Proper(packet) /\ Arrived /\ damage = "none"
    BY DEF Inv, NotSent, InTransit
<1> QED BY <1>1 DEF Arrived

(* Sending keeps it: what is built of a message is a packet.               *)
LEMMA SendInv ==
    ASSUME Inv, NEW m \in Messages, Send(m)
    PROVE  Inv'
<1>1. damage = "none" /\ received = Nothing
    BY ProperIsSomething DEF Inv, NotSent, Send
<1>2. Proper(packet')
    BY NewPacketIs, MessagesAssumption DEF Send
<1>3. wire' = ToBytes(packet') /\ damage' = "none" /\ received' = Nothing
    BY <1>1 DEF Send
<1> QED BY <1>2, <1>3 DEF Inv, Arrived

(* A bit turned over keeps it.                                             *)
LEMMA FlipInv ==
    ASSUME Inv, NEW i \in DOMAIN wire, NEW b \in 0 .. 7, FlipBit(i, b)
    PROVE  Inv'
<1>1. InTransit /\ packet' = packet /\ received' = Nothing
    BY DEF FlipBit, InTransit
<1>2. Proper(packet) /\ wire = ToBytes(packet)
    BY <1>1, OnItsWay
<1>3. i \in 1 .. Len(ToBytes(packet))
  <2>1. ToBytes(packet) \in Seq(Byte)
      BY <1>2, WireIs DEF Laid
  <2> QED BY <1>2, <2>1
<1>4. Spare(i, b) <=> SpareIn(packet, i, b)
    BY DEF Spare, SpareIn, IdEnd, SeqEnd, TotalEnd, IdEndOf, SeqEndOf, TotalEndOf
<1>5. Border(i, b) <=> BorderIn(packet, i, b)
    BY <1>2 DEF Border, BorderIn, IdEnd, SeqEnd, TotalEnd, IdEndOf, SeqEndOf, TotalEndOf
<1>6. i = TotalEndOf(packet) + 2 => b < SizeBits - 8
    BY DEF FlipBit, IdEnd, SeqEnd, TotalEnd, IdEndOf, SeqEndOf, TotalEndOf
<1>7. wire' = Flipped(packet, i, b)
    BY <1>2 DEF FlipBit, Flipped
<1>8. damage' = IF SpareIn(packet, i, b) THEN "spare"
                ELSE IF BorderIn(packet, i, b) THEN "border" ELSE "bit"
    BY <1>4, <1>5 DEF FlipBit
<1>9. Arrived'
    BY <1>1, <1>3, <1>6, <1>7, <1>8 DEF Arrived
<1> QED BY <1>1, <1>2, <1>9 DEF Inv

(* Losing the last bytes keeps it.                                         *)
LEMMA TruncateInv ==
    ASSUME Inv, NEW n \in 0 .. Len(wire) - 1, Truncate(n)
    PROVE  Inv'
<1>1. InTransit /\ packet' = packet /\ received' = Nothing /\ damage' = "cut"
    BY DEF Truncate, InTransit
<1>2. Proper(packet) /\ wire = ToBytes(packet)
    BY <1>1, OnItsWay
<1>3. Arrived'
    BY <1>1, <1>2 DEF Arrived, Truncate
<1> QED BY <1>1, <1>2, <1>3 DEF Inv

(* Reading keeps it.                                                       *)
LEMMA ReadInv ==
    ASSUME Inv, Read
    PROVE  Inv'
<1>1. Proper(packet) /\ Arrived /\ packet # Nothing
    BY DEF Inv, NotSent, Read
<1>2. packet' = packet /\ wire' = wire /\ damage' = damage
    BY DEF Read
<1>3. Arrived'
    BY <1>1, <1>2 DEF Arrived
<1>4. \E wraps \in BOOLEAN : received' = FromBytes(wire', wraps)
    BY <1>2 DEF Read
<1> QED BY <1>1, <1>2, <1>3, <1>4 DEF Inv

(* Every step keeps it.                                                    *)
LEMMA NextInv ==
    ASSUME Inv, [Next]_vars
    PROVE  Inv'
<1>1. CASE \E m \in Messages : Send(m)
    BY <1>1, SendInv
<1>2. CASE \E i \in DOMAIN wire, b \in 0 .. 7 : FlipBit(i, b)
    BY <1>2, FlipInv
<1>3. CASE \E n \in 0 .. Len(wire) - 1 : Truncate(n)
    BY <1>3, TruncateInv
<1>4. CASE Read
    BY <1>4, ReadInv
<1>5. CASE UNCHANGED vars
    BY <1>5 DEF Inv, NotSent, Arrived, vars
<1> QED BY <1>1, <1>2, <1>3, <1>4, <1>5 DEF Next

(* The packet on its way and what is read of it are as Arrived says, for   *)
(* every message that may be sent.                                         *)
THEOREM Invariance == Spec => []Inv
<1>1. Inv /\ [Next]_vars => Inv'
    BY NextInv
<1> QED BY <1>1, InitInv, PTL DEF Spec

(* The invariant gives every variable its type.                            *)
LEMMA InvType == Inv => TypeOK
<1> SUFFICES ASSUME Inv PROVE TypeOK
    OBVIOUS
<1>1. CASE NotSent
  <2>1. <<>> \in Seq(Byte)
      OBVIOUS
  <2> QED BY <1>1, <2>1 DEF NotSent, TypeOK
<1>2. CASE ~NotSent
  <2>1. /\ Proper(packet) /\ Arrived
        /\ received = Nothing \/ \E wraps \in BOOLEAN : received = FromBytes(wire, wraps)
      BY <1>2 DEF Inv
  <2>2. ToBytes(packet) \in Seq(Byte)
      BY <2>1, WireIs DEF Laid
  <2>3. wire \in Seq(Byte) /\ damage \in {"none", "spare", "border", "bit", "cut"}
    <3>1. CASE damage = "none" /\ wire = ToBytes(packet)
        BY <2>2, <3>1
    <3>2. ASSUME damage = "cut", NEW n \in 0 .. Len(ToBytes(packet)) - 1,
                 wire = SubSeq(ToBytes(packet), 1, n)
          PROVE  wire \in Seq(Byte) /\ damage = "cut"
      <4> DEFINE length == Len(ToBytes(packet))
      <4>1. length \in Nat /\ n \in 0 .. length - 1
          BY <2>2
      <4> HIDE DEF length
      <4>2. 1 \in Int /\ n \in Int /\ \A i \in 1 .. n : i \in 1 .. length
          BY <4>1
      <4>3. \A i \in 1 .. n : ToBytes(packet)[i] \in Byte
          BY <2>2, <4>2, ElementOfSeq DEF length
      <4>4. SubSeq(ToBytes(packet), 1, n) \in Seq(Byte)
          BY <4>2, <4>3, SubSeqProperties
      <4> QED BY <3>2, <4>4
    <3>3. ASSUME NEW i \in 1 .. Len(ToBytes(packet)), NEW b \in 0 .. 7,
                 wire = Flipped(packet, i, b)
          PROVE  wire \in Seq(Byte)
      <4> DEFINE byte == SymDiff(ToBytes(packet)[i], {b})
      <4>1. ToBytes(packet)[i] \in Byte
          BY <2>2, ElementOfSeq
      <4>2. byte \in Byte
          BY <4>1, TurnedIs DEF Turned
      <4>3. wire = [ToBytes(packet) EXCEPT ![i] = byte]
          BY <3>3 DEF Flipped
      <4> HIDE DEF byte
      <4> QED BY <2>2, <4>2, <4>3, Replaced
    <3> QED BY <2>1, <3>1, <3>2, <3>3 DEF Arrived
  <2>4. received \in {Nothing, Refused} \/ IsPacket(received)
      BY <2>1, <2>3, ReadType
  <2>5. IsPacket(packet)
      BY <2>1, ProperIsPacket
  <2> QED BY <2>3, <2>4, <2>5 DEF TypeOK
<1> QED BY <1>1, <1>2

(* The invariant says what is read of a packet that arrived as it was      *)
(* sent.                                                                   *)
LEMMA InvReadBack == Inv => ReadBack
<1> SUFFICES ASSUME Inv, damage = "none", received # Nothing
             PROVE  received = IF Fits THEN packet ELSE Refused
    BY DEF ReadBack
<1>1. /\ Proper(packet) /\ Arrived
      /\ \E wraps \in BOOLEAN : received = FromBytes(wire, wraps)
    BY DEF Inv, NotSent
<1>2. wire = ToBytes(packet)
    BY <1>1 DEF Arrived
<1> QED BY <1>1, <1>2, SentIsRead DEF Fits

(* The invariant says what is read of a damaged packet.                    *)
LEMMA InvDamage == Inv => DamageIsNoticed
<1> SUFFICES ASSUME Inv, damage \in {"spare", "bit"} \/ (damage = "cut" /\ Fits),
                    received # Nothing
             PROVE  received = IF damage = "spare" /\ Fits THEN packet ELSE Refused
    BY DEF DamageIsNoticed
<1>1. Proper(packet) /\ Arrived
    BY DEF Inv, NotSent
<1>2. PICK wraps \in BOOLEAN : received = FromBytes(wire, wraps)
    BY DEF Inv, NotSent
<1>3. ASSUME damage = "cut", Fits, NEW n \in 0 .. Len(ToBytes(packet)) - 1,
             wire = SubSeq(ToBytes(packet), 1, n)
      PROVE  received = Refused
    BY <1>1, <1>2, <1>3, CutIsNoticed DEF Fits
<1>4. ASSUME NEW i \in 1 .. Len(ToBytes(packet)), NEW b \in 0 .. 7,
             i = TotalEndOf(packet) + 2 => b < SizeBits - 8, wire = Flipped(packet, i, b)
      PROVE  /\ SpareIn(packet, i, b) => received = IF Fits THEN packet ELSE Refused
             /\ ~SpareIn(packet, i, b) /\ ~BorderIn(packet, i, b) => received = Refused
  <2>1. Noticed(packet, i, b, wraps)
      BY <1>1, <1>4, FlipIsNoticed
  <2> QED BY <1>2, <1>4, <2>1 DEF Noticed, Fits
<1> QED BY <1>1, <1>3, <1>4 DEF Arrived

(* Every variable has its type: whatever bytes arrive, what fromBytes      *)
(* makes of them is a packet or a refusal.                                 *)
THEOREM TypeCorrect == Spec => []TypeOK
BY Invariance, InvType, PTL

(* A packet that arrives as it was sent is read back as it was built, for  *)
(* every message; one whose payload does not fit its size is refused.      *)
THEOREM SentIsReadBack == Spec => []ReadBack
BY Invariance, InvReadBack, PTL

(* One bit turned over anywhere but at the border of a number, or any      *)
(* number of bytes cut off, is noticed, for every message.                 *)
THEOREM DamageNoticed == Spec => []DamageIsNoticed
BY Invariance, InvDamage, PTL
=============================================================================
