------------------------ MODULE VectorTransfer_proofs -----------------------
(***************************************************************************)
(* What quantising and dequantising do to every number and every vector,   *)
(* what cutting into chunks, sorting and joining do to the bytes of every  *)
(* package, and the invariants of Transfer, for any packages and any size  *)
(* of the chunks.                                                          *)
(***************************************************************************)
EXTENDS VectorTransfer, FiniteSetTheorems, SequenceTheorems, TLAPS

-----------------------------------------------------------------------------
(* Induction over numbers, and what is computed step by step.              *)

(* A set of numbers that is not empty has a least element.                 *)
LEMMA LeastNumber ==
    ASSUME NEW T, T \subseteq Nat, T # {}
    PROVE  \E x \in T : \A y \in T : x <= y
<1> DEFINE R == OpToRel(<, Nat)
<1>1. IsWellFoundedOn(R, Nat)
    BY NatLessThanWellFounded
<1>2. \A x, y \in Nat : y < x => <<y, x>> \in R
    BY DEF OpToRel
<1> HIDE DEF R
<1>3. PICK x \in T : \A y \in T : <<y, x>> \notin R
    BY <1>1, WFMin
<1>4. ASSUME NEW y \in T PROVE x <= y
  <2>1. x \in Nat /\ y \in Nat /\ <<y, x>> \notin R
      BY <1>3
  <2>2. ~(y < x)
      BY <1>2, <2>1
  <2> QED BY <2>1, <2>2
<1> QED BY <1>4

(* Induction over the numbers up to N.                                     *)
LEMMA Induction ==
    ASSUME NEW N \in Nat, NEW S, 0 \in S, \A n \in 1 .. N : n - 1 \in S => n \in S
    PROVE  \A n \in 0 .. N : n \in S
<1> SUFFICES ASSUME (0 .. N) \ S # {} PROVE FALSE
    OBVIOUS
<1>1. (0 .. N) \ S \subseteq Nat
    OBVIOUS
<1>2. PICK n \in (0 .. N) \ S : \A y \in (0 .. N) \ S : n <= y
    BY <1>1, LeastNumber
<1>3. n \in 1 .. N /\ n - 1 \in 0 .. N /\ n - 1 \in S
    BY <1>2
<1> QED BY <1>2, <1>3

(* What f computes step by step from a first value.                        *)
Computes(f, N, V, a, step) ==
    f \in [0 .. N -> V] /\ f[0] = a /\ \A k \in 1 .. N : f[k] = step[<<k, f[k - 1]>>]

(* What is computed step by step from a first value has a value.           *)
LEMMA Recursion ==
    ASSUME NEW N \in Nat, NEW V, NEW a \in V, NEW step \in [(1 .. N) \X V -> V]
    PROVE  \E f : Computes(f, N, V, a, step)
<1> DEFINE Goes(n, f) == f[0] = a /\ \A k \in 1 .. n : f[k] = step[<<k, f[k - 1]>>]
           S == {n \in 0 .. N : \E f \in [0 .. n -> V] : Goes(n, f)}
<1>1. 0 \in S
  <2> DEFINE f == [i \in 0 .. 0 |-> a]
  <2>1. f \in [0 .. 0 -> V] /\ Goes(0, f)
      OBVIOUS
  <2> HIDE DEF f, Goes
  <2> QED BY <2>1
<1>2. ASSUME NEW n \in 1 .. N, n - 1 \in S PROVE n \in S
  <2>1. PICK f \in [0 .. n - 1 -> V] : Goes(n - 1, f)
      BY <1>2
  <2> DEFINE last == step[<<n, f[n - 1]>>]
             g == [i \in 0 .. n |-> IF i = n THEN last ELSE f[i]]
  <2>2. last \in V
    <3>1. f[n - 1] \in V
        BY <2>1
    <3> QED BY <3>1
  <2>3. g \in [0 .. n -> V] /\ g[n] = last /\ \A i \in 0 .. n - 1 : g[i] = f[i]
      BY <2>1, <2>2
  <2> HIDE DEF g
  <2>4. g[0] = a
      BY <2>1, <2>3
  <2>5. ASSUME NEW k \in 1 .. n PROVE g[k] = step[<<k, g[k - 1]>>]
    <3>1. g[k - 1] = f[k - 1]
        BY <2>3
    <3>2. CASE k = n
        BY <2>3, <3>1, <3>2
    <3>3. CASE k # n
      <4>1. k \in 1 .. n - 1 /\ g[k] = f[k]
          BY <2>3, <3>3
      <4> QED BY <2>1, <3>1, <4>1
    <3> QED BY <3>2, <3>3
  <2>6. Goes(n, g)
      BY <2>4, <2>5
  <2> HIDE DEF Goes
  <2> QED BY <2>3, <2>6
<1>3. \A n \in 0 .. N : n \in S
  <2> HIDE DEF S
  <2> QED BY <1>1, <1>2, Induction
<1>4. PICK f \in [0 .. N -> V] : Goes(N, f)
    BY <1>3
<1> QED BY <1>4 DEF Computes

-----------------------------------------------------------------------------
(* Arithmetic.                                                             *)

LEMMA DroppedIsPositive == Dropped \in Nat \ {0}
BY DEF Dropped

(* Shifting right by the bits that are dropped.                            *)
LEMMA ShiftRight ==
    ASSUME NEW D \in Nat \ {0}, NEW m \in 0 .. 1024 * D - 1, NEW n \in 0 .. 1024 * D - 1
    PROVE  m \div D \in 0 .. 1023 /\ (m < n => m \div D <= n \div D)
BY Z3

LEMMA ShiftLeft ==
    ASSUME NEW m \in 0 .. 1023, NEW x, x = m * Dropped
    PROVE  x \in 0 .. 1024 * Dropped - 1 /\ x \div Dropped = m
<1>1. Dropped \in Nat /\ Dropped # 0
    BY DEF Dropped
<1>2. (m * Dropped) \div Dropped = m
    BY <1>1, Z3
<1>3. m * Dropped \in 0 .. 1024 * Dropped - 1
    BY <1>1, Z3
<1> QED BY <1>2, <1>3

LEMMA RoundingKeepsOrder ==
    ASSUME NEW D \in Nat \ {0}, NEW m \in Nat, NEW n \in Nat, m < n,
           NEW x, NEW y, x = (m \div D) * D, y = (n \div D) * D
    PROVE  x \in Int /\ y \in Int /\ x <= y
BY Z3

LEMMA MaskInRange ==
    ASSUME NEW e \in 0 .. 255
    PROVE  (e - 112) % 32 \in 0 .. 31
BY Z3

LEMMA MaskOfFitting ==
    ASSUME NEW e \in 112 .. 143
    PROVE  ((e - 112) % 32) + 112 = e
BY Z3

LEMMA MaskOfHalf ==
    ASSUME NEW e \in 0 .. 31, NEW x, x = e + 112
    PROVE  (x - 112) % 32 = e
BY Z3

LEMMA MaskAdds ==
    ASSUME NEW q \in Int, NEW r \in 0 .. 31
    PROVE  (q * 32 + r) % 32 = r
BY Z3

LEMMA MaskOfZero == (0 - 112) % 32 = 16
<1>1. 0 - 4 \in Int /\ 16 \in 0 .. 31 /\ (0 - 4) * 32 + 16 = 0 - 112
    OBVIOUS
<1> QED BY <1>1, MaskAdds

-----------------------------------------------------------------------------
(* The fields of a float and of a half.                                    *)
LEMMA FloatFields ==
    ASSUME NEW f \in Floats
    PROVE  /\ f.sign \in Signs /\ f.exponent \in 0 .. 255
           /\ f.mantissa \in 0 .. 1024 * Dropped - 1
           /\ f = [sign |-> f.sign, exponent |-> f.exponent, mantissa |-> f.mantissa]
BY DEF Floats

LEMMA HalfFields ==
    ASSUME NEW h \in Halves
    PROVE  /\ h.sign \in Signs /\ h.exponent \in 0 .. 31 /\ h.mantissa \in 0 .. 1023
           /\ h = [sign |-> h.sign, exponent |-> h.exponent, mantissa |-> h.mantissa]
BY DEF Halves

(* Quantising any float gives a half, and dequantising any half a float    *)
(* that fits: the masks keep every field within its bits.                  *)
THEOREM ConversionsTyped ==
    /\ \A f \in Floats : FloatToHalf(f) \in Halves
    /\ \A h \in Halves : HalfToFloat(h) \in Floats /\ Fits(HalfToFloat(h))
<1>1. ASSUME NEW f \in Floats PROVE FloatToHalf(f) \in Halves
    <2>1. (f.exponent - Rebias) % 32 \in 0 .. 31
        BY FloatFields, MaskInRange DEF Rebias
    <2>2. f.mantissa \div Dropped \in 0 .. 1023
        BY FloatFields, DroppedIsPositive, ShiftRight
    <2> QED BY <2>1, <2>2, FloatFields DEF FloatToHalf, Halves
<1>2. ASSUME NEW h \in Halves PROVE HalfToFloat(h) \in Floats /\ Fits(HalfToFloat(h))
    <2> DEFINE s == h.sign
               e == h.exponent
               m == h.mantissa
    <2>1. /\ s \in Signs /\ e \in 0 .. 31 /\ m \in 0 .. 1023
          /\ h = [sign |-> s, exponent |-> e, mantissa |-> m]
        BY HalfFields
    <2> HIDE DEF s, e, m
    <2>2. e + Rebias \in Rebias .. Rebias + 31 /\ e + Rebias \in 0 .. 255
        BY <2>1, Z3 DEF Rebias
    <2>3. Dropped \in Nat /\ Dropped # 0
        BY DEF Dropped
    <2>4. m * Dropped \in 0 .. 1024 * Dropped - 1
        BY <2>1, <2>3, Z3
    <2> QED BY <2>1, <2>2, <2>4 DEF HalfToFloat, Floats, Fits
<1> QED BY <1>1, <1>2

(* A half that is dequantised and quantised again is the half it was: what *)
(* was rounded once is never rounded again.                                *)
THEOREM HalfSurvives == \A h \in Halves : FloatToHalf(HalfToFloat(h)) = h
<1> SUFFICES ASSUME NEW h \in Halves PROVE FloatToHalf(HalfToFloat(h)) = h
    OBVIOUS
<1> DEFINE f == HalfToFloat(h)
<1>1. /\ f.sign = h.sign /\ f.exponent = h.exponent + 112
      /\ f.mantissa = h.mantissa * Dropped
    BY DEF HalfToFloat, Rebias
<1> HIDE DEF f
<1>2. (f.exponent - 112) % 32 = h.exponent
    BY <1>1, HalfFields, MaskOfHalf
<1>3. f.mantissa \div Dropped = h.mantissa
    BY <1>1, HalfFields, ShiftLeft
<1>4. FloatToHalf(f) = [sign |-> h.sign, exponent |-> h.exponent, mantissa |-> h.mantissa]
    BY <1>1, <1>2, <1>3 DEF FloatToHalf, Rebias
<1> QED BY <1>4, HalfFields DEF f

(* A float in the range of a half comes back with its sign, its exponent   *)
(* and the ten bits of its mantissa that a half has a place for.           *)
THEOREM FloatIsRounded ==
    \A f \in Floats : Fits(f) => HalfToFloat(FloatToHalf(f)) = Rounded(f)
<1> SUFFICES ASSUME NEW f \in Floats, Fits(f)
             PROVE  HalfToFloat(FloatToHalf(f)) = Rounded(f)
    OBVIOUS
<1>1. ((f.exponent - Rebias) % 32) + Rebias = f.exponent
    BY MaskOfFitting DEF Fits, Rebias
<1>2. Rounded(f) = [sign |-> f.sign, exponent |-> f.exponent,
                    mantissa |-> (f.mantissa \div Dropped) * Dropped]
    BY DEF Floats, Rounded
<1> QED BY <1>1, <1>2 DEF FloatToHalf, HalfToFloat

(* Dropping bits never swaps two magnitudes.                               *)
LEMMA MagnitudesKeepOrder ==
    \A f, g \in Floats : Below(f, g) => ~Below(Rounded(g), Rounded(f))
<1> SUFFICES ASSUME NEW f \in Floats, NEW g \in Floats, Below(f, g)
             PROVE  ~Below(Rounded(g), Rounded(f))
    OBVIOUS
<1>1. /\ Rounded(f).exponent = f.exponent
      /\ Rounded(f).mantissa = (f.mantissa \div Dropped) * Dropped
      /\ Rounded(g).exponent = g.exponent
      /\ Rounded(g).mantissa = (g.mantissa \div Dropped) * Dropped
    BY DEF Floats, Rounded
<1>2. /\ f.mantissa \in Nat /\ f.exponent \in Nat
      /\ g.mantissa \in Nat /\ g.exponent \in Nat
    BY FloatFields
<1>3. CASE f.exponent = g.exponent /\ f.mantissa < g.mantissa
    <2>1. /\ Rounded(f).mantissa \in Int /\ Rounded(g).mantissa \in Int
          /\ Rounded(f).mantissa <= Rounded(g).mantissa
        BY <1>1, <1>2, <1>3, DroppedIsPositive, RoundingKeepsOrder
    <2> QED BY <1>1, <1>2, <2>1 DEF Below
<1>4. CASE f.exponent < g.exponent
    BY <1>1, <1>2, <1>4 DEF Below
<1> QED BY <1>3, <1>4 DEF Below

(* Of two numbers that fit, the smaller does not come back the larger from *)
(* floatToHalf and halfToFloat, whatever their signs.                      *)
THEOREM OrderIsKept ==
    \A f, g \in Floats :
        Fits(f) /\ Fits(g) /\ Less(f, g)
            => ~Less(HalfToFloat(FloatToHalf(g)), HalfToFloat(FloatToHalf(f)))
<1> SUFFICES ASSUME NEW f \in Floats, NEW g \in Floats, Fits(f), Fits(g), Less(f, g)
             PROVE  ~Less(HalfToFloat(FloatToHalf(g)), HalfToFloat(FloatToHalf(f)))
    OBVIOUS
<1> DEFINE x == Rounded(f)
           y == Rounded(g)
<1>1. HalfToFloat(FloatToHalf(f)) = x /\ HalfToFloat(FloatToHalf(g)) = y
    BY FloatIsRounded
<1>2. x.sign = f.sign /\ y.sign = g.sign
    BY DEF Rounded, Floats
<1>3. /\ Below(f, g) => ~Below(y, x)
      /\ Below(g, f) => ~Below(x, y)
    BY MagnitudesKeepOrder
<1> HIDE DEF x, y
<1>4. ~Less(y, x)
    BY <1>2, <1>3 DEF Less
<1> QED BY <1>1, <1>4

(* Zero does not fit, and does not stay zero: the exponent that stands for *)
(* it in a half is that of 2.0, and dequantising gives 2.0.                *)
THEOREM ZeroBecomesTwo ==
    \A s \in Signs :
        HalfToFloat(FloatToHalf([sign |-> s, exponent |-> 0, mantissa |-> 0]))
            = [sign |-> s, exponent |-> 128, mantissa |-> 0]
<1>2. ((0 - Rebias) % 32) + Rebias = 128
    BY MaskOfZero DEF Rebias
<1>3. 0 \div Dropped = 0 /\ 0 * Dropped = 0
    BY DroppedIsPositive, Z3
<1> QED BY <1>2, <1>3 DEF FloatToHalf, HalfToFloat

(* The bytes of a half are bytes, and give the half back.                  *)
LEMMA BytesSurvive ==
    \A h \in Halves :
        /\ BytesOf(h)[1] \in 0 .. 255 /\ BytesOf(h)[2] \in 0 .. 255
        /\ HalfOf(BytesOf(h)[1], BytesOf(h)[2]) = h
<1> SUFFICES ASSUME NEW h \in Halves
             PROVE  /\ BytesOf(h)[1] \in 0 .. 255 /\ BytesOf(h)[2] \in 0 .. 255
                    /\ HalfOf(BytesOf(h)[1], BytesOf(h)[2]) = h
    OBVIOUS
<1> DEFINE s == h.sign
           e == h.exponent
           m == h.mantissa
<1>1. /\ s \in Signs /\ e \in 0 .. 31 /\ m \in 0 .. 1023
      /\ h = [sign |-> s, exponent |-> e, mantissa |-> m]
    BY HalfFields
<1> HIDE DEF s, e, m
<1> DEFINE low == m % 256
           high == s * 128 + e * 4 + m \div 256
<1>2. BytesOf(h)[1] = low /\ BytesOf(h)[2] = high
    BY <1>1 DEF BytesOf, ByteSize
<1>3. low \in 0 .. 255 /\ high \in 0 .. 255
    BY <1>1, Z3 DEF Signs
<1>4. high \div 128 = s /\ (high % 128) \div 4 = e /\ (high % 4) * 256 + low = m
    BY <1>1, Z3 DEF Signs
<1> HIDE DEF low, high
<1> QED BY <1>1, <1>2, <1>3, <1>4 DEF HalfOf, ByteSize

(* The same of vectors, of any length.                                     *)
THEOREM VectorIsRounded ==
    ASSUME NEW data \in Seq(Floats), \A i \in DOMAIN data : Fits(data[i])
    PROVE  Dequantize16Bit(Quantize16Bit(data)) = RoundedVector(data)
<1>1. DOMAIN Quantize16Bit(data) = DOMAIN data
    BY DEF Quantize16Bit
<1>2. ASSUME NEW i \in DOMAIN data
      PROVE  HalfToFloat(Quantize16Bit(data)[i]) = Rounded(data[i])
    <2>1. data[i] \in Floats
        OBVIOUS
    <2>2. Quantize16Bit(data)[i] = FloatToHalf(data[i])
        BY DEF Quantize16Bit
    <2> QED BY <2>1, <2>2, FloatIsRounded
<1> QED BY <1>1, <1>2 DEF Dequantize16Bit, RoundedVector

-----------------------------------------------------------------------------
(* A sequence of sequences is flattened one after the other.               *)
LEMMA Flattening ==
    ASSUME NEW T, NEW seqs \in Seq(Seq(T))
    PROVE  \E f \in [0 .. Len(seqs) -> Seq(T)] :
               /\ f[0] = <<>> /\ \A i \in 1 .. Len(seqs) : f[i] = f[i - 1] \o seqs[i]
               /\ FlattenSeq(seqs) = f[Len(seqs)]
<1> DEFINE n == Len(seqs)
           step == [p \in (1 .. n) \X Seq(T) |-> p[2] \o seqs[p[1]]]
<1>1. n \in Nat /\ \A i \in 1 .. n : seqs[i] \in Seq(T)
    OBVIOUS
<1> HIDE DEF n
<1>2. step \in [(1 .. n) \X Seq(T) -> Seq(T)]
    BY <1>1
<1>3. \A i \in 1 .. n, s \in Seq(T) : step[<<i, s>>] = s \o seqs[i]
    OBVIOUS
<1> HIDE DEF step
<1>4. PICK f : Computes(f, n, Seq(T), <<>>, step)
  <2>1. <<>> \in Seq(T)
      OBVIOUS
  <2> QED BY <1>1, <1>2, <2>1, Recursion
<1>5. f \in [0 .. n -> Seq(T)] /\ f[0] = <<>> /\ \A i \in 1 .. n : f[i] = f[i - 1] \o seqs[i]
  <2>1. \A i \in 1 .. n : f[i - 1] \in Seq(T)
      BY <1>1, <1>4 DEF Computes
  <2> QED BY <1>3, <1>4, <2>1 DEF Computes
<1>6. FlattenSeq(seqs) = f[n]
  <2>1. CASE n = 0
    <3>1. seqs = <<>>
        BY <2>1 DEF n
    <3> QED BY <1>5, <2>1, <3>1 DEF FlattenSeq, n
  <2>2. CASE n # 0
    <3> DEFINE One(g, i) == IF i = 1 THEN seqs[i] ELSE g[i - 1] \o seqs[i]
               Fix(g) == g = [i \in 1 .. n |-> One(g, i)]
               g == CHOOSE g : Fix(g)
               h == [i \in 1 .. n |-> f[i]]
    <3>1. FlattenSeq(seqs) = g[n]
        BY <2>2 DEF FlattenSeq, n
    <3>2. \A i \in 1 .. n : f[i] = One(h, i)
      <4> SUFFICES ASSUME NEW i \in 1 .. n PROVE f[i] = One(h, i)
          OBVIOUS
      <4>1. CASE i = 1
        <5>1. f[1] = <<>> \o seqs[1] /\ seqs[1] \in Seq(T)
          <6>1. 1 \in 1 .. n /\ 1 - 1 = 0
              BY <4>1
          <6>2. f[1] = f[1 - 1] \o seqs[1]
              BY <1>5, <6>1
          <6> QED BY <1>1, <1>5, <6>1, <6>2
        <5>2. <<>> \o seqs[1] = seqs[1]
            BY <5>1, ConcatEmptySeq
        <5> QED BY <4>1, <5>1, <5>2
      <4>2. CASE i # 1
        <5>1. i - 1 \in 1 .. n
            BY <1>1, <4>2
        <5> QED BY <1>5, <4>2, <5>1
      <4> QED BY <4>1, <4>2
    <3>3. Fix(h)
      <4> HIDE DEF One
      <4> QED BY <3>2
    <3>4. Fix(g)
      <4> HIDE DEF Fix
      <4> QED BY <3>3
    <3> HIDE DEF g
    <3>5. \A i \in 1 .. n : g[i] = One(g, i)
      <4> HIDE DEF One
      <4> QED BY <3>4, Zenon
    <3> DEFINE S == {i \in 0 .. n : i = 0 \/ g[i] = f[i]}
    <3>6. 0 \in S
        BY <1>1
    <3>7. ASSUME NEW i \in 1 .. n, i - 1 \in S PROVE i \in S
      <4>1. CASE i = 1
        <5>1. g[1] = seqs[1]
            BY <3>5, <4>1
        <5>2. f[1] = seqs[1]
            BY <3>2, <4>1
        <5> QED BY <1>1, <4>1, <5>1, <5>2
      <4>2. CASE i # 1
        <5>1. g[i - 1] = f[i - 1]
            BY <1>1, <3>7, <4>2
        <5>2. g[i] = g[i - 1] \o seqs[i]
            BY <3>5, <4>2
        <5>3. g[i] = f[i]
            BY <1>5, <5>1, <5>2
        <5> QED BY <1>1, <5>3
      <4> QED BY <4>1, <4>2
    <3>8. \A i \in 0 .. n : i \in S
      <4> HIDE DEF S
      <4> QED BY <1>1, <3>6, <3>7, Induction
    <3>9. g[n] = f[n]
        BY <1>1, <2>2, <3>8
    <3> QED BY <3>1, <3>9
  <2> QED BY <2>1, <2>2
<1> QED BY <1>5, <1>6 DEF n

-----------------------------------------------------------------------------
(* Cutting a package into chunks.                                          *)

LEMMA Division ==
    ASSUME NEW L \in Nat, NEW C \in Nat \ {0}
    PROVE  L \div C \in Nat /\ L % C \in 0 .. C - 1 /\ L = (L \div C) * C + (L % C)
BY Z3

LEMMA Multiples ==
    ASSUME NEW C \in Nat \ {0}, NEW n \in Nat, NEW i \in 1 .. n
    PROVE  /\ (i - 1) * C \in Nat /\ i * C \in Nat /\ n * C \in Nat
           /\ (i - 1) * C + C = i * C /\ i * C <= n * C
BY Z3

Total(data) == Len(data) \div ChunkSize + (IF Len(data) % ChunkSize = 0 THEN 0 ELSE 1)

(* Where the i-th chunk ends.                                              *)
EndOf(data, i) == IF i <= Len(data) \div ChunkSize THEN i * ChunkSize ELSE Len(data)

CutAt(data, i) == Chunk(i - 1, SubSeq(data, EndOf(data, i - 1) + 1, EndOf(data, i)))

LEMMA EndsAre ==
    ASSUME NEW data \in Seq(Byte)
    PROVE  /\ Total(data) \in Nat /\ EndOf(data, 0) = 0 /\ EndOf(data, Total(data)) = Len(data)
           /\ \A i \in 1 .. Total(data) :
                  /\ EndOf(data, i - 1) \in Nat /\ EndOf(data, i) \in Nat
                  /\ EndOf(data, i - 1) < EndOf(data, i) /\ EndOf(data, i) <= Len(data)
<1> DEFINE L == Len(data)
           n == L \div ChunkSize
           r == L % ChunkSize
<1>1. L \in Nat /\ ChunkSize \in Nat \ {0}
    BY ChunkSizeAssumption
<1>2. n \in Nat /\ r \in 0 .. ChunkSize - 1 /\ L = n * ChunkSize + r
    BY <1>1, Division
<1>3. Total(data) = n + (IF r = 0 THEN 0 ELSE 1)
    BY DEF Total
<1>4. \A i : EndOf(data, i) = IF i <= n THEN i * ChunkSize ELSE L
    BY DEF EndOf
<1> HIDE DEF L, n, r
<1>5. n * ChunkSize \in Nat /\ 0 * ChunkSize = 0
    BY <1>1, <1>2, Z3
<1>6. ASSUME NEW i \in 1 .. Total(data)
      PROVE  /\ EndOf(data, i - 1) \in Nat /\ EndOf(data, i) \in Nat
             /\ EndOf(data, i - 1) < EndOf(data, i) /\ EndOf(data, i) <= L
  <2>1. CASE i <= n
    <3>1. i \in 1 .. n /\ i - 1 <= n
        BY <1>2, <1>3, <2>1
    <3>2. EndOf(data, i) = i * ChunkSize /\ EndOf(data, i - 1) = (i - 1) * ChunkSize
        BY <1>4, <2>1, <3>1
    <3> DEFINE a == (i - 1) * ChunkSize
               b == i * ChunkSize
               c == n * ChunkSize
    <3>3. a \in Nat /\ b \in Nat /\ c \in Nat /\ a + ChunkSize = b /\ b <= c
        BY <1>1, <1>2, <3>1, Multiples
    <3>4. L = c + r
        BY <1>2
    <3> HIDE DEF a, b, c
    <3>5. EndOf(data, i) = b /\ EndOf(data, i - 1) = a
        BY <3>2 DEF a, b
    <3> QED BY <1>1, <1>2, <3>3, <3>4, <3>5
  <2>2. CASE ~(i <= n)
    <3>1. i = n + 1 /\ r # 0 /\ i - 1 = n
        BY <1>2, <1>3, <2>2
    <3>2. EndOf(data, i) = L /\ EndOf(data, i - 1) = n * ChunkSize
        BY <1>2, <1>4, <2>2, <3>1
    <3> DEFINE c == n * ChunkSize
    <3>3. c \in Nat /\ L = c + r /\ EndOf(data, i - 1) = c
        BY <1>2, <1>5, <3>2
    <3> HIDE DEF c
    <3> QED BY <1>1, <1>2, <3>1, <3>2, <3>3
  <2> QED BY <2>1, <2>2
<1>7. EndOf(data, 0) = 0
    BY <1>2, <1>4, <1>5
<1>8. EndOf(data, Total(data)) = L
  <2>1. CASE r = 0
    <3>1. Total(data) = n
        BY <1>2, <1>3, <2>1
    <3> DEFINE c == n * ChunkSize
    <3>2. EndOf(data, n) = c
        BY <1>2, <1>4
    <3>3. L = c + r /\ c \in Nat
        BY <1>2, <1>5
    <3> HIDE DEF c
    <3> QED BY <2>1, <3>1, <3>2, <3>3
  <2>2. CASE r # 0
    <3>1. Total(data) = n + 1
        BY <1>2, <1>3, <2>2
    <3> QED BY <1>2, <1>4, <3>1
  <2> QED BY <2>1, <2>2
<1>9. Total(data) \in Nat
    BY <1>2, <1>3
<1> QED BY <1>6, <1>7, <1>8, <1>9 DEF L

LEMMA ChunksAre ==
    ASSUME NEW data \in Seq(Byte)
    PROVE  /\ DOMAIN CreateChunks(data) = 1 .. Total(data)
           /\ Len(CreateChunks(data)) = Total(data)
           /\ \A i \in 1 .. Total(data) :
                  /\ CreateChunks(data)[i] = CutAt(data, i)
                  /\ CutAt(data, i).data \in Seq(Byte)
<1> DEFINE L == Len(data)
           n == L \div ChunkSize
           r == L % ChunkSize
           full == FullChunks(data)
           rest == Remainder(data)
           AnyChunk == [sequenceNumber : Int, data : Seq(Byte)]
<1>1. L \in Nat /\ ChunkSize \in Nat \ {0}
    BY ChunkSizeAssumption
<1>2. n \in Nat /\ r \in 0 .. ChunkSize - 1 /\ L = n * ChunkSize + r
    BY <1>1, Division
<1>3. Total(data) = n + (IF r = 0 THEN 0 ELSE 1)
    BY DEF Total
<1>4. \A i : EndOf(data, i) = IF i <= n THEN i * ChunkSize ELSE L
    BY DEF EndOf
<1>5. full = [i \in 1 .. n |-> Chunk(i - 1, SubSeq(data, (i - 1) * ChunkSize + 1, i * ChunkSize))]
    BY DEF FullChunks
<1>6. rest = IF r = 0 THEN <<>> ELSE <<Chunk(n, SubSeq(data, L - r + 1, L))>>
    BY DEF Remainder
<1>7. CreateChunks(data) = full \o rest
    BY DEF CreateChunks
<1> HIDE DEF L, n, r, full, rest
<1>8. ASSUME NEW i \in 1 .. Total(data)
      PROVE  CutAt(data, i) \in AnyChunk /\ CutAt(data, i).data \in Seq(Byte)
  <2> DEFINE a == EndOf(data, i - 1) + 1
             b == EndOf(data, i)
  <2>1. a \in 1 .. L /\ b \in 1 .. L
      BY EndsAre DEF L
  <2> HIDE DEF a, b
  <2>2. \A k \in a .. b : data[k] \in Byte
      BY <1>1, <2>1 DEF L
  <2>3. SubSeq(data, a, b) \in Seq(Byte)
      BY <1>1, <2>1, <2>2, SubSeqProperties
  <2> QED BY <2>3 DEF CutAt, Chunk, a, b
<1>9. ASSUME NEW i \in 1 .. n
      PROVE  i \in 1 .. Total(data) /\ full[i] = CutAt(data, i)
  <2>1. i \in 1 .. Total(data) /\ i <= n /\ i - 1 <= n
      BY <1>2, <1>3
  <2> QED BY <1>4, <1>5, <2>1 DEF CutAt
<1>10. full \in Seq(AnyChunk) /\ Len(full) = n
  <2>1. full \in [1 .. n -> AnyChunk]
      BY <1>5, <1>8, <1>9
  <2> HIDE DEF AnyChunk
  <2> QED BY <1>2, <2>1
<1>11. CASE r = 0
  <2>1. rest = <<>> /\ Total(data) = n
      BY <1>2, <1>3, <1>6, <1>11
  <2>2. CreateChunks(data) = full
    <3> HIDE DEF AnyChunk
    <3> QED BY <1>7, <1>10, <2>1, ConcatEmptySeq
  <2>3. DOMAIN full = 1 .. n
      BY <1>5
  <2> QED BY <1>8, <1>9, <1>10, <2>1, <2>2, <2>3
<1>12. CASE r # 0
  <2> DEFINE e == CutAt(data, n + 1)
  <2>1. Total(data) = n + 1 /\ n + 1 \in 1 .. Total(data)
      BY <1>2, <1>3, <1>12
  <2>2. rest = <<e>>
    <3>1. EndOf(data, n) = L - r /\ EndOf(data, n + 1) = L
      <4> DEFINE c == n * ChunkSize
      <4>1. c \in Int /\ L = c + r /\ EndOf(data, n) = c
          BY <1>1, <1>2, <1>4, Z3
      <4> HIDE DEF c
      <4>2. EndOf(data, n + 1) = L
          BY <1>2, <1>4
      <4> QED BY <1>2, <4>1, <4>2
    <3>2. (n + 1) - 1 = n
        BY <1>2
    <3> QED BY <1>6, <1>12, <3>1, <3>2 DEF CutAt
  <2>3. e \in AnyChunk
      BY <1>8, <2>1
  <2> HIDE DEF e, AnyChunk
  <2>4. CreateChunks(data) = Append(full, e)
      BY <1>7, <1>10, <2>2, <2>3, AppendIsConcat
  <2>5. /\ Len(Append(full, e)) = n + 1 /\ Append(full, e) \in Seq(AnyChunk)
        /\ \A i \in 1 .. n : Append(full, e)[i] = full[i]
        /\ Append(full, e)[n + 1] = e
      BY <1>10, <2>3, AppendProperties
  <2>6. \A i \in 1 .. Total(data) : Append(full, e)[i] = CutAt(data, i)
    <3>1. \A i \in 1 .. Total(data) : i \in 1 .. n \/ i = n + 1
        BY <1>2, <2>1
    <3> QED BY <1>9, <2>5, <3>1 DEF e
  <2>7. DOMAIN Append(full, e) = 1 .. n + 1
      BY <2>5
  <2> QED BY <1>8, <2>1, <2>4, <2>5, <2>6, <2>7
<1> QED BY <1>11, <1>12

(* The data of the chunks of a package, one after the other, is the data   *)
(* of the package, whatever the sizes of both.                             *)
THEOREM ChunksRejoin ==
    ASSUME NEW data \in Seq(Byte)
    PROVE  LET c == CreateChunks(data) IN FlattenSeq([i \in DOMAIN c |-> c[i].data]) = data
<1> DEFINE n == Total(data)
           c == CreateChunks(data)
           seqs == [i \in DOMAIN c |-> c[i].data]
<1>1. n \in Nat /\ DOMAIN c = 1 .. n
    BY EndsAre, ChunksAre
<1>2. ASSUME NEW i \in 1 .. n
      PROVE  /\ seqs[i] = SubSeq(data, EndOf(data, i - 1) + 1, EndOf(data, i))
             /\ seqs[i] \in Seq(Byte)
  <2>1. c[i] = CutAt(data, i) /\ CutAt(data, i).data \in Seq(Byte) /\ i \in DOMAIN c
      BY <1>1, ChunksAre
  <2>2. CutAt(data, i).data = SubSeq(data, EndOf(data, i - 1) + 1, EndOf(data, i))
      BY DEF CutAt, Chunk
  <2> HIDE DEF c
  <2> QED BY <2>1, <2>2
<1>3. seqs \in Seq(Seq(Byte)) /\ Len(seqs) = n
  <2>1. seqs \in [1 .. n -> Seq(Byte)]
      BY <1>1, <1>2
  <2> HIDE DEF seqs, n
  <2> QED BY <1>1, <2>1
<1> HIDE DEF n, seqs
<1>4. PICK f \in [0 .. n -> Seq(Byte)] :
          /\ f[0] = <<>> /\ \A i \in 1 .. n : f[i] = f[i - 1] \o seqs[i]
          /\ FlattenSeq(seqs) = f[n]
    BY <1>3, Flattening
<1> DEFINE S == {i \in 0 .. n : f[i] = SubSeq(data, 1, EndOf(data, i))}
<1>5. 0 \in S
  <2>1. SubSeq(data, 1, 0) = <<>>
      BY SubSeqEmpty
  <2> QED BY <1>1, <1>4, <2>1, EndsAre
<1>6. ASSUME NEW i \in 1 .. n, i - 1 \in S PROVE i \in S
  <2> DEFINE a == EndOf(data, i - 1)
             b == EndOf(data, i)
  <2>1. a \in Nat /\ b \in Nat /\ a < b /\ b <= Len(data) /\ Len(data) \in Nat
      BY EndsAre DEF n
  <2>2. f[i] = SubSeq(data, 1, a) \o SubSeq(data, a + 1, b)
      BY <1>2, <1>4, <1>6
  <2> HIDE DEF a, b
  <2>3. SubSeq(data, 1, a) \o SubSeq(data, a + 1, b) = SubSeq(data, 1, b)
    <3>1. 1 \in 1 .. Len(data) + 1 /\ a \in 1 - 1 .. Len(data) /\ b \in a .. Len(data)
        BY <2>1
    <3> QED BY <3>1, ConcatAdjacentSubSeq
  <2>4. f[i] = SubSeq(data, 1, b)
      BY <2>2, <2>3, Zenon
  <2>5. i \in 0 .. n
      BY <1>1
  <2> QED BY <2>4, <2>5, Zenon DEF b
<1>7. \A i \in 0 .. n : i \in S
  <2> HIDE DEF S
  <2> QED BY <1>1, <1>5, <1>6, Induction
<1>8. f[n] = SubSeq(data, 1, EndOf(data, n)) /\ EndOf(data, n) = Len(data)
  <2>1. n \in 0 .. n
      BY <1>1
  <2> QED BY <1>7, <2>1, EndsAre DEF n
<1> QED BY <1>4, <1>8, SubSeqFull DEF seqs

-----------------------------------------------------------------------------
(* Putting them together.                                                  *)

(* Numbers that rise from place to place and have no other room fill it.   *)
LEMMA RisingNumbers ==
    ASSUME NEW n \in Nat, NEW g \in [1 .. n -> 0 .. n - 1],
           \A i, j \in 1 .. n : i < j => g[i] < g[j]
    PROVE  \A i \in 1 .. n : g[i] = i - 1
<1> DEFINE S == {i \in 0 .. n : i = 0 \/ g[i] >= i - 1}
           T == {k \in 0 .. n : k = n \/ g[n - k] <= n - k - 1}
<1>1. \A i \in 1 .. n : g[i] \in 0 .. n - 1
    OBVIOUS
<1>2. \A i \in 0 .. n : i \in S
  <2>1. 0 \in S
      OBVIOUS
  <2>2. ASSUME NEW i \in 1 .. n, i - 1 \in S PROVE i \in S
    <3>1. CASE i = 1
        BY <1>1, <3>1
    <3>2. CASE i # 1
      <4>1. i - 1 \in 1 .. n /\ i - 1 < i
          BY <3>2
      <4>2. g[i - 1] < g[i] /\ g[i - 1] >= (i - 1) - 1
          BY <2>2, <3>2, <4>1
      <4>3. g[i] \in Int /\ g[i - 1] \in Int
          BY <1>1, <4>1
      <4>4. g[i] >= i - 1
          BY <4>2, <4>3
      <4> QED BY <4>4
    <3> QED BY <3>1, <3>2
  <2> HIDE DEF S
  <2> QED BY <2>1, <2>2, Induction
<1>3. \A k \in 0 .. n : k \in T
  <2>1. 0 \in T
      BY <1>1
  <2>2. ASSUME NEW k \in 1 .. n, k - 1 \in T PROVE k \in T
    <3>1. CASE k = n
        BY <3>1
    <3>2. CASE k # n
      <4>1. n - k \in 1 .. n /\ n - (k - 1) \in 1 .. n /\ n - k < n - (k - 1)
          BY <3>2
      <4>2. g[n - k] < g[n - (k - 1)] /\ g[n - (k - 1)] <= n - (k - 1) - 1
          BY <2>2, <3>2, <4>1
      <4>3. g[n - k] \in Int /\ g[n - (k - 1)] \in Int
          BY <1>1, <4>1
      <4>4. g[n - k] <= n - k - 1
          BY <4>2, <4>3
      <4> QED BY <4>4
    <3> QED BY <3>1, <3>2
  <2> HIDE DEF T
  <2> QED BY <2>1, <2>2, Induction
<1>4. ASSUME NEW i \in 1 .. n PROVE g[i] = i - 1
  <2>1. g[i] >= i - 1
      BY <1>2
  <2>2. g[i] <= i - 1
    <3>1. n - i \in 0 .. n /\ n - i # n /\ n - (n - i) = i
        OBVIOUS
    <3>2. n - i \in T
        BY <1>3, <3>1
    <3> QED BY <3>1, <3>2
  <2> QED BY <1>1, <2>1, <2>2
<1> QED BY <1>4

(* Whatever the order in which the chunks of a package are given, they are *)
(* put together to its data, if each is given once.                        *)
THEOREM OrderIsRestored ==
    ASSUME NEW data \in Seq(Byte), NEW chunks,
           DOMAIN chunks = 1 .. Total(data),
           \A j \in DOMAIN chunks : \E i \in 1 .. Total(data) : chunks[j] = CreateChunks(data)[i],
           \A i, j \in DOMAIN chunks :
               i # j => chunks[i].sequenceNumber # chunks[j].sequenceNumber
    PROVE  ReassembleChunks(chunks) = data
<1> DEFINE n == Total(data)
           c == CreateChunks(data)
           places == DOMAIN chunks
           num == [j \in 1 .. n |-> chunks[j].sequenceNumber]
           Ordered(p) == \A i, j \in places : i < j =>
                             /\ p[i] # p[j]
                             /\ chunks[p[i]].sequenceNumber <= chunks[p[j]].sequenceNumber
           order == CHOOSE p \in [places -> places] : Ordered(p)
<1>1. n \in Nat /\ DOMAIN c = 1 .. n /\ places = 1 .. n
    BY EndsAre, ChunksAre
<1>2. \A i \in 1 .. n : c[i].sequenceNumber = i - 1
  <2>1. \A i \in 1 .. n : c[i] = CutAt(data, i)
      BY ChunksAre
  <2>2. \A i \in 1 .. n : CutAt(data, i).sequenceNumber = i - 1
      BY DEF CutAt, Chunk
  <2> HIDE DEF c, n
  <2> QED BY <2>1, <2>2
<1>3. \A j \in 1 .. n : \E i \in 1 .. n : chunks[j] = c[i]
    OBVIOUS
<1>4. ReassembleChunks(chunks) =
          LET s == [i \in places |-> chunks[order[i]]] IN FlattenSeq([i \in DOMAIN s |-> s[i].data])
    BY DEF ReassembleChunks, Sorted
<1> HIDE DEF n, c
<1>5. \A j \in 1 .. n : num[j] \in 0 .. n - 1 /\ chunks[j] = c[num[j] + 1]
  <2> SUFFICES ASSUME NEW j \in 1 .. n PROVE num[j] \in 0 .. n - 1 /\ chunks[j] = c[num[j] + 1]
      OBVIOUS
  <2>1. PICK i \in 1 .. n : chunks[j] = c[i]
      BY <1>3
  <2>2. num[j] = i - 1
      BY <1>2, <2>1
  <2> HIDE DEF num
  <2> QED BY <1>1, <2>1, <2>2
<1>6. \A i, j \in 1 .. n : i # j => num[i] # num[j]
    BY <1>1
<1>7. \A i \in places : chunks[i].sequenceNumber = num[i]
    BY <1>1
<1> HIDE DEF num
<1>8. \A v \in 0 .. n - 1 : \E j \in 1 .. n : num[j] = v
  <2>1. num \in Injection(1 .. n, 0 .. n - 1)
      BY <1>5, <1>6 DEF num, Injection, IsInjective
  <2>2. Cardinality(1 .. n) = n /\ Cardinality(0 .. n - 1) = n /\ IsFiniteSet(0 .. n - 1)
    <3>1. 0 \in Int /\ 1 \in Int /\ n \in Int /\ n - 1 \in Int
        BY <1>1
    <3> QED BY <1>1, <3>1, FS_Interval
  <2>3. num \in Surjection(1 .. n, 0 .. n - 1)
      BY <2>1, <2>2, FS_Injection
  <2> QED BY <2>3 DEF Surjection
<1>9. \E p \in [places -> places] : Ordered(p)
  <2> DEFINE p == [i \in 1 .. n |-> CHOOSE j \in 1 .. n : num[j] = i - 1]
  <2>1. \A i \in 1 .. n : p[i] \in 1 .. n /\ num[p[i]] = i - 1
    <3> TAKE i \in 1 .. n
    <3>1. i - 1 \in 0 .. n - 1
        BY <1>1
    <3> QED BY <1>8, <3>1
  <2>2. p \in [places -> places]
      BY <1>1, <2>1
  <2> HIDE DEF p
  <2>3. Ordered(p)
    <3> SUFFICES ASSUME NEW i \in places, NEW j \in places, i < j
                 PROVE  /\ p[i] # p[j]
                        /\ chunks[p[i]].sequenceNumber <= chunks[p[j]].sequenceNumber
        OBVIOUS
    <3>1. num[p[i]] = i - 1 /\ num[p[j]] = j - 1 /\ p[i] \in places /\ p[j] \in places
        BY <1>1, <2>1
    <3>2. i - 1 < j - 1 /\ i - 1 # j - 1
        BY <1>1
    <3> QED BY <1>7, <3>1, <3>2
  <2> QED BY <2>2, <2>3
<1>10. order \in [places -> places] /\ Ordered(order)
  <2> HIDE DEF Ordered
  <2> QED BY <1>9
<1> HIDE DEF order
<1>11. \A i \in 1 .. n : num[order[i]] = i - 1
  <2> DEFINE g == [i \in 1 .. n |-> num[order[i]]]
  <2>1. g \in [1 .. n -> 0 .. n - 1]
      BY <1>1, <1>5, <1>10
  <2>2. ASSUME NEW i \in 1 .. n, NEW j \in 1 .. n, i < j PROVE g[i] < g[j]
    <3>1. /\ order[i] \in 1 .. n /\ order[j] \in 1 .. n /\ order[i] # order[j]
          /\ num[order[i]] <= num[order[j]]
      <4>1. i \in places /\ j \in places
          BY <1>1
      <4>2. /\ order[i] # order[j]
            /\ chunks[order[i]].sequenceNumber <= chunks[order[j]].sequenceNumber
          BY <1>10, <2>2, <4>1
      <4>3. order[i] \in places /\ order[j] \in places
          BY <1>10, <4>1
      <4> HIDE DEF Ordered
      <4> QED BY <1>1, <1>7, <4>2, <4>3
    <3>2. /\ num[order[i]] # num[order[j]]
          /\ num[order[i]] \in Int /\ num[order[j]] \in Int
        BY <1>5, <1>6, <3>1
    <3> QED BY <3>1, <3>2
  <2>3. \A i \in 1 .. n : g[i] = i - 1
    <3> HIDE DEF g
    <3> QED BY <1>1, <2>1, <2>2, RisingNumbers
  <2> QED BY <2>3
<1>12. \A i \in 1 .. n : chunks[order[i]] = c[i]
  <2> TAKE i \in 1 .. n
  <2>1. order[i] \in 1 .. n /\ num[order[i]] = i - 1
      BY <1>1, <1>10, <1>11
  <2>2. chunks[order[i]] = c[num[order[i]] + 1]
      BY <1>5, <2>1
  <2>3. (i - 1) + 1 = i
      OBVIOUS
  <2> QED BY <2>1, <2>2, <2>3
<1> DEFINE s == [i \in places |-> chunks[order[i]]]
<1>13. [i \in DOMAIN s |-> s[i].data] = [i \in DOMAIN c |-> c[i].data]
    BY <1>1, <1>12
<1>14. FlattenSeq([i \in DOMAIN c |-> c[i].data]) = data
    BY ChunksRejoin DEF c
<1> HIDE DEF s
<1> QED BY <1>4, <1>13, <1>14 DEF s

-----------------------------------------------------------------------------
(* Packing a vector.                                                       *)

LEMMA BytesOfHalf ==
    ASSUME NEW h \in Halves
    PROVE  BytesOf(h) \in Seq(Byte) /\ Len(BytesOf(h)) = 2
<1>1. BytesOf(h)[1] \in Byte /\ BytesOf(h)[2] \in Byte
    BY BytesSurvive DEF Byte
<1> DEFINE a == BytesOf(h)[1]
           b == BytesOf(h)[2]
<1>2. BytesOf(h) = <<a, b>>
    BY DEF BytesOf
<1> HIDE DEF a, b
<1>3. a \in Byte /\ b \in Byte
    BY <1>1 DEF a, b
<1> HIDE DEF Byte
<1> QED BY <1>2, <1>3

(* The halves of a vector lie side by side.                                *)
LEMMA PackIs ==
    ASSUME NEW data \in Seq(Floats)
    PROVE  /\ Pack(data) \in Seq(Byte) /\ Len(Pack(data)) = 2 * Len(data)
           /\ \A i \in 1 .. Len(data) :
                  /\ Pack(data)[2 * i - 1] = BytesOf(FloatToHalf(data[i]))[1]
                  /\ Pack(data)[2 * i] = BytesOf(FloatToHalf(data[i]))[2]
<1> DEFINE n == Len(data)
           pair(i) == BytesOf(FloatToHalf(data[i]))
           seqs == [i \in DOMAIN data |-> BytesOf(Quantize16Bit(data)[i])]
<1>1. n \in Nat /\ DOMAIN data = 1 .. n /\ \A i \in 1 .. n : data[i] \in Floats
    OBVIOUS
<1>2. \A i \in 1 .. n : pair(i) \in Seq(Byte) /\ Len(pair(i)) = 2
    BY <1>1, ConversionsTyped, BytesOfHalf
<1>3. seqs = [i \in 1 .. n |-> pair(i)]
    BY <1>1 DEF Quantize16Bit
<1>4. Pack(data) = FlattenSeq(seqs)
    BY DEF Pack
<1> HIDE DEF n, pair, seqs
<1>5. seqs \in Seq(Seq(Byte)) /\ Len(seqs) = n
    BY <1>1, <1>2, <1>3
<1>6. PICK f \in [0 .. n -> Seq(Byte)] :
          /\ f[0] = <<>> /\ \A i \in 1 .. n : f[i] = f[i - 1] \o seqs[i]
          /\ FlattenSeq(seqs) = f[n]
    BY <1>5, Flattening
<1> DEFINE Good(k, s) == /\ Len(s) = 2 * k
                         /\ \A i \in 1 .. k : s[2 * i - 1] = pair(i)[1] /\ s[2 * i] = pair(i)[2]
           S == {k \in 0 .. n : Good(k, f[k])}
<1>7. 0 \in S
  <2>1. Good(0, <<>>)
      OBVIOUS
  <2> HIDE DEF Good
  <2> QED BY <1>1, <1>6, <2>1
<1>8. ASSUME NEW k \in 1 .. n, k - 1 \in S PROVE k \in S
  <2> DEFINE s == f[k - 1]
             t == pair(k)
  <2>1. s \in Seq(Byte) /\ t \in Seq(Byte) /\ Len(t) = 2 /\ Good(k - 1, s)
      BY <1>1, <1>2, <1>6, <1>8
  <2>2. f[k] = s \o t
      BY <1>3, <1>6
  <2> HIDE DEF s, t
  <2>3. Len(s) = 2 * (k - 1) /\ k \in Nat
      BY <1>1, <2>1
  <2>4. /\ Len(s \o t) = 2 * k
        /\ \A i \in 1 .. 2 * k : (s \o t)[i] = IF i <= 2 * (k - 1) THEN s[i] ELSE t[i - 2 * (k - 1)]
    <3>1. /\ Len(s \o t) = Len(s) + Len(t)
          /\ \A i \in 1 .. Len(s) + Len(t) :
                  (s \o t)[i] = IF i <= Len(s) THEN s[i] ELSE t[i - Len(s)]
        BY <2>1, ConcatProperties
    <3>2. Len(s) + Len(t) = 2 * k
        BY <2>1, <2>3
    <3> QED BY <2>3, <3>1, <3>2
  <2>5. ASSUME NEW i \in 1 .. k
        PROVE  (s \o t)[2 * i - 1] = pair(i)[1] /\ (s \o t)[2 * i] = pair(i)[2]
    <3>1. 2 * i - 1 \in 1 .. 2 * k /\ 2 * i \in 1 .. 2 * k
        BY <2>3
    <3>2. CASE i = k
      <4>1. 2 * i - 1 - 2 * (k - 1) = 1 /\ 2 * i - 2 * (k - 1) = 2
          BY <2>3, <3>2
      <4>2. ~(2 * i - 1 <= 2 * (k - 1)) /\ ~(2 * i <= 2 * (k - 1))
          BY <2>3, <3>2
      <4>3. (s \o t)[2 * i - 1] = t[1] /\ (s \o t)[2 * i] = t[2]
          BY <2>4, <3>1, <4>1, <4>2
      <4> QED BY <3>2, <4>3 DEF t
    <3>3. CASE i # k
      <4>1. i \in 1 .. k - 1 /\ 2 * i - 1 <= 2 * (k - 1) /\ 2 * i <= 2 * (k - 1)
          BY <2>3, <3>3
      <4>2. (s \o t)[2 * i - 1] = s[2 * i - 1] /\ (s \o t)[2 * i] = s[2 * i]
          BY <2>4, <3>1, <4>1
      <4> QED BY <2>1, <4>1, <4>2
    <3> QED BY <3>2, <3>3
  <2>6. Good(k, s \o t)
      BY <2>4, <2>5
  <2> HIDE DEF Good
  <2>7. Good(k, f[k]) /\ k \in 0 .. n
      BY <1>1, <2>2, <2>6
  <2> QED BY <2>7, Zenon
<1>9. \A k \in 0 .. n : k \in S
  <2> HIDE DEF S
  <2> QED BY <1>1, <1>7, <1>8, Induction
<1>10. Good(n, f[n]) /\ f[n] \in Seq(Byte)
  <2>1. n \in 0 .. n
      BY <1>1
  <2> HIDE DEF Good
  <2> QED BY <1>6, <1>9, <2>1
<1> QED BY <1>4, <1>6, <1>10 DEF n, pair

(* A vector whose numbers fit comes back rounded from its bytes, whatever  *)
(* its length and its signs.                                               *)
THEOREM VectorSurvives ==
    ASSUME NEW data \in Seq(Floats), \A i \in DOMAIN data : Fits(data[i])
    PROVE  Unpack(Pack(data)) = RoundedVector(data)
<1> DEFINE n == Len(data)
           bytes == Pack(data)
           halves == [i \in 1 .. Len(bytes) \div 2 |-> HalfOf(bytes[2 * i - 1], bytes[2 * i])]
<1>1. n \in Nat /\ DOMAIN data = 1 .. n /\ \A i \in 1 .. n : data[i] \in Floats
    OBVIOUS
<1>2. /\ Len(bytes) = 2 * n
      /\ \A i \in 1 .. n : /\ bytes[2 * i - 1] = BytesOf(FloatToHalf(data[i]))[1]
                           /\ bytes[2 * i] = BytesOf(FloatToHalf(data[i]))[2]
    BY PackIs
<1>3. Unpack(Pack(data)) = Dequantize16Bit(halves)
    BY DEF Unpack
<1> HIDE DEF bytes, n
<1>4. Len(bytes) \div 2 = n
    BY <1>1, <1>2
<1>5. ASSUME NEW i \in 1 .. n
      PROVE  HalfOf(bytes[2 * i - 1], bytes[2 * i]) = FloatToHalf(data[i])
  <2>1. FloatToHalf(data[i]) \in Halves
      BY <1>1, ConversionsTyped
  <2> QED BY <1>2, <2>1, BytesSurvive
<1>6. halves = Quantize16Bit(data)
    BY <1>1, <1>4, <1>5 DEF Quantize16Bit
<1> QED BY <1>3, <1>6, VectorIsRounded

-----------------------------------------------------------------------------
(* The transfer.                                                           *)

LEMMA ChunksOf ==
    ASSUME NEW k \in DOMAIN Packages
    PROVE  /\ Packages[k] \in Seq(Byte)
           /\ Len(Chunks(k)) \in Nat \ {0} /\ Len(Chunks(k)) = Total(Packages[k])
           /\ DOMAIN Chunks(k) = 1 .. Len(Chunks(k))
           /\ \A i \in DOMAIN Chunks(k) : Chunks(k)[i].sequenceNumber = i - 1
<1> DEFINE data == Packages[k]
<1>1. data \in Seq(Byte) /\ data # <<>>
    BY PackagesAssumption
<1> HIDE DEF data
<1>2. Len(data) \in Nat \ {0}
    BY <1>1
<1>3. Total(data) \in Nat /\ EndOf(data, 0) = 0 /\ EndOf(data, Total(data)) = Len(data)
    BY <1>1, EndsAre
<1>4. Total(data) # 0
    BY <1>2, <1>3
<1>5. /\ DOMAIN CreateChunks(data) = 1 .. Total(data) /\ Len(CreateChunks(data)) = Total(data)
      /\ \A i \in 1 .. Total(data) : CreateChunks(data)[i] = CutAt(data, i)
    BY <1>1, ChunksAre
<1>6. \A i : CutAt(data, i).sequenceNumber = i - 1
    BY DEF CutAt, Chunk
<1> QED BY <1>1, <1>3, <1>4, <1>5, <1>6 DEF Chunks, data

LEMMA PacketsAre ==
    /\ Len(Packages) \in Nat \ {0} /\ DOMAIN Packages = 1 .. Len(Packages)
    /\ \A p \in Packets : /\ p.package \in DOMAIN Packages
                          /\ \E i \in DOMAIN Chunks(p.package) : p.chunk = Chunks(p.package)[i]
                          /\ p = [package |-> p.package, chunk |-> p.chunk]
                          /\ p.chunk.sequenceNumber \in Numbers
    /\ \A k \in DOMAIN Packages : \A i \in DOMAIN Chunks(k) :
           [package |-> k, chunk |-> Chunks(k)[i]] \in Packets
    /\ \A k \in DOMAIN Packages : 0 .. Len(Chunks(k)) - 1 \subseteq Numbers
<1>1. Len(Packages) \in Nat \ {0} /\ DOMAIN Packages = 1 .. Len(Packages)
    BY PackagesAssumption
<1>2. \A k \in DOMAIN Packages : 0 .. Len(Chunks(k)) - 1 \subseteq Numbers
    BY DEF Numbers
<1>3. ASSUME NEW p \in Packets
      PROVE  /\ p.package \in DOMAIN Packages
             /\ \E i \in DOMAIN Chunks(p.package) : p.chunk = Chunks(p.package)[i]
             /\ p = [package |-> p.package, chunk |-> p.chunk]
             /\ p.chunk.sequenceNumber \in Numbers
  <2>0. PICK k \in DOMAIN Packages :
            \E i \in DOMAIN Chunks(k) : p = [package |-> k, chunk |-> Chunks(k)[i]]
      BY DEF Packets
  <2>1. PICK i \in DOMAIN Chunks(k) : p = [package |-> k, chunk |-> Chunks(k)[i]]
      BY <2>0
  <2>2. Chunks(k)[i].sequenceNumber \in 0 .. Len(Chunks(k)) - 1
      BY ChunksOf
  <2> QED BY <1>2, <2>1, <2>2
<1>4. \A k \in DOMAIN Packages : \A i \in DOMAIN Chunks(k) :
          [package |-> k, chunk |-> Chunks(k)[i]] \in Packets
    BY DEF Packets
<1> QED BY <1>1, <1>2, <1>3, <1>4

(* The chunk of that number has reached the receiver.                      *)
Arrived(k, i) == Receiving > k \/ (Receiving = k /\ Holds(i))

SenderOK ==
    /\ sentPackets \subseteq Numbers /\ receivedPackets \subseteq Numbers
    /\ sending \in 1 .. Len(Packages) + 1
    /\ next \in Nat
    /\ Sending => next <= Len(Chunks(sending))
    /\ ~Sending => next = 0
    /\ shared \in BOOLEAN

NetworkOK == net \subseteq Packets /\ acks \subseteq Acks

(* The chunks received are chunks of the package being received, each      *)
(* once.                                                                   *)
GotOK ==
    /\ got \in Seq({p.chunk : p \in Packets})
    /\ \A j \in DOMAIN got : [package |-> Receiving, chunk |-> got[j]] \in Packets
    /\ \A i, j \in DOMAIN got : i # j => got[i].sequenceNumber # got[j].sequenceNumber

DeliveredOK ==
    /\ delivered \in Seq(Seq(Byte)) /\ Len(delivered) <= Len(Packages)
    /\ DeliveredIntact

(* What is acknowledged has arrived, whether the sender knows it yet or    *)
(* not.                                                                    *)
AcksTrue == \A a \in acks : Arrived(a.package, a.sequenceNumber)

ReceivedTrue == ~shared => \A i \in receivedPackets : Arrived(sending, i)

TransferInv ==
    SenderOK /\ NetworkOK /\ GotOK /\ DeliveredOK /\ AcksTrue /\ ReceivedTrue /\ NothingForgotten

LEMMA TransferBegins == Init => TransferInv
<1> SUFFICES ASSUME Init PROVE TransferInv
    OBVIOUS
<1>1. SenderOK
    BY PacketsAre, ChunksOf DEF Init, SenderOK, Sending
<1>2. got = <<>> /\ delivered = <<>> /\ net = {} /\ acks = {} /\ receivedPackets = {} /\ next = 0
    BY DEF Init
<1>3. NetworkOK /\ GotOK /\ DeliveredOK /\ AcksTrue /\ ReceivedTrue
    BY <1>2, PacketsAre
       DEF NetworkOK, GotOK, DeliveredOK, DeliveredIntact, AcksTrue, ReceivedTrue
<1>4. NothingForgotten
    BY <1>2 DEF NothingForgotten
<1> QED BY <1>1, <1>3, <1>4 DEF TransferInv

(* What the receiver has it keeps.                                         *)
ReceiverUnchanged == UNCHANGED <<got, delivered>>

LEMMA ReceiverKeeps ==
    ASSUME TransferInv, ReceiverUnchanged, acks' \subseteq acks
    PROVE  /\ GotOK' /\ DeliveredOK' /\ AcksTrue'
           /\ \A k, i : Arrived(k, i)' <=> Arrived(k, i)
<1>1. got' = got /\ delivered' = delivered
    BY DEF ReceiverUnchanged
<1>2. \A k, i : Arrived(k, i)' <=> Arrived(k, i)
    BY <1>1 DEF Arrived, Receiving, Holds
<1>3. GotOK' /\ DeliveredOK'
    BY <1>1 DEF TransferInv, GotOK, DeliveredOK, DeliveredIntact, Receiving
<1>4. AcksTrue'
    BY <1>2 DEF TransferInv, AcksTrue
<1> QED BY <1>2, <1>3, <1>4

LEMMA TransmitKeeps ==
    ASSUME TransferInv, Sending, NEW i \in Nat, i < Len(Chunks(sending)), Transmit(i),
           UNCHANGED shared,
           next' \in Nat, next' <= Len(Chunks(sending)),
           \A j \in 0 .. next' - 1 : j = i \/ j \in 0 .. next - 1
    PROVE  TransferInv'
<1> DEFINE n == Len(Chunks(sending))
           p == [package |-> sending, chunk |-> Chunks(sending)[i + 1]]
<1>1. /\ sentPackets' = sentPackets \cup {i} /\ net' = net \cup {p}
      /\ UNCHANGED <<receivedPackets, sending, acks, got, delivered>>
    BY DEF Transmit, PacketSent
<1>2. sending \in DOMAIN Packages
    BY PacketsAre DEF TransferInv, SenderOK, Sending
<1>3. n \in Nat \ {0} /\ DOMAIN Chunks(sending) = 1 .. n
    BY <1>2, ChunksOf
<1>4. i + 1 \in DOMAIN Chunks(sending) /\ i \in 0 .. n - 1
    BY <1>3
<1>5. p \in Packets /\ i \in Numbers
    BY <1>2, <1>4, PacketsAre
<1> HIDE DEF p
<1>6. SenderOK' /\ NetworkOK'
    BY <1>1, <1>5 DEF TransferInv, SenderOK, NetworkOK, Sending, Chunks
<1>7. /\ GotOK' /\ DeliveredOK' /\ AcksTrue' /\ \A k, j : Arrived(k, j)' <=> Arrived(k, j)
    BY <1>1, ReceiverKeeps DEF ReceiverUnchanged
<1>8. ReceivedTrue'
  <2> SUFFICES ASSUME ~shared, NEW j \in receivedPackets PROVE Arrived(sending, j)
      BY <1>1, <1>7 DEF ReceivedTrue
  <2> QED BY DEF TransferInv, ReceivedTrue
<1>9. NothingForgotten'
  <2>1. ASSUME ~shared, NEW j \in 0 .. next' - 1
        PROVE  (j \in sentPackets' /\ j \notin receivedPackets') \/ Arrived(sending, j)
    <3>1. CASE j = i
      <4>1. j \in receivedPackets => Arrived(sending, j)
          BY <2>1 DEF TransferInv, ReceivedTrue
      <4> QED BY <1>1, <3>1, <4>1
    <3>2. CASE j # i
      <4>1. NeedsRetransmission(j) \/ Arrived(sending, j)
          BY <2>1, <3>2 DEF TransferInv, NothingForgotten, Arrived
      <4> QED BY <1>1, <4>1 DEF NeedsRetransmission
    <3> QED BY <3>1, <3>2
  <2>2. \A j : Arrived(sending, j)' <=> Arrived(sending, j)
      BY <1>1 DEF Arrived, Receiving, Holds
  <2>3. \A j : Arrived(sending, j)' <=> (Receiving > sending \/ (Receiving = sending /\ Holds(j)))'
      BY DEF Arrived
  <2> QED BY <2>1, <2>2, <2>3 DEF NothingForgotten, NeedsRetransmission
<1> QED BY <1>6, <1>7, <1>8, <1>9 DEF TransferInv

LEMMA SendNextKeeps == TransferInv /\ SendNext /\ UNCHANGED shared => TransferInv'
<1> SUFFICES ASSUME TransferInv, SendNext, UNCHANGED shared PROVE TransferInv'
    OBVIOUS
<1>1. Sending /\ next < Len(Chunks(sending)) /\ next' = next + 1 /\ Transmit(next)
    BY DEF SendNext
<1>2. next \in Nat /\ Len(Chunks(sending)) \in Nat
    BY <1>1, ChunksOf, PacketsAre DEF TransferInv, SenderOK, Sending
<1>3. next' \in Nat /\ next' <= Len(Chunks(sending))
    BY <1>1, <1>2
<1>4. \A j \in 0 .. next' - 1 : j = next \/ j \in 0 .. next - 1
    BY <1>1, <1>2
<1> QED BY <1>1, <1>2, <1>3, <1>4, TransmitKeeps

LEMMA ResendKeeps ==
    ASSUME TransferInv, NEW i \in Numbers, Resend(i), UNCHANGED shared
    PROVE  TransferInv'
<1>1. Sending /\ i < next /\ next' = next /\ Transmit(i)
    BY DEF Resend
<1>2. next \in Nat /\ next <= Len(Chunks(sending)) /\ Len(Chunks(sending)) \in Nat
    BY <1>1, ChunksOf, PacketsAre DEF TransferInv, SenderOK, Sending
<1>3. i \in Nat
    BY DEF Numbers
<1>4. i < Len(Chunks(sending)) /\ \A j \in 0 .. next' - 1 : j = i \/ j \in 0 .. next - 1
    BY <1>1, <1>2, <1>3
<1> QED BY <1>1, <1>2, <1>3, <1>4, TransmitKeeps

LEMMA NextPackageKeeps == TransferInv /\ NextPackage /\ UNCHANGED shared => TransferInv'
<1> SUFFICES ASSUME TransferInv, NextPackage, UNCHANGED shared PROVE TransferInv'
    OBVIOUS
<1>1. /\ Sending /\ sending' = sending + 1 /\ next' = 0
      /\ UNCHANGED <<net, acks, got, delivered>>
      /\ IF shared THEN UNCHANGED manager ELSE sentPackets' = {} /\ receivedPackets' = {}
    BY DEF NextPackage
<1>2. sending \in 1 .. Len(Packages) /\ Len(Packages) \in Nat
    BY <1>1, PacketsAre DEF TransferInv, SenderOK, Sending
<1>3. SenderOK'
  <2>1. sending' \in 1 .. Len(Packages) + 1 /\ next' \in Nat
      BY <1>1, <1>2
  <2>2. sentPackets' \subseteq Numbers /\ receivedPackets' \subseteq Numbers
      BY <1>1 DEF TransferInv, SenderOK, manager
  <2>3. Sending' => 0 <= Len(Chunks(sending))'
    <3> SUFFICES ASSUME sending' <= Len(Packages) PROVE 0 <= Len(Chunks(sending'))
        BY DEF Sending, Chunks
    <3>1. sending' \in DOMAIN Packages
        BY <1>2, <2>1, PacketsAre
    <3>2. Len(Chunks(sending')) \in Nat
        BY <3>1, ChunksOf
    <3> QED BY <3>2
  <2> QED BY <1>1, <2>1, <2>2, <2>3 DEF SenderOK, TransferInv
<1>4. /\ GotOK' /\ DeliveredOK' /\ AcksTrue'
    BY <1>1, ReceiverKeeps DEF ReceiverUnchanged
<1>5. ReceivedTrue' /\ NothingForgotten'
    BY <1>1 DEF ReceivedTrue, NothingForgotten
<1>6. NetworkOK'
    BY <1>1 DEF TransferInv, NetworkOK
<1> QED BY <1>3, <1>4, <1>5, <1>6 DEF TransferInv

(* A packet is struck off only when an acknowledgement of it has come.     *)
LEMMA ReceiveAckKeeps ==
    ASSUME TransferInv, NEW a \in acks, ReceiveAck(a), UNCHANGED shared
    PROVE  TransferInv'
<1> DEFINE i == a.sequenceNumber
<1>1. /\ acks' \in {acks, acks \ {a}}
      /\ IF a.package = sending
           THEN receivedPackets' = receivedPackets \cup {i} /\ sentPackets' = sentPackets \ {i}
           ELSE UNCHANGED <<sentPackets, receivedPackets>>
      /\ UNCHANGED <<sending, next, net, got, delivered>>
    BY DEF ReceiveAck, PacketReceived, manager
<1>2. PICK p \in Packets : a = [package |-> p.package, sequenceNumber |-> p.chunk.sequenceNumber]
    BY DEF TransferInv, NetworkOK, Acks, AckOf
<1>3. i \in Numbers
    BY <1>2, PacketsAre
<1>4. a.package = sending => Arrived(sending, i)
    BY DEF TransferInv, AcksTrue
<1> HIDE DEF i
<1>5. SenderOK'
    BY <1>1, <1>3 DEF TransferInv, SenderOK, Sending, Chunks
<1>6. NetworkOK'
    BY <1>1 DEF TransferInv, NetworkOK
<1>7. GotOK' /\ DeliveredOK' /\ AcksTrue'
    BY <1>1, ReceiverKeeps DEF ReceiverUnchanged
<1>8. \A j : Arrived(sending, j)' <=> Arrived(sending, j)
    BY <1>1 DEF Arrived, Receiving, Holds
<1>9. ReceivedTrue'
  <2>1. ~shared => \A j \in receivedPackets' : Arrived(sending, j)
      BY <1>1, <1>4 DEF TransferInv, ReceivedTrue
  <2> QED BY <1>8, <2>1 DEF ReceivedTrue
<1>10. NothingForgotten'
  <2>1. ASSUME ~shared, NEW j \in 0 .. next - 1
        PROVE  (j \in sentPackets' /\ j \notin receivedPackets') \/ Arrived(sending, j)
    <3>1. NeedsRetransmission(j) \/ Arrived(sending, j)
        BY <2>1 DEF TransferInv, NothingForgotten, Arrived
    <3> QED BY <1>1, <1>4, <3>1 DEF NeedsRetransmission
  <2>2. \A j : Arrived(sending, j)' <=> (Receiving > sending \/ (Receiving = sending /\ Holds(j)))'
      BY DEF Arrived
  <2> QED BY <1>1, <1>8, <2>1, <2>2 DEF NothingForgotten, NeedsRetransmission
<1> QED BY <1>5, <1>6, <1>7, <1>9, <1>10 DEF TransferInv

(* The sender is left as it was and nothing that had arrived is lost.      *)
LEMMA ReceiverGains ==
    ASSUME TransferInv, UNCHANGED <<sentPackets, receivedPackets, sending, next, shared>>,
           \A k \in Int : \A i : Arrived(k, i) => Arrived(k, i)'
    PROVE  SenderOK' /\ ReceivedTrue' /\ NothingForgotten'
<1>1. sending \in Int
    BY PacketsAre DEF TransferInv, SenderOK
<1>2. PICK s \in Int : s = sending
    BY <1>1
<1>3. \A i : Arrived(sending, i) => Arrived(sending, i)'
  <2>1. \A i : Arrived(s, i) => Arrived(s, i)'
      BY <1>2
  <2> QED BY <1>2, <2>1 DEF Arrived
<1>4. SenderOK'
    BY DEF TransferInv, SenderOK, Sending, Chunks
<1>5. ReceivedTrue'
    BY <1>3 DEF TransferInv, ReceivedTrue
<1>6. NothingForgotten'
  <2>1. ~shared => \A i \in 0 .. next - 1 : NeedsRetransmission(i) \/ Arrived(sending, i)'
      BY <1>3 DEF TransferInv, NothingForgotten, Arrived
  <2>2. \A i : Arrived(sending, i)' <=> (Receiving > sending \/ (Receiving = sending /\ Holds(i)))'
      BY DEF Arrived
  <2> QED BY <2>1, <2>2 DEF NothingForgotten, NeedsRetransmission
<1> QED BY <1>4, <1>5, <1>6

LEMMA ReceivePacketKeeps ==
    ASSUME TransferInv, NEW p \in net, ReceivePacket(p), UNCHANGED shared
    PROVE  TransferInv'
<1> DEFINE new == p.package = Receiving /\ ~Holds(p.chunk.sequenceNumber)
           T == {x.chunk : x \in Packets}
<1>1. /\ net' \in {net, net \ {p}} /\ p.package <= Receiving
      /\ acks' = acks \cup {AckOf(p)}
      /\ got' = IF new THEN Append(got, p.chunk) ELSE got
      /\ UNCHANGED <<sentPackets, receivedPackets, sending, next, delivered>>
    BY DEF ReceivePacket, manager
<1>2. p \in Packets
    BY DEF TransferInv, NetworkOK
<1>3. got \in Seq(T) /\ p.chunk \in T
    BY <1>2 DEF TransferInv, GotOK
<1> HIDE DEF T
<1>4. /\ got' \in Seq(T)
      /\ \A j \in DOMAIN got : j \in DOMAIN got' /\ got'[j] = got[j]
      /\ \A j \in DOMAIN got' : j \in DOMAIN got \/ (new /\ j = Len(got) + 1 /\ got'[j] = p.chunk)
      /\ new => Len(got) + 1 \in DOMAIN got' /\ got'[Len(got) + 1] = p.chunk
  <2>1. CASE new
    <3> DEFINE c == p.chunk
               g == Append(got, c)
    <3>1. got' = g
        BY <1>1, <2>1
    <3>2. /\ g \in Seq(T) /\ Len(g) = Len(got) + 1 /\ g[Len(got) + 1] = c
          /\ \A j \in 1 .. Len(got) : g[j] = got[j]
          /\ Len(got) \in Nat /\ DOMAIN got = 1 .. Len(got)
        BY <1>3, AppendProperties
    <3> HIDE DEF g, c
    <3>3. DOMAIN g = 1 .. Len(got) + 1
        BY <3>2
    <3>4. \A j \in DOMAIN g : j \in DOMAIN got \/ j = Len(got) + 1
        BY <3>2, <3>3
    <3>5. Len(got) + 1 \in DOMAIN g /\ \A j \in DOMAIN got : j \in DOMAIN g
        BY <3>2, <3>3
    <3> HIDE DEF new
    <3> QED BY <2>1, <3>1, <3>2, <3>4, <3>5 DEF c
  <2>2. CASE ~new
    <3>1. got' = got
        BY <1>1, <2>2
    <3> HIDE DEF new
    <3> QED BY <1>3, <2>2, <3>1
  <2> QED BY <2>1, <2>2
<1>5. Receiving' = Receiving /\ Receiving \in Nat
    BY <1>1 DEF Receiving, TransferInv, DeliveredOK
<1>6. GotOK'
  <2>1. \A j \in DOMAIN got' : [package |-> Receiving, chunk |-> got'[j]] \in Packets
    <3> SUFFICES ASSUME NEW j \in DOMAIN got'
                 PROVE  [package |-> Receiving, chunk |-> got'[j]] \in Packets
        OBVIOUS
    <3>1. CASE j \in DOMAIN got
        BY <1>4, <3>1 DEF TransferInv, GotOK
    <3>2. CASE j \notin DOMAIN got
      <4>1. p.package = Receiving /\ got'[j] = p.chunk
          BY <1>4, <3>2
      <4>2. p = [package |-> p.package, chunk |-> p.chunk]
          BY <1>2, PacketsAre
      <4> QED BY <1>2, <4>1, <4>2
    <3> QED BY <3>1, <3>2
  <2>2. ASSUME NEW i \in DOMAIN got', NEW j \in DOMAIN got', i # j
        PROVE  got'[i].sequenceNumber # got'[j].sequenceNumber
    <3>1. CASE i \in DOMAIN got /\ j \in DOMAIN got
        BY <1>4, <2>2, <3>1 DEF TransferInv, GotOK
    <3>2. CASE i \in DOMAIN got /\ j \notin DOMAIN got
      <4>1. got'[i] = got[i] /\ got'[j] = p.chunk /\ ~Holds(p.chunk.sequenceNumber)
          BY <1>4, <3>2
      <4> QED BY <3>2, <4>1 DEF Holds
    <3>3. CASE i \notin DOMAIN got /\ j \in DOMAIN got
      <4>1. got'[j] = got[j] /\ got'[i] = p.chunk /\ ~Holds(p.chunk.sequenceNumber)
          BY <1>4, <3>3
      <4> QED BY <3>3, <4>1 DEF Holds
    <3>4. CASE i \notin DOMAIN got /\ j \notin DOMAIN got
        BY <1>4, <2>2, <3>4
    <3> QED BY <3>1, <3>2, <3>3, <3>4
  <2> QED BY <1>4, <1>5, <2>1, <2>2 DEF GotOK, T
<1>7. \A i : Holds(i) => Holds(i)'
  <2> SUFFICES ASSUME NEW i, NEW j \in DOMAIN got, got[j].sequenceNumber = i
               PROVE  \E k \in DOMAIN got' : got'[k].sequenceNumber = i
      BY DEF Holds
  <2>1. j \in DOMAIN got' /\ got'[j] = got[j]
      BY <1>4
  <2> QED BY <2>1
<1>8. \A k \in Int : \A i : Arrived(k, i) => Arrived(k, i)'
    BY <1>5, <1>7 DEF Arrived
<1>9. SenderOK' /\ ReceivedTrue' /\ NothingForgotten'
    BY <1>1, <1>8, ReceiverGains
<1>10. AckOf(p) \in Acks /\ NetworkOK'
    BY <1>1, <1>2 DEF TransferInv, NetworkOK, Acks
<1>11. AcksTrue'
  <2>1. PICK k, i : k = p.package /\ i = p.chunk.sequenceNumber
      OBVIOUS
  <2>2. Arrived(k, i)'
    <3>1. k \in Int
        BY <1>2, <2>1, PacketsAre
    <3>2. CASE k = Receiving
      <4>1. CASE Holds(i)
          BY <1>5, <1>7, <3>2, <4>1 DEF Arrived
      <4>2. CASE ~Holds(i)
        <5>1. Len(got) + 1 \in DOMAIN got' /\ got'[Len(got) + 1] = p.chunk
            BY <1>4, <2>1, <3>2, <4>2
        <5>2. Holds(i)'
            BY <2>1, <5>1 DEF Holds
        <5> QED BY <1>5, <3>2, <5>2 DEF Arrived
      <4> QED BY <4>1, <4>2
    <3>3. CASE k # Receiving
      <4>1. Receiving > k
          BY <1>1, <1>5, <2>1, <3>1, <3>3
      <4> QED BY <1>5, <4>1 DEF Arrived
    <3> QED BY <3>2, <3>3
  <2>3. ASSUME NEW a \in acks PROVE Arrived(a.package, a.sequenceNumber)'
    <3>1. PICK x \in Packets :
              a = [package |-> x.package, sequenceNumber |-> x.chunk.sequenceNumber]
        BY DEF TransferInv, NetworkOK, Acks, AckOf
    <3>2. a.package \in Int
        BY <3>1, PacketsAre
    <3>3. Arrived(a.package, a.sequenceNumber)
        BY DEF TransferInv, AcksTrue
    <3> QED BY <1>8, <3>2, <3>3
  <2>4. AckOf(p).package = k /\ AckOf(p).sequenceNumber = i
      BY <2>1 DEF AckOf
  <2>5. \A a \in acks' : a \in acks \/ (a.package = k /\ a.sequenceNumber = i)
      BY <1>1, <2>4
  <2>6. \A a \in acks' : Arrived(a.package, a.sequenceNumber)'
      BY <2>2, <2>3, <2>5
  <2> QED BY <2>6 DEF AcksTrue
<1>12. DeliveredOK'
    BY <1>1 DEF TransferInv, DeliveredOK, DeliveredIntact
<1> QED BY <1>6, <1>9, <1>10, <1>11, <1>12 DEF TransferInv

(* As many chunks as the package has, each once, are all of them.          *)
LEMMA ReassembleKeeps == TransferInv /\ Reassemble /\ UNCHANGED shared => TransferInv'
<1> SUFFICES ASSUME TransferInv, Reassemble, UNCHANGED shared PROVE TransferInv'
    OBVIOUS
<1> DEFINE k == Receiving
           data == Packages[k]
<1>1. /\ k <= Len(Packages) /\ Len(got) = Len(Chunks(k))
      /\ delivered' = Append(delivered, ReassembleChunks(got)) /\ got' = <<>>
      /\ UNCHANGED <<sentPackets, receivedPackets, sending, next, net, acks>>
    BY DEF Reassemble, manager
<1>2. /\ delivered \in Seq(Seq(Byte)) /\ Len(delivered) \in Nat /\ k = Len(delivered) + 1
      /\ Len(Packages) \in Nat
    BY PacketsAre DEF TransferInv, DeliveredOK, Receiving
<1>3. k \in DOMAIN Packages
    BY <1>1, <1>2, PacketsAre
<1>4. ReassembleChunks(got) = data /\ data \in Seq(Byte)
  <2>1. data \in Seq(Byte) /\ Len(got) = Total(data)
      BY <1>1, <1>3, ChunksOf
  <2>2. DOMAIN got = 1 .. Total(data)
      BY <2>1 DEF TransferInv, GotOK
  <2>3. ASSUME NEW j \in DOMAIN got
        PROVE  \E i \in 1 .. Total(data) : got[j] = CreateChunks(data)[i]
    <3>1. PICK p \in Packets : p = [package |-> k, chunk |-> got[j]]
        BY DEF TransferInv, GotOK
    <3>2. p.package = k /\ p.chunk = got[j]
        BY <3>1
    <3>3. PICK i \in DOMAIN Chunks(k) : got[j] = Chunks(k)[i]
      <4>1. \E i \in DOMAIN Chunks(p.package) : p.chunk = Chunks(p.package)[i]
          BY PacketsAre
      <4> QED BY <3>2, <4>1
    <3>4. DOMAIN Chunks(k) = 1 .. Total(data) /\ Chunks(k) = CreateChunks(data)
        BY <1>3, ChunksOf DEF Chunks
    <3> QED BY <3>3, <3>4
  <2>4. \A i, j \in DOMAIN got : i # j => got[i].sequenceNumber # got[j].sequenceNumber
      BY DEF TransferInv, GotOK
  <2> HIDE DEF data
  <2> QED BY <2>1, <2>2, <2>3, <2>4, OrderIsRestored
<1> HIDE DEF k
<1>5. /\ delivered' \in Seq(Seq(Byte)) /\ Len(delivered') = k /\ delivered'[k] = data
      /\ \A j \in 1 .. Len(delivered) : delivered'[j] = delivered[j]
      /\ \A j \in DOMAIN delivered' : j \in 1 .. Len(delivered) \/ j = k
  <2> HIDE DEF data
  <2> QED BY <1>1, <1>2, <1>4, AppendProperties
<1>6. DeliveredOK'
  <2>1. \A j \in 1 .. Len(delivered) : delivered[j] = Packages[j]
      BY <1>2 DEF TransferInv, DeliveredOK, DeliveredIntact
  <2>2. DeliveredIntact'
      BY <1>5, <2>1 DEF DeliveredIntact
  <2> QED BY <1>1, <1>5, <2>2 DEF DeliveredOK
<1>7. GotOK'
    BY <1>1 DEF GotOK
<1>8. \A j \in Int : \A i : Arrived(j, i) => Arrived(j, i)'
  <2>1. Receiving = k /\ Receiving' = k + 1 /\ k \in Nat
      BY <1>2, <1>5 DEF Receiving, k
  <2>2. \A j \in Int : k > j \/ k = j => k + 1 > j
      BY <2>1
  <2> QED BY <2>1, <2>2 DEF Arrived
<1>9. SenderOK' /\ ReceivedTrue' /\ NothingForgotten'
    BY <1>1, <1>8, ReceiverGains
<1>10. AcksTrue'
  <2>1. ASSUME NEW a \in acks PROVE Arrived(a.package, a.sequenceNumber)'
    <3>1. PICK x \in Packets :
              a = [package |-> x.package, sequenceNumber |-> x.chunk.sequenceNumber]
        BY DEF TransferInv, NetworkOK, Acks, AckOf
    <3>2. a.package \in Int
        BY <3>1, PacketsAre
    <3>3. Arrived(a.package, a.sequenceNumber)
        BY DEF TransferInv, AcksTrue
    <3> QED BY <1>8, <3>2, <3>3
  <2> QED BY <1>1, <2>1 DEF AcksTrue
<1>11. NetworkOK'
    BY <1>1 DEF TransferInv, NetworkOK
<1> QED BY <1>6, <1>7, <1>9, <1>10, <1>11 DEF TransferInv

LEMMA LoseKeeps == TransferInv /\ Lose /\ UNCHANGED shared => TransferInv'
<1> SUFFICES ASSUME TransferInv, Lose, UNCHANGED shared PROVE TransferInv'
    OBVIOUS
<1>1. /\ net' \subseteq net /\ acks' \subseteq acks
      /\ UNCHANGED <<sentPackets, receivedPackets, sending, next, got, delivered>>
    BY DEF Lose, manager
<1>2. GotOK' /\ DeliveredOK' /\ AcksTrue' /\ \A k, i : Arrived(k, i)' <=> Arrived(k, i)
    BY <1>1, ReceiverKeeps DEF ReceiverUnchanged
<1>3. SenderOK' /\ ReceivedTrue' /\ NothingForgotten'
    BY <1>1, <1>2, ReceiverGains
<1>4. NetworkOK'
    BY <1>1 DEF TransferInv, NetworkOK
<1> QED BY <1>2, <1>3, <1>4 DEF TransferInv

LEMMA TransferStep == TransferInv /\ [Next]_vars => TransferInv'
<1> SUFFICES ASSUME TransferInv, [Next]_vars PROVE TransferInv'
    OBVIOUS
<1>1. CASE UNCHANGED vars
  <2>1. /\ UNCHANGED <<sentPackets, receivedPackets, sending, next, net, acks, got,
                       delivered, shared>>
      BY <1>1 DEF vars, transfer, manager
  <2>2. GotOK' /\ DeliveredOK' /\ AcksTrue' /\ \A k, i : Arrived(k, i)' <=> Arrived(k, i)
      BY <2>1, ReceiverKeeps DEF ReceiverUnchanged
  <2>3. SenderOK' /\ ReceivedTrue' /\ NothingForgotten'
      BY <2>1, <2>2, ReceiverGains
  <2> QED BY <2>1, <2>2, <2>3 DEF TransferInv, NetworkOK
<1>2. CASE Next
  <2>1. UNCHANGED shared
      BY <1>2 DEF Next
  <2>2. CASE SendNext \/ NextPackage \/ Reassemble \/ Lose
      BY <2>1, <2>2, SendNextKeeps, NextPackageKeeps, ReassembleKeeps, LoseKeeps
  <2>3. CASE \E i \in Numbers : Resend(i)
      BY <2>1, <2>3, ResendKeeps
  <2>4. CASE \E p \in net : ReceivePacket(p)
      BY <2>1, <2>4, ReceivePacketKeeps
  <2>5. CASE \E a \in acks : ReceiveAck(a)
      BY <2>1, <2>5, ReceiveAckKeeps
  <2> QED BY <1>2, <2>2, <2>3, <2>4, <2>5 DEF Next
<1> QED BY <1>1, <1>2

-----------------------------------------------------------------------------
(* Whatever is sent, lost, repeated or reordered, in chunks of any size,   *)
(* every set, number and message of the transfer stays what it should be,  *)
(* and the receiver holds no chunk twice.                                  *)
THEOREM TransferTypes == Spec => []TypeOK
<1>1. ASSUME TransferInv PROVE TypeOK
  <2>1. next \in Numbers \cup {Len(Chunks(k)) : k \in DOMAIN Packages}
    <3>1. CASE Sending
      <4>1. sending \in DOMAIN Packages /\ next \in Nat /\ next <= Len(Chunks(sending))
          BY <1>1, <3>1, PacketsAre DEF TransferInv, SenderOK, Sending
      <4>2. Len(Chunks(sending)) \in Nat
          BY <4>1, ChunksOf
      <4>3. next = Len(Chunks(sending)) \/ next \in 0 .. Len(Chunks(sending)) - 1
          BY <4>1, <4>2
      <4> QED BY <4>1, <4>3, PacketsAre
    <3>2. CASE ~Sending
      <4>1. next = 0
          BY <1>1, <3>2 DEF TransferInv, SenderOK
      <4>2. 1 \in DOMAIN Packages
          BY PacketsAre
      <4>3. 0 \in 0 .. Len(Chunks(1)) - 1
          BY <4>2, ChunksOf
      <4> QED BY <4>1, <4>2, <4>3, PacketsAre
    <3> QED BY <3>1, <3>2
  <2> QED BY <1>1, <2>1 DEF TransferInv, SenderOK, NetworkOK, GotOK, DeliveredOK, TypeOK
<1> QED BY <1>1, TransferBegins, TransferStep, PTL DEF Spec

(* What is put together is what was sent, of packages of any size.         *)
THEOREM DeliveryIsIntact == Spec => []DeliveredIntact
<1>1. TransferInv => DeliveredIntact
    BY DEF TransferInv, DeliveredOK
<1> QED BY <1>1, TransferBegins, TransferStep, PTL DEF Spec

(* needsRetransmission forgets nothing, if each package has a manager of   *)
(* its own.                                                                *)
THEOREM NoChunkIsForgotten == Spec => []NothingForgotten
<1>1. TransferInv => NothingForgotten
    BY DEF TransferInv
<1> QED BY <1>1, TransferBegins, TransferStep, PTL DEF Spec

(* Vectors arrive rounded, whatever their length and the size of the       *)
(* chunks.                                                                 *)
THEOREM VectorsAreDelivered == Spec => []VectorsArrive
<1>1. ASSUME TransferInv PROVE VectorsArrive
  <2> SUFFICES ASSUME NEW k \in DOMAIN delivered, \A i \in DOMAIN Vectors[k] : Fits(Vectors[k][i])
               PROVE  Unpack(delivered[k]) = RoundedVector(Vectors[k])
      BY DEF VectorsArrive
  <2>1. delivered[k] = Packages[k] /\ k \in DOMAIN Packages
      BY <1>1, PacketsAre DEF TransferInv, DeliveredOK, DeliveredIntact
  <2>2. Vectors[k] \in Seq(Floats) /\ Packages[k] = Pack(Vectors[k])
      BY <2>1, PackagesAreVectors
  <2> QED BY <2>1, <2>2, VectorSurvives
<1> QED BY <1>1, TransferBegins, TransferStep, PTL DEF Spec

=============================================================================
