--------------------------- MODULE Network_proofs ---------------------------
(***************************************************************************)
(* Proofs about Routing and Network, for any ids and any number of links.  *)
(* A search is right because prev gives every node reached a depth and the *)
(* queue is in the order of the depths.  What Within, Fresh and RouteTo    *)
(* compute step by step is found by induction, which rests on the fact     *)
(* that a set of numbers has a least element.                              *)
(***************************************************************************)
EXTENDS Network, FiniteSetTheorems, TLAPS

-----------------------------------------------------------------------------
(* Induction over numbers, and what is computed step by step.              *)

(* A set of numbers that is not empty has a least element.                 *)
LEMMA LeastNumber ==
    ASSUME NEW T, T \subseteq Nat, T # {}
    PROVE  \E x \in T : \A y \in T : x <= y
<1> DEFINE R == OpToRel(<, Nat)
<1>1. IsWellFoundedOn(R, Nat)
    BY NatLessThanWellFounded
<1>2. \A x, y \in Nat : y < x => <<y, x>> \in R
    BY DEF OpToRel
<1> HIDE DEF R
<1>3. PICK x \in T : \A y \in T : <<y, x>> \notin R
    BY <1>1, WFMin
<1>4. ASSUME NEW y \in T PROVE x <= y
  <2>1. x \in Nat /\ y \in Nat /\ <<y, x>> \notin R
      BY <1>3
  <2>2. ~(y < x)
      BY <1>2, <2>1
  <2> QED BY <2>1, <2>2
<1> QED BY <1>4

(* Induction over the numbers up to N.                                     *)
LEMMA Induction ==
    ASSUME NEW N \in Nat, NEW S, 0 \in S, \A n \in 1 .. N : n - 1 \in S => n \in S
    PROVE  \A n \in 0 .. N : n \in S
<1> SUFFICES ASSUME (0 .. N) \ S # {} PROVE FALSE
    OBVIOUS
<1>1. (0 .. N) \ S \subseteq Nat
    OBVIOUS
<1>2. PICK n \in (0 .. N) \ S : \A y \in (0 .. N) \ S : n <= y
    BY <1>1, LeastNumber
<1>3. n \in 1 .. N /\ n - 1 \in 0 .. N /\ n - 1 \in S
    BY <1>2
<1> QED BY <1>2, <1>3

(* What f computes step by step from a first value.                        *)
Computes(f, N, V, a, step) ==
    f \in [0 .. N -> V] /\ f[0] = a /\ \A k \in 1 .. N : f[k] = step[<<k, f[k - 1]>>]

(* What is computed step by step from a first value has a value.           *)
LEMMA Recursion ==
    ASSUME NEW N \in Nat, NEW V, NEW a \in V, NEW step \in [(1 .. N) \X V -> V]
    PROVE  \E f : Computes(f, N, V, a, step)
<1> DEFINE Goes(n, f) == f[0] = a /\ \A k \in 1 .. n : f[k] = step[<<k, f[k - 1]>>]
           S == {n \in 0 .. N : \E f \in [0 .. n -> V] : Goes(n, f)}
<1>1. 0 \in S
  <2> DEFINE f == [i \in 0 .. 0 |-> a]
  <2>1. f \in [0 .. 0 -> V] /\ Goes(0, f)
      OBVIOUS
  <2> HIDE DEF f, Goes
  <2> QED BY <2>1
<1>2. ASSUME NEW n \in 1 .. N, n - 1 \in S PROVE n \in S
  <2>1. PICK f \in [0 .. n - 1 -> V] : Goes(n - 1, f)
      BY <1>2
  <2> DEFINE last == step[<<n, f[n - 1]>>]
             g == [i \in 0 .. n |-> IF i = n THEN last ELSE f[i]]
  <2>2. last \in V
    <3>1. f[n - 1] \in V
        BY <2>1
    <3> QED BY <3>1
  <2>3. g \in [0 .. n -> V] /\ g[n] = last /\ \A i \in 0 .. n - 1 : g[i] = f[i]
      BY <2>1, <2>2
  <2> HIDE DEF g
  <2>4. g[0] = a
      BY <2>1, <2>3
  <2>5. ASSUME NEW k \in 1 .. n PROVE g[k] = step[<<k, g[k - 1]>>]
    <3>1. g[k - 1] = f[k - 1]
        BY <2>3
    <3>2. CASE k = n
        BY <2>3, <3>1, <3>2
    <3>3. CASE k # n
      <4>1. k \in 1 .. n - 1 /\ g[k] = f[k]
          BY <2>3, <3>3
      <4> QED BY <2>1, <3>1, <4>1
    <3> QED BY <3>2, <3>3
  <2>6. Goes(n, g)
      BY <2>4, <2>5
  <2> HIDE DEF Goes
  <2> QED BY <2>3, <2>6
<1>3. \A n \in 0 .. N : n \in S
  <2> HIDE DEF S
  <2> QED BY <1>1, <1>2, Induction
<1>4. PICK f \in [0 .. N -> V] : Goes(N, f)
    BY <1>3
<1> QED BY <1>4 DEF Computes

-----------------------------------------------------------------------------
GraphOK == nodes \subseteq Ids /\ adj \in [nodes -> Seq(nodes)]

(* The longest route has fewer links than there are ids.                   *)
Far == Cardinality(Ids)

IsWithin(w) ==
    /\ w \in [0 .. Far -> SUBSET nodes]
    /\ w[0] = {source}
    /\ \A k \in 1 .. Far : w[k] = w[k - 1] \cup UNION {Neighbours(n) : n \in w[k - 1]}

LEMMA FarType == Far \in Nat
BY IdsAreFinite, FS_CardinalityType DEF Far

LEMMA NeighboursAreNodes ==
    ASSUME GraphOK, NEW n \in nodes
    PROVE  Neighbours(n) \subseteq nodes
<1> DEFINE s == adj[n]
<1>1. s \in Seq(nodes)
    BY DEF GraphOK
<1> HIDE DEF s
<1>2. {s[i] : i \in DOMAIN s} \subseteq nodes
    BY <1>1
<1> QED BY <1>2 DEF Neighbours, s

LEMMA WithinIs == GraphOK /\ source \in nodes => IsWithin(Within)
<1> SUFFICES ASSUME GraphOK, source \in nodes PROVE IsWithin(Within)
    OBVIOUS
<1> DEFINE More(S) == S \cup UNION {Neighbours(n) : n \in S}
           step == [p \in (1 .. Far) \X SUBSET nodes |-> More(p[2])]
<1>1. ASSUME NEW S \in SUBSET nodes PROVE More(S) \in SUBSET nodes
    BY NeighboursAreNodes
<1>2. step \in [(1 .. Far) \X SUBSET nodes -> SUBSET nodes]
  <2> HIDE DEF More
  <2> QED BY <1>1
<1>3. \A k \in 1 .. Far, S \in SUBSET nodes : step[<<k, S>>] = More(S)
    OBVIOUS
<1> HIDE DEF step
<1>4. PICK f : Computes(f, Far, SUBSET nodes, {source}, step)
  <2>1. {source} \in SUBSET nodes
      OBVIOUS
  <2> QED BY <1>2, <2>1, FarType, Recursion
<1>5. ASSUME NEW k \in 1 .. Far PROVE f[k] = More(f[k - 1])
  <2>1. f[k - 1] \in SUBSET nodes
      BY <1>4, FarType DEF Computes
  <2> HIDE DEF More
  <2> QED BY <1>3, <1>4, <2>1 DEF Computes
<1> DEFINE Fix(g) == g = [k \in 0 .. Far |-> IF k = 0 THEN {source} ELSE More(g[k - 1])]
<1>6. Fix(f)
  <2> HIDE DEF More
  <2> QED BY <1>4, <1>5, FarType DEF Computes
<1>7. Within = CHOOSE g : Fix(g)
    BY DEF Within, Far
<1> DEFINE w == Within
<1> HIDE DEF w
<1>8. Fix(w)
  <2> HIDE DEF Fix
  <2> QED BY <1>6, <1>7 DEF w
<1>9. w[0] = {source} /\ \A k \in 1 .. Far : w[k] = More(w[k - 1])
  <2>1. w = [k \in 0 .. Far |-> IF k = 0 THEN {source} ELSE More(w[k - 1])]
      BY <1>8
  <2> HIDE DEF More, Fix
  <2>2. \A k \in 0 .. Far : w[k] = IF k = 0 THEN {source} ELSE More(w[k - 1])
      BY <2>1, Zenon
  <2> QED BY <2>2, FarType
<1> DEFINE S == {k \in 0 .. Far : w[k] = f[k]}
<1>10. 0 \in S
  <2>1. w[0] = f[0] /\ 0 \in 0 .. Far
    <3>1. w[0] = {source} /\ f[0] = {source}
        BY <1>4, <1>9, Zenon DEF Computes
    <3> QED BY <3>1, FarType
  <2> QED BY <2>1, Zenon
<1>11. ASSUME NEW k \in 1 .. Far, k - 1 \in S PROVE k \in S
  <2> HIDE DEF More
  <2> QED BY <1>5, <1>9, <1>11, FarType
<1>12. \A k \in 0 .. Far : k \in S
  <2> HIDE DEF S
  <2> QED BY <1>10, <1>11, FarType, Induction
<1>13. w \in [0 .. Far -> SUBSET nodes]
  <2>1. \A k \in 0 .. Far : w[k] \in SUBSET nodes
      BY <1>12, <1>4 DEF Computes
  <2>2. DOMAIN w = 0 .. Far /\ w = [k \in 0 .. Far |-> w[k]]
    <3> HIDE DEF More
    <3> QED BY <1>8
  <2> QED BY <2>1, <2>2
<1> QED BY <1>9, <1>13 DEF IsWithin, w

LEMMA WithinGrows ==
    ASSUME NEW w, IsWithin(w)
    PROVE  \A j \in 0 .. Far : \A i \in 0 .. j : w[i] \subseteq w[j]
<1> DEFINE S == {j \in 0 .. Far : \A i \in 0 .. j : w[i] \subseteq w[j]}
<1>1. 0 \in S
    BY FarType
<1>2. ASSUME NEW j \in 1 .. Far, j - 1 \in S PROVE j \in S
  <2>1. w[j - 1] \subseteq w[j]
      BY DEF IsWithin
  <2>2. \A i \in 0 .. j : i = j \/ i \in 0 .. j - 1
      BY FarType
  <2> QED BY <1>2, <2>1, <2>2, FarType
<1>3. \A j \in 0 .. Far : j \in S
  <2> HIDE DEF S
  <2> QED BY <1>1, <1>2, FarType, Induction
<1> QED BY <1>3

DistancesKnown ==
    \A w, n : \A k \in 0 .. Far :
        IsWithin(w) /\ n \in w[k] /\ (k > 0 => n \notin w[k - 1]) => Distance(n) = k

(* However the nodes within reach are counted, it is the same distance.    *)
LEMMA DistanceIs == GraphOK /\ source \in nodes => DistancesKnown
<1> SUFFICES ASSUME GraphOK, source \in nodes,
                    NEW w, NEW n, NEW k \in 0 .. Far,
                    IsWithin(w), n \in w[k], k > 0 => n \notin w[k - 1]
             PROVE  Distance(n) = k
    BY DEF DistancesKnown
<1> DEFINE v == Within
<1>1. IsWithin(v)
    BY WithinIs
<1>2. \A j \in 0 .. Far : v[j] = w[j]
  <2> DEFINE S == {j \in 0 .. Far : v[j] = w[j]}
  <2> HIDE DEF v
  <2>1. 0 \in S
    <3>1. v[0] = {source} /\ w[0] = {source}
        BY <1>1 DEF IsWithin
    <3>2. 0 \in 0 .. Far /\ v[0] = w[0]
        BY <3>1, FarType
    <3> QED BY <3>2, Zenon
  <2>2. ASSUME NEW j \in 1 .. Far, j - 1 \in S PROVE j \in S
    <3> DEFINE More(T) == T \cup UNION {Neighbours(m) : m \in T}
    <3>1. v[j] = More(v[j - 1]) /\ w[j] = More(w[j - 1])
        BY <1>1 DEF IsWithin
    <3> HIDE DEF More
    <3> QED BY <2>2, <3>1, FarType
  <2>3. \A j \in 0 .. Far : j \in S
    <3> HIDE DEF S
    <3> QED BY <2>1, <2>2, FarType, Induction
  <2> QED BY <2>3
<1> DEFINE At(j) == j \in 0 .. Far /\ n \in v[j] /\ (j > 0 => n \notin v[j - 1])
<1>3. Distance(n) = CHOOSE j \in 0 .. Far : n \in v[j] /\ (j > 0 => n \notin v[j - 1])
    BY DEF Distance, Far
<1> HIDE DEF v
<1>4. At(k)
    BY <1>2, FarType
<1>5. ASSUME NEW i, NEW j, At(i), At(j), i < j PROVE FALSE
  <2>1. i \in 0 .. j - 1 /\ j - 1 \in 0 .. Far
      BY <1>5, FarType
  <2>2. v[i] \subseteq v[j - 1]
      BY <1>1, <2>1, WithinGrows
  <2> QED BY <1>5, <2>2, FarType
<1>6. \A i, j : At(i) /\ At(j) => i = j
  <2> SUFFICES ASSUME NEW i, NEW j, At(i), At(j) PROVE i = j
      OBVIOUS
  <2>1. i \in Nat /\ j \in Nat
      BY FarType
  <2> HIDE DEF At
  <2>2. ~(i < j) /\ ~(j < i)
      BY <1>5
  <2> QED BY <2>1, <2>2
<1>7. Distance(n) \in 0 .. Far /\ At(Distance(n))
    BY <1>3, <1>4
<1> HIDE DEF At
<1> QED BY <1>4, <1>6, <1>7

-----------------------------------------------------------------------------
Members(s) == {s[i] : i \in DOMAIN s}

LEMMA AppendMembers ==
    ASSUME NEW T, NEW s \in Seq(T), NEW x \in T
    PROVE  Append(s, x) \in Seq(T) /\ Members(Append(s, x)) = Members(s) \cup {x}
<1> DEFINE a == Append(s, x)
<1>1. /\ a \in Seq(T) /\ Len(a) = Len(s) + 1 /\ a[Len(s) + 1] = x
      /\ \A i \in 1 .. Len(s) : a[i] = s[i]
    OBVIOUS
<1>2. Len(s) \in Nat /\ DOMAIN s = 1 .. Len(s) /\ DOMAIN a = 1 .. Len(s) + 1
    BY <1>1
<1> HIDE DEF a
<1>3. \A i \in DOMAIN a : a[i] \in Members(s) \cup {x}
  <2>1. \A i \in DOMAIN a : i \in DOMAIN s \/ i = Len(s) + 1
      BY <1>2
  <2> QED BY <1>1, <1>2, <2>1 DEF Members
<1>4. \A i \in DOMAIN s : s[i] \in Members(a)
  <2>1. \A i \in DOMAIN s : i \in DOMAIN a /\ a[i] = s[i]
      BY <1>1, <1>2
  <2> QED BY <2>1 DEF Members
<1>5. x \in Members(a)
  <2>1. Len(s) + 1 \in DOMAIN a
      BY <1>2
  <2> QED BY <1>1, <2>1 DEF Members
<1>6. Members(a) = Members(s) \cup {x}
    BY <1>3, <1>4, <1>5 DEF Members
<1> QED BY <1>1, <1>6 DEF a

LEMMA ConcatMembers ==
    ASSUME NEW T, NEW s \in Seq(T), NEW t \in Seq(T)
    PROVE  s \o t \in Seq(T) /\ Members(s \o t) = Members(s) \cup Members(t)
<1> DEFINE a == s \o t
<1>1. /\ a \in Seq(T) /\ Len(a) = Len(s) + Len(t)
      /\ \A i \in 1 .. Len(s) : a[i] = s[i]
      /\ \A i \in 1 .. Len(t) : a[Len(s) + i] = t[i]
    OBVIOUS
<1>2. /\ Len(s) \in Nat /\ Len(t) \in Nat
      /\ DOMAIN s = 1 .. Len(s) /\ DOMAIN t = 1 .. Len(t) /\ DOMAIN a = 1 .. Len(s) + Len(t)
    BY <1>1
<1> HIDE DEF a
<1>3. ASSUME NEW i \in DOMAIN a PROVE a[i] \in Members(s) \cup Members(t)
  <2>1. CASE i \in DOMAIN s
      BY <1>1, <1>2, <2>1 DEF Members
  <2>2. CASE i \notin DOMAIN s
    <3>1. i - Len(s) \in 1 .. Len(t) /\ Len(s) + (i - Len(s)) = i
        BY <1>2, <1>3, <2>2
    <3>2. a[i] = t[i - Len(s)]
        BY <1>1, <3>1
    <3> QED BY <1>2, <3>1, <3>2 DEF Members
  <2> QED BY <2>1, <2>2
<1>4. \A i \in DOMAIN s : s[i] \in Members(a)
  <2>1. \A i \in DOMAIN s : i \in DOMAIN a /\ a[i] = s[i]
      BY <1>1, <1>2
  <2> QED BY <2>1 DEF Members
<1>5. \A i \in DOMAIN t : t[i] \in Members(a)
  <2>1. \A i \in DOMAIN t : Len(s) + i \in DOMAIN a /\ a[Len(s) + i] = t[i]
      BY <1>1, <1>2
  <2> QED BY <2>1 DEF Members
<1>6. Members(a) = Members(s) \cup Members(t)
    BY <1>3, <1>4, <1>5 DEF Members
<1> QED BY <1>1, <1>6 DEF a

LEMMA TailMembers ==
    ASSUME NEW T, NEW s \in Seq(T), s # <<>>
    PROVE  /\ Head(s) \in T /\ Tail(s) \in Seq(T) /\ Len(Tail(s)) = Len(s) - 1
           /\ Head(s) = s[1] /\ \A i \in 1 .. Len(Tail(s)) : Tail(s)[i] = s[i + 1]
           /\ Members(s) = {Head(s)} \cup Members(Tail(s))
<1> DEFINE t == Tail(s)
<1>1. /\ t \in Seq(T) /\ Len(t) = Len(s) - 1 /\ Len(s) \in Nat \ {0}
      /\ \A i \in 1 .. Len(t) : t[i] = s[i + 1]
    OBVIOUS
<1>2. DOMAIN s = 1 .. Len(s) /\ DOMAIN t = 1 .. Len(s) - 1 /\ Head(s) = s[1] /\ s[1] \in T
    BY <1>1
<1> HIDE DEF t
<1>3. ASSUME NEW i \in DOMAIN s PROVE s[i] = s[1] \/ s[i] \in Members(t)
  <2>1. CASE i # 1
    <3>1. i - 1 \in DOMAIN t /\ (i - 1) + 1 = i
        BY <1>1, <1>2, <2>1
    <3>2. t[i - 1] = s[i]
        BY <1>1, <1>2, <3>1
    <3> QED BY <3>1, <3>2 DEF Members
  <2> QED BY <2>1
<1>4. s[1] \in Members(s)
  <2>1. 1 \in DOMAIN s
      BY <1>1, <1>2
  <2> QED BY <2>1 DEF Members
<1>5. \A i \in DOMAIN t : t[i] \in Members(s)
  <2>1. \A i \in DOMAIN t : i + 1 \in DOMAIN s /\ s[i + 1] = t[i]
      BY <1>1, <1>2
  <2> QED BY <2>1 DEF Members
<1>6. Members(s) = {s[1]} \cup Members(t)
    BY <1>3, <1>4, <1>5 DEF Members
<1> QED BY <1>1, <1>2, <1>6 DEF t

-----------------------------------------------------------------------------
(* The queue takes each neighbour that was not reached, and nothing else.  *)
LEMMA FreshIs ==
    ASSUME GraphOK, NEW n \in nodes
    PROVE  Fresh(n) \in Seq(nodes) /\ Members(Fresh(n)) = Neighbours(n) \ Visited
<1> DEFINE s == adj[n]
           Add(i, t) == IF s[i] \in Visited \cup Members(t) THEN t ELSE Append(t, s[i])
           step == [p \in (1 .. Len(s)) \X Seq(nodes) |-> Add(p[1], p[2])]
<1>1. s \in Seq(nodes)
    BY DEF GraphOK
<1>2. Neighbours(n) = Members(s)
    BY DEF Neighbours, Members
<1>3. Fresh(n) = (CHOOSE f :
                      f = [i \in 0 .. Len(s) |->
                             IF i = 0 THEN <<>> ELSE Add(i, f[i - 1])])[Len(s)]
    BY DEF Fresh, Members
<1> HIDE DEF s
<1>4. Len(s) \in Nat /\ DOMAIN s = 1 .. Len(s) /\ \A i \in 1 .. Len(s) : s[i] \in nodes
    BY <1>1
<1>5. ASSUME NEW i \in 1 .. Len(s), NEW t \in Seq(nodes)
      PROVE  Add(i, t) \in Seq(nodes) /\ Members(Add(i, t)) = Members(t) \cup ({s[i]} \ Visited)
  <2>1. CASE s[i] \in Visited \cup Members(t)
      BY <2>1
  <2>2. CASE s[i] \notin Visited \cup Members(t)
    <3>1. Add(i, t) = Append(t, s[i]) /\ s[i] \in nodes
        BY <1>4, <2>2
    <3> HIDE DEF Add
    <3>2. Append(t, s[i]) \in Seq(nodes) /\ Members(Append(t, s[i])) = Members(t) \cup {s[i]}
        BY <3>1, AppendMembers
    <3> QED BY <2>2, <3>1, <3>2
  <2> QED BY <2>1, <2>2
<1>6. step \in [(1 .. Len(s)) \X Seq(nodes) -> Seq(nodes)]
  <2> HIDE DEF Add
  <2> QED BY <1>5
<1>7. \A i \in 1 .. Len(s), t \in Seq(nodes) : step[<<i, t>>] = Add(i, t)
  <2> HIDE DEF Add
  <2> QED OBVIOUS
<1> HIDE DEF step, Add
<1>8. PICK g : Computes(g, Len(s), Seq(nodes), <<>>, step)
  <2>1. <<>> \in Seq(nodes)
      OBVIOUS
  <2> QED BY <1>4, <1>6, <2>1, Recursion
<1> DEFINE Fix(f) == f = [i \in 0 .. Len(s) |-> IF i = 0 THEN <<>> ELSE Add(i, f[i - 1])]
           f == CHOOSE f : Fix(f)
<1>9. Fix(g)
  <2>1. ASSUME NEW i \in 1 .. Len(s) PROVE g[i] = Add(i, g[i - 1])
    <3>1. g[i - 1] \in Seq(nodes)
        BY <1>4, <1>8 DEF Computes
    <3> QED BY <1>7, <1>8, <3>1 DEF Computes
  <2> QED BY <1>4, <1>8, <2>1 DEF Computes
<1>10. Fresh(n) = f[Len(s)]
    BY <1>3
<1>11. Fix(f)
  <2> HIDE DEF Fix
  <2> QED BY <1>9
<1> HIDE DEF f
<1>12. f[0] = <<>> /\ \A i \in 1 .. Len(s) : f[i] = Add(i, f[i - 1])
  <2>1. \A i \in 0 .. Len(s) : f[i] = IF i = 0 THEN <<>> ELSE Add(i, f[i - 1])
      BY <1>11, Zenon
  <2> QED BY <1>4, <2>1
<1> DEFINE S == {k \in 0 .. Len(s) : /\ f[k] \in Seq(nodes)
                                     /\ Members(f[k]) = {s[i] : i \in 1 .. k} \ Visited}
<1>13. 0 \in S
  <2>1. <<>> \in Seq(nodes) /\ Members(<<>>) = {}
      BY DEF Members
  <2>2. {s[i] : i \in 1 .. 0} = {} /\ 0 \in 0 .. Len(s)
      BY <1>4
  <2> QED BY <1>12, <2>1, <2>2
<1>14. ASSUME NEW k \in 1 .. Len(s), k - 1 \in S PROVE k \in S
  <2>1. /\ f[k] \in Seq(nodes)
        /\ Members(f[k]) = Members(f[k - 1]) \cup ({s[k]} \ Visited)
      BY <1>5, <1>12, <1>14
  <2>2. {s[i] : i \in 1 .. k} = {s[i] : i \in 1 .. k - 1} \cup {s[k]}
    <3>1. \A i \in 1 .. k : i = k \/ i \in 1 .. k - 1
        BY <1>4
    <3>2. \A i \in 1 .. k - 1 : i \in 1 .. k
        BY <1>4
    <3> QED BY <3>1, <3>2, <1>4
  <2>3. Members(f[k - 1]) = {s[i] : i \in 1 .. k - 1} \ Visited
      BY <1>14
  <2>4. Members(f[k]) = {s[i] : i \in 1 .. k} \ Visited /\ k \in 0 .. Len(s)
      BY <1>4, <2>1, <2>2, <2>3
  <2> QED BY <2>1, <2>4
<1>15. \A k \in 0 .. Len(s) : k \in S
  <2> HIDE DEF S
  <2> QED BY <1>4, <1>13, <1>14, Induction
<1>16. Len(s) \in S
  <2> HIDE DEF S
  <2>1. Len(s) \in 0 .. Len(s)
      BY <1>4
  <2> QED BY <1>15, <2>1
<1> QED BY <1>2, <1>4, <1>10, <1>16 DEF Members

-----------------------------------------------------------------------------
Types ==
    /\ source \in Ids /\ destination \in Ids
    /\ search \in {"none", "running", "found", "failed"}
    /\ q \in Seq(Visited)
    /\ prev \in [DOMAIN prev -> Visited] /\ DOMAIN prev \subseteq nodes \ {source}

(* Every node reached has a depth, one more than the node it was reached   *)
(* from.                                                                   *)
Depths(depth) ==
    /\ depth \in [Visited -> Nat] /\ depth[source] = 0
    /\ \A m \in DOMAIN prev : depth[m] = depth[prev[m]] + 1 /\ m \in Neighbours(prev[m])
    /\ \A m \in Visited : depth[m] < Cardinality(Visited)

(* The queue is in the order of the depths, which differ by one at most,   *)
(* ...                                                                     *)
Sorted(depth) ==
    \A i, j \in DOMAIN q : i <= j => depth[q[i]] <= depth[q[j]] /\ depth[q[j]] <= depth[q[i]] + 1

(* ... and every other node reached has been expanded.                     *)
Expanded(depth) ==
    \A m \in Visited \ Members(q) :
        /\ m # destination
        /\ \A i \in DOMAIN q : depth[m] <= depth[q[i]]
        /\ \A n \in Neighbours(m) : n \in Visited /\ depth[n] <= depth[m] + 1

Ranked(depth) == Depths(depth) /\ Sorted(depth) /\ Expanded(depth)

(* The way that prev gives each node reached.                              *)
IsWay(w) ==
    /\ w \in [Visited -> Seq(nodes)]
    /\ \A m \in Visited : w[m] = IF m = source THEN <<m>> ELSE Append(w[prev[m]], m)

Running ==
    /\ source \in nodes /\ destination \in nodes
    /\ \E depth : Ranked(depth)
    /\ \E w : IsWay(w)

RoutingInv ==
    /\ GraphOK
    /\ Types
    /\ search = "running" => Running
    /\ search = "found" => route \in Seq(nodes) /\ IsRoute(route)

LEMMA VisitedIs ==
    ASSUME Types, source \in nodes
    PROVE  /\ Visited \subseteq nodes /\ source \in Visited
           /\ \A m \in Visited : m = source \/ (m \in DOMAIN prev /\ prev[m] \in Visited)
           /\ \A m \in DOMAIN prev : m \in Visited /\ m # source /\ prev[m] \in Visited
BY DEF Types, Visited

(* What holds of the source and of a node when of the one it was reached   *)
(* from, holds of every node reached.                                      *)
LEMMA ByDepth ==
    ASSUME Types, source \in nodes, NEW depth, Depths(depth),
           NEW S, source \in S, \A m \in DOMAIN prev : prev[m] \in S => m \in S
    PROVE  Visited \subseteq S
<1> DEFINE T == {depth[m] : m \in Visited \ S}
<1> SUFFICES ASSUME Visited \ S # {} PROVE FALSE
    OBVIOUS
<1>1. T \subseteq Nat /\ T # {}
    BY DEF Depths
<1>2. PICK t \in T : \A y \in T : t <= y
  <2> HIDE DEF T
  <2> QED BY <1>1, LeastNumber
<1>3. PICK m \in Visited \ S : t = depth[m]
    BY <1>2
<1>4. m \in DOMAIN prev /\ prev[m] \in Visited \ S
    BY <1>3, VisitedIs
<1>5. depth[m] = depth[prev[m]] + 1 /\ depth[prev[m]] \in Nat
    BY <1>4 DEF Depths
<1>6. depth[prev[m]] \in T
    BY <1>4
<1> HIDE DEF T
<1> QED BY <1>2, <1>3, <1>5, <1>6

LEMMA WayIs ==
    ASSUME GraphOK, Types, source \in nodes, NEW depth, Depths(depth), NEW w, IsWay(w)
    PROVE  \A m \in Visited :
               /\ Len(w[m]) = depth[m] + 1
               /\ w[m][1] = source /\ w[m][Len(w[m])] = m
               /\ \A i \in 1 .. Len(w[m]) - 1 : w[m][i + 1] \in Neighbours(w[m][i])
<1> DEFINE Good(m, s) == /\ Len(s) = depth[m] + 1
                         /\ s[1] = source /\ s[Len(s)] = m
                         /\ \A i \in 1 .. Len(s) - 1 : s[i + 1] \in Neighbours(s[i])
           S == {m \in Visited : Good(m, w[m])}
<1>1. source \in S
  <2>1. w[source] = <<source>> /\ source \in Visited /\ depth[source] = 0
      BY VisitedIs DEF IsWay, Depths
  <2>2. Good(source, <<source>>)
      BY <2>1
  <2> HIDE DEF Good
  <2> QED BY <2>1, <2>2
<1>2. ASSUME NEW m \in DOMAIN prev, prev[m] \in S PROVE m \in S
  <2> DEFINE p == prev[m]
             s == w[p]
             a == Append(s, m)
  <2>1. /\ w[m] = a /\ s \in Seq(nodes) /\ m \in nodes /\ m \in Visited
        /\ depth[m] = depth[p] + 1 /\ depth[p] \in Nat /\ m \in Neighbours(p)
      BY VisitedIs DEF IsWay, Depths
  <2>2. Good(p, s)
      BY <1>2
  <2> HIDE DEF p, s
  <2>3. /\ Len(a) = Len(s) + 1 /\ a[Len(s) + 1] = m
        /\ \A i \in 1 .. Len(s) : a[i] = s[i]
      BY <2>1
  <2> HIDE DEF a
  <2>4. Len(a) = depth[m] + 1 /\ a[1] = source /\ a[Len(a)] = m
    <3>1. Len(s) = depth[p] + 1 /\ s[1] = source
        BY <2>2
    <3>2. Len(a) = depth[m] + 1 /\ 1 \in 1 .. Len(s)
        BY <2>1, <2>3, <3>1
    <3> QED BY <2>3, <3>1, <3>2
  <2>5. ASSUME NEW i \in 1 .. Len(a) - 1 PROVE a[i + 1] \in Neighbours(a[i])
    <3>1. CASE i = Len(s)
        BY <2>1, <2>2, <2>3, <3>1
    <3>2. CASE i # Len(s)
      <4>1. i \in 1 .. Len(s) - 1 /\ i + 1 \in 1 .. Len(s) /\ i \in 1 .. Len(s)
          BY <2>1, <2>2, <2>3, <3>2
      <4> QED BY <2>2, <2>3, <4>1
    <3> QED BY <3>1, <3>2
  <2>6. Good(m, a)
      BY <2>4, <2>5
  <2> HIDE DEF Good
  <2> QED BY <2>1, <2>6
<1>3. Visited \subseteq S
  <2> HIDE DEF S
  <2> QED BY <1>1, <1>2, ByDepth
<1> QED BY <1>3

(* The route returned is the way to its node.                              *)
LEMMA RouteToIs ==
    ASSUME GraphOK, Types, source \in nodes, NEW depth, Depths(depth), NEW w, IsWay(w),
           NEW n \in Visited
    PROVE  RouteTo(n) = w[n]
<1> DEFINE One(m, v) == IF m = source THEN <<m>> ELSE Append(v[prev[m]], m)
           Fix(v) == v = [m \in Visited |-> One(m, v)]
           v == CHOOSE v : Fix(v)
<1>1. RouteTo(n) = v[n]
    BY DEF RouteTo
<1>2. Fix(w)
    BY DEF IsWay
<1>3. Fix(v)
  <2> HIDE DEF Fix
  <2> QED BY <1>2
<1> HIDE DEF v
<1>4. \A m \in Visited : v[m] = One(m, v) /\ w[m] = One(m, w)
  <2>1. v = [m \in Visited |-> One(m, v)] /\ w = [m \in Visited |-> One(m, w)]
      BY <1>2, <1>3
  <2> HIDE DEF One, Fix
  <2> QED BY <2>1, Zenon
<1> DEFINE S == {m \in Visited : v[m] = w[m]}
<1>5. source \in S
    BY <1>4, VisitedIs
<1>6. ASSUME NEW m \in DOMAIN prev, prev[m] \in S PROVE m \in S
    BY <1>4, <1>6, VisitedIs
<1>7. Visited \subseteq S
  <2> HIDE DEF S
  <2> QED BY <1>5, <1>6, ByDepth
<1> QED BY <1>1, <1>7

LEMMA DepthIsShort ==
    ASSUME GraphOK, Types, source \in nodes, NEW depth, Depths(depth)
    PROVE  \A m \in Visited : depth[m] \in 0 .. Far
<1>1. Visited \subseteq Ids
    BY VisitedIs DEF GraphOK
<1>2. Cardinality(Visited) <= Far /\ Cardinality(Visited) \in Nat
    BY <1>1, IdsAreFinite, FS_Subset, FS_CardinalityType DEF Far
<1> QED BY <1>2, FarType DEF Depths

(* A node reached is within its depth of the source, ...                   *)
LEMMA ReachedWithin ==
    ASSUME GraphOK, Types, source \in nodes, NEW depth, Depths(depth), NEW w, IsWithin(w)
    PROVE  \A m \in Visited : m \in w[depth[m]]
<1> DEFINE S == {m \in Visited : m \in w[depth[m]]}
<1>1. source \in S
    BY VisitedIs DEF Depths, IsWithin
<1>2. ASSUME NEW m \in DOMAIN prev, prev[m] \in S PROVE m \in S
  <2>1. m \in Visited /\ depth[m] = depth[prev[m]] + 1 /\ m \in Neighbours(prev[m])
      BY VisitedIs DEF Depths
  <2>2. depth[m] \in 1 .. Far /\ depth[m] - 1 = depth[prev[m]]
    <3>1. depth[m] \in 0 .. Far /\ depth[prev[m]] \in 0 .. Far
        BY <1>2, <2>1, DepthIsShort
    <3> QED BY <2>1, <3>1, FarType
  <2>3. w[depth[m]] = w[depth[m] - 1] \cup UNION {Neighbours(n) : n \in w[depth[m] - 1]}
      BY <2>2 DEF IsWithin
  <2>4. prev[m] \in w[depth[m] - 1]
      BY <1>2, <2>2
  <2> QED BY <2>1, <2>3, <2>4
<1>3. Visited \subseteq S
  <2> HIDE DEF S
  <2> QED BY <1>1, <1>2, ByDepth
<1> QED BY <1>3

(* ... and what is nearer than every node in the queue has been reached.   *)
LEMMA NearIsReached ==
    ASSUME GraphOK, Types, source \in nodes, NEW depth, Ranked(depth), NEW w, IsWithin(w),
           NEW K \in 0 .. Far, \A i \in DOMAIN q : K <= depth[q[i]]
    PROVE  \A k \in 0 .. K : \A m \in w[k] : m \in Visited /\ depth[m] <= k
<1> DEFINE S == {k \in 0 .. K : \A m \in w[k] : m \in Visited /\ depth[m] <= k}
<1>1. 0 \in S
  <2>1. w[0] = {source} /\ source \in Visited /\ depth[source] = 0
      BY VisitedIs DEF Ranked, Depths, IsWithin
  <2>2. 0 \in 0 .. K
      BY FarType
  <2> QED BY <2>1, <2>2
<1>2. ASSUME NEW k \in 1 .. K, k - 1 \in S PROVE k \in S
  <2>1. k \in 1 .. Far /\ k - 1 \in Nat /\ k \in 0 .. K
      BY FarType
  <2>2. w[k] = w[k - 1] \cup UNION {Neighbours(n) : n \in w[k - 1]}
      BY <2>1 DEF IsWithin
  <2>3. ASSUME NEW m \in w[k - 1] PROVE m \in Visited /\ depth[m] \in Nat /\ depth[m] <= k - 1
      BY <1>2, <2>3 DEF Ranked, Depths
  <2>4. ASSUME NEW m \in w[k - 1], NEW n \in Neighbours(m)
        PROVE  n \in Visited /\ depth[n] \in Nat /\ depth[n] <= k
    <3>1. m \notin Members(q)
      <4> SUFFICES ASSUME NEW i \in DOMAIN q, m = q[i] PROVE FALSE
          BY DEF Members
      <4>1. K <= depth[m]
          OBVIOUS
      <4> QED BY <2>1, <2>3, <4>1
    <3>2. n \in Visited /\ depth[n] <= depth[m] + 1
        BY <2>3, <3>1 DEF Ranked, Expanded
    <3>3. depth[n] \in Nat
        BY <3>2 DEF Ranked, Depths
    <3> QED BY <2>1, <2>3, <3>2, <3>3
  <2>5. ASSUME NEW m \in w[k] PROVE m \in Visited /\ depth[m] <= k
    <3>1. CASE m \in w[k - 1]
        BY <2>1, <2>3, <3>1
    <3>2. CASE m \notin w[k - 1]
      <4>1. PICK n \in w[k - 1] : m \in Neighbours(n)
          BY <2>2, <3>2
      <4> QED BY <2>4, <4>1
    <3> QED BY <3>1, <3>2
  <2> QED BY <2>1, <2>5
<1>3. \A k \in 0 .. K : k \in S
  <2>1. K \in Nat
      BY FarType
  <2> HIDE DEF S
  <2> QED BY <1>1, <1>2, <2>1, Induction
<1> QED BY <1>3

-----------------------------------------------------------------------------
LEMMA RoutingBegins == Init => RoutingInv
<1> SUFFICES ASSUME Init PROVE RoutingInv
    OBVIOUS
<1>1. /\ nodes = {} /\ adj = [n \in {} |-> <<>>] /\ search = "none" /\ q = <<>>
      /\ source \in Ids /\ destination \in Ids /\ DOMAIN prev = {} /\ prev = [n \in {} |-> source]
    BY DEF Init
<1>2. GraphOK /\ Types
    BY <1>1 DEF GraphOK, Types
<1> QED BY <1>1, <1>2 DEF RoutingInv

LEMMA AddNodeKeepsRoutes ==
    ASSUME RoutingInv, NEW n \in Ids, AddNode(n)
    PROVE  RoutingInv'
<1>1. /\ nodes' = nodes \cup {n} /\ n \notin nodes /\ search # "running"
      /\ adj' = [m \in nodes' |-> IF m = n THEN <<>> ELSE adj[m]]
      /\ UNCHANGED <<search, source, destination, q, prev, route>>
    BY DEF AddNode, loop
<1>2. GraphOK'
    BY <1>1 DEF RoutingInv, GraphOK
<1>3. Types'
    BY <1>1 DEF RoutingInv, Types, Visited
<1>4. ASSUME search = "found" PROVE (route \in Seq(nodes) /\ IsRoute(route))'
  <2>1. route \in Seq(nodes) /\ IsRoute(route)
      BY <1>4 DEF RoutingInv
  <2>2. \A i \in 1 .. Len(route) - 1 : route[i] \in nodes
      BY <2>1
  <2>3. \A m \in nodes : Neighbours(m)' = Neighbours(m)
      BY <1>1 DEF Neighbours
  <2>4. IsRoute(route)'
      BY <1>1, <2>1, <2>2, <2>3 DEF IsRoute
  <2>5. (route \in Seq(nodes))'
      BY <1>1, <2>1
  <2> QED BY <2>4, <2>5
<1> QED BY <1>1, <1>2, <1>3, <1>4 DEF RoutingInv

LEMMA AddLinkKeepsRoutes ==
    ASSUME RoutingInv, NEW a \in Ids, NEW b \in Ids, AddLink(a, b)
    PROVE  RoutingInv'
<1> DEFINE forth == [adj EXCEPT ![a] = Append(@, b)]
<1>1. /\ adj' = [forth EXCEPT ![b] = Append(@, a)]
      /\ a \in nodes /\ b \in nodes /\ search # "running"
      /\ UNCHANGED <<nodes, search, source, destination, q, prev, route>>
    BY DEF AddLink, WithLink, loop
<1>2. adj \in [nodes -> Seq(nodes)]
    BY DEF RoutingInv, GraphOK
<1>3. /\ forth \in [nodes -> Seq(nodes)]
      /\ forth[a] = Append(adj[a], b) /\ \A n \in nodes \ {a} : forth[n] = adj[n]
    BY <1>1, <1>2
<1> HIDE DEF forth
<1>4. /\ adj' \in [nodes -> Seq(nodes)]
      /\ adj'[b] = Append(forth[b], a) /\ \A n \in nodes \ {b} : adj'[n] = forth[n]
    BY <1>1, <1>3
<1>5. ASSUME NEW m \in nodes PROVE Neighbours(m) \subseteq Neighbours(m)'
  <2>1. adj[m] \in Seq(nodes) /\ forth[m] \in Seq(nodes)
      BY <1>2, <1>3
  <2>2. Members(adj[m]) \subseteq Members(forth[m])
    <3>1. CASE m = a
      <4>1. Members(Append(adj[m], b)) = Members(adj[m]) \cup {b}
          BY <1>1, <2>1, AppendMembers
      <4> QED BY <1>3, <3>1, <4>1
    <3>2. CASE m # a
        BY <1>3, <3>2
    <3> QED BY <3>1, <3>2
  <2>3. Members(forth[m]) \subseteq Members(adj'[m])
    <3>1. CASE m = b
      <4>1. Members(Append(forth[m], a)) = Members(forth[m]) \cup {a}
          BY <1>1, <2>1, AppendMembers
      <4> QED BY <1>4, <3>1, <4>1
    <3>2. CASE m # b
        BY <1>4, <3>2
    <3> QED BY <3>1, <3>2
  <2> QED BY <2>2, <2>3 DEF Neighbours, Members
<1>6. GraphOK'
    BY <1>1, <1>4 DEF RoutingInv, GraphOK
<1>7. Types'
    BY <1>1 DEF RoutingInv, Types, Visited
<1>8. ASSUME search = "found" PROVE (route \in Seq(nodes) /\ IsRoute(route))'
  <2>1. route \in Seq(nodes) /\ IsRoute(route)
      BY <1>8 DEF RoutingInv
  <2>2. \A i \in 1 .. Len(route) - 1 : route[i] \in nodes
      BY <2>1
  <2>3. IsRoute(route)'
      BY <1>1, <1>5, <2>1, <2>2 DEF IsRoute
  <2> QED BY <1>1, <2>1, <2>3
<1> QED BY <1>1, <1>6, <1>7, <1>8 DEF RoutingInv

(* A search begins with the source alone in the queue; linked nodes have   *)
(* their route at once.                                                    *)
LEMMA FindRouteKeepsRoutes ==
    ASSUME RoutingInv, NEW s \in Ids, NEW d \in Ids, FindRoute(s, d)
    PROVE  RoutingInv'
<1>1. /\ s \in nodes /\ d \in nodes /\ source' = s /\ destination' = d
      /\ prev' = [n \in {} |-> s] /\ UNCHANGED <<nodes, adj>>
    BY DEF FindRoute, graph
<1>2. GraphOK'
    BY <1>1 DEF RoutingInv, GraphOK
<1>3. DOMAIN prev' = {} /\ Visited' = {s}
    BY <1>1 DEF Visited
<1>4. CASE d \in Neighbours(s)
  <2>1. search' = "found" /\ route' = <<s, d>> /\ q' = <<>>
      BY <1>4 DEF FindRoute
  <2>2. Types'
      BY <1>1, <1>3, <2>1 DEF Types, RoutingInv, GraphOK
  <2>3. Neighbours(s)' = Neighbours(s)
      BY <1>1 DEF Neighbours
  <2>4. route' \in Seq(nodes') /\ IsRoute(route)'
      BY <1>1, <1>4, <2>1, <2>3 DEF IsRoute
  <2> QED BY <1>2, <2>1, <2>2, <2>4 DEF RoutingInv
<1>5. CASE d \notin Neighbours(s)
  <2>1. search' = "running" /\ route' = <<>> /\ q' = <<s>>
      BY <1>5 DEF FindRoute
  <2>2. Types'
      BY <1>1, <1>3, <2>1 DEF Types, RoutingInv, GraphOK
  <2>3. \E depth : Ranked(depth)'
    <3>1. PICK depth : depth = [m \in {s} |-> 0]
        OBVIOUS
    <3>2. Cardinality({s}) = 1
        BY FS_Singleton
    <3>3. Depths(depth)'
        BY <1>1, <1>3, <3>1, <3>2 DEF Depths
    <3>4. /\ DOMAIN q' = {1} /\ q'[1] = s /\ depth[s] = 0
        BY <2>1, <3>1
    <3>5. Sorted(depth)'
        BY <3>4 DEF Sorted
    <3>6. Visited' \ Members(q)' = {}
        BY <1>3, <3>4 DEF Members
    <3>7. Expanded(depth)'
        BY <3>6 DEF Expanded
    <3> QED BY <3>3, <3>5, <3>7 DEF Ranked
  <2>4. \E w : IsWay(w)'
    <3>1. PICK w : w = [m \in {s} |-> <<m>>]
        OBVIOUS
    <3>2. w \in [{s} -> Seq(nodes)]
        BY <1>1, <3>1
    <3>3. IsWay(w)'
        BY <1>1, <1>3, <3>1, <3>2 DEF IsWay
    <3> QED BY <3>3
  <2>5. Running'
      BY <1>1, <2>3, <2>4 DEF Running
  <2> QED BY <1>2, <2>1, <2>2, <2>5 DEF RoutingInv
<1> QED BY <1>4, <1>5

LEMMA ArriveKeepsRoutes == RoutingInv /\ Arrive => RoutingInv'
<1> SUFFICES ASSUME RoutingInv, Arrive PROVE RoutingInv'
    OBVIOUS
<1>1. /\ search = "running" /\ q # <<>> /\ Head(q) = destination
      /\ search' = "found" /\ route' = RouteTo(destination) /\ q' = Tail(q)
      /\ UNCHANGED <<nodes, adj, source, destination, prev>>
    BY DEF Arrive, graph
<1>2. GraphOK /\ Types /\ source \in nodes
    BY <1>1 DEF RoutingInv, Running
<1>3. PICK depth : Ranked(depth)
    BY <1>1 DEF RoutingInv, Running
<1>4. PICK w : IsWay(w)
    BY <1>1 DEF RoutingInv, Running
<1>5. destination \in Visited /\ q' \in Seq(Visited) /\ UNCHANGED Visited
    BY <1>1, <1>2 DEF Types, Visited
<1>6. route' = w[destination]
    BY <1>1, <1>2, <1>3, <1>4, <1>5, RouteToIs DEF Ranked
<1>7. route' \in Seq(nodes)
    BY <1>4, <1>5, <1>6 DEF IsWay
<1>8. /\ Len(route') = depth[destination] + 1 /\ depth[destination] \in Nat
      /\ route'[1] = source /\ route'[Len(route')] = destination
      /\ \A i \in 1 .. Len(route') - 1 : route'[i + 1] \in Neighbours(route'[i])
    BY <1>2, <1>3, <1>4, <1>5, <1>6, WayIs DEF Ranked, Depths
<1>9. \A n : Neighbours(n)' = Neighbours(n)
    BY <1>1 DEF Neighbours
<1>10. IsRoute(route)'
  <2>1. PICK r : r = route'
      OBVIOUS
  <2>2. Len(r) >= 1 /\ \A i \in 1 .. Len(r) - 1 : r[i + 1] \in Neighbours(r[i])'
      BY <1>8, <1>9, <2>1
  <2>3. IsRoute(r)'
      BY <1>1, <1>8, <2>1, <2>2 DEF IsRoute
  <2> QED BY <2>1, <2>3 DEF IsRoute
<1>11. GraphOK' /\ Types'
    BY <1>1, <1>2, <1>5 DEF GraphOK, Types
<1> QED BY <1>1, <1>7, <1>10, <1>11 DEF RoutingInv

LEMMA FailKeepsRoutes == RoutingInv /\ Fail => RoutingInv'
BY DEF RoutingInv, Fail, graph, GraphOK, Types, Visited

(* What is reached from the head of the queue is one deeper and goes to    *)
(* the end of the queue.                                                   *)
LEMMA ExpandKeepsRanks ==
    ASSUME GraphOK, Types, source \in nodes, NEW depth, Ranked(depth), Expand
    PROVE  \E d : Ranked(d)'
<1> DEFINE h == Head(q)
           t == Tail(q)
           new == Fresh(h)
           More == Neighbours(h) \ Visited
<1>1. /\ q # <<>> /\ h # destination /\ q' = t \o new
      /\ prev' = [m \in DOMAIN prev \cup Members(new) |-> IF m \in DOMAIN prev THEN prev[m] ELSE h]
      /\ UNCHANGED <<nodes, adj, source, destination>>
    BY DEF Expand, Enqueue, Reach, graph, Members
<1>2. /\ h \in Visited /\ t \in Seq(Visited) /\ Len(t) = Len(q) - 1 /\ Len(t) \in Nat
      /\ h = q[1] /\ \A i \in 1 .. Len(t) : t[i] = q[i + 1]
      /\ Members(q) = {h} \cup Members(t)
    BY <1>1, TailMembers DEF Types
<1>3. DOMAIN q = 1 .. Len(t) + 1 /\ DOMAIN t = 1 .. Len(t) /\ 1 \in DOMAIN q
    BY <1>2 DEF Types
<1>4. h \in nodes /\ Visited \subseteq nodes
    BY <1>2, VisitedIs
<1>5. new \in Seq(nodes) /\ Members(new) = More
    BY <1>4, FreshIs
<1>6. More \subseteq nodes
    BY <1>4, NeighboursAreNodes
<1> HIDE DEF new, t, h
<1>7. /\ Len(new) \in Nat /\ DOMAIN new = 1 .. Len(new)
      /\ \A i \in 1 .. Len(new) : new[i] \in More
    BY <1>5 DEF Members
<1>8. /\ DOMAIN q' = 1 .. Len(t) + Len(new)
      /\ \A i \in 1 .. Len(t) : q'[i] = t[i]
      /\ \A i \in 1 .. Len(new) : q'[Len(t) + i] = new[i]
      /\ Members(q)' = Members(t) \cup More
  <2>1. t \in Seq(nodes)
      BY <1>2, <1>4
  <2>2. Members(t \o new) = Members(t) \cup Members(new)
      BY <1>5, <2>1, ConcatMembers
  <2>3. Members(q)' = Members(t \o new)
      BY <1>1 DEF Members
  <2>4. /\ DOMAIN (t \o new) = 1 .. Len(t) + Len(new)
        /\ \A i \in 1 .. Len(t) : (t \o new)[i] = t[i]
        /\ \A i \in 1 .. Len(new) : (t \o new)[Len(t) + i] = new[i]
      BY <1>5, <2>1
  <2> QED BY <1>1, <1>5, <2>2, <2>3, <2>4
<1>9. Visited' = Visited \cup More
    BY <1>1, <1>5 DEF Visited
<1>10. \A n : Neighbours(n)' = Neighbours(n)
    BY <1>1 DEF Neighbours
<1> HIDE DEF More
<1>11. /\ depth \in [Visited -> Nat] /\ depth[h] \in Nat
       /\ \A i \in DOMAIN q : depth[h] <= depth[q[i]] /\ depth[q[i]] <= depth[h] + 1
  <2>1. \A i \in DOMAIN q : 1 <= i
      BY <1>2, <1>3
  <2> QED BY <1>2, <1>3, <2>1 DEF Ranked, Depths, Sorted
<1>12. PICK d : d = [m \in Visited \cup More |-> IF m \in Visited THEN depth[m] ELSE depth[h] + 1]
    OBVIOUS
<1>13. /\ d \in [Visited \cup More -> Nat]
       /\ \A m \in Visited : d[m] = depth[m]
       /\ \A m \in More : d[m] = depth[h] + 1
    BY <1>11, <1>12 DEF More
<1>14. Depths(d)'
  <2>1. d[source] = 0 /\ source \in Visited
      BY <1>13, VisitedIs DEF Ranked, Depths
  <2>2. ASSUME NEW m \in DOMAIN prev'
        PROVE  d[m] = d[prev'[m]] + 1 /\ m \in Neighbours(prev'[m])
    <3>1. CASE m \in DOMAIN prev
      <4>1. prev'[m] = prev[m] /\ m \in Visited /\ prev[m] \in Visited
          BY <1>1, <3>1, VisitedIs
      <4> QED BY <1>13, <3>1, <4>1 DEF Ranked, Depths
    <3>2. CASE m \notin DOMAIN prev
      <4>1. m \in More /\ prev'[m] = h
          BY <1>1, <1>5, <2>2, <3>2
      <4> QED BY <1>2, <1>13, <4>1 DEF More
    <3> QED BY <3>1, <3>2
  <2>3. /\ IsFiniteSet(Visited \cup More) /\ Cardinality(Visited) \in Nat
        /\ Cardinality(Visited \cup More) \in Nat
        /\ Cardinality(Visited) <= Cardinality(Visited \cup More)
    <3>1. Visited \cup More \subseteq Ids
        BY <1>4, <1>6 DEF GraphOK
    <3>2. IsFiniteSet(Visited \cup More)
        BY <3>1, IdsAreFinite, FS_Subset
    <3> QED BY <3>2, FS_Subset, FS_CardinalityType
  <2>4. ASSUME NEW m \in Visited \cup More PROVE d[m] < Cardinality(Visited \cup More)
    <3>1. CASE m \in Visited
      <4>1. depth[m] < Cardinality(Visited) /\ depth[m] \in Nat
          BY <3>1 DEF Ranked, Depths
      <4> QED BY <1>13, <2>3, <3>1, <4>1
    <3>2. CASE m \notin Visited
      <4>1. m \in More /\ Visited \cup {m} \subseteq Visited \cup More
          BY <3>2
      <4>2. IsFiniteSet(Visited) /\ IsFiniteSet(Visited \cup {m})
          BY <2>3, <4>1, FS_Subset
      <4>3. Cardinality(Visited \cup {m}) = Cardinality(Visited) + 1
          BY <3>2, <4>2, FS_AddElement
      <4>4. Cardinality(Visited \cup {m}) <= Cardinality(Visited \cup More)
          BY <2>3, <4>1, FS_Subset
      <4>5. depth[h] < Cardinality(Visited)
          BY <1>2 DEF Ranked, Depths
      <4> QED BY <1>11, <1>13, <2>3, <4>1, <4>3, <4>4, <4>5
    <3> QED BY <3>1, <3>2
  <2> QED BY <1>1, <1>9, <1>10, <1>13, <2>1, <2>2, <2>4 DEF Depths
<1>15. ASSUME NEW i \in DOMAIN q'
       PROVE  \/ /\ i \in 1 .. Len(t) /\ i + 1 \in DOMAIN q
                  /\ q'[i] = q[i + 1] /\ d[q'[i]] = depth[q[i + 1]]
              \/ i \notin 1 .. Len(t) /\ Len(t) < i /\ d[q'[i]] = depth[h] + 1
  <2>1. CASE i \in 1 .. Len(t)
    <3>1. i + 1 \in DOMAIN q /\ q'[i] = q[i + 1]
        BY <1>2, <1>3, <1>8, <2>1
    <3>2. q[i + 1] \in Visited
        BY <3>1 DEF Types
    <3> QED BY <1>13, <2>1, <3>1, <3>2
  <2>2. CASE i \notin 1 .. Len(t)
    <3>1. i - Len(t) \in 1 .. Len(new) /\ Len(t) + (i - Len(t)) = i /\ Len(t) < i
        BY <1>2, <1>7, <1>8, <1>15, <2>2
    <3>2. q'[i] \in More
        BY <1>7, <1>8, <3>1
    <3> QED BY <1>13, <2>2, <3>1, <3>2
  <2> QED BY <2>1, <2>2
<1>16. Sorted(d)'
  <2> SUFFICES ASSUME NEW i \in DOMAIN q', NEW j \in DOMAIN q', i <= j
               PROVE  d[q'[i]] <= d[q'[j]] /\ d[q'[j]] <= d[q'[i]] + 1
      BY DEF Sorted
  <2>1. i \in Nat /\ j \in Nat
      BY <1>2, <1>7, <1>8
  <2>2. \A k \in DOMAIN q : depth[q[k]] \in Nat
      BY <1>11 DEF Types
  <2>3. CASE j \in 1 .. Len(t)
    <3>1. i \in 1 .. Len(t)
        BY <1>2, <1>7, <1>8, <2>1, <2>3
    <3>2. /\ d[q'[i]] = depth[q[i + 1]] /\ d[q'[j]] = depth[q[j + 1]]
           /\ i + 1 \in DOMAIN q /\ j + 1 \in DOMAIN q
        BY <1>15, <2>3, <3>1
    <3>3. i + 1 <= j + 1
        BY <2>1
    <3> QED BY <3>2, <3>3 DEF Ranked, Sorted
  <2>4. CASE j \notin 1 .. Len(t)
    <3>1. d[q'[j]] = depth[h] + 1
        BY <1>15, <2>4
    <3>2. CASE i \in 1 .. Len(t)
      <4>1. d[q'[i]] = depth[q[i + 1]] /\ i + 1 \in DOMAIN q
          BY <1>15, <3>2
      <4> QED BY <1>11, <2>2, <3>1, <4>1
    <3>3. CASE i \notin 1 .. Len(t)
      <4>1. d[q'[i]] = depth[h] + 1
          BY <1>15, <3>3
      <4> QED BY <1>11, <3>1, <4>1
    <3> QED BY <3>2, <3>3
  <2> QED BY <2>3, <2>4
<1>17. Expanded(d)'
  <2> SUFFICES ASSUME NEW m \in (Visited \cup More) \ (Members(t) \cup More)
               PROVE  /\ m # destination
                      /\ \A i \in DOMAIN q' : d[m] <= d[q'[i]]
                      /\ \A n \in Neighbours(m) : n \in Visited \cup More /\ d[n] <= d[m] + 1
      BY <1>1, <1>8, <1>9, <1>10 DEF Expanded
  <2>1. m \in Visited /\ d[m] = depth[m] /\ depth[m] \in Nat
      BY <1>11, <1>13
  <2>2. /\ m # destination
        /\ \A i \in DOMAIN q : depth[m] <= depth[q[i]]
        /\ \A n \in Neighbours(m) : n \in Visited \cup More /\ d[n] <= depth[m] + 1
    <3>1. CASE m = h
      <4>1. ASSUME NEW n \in Neighbours(h), n \in Visited PROVE depth[n] <= depth[h] + 1
        <5>1. depth[n] \in Nat
            BY <1>11, <4>1
        <5>2. CASE n \in Members(q)
            BY <1>11, <5>2 DEF Members
        <5>3. CASE n \notin Members(q)
          <6>1. depth[n] <= depth[h]
              BY <1>2, <1>3, <4>1, <5>3 DEF Ranked, Expanded
          <6> QED BY <1>11, <5>1, <6>1
        <5> QED BY <5>2, <5>3
      <4>2. \A n \in Neighbours(h) : n \in Visited \/ n \in More
          BY DEF More
      <4> QED BY <1>1, <1>11, <1>13, <3>1, <4>1, <4>2
    <3>2. CASE m # h
      <4>1. m \in Visited \ Members(q)
          BY <1>2, <2>1, <3>2
      <4> QED BY <1>13, <4>1 DEF Ranked, Expanded
    <3> QED BY <3>1, <3>2
  <2>3. ASSUME NEW i \in DOMAIN q' PROVE d[m] <= d[q'[i]]
    <3>1. depth[m] <= depth[h]
        BY <1>2, <1>3, <2>2
    <3> QED BY <1>11, <1>15, <2>1, <2>2, <3>1
  <2> QED BY <2>1, <2>2, <2>3
<1> QED BY <1>14, <1>16, <1>17 DEF Ranked

LEMMA ExpandKeepsWays ==
    ASSUME GraphOK, Types, source \in nodes, NEW w, IsWay(w), Expand
    PROVE  (\E v : IsWay(v)') /\ Types'
<1> DEFINE h == Head(q)
           new == Fresh(h)
           More == Neighbours(h) \ Visited
<1>1. /\ q # <<>> /\ q' = Tail(q) \o new
      /\ prev' = [m \in DOMAIN prev \cup Members(new) |-> IF m \in DOMAIN prev THEN prev[m] ELSE h]
      /\ UNCHANGED <<nodes, adj, source, destination, search>>
    BY DEF Expand, Enqueue, Reach, graph, Members
<1>2. h \in Visited /\ Tail(q) \in Seq(Visited)
    BY <1>1, TailMembers DEF Types
<1>3. h \in nodes /\ Visited \subseteq nodes
    BY <1>2, VisitedIs
<1>4. new \in Seq(nodes) /\ Members(new) = More
    BY <1>3, FreshIs
<1>5. More \subseteq nodes
    BY <1>3, NeighboursAreNodes
<1> HIDE DEF new, h
<1>6. Visited' = Visited \cup More
    BY <1>1, <1>4 DEF Visited
<1>7. source \notin More /\ \A m \in More : m \notin DOMAIN prev
    BY VisitedIs DEF More
<1> HIDE DEF More
<1>8. PICK v : v = [m \in Visited \cup More |-> IF m \in Visited THEN w[m] ELSE Append(w[h], m)]
    OBVIOUS
<1>9. v \in [Visited \cup More -> Seq(nodes)]
  <2>1. \A m \in More : Append(w[h], m) \in Seq(nodes)
      BY <1>2, <1>5 DEF IsWay
  <2> QED BY <1>8, <2>1 DEF IsWay
<1>10. ASSUME NEW m \in Visited \cup More
       PROVE  v[m] = IF m = source THEN <<m>> ELSE Append(v[prev'[m]], m)
  <2>1. CASE m = source
      BY <1>8, <2>1, VisitedIs DEF IsWay
  <2>2. CASE m # source /\ m \in Visited
    <3>1. m \in DOMAIN prev /\ prev'[m] = prev[m] /\ prev[m] \in Visited
        BY <1>1, <2>2, VisitedIs
    <3> QED BY <1>8, <2>2, <3>1 DEF IsWay
  <2>3. CASE m \in More
    <3>1. m \notin Visited /\ prev'[m] = h /\ m # source
        BY <1>1, <1>4, <1>7, <2>3 DEF More
    <3> QED BY <1>2, <1>8, <2>3, <3>1
  <2> QED BY <2>1, <2>2, <2>3
<1>11. IsWay(v)'
    BY <1>1, <1>6, <1>9, <1>10 DEF IsWay
<1>12. Types'
  <2>1. q' \in Seq(Visited')
    <3>1. new \in Seq(Visited \cup More)
      <4>1. \A i \in DOMAIN new : new[i] \in More
          BY <1>4 DEF Members
      <4> QED BY <1>4, <4>1
    <3>2. Tail(q) \in Seq(Visited \cup More)
        BY <1>2
    <3> QED BY <1>1, <1>6, <3>1, <3>2
  <2>2. /\ prev' \in [DOMAIN prev' -> Visited'] /\ DOMAIN prev' \subseteq nodes \ {source}
    <3>1. DOMAIN prev' = DOMAIN prev \cup More
        BY <1>1, <1>4
    <3>2. \A m \in DOMAIN prev' : prev'[m] \in Visited
        BY <1>1, <1>2, <3>1, VisitedIs
    <3>3. prev' = [m \in DOMAIN prev' |-> prev'[m]]
        BY <1>1
    <3> QED BY <1>5, <1>6, <1>7, <3>1, <3>2, <3>3 DEF Types
  <2> QED BY <1>1, <2>1, <2>2 DEF Types
<1> QED BY <1>11, <1>12

LEMMA ExpandKeepsRoutes == RoutingInv /\ Expand => RoutingInv'
<1> SUFFICES ASSUME RoutingInv, Expand PROVE RoutingInv'
    OBVIOUS
<1>1. search = "running" /\ UNCHANGED <<nodes, adj, search, source, destination>>
    BY DEF Expand, graph
<1>2. GraphOK /\ Types /\ Running
    BY <1>1 DEF RoutingInv
<1>3. Types' /\ \E w : IsWay(w)'
    BY <1>2, ExpandKeepsWays DEF Running
<1>4. \E depth : Ranked(depth)'
    BY <1>2, ExpandKeepsRanks DEF Running
<1>5. Running'
    BY <1>1, <1>2, <1>3, <1>4 DEF Running
<1> QED BY <1>1, <1>2, <1>3, <1>5 DEF RoutingInv, GraphOK

LEMMA RoutingStep == RoutingInv /\ [Next]_vars => RoutingInv'
<1> SUFFICES ASSUME RoutingInv, [Next]_vars PROVE RoutingInv'
    OBVIOUS
<1>1. CASE \E n \in Ids : AddNode(n)
    BY <1>1, AddNodeKeepsRoutes
<1>2. CASE \E a, b \in Ids : AddLink(a, b) \/ FindRoute(a, b)
    BY <1>2, AddLinkKeepsRoutes, FindRouteKeepsRoutes
<1>3. CASE Search
    BY <1>3, ArriveKeepsRoutes, ExpandKeepsRoutes, FailKeepsRoutes DEF Search
<1>4. CASE UNCHANGED vars
  <2>1. /\ UNCHANGED <<nodes, adj, search, source, destination, q, prev, route>>
        /\ UNCHANGED Visited
      BY <1>4 DEF vars, graph, loop, Visited
  <2>2. GraphOK' /\ Types'
      BY <2>1 DEF RoutingInv, GraphOK, Types
  <2>3. Running => Running'
    <3>1. \A depth : Ranked(depth) => Ranked(depth)'
      <4> SUFFICES ASSUME NEW depth, Ranked(depth) PROVE Ranked(depth)'
          OBVIOUS
      <4>1. \A n : Neighbours(n)' = Neighbours(n)
          BY <2>1 DEF Neighbours
      <4>2. Depths(depth)' /\ Sorted(depth)'
          BY <2>1, <4>1 DEF Ranked, Depths, Sorted
      <4>3. Members(q)' = Members(q)
          BY <2>1 DEF Members
      <4>4. Expanded(depth)'
          BY <2>1, <4>1, <4>3 DEF Ranked, Expanded
      <4> QED BY <4>2, <4>4 DEF Ranked
    <3>2. \A w : IsWay(w) => IsWay(w)'
        BY <2>1 DEF IsWay
    <3> QED BY <2>1, <3>1, <3>2 DEF Running
  <2>4. IsRoute(route) => IsRoute(route)'
      BY <2>1 DEF IsRoute, Neighbours
  <2> QED BY <2>1, <2>2, <2>3, <2>4 DEF RoutingInv
<1> QED BY <1>1, <1>2, <1>3, <1>4 DEF Next

(* A route that is found has no more links than any other: when the head   *)
(* of the queue is the destination, its depth is the distance.             *)
LEMMA ArrivesShortest ==
    ASSUME RoutingInv, Arrive
    PROVE  /\ destination' = destination
           /\ IsRoute(route)' /\ Len(route') = (Distance(destination) + 1)'
           /\ Len(route') \in Nat
<1>1. /\ search = "running" /\ q # <<>> /\ Head(q) = destination
      /\ search' = "found" /\ route' = RouteTo(destination)
      /\ UNCHANGED <<nodes, adj, source, destination, prev>>
    BY DEF Arrive, graph
<1>2. GraphOK /\ Types /\ source \in nodes
    BY <1>1 DEF RoutingInv, Running
<1>3. PICK depth : Ranked(depth)
    BY <1>1 DEF RoutingInv, Running
<1>4. PICK w : IsWay(w)
    BY <1>1 DEF RoutingInv, Running
<1>5. PICK v : v = Within
    OBVIOUS
<1>6. PICK n : n = destination
    OBVIOUS
<1>7. IsWithin(v) /\ IsWithin(v)'
  <2>1. IsWithin(v)
      BY <1>2, <1>5, WithinIs
  <2> QED BY <1>1, <2>1 DEF IsWithin, Neighbours
<1>8. n \in Visited /\ 1 \in DOMAIN q /\ q[1] = n
    BY <1>1, <1>2, <1>6, TailMembers DEF Types
<1>9. depth[n] \in 0 .. Far
    BY <1>2, <1>3, <1>8, DepthIsShort DEF Ranked
<1>10. n \in v[depth[n]]
    BY <1>2, <1>3, <1>7, <1>8, ReachedWithin DEF Ranked
<1>11. ASSUME depth[n] > 0 PROVE n \notin v[depth[n] - 1]
  <2>1. depth[n] - 1 \in 0 .. depth[n] /\ ~(depth[n] <= depth[n] - 1)
      BY <1>9, <1>11, FarType
  <2>2. \A i \in DOMAIN q : depth[n] <= depth[q[i]]
    <3>1. \A i \in DOMAIN q : 1 <= i
        BY <1>2 DEF Types
    <3> QED BY <1>3, <1>8, <3>1 DEF Ranked, Sorted
  <2>3. \A k \in 0 .. depth[n] : \A m \in v[k] : m \in Visited /\ depth[m] <= k
      BY <1>2, <1>3, <1>7, <1>9, <2>2, NearIsReached
  <2> QED BY <2>1, <2>3
<1>12. (GraphOK /\ source \in nodes)'
    BY <1>1, <1>2 DEF GraphOK
<1>13. (GraphOK /\ source \in nodes)' => DistancesKnown'
    BY DistanceIs, PTL
<1>14. Distance(n)' = depth[n]
    BY <1>7, <1>9, <1>10, <1>11, <1>12, <1>13 DEF DistancesKnown
<1>15. Len(route') = depth[n] + 1
  <2>1. RouteTo(n) = w[n]
      BY <1>2, <1>3, <1>4, <1>8, RouteToIs DEF Ranked
  <2> QED BY <1>1, <1>2, <1>3, <1>4, <1>6, <1>8, <2>1, WayIs DEF Ranked
<1>16. IsRoute(route)'
    BY <1>1, ArriveKeepsRoutes DEF RoutingInv
<1>17. (Distance(destination) + 1)' = depth[n] + 1
  <2>1. Distance(destination)' = Distance(n)'
      BY <1>1, <1>6 DEF Distance
  <2> QED BY <1>14, <2>1
<1> QED BY <1>1, <1>9, <1>15, <1>16, <1>17, FarType

(* When the queue is empty, everything within reach has been reached, and  *)
(* the destination has not.                                                *)
LEMMA FailsRightly ==
    ASSUME RoutingInv, Fail
    PROVE  ~Connected
<1>1. search = "running" /\ q = <<>>
    BY DEF Fail
<1>2. GraphOK /\ Types /\ source \in nodes
    BY <1>1 DEF RoutingInv, Running
<1>3. PICK depth : Ranked(depth)
    BY <1>1 DEF RoutingInv, Running
<1>4. DOMAIN q = {} /\ Members(q) = {}
    BY <1>1 DEF Members
<1>5. IsWithin(Within) /\ Far \in 0 .. Far
    BY <1>2, WithinIs, FarType
<1>6. \A m \in Within[Far] : m \in Visited
    BY <1>2, <1>3, <1>4, <1>5, NearIsReached, FarType
<1>7. \A m \in Visited : m # destination
    BY <1>3, <1>4 DEF Ranked, Expanded
<1> QED BY <1>6, <1>7 DEF Connected, Far

(* Nodes that are linked are at distance one, unless they are the same.    *)
LEMMA LinkedIsShortest ==
    ASSUME RoutingInv, NEW s \in Ids, NEW d \in Ids, FindRoute(s, d), d \in Neighbours(s)
    PROVE  /\ IsRoute(route)' /\ Len(route') = 2
           /\ source' # destination' => (Distance(destination) + 1)' = 2
<1>1. /\ s \in nodes /\ d \in nodes /\ source' = s /\ destination' = d
      /\ search' = "found" /\ route' = <<s, d>> /\ UNCHANGED <<nodes, adj>>
    BY DEF FindRoute, graph
<1>2. IsRoute(route)'
    BY <1>1, FindRouteKeepsRoutes DEF RoutingInv
<1>3. (GraphOK /\ source \in nodes)'
    BY <1>1 DEF GraphOK, RoutingInv
<1>4. (GraphOK /\ source \in nodes)' => DistancesKnown' /\ IsWithin(Within)'
    BY DistanceIs, WithinIs, PTL
<1>5. PICK v : v = Within'
    OBVIOUS
<1>6. IsWithin(v)'
    BY <1>3, <1>4, <1>5 DEF IsWithin
<1>7. ASSUME s # d PROVE (Distance(destination) + 1)' = 2
  <2>1. 1 \in 0 .. Far /\ 1 \in 1 .. Far
    <3>1. {s} \subseteq Ids /\ s \in Ids
        OBVIOUS
    <3>2. Far # 0
        BY <3>1, IdsAreFinite, FS_EmptySet DEF Far
    <3> QED BY <3>2, FarType
  <2>2. v[0] = {s} /\ v[1] = v[0] \cup UNION {Neighbours(m)' : m \in v[0]}
      BY <1>1, <1>6, <2>1 DEF IsWithin
  <2>3. d \in v[1] /\ d \notin v[0]
    <3>1. Neighbours(s)' = Neighbours(s)
        BY <1>1 DEF Neighbours
    <3> QED BY <1>7, <2>2, <3>1
  <2>4. Distance(d)' = 1
      BY <1>3, <1>4, <1>6, <2>1, <2>3 DEF DistancesKnown
  <2>5. Distance(destination)' = Distance(d)'
      BY <1>1 DEF Distance
  <2> QED BY <2>4, <2>5
<1> QED BY <1>1, <1>2, <1>7

(* Whatever nodes and links the program adds, and whatever it searches for, *)
(* prev leads from every node reached to another, and never from the       *)
(* source.                                                                 *)
THEOREM RoutingTypes == Spec => []TypeOK
<1>1. RoutingInv => TypeOK
    BY DEF RoutingInv, GraphOK, Types, TypeOK
<1> QED BY <1>1, RoutingBegins, RoutingStep, PTL DEF Spec

(* In a graph of any size findRoute returns a route that follows links and *)
(* has no more of them than any other, and says "No route found" only when *)
(* there is none.                                                          *)
THEOREM RoutesAreShortest == Spec => RouteIsShortest
<1> DEFINE Right == /\ Returns => /\ IsRoute(route)'
                                  /\ Len(route') = IF source' = destination' /\ Len(route') = 2
                                                     THEN 2 ELSE (Distance(destination) + 1)'
                    /\ Throws => ~Connected
<1>1. ASSUME RoutingInv, [Next]_vars PROVE [Right]_vars
  <2>1. CASE Arrive
    <3>1. /\ Returns => /\ IsRoute(route)'
                        /\ Len(route') = IF source' = destination' /\ Len(route') = 2
                                           THEN 2 ELSE (Distance(destination) + 1)'
        BY <1>1, <2>1, ArrivesShortest
    <3>2. ~Throws
        BY <2>1 DEF Arrive, Throws
    <3> QED BY <3>1, <3>2
  <2>2. CASE Fail
    <3>1. ~Returns
        BY <2>2 DEF Fail, Returns
    <3> QED BY <1>1, <2>2, <3>1, FailsRightly
  <2>3. ASSUME NEW s \in Ids, NEW d \in Ids, FindRoute(s, d) PROVE Right
    <3>1. ~Throws
        BY <2>3 DEF FindRoute, Throws
    <3>2. CASE d \in Neighbours(s)
      <4>1. /\ IsRoute(route)' /\ Len(route') = 2
            /\ source' # destination' => (Distance(destination) + 1)' = 2
          BY <1>1, <2>3, <3>2, LinkedIsShortest
      <4> QED BY <3>1, <4>1
    <3>3. CASE d \notin Neighbours(s)
      <4>1. ~Returns
          BY <2>3, <3>3 DEF FindRoute, Returns
      <4> QED BY <3>1, <4>1
    <3> QED BY <3>2, <3>3
  <2>4. CASE UNCHANGED search
    <3>1. ~Returns /\ ~Throws
        BY <2>4 DEF Returns, Throws
    <3> QED BY <3>1
  <2>5. Expand \/ UNCHANGED vars \/ (\E n \in Ids : AddNode(n)) \/ (\E a, b \in Ids : AddLink(a, b))
            => UNCHANGED search
      BY DEF Expand, AddNode, AddLink, vars, loop
  <2> QED BY <1>1, <2>1, <2>2, <2>3, <2>4, <2>5 DEF Next, Search
<1> QED BY <1>1, RoutingBegins, RoutingStep, PTL DEF Spec, RouteIsShortest

-----------------------------------------------------------------------------
(* The objects that the nodes of the graph are copies of.                  *)
Shape ==
    /\ nodes \subseteq Ids
    /\ adj \in [nodes -> Seq(Ids)] /\ copy \in [nodes -> Seq(Ids)]
    /\ linked \in [Ids -> Seq(Ids)]

(* Objects are linked both ways, ...                                       *)
Mutual == \A a, b \in Ids : SendData(linked, a, b) => SendData(linked, b, a)

(* ... the copies are up to date, since nothing is connected after it was  *)
(* added, and the graph has no other links than the objects.               *)
UpToDate == usage = "nodes" => \A n \in nodes : copy[n] = linked[n]

OnlyConnected ==
    usage = "nodes" => \A a \in nodes, b \in Ids : b \in Neighbours(a) => SendData(linked, a, b)

NetworkInv == Shape /\ Mutual /\ UpToDate /\ OnlyConnected

LEMMA ListedLists ==
    ASSUME NEW l \in [Ids -> Seq(Ids)], NEW a \in Ids, NEW b \in Ids
    PROVE  /\ Listed(l, a, b) \in [Ids -> Seq(Ids)]
           /\ \A n \in Ids \ {a} : Listed(l, a, b)[n] = l[n]
           /\ \A m \in Ids : SendData(Listed(l, a, b), a, m) <=> SendData(l, a, m) \/ m = b
<1>1. CASE SendData(l, a, b)
    BY <1>1 DEF Listed, SendData
<1>2. CASE ~SendData(l, a, b)
  <2> DEFINE r == l[a]
             k == Listed(l, a, b)
  <2>1. r \in Seq(Ids) /\ k = [l EXCEPT ![a] = Append(r, b)]
      BY <1>2 DEF Listed
  <2>2. k \in [Ids -> Seq(Ids)] /\ k[a] = Append(r, b) /\ \A n \in Ids \ {a} : k[n] = l[n]
      BY <2>1
  <2> HIDE DEF r
  <2>3. \A m \in Ids : (\E i \in DOMAIN Append(r, b) : Append(r, b)[i] = m) <=>
                           (\E i \in DOMAIN r : r[i] = m) \/ m = b
    <3> TAKE m \in Ids
    <3>1. ASSUME NEW i \in DOMAIN Append(r, b), Append(r, b)[i] = m
          PROVE  (\E j \in DOMAIN r : r[j] = m) \/ m = b
        BY <2>1, <3>1
    <3>2. ASSUME NEW i \in DOMAIN r, r[i] = m
          PROVE  \E j \in DOMAIN Append(r, b) : Append(r, b)[j] = m
      <4>1. i \in DOMAIN Append(r, b) /\ Append(r, b)[i] = m
          BY <2>1, <3>2
      <4> QED BY <4>1
    <3>3. Len(r) + 1 \in DOMAIN Append(r, b) /\ Append(r, b)[Len(r) + 1] = b
        BY <2>1
    <3> QED BY <3>1, <3>2, <3>3
  <2> QED BY <2>2, <2>3 DEF SendData, r
<1> QED BY <1>1, <1>2

LEMMA NetworkBegins == NetworkInit => NetworkInv
BY DEF NetworkInit, Init, NetworkInv, Shape, Mutual, UpToDate, OnlyConnected, SendData

LEMMA ConnectKeeps ==
    ASSUME NetworkInv, NEW a \in Ids, NEW b \in Ids, ConnectNodes(a, b)
    PROVE  NetworkInv'
<1> DEFINE k == Listed(linked, a, b)
           l == Listed(k, b, a)
<1>1. /\ linked' = l /\ ~SendData(linked, a, b) /\ {a, b} \cap nodes = {}
      /\ UNCHANGED <<nodes, adj, copy, usage>>
    BY DEF ConnectNodes, WithConnection, vars, graph
<1>2. linked \in [Ids -> Seq(Ids)] /\ nodes \subseteq Ids /\ Mutual
    BY DEF NetworkInv, Shape
<1>3. /\ k \in [Ids -> Seq(Ids)]
      /\ \A n \in Ids \ {a} : k[n] = linked[n]
      /\ \A m \in Ids : SendData(k, a, m) <=> SendData(linked, a, m) \/ m = b
    BY <1>2, ListedLists
<1> HIDE DEF k
<1>4. /\ l \in [Ids -> Seq(Ids)]
      /\ \A n \in Ids \ {b} : l[n] = k[n]
      /\ \A m \in Ids : SendData(l, b, m) <=> SendData(k, b, m) \/ m = a
    BY <1>3, ListedLists
<1> HIDE DEF l
<1>5. \A m, n \in Ids :
          SendData(l, m, n) <=> \/ SendData(linked, m, n)
                                \/ m = a /\ n = b
                                \/ m = b /\ n = a
  <2> TAKE m \in Ids, n \in Ids
  <2>1. m # b => (SendData(l, m, n) <=> SendData(k, m, n))
      BY <1>4 DEF SendData
  <2>2. m # a => (SendData(k, m, n) <=> SendData(linked, m, n))
      BY <1>3 DEF SendData
  <2>3. CASE m = b
    <3>1. SendData(l, b, n) <=> SendData(k, b, n) \/ n = a
        BY <1>4
    <3>2. CASE a = b
      <4>1. SendData(k, a, n) <=> SendData(linked, a, n) \/ n = b
          BY <1>3
      <4> QED BY <2>3, <3>1, <3>2, <4>1
    <3>3. CASE a # b
        BY <2>2, <2>3, <3>1, <3>3
    <3> QED BY <3>2, <3>3
  <2>4. CASE m = a /\ m # b
    <3>1. SendData(k, a, n) <=> SendData(linked, a, n) \/ n = b
        BY <1>3
    <3> QED BY <2>1, <2>4, <3>1
  <2>5. CASE m # a /\ m # b
      BY <2>1, <2>2, <2>5
  <2> QED BY <2>3, <2>4, <2>5
<1>6. Mutual'
  <2>1. \A m, n \in Ids : SendData(l, m, n) => SendData(l, n, m)
      BY <1>2, <1>5 DEF Mutual
  <2> QED BY <1>1, <2>1 DEF Mutual, SendData
<1>7. \A n \in nodes : l[n] = linked[n]
    BY <1>1, <1>2, <1>3, <1>4
<1>8. UpToDate'
    BY <1>1, <1>7 DEF NetworkInv, UpToDate
<1>9. OnlyConnected'
  <2>1. usage = "nodes" =>
            \A m \in nodes, n \in Ids : n \in Neighbours(m) => SendData(l, m, n)
      BY <1>2, <1>5 DEF NetworkInv, OnlyConnected
  <2> QED BY <1>1, <2>1 DEF OnlyConnected, Neighbours, SendData
<1>10. Shape'
    BY <1>1, <1>4 DEF NetworkInv, Shape
<1> QED BY <1>6, <1>8, <1>9, <1>10 DEF NetworkInv

LEMMA AddNodeKeeps ==
    ASSUME NetworkInv, NEW n \in Ids, AddNodeCopy(n)
    PROVE  NetworkInv'
<1>1. /\ nodes' = nodes \cup {n} /\ n \notin nodes
      /\ adj' = [m \in nodes' |-> IF m = n THEN <<>> ELSE adj[m]]
      /\ copy' = [m \in nodes' |-> IF m = n THEN linked[n] ELSE copy[m]]
      /\ UNCHANGED <<usage, linked>>
    BY DEF AddNodeCopy, AddNode
<1>2. Shape'
    BY <1>1 DEF NetworkInv, Shape
<1>3. Mutual' /\ UpToDate'
    BY <1>1 DEF NetworkInv, Mutual, UpToDate, SendData
<1>4. OnlyConnected'
  <2> SUFFICES ASSUME usage = "nodes", NEW x \in nodes', NEW y \in Ids, y \in Neighbours(x)'
               PROVE  SendData(linked, x, y)
      BY <1>1 DEF OnlyConnected, SendData
  <2>1. PICK i \in DOMAIN adj'[x] : adj'[x][i] = y
      BY DEF Neighbours
  <2>2. x \in nodes /\ adj'[x] = adj[x]
      BY <1>1, <2>1
  <2>3. y \in Ids /\ y \in Neighbours(x)
      BY <2>1, <2>2 DEF NetworkInv, Shape, Neighbours
  <2> QED BY <2>2, <2>3 DEF NetworkInv, OnlyConnected
<1> QED BY <1>2, <1>3, <1>4 DEF NetworkInv

LEMMA AddLinkKeeps ==
    ASSUME NetworkInv, NEW a \in Ids, NEW b \in Ids, AddLinkOf(a, b)
    PROVE  NetworkInv'
<1> DEFINE forth == [adj EXCEPT ![a] = Append(@, b)]
<1>1. /\ adj' = [forth EXCEPT ![b] = Append(@, a)]
      /\ a \in nodes /\ b \in nodes
      /\ usage = "nodes" => SendData(linked, a, b)
      /\ UNCHANGED <<nodes, objects>>
    BY DEF AddLinkOf, AddLink, WithLink
<1>2. adj \in [nodes -> Seq(Ids)]
    BY DEF NetworkInv, Shape
<1>3. /\ forth \in [nodes -> Seq(Ids)]
      /\ forth[a] = Append(adj[a], b) /\ \A n \in nodes \ {a} : forth[n] = adj[n]
    BY <1>1, <1>2
<1> HIDE DEF forth
<1>4. /\ adj' \in [nodes -> Seq(Ids)]
      /\ adj'[b] = Append(forth[b], a) /\ \A n \in nodes \ {b} : adj'[n] = forth[n]
    BY <1>1, <1>3
<1>5. ASSUME NEW m \in nodes, NEW n \in Ids, n \in Neighbours(m)'
      PROVE  n \in Neighbours(m) \/ (m = a /\ n = b) \/ (m = b /\ n = a)
  <2>1. PICK i \in DOMAIN adj'[m] : adj'[m][i] = n
      BY <1>5 DEF Neighbours
  <2>2. (m = b /\ n = a) \/ (i \in DOMAIN forth[m] /\ forth[m][i] = n)
    <3> DEFINE f == forth[m]
    <3>1. f \in Seq(Ids) /\ (adj'[m] = f \/ (m = b /\ adj'[m] = Append(f, a)))
        BY <1>3, <1>4
    <3> HIDE DEF f
    <3>2. (m = b /\ n = a) \/ (i \in DOMAIN f /\ f[i] = n)
        BY <1>1, <2>1, <3>1
    <3> QED BY <3>2 DEF f
  <2>3. ASSUME i \in DOMAIN forth[m], forth[m][i] = n
        PROVE  (m = a /\ n = b) \/ (i \in DOMAIN adj[m] /\ adj[m][i] = n)
    <3> DEFINE f == adj[m]
    <3>1. f \in Seq(Ids) /\ (forth[m] = f \/ (m = a /\ forth[m] = Append(f, b)))
        BY <1>2, <1>3
    <3> HIDE DEF f
    <3>2. (m = a /\ n = b) \/ (i \in DOMAIN f /\ f[i] = n)
        BY <1>1, <2>3, <3>1
    <3> QED BY <3>2 DEF f
  <2> QED BY <2>2, <2>3 DEF Neighbours
<1>6. OnlyConnected'
  <2> SUFFICES ASSUME usage = "nodes", NEW m \in nodes, NEW n \in Ids, n \in Neighbours(m)'
               PROVE  SendData(linked, m, n)
      BY <1>1 DEF OnlyConnected, SendData, objects
  <2>1. SendData(linked, a, b) /\ SendData(linked, b, a)
      BY <1>1 DEF NetworkInv, Mutual
  <2> QED BY <1>5, <2>1 DEF NetworkInv, OnlyConnected
<1>7. Shape'
    BY <1>1, <1>4 DEF NetworkInv, Shape, objects
<1>8. UNCHANGED <<nodes, usage, linked, copy>>
    BY <1>1 DEF objects
<1>9. Mutual' /\ UpToDate'
    BY <1>8 DEF NetworkInv, Mutual, UpToDate, SendData
<1> QED BY <1>6, <1>7, <1>9 DEF NetworkInv

LEMMA NetworkStep == NetworkInv /\ [NetworkNext]_networkVars => NetworkInv'
<1> SUFFICES ASSUME NetworkInv, [NetworkNext]_networkVars PROVE NetworkInv'
    OBVIOUS
<1>1. CASE UNCHANGED <<graph, objects>>
    BY <1>1 DEF graph, objects, NetworkInv, Shape, Mutual, UpToDate, OnlyConnected, SendData,
                Neighbours
<1>2. CASE \E n \in Ids : AddNodeCopy(n)
    BY <1>2, AddNodeKeeps
<1>3. CASE \E a, b \in Ids : ConnectNodes(a, b) \/ AddLinkOf(a, b)
    BY <1>3, ConnectKeeps, AddLinkKeeps
<1>4. CASE UNCHANGED objects /\ (Search \/ \E a, b \in Ids : FindRoute(a, b))
  <2>1. UNCHANGED graph
      BY <1>4 DEF Search, Arrive, Expand, Fail, FindRoute, graph
  <2> QED BY <1>1, <1>4, <2>1
<1>5. CASE UNCHANGED networkVars
    BY <1>1, <1>5 DEF networkVars, vars
<1> QED BY <1>2, <1>3, <1>4, <1>5 DEF NetworkNext

(* Network adds nothing to what a Routing alone does.                      *)
LEMMA NetworkRoutes == NetworkSpec => Spec
<1>1. NetworkInit => Init
    BY DEF NetworkInit
<1>2. [NetworkNext]_networkVars => [Next]_vars
  <2> SUFFICES ASSUME [NetworkNext]_networkVars PROVE [Next]_vars
      OBVIOUS
  <2>1. ASSUME NEW n \in Ids, AddNodeCopy(n) PROVE Next
      BY <2>1 DEF AddNodeCopy, Next
  <2>2. ASSUME NEW a \in Ids, NEW b \in Ids, AddLinkOf(a, b) PROVE Next
      BY <2>2 DEF AddLinkOf, Next
  <2>3. ASSUME NEW a \in Ids, NEW b \in Ids, ConnectNodes(a, b) PROVE UNCHANGED vars
      BY <2>3 DEF ConnectNodes
  <2>4. CASE (\E a, b \in Ids : FindRoute(a, b)) \/ Search
      BY <2>4 DEF Next
  <2>5. CASE UNCHANGED networkVars
      BY <2>5 DEF networkVars
  <2> QED BY <2>1, <2>2, <2>3, <2>4, <2>5 DEF NetworkNext
<1> QED BY <1>1, <1>2, PTL DEF Spec, NetworkSpec

-----------------------------------------------------------------------------
(* Nodes that are connected before they are added can send over every link *)
(* of a route that findRoute returns, in either direction, whichever of    *)
(* the two connected, in a graph of any size.                              *)
THEOREM LinksCarryData == NetworkSpec => []RouteCarriesData
<1>1. ASSUME NetworkInv, RoutingInv, usage = "nodes", search = "found",
             NEW i \in 1 .. Len(route) - 1
      PROVE  SendData(copy, route[i], route[i + 1])
  <2>1. route \in Seq(nodes) /\ IsRoute(route)
      BY <1>1 DEF RoutingInv
  <2>2. route[i] \in nodes /\ route[i + 1] \in nodes /\ route[i + 1] \in Neighbours(route[i])
      BY <2>1 DEF IsRoute
  <2>3. SendData(linked, route[i], route[i + 1]) /\ copy[route[i]] = linked[route[i]]
      BY <1>1, <2>2 DEF NetworkInv, Shape, OnlyConnected, UpToDate
  <2> QED BY <2>3 DEF SendData
<1>2. NetworkInv /\ RoutingInv => RouteCarriesData
    BY <1>1 DEF RouteCarriesData
<1>3. Spec => []RoutingInv
    BY RoutingBegins, RoutingStep, PTL DEF Spec
<1>4. NetworkSpec => []NetworkInv
    BY NetworkBegins, NetworkStep, PTL DEF NetworkSpec
<1> QED BY <1>2, <1>3, <1>4, NetworkRoutes, PTL
=============================================================================
