------------------------------ MODULE Induction ------------------------------
(***************************************************************************)
(* Induction over natural numbers, and functions that are defined by       *)
(* recursion, stated with sets and functions in the place of predicates    *)
(* and operators, so that an instance is a fact like any other; and the    *)
(* integers: products, quotients, remainders and bits, to which the solver *)
(* has no axioms.                                                          *)
(***************************************************************************)
EXTENDS Integers, SequencesExt, Binary, FiniteSetTheorems, SequenceTheorems, TLAPS

(* Strict inclusion of finite sets is well-founded, and so is 1 .. n.      *)
LEMMA LeastNatural ==
    ASSUME NEW T \in SUBSET Nat, T # {}
    PROVE  \E n \in T : \A m \in T : n <= m
<1> DEFINE Below(n) == 1 .. n
           B == {Below(n) : n \in T}
<1>1. B \subseteq FiniteSubsetsOf(Nat) /\ B # {}
  <2>1. \A n \in T : Below(n) \in SUBSET Nat /\ IsFiniteSet(Below(n))
    BY FS_Interval
  <2> QED BY <2>1 DEF FiniteSubsetsOf
<1>2. IsWellFoundedOn(StrictSubsetOrdering(Nat), FiniteSubsetsOf(Nat))
  BY FS_StrictSubsetOrderingWellFounded
<1> HIDE DEF B
<1>3. PICK s \in B : \A t \in B : <<t, s>> \notin StrictSubsetOrdering(Nat)
  BY ONLY <1>1, <1>2, WFMin
<1>4. PICK n \in T : s = Below(n)
  BY DEF B
<1>5. ASSUME NEW m \in T, m < n PROVE FALSE
  <2>1. Below(m) \subseteq Below(n) /\ n \in Below(n) /\ n \notin Below(m)
    BY <1>5
  <2>2. Below(m) \in SUBSET Nat /\ Below(n) \in SUBSET Nat /\ Below(m) # Below(n)
    BY <2>1
  <2> HIDE DEF Below
  <2>3. <<Below(m), Below(n)>> \in StrictSubsetOrdering(Nat)
    BY <2>1, <2>2 DEF StrictSubsetOrdering
  <2>4. Below(m) \in B
    BY DEF B
  <2> QED BY <1>3, <1>4, <2>3, <2>4
<1> QED BY <1>5

(* Induction over the natural numbers.                                     *)
LEMMA Induct ==
    ASSUME NEW S, 0 \in S, \A n \in Nat : n \in S => n + 1 \in S
    PROVE  Nat \subseteq S
<1> SUFFICES ASSUME NEW k \in Nat, k \notin S PROVE FALSE
  OBVIOUS
<1>1. PICK n \in Nat \ S : \A m \in Nat \ S : n <= m
  BY LeastNatural
<1>2. n - 1 \in Nat /\ n - 1 \in S
  BY <1>1
<1> QED BY <1>1, <1>2

(* Upwards, as far as n.                                                   *)
LEMMA InductTo ==
    ASSUME NEW lo \in Int, NEW hi \in Int, NEW S, lo \in S,
           \A i \in lo .. hi - 1 : i \in S => i + 1 \in S
    PROVE  lo .. hi \subseteq S
<1> DEFINE T == {k \in Nat : lo + k <= hi => lo + k \in S}
<1>1. 0 \in T /\ \A k \in Nat : k \in T => k + 1 \in T
  OBVIOUS
<1>2. Nat \subseteq T
  BY <1>1, Induct
<1>3. ASSUME NEW i \in lo .. hi PROVE i \in S
  <2>1. i - lo \in Nat /\ lo + (i - lo) = i
    OBVIOUS
  <2>2. i - lo \in T
    BY <1>2, <2>1
  <2> QED BY <2>1, <2>2
<1> QED BY <1>3

(* Downwards: i is in S if all that are above it are.                      *)
LEMMA InductDown ==
    ASSUME NEW lo \in Int, NEW hi \in Int, NEW S,
           \A i \in lo .. hi : i + 1 .. hi \subseteq S => i \in S
    PROVE  lo .. hi \subseteq S
<1> DEFINE T == {k \in Nat : (hi + 1) - k .. hi \cap lo .. hi \subseteq S}
<1>1. 0 \in T
  OBVIOUS
<1>2. ASSUME NEW k \in T PROVE k + 1 \in T
  <2>1. CASE hi - k >= lo
    <3>1. (hi - k) + 1 .. hi \subseteq S
      BY <1>2, <2>1
    <3>2. hi - k \in S
      BY <2>1, <3>1
    <3>3. (hi + 1) - (k + 1) .. hi = {hi - k} \cup ((hi + 1) - k .. hi)
      OBVIOUS
    <3> QED BY <1>2, <3>2, <3>3
  <2>2. CASE hi - k < lo
    BY <1>2, <2>2
  <2> QED BY <2>1, <2>2
<1>3. Nat \subseteq T
  BY <1>1, <1>2, Induct
<1>4. CASE lo <= hi
  <2>1. (hi - lo) + 1 \in T
    BY <1>3, <1>4
  <2> QED BY <1>4, <2>1
<1> QED BY <1>4

-----------------------------------------------------------------------------
(* Functions defined by recursion.  What is at i depends, by body[i], only *)
(* on what is above it.                                                    *)

Solves(f, body) == \A i \in DOMAIN f : f[i] = body[i][f]

(* The same of f and g above, or below, a place makes the same of them.     *)
LooksUp(body, lo, hi, V) ==
    /\ body \in [lo .. hi -> [[lo .. hi -> V] -> V]]
    /\ \A i \in lo .. hi : \A f, g \in [lo .. hi -> V] :
           (\A j \in i + 1 .. hi : f[j] = g[j]) => body[i][f] = body[i][g]

LooksDown(body, n, V) ==
    /\ body \in [1 .. n -> [[1 .. n -> V] -> V]]
    /\ \A i \in 1 .. n : \A f, g \in [1 .. n -> V] :
           (\A j \in 1 .. i - 1 : f[j] = g[j]) => body[i][f] = body[i][g]

(* A function whose values are found from those at later places exists.    *)
LEMMA RecursionDown ==
    ASSUME NEW lo \in Int, NEW hi \in Int, NEW V, V # {},
           NEW body, LooksUp(body, lo, hi, V)
    PROVE  \E f \in [lo .. hi -> V] : Solves(f, body)
<1> DEFINE D == lo .. hi
           Right(f, k) == \A i \in k .. hi : i \in D => f[i] = body[i][f]
           T == {n \in Nat : \E f \in [D -> V] : Right(f, (hi + 1) - n)}
<1>1. 0 \in T
  <2>1. PICK v \in V : TRUE
    OBVIOUS
  <2>2. [i \in D |-> v] \in [D -> V] /\ Right([i \in D |-> v], (hi + 1) - 0)
    OBVIOUS
  <2> QED BY <2>2
<1>2. ASSUME NEW n \in T PROVE n + 1 \in T
  <2>1. PICK f \in [D -> V] : Right(f, (hi + 1) - n)
    OBVIOUS
  <2> DEFINE k == hi - n
             g == [f EXCEPT ![k] = body[k][f]]
  <2>2. CASE k \notin D
    <3>1. Right(f, (hi + 1) - (n + 1))
      BY <2>1, <2>2
    <3> QED BY <3>1
  <2>3. CASE k \in D
    <3>1. body[k][f] \in V /\ g \in [D -> V]
      BY <2>3 DEF LooksUp
    <3>5. g[k] = body[k][f] /\ \A j \in D \ {k} : g[j] = f[j]
      BY <2>3
    <3> HIDE DEF g
    <3>2. ASSUME NEW i \in D, i \in k .. hi PROVE body[i][g] = body[i][f]
      <4>1. \A j \in i + 1 .. hi : g[j] = f[j]
        BY <3>5, <3>2
      <4> QED BY <3>1, <4>1 DEF LooksUp
    <3>3. Right(g, k)
      <4> SUFFICES ASSUME NEW i \in k .. hi, i \in D PROVE g[i] = body[i][g]
        OBVIOUS
      <4>1. CASE i = k
        BY <2>3, <3>2, <3>5, <4>1
      <4>2. CASE i # k
        BY <2>1, <3>2, <3>5, <4>2
      <4> QED BY <4>1, <4>2
    <3>4. k = (hi + 1) - (n + 1)
      OBVIOUS
    <3> QED BY <3>1, <3>3, <3>4
  <2> QED BY <2>2, <2>3
<1>3. Nat \subseteq T
  BY <1>1, <1>2, Induct
<1>4. PICK n \in Nat : (hi + 1) - n <= lo
  <2>1. CASE lo <= hi
    <3>1. (hi + 1) - lo \in Nat /\ (hi + 1) - ((hi + 1) - lo) <= lo
      BY <2>1
    <3> QED BY <3>1
  <2>2. CASE lo > hi
    <3>1. 0 \in Nat /\ (hi + 1) - 0 <= lo
      BY <2>2
    <3> QED BY <3>1
  <2> QED BY <2>1, <2>2
<1>5. PICK f \in [D -> V] : Right(f, (hi + 1) - n)
  BY <1>3
<1>6. Solves(f, body)
  BY <1>4, <1>5 DEF Solves
<1> QED BY <1>5, <1>6

(* What is at i depends only on what is below it.                          *)
LEMMA RecursionUp ==
    ASSUME NEW n \in Nat, NEW V, V # {},
           NEW body, LooksDown(body, n, V)
    PROVE  \E f \in [1 .. n -> V] : Solves(f, body)
<1> DEFINE D == 1 .. n
           Right(f, k) == \A i \in 1 .. k : i \in D => f[i] = body[i][f]
           T == {k \in Nat : \E f \in [D -> V] : Right(f, k)}
<1>1. 0 \in T
  <2>1. PICK v \in V : TRUE
    OBVIOUS
  <2>2. [i \in D |-> v] \in [D -> V] /\ Right([i \in D |-> v], 0)
    OBVIOUS
  <2> QED BY <2>2
<1>2. ASSUME NEW m \in T PROVE m + 1 \in T
  <2>1. PICK f \in [D -> V] : Right(f, m)
    OBVIOUS
  <2> DEFINE k == m + 1
             g == [f EXCEPT ![k] = body[k][f]]
  <2>2. CASE k \notin D
    <3>1. Right(f, k)
      BY <2>1, <2>2
    <3> QED BY <3>1
  <2>3. CASE k \in D
    <3>1. body[k][f] \in V /\ g \in [D -> V]
      BY <2>3 DEF LooksDown
    <3>5. g[k] = body[k][f] /\ \A j \in D \ {k} : g[j] = f[j]
      BY <2>3
    <3> HIDE DEF g
    <3>2. ASSUME NEW i \in D, i \in 1 .. k PROVE body[i][g] = body[i][f]
      <4>1. \A j \in 1 .. i - 1 : g[j] = f[j]
        BY <3>5, <3>2
      <4> QED BY <3>1, <4>1 DEF LooksDown
    <3>3. Right(g, k)
      <4> SUFFICES ASSUME NEW i \in 1 .. k, i \in D PROVE g[i] = body[i][g]
        OBVIOUS
      <4>1. CASE i = k
        BY <2>3, <3>2, <3>5, <4>1
      <4>2. CASE i # k
        BY <2>1, <3>2, <3>5, <4>2
      <4> QED BY <4>1, <4>2
    <3> QED BY <3>1, <3>3
  <2> QED BY <2>2, <2>3
<1>3. Nat \subseteq T
  BY <1>1, <1>2, Induct
<1>4. PICK f \in [D -> V] : Right(f, n)
  BY <1>3
<1>5. Solves(f, body)
  BY <1>4 DEF Solves
<1> QED BY <1>4, <1>5

(* One value after the other, without end.                                 *)
LEMMA Iteration ==
    ASSUME NEW V, NEW first \in V, NEW step \in [V -> V]
    PROVE  \E f \in [Nat -> V] : f[0] = first /\ \A n \in Nat : f[n + 1] = step[f[n]]
<1> DEFINE Begun(g, n) == g[0] = first /\ \A i \in Nat : i < n => g[i + 1] = step[g[i]]
           T == {n \in Nat : \E g \in [Nat -> V] : Begun(g, n)}
           At(n) == CHOOSE g \in [Nat -> V] : Begun(g, n)
           f == [n \in Nat |-> At(n)[n]]
<1>1. 0 \in T
  <2>1. [n \in Nat |-> first] \in [Nat -> V] /\ Begun([n \in Nat |-> first], 0)
    OBVIOUS
  <2> QED BY <2>1
<1>2. ASSUME NEW n \in T PROVE n + 1 \in T
  <2>1. PICK g \in [Nat -> V] : Begun(g, n)
    OBVIOUS
  <2> DEFINE h == [g EXCEPT ![n + 1] = step[g[n]]]
  <2>2. h \in [Nat -> V] /\ h[n + 1] = step[g[n]] /\ \A i \in Nat : i # n + 1 => h[i] = g[i]
    BY <2>1
  <2> HIDE DEF h
  <2>3. Begun(h, n + 1)
    BY <2>1, <2>2
  <2> QED BY <2>2, <2>3
<1>3. \A n \in Nat : At(n) \in [Nat -> V] /\ Begun(At(n), n)
  BY <1>1, <1>2, Induct
<1>4. ASSUME NEW n \in Nat, NEW g \in [Nat -> V], NEW h \in [Nat -> V], Begun(g, n), Begun(h, n)
      PROVE  g[n] = h[n]
  <2> DEFINE S == {i \in Nat : i <= n => g[i] = h[i]}
  <2>1. 0 \in S
    BY <1>4
  <2>2. \A i \in Nat : i \in S => i + 1 \in S
    BY <1>4
  <2>3. Nat \subseteq S
    BY <2>1, <2>2, Induct
  <2> QED BY <2>3
<1> HIDE DEF At
<1>5. f \in [Nat -> V]
  BY <1>3
<1>6. f[0] = first
  BY <1>3
<1>7. ASSUME NEW n \in Nat PROVE f[n + 1] = step[f[n]]
  <2>1. At(n + 1)[n + 1] = step[At(n + 1)[n]]
    BY <1>3
  <2>2. At(n + 1)[n] = At(n)[n]
    <3>1. Begun(At(n + 1), n) /\ Begun(At(n), n)
      BY <1>3
    <3> QED BY <1>3, <1>4, <3>1
  <2> QED BY <2>1, <2>2
<1> QED BY <1>5, <1>6, <1>7

-----------------------------------------------------------------------------
(* The same of finite sets, in whichever order their elements are taken.   *)

(* A set of sets has all finite ones if it has those whose smaller parts   *)
(* it has.                                                                 *)
LEMMA InductSets ==
    ASSUME NEW D, IsFiniteSet(D), NEW C,
           \A s \in SUBSET D : (\A t \in SUBSET s : t # s => t \in C) => s \in C
    PROVE  SUBSET D \subseteq C
<1> DEFINE T == {n \in Nat : \A s \in SUBSET D : Cardinality(s) < n => s \in C}
<1>1. \A s \in SUBSET D : IsFiniteSet(s) /\ Cardinality(s) \in Nat
  BY FS_Subset, FS_CardinalityType
<1>2. \A s \in SUBSET D : \A t \in SUBSET s : t # s => Cardinality(t) < Cardinality(s)
  BY <1>1, FS_Subset
<1>3. 0 \in T
  BY <1>1
<1>4. ASSUME NEW n \in T PROVE n + 1 \in T
  <2> SUFFICES ASSUME NEW s \in SUBSET D, Cardinality(s) < n + 1 PROVE s \in C
    OBVIOUS
  <2>1. \A t \in SUBSET s : t # s => t \in C
    BY <1>1, <1>2
  <2> QED BY <2>1
<1>5. Nat \subseteq T
  BY <1>3, <1>4, Induct
<1>6. ASSUME NEW s \in SUBSET D PROVE s \in C
  <2>1. Cardinality(s) + 1 \in T /\ Cardinality(s) < Cardinality(s) + 1
    BY <1>1, <1>5
  <2> QED BY <2>1
<1> QED BY <1>6

(* What is at a set depends only on what is at its smaller parts.          *)
LooksInside(body, D, V) ==
    /\ body \in [SUBSET D -> [[SUBSET D -> V] -> V]]
    /\ \A s \in SUBSET D : \A f, g \in [SUBSET D -> V] :
           (\A t \in SUBSET s : t # s => f[t] = g[t]) => body[s][f] = body[s][g]

LEMMA RecursionInside ==
    ASSUME NEW D, IsFiniteSet(D), NEW V, V # {}, NEW body, LooksInside(body, D, V)
    PROVE  \E f \in [SUBSET D -> V] : Solves(f, body)
<1> DEFINE Right(f, n) == \A s \in SUBSET D : Cardinality(s) < n => f[s] = body[s][f]
           T == {n \in Nat : \E f \in [SUBSET D -> V] : Right(f, n)}
<1>1. \A s \in SUBSET D : IsFiniteSet(s) /\ Cardinality(s) \in Nat
  BY FS_Subset, FS_CardinalityType
<1>2. \A s \in SUBSET D : \A t \in SUBSET s : t # s => Cardinality(t) < Cardinality(s)
  BY <1>1, FS_Subset
<1>3. 0 \in T
  <2>1. PICK v \in V : TRUE
    OBVIOUS
  <2>2. [s \in SUBSET D |-> v] \in [SUBSET D -> V] /\ Right([s \in SUBSET D |-> v], 0)
    BY <1>1
  <2> QED BY <2>2
<1>4. ASSUME NEW n \in T PROVE n + 1 \in T
  <2>1. PICK f \in [SUBSET D -> V] : Right(f, n)
    OBVIOUS
  <2> DEFINE g == [s \in SUBSET D |-> IF Cardinality(s) = n THEN body[s][f] ELSE f[s]]
  <2>2. \A s \in SUBSET D : body[s][f] \in V
    BY DEF LooksInside
  <2>3. /\ g \in [SUBSET D -> V]
        /\ \A s \in SUBSET D : g[s] = IF Cardinality(s) = n THEN body[s][f] ELSE f[s]
    BY <2>2
  <2> HIDE DEF g
  <2>4. ASSUME NEW s \in SUBSET D, Cardinality(s) < n + 1 PROVE g[s] = body[s][g]
    <3>1. ASSUME NEW t \in SUBSET s, t # s PROVE f[t] = g[t]
      <4>1. t \in SUBSET D /\ Cardinality(t) < Cardinality(s)
        BY <1>2, <3>1
      <4>2. Cardinality(t) # n
        BY <1>1, <2>4, <4>1
      <4> QED BY <2>3, <4>1, <4>2
    <3>2. body[s][f] = body[s][g]
      BY <2>3, <3>1 DEF LooksInside
    <3>3. CASE Cardinality(s) = n
      BY <2>3, <3>2, <3>3
    <3>4. CASE Cardinality(s) # n
      <4>1. Cardinality(s) < n
        BY <1>1, <2>4, <3>4
      <4> QED BY <2>1, <2>3, <3>2, <3>4, <4>1
    <3> QED BY <3>3, <3>4
  <2> QED BY <2>3, <2>4
<1>5. Nat \subseteq T
  BY <1>3, <1>4, Induct
<1>6. Cardinality(D) + 1 \in T
  <2>1. Cardinality(D) + 1 \in Nat
    BY <1>1
  <2> QED BY <1>5, <2>1
<1>7. PICK f \in [SUBSET D -> V] : Right(f, Cardinality(D) + 1)
  BY <1>6
<1>8. \A s \in SUBSET D : Cardinality(s) < Cardinality(D) + 1
  BY <1>1, FS_Subset
<1>9. Solves(f, body)
  BY <1>7, <1>8 DEF Solves
<1> QED BY <1>7, <1>9

-----------------------------------------------------------------------------
(* Sequences put together.                                                *)

(* One step of FlattenSeq, and the function that it defines.               *)
FlatBody(seqs, i, f) == IF i = 1 THEN seqs[i] ELSE f[i - 1] \o seqs[i]
FlatOf(seqs) == CHOOSE f : f = [i \in 1 .. Len(seqs) |-> FlatBody(seqs, i, f)]

(* FlattenSeq is the function that FlatBody defines, at the last place.    *)
LEMMA FlatByBody ==
    ASSUME NEW seqs, Len(seqs) # 0
    PROVE  FlattenSeq(seqs) = FlatOf(seqs)[Len(seqs)]
BY DEF FlattenSeq, FlatOf, FlatBody

(* The recursion of FlattenSeq defines a function, and its values are      *)
(* sequences.                                                              *)
LEMMA FlatExists ==
    ASSUME NEW T, NEW seqs \in Seq(Seq(T))
    PROVE  \A i \in 1 .. Len(seqs) :
               /\ FlatOf(seqs)[i] \in Seq(T)
               /\ FlatOf(seqs)[i] = FlatBody(seqs, i, FlatOf(seqs))
<1> DEFINE n == Len(seqs)
           D == 1 .. n
           V == Seq(T)
           body == [i \in D |-> [f \in [D -> V] |-> FlatBody(seqs, i, f)]]
<1>0. n \in Nat
  OBVIOUS
<1>1. V # {}
  <2>1. <<>> \in V
    OBVIOUS
  <2> QED BY <2>1
<1>2. body \in [D -> [[D -> V] -> V]]
  <2> SUFFICES ASSUME NEW i \in D, NEW f \in [D -> V] PROVE FlatBody(seqs, i, f) \in V
    OBVIOUS
  <2>1. seqs[i] \in Seq(T)
    OBVIOUS
  <2>2. CASE i = 1
    BY <2>1, <2>2 DEF FlatBody
  <2>3. CASE i # 1
    <3>0. i - 1 \in D
      BY <1>0, <2>3
    <3>1. f[i - 1] \in Seq(T)
      BY <3>0
    <3>2. f[i - 1] \o seqs[i] \in Seq(T)
      BY <2>1, <3>1
    <3> QED BY <2>3, <3>2 DEF FlatBody
  <2> QED BY <2>2, <2>3
<1>3. ASSUME NEW i \in D, NEW f \in [D -> V], NEW g \in [D -> V],
             \A j \in 1 .. i - 1 : f[j] = g[j]
      PROVE  body[i][f] = body[i][g]
  <2>1. FlatBody(seqs, i, f) = FlatBody(seqs, i, g)
    <3>1. CASE i = 1
      BY <3>1 DEF FlatBody
    <3>2. CASE i # 1
      <4>1. f[i - 1] = g[i - 1]
        BY <1>3, <3>2
      <4> QED BY <3>2, <4>1 DEF FlatBody
    <3> QED BY <3>1, <3>2
  <2> QED BY <2>1
<1> HIDE DEF body, V
<1>4. PICK f \in [D -> V] : Solves(f, body)
  <2>1. LooksDown(body, n, V)
    BY <1>2, <1>3 DEF LooksDown
  <2> HIDE DEF n
  <2> QED BY <1>0, <1>1, <2>1, RecursionUp
<1>5. f = [i \in D |-> FlatBody(seqs, i, f)]
  <2>1. \A i \in D : f[i] = body[i][f]
    BY <1>4 DEF Solves
  <2>2. \A i \in D : body[i][f] = FlatBody(seqs, i, f)
    BY DEF body
  <2> QED BY <2>1, <2>2
<1> DEFINE g == FlatOf(seqs)
<1>6. g = [i \in D |-> FlatBody(seqs, i, g)]
  BY <1>5 DEF FlatOf
<1> HIDE DEF g
<1>7. \A i \in D : g[i] = FlatBody(seqs, i, g)
  BY <1>6
<1> DEFINE S == {i \in D : g[i] \in V}
<1>8. CASE n = 0
  BY <1>0, <1>8
<1>9. CASE n # 0
  <2>1. 1 \in S
    <3>1. 1 \in D /\ g[1] = seqs[1]
      BY <1>0, <1>7, <1>9 DEF FlatBody
    <3> QED BY <3>1 DEF V
  <2>2. ASSUME NEW i \in 1 .. n - 1, i \in S PROVE i + 1 \in S
    <3>1. i + 1 \in D /\ i + 1 # 1 /\ (i + 1) - 1 = i
      BY <1>0
    <3>2. g[i + 1] = g[i] \o seqs[i + 1]
      BY <1>7, <3>1 DEF FlatBody
    <3>3. g[i] \in Seq(T) /\ seqs[i + 1] \in Seq(T)
      BY <2>2, <3>1 DEF V
    <3>4. g[i] \o seqs[i + 1] \in Seq(T)
      BY <3>3
    <3> QED BY <3>1, <3>2, <3>4 DEF V
  <2> HIDE DEF S
  <2>3. 1 .. n \subseteq S
    <3>1. 1 \in Int /\ n \in Int
      BY <1>0
    <3> HIDE DEF n
    <3> QED BY <2>1, <2>2, <3>1, InductTo
  <2> QED BY <1>7, <2>3 DEF S, g, V
<1> QED BY <1>8, <1>9

(* Where each of the sequences is in one that is put together of them.     *)
Placed(seqs, pos) ==
    /\ pos \in [1 .. Len(seqs) + 1 -> Nat]
    /\ pos[1] = 1
    /\ \A b \in 1 .. Len(seqs) : pos[b + 1] = pos[b] + Len(seqs[b])

(* Every sequence that is put together has its place.                      *)
LEMMA PlacesExist ==
    ASSUME NEW T, NEW seqs \in Seq(Seq(T))
    PROVE  \E pos : Placed(seqs, pos)
<1> DEFINE n == Len(seqs)
           D == 1 .. n + 1
           Body(i, f) == IF i = 1 THEN 1 ELSE f[i - 1] + Len(seqs[i - 1])
           body == [i \in D |-> [f \in [D -> Nat] |-> Body(i, f)]]
<1>0. n \in Nat /\ n + 1 \in Nat
  OBVIOUS
<1>1. \A b \in 1 .. n : Len(seqs[b]) \in Nat
  <2> TAKE b \in 1 .. n
  <2>1. seqs[b] \in Seq(T)
    OBVIOUS
  <2> QED BY <2>1
<1> HIDE DEF n
<1>2. body \in [D -> [[D -> Nat] -> Nat]]
  <2> SUFFICES ASSUME NEW i \in D, NEW f \in [D -> Nat] PROVE Body(i, f) \in Nat
    OBVIOUS
  <2>2. CASE i = 1
    BY <2>2
  <2>3. CASE i # 1
    <3>1. i - 1 \in 1 .. n /\ i - 1 \in D
      BY <1>0, <2>3
    <3>2. f[i - 1] \in Nat /\ Len(seqs[i - 1]) \in Nat
      BY <1>1, <3>1
    <3> QED BY <2>3, <3>2
  <2> QED BY <2>2, <2>3
<1>3. ASSUME NEW i \in D, NEW f \in [D -> Nat], NEW g \in [D -> Nat],
             \A j \in 1 .. i - 1 : f[j] = g[j]
      PROVE  body[i][f] = body[i][g]
  <2>1. CASE i = 1
    BY <2>1
  <2>2. CASE i # 1
    <3>1. f[i - 1] = g[i - 1]
      BY <1>0, <1>3, <2>2
    <3> QED BY <2>2, <3>1
  <2> QED BY <2>1, <2>2
<1> HIDE DEF body
<1>4. PICK f \in [D -> Nat] : Solves(f, body)
  <2>1. LooksDown(body, n + 1, Nat)
    BY <1>2, <1>3 DEF LooksDown
  <2>2. Nat # {}
    OBVIOUS
  <2> QED BY <1>0, <2>1, <2>2, RecursionUp
<1>5. \A i \in D : f[i] = Body(i, f)
  <2>1. \A i \in D : f[i] = body[i][f]
    BY <1>4 DEF Solves
  <2>2. \A i \in D : body[i][f] = Body(i, f)
    BY DEF body
  <2> QED BY <2>1, <2>2
<1>6. f[1] = 1
  <2>1. 1 \in D
    BY <1>0
  <2> QED BY <1>5, <2>1
<1>7. ASSUME NEW b \in 1 .. n PROVE f[b + 1] = f[b] + Len(seqs[b])
  <2>1. b + 1 \in D /\ b + 1 # 1 /\ (b + 1) - 1 = b
    BY <1>0
  <2> QED BY <1>5, <2>1
<1> QED BY <1>4, <1>6, <1>7 DEF Placed, n

(* Arithmetic of a place in the second of two sequences,                   *)
LEMMA InSecond ==
    ASSUME NEW p, NEW x, NEW la, NEW ls, p \in Nat, la \in Nat, ls \in Nat, p = la + 1, x \in 1 .. ls
    PROVE  \E q : q = p + x - 1 /\ q \in 1 .. la + ls /\ ~(q <= la) /\ q - la = x
OBVIOUS

(* and in the first.                                                       *)
LEMMA InFirst ==
    ASSUME NEW p, NEW x, NEW k, NEW la, NEW ls, p \in Nat, p >= 1, k \in Nat, la \in Nat, ls \in Nat,
           p + k <= la + 1, x \in 1 .. k
    PROVE  p + x - 1 \in 1 .. la + ls /\ p + x - 1 <= la
OBVIOUS

(* FlattenSeq puts every element of every sequence in its place: by        *)
(* induction on how many are put together.                                 *)
LEMMA Flat ==
    ASSUME NEW T, NEW seqs \in Seq(Seq(T)), NEW pos, Placed(seqs, pos)
    PROVE  /\ FlattenSeq(seqs) \in Seq(T)
           /\ Len(FlattenSeq(seqs)) = pos[Len(seqs) + 1] - 1
           /\ \A b \in 1 .. Len(seqs) : \A x \in 1 .. Len(seqs[b]) :
                  FlattenSeq(seqs)[pos[b] + x - 1] = seqs[b][x]
<1> DEFINE n == Len(seqs)
           g == FlatOf(seqs)
           Right(i) == /\ Len(g[i]) = pos[i + 1] - 1
                       /\ \A b \in 1 .. i : \A x \in 1 .. Len(seqs[b]) : g[i][pos[b] + x - 1] = seqs[b][x]
           S == {i \in 1 .. n : Right(i)}
<1>0. /\ n \in Nat /\ pos[1] = 1 /\ \A b \in 1 .. n + 1 : pos[b] \in Nat
      /\ \A b \in 1 .. n : pos[b + 1] = pos[b] + Len(seqs[b])
  BY DEF Placed
<1>1. \A b \in 1 .. n : seqs[b] \in Seq(T) /\ Len(seqs[b]) \in Nat
  <2> TAKE b \in 1 .. n
  <2>1. seqs[b] \in Seq(T)
    OBVIOUS
  <2> QED BY <2>1
<1>2. \A i \in 1 .. n : g[i] \in Seq(T) /\ g[i] = FlatBody(seqs, i, g)
  BY FlatExists
<1>3. CASE n = 0
  <2>1. FlattenSeq(seqs) = seqs /\ seqs = <<>>
    BY <1>3 DEF FlattenSeq
  <2>2. seqs \in Seq(T) /\ Len(seqs) = 0 /\ pos[0 + 1] = 1
    BY <1>0, <2>1
  <2> QED BY <1>3, <2>1, <2>2
<1>4. CASE n # 0
  <2> HIDE DEF n, g
  <2>0. 1 \in 1 .. n /\ n \in 1 .. n
    BY <1>0, <1>4
  <2>1. Right(1)
    <3>1. g[1] = seqs[1]
      BY <1>2, <2>0 DEF FlatBody
    <3>2. Len(seqs[1]) \in Nat /\ pos[1 + 1] = 1 + Len(seqs[1])
      BY <1>0, <1>1, <2>0
    <3>3. Len(g[1]) = pos[1 + 1] - 1
      BY <3>1, <3>2
    <3>4. ASSUME NEW b \in 1 .. 1, NEW x \in 1 .. Len(seqs[b]) PROVE g[1][pos[b] + x - 1] = seqs[b][x]
      <4>1. b = 1 /\ pos[b] + x - 1 = x
        BY <1>0
      <4> QED BY <3>1, <4>1
    <3> QED BY <3>3, <3>4
  <2>2. ASSUME NEW i \in 1 .. n - 1, Right(i) PROVE Right(i + 1)
    <3>1. i + 1 \in 1 .. n /\ i \in 1 .. n /\ i + 1 # 1 /\ (i + 1) - 1 = i /\ (i + 1) + 1 \in 1 .. n + 1 /\ i + 1 \in 1 .. n + 1
      BY <1>0
    <3>2. g[i + 1] = g[i] \o seqs[i + 1]
      BY <1>2, <3>1 DEF FlatBody
    <3> DEFINE a == g[i]
               s == seqs[i + 1]
    <3>3. a \in Seq(T) /\ s \in Seq(T) /\ Len(a) \in Nat /\ Len(s) \in Nat /\ Len(a) = pos[i + 1] - 1
      BY <1>1, <1>2, <2>2, <3>1
    <3>4. pos[(i + 1) + 1] = pos[i + 1] + Len(s)
      BY <1>0, <3>1
    <3>5. \A b \in 1 .. i : \A x \in 1 .. Len(seqs[b]) : a[pos[b] + x - 1] = seqs[b][x]
      BY <2>2
    <3> HIDE DEF a, s
    <3>6. Len(a \o s) = Len(a) + Len(s) /\ \A y \in 1 .. Len(a) + Len(s) : (a \o s)[y] = IF y <= Len(a) THEN a[y] ELSE s[y - Len(a)]
      <4>1. a \in Seq(T) /\ s \in Seq(T)
        BY <3>3
      <4> QED BY ONLY <4>1, ConcatProperties
    <3> DEFINE la == Len(a)
               ls == Len(s)
    <3>10. la \in Nat /\ ls \in Nat /\ la = pos[i + 1] - 1
      BY <3>3
    <3>11. Len(a) = la /\ Len(s) = ls
      OBVIOUS
    <3> HIDE DEF la, ls
    <3>7. g[i + 1] = a \o s
      BY <3>2 DEF a, s
    <3>8. Len(g[i + 1]) = pos[(i + 1) + 1] - 1
      <4>1. pos[i + 1] \in Nat
        BY <1>0, <3>1
      <4> QED BY <3>3, <3>4, <3>6, <3>7, <4>1
    <3>9. ASSUME NEW b \in 1 .. i + 1, NEW x \in 1 .. Len(seqs[b]) PROVE g[i + 1][pos[b] + x - 1] = seqs[b][x]
      <4>1. CASE b = i + 1
        <5>1. pos[b] \in Nat /\ pos[b] = la + 1 /\ x \in 1 .. ls
          BY <1>0, <3>1, <3>10, <4>1 DEF s, ls
        <5>2. PICK q : q = pos[b] + x - 1 /\ q \in 1 .. la + ls /\ ~(q <= la) /\ q - la = x
          <6> DEFINE p == pos[b]
          <6>1. p \in Nat /\ la \in Nat /\ ls \in Nat
            BY <3>10, <5>1
          <6>2. p = la + 1
            BY <5>1
          <6>3. x \in 1 .. ls
            BY <5>1
          <6> HIDE DEF p
          <6>4. \E q : q = p + x - 1 /\ q \in 1 .. la + ls /\ ~(q <= la) /\ q - la = x
            BY ONLY <6>1, <6>2, <6>3, InSecond
          <6> QED BY <6>4 DEF p
        <5>3. (a \o s)[pos[b] + x - 1] = s[x]
          BY <3>6, <3>11, <5>2
        <5> QED BY <3>7, <4>1, <5>3 DEF s
      <4>2. CASE b # i + 1
        <5>1. b \in 1 .. i /\ b \in 1 .. n /\ b \in 1 .. n + 1
          BY <1>0, <4>2
        <5>2. a[pos[b] + x - 1] = seqs[b][x]
          BY <3>5, <5>1
        <5>3. pos[b] \in Nat /\ pos[b] >= 1
          <6> DEFINE P == {k \in 1 .. n + 1 : pos[k] >= 1}
          <6>1. 1 \in P
            BY <1>0
          <6>2. ASSUME NEW k \in 1 .. (n + 1) - 1, k \in P PROVE k + 1 \in P
            <7>1. k \in 1 .. n /\ k + 1 \in 1 .. n + 1
              BY <1>0
            <7>2. pos[k + 1] = pos[k] + Len(seqs[k]) /\ Len(seqs[k]) \in Nat /\ pos[k] \in Nat
              BY <1>0, <1>1, <7>1
            <7> QED BY <6>2, <7>1, <7>2
          <6> HIDE DEF P
          <6>3. 1 .. n + 1 \subseteq P
            <7>1. 1 \in Int /\ n + 1 \in Int
              BY <1>0
            <7> QED BY <6>1, <6>2, <7>1, InductTo
          <6> QED BY <1>0, <5>1, <6>3 DEF P
        <5>4. pos[b + 1] <= pos[i + 1]
          <6> DEFINE P == {k \in b + 1 .. i + 1 : pos[b + 1] <= pos[k]}
          <6>1. b + 1 \in P
            BY <1>0, <3>1, <5>1
          <6>2. ASSUME NEW k \in b + 1 .. (i + 1) - 1, k \in P PROVE k + 1 \in P
            <7>1. k \in 1 .. n /\ k + 1 \in b + 1 .. i + 1 /\ b + 1 \in 1 .. n + 1
              BY <1>0, <3>1, <5>1
            <7>2. pos[k + 1] = pos[k] + Len(seqs[k]) /\ Len(seqs[k]) \in Nat /\ pos[k] \in Nat /\ pos[b + 1] \in Nat
              BY <1>0, <1>1, <7>1
            <7> QED BY <6>2, <7>1, <7>2
          <6> HIDE DEF P
          <6>3. b + 1 .. i + 1 \subseteq P
            <7>1. b + 1 \in Int /\ i + 1 \in Int
              BY <1>0, <3>1, <5>1
            <7> QED BY <6>1, <6>2, <7>1, InductTo
          <6>4. i + 1 \in b + 1 .. i + 1
            BY <1>0, <3>1, <5>1
          <6> QED BY <6>3, <6>4 DEF P
        <5>5. pos[b + 1] = pos[b] + Len(seqs[b]) /\ Len(seqs[b]) \in Nat
          BY <1>0, <1>1, <5>1
        <5>6. pos[b] + x - 1 \in 1 .. la + ls /\ pos[b] + x - 1 <= la
          <6>1. pos[i + 1] \in Nat
            BY <1>0, <3>1
          <6> DEFINE k == Len(seqs[b])
          <6>2. x \in 1 .. k /\ k \in Nat /\ pos[b + 1] = pos[b] + k
            BY <5>5
          <6>3. x \in 1 .. k
            OBVIOUS
          <6> HIDE DEF k
          <6>4. pos[b] + k <= la + 1
            BY ONLY <3>10, <5>3, <5>4, <6>1, <6>2
          <6> QED BY ONLY <3>10, <5>3, <6>2, <6>3, <6>4, InFirst
        <5>7. (a \o s)[pos[b] + x - 1] = a[pos[b] + x - 1]
          BY <3>6, <3>11, <5>6
        <5> QED BY <3>7, <5>2, <5>7
      <4> QED BY <4>1, <4>2
    <3> QED BY <3>8, <3>9
  <2> HIDE DEF Right
  <2>3. 1 .. n \subseteq S
    <3>1. 1 \in S /\ 1 \in Int /\ n \in Int
      BY <1>0, <2>0, <2>1
    <3>2. \A i \in 1 .. n - 1 : i \in S => i + 1 \in S
      BY <1>0, <2>2
    <3> HIDE DEF S
    <3> QED BY <3>1, <3>2, InductTo
  <2>4. Right(n)
    BY <2>0, <2>3
  <2>5. FlattenSeq(seqs) = g[n]
    BY <1>4, FlatByBody DEF n, g
  <2>6. Len(g[n]) = pos[n + 1] - 1 /\ \A b \in 1 .. n : \A x \in 1 .. Len(seqs[b]) : g[n][pos[b] + x - 1] = seqs[b][x]
    BY <2>4 DEF Right
  <2>7. g[n] \in Seq(T)
    BY <1>2, <2>0
  <2> QED BY <2>5, <2>6, <2>7 DEF n
<1> QED BY <1>3, <1>4

-----------------------------------------------------------------------------
(* Powers of two.                                                          *)

LEMMA Powers ==
    /\ TwoTo \in [Nat -> Nat \ {0}]
    /\ TwoTo[0] = 1
    /\ \A n \in Nat : TwoTo[n + 1] = 2 * TwoTo[n]
<1> DEFINE V == Nat \ {0}
           one == 1
           double == [v \in V |-> 2 * v]
           Body(f) == [n \in Nat |-> IF n = 0 THEN 1 ELSE 2 * f[n - 1]]
<1>1. one \in V /\ double \in [V -> V]
  OBVIOUS
<1>11. \A v \in V : double[v] = 2 * v
  OBVIOUS
<1> HIDE DEF double
<1>2. PICK f \in [Nat -> V] : f[0] = 1 /\ \A n \in Nat : f[n + 1] = double[f[n]]
  <2> HIDE DEF V, one
  <2>1. \E f \in [Nat -> V] : f[0] = one /\ \A n \in Nat : f[n + 1] = double[f[n]]
    BY ONLY <1>1, Iteration
  <2> QED BY <2>1 DEF one
<1>3. f = Body(f)
  <2>1. ASSUME NEW n \in Nat PROVE f[n] = Body(f)[n]
    <3>1. CASE n = 0
      BY <1>2, <3>1
    <3>2. CASE n # 0
      <4>1. n - 1 \in Nat /\ (n - 1) + 1 = n
        BY <3>2
      <4>2. f[n] = double[f[n - 1]]
        BY <1>2, <4>1
      <4> QED BY <1>2, <1>11, <3>2, <4>1, <4>2
    <3> QED BY <3>1, <3>2
  <2> QED BY <1>2, <2>1
<1>4. TwoTo = CHOOSE g : g = Body(g)
  BY DEF TwoTo
<1>5. TwoTo = Body(TwoTo)
  <2> HIDE DEF Body
  <2> QED BY <1>3, <1>4
<1>6. TwoTo[0] = 1 /\ \A n \in Nat : TwoTo[n + 1] = 2 * TwoTo[n]
  <2>1. \A n \in Nat : TwoTo[n] = IF n = 0 THEN 1 ELSE 2 * TwoTo[n - 1]
    BY <1>5
  <2> HIDE DEF Body
  <2>2. ASSUME NEW n \in Nat PROVE TwoTo[n + 1] = 2 * TwoTo[n]
    <3>1. n + 1 \in Nat /\ n + 1 # 0 /\ (n + 1) - 1 = n
      OBVIOUS
    <3> QED BY <2>1, <3>1
  <2> QED BY <2>1, <2>2
<1>7. \A n \in Nat : TwoTo[n] \in Nat \ {0}
  <2> DEFINE S == {n \in Nat : TwoTo[n] \in Nat \ {0}}
  <2>1. 0 \in S /\ \A n \in Nat : n \in S => n + 1 \in S
    BY <1>6
  <2> QED BY <2>1, Induct
<1>8. TwoTo = [n \in Nat |-> TwoTo[n]]
  BY <1>5
<1> QED BY <1>6, <1>7, <1>8

LEMMA PowersMultiply ==
    ASSUME NEW m \in Nat, NEW n \in Nat
    PROVE  TwoTo[m + n] = TwoTo[m] * TwoTo[n]
<1> DEFINE S == {k \in Nat : TwoTo[m + k] = TwoTo[m] * TwoTo[k]}
<1>1. 0 \in S
  BY Powers
<1>2. ASSUME NEW k \in S PROVE k + 1 \in S
  <2>1. TwoTo[(m + k) + 1] = 2 * TwoTo[m + k] /\ TwoTo[k + 1] = 2 * TwoTo[k]
    BY Powers
  <2>2. TwoTo[m] \in Nat /\ TwoTo[k] \in Nat /\ TwoTo[m + k] = TwoTo[m] * TwoTo[k]
    BY Powers
  <2>3. TwoTo[(m + k) + 1] = TwoTo[m] * TwoTo[k + 1]
    BY ONLY <2>1, <2>2
  <2>4. (m + k) + 1 = m + (k + 1)
    OBVIOUS
  <2> QED BY <2>3, <2>4
<1>3. Nat \subseteq S
  BY <1>1, <1>2, Induct
<1> QED BY <1>3

-----------------------------------------------------------------------------
(* Remainders.                                                             *)

(* Quotient and remainder are the only ones.                               *)
LEMMA Division ==
    ASSUME NEW m \in Nat \ {0}, NEW a \in Int
    PROVE  /\ (a % m) \in 0 .. m - 1 /\ (a \div m) \in Int /\ a = (m * (a \div m)) + (a % m)
           /\ \A q \in Int : \A r \in 0 .. m - 1 : a = (m * q) + r => (a % m) = r /\ (a \div m) = q
OBVIOUS

LEMMA SmallStays ==
    ASSUME NEW m \in Nat \ {0}, NEW a \in 0 .. m - 1
    PROVE  a % m = a
<1>1. a = (m * 0) + a /\ 0 \in Int /\ a \in Int
  OBVIOUS
<1> QED BY <1>1, Division

(* Equal but for a multiple of m.                                          *)
Alike(m, a, b) == \E z \in Int : a = b + (m * z)

LEMMA AlikeRules ==
    ASSUME NEW m \in Nat \ {0}, NEW a \in Int, NEW b \in Int
    PROVE  /\ Alike(m, a, a)
           /\ Alike(m, a, b) => Alike(m, b, a) /\ a % m = b % m
           /\ Alike(m, a % m, a)
           /\ \A c \in Int : Alike(m, a, b) /\ Alike(m, b, c) => Alike(m, a, c)
           /\ \A c, d \in Int : Alike(m, a, b) /\ Alike(m, c, d) =>
                  Alike(m, a + c, b + d) /\ Alike(m, a - c, b - d)
           /\ \A k \in Nat \ {0} : \A n \in Nat \ {0} : n = m * k /\ Alike(n, a, b) => Alike(m, a, b)
<1>1. Alike(m, a, a)
  <2>1. a = a + (m * 0)
    OBVIOUS
  <2> QED BY <2>1 DEF Alike
<1>2. ASSUME Alike(m, a, b) PROVE Alike(m, b, a) /\ a % m = b % m
  <2>1. PICK z \in Int : a = b + (m * z)
    BY <1>2 DEF Alike
  <2>2. b = a + (m * (-z))
    BY <2>1
  <2>3. a = (m * ((b \div m) + z)) + (b % m)
    <3>1. b = (m * (b \div m)) + (b % m) /\ (b \div m) \in Int /\ (b % m) \in Int
      BY Division
    <3> QED BY ONLY <2>1, <3>1
  <2>4. a % m = b % m
    <3>1. (b \div m) + z \in Int /\ (b % m) \in 0 .. m - 1
      BY Division
    <3> QED BY <2>3, <3>1, Division
  <2> QED BY <2>2, <2>4 DEF Alike
<1>3. Alike(m, a % m, a)
  <2>1. a = (m * (a \div m)) + (a % m) /\ (a \div m) \in Int /\ (a % m) \in Int
    BY Division
  <2>2. a % m = a + (m * (-(a \div m)))
    BY ONLY <2>1
  <2>3. -(a \div m) \in Int
    BY <2>1
  <2> QED BY <2>2, <2>3 DEF Alike
<1>4. ASSUME NEW c \in Int, Alike(m, a, b), Alike(m, b, c) PROVE Alike(m, a, c)
  <2>1. PICK z \in Int : a = b + (m * z)
    BY <1>4 DEF Alike
  <2>2. PICK y \in Int : b = c + (m * y)
    BY <1>4 DEF Alike
  <2>3. a = c + (m * (z + y)) /\ z + y \in Int
    BY <2>1, <2>2
  <2> QED BY <2>3 DEF Alike
<1>5. ASSUME NEW c \in Int, NEW d \in Int, Alike(m, a, b), Alike(m, c, d)
      PROVE  Alike(m, a + c, b + d) /\ Alike(m, a - c, b - d)
  <2>1. PICK z \in Int : a = b + (m * z)
    BY <1>5 DEF Alike
  <2>2. PICK y \in Int : c = d + (m * y)
    BY <1>5 DEF Alike
  <2>3. a + c = (b + d) + (m * (z + y)) /\ z + y \in Int
    BY <2>1, <2>2
  <2>4. a - c = (b - d) + (m * (z - y)) /\ z - y \in Int
    BY <2>1, <2>2
  <2> QED BY <2>3, <2>4 DEF Alike
<1>6. ASSUME NEW k \in Nat \ {0}, NEW n \in Nat \ {0}, n = m * k, Alike(n, a, b) PROVE Alike(m, a, b)
  <2>1. PICK z \in Int : a = b + (n * z)
    BY <1>6 DEF Alike
  <2>2. a = b + (m * (k * z)) /\ k * z \in Int
    BY <1>6, <2>1
  <2> QED BY <2>2 DEF Alike
<1> QED BY <1>1, <1>2, <1>3, <1>4, <1>5, <1>6

(* The two that are used most.                                             *)
LEMMA AlikeTrans ==
    ASSUME NEW m \in Nat \ {0}, NEW a \in Int, NEW b \in Int, NEW c \in Int,
           Alike(m, a, b), Alike(m, b, c)
    PROVE  Alike(m, a, c)
BY AlikeRules

LEMMA AlikeMoves ==
    ASSUME NEW m \in Nat \ {0}, NEW a \in Int, NEW b \in Int, NEW v \in Int, Alike(m, a, b)
    PROVE  Alike(m, a + v, b + v) /\ Alike(m, a - v, b - v)
<1>1. Alike(m, v, v)
  BY AlikeRules
<1> QED BY <1>1, AlikeRules

LEMMA Distribute ==
    ASSUME NEW m \in Int, NEW q \in Int, NEW p \in Int, NEW s \in Int, NEW t \in Int, q = (2 * p) + t
    PROVE  (m * q) + s = ((2 * m) * p) + ((m * t) + s)
OBVIOUS

(* Divided twice.                                                          *)
LEMMA DividedTwice ==
    ASSUME NEW a \in Nat, NEW m \in Nat \ {0}
    PROVE  (a \div m) \div 2 = a \div (2 * m) /\ a \div m <= a /\ a \div m \in Nat
<1> DEFINE q == a \div m
           p == q \div 2
<1>8. a = (m * q) + (a % m) /\ (a % m) \in 0 .. m - 1 /\ q \in Int
  BY Division
<1>9. q = (2 * p) + (q % 2) /\ (q % 2) \in 0 .. 1 /\ p \in Int
  BY <1>8, Division
<1> HIDE DEF q, p
<1>1. PICK s \in 0 .. m - 1 : a = (m * q) + s /\ q \in Int
  BY ONLY <1>8
<1>2. PICK t \in 0 .. 1 : q = (2 * p) + t /\ p \in Int
  BY ONLY <1>9
<1> USE DEF q
<1>3. q \in Nat
  OBVIOUS
<1>6. q <= a
  OBVIOUS
<1> HIDE DEF q
<1> DEFINE r == (m * t) + s
<1>4. r \in 0 .. (2 * m) - 1 /\ 2 * m \in Nat \ {0}
  BY <1>1, <1>2
<1>5. a = ((2 * m) * p) + r
  <2>1. s \in Int /\ t \in Int /\ m \in Int
    OBVIOUS
  <2> QED BY ONLY <1>1, <1>2, <2>1, Distribute
<1> HIDE DEF r
<1>7. a \div (2 * m) = p
  <2>1. a \in Int
    OBVIOUS
  <2> QED BY ONLY <1>2, <1>4, <1>5, <2>1, Division
<1> QED BY <1>3, <1>6, <1>7 DEF q, p

-----------------------------------------------------------------------------
(* Sums over a finite set.                                                 *)

TotalsBody(f, s, g) ==
    IF s = {} THEN 0 ELSE f[CHOOSE x \in s : TRUE] + g[s \ {CHOOSE x \in s : TRUE}]

(* The sums over all parts of D, as FoldFunctionOnSet finds them.          *)
Totals(f, D) == CHOOSE g : g = [s \in SUBSET D |-> TotalsBody(f, s, g)]

LEMMA TotalByBody ==
    ASSUME NEW D, NEW f
    PROVE  FoldFunctionOnSet(+, 0, f, D) = Totals(f, D)[D]
BY DEF FoldFunctionOnSet, MapThenFoldSet, Totals, TotalsBody

LEMMA TotalsExist ==
    ASSUME NEW D, IsFiniteSet(D), NEW f \in [D -> Int]
    PROVE  /\ Totals(f, D) \in [SUBSET D -> Int]
           /\ \A s \in SUBSET D : Totals(f, D)[s] = TotalsBody(f, s, Totals(f, D))
<1> DEFINE body == [s \in SUBSET D |-> [g \in [SUBSET D -> Int] |-> TotalsBody(f, s, g)]]
<1>1. LooksInside(body, D, Int)
  <2>1. ASSUME NEW s \in SUBSET D, NEW g \in [SUBSET D -> Int] PROVE TotalsBody(f, s, g) \in Int
    BY DEF TotalsBody
  <2>2. ASSUME NEW s \in SUBSET D, NEW g \in [SUBSET D -> Int], NEW h \in [SUBSET D -> Int],
               \A t \in SUBSET s : t # s => g[t] = h[t]
        PROVE  TotalsBody(f, s, g) = TotalsBody(f, s, h)
    <3>1. CASE s = {}
      BY <3>1 DEF TotalsBody
    <3>2. CASE s # {}
      <4>1. PICK c \in s : c = CHOOSE x \in s : TRUE
        BY <3>2
      <4>2. s \ {c} \in SUBSET s /\ s \ {c} # s
        BY <4>1
      <4> QED BY <2>2, <4>1, <4>2 DEF TotalsBody
    <3> QED BY <3>1, <3>2
  <2> QED BY <2>1, <2>2 DEF LooksInside
<1>2. PICK g \in [SUBSET D -> Int] : Solves(g, body)
  <2>1. Int # {}
    OBVIOUS
  <2> HIDE DEF body
  <2> QED BY ONLY <1>1, <2>1, IsFiniteSet(D), RecursionInside
<1>3. g = [s \in SUBSET D |-> TotalsBody(f, s, g)]
  BY <1>2 DEF Solves
<1>4. Totals(f, D) = [s \in SUBSET D |-> TotalsBody(f, s, Totals(f, D))]
  BY <1>3 DEF Totals
<1> DEFINE T == Totals(f, D)
<1>5. \A s \in SUBSET D : T[s] = TotalsBody(f, s, T)
  BY <1>4
<1>6. T \in [SUBSET D -> Int]
  <2> DEFINE C == {s \in SUBSET D : T[s] \in Int}
  <2>1. ASSUME NEW s \in SUBSET D, \A t \in SUBSET s : t # s => t \in C PROVE s \in C
    <3>1. CASE s = {}
      BY <1>5, <3>1 DEF TotalsBody
    <3>2. CASE s # {}
      <4>1. PICK c \in s : c = CHOOSE x \in s : TRUE
        BY <3>2
      <4>2. T[s \ {c}] \in Int
        BY <2>1, <4>1
      <4>3. T[s] = f[c] + T[s \ {c}]
        BY <1>5, <3>2, <4>1 DEF TotalsBody
      <4> QED BY <4>2, <4>3
    <3> QED BY <3>1, <3>2
  <2>2. SUBSET D \subseteq C
    <3> HIDE DEF C
    <3> QED BY <2>1, InductSets
  <2> QED BY <1>4, <2>2
<1> QED BY <1>5, <1>6

(* Whichever element is taken first.                                       *)
LEMMA TotalPick ==
    ASSUME NEW D, IsFiniteSet(D), NEW f \in [D -> Int]
    PROVE  /\ Totals(f, D)[{}] = 0
           /\ \A s \in SUBSET D : \A x \in s : Totals(f, D)[s] = f[x] + Totals(f, D)[s \ {x}]
<1> DEFINE T == Totals(f, D)
           C == {s \in SUBSET D : \A x \in s : T[s] = f[x] + T[s \ {x}]}
<1>1. T \in [SUBSET D -> Int] /\ \A s \in SUBSET D : T[s] = TotalsBody(f, s, T)
  BY TotalsExist
<1> HIDE DEF T
<1>2. ASSUME NEW s \in SUBSET D, \A t \in SUBSET s : t # s => t \in C PROVE s \in C
  <2> SUFFICES ASSUME NEW x \in s PROVE T[s] = f[x] + T[s \ {x}]
    OBVIOUS
  <2>1. PICK c \in s : c = CHOOSE y \in s : TRUE
    OBVIOUS
  <2>2. T[s] = f[c] + T[s \ {c}]
    BY <1>1, <2>1 DEF TotalsBody
  <2>3. CASE x = c
    BY <2>2, <2>3
  <2>4. CASE x # c
    <3>1. s \ {c} \in C /\ s \ {x} \in C
      BY <1>2
    <3>2. T[s \ {c}] = f[x] + T[(s \ {c}) \ {x}]
      BY <2>4, <3>1
    <3>3. T[s \ {x}] = f[c] + T[(s \ {x}) \ {c}]
      BY <2>4, <3>1
    <3>4. (s \ {c}) \ {x} = (s \ {x}) \ {c} /\ (s \ {x}) \ {c} \in SUBSET D
      OBVIOUS
    <3>5. f[x] \in Int /\ f[c] \in Int /\ T[(s \ {x}) \ {c}] \in Int
      BY <1>1, <3>4
    <3>6. T[(s \ {c}) \ {x}] = T[(s \ {x}) \ {c}]
      BY <3>4
    <3> QED BY ONLY <2>2, <3>2, <3>3, <3>5, <3>6
  <2> QED BY <2>3, <2>4
<1>3. SUBSET D \subseteq C
  <2> HIDE DEF C
  <2> QED BY <1>2, InductSets
<1>4. T[{}] = 0
  BY <1>1 DEF TotalsBody
<1> QED BY <1>3, <1>4 DEF T

LEMMA TotalWhole ==
    ASSUME NEW D, IsFiniteSet(D), NEW f \in [D -> Int], NEW x \in D
    PROVE  /\ Totals(f, D)[D] = f[x] + Totals(f, D)[D \ {x}]
           /\ Totals(f, D)[D \ {x}] \in Int
<1>1. D \in SUBSET D /\ D \ {x} \in SUBSET D
  OBVIOUS
<1>2. Totals(f, D)[D] = f[x] + Totals(f, D)[D \ {x}]
  BY <1>1, TotalPick
<1>3. Totals(f, D)[D \ {x}] \in Int
  <2>1. Totals(f, D) \in [SUBSET D -> Int]
    BY TotalsExist
  <2> QED BY <1>1, <2>1
<1> QED BY <1>2, <1>3

(* Equal terms, or terms that are equal but for a multiple of m.           *)
LEMMA TotalAlike ==
    ASSUME NEW m \in Nat, NEW D, IsFiniteSet(D), NEW f \in [D -> Int], NEW g \in [D -> Int],
           NEW s \in SUBSET D, \A a \in s : Alike(m, f[a], g[a])
    PROVE  Alike(m, Totals(f, D)[s], Totals(g, D)[s])
<1> DEFINE F == Totals(f, D)
           G_ == Totals(g, D)
           C == {t \in SUBSET D : t \subseteq s => Alike(m, F[t], G_[t])}
<1>1. F \in [SUBSET D -> Int] /\ G_ \in [SUBSET D -> Int]
  BY TotalsExist
<1>2. /\ F[{}] = 0 /\ \A t \in SUBSET D : \A x \in t : F[t] = f[x] + F[t \ {x}]
      /\ G_[{}] = 0 /\ \A t \in SUBSET D : \A x \in t : G_[t] = g[x] + G_[t \ {x}]
  BY TotalPick
<1> HIDE DEF F, G_
<1>3. ASSUME NEW t \in SUBSET D, \A r \in SUBSET t : r # t => r \in C PROVE t \in C
  <2> SUFFICES ASSUME t \subseteq s PROVE Alike(m, F[t], G_[t])
    OBVIOUS
  <2>1. CASE t = {}
    <3>1. F[t] = G_[t] + (m * 0)
      BY <1>2, <2>1
    <3> QED BY <3>1 DEF Alike
  <2>2. CASE t # {}
    <3>1. PICK x \in t : TRUE
      BY <2>2
    <3>2. Alike(m, F[t \ {x}], G_[t \ {x}]) /\ t \ {x} \in SUBSET D
      BY <1>3
    <3>3. PICK y \in Int : F[t \ {x}] = G_[t \ {x}] + (m * y)
      BY <3>2 DEF Alike
    <3>4. PICK z \in Int : f[x] = g[x] + (m * z)
      BY DEF Alike
    <3>5. F[t] = f[x] + F[t \ {x}] /\ G_[t] = g[x] + G_[t \ {x}]
      BY <1>2
    <3>6. F[t \ {x}] \in Int /\ G_[t \ {x}] \in Int /\ f[x] \in Int /\ g[x] \in Int
      BY <1>1, <3>2
    <3>7. F[t] = G_[t] + (m * (y + z)) /\ y + z \in Int
      BY ONLY <3>3, <3>4, <3>5, <3>6, m \in Nat, y \in Int, z \in Int
    <3> QED BY <3>7 DEF Alike
  <2> QED BY <2>1, <2>2
<1>4. SUBSET D \subseteq C
  <2> HIDE DEF C
  <2> QED BY <1>3, InductSets
<1> QED BY <1>4 DEF F, G_

(* One term grows by v.                                                    *)
LEMMA TotalGrows ==
    ASSUME NEW D, IsFiniteSet(D), NEW f \in [D -> Int], NEW g \in [D -> Int],
           NEW p \in D, NEW v \in Int, g[p] = f[p] + v, \A a \in D \ {p} : g[a] = f[a]
    PROVE  Totals(g, D)[D] = Totals(f, D)[D] + v
<1>1. Alike(0, Totals(g, D)[D \ {p}], Totals(f, D)[D \ {p}])
  <2>1. \A a \in D \ {p} : g[a] = f[a] + (0 * 0)
    OBVIOUS
  <2>2. \A a \in D \ {p} : Alike(0, g[a], f[a])
    BY <2>1 DEF Alike
  <2>3. D \ {p} \in SUBSET D /\ 0 \in Nat
    OBVIOUS
  <2> QED BY ONLY <2>2, <2>3, TotalAlike, IsFiniteSet(D), f \in [D -> Int], g \in [D -> Int]
<1>2. /\ Totals(g, D)[D \ {p}] \in Int /\ Totals(f, D)[D \ {p}] \in Int
      /\ Totals(g, D)[D] = g[p] + Totals(g, D)[D \ {p}]
      /\ Totals(f, D)[D] = f[p] + Totals(f, D)[D \ {p}]
  BY TotalWhole
<1>3. Totals(g, D)[D \ {p}] = Totals(f, D)[D \ {p}]
  BY <1>1, <1>2 DEF Alike
<1> QED BY <1>2, <1>3

-----------------------------------------------------------------------------
(* Folding a sequence from the left.                                       *)

LEMMA IndicesFinite ==
    ASSUME NEW n \in Nat
    PROVE  IsFiniteSet(1 .. n)
BY FS_Interval

LEMMA MaxIs ==
    ASSUME NEW n \in Nat, NEW s \in SUBSET (1 .. n), s # {}
    PROVE  Max(s) \in s /\ \A y \in s : y <= Max(s)
<1> DEFINE T == {n - x : x \in s}
<1>1. T \in SUBSET Nat /\ T # {}
  <2>1. \A x \in s : x \in Int /\ x <= n
    OBVIOUS
  <2>2. \A x \in s : n - x \in Nat
    BY <2>1
  <2> QED BY <2>2
<1>2. PICK k \in T : \A j \in T : k <= j
  <2> HIDE DEF T
  <2> QED BY <1>1, LeastNatural
<1>3. PICK x \in s : k = n - x
  OBVIOUS
<1>4. ASSUME NEW y \in s PROVE x >= y
  <2>1. n - y \in T
    OBVIOUS
  <2>2. n - x <= n - y /\ x \in Int /\ y \in Int
    BY <1>2, <1>3, <2>1
  <2> QED BY ONLY <2>2, n \in Nat
<1>5. Max(s) \in s /\ \A y \in s : Max(s) >= y
  BY <1>4 DEF Max
<1> QED BY <1>5

FoldBody(step, base, seq, s, g) ==
    IF s = {} THEN base ELSE step[<<g[s \ {Max(s)}], seq[Max(s)]>>]

Steps(step, S, V) == step \in [V \X S -> V]

Folded(step, base, seq, V) ==
    \E g \in [SUBSET (DOMAIN seq) -> V] :
        \A s \in SUBSET (DOMAIN seq) : g[s] = FoldBody(step, base, seq, s, g)

(* FoldLeft is a recursion over sets of indices, from which the greatest   *)
(* is taken; what it finds for the first k of them is a value of its own.  *)
LEMMA FoldExists ==
    ASSUME NEW S, NEW seq \in Seq(S), NEW V, NEW base \in V, NEW step, Steps(step, S, V)
    PROVE  Folded(step, base, seq, V)
<1> DEFINE D == DOMAIN seq
           body == [s \in SUBSET D |-> [g \in [SUBSET D -> V] |-> FoldBody(step, base, seq, s, g)]]
<1>1. D = 1 .. Len(seq) /\ Len(seq) \in Nat /\ IsFiniteSet(D)
  <2>1. D = 1 .. Len(seq) /\ Len(seq) \in Nat
    OBVIOUS
  <2>2. IsFiniteSet(1 .. Len(seq))
    BY <2>1, IndicesFinite
  <2> QED BY <2>1, <2>2
<1>2. ASSUME NEW s \in SUBSET D, s # {} PROVE Max(s) \in s /\ seq[Max(s)] \in S
  <2>1. Max(s) \in s
    <3> HIDE DEF D
    <3> QED BY <1>1, <1>2, MaxIs
  <2> QED BY <1>1, <2>1
<1> HIDE DEF D
<1>3. LooksInside(body, D, V)
  <2>1. ASSUME NEW s \in SUBSET D, NEW g \in [SUBSET D -> V] PROVE FoldBody(step, base, seq, s, g) \in V
    BY <1>2 DEF FoldBody, Steps
  <2>2. ASSUME NEW s \in SUBSET D, NEW g \in [SUBSET D -> V], NEW h \in [SUBSET D -> V],
               \A t \in SUBSET s : t # s => g[t] = h[t]
        PROVE  FoldBody(step, base, seq, s, g) = FoldBody(step, base, seq, s, h)
    BY <1>2, <2>2 DEF FoldBody
  <2> QED BY <2>1, <2>2 DEF LooksInside
<1>4. V # {}
  OBVIOUS
<1>5. PICK g \in [SUBSET D -> V] : Solves(g, body)
  <2> HIDE DEF body
  <2> QED BY ONLY <1>1, <1>3, <1>4, RecursionInside
<1>6. \A s \in SUBSET D : g[s] = FoldBody(step, base, seq, s, g)
  BY <1>5 DEF Solves
<1> QED BY <1>6 DEF D, Folded

(* What any function that solves the recursion is at the first k indices.  *)
LEMMA FoldSteps ==
    ASSUME NEW S, NEW seq \in Seq(S), NEW k \in 1 .. Len(seq)
    PROVE  /\ 1 .. k \in SUBSET (DOMAIN seq) /\ 1 .. k # {} /\ Max(1 .. k) = k
           /\ (1 .. k) \ {k} = 1 .. k - 1
<1>0. k \in Nat /\ k >= 1 /\ DOMAIN seq = 1 .. Len(seq) /\ Len(seq) \in Nat /\ k <= Len(seq)
  OBVIOUS
<1>1. Max(1 .. k) \in 1 .. k /\ \A y \in 1 .. k : y <= Max(1 .. k)
  <2>1. 1 .. k \in SUBSET (1 .. k) /\ 1 .. k # {}
    BY <1>0
  <2> QED BY ONLY <1>0, <2>1, MaxIs
<1>2. k \in 1 .. k
  OBVIOUS
<1>3. Max(1 .. k) = k
  <2>1. k <= Max(1 .. k) /\ Max(1 .. k) \in 1 .. k
    BY <1>1, <1>2
  <2> QED BY <2>1
<1>4. 1 .. k \in SUBSET (DOMAIN seq) /\ 1 .. k # {} /\ (1 .. k) \ {k} = 1 .. k - 1
  BY <1>0, SMTT(30)
<1> QED BY <1>3, <1>4

-----------------------------------------------------------------------------
(* Products, and numbers of two parts.                                     *)

-----------------------------------------------------------------------------
(* Words.                                                                  *)

(* Products of unknown factors, one step of what they follow at a time.    *)
LEMMA TimesSum ==
    ASSUME NEW m \in Int, NEW a \in Int, NEW b \in Int
    PROVE  m * (a + b) = (m * a) + (m * b) /\ m * a \in Int /\ a * m = m * a
OBVIOUS

LEMMA TimesTimes ==
    ASSUME NEW a \in Int, NEW b \in Int, NEW c \in Int
    PROVE  a * (b * c) = (a * b) * c /\ b * (a * c) = a * (b * c) /\ a * (b * c) \in Int
OBVIOUS

LEMMA TimesGrows ==
    ASSUME NEW m \in Nat, NEW a \in Int, NEW b \in Int
    PROVE  /\ a <= b => m * a <= m * b
           /\ a < b => (m * a) + m <= m * b
           /\ a \in Nat => m * a \in Nat
<1>1. ASSUME NEW x \in Nat PROVE m * x \in Nat
  <2> DEFINE S == {y \in Nat : m * y \in Nat}
  <2>1. 0 \in S /\ \A y \in Nat : y \in S => y + 1 \in S
    <3>1. 0 \in S
      OBVIOUS
    <3>2. ASSUME NEW y \in Nat, y \in S PROVE y + 1 \in S
      <4>1. m * (y + 1) = (m * y) + (m * 1) /\ m * 1 = m
        BY TimesSum
      <4> QED BY <3>2, <4>1
    <3> QED BY <3>1, <3>2
  <2> HIDE DEF S
  <2>2. Nat \subseteq S
    BY <2>1, Induct
  <2> QED BY <2>2 DEF S
<1>2. m * b = (m * a) + (m * (b - a)) /\ m * a \in Int /\ m * b \in Int /\ m * (b - a) \in Int
  <2>1. b - a \in Int /\ a + (b - a) = b
    OBVIOUS
  <2> QED BY ONLY <2>1, TimesSum, m \in Nat, a \in Int, b \in Int
<1>3. a <= b => m * a <= m * b
  <2>1. a <= b => m * (b - a) \in Nat
    BY <1>1
  <2> QED BY <1>2, <2>1
<1>4. a < b => (m * a) + m <= m * b
  <2>1. a < b => m * ((b - a) - 1) \in Nat
    BY <1>1
  <2>2. m * (b - a) = (m * ((b - a) - 1)) + m
    <3>1. m * (((b - a) - 1) + 1) = (m * ((b - a) - 1)) + (m * 1) /\ m * 1 = m
      BY TimesSum
    <3>2. ((b - a) - 1) + 1 = b - a
      OBVIOUS
    <3> QED BY <3>1, <3>2
  <2>3. m * ((b - a) - 1) \in Int
    BY TimesSum
  <2> QED BY <1>2, <2>1, <2>2, <2>3
<1> QED BY <1>1, <1>3, <1>4

(* A number of two parts: x below m, and y times m.                        *)
LEMMA PartsAre ==
    ASSUME NEW m \in Nat \ {0}, NEW x \in 0 .. m - 1, NEW y \in Int
    PROVE  /\ (x + (m * y)) % m = x /\ (x + (m * y)) \div m = y
           /\ x + (m * y) \in Int
           /\ y \in Nat => x + (m * y) \in Nat
           /\ \A k \in Int : y \in 0 .. k - 1 => x + (m * y) \in 0 .. (m * k) - 1
<1>1. m * y \in Int /\ x + (m * y) \in Int /\ x + (m * y) = (m * y) + x
  BY TimesSum
<1>2. (x + (m * y)) % m = x /\ (x + (m * y)) \div m = y
  <2> DEFINE a == x + (m * y)
  <2>1. a \in Int /\ a = (m * y) + x
    BY <1>1
  <2> HIDE DEF a
  <2>2. \A q \in Int : \A r \in 0 .. m - 1 : a = (m * q) + r => (a % m) = r /\ (a \div m) = q
    BY ONLY <2>1, Division, m \in Nat \ {0}
  <2>3. (a % m) = x /\ (a \div m) = y
    BY <2>1, <2>2
  <2> QED BY <2>3 DEF a
<1>3. y \in Nat => m * y \in Nat
  BY TimesGrows
<1>4. ASSUME NEW k \in Int, y \in 0 .. k - 1 PROVE x + (m * y) \in 0 .. (m * k) - 1
  <2>1. (m * y) + m <= m * k /\ m * y \in Nat /\ m * k \in Int
    BY <1>4, TimesGrows, TimesSum
  <2> QED BY <2>1
<1> QED BY <1>1, <1>2, <1>3, <1>4

LEMMA PartsBelow ==
    ASSUME NEW m \in Nat \ {0}, NEW k \in Nat, NEW x \in 0 .. m - 1, NEW y \in 0 .. k - 1
    PROVE  x + (m * y) \in 0 .. (m * k) - 1
BY PartsAre

LEMMA PartsOrder ==
    ASSUME NEW m \in Nat \ {0}, NEW x \in 0 .. m - 1, NEW y \in Int,
           NEW z \in 0 .. m - 1, NEW w \in Int
    PROVE  /\ x + (m * y) < z + (m * w) <=> y < w \/ (y = w /\ x < z)
           /\ x + (m * y) = z + (m * w) <=> y = w /\ x = z
<1>1. m * y \in Int /\ m * w \in Int
  BY TimesSum
<1>2. /\ y < w => (m * y) + m <= m * w
      /\ w < y => (m * w) + m <= m * y
  BY TimesGrows
<1>3. CASE y < w
  BY <1>1, <1>2, <1>3
<1>4. CASE w < y
  BY <1>1, <1>2, <1>4
<1>5. CASE y = w
  BY <1>1, <1>5
<1> QED BY <1>3, <1>4, <1>5

(* One value after the other, n times, by a step that knows its number.    *)
Chained(f, n, first, step) ==
    f = [i \in 0 .. n |-> IF i = 0 THEN first ELSE step[<<i, f[i - 1]>>]]

LEMMA Chain ==
    ASSUME NEW V, NEW first \in V, NEW n \in Nat, NEW step \in [(1 .. n) \X V -> V]
    PROVE  \E f \in [0 .. n -> V] : Chained(f, n, first, step)
<1> DEFINE Begun(g, k) == g[0] = first /\ \A i \in 1 .. n : i <= k => g[i] = step[<<i, g[i - 1]>>]
           T == {k \in Nat : \E g \in [0 .. n -> V] : Begun(g, k)}
<1>1. 0 \in T
  <2>1. [i \in 0 .. n |-> first] \in [0 .. n -> V] /\ Begun([i \in 0 .. n |-> first], 0)
    OBVIOUS
  <2> QED BY <2>1
<1>2. ASSUME NEW k \in Nat, k \in T PROVE k + 1 \in T
  <2>1. PICK g \in [0 .. n -> V] : Begun(g, k)
    BY <1>2
  <2>2. CASE k + 1 > n
    <3>1. Begun(g, k + 1)
      BY <2>1, <2>2
    <3> QED BY <3>1
  <2>3. CASE k + 1 <= n
    <3> DEFINE v == step[<<k + 1, g[k]>>]
               h == [g EXCEPT ![k + 1] = v]
    <3>1. k \in 0 .. n /\ k + 1 \in 1 .. n /\ g[k] \in V /\ v \in V
      BY <2>3
    <3>2. h \in [0 .. n -> V] /\ h[k + 1] = v /\ \A i \in 0 .. n : i <= k => h[i] = g[i]
      BY <3>1
    <3> HIDE DEF h
    <3>3. ASSUME NEW i \in 1 .. n, i <= k + 1 PROVE h[i] = step[<<i, h[i - 1]>>]
      <4>1. CASE i <= k
        <5>1. i - 1 \in 0 .. n /\ i - 1 <= k /\ i \in 0 .. n
          BY <4>1
        <5> QED BY <2>1, <3>2, <4>1, <5>1
      <4>2. CASE i = k + 1
        <5>1. h[i] = v /\ i - 1 = k /\ h[k] = g[k]
          BY <3>1, <3>2, <4>2
        <5> QED BY <4>2, <5>1
      <4> QED BY <3>3, <4>1, <4>2
    <3>4. h[0] = first
      BY <2>1, <3>2
    <3> QED BY <3>2, <3>3, <3>4
  <2> QED BY <2>2, <2>3
<1> HIDE DEF T
<1>3. n \in T
  BY <1>1, <1>2, Induct
<1>4. PICK f \in [0 .. n -> V] : Begun(f, n)
  BY <1>3 DEF T
<1>5. \A i \in 0 .. n : f[i] = IF i = 0 THEN first ELSE step[<<i, f[i - 1]>>]
  BY <1>4
<1> QED BY <1>5 DEF Chained

LEMMA TopIs ==
    ASSUME NEW S \in SUBSET Int, NEW i \in S, \A j \in S : j <= i
    PROVE  (CHOOSE k \in S : \A j \in S : j <= k) = i
<1>1. \A k \in S : (\A j \in S : j <= k) => k = i
  OBVIOUS
<1> QED BY <1>1

(* Divided by a product.                                                   *)
LEMMA DividedBoth ==
    ASSUME NEW n \in Int, NEW a \in Nat \ {0}, NEW b \in Nat \ {0}
    PROVE  n \div (a * b) = (n \div a) \div b /\ a * b \in Nat \ {0}
<1> DEFINE q == n \div a
           r == n % a
           p == q \div b
           s == q % b
<1>1. n = (a * q) + r /\ r \in 0 .. a - 1 /\ q \in Int
  BY Division
<1>2. q = (b * p) + s /\ s \in 0 .. b - 1 /\ p \in Int
  BY <1>1, Division
<1> HIDE DEF q, r, p, s
<1>3. r + (a * s) \in 0 .. (a * b) - 1
  BY <1>1, <1>2, PartsBelow
<1>4. a * b \in Nat \ {0}
  <2>1. (a * 0) + a <= a * b /\ a * 0 = 0
    BY TimesGrows
  <2> QED BY <2>1
<1>5. n = (r + (a * s)) + ((a * b) * p)
  <2>1. a * ((b * p) + s) = (a * (b * p)) + (a * s) /\ a * (b * p) = (a * b) * p
        /\ (a * s) \in Int /\ (a * (b * p)) \in Int
    BY <1>2, TimesSum, TimesTimes
  <2>2. n = ((a * (b * p)) + (a * s)) + r
    <3>1. a * q = a * ((b * p) + s)
      BY <1>2
    <3> QED BY <1>1, <2>1, <3>1
  <2> DEFINE x == a * (b * p)
             y == a * s
  <2>3. n = (x + y) + r /\ x = (a * b) * p /\ x \in Int /\ y \in Int /\ r \in Int
    <3>1. r \in Int
      BY <1>1
    <3> QED BY ONLY <2>1, <2>2, <3>1
  <2> HIDE DEF x, y
  <2>4. n = (r + y) + x
    BY ONLY <2>3
  <2> QED BY <2>3, <2>4 DEF y
<1>6. n \div (a * b) = p
  <2> DEFINE m == a * b
             x == r + (a * s)
  <2>1. m \in Nat \ {0} /\ x \in 0 .. m - 1 /\ n = x + (m * p)
    BY <1>3, <1>4, <1>5
  <2> HIDE DEF m, x
  <2>2. (x + (m * p)) \div m = p
    BY <1>2, <2>1, PartsAre
  <2>3. n \div m = p
    BY <2>1, <2>2
  <2> QED BY <2>3 DEF m
<1> QED BY <1>4, <1>6 DEF p, q

(* The quotient of a number of two parts is below the second one's bound.  *)
LEMMA QuotientBelow ==
    ASSUME NEW m \in Nat \ {0}, NEW k \in Nat, NEW n \in 0 .. (m * k) - 1
    PROVE  n \div m \in 0 .. k - 1
<1> DEFINE q == n \div m
           r == n % m
<1>1. n = (m * q) + r /\ r \in 0 .. m - 1 /\ q \in Int /\ n \in Int /\ n >= 0 /\ n < m * k /\ m * k \in Int
  <2>1. m * k \in Int
    BY TimesSum
  <2> QED BY <2>1, Division
<1> HIDE DEF q, r
<1>2. m * q \in Int /\ m * k \in Int
  BY <1>1, TimesSum
<1>3. ASSUME q < 0 PROVE FALSE
  <2>1. (m * q) + m <= m * 0 /\ m * 0 = 0
    BY <1>1, <1>3, TimesGrows
  <2> QED BY <1>1, <1>2, <2>1
<1>4. ASSUME q >= k PROVE FALSE
  <2>1. m * k <= m * q
    BY <1>1, <1>4, TimesGrows
  <2> QED BY <1>1, <1>2, <2>1
<1> QED BY <1>1, <1>3, <1>4 DEF q

(* A number between 0 and two moduli, and one between the modulus below    *)
(* and above 0.                                                            *)
LEMMA OnceAround ==
    ASSUME NEW m \in Nat \ {0}, NEW n \in Int
    PROVE  /\ n \in 0 .. m - 1 => n % m = n
           /\ n \in m .. (2 * m) - 1 => n % m = n - m
           /\ n \in (0 - m) .. -1 => n % m = n + m
<1>1. ASSUME n \in 0 .. m - 1 PROVE n % m = n
  BY <1>1, SmallStays
<1>2. ASSUME n \in m .. (2 * m) - 1 PROVE n % m = n - m
  <2>1. n - m \in 0 .. m - 1 /\ (n - m) + (m * 1) = n
    BY <1>2
  <2>2. ((n - m) + (m * 1)) % m = n - m
    BY <2>1, PartsAre
  <2> QED BY <2>1, <2>2
<1>3. ASSUME n \in (0 - m) .. -1 PROVE n % m = n + m
  <2>1. n + m \in 0 .. m - 1 /\ (n + m) + (m * (-1)) = n /\ -1 \in Int
    BY <1>3
  <2>2. ((n + m) + (m * (-1))) % m = n + m
    BY <2>1, PartsAre
  <2> QED BY <2>1, <2>2
<1> QED BY <1>1, <1>2, <1>3

-----------------------------------------------------------------------------
(* Bits.                                                                   *)

(* The number of bits of n.                                                *)
HasBits(n, b) == n \div TwoTo[b - 1] = 1

LEMMA BitsBetween ==
    ASSUME NEW n \in Nat, NEW b \in Nat \ {0}
    PROVE  HasBits(n, b) <=> TwoTo[b - 1] <= n /\ n < TwoTo[b]
<1> DEFINE m == TwoTo[b - 1]
           q == n \div m
           r == n % m
<1>1. m \in Nat \ {0} /\ TwoTo[b] = 2 * m
  <2>1. b - 1 \in Nat /\ (b - 1) + 1 = b
    OBVIOUS
  <2> QED BY <2>1, Powers
<1> HIDE DEF m
<1>2. n = (m * q) + r /\ r \in 0 .. m - 1 /\ q \in Int
  <2>1. n \in Int
    OBVIOUS
  <2> QED BY ONLY <1>1, <2>1, Division
<1> HIDE DEF q, r
<1>3. ASSUME q = 1 PROVE m <= n /\ n < 2 * m
  <2>1. m * 1 = m
    BY <1>1
  <2>2. n = m + r
    BY <1>2, <1>3, <2>1
  <2> QED BY <1>1, <1>2, <2>2
<1>4. ASSUME m <= n, n < 2 * m PROVE q = 1
  <2>1. m * q \in Int
    BY <1>1, <1>2, TimesSum
  <2>2. ASSUME q <= 0 PROVE FALSE
    <3>1. m * q <= m * 0 /\ m * 0 = 0
      BY <1>1, <1>2, <2>2, TimesGrows
    <3> QED BY <1>1, <1>2, <1>4, <2>1, <3>1
  <2>3. ASSUME q >= 2 PROVE FALSE
    <3>1. m * 2 <= m * q /\ m * 2 = 2 * m
      BY <1>1, <1>2, <2>3, TimesGrows
    <3> QED BY <1>1, <1>2, <1>4, <2>1, <3>1
  <2> QED BY <1>2, <2>2, <2>3
<1>5. TwoTo[b - 1] = m
  BY DEF m
<1> QED BY <1>1, <1>3, <1>4, <1>5 DEF HasBits, q, m

LEMMA PowersGrowWeakly ==
    ASSUME NEW a \in Nat, NEW b \in Nat, a <= b
    PROVE  TwoTo[a] <= TwoTo[b]
<1>1. b - a \in Nat /\ a + (b - a) = b
  OBVIOUS
<1>2. TwoTo[b] = TwoTo[a] * TwoTo[b - a] /\ TwoTo[a] \in Nat \ {0} /\ TwoTo[b - a] \in Nat \ {0}
      /\ TwoTo[b] \in Nat \ {0}
  BY <1>1, PowersMultiply, Powers
<1> DEFINE x == TwoTo[a]
           y == TwoTo[b - a]
<1>3. x * 1 <= x * y /\ x * 1 = x
  <2>1. x \in Nat /\ y \in Int /\ 1 <= y
    BY <1>2
  <2> HIDE DEF x, y
  <2> QED BY <2>1, TimesGrows
<1> QED BY <1>2, <1>3

LEMMA OneNumberOfBits ==
    ASSUME NEW n \in Nat, NEW b \in Nat \ {0}, NEW c \in Nat \ {0}, HasBits(n, b), HasBits(n, c)
    PROVE  b = c
<1>1. ASSUME NEW x \in Nat \ {0}, NEW y \in Nat \ {0}, HasBits(n, x), HasBits(n, y), x < y
      PROVE  FALSE
  <2>1. x \in Nat /\ y - 1 \in Nat /\ x <= y - 1
    BY <1>1
  <2>2. TwoTo[x] <= TwoTo[y - 1] /\ TwoTo[x] \in Nat /\ TwoTo[y - 1] \in Nat
    BY <2>1, PowersGrowWeakly, Powers
  <2>3. n < TwoTo[x] /\ TwoTo[y - 1] <= n
    BY <1>1, BitsBetween
  <2> QED BY <2>2, <2>3
<1> QED BY <1>1

(* Every number but 0 has one, and it is small.                            *)
LEMMA BitsExist ==
    ASSUME NEW n \in Nat \ {0}
    PROVE  \E b \in 1 .. n : HasBits(n, b)
<1> DEFINE S == {d \in Nat : n < TwoTo[d]}
<1>1. \A d \in Nat : d < TwoTo[d] /\ TwoTo[d] \in Nat
  <2> DEFINE T == {d \in Nat : d < TwoTo[d]}
  <2>1. 0 \in T
    BY Powers
  <2>2. ASSUME NEW d \in Nat, d \in T PROVE d + 1 \in T
    <3>1. TwoTo[d + 1] = 2 * TwoTo[d] /\ TwoTo[d] \in Nat \ {0}
      BY Powers
    <3> QED BY <2>2, <3>1
  <2> HIDE DEF T
  <2>3. Nat \subseteq T
    BY <2>1, <2>2, Induct
  <2> QED BY <2>3, Powers DEF T
<1>2. n \in S /\ S \in SUBSET Nat
  BY <1>1
<1>3. PICK b \in S : \A d \in S : b <= d
  <2> HIDE DEF S
  <2>1. S # {}
    BY <1>2
  <2> QED BY <1>2, <2>1, LeastNatural
<1>4. b # 0
  BY Powers
<1>5. b \in Nat /\ n < TwoTo[b] /\ b <= n
  BY <1>2, <1>3
<1>6. b - 1 \in Nat /\ b - 1 \notin S
  BY <1>3, <1>4, <1>5
<1>7. TwoTo[b - 1] <= n
  BY <1>1, <1>6
<1>8. HasBits(n, b)
  BY <1>4, <1>5, <1>7, BitsBetween
<1> QED BY <1>4, <1>5, <1>8

(* Shifted by a power of two.                                              *)
LEMMA BitsShifted ==
    ASSUME NEW n \in Nat, NEW k \in Nat, NEW b \in Nat \ {0}, HasBits(n \div TwoTo[k], b)
    PROVE  HasBits(n, k + b)
<1>1. TwoTo[k + (b - 1)] = TwoTo[k] * TwoTo[b - 1] /\ TwoTo[k] \in Nat \ {0} /\ TwoTo[b - 1] \in Nat \ {0}
  <2>1. b - 1 \in Nat
    OBVIOUS
  <2>2. TwoTo[k + (b - 1)] = TwoTo[k] * TwoTo[b - 1]
    BY <2>1, PowersMultiply
  <2> QED BY <2>1, <2>2, Powers
<1>2. n \div (TwoTo[k] * TwoTo[b - 1]) = (n \div TwoTo[k]) \div TwoTo[b - 1]
  BY <1>1, DividedBoth
<1>3. (k + b) - 1 = k + (b - 1)
  OBVIOUS
<1> QED BY <1>1, <1>2, <1>3 DEF HasBits

LEMMA BitsBound ==
    ASSUME NEW n \in Nat, NEW b \in Nat \ {0}, NEW k \in Nat, HasBits(n, b), n < TwoTo[k]
    PROVE  b <= k
<1>1. ASSUME b > k PROVE FALSE
  <2>1. k <= b - 1 /\ b - 1 \in Nat
    BY <1>1
  <2>2. TwoTo[k] <= TwoTo[b - 1] /\ TwoTo[k] \in Nat /\ TwoTo[b - 1] \in Nat
    BY <2>1, PowersGrowWeakly, Powers
  <2>3. TwoTo[b - 1] <= n
    BY BitsBetween
  <2> QED BY <2>2, <2>3
<1> QED BY <1>1

LEMMA Multiple0 ==
    ASSUME NEW m \in Nat \ {0}, NEW a \in Int, NEW b \in Int, NEW z \in Int, a = b + (m * z)
    PROVE  a % m = b % m
<1>1. Alike(m, a, b)
  BY DEF Alike
<1> QED BY <1>1, AlikeRules

-----------------------------------------------------------------------------
(* Loops.                                                                  *)

(* What a loop goes through from s on.                                     *)
Goes(g, step)     == \A n \in Nat : g[n + 1] = step[g[n]]

Orbit(V, step, s) == CHOOSE g \in [Nat -> V] : g[0] = s /\ Goes(g, step)

(* Where it stops, and with what.                                          *)
Ends(V, step, go, s) == {n \in Nat : Orbit(V, step, s)[n] \notin go}

Least(S) == CHOOSE n \in S : \A k \in S : n <= k

Outcome(V, step, go, out, s) ==
    IF Ends(V, step, go, s) = {} THEN 0
    ELSE out[Orbit(V, step, s)[Least(Ends(V, step, go, s))]]

LEMMA LeastIs ==
    ASSUME NEW S \in SUBSET Nat, NEW n \in S, \A k \in S : n <= k
    PROVE  Least(S) = n
<1>1. PICK k \in S : Least(S) = k /\ \A j \in S : k <= j
  BY DEF Least
<1>2. k <= n /\ n <= k /\ k \in Int /\ n \in Int
  BY <1>1
<1>3. k = n
  BY <1>2
<1> QED BY <1>1, <1>3

LEMMA OrbitIs ==
    ASSUME NEW V, NEW step \in [V -> V], NEW s \in V
    PROVE  /\ Orbit(V, step, s) \in [Nat -> V] /\ Orbit(V, step, s)[0] = s
           /\ Goes(Orbit(V, step, s), step)
<1>1. \E f \in [Nat -> V] : f[0] = s /\ Goes(f, step)
  BY Iteration DEF Goes
<1> QED BY <1>1 DEF Orbit

LEMMA OrbitMoves ==
    ASSUME NEW V, NEW step \in [V -> V], NEW s \in V
    PROVE  \A n \in Nat : Orbit(V, step, step[s])[n] = Orbit(V, step, s)[n + 1]
<1> DEFINE a == Orbit(V, step, s)
           b == Orbit(V, step, step[s])
           T == {n \in Nat : b[n] = a[n + 1]}
<1>1. a[0] = s /\ \A n \in Nat : a[n + 1] = step[a[n]]
  <2>1. /\ Orbit(V, step, s)[0] = s
        /\ Goes(Orbit(V, step, s), step)
    BY OrbitIs
  <2> QED BY <2>1 DEF Goes
<1>2. b[0] = step[s] /\ \A n \in Nat : b[n + 1] = step[b[n]]
  <2>1. step[s] \in V
    OBVIOUS
  <2> DEFINE t == step[s]
  <2>2. t \in V
    BY <2>1
  <2> HIDE DEF t
  <2>3. Orbit(V, step, t)[0] = t /\ Goes(Orbit(V, step, t), step)
    BY <2>2, OrbitIs
  <2> QED BY <2>3 DEF t, Goes
<1> HIDE DEF a, b
<1>3. 0 \in T
  <2>1. a[0 + 1] = step[s]
    BY <1>1
  <2> QED BY <1>2, <2>1
<1>4. ASSUME NEW n \in Nat, n \in T PROVE n + 1 \in T
  <2>1. b[n + 1] = step[b[n]] /\ a[(n + 1) + 1] = step[a[n + 1]] /\ n + 1 \in Nat
    BY <1>1, <1>2
  <2> QED BY <1>4, <2>1
<1>5. Nat \subseteq T
  BY <1>3, <1>4, Induct
<1> QED BY <1>5 DEF a, b

(* Some function is what a loop makes of the state it starts in.           *)
Looped(f, V, step, go, out) == f = [s \in V |-> IF s \in go THEN f[step[s]] ELSE out[s]]

LEMMA LoopExists ==
    ASSUME NEW V, NEW step \in [V -> V], NEW go, NEW out
    PROVE  \E f : Looped(f, V, step, go, out)
<1> DEFINE f == [s \in V |-> Outcome(V, step, go, out, s)]
<1>1. ASSUME NEW s \in V, s \notin go PROVE f[s] = out[s]
  <2> DEFINE E == Ends(V, step, go, s)
             o == Orbit(V, step, s)
  <2>1. o[0] = s
    BY OrbitIs
  <2>2. E \in SUBSET Nat /\ 0 \in E /\ \A k \in E : 0 <= k
    BY <1>1, <2>1 DEF Ends
  <2>3. f[s] = IF E = {} THEN 0 ELSE out[o[Least(E)]]
    BY DEF Outcome
  <2> HIDE DEF E, o, f
  <2>4. Least(E) = 0
    BY <2>2, LeastIs
  <2> QED BY <2>1, <2>2, <2>3, <2>4
<1>2. ASSUME NEW s \in V, s \in go PROVE f[s] = f[step[s]]
  <2> DEFINE t == step[s]
             E == Ends(V, step, go, s)
             D == Ends(V, step, go, t)
             o == Orbit(V, step, s)
             q == Orbit(V, step, t)
  <2>1. t \in V /\ o[0] = s
    BY OrbitIs
  <2>2. \A n \in Nat : q[n] = o[n + 1]
    BY OrbitMoves
  <2>3. f[s] = (IF E = {} THEN 0 ELSE out[o[Least(E)]]) /\ f[t] = (IF D = {} THEN 0 ELSE out[q[Least(D)]])
    BY <2>1 DEF Outcome
  <2>4. E = {n \in Nat : o[n] \notin go} /\ D = {n \in Nat : q[n] \notin go}
    BY DEF Ends
  <2> HIDE DEF E, D, o, q, f, t
  <2>5. \A n \in Nat : n \in D <=> n + 1 \in E
    BY <2>2, <2>4
  <2>6. ASSUME NEW n \in E PROVE n - 1 \in D
    <3>1. n \in Nat /\ n # 0
      BY <1>2, <2>1, <2>4, <2>6
    <3>2. n - 1 \in Nat /\ (n - 1) + 1 = n
      BY <3>1
    <3> QED BY <2>5, <2>6, <3>2
  <2>7. CASE D = {}
    <3>1. E = {}
      BY <2>6, <2>7
    <3> QED BY <2>3, <2>7, <3>1 DEF t
  <2>8. CASE D # {}
    <3>1. D \in SUBSET Nat /\ E \in SUBSET Nat
      BY <2>4
    <3>2. PICK n \in D : \A k \in D : n <= k
      BY <2>8, <3>1, LeastNatural
    <3>3. n \in Nat /\ n + 1 \in E
      BY <2>5, <3>1, <3>2
    <3>4. ASSUME NEW k \in E PROVE n + 1 <= k
      <4>1. n <= k - 1 /\ k \in Nat
        BY <2>6, <3>1, <3>2
      <4> QED BY <3>3, <4>1
    <3>5. Least(D) = n /\ Least(E) = n + 1
      BY <3>1, <3>2, <3>3, <3>4, LeastIs
    <3>6. q[n] = o[n + 1] /\ E # {}
      BY <2>2, <3>3
    <3> QED BY <2>3, <2>8, <3>5, <3>6 DEF t
  <2> QED BY <2>7, <2>8
<1>3. f = [s \in V |-> f[s]]
  OBVIOUS
<1> HIDE DEF f
<1>4. Looped(f, V, step, go, out)
  BY <1>1, <1>2, <1>3 DEF Looped
<1> QED BY <1>4

-----------------------------------------------------------------------------
(* Numbers without a common divisor, and one that u times n is, modulo m.  *)
Bezout(a, b) == \E x \in Int : \E y \in Int : (x * a) + (y * b) = 1

Kept(m, n, a, u) == a \in Nat \ {0} /\ u \in 0 .. m - 1 /\ Alike(m, a, u * n)

LEMMA BezoutSwaps ==
    ASSUME NEW a \in Int, NEW b \in Int, Bezout(a, b)
    PROVE  Bezout(b, a)
<1>1. PICK x \in Int, y \in Int : (x * a) + (y * b) = 1
  BY DEF Bezout
<1>2. x * a \in Int /\ y * b \in Int
  BY TimesSum
<1> DEFINE c == x * a
           d == y * b
<1> HIDE DEF c, d
<1>3. c + d = 1 /\ c \in Int /\ d \in Int
  BY <1>1, <1>2 DEF c, d
<1>4. d + c = 1
  BY <1>3
<1> QED BY <1>4 DEF c, d, Bezout

LEMMA BezoutHalves ==
    ASSUME NEW c \in Int, NEW b \in Int, Bezout(2 * c, b)
    PROVE  Bezout(c, b)
<1>1. PICK x \in Int, y \in Int : (x * (2 * c)) + (y * b) = 1
  BY DEF Bezout
<1>2. x * (2 * c) = (x * 2) * c /\ x * 2 \in Int
  BY TimesTimes
<1>3. ((x * 2) * c) + (y * b) = 1
  BY <1>1, <1>2
<1> QED BY <1>2, <1>3 DEF Bezout

LEMMA BezoutTakes ==
    ASSUME NEW a \in Int, NEW b \in Int, Bezout(a, b)
    PROVE  Bezout(a - b, b)
<1>1. PICK x \in Int, y \in Int : (x * a) + (y * b) = 1
  BY DEF Bezout
<1> DEFINE c == x * a
           d == x * b
           e == y * b
<1>2. c \in Int /\ d \in Int /\ e \in Int
  BY TimesSum
<1>3. x * (a - b) = c - d
  <2>1. x * ((a - b) + b) = (x * (a - b)) + d /\ x * (a - b) \in Int /\ a - b \in Int
    BY TimesSum
  <2>2. (a - b) + b = a
    OBVIOUS
  <2> HIDE DEF d
  <2> QED BY <1>2, <2>1, <2>2
<1>4. (x + y) * b = d + e /\ x + y \in Int
  <2>1. b * (x + y) = (b * x) + (b * y) /\ b * x = x * b /\ b * y = y * b
    BY TimesSum
  <2>2. (x + y) * b = b * (x + y)
    BY TimesSum
  <2> QED BY <2>1, <2>2
<1> HIDE DEF c, d, e
<1>5. (x * (a - b)) + ((x + y) * b) = 1
  <2>1. c + e = 1
    BY <1>1 DEF c, e
  <2>2. (c - d) + (d + e) = 1
    BY <1>2, <2>1
  <2> QED BY <1>3, <1>4, <2>2
<1> QED BY <1>4, <1>5 DEF Bezout

(* A number without a common divisor with itself is 1.                     *)
LEMMA BezoutSame ==
    ASSUME NEW a \in Nat, Bezout(a, a)
    PROVE  a = 1
<1>1. PICK x \in Int, y \in Int : (x * a) + (y * a) = 1
  BY DEF Bezout
<1> DEFINE z == x + y
<1>2. a * z = 1 /\ z \in Int
  <2>1. a * (x + y) = (a * x) + (a * y) /\ a * x = x * a /\ a * y = y * a
    BY TimesSum
  <2> QED BY <1>1, <2>1
<1> HIDE DEF z
<1>3. a >= 1
  <2> SUFFICES ASSUME a = 0 PROVE FALSE
    OBVIOUS
  <2>1. 0 * z = 0
    BY <1>2
  <2> QED BY <1>2, <2>1
<1>4. ASSUME a >= 2 PROVE FALSE
  <2>1. CASE z <= 0
    <3>1. a * z <= a * 0 /\ a * 0 = 0
      BY <1>2, <2>1, TimesGrows
    <3> QED BY <1>2, <3>1
  <2>2. CASE z >= 1
    <3>1. a * 1 <= a * z /\ a * 1 = a
      BY <1>2, <2>2, TimesGrows
    <3> QED BY <1>2, <1>4, <3>1
  <2> QED BY <1>2, <2>1, <2>2
<1> QED BY <1>3, <1>4

(* Half of u modulo an odd m.                                              *)
HalfMod(m, u) == IF u % 2 = 0 THEN u \div 2 ELSE (u + m) \div 2

LEMMA HalfModIs ==
    ASSUME NEW m \in Nat, m % 2 = 1, NEW u \in 0 .. m - 1
    PROVE  /\ HalfMod(m, u) \in 0 .. m - 1
           /\ 2 * HalfMod(m, u) = u \/ 2 * HalfMod(m, u) = u + m
<1>1. CASE u % 2 = 0
  <2>1. HalfMod(m, u) = u \div 2
    BY <1>1 DEF HalfMod
  <2> QED BY <1>1, <2>1
<1>2. CASE u % 2 # 0
  <2>1. HalfMod(m, u) = (u + m) \div 2
    BY <1>2 DEF HalfMod
  <2>2. (u + m) % 2 = 0
    BY <1>2
  <2> QED BY <1>2, <2>1, <2>2
<1> QED BY <1>1, <1>2

LEMMA KeptHalves ==
    ASSUME NEW m \in Nat \ {0}, m % 2 = 1, NEW n \in Int, NEW c \in Int, NEW u, Kept(m, n, 2 * c, u)
    PROVE  Kept(m, n, c, HalfMod(m, u))
<1> DEFINE w == HalfMod(m, u)
<1>1. u \in 0 .. m - 1 /\ c \in Nat \ {0} /\ m \in Nat /\ m \in Int
  BY DEF Kept
<1>2. w \in 0 .. m - 1 /\ (2 * w = u \/ 2 * w = u + m)
  BY <1>1, HalfModIs
<1>3. PICK z \in Int : 2 * c = (u * n) + (m * z)
  BY DEF Kept, Alike
<1> HIDE DEF w
<1>4. \E e \in Int : 2 * c = 2 * (w * n) + (m * e)
  <2>1. w \in Int /\ u \in Int /\ w * n \in Int /\ m * z \in Int /\ m * n \in Int /\ m * (z - n) \in Int /\ u * n \in Int
        /\ z - n \in Int
    BY <1>1, <1>2, TimesSum
  <2>2. (2 * w) * n = 2 * (w * n)
    BY <2>1, TimesTimes
  <2>3. CASE 2 * w = u
    BY <1>3, <2>2, <2>3
  <2>4. CASE 2 * w = u + m
    <3>1. n * (u + m) = (n * u) + (n * m) /\ n * u = u * n /\ n * m = m * n /\ (u + m) * n = n * (u + m)
      BY <1>1, <2>1, TimesSum
    <3>2. m * ((z - n) + n) = (m * (z - n)) + (m * n) /\ (z - n) + n = z
      BY <1>1, <2>1, TimesSum
    <3>3. 2 * (w * n) = (u * n) + (m * n)
      BY <2>2, <2>4, <3>1
    <3>4. m * z = (m * (z - n)) + (m * n)
      BY <3>2
    <3>5. 2 * c = 2 * (w * n) + (m * (z - n))
      BY <1>3, <2>1, <3>3, <3>4
    <3> QED BY <2>1, <3>5
  <2> QED BY <1>2, <2>3, <2>4
<1>5. PICK e \in Int : 2 * c = 2 * (w * n) + (m * e)
  BY <1>4
<1>6. PICK h \in Int : m = (2 * h) + 1
  BY <1>1
<1>7. m * e = 2 * (h * e) + e /\ h * e \in Int
  <2>1. e * ((2 * h) + 1) = (e * (2 * h)) + (e * 1) /\ e * 1 = e /\ m * e = e * m
    BY <1>1, TimesSum
  <2>2. e * (2 * h) = 2 * (e * h) /\ e * h = h * e /\ h * e \in Int
    BY TimesTimes, TimesSum
  <2> QED BY <1>6, <2>1, <2>2
<1>8. w * n \in Int
  BY <1>2, TimesSum
<1>9. \E f \in Int : e = 2 * f
  <2> DEFINE p == w * n
             q == h * e
  <2>0. 2 * c = (2 * p) + ((2 * q) + e) /\ p \in Int /\ q \in Int
    BY <1>5, <1>7, <1>8
  <2> HIDE DEF p, q
  <2>1. 2 * c = (2 * p) + (2 * q) + e /\ p \in Int /\ q \in Int
    BY <2>0
  <2>2. e = 2 * ((c - p) - q) /\ (c - p) - q \in Int
    BY <2>1
  <2> QED BY <2>2
<1>10. PICK f \in Int : e = 2 * f
  BY <1>9
<1>11. c = (w * n) + (m * f)
  <2>1. m * (2 * f) = 2 * (m * f) /\ m * f \in Int
    BY <1>1, TimesTimes, TimesSum
  <2> DEFINE p == w * n
             q == m * f
  <2>2. 2 * c = (2 * p) + (2 * q) /\ p \in Int /\ q \in Int
    BY <1>5, <1>8, <1>10, <2>1
  <2> HIDE DEF p, q
  <2>3. c = p + q
    BY <2>2
  <2> QED BY <2>3 DEF p, q
<1>12. Alike(m, c, w * n)
  BY <1>11 DEF Alike
<1> QED BY <1>1, <1>2, <1>12 DEF Kept, w

(* One taken from the other, modulo m.                                     *)
DiffMod(m, u, v) == IF u < v THEN (u - v) + m ELSE u - v

LEMMA KeptTakes ==
    ASSUME NEW m \in Nat \ {0}, NEW n \in Int, NEW a, NEW b, NEW u, NEW v,
           Kept(m, n, a, u), Kept(m, n, b, v), a > b
    PROVE  Kept(m, n, a - b, DiffMod(m, u, v))
<1> DEFINE w == DiffMod(m, u, v)
<1>1. a \in Nat \ {0} /\ b \in Nat \ {0} /\ u \in 0 .. m - 1 /\ v \in 0 .. m - 1
      /\ Alike(m, a, u * n) /\ Alike(m, b, v * n)
  BY DEF Kept
<1>2. w \in 0 .. m - 1 /\ (w = u - v \/ w = (u - v) + m)
  BY <1>1 DEF DiffMod
<1>3. a \in Int /\ b \in Int /\ u \in Int /\ v \in Int /\ w \in Int /\ m \in Int /\ a - b \in Nat \ {0}
  BY <1>1, <1>2
<1>4. u * n \in Int /\ v * n \in Int /\ w * n \in Int /\ m * n \in Int
  BY <1>3, TimesSum
<1>5. Alike(m, a - b, (u * n) - (v * n))
  BY <1>1, <1>3, <1>4, AlikeRules
<1> HIDE DEF w
<1>6. Alike(m, (u * n) - (v * n), w * n)
  <2>1. n * ((u - v) + v) = (n * (u - v)) + (n * v) /\ (u - v) + v = u /\ u - v \in Int
        /\ n * (u - v) \in Int
    BY <1>3, TimesSum
  <2>2. n * u = u * n /\ n * v = v * n /\ n * w = w * n /\ n * m = m * n
    BY <1>3, TimesSum
  <2>3. n * (u - v) = (u * n) - (v * n)
    BY <1>4, <2>1, <2>2
  <2>4. CASE w = u - v
    <3>1. (u * n) - (v * n) = (w * n) + (m * 0)
      BY <1>3, <1>4, <2>2, <2>3, <2>4
    <3> QED BY <3>1 DEF Alike
  <2>5. CASE w = (u - v) + m
    <3>1. n * ((u - v) + m) = (n * (u - v)) + (n * m)
      BY <1>3, <2>1, TimesSum
    <3>2. w * n = ((u * n) - (v * n)) + (m * n)
      BY <2>2, <2>3, <2>5, <3>1
    <3>3. m * (0 - 1) = -m /\ n * (0 - 1) = -n /\ 0 - n \in Int
      BY <1>3
    <3>4. m * (n + (0 - n)) = (m * n) + (m * (0 - n)) /\ m * (0 - n) \in Int /\ n + (0 - n) = 0
      BY <1>3, <3>3, TimesSum
    <3>5. m * 0 = 0
      BY <1>3
    <3>6. m * (0 - n) = 0 - (m * n)
      BY <1>4, <3>4, <3>5
    <3>7. (u * n) - (v * n) = (w * n) + (m * (0 - n))
      BY <1>4, <3>2, <3>6
    <3> QED BY <3>3, <3>7 DEF Alike
  <2> QED BY <1>2, <2>4, <2>5
<1>7. Alike(m, a - b, w * n)
  <2>1. a - b \in Int /\ (u * n) - (v * n) \in Int
    BY <1>3, <1>4
  <2> QED BY <1>4, <1>5, <1>6, <2>1, AlikeTrans
<1> QED BY <1>2, <1>3, <1>7 DEF Kept, w

-----------------------------------------------------------------------------
(* Sums over sets, bits, and sequences.                                    *)

LEMMA TotalInt ==
    ASSUME NEW D, IsFiniteSet(D), NEW f \in [D -> Int]
    PROVE  Totals(f, D)[D] \in Int
<1>1. Totals(f, D) \in [SUBSET D -> Int] /\ D \in SUBSET D
  BY TotalsExist
<1> QED BY <1>1

(* Nobody has anything.                                                    *)
LEMMA TotalZero ==
    ASSUME NEW D, IsFiniteSet(D), NEW f \in [D -> Int], \A a \in D : f[a] = 0
    PROVE  Totals(f, D)[D] = 0
<1> DEFINE T == Totals(f, D)
           C == {s \in SUBSET D : T[s] = 0}
<1>1. T[{}] = 0 /\ \A s \in SUBSET D : \A x \in s : T[s] = f[x] + T[s \ {x}]
  BY TotalPick
<1> HIDE DEF T
<1>2. ASSUME NEW s \in SUBSET D, \A t \in SUBSET s : t # s => t \in C PROVE s \in C
  <2>1. CASE s = {}
    BY <1>1, <2>1
  <2>2. CASE s # {}
    <3>1. PICK x \in s : TRUE
      BY <2>2
    <3>2. T[s \ {x}] = 0 /\ f[x] = 0 /\ T[s] = f[x] + T[s \ {x}]
      BY <1>1, <1>2
    <3> QED BY <3>2
  <2> QED BY <2>1, <2>2
<1>3. SUBSET D \subseteq C
  <2> HIDE DEF C
  <2> QED BY <1>2, InductSets
<1> QED BY <1>3 DEF T

LEMMA AppendIs ==
    ASSUME NEW D, NEW st \in Seq(D), NEW d \in D, NEW q, Len(st) = q
    PROVE  Append(st, d) = [b \in 1 .. q + 1 |-> IF b = q + 1 THEN d ELSE st[b]]
<1> DEFINE a == Append(st, d)
<1>1. /\ a \in Seq(D) /\ Len(a) = q + 1 /\ a[q + 1] = d /\ q \in Nat
      /\ \A b \in 1 .. q : a[b] = st[b]
  BY AppendProperties
<1> HIDE DEF a
<1>2. a = [b \in 1 .. q + 1 |-> a[b]]
  <2>1. a \in [1 .. Len(a) -> D]
    BY <1>1
  <2> QED BY <1>1, <2>1
<1>3. \A b \in 1 .. q + 1 : a[b] = IF b = q + 1 THEN d ELSE st[b]
  <2>1. \A b \in 1 .. q + 1 : b # q + 1 => b \in 1 .. q
    BY <1>1
  <2> QED BY <1>1, <2>1
<1> QED BY <1>2, <1>3 DEF a

LEMMA MaxUpTo ==
    ASSUME NEW n \in Nat, NEW s \in SUBSET (0 .. n), s # {}
    PROVE  Max(s) \in s /\ \A y \in s : y <= Max(s)
<1> DEFINE T == {n - x : x \in s}
<1>1. T \in SUBSET Nat /\ T # {}
  <2>1. \A x \in s : x \in Int /\ x <= n
    OBVIOUS
  <2>2. \A x \in s : n - x \in Nat
    BY <2>1
  <2> QED BY <2>2
<1>2. PICK k \in T : \A j \in T : k <= j
  <2> HIDE DEF T
  <2> QED BY <1>1, LeastNatural
<1>3. PICK x \in s : k = n - x
  OBVIOUS
<1>4. ASSUME NEW y \in s PROVE x >= y
  <2>1. n - y \in T
    OBVIOUS
  <2>2. n - x <= n - y
    BY <1>2, <1>3, <2>1
  <2>3. x \in Int /\ y \in Int
    BY <1>3, <1>4
  <2> QED BY ONLY <2>2, <2>3, n \in Nat
<1>5. Max(s) \in s /\ \A y \in s : Max(s) >= y
  BY <1>4 DEF Max
<1> QED BY <1>5

LEMMA PowersGrow ==
    ASSUME NEW m \in Nat, NEW n \in Nat, m <= n
    PROVE  TwoTo[m] \in Nat /\ TwoTo[n] \in Nat /\ TwoTo[m] <= TwoTo[n]
<1>1. n - m \in Nat /\ m + (n - m) = n
  OBVIOUS
<1>2. TwoTo[n] = TwoTo[m] * TwoTo[n - m]
  BY <1>1, PowersMultiply
<1>3. TwoTo[m] \in Nat /\ TwoTo[n - m] \in Nat \ {0} /\ TwoTo[n] \in Nat
  BY <1>1, Powers
<1>4. ASSUME NEW a \in Nat, NEW b \in Nat \ {0} PROVE a <= a * b
  <2>1. b - 1 \in Nat /\ a * b = a + (a * (b - 1)) /\ a * (b - 1) \in Nat
    OBVIOUS
  <2> QED BY <2>1
<1> QED BY <1>2, <1>3, <1>4

(* The highest bit of a number.                                            *)
LEMMA OneBit ==
    ASSUME NEW x \in Nat, NEW a \in Nat, NEW w \in Nat, TwoTo[a] <= x, x < TwoTo[w]
    PROVE  \E k \in a .. w - 1 : (x \div TwoTo[k]) % 2 = 1
<1> DEFINE S == {k \in Nat : x < TwoTo[k]}
<1>1. w \in S /\ S \in SUBSET Nat
  OBVIOUS
<1>2. PICK n \in S : \A m \in S : n <= m
  <2> HIDE DEF S
  <2> QED BY <1>1, LeastNatural
<1>3. n \in Nat /\ x < TwoTo[n] /\ n <= w /\ a < n
  <2>1. n \in Nat /\ x < TwoTo[n] /\ n <= w
    BY <1>1, <1>2
  <2>2. CASE n <= a
    <3>1. TwoTo[n] <= TwoTo[a] /\ TwoTo[n] \in Nat /\ TwoTo[a] \in Nat
      BY <2>1, <2>2, PowersGrow
    <3> QED BY <2>1, <3>1
  <2> QED BY <2>1, <2>2
<1> DEFINE k == n - 1
           t == TwoTo[k]
<1>4. k \in Nat /\ k \in a .. w - 1 /\ k \notin S /\ k + 1 = n
  BY <1>2, <1>3
<1>5. t \in Nat \ {0} /\ t <= x /\ TwoTo[n] = 2 * t
  <2>1. t \in Nat \ {0} /\ TwoTo[k + 1] = 2 * t
    BY <1>4, Powers
  <2> QED BY <1>4, <2>1
<1>6. x \div t = 1
  <2> HIDE DEF t, k
  <2> DEFINE r == x - t
             one == 1
  <2>1. x = (t * one) + r /\ r \in 0 .. t - 1 /\ x \in Int /\ one \in Int
    BY <1>3, <1>5
  <2> HIDE DEF r, one
  <2>2. x \div t = one
    BY ONLY <1>5, <2>1, Division
  <2> QED BY <2>2 DEF one
<1> QED BY <1>4, <1>6

LEMMA LeastOf ==
    ASSUME NEW s \in SUBSET Nat, s # {}
    PROVE  Min(s) \in s /\ \A y \in s : Min(s) <= y
<1>1. PICK k \in s : \A y \in s : k <= y
  BY LeastNatural
<1> QED BY <1>1 DEF Min

(* The place of a letter.                                                  *)
PlaceIn(s, c) == SelectInSeq(s, LAMBDA u : u = c)

AllDiffer(s, n) == Len(s) = n /\ \A i, j \in 1 .. n : s[i] = s[j] => i = j

LEMMA PlaceOf ==
    ASSUME NEW s, NEW n \in Nat, AllDiffer(s, n), NEW k \in 1 .. n
    PROVE  PlaceIn(s, s[k]) = k
<1> DEFINE I == {i \in 1 .. Len(s) : s[i] = s[k]}
<1>1. I = {k}
  BY DEF AllDiffer
<1>2. k \in Nat /\ I # {} /\ I \in SUBSET Nat
  BY <1>1
<1>3. Min(I) = k
  <2> HIDE DEF I
  <2>1. Min(I) \in I
    BY <1>2, LeastOf
  <2> QED BY <1>1, <2>1
<1> QED BY <1>2, <1>3 DEF PlaceIn, SelectInSeq

LEMMA SameSequence ==
    ASSUME NEW S, NEW T, NEW s \in Seq(S), NEW t \in Seq(T), Len(s) = Len(t),
           \A i \in 1 .. Len(s) : s[i] = t[i]
    PROVE  s = t
<1>1. s = [i \in 1 .. Len(s) |-> s[i]] /\ t = [i \in 1 .. Len(t) |-> t[i]]
  OBVIOUS
<1> QED BY <1>1

LEMMA NibblesAre ==
    ASSUME NEW b \in 0 .. 255
    PROVE  /\ (b \div 16) + 1 \in 1 .. 16 /\ (b % 16) + 1 \in 1 .. 16
           /\ (b \div 16) \in 0 .. 15 /\ (b % 16) \in 0 .. 15
           /\ (16 * (b \div 16)) + (b % 16) = b
OBVIOUS

LEMMA NibblesPut ==
    ASSUME NEW h \in 0 .. 15, NEW l \in 0 .. 15
    PROVE  LET b == (16 * h) + l
           IN  b \in 0 .. 255 /\ (b \div 16) = h /\ (b % 16) = l
OBVIOUS
=============================================================================
