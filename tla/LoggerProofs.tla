---------------------------- MODULE LoggerProofs ----------------------------
(* Proofs about Logger for any cores, loggers and limits: a core's log     *)
(* stays in commit order, a buffer has one epoch, and no core commits into *)
(* an epoch that was declared durable.                                     *)
EXTENDS Logger, SequenceTheorems, FiniteSetTheorems, WellFoundedInduction, TLAPS

-----------------------------------------------------------------------------
(* Numbers.  Induction is by the least counterexample, which the theorems  *)
(* on finite sets give; the sets stand for the predicates.                 *)

LEMMA Smallest ==
    ASSUME NEW T, T \subseteq Nat, T # {}
    PROVE  \E x \in T : \A y \in T : x <= y
<1> DEFINE R == StrictSubsetOrdering(Nat)
           I(n) == {m \in Nat : m < n}
           U == {I(n) : n \in T}
<1>1. \A n \in Nat : IsFiniteSet(I(n))
  <2> TAKE n \in Nat
  <2>1. I(n) = 0..(n - 1) /\ 0 \in Int /\ n - 1 \in Int
    OBVIOUS
  <2>2. IsFiniteSet(0..(n - 1))
    BY <2>1, FS_Interval
  <2> QED
    BY <2>1, <2>2
<1>2. U \subseteq FiniteSubsetsOf(Nat) /\ U # {}
  BY <1>1 DEF FiniteSubsetsOf
<1>3. IsWellFoundedOn(R, FiniteSubsetsOf(Nat))
  BY FS_StrictSubsetOrderingWellFounded
<1> HIDE DEF U, R
<1>4. PICK u \in U : \A v \in U : ~(<<v, u>> \in R)
  BY <1>2, <1>3, WFMin
<1>5. PICK x \in T : u = I(x)
  BY DEF U
<1>6. ASSUME NEW y \in T, ~(x <= y) PROVE FALSE
  <2>1. I(y) \in U
    BY DEF U
  <2>2. x \in Nat /\ y \in Nat /\ y < x
    BY <1>6
  <2>3. y \in I(x) /\ y \notin I(y) /\ I(y) \subseteq I(x) /\ I(x) \subseteq Nat
    BY <2>2
  <2>4. <<I(y), I(x)>> \in R
    BY <2>3 DEF R, StrictSubsetOrdering
  <2> QED
    BY <1>4, <1>5, <2>1, <2>4
<1> QED
  BY <1>6

LEMMA NatInd ==
    ASSUME NEW S, 0 \in S, \A n \in Nat : n \in S => n + 1 \in S
    PROVE  Nat \subseteq S
<1> SUFFICES ASSUME Nat \ S # {} PROVE FALSE
  OBVIOUS
<1>1. PICK x \in Nat \ S : \A y \in Nat \ S : x <= y
  BY Smallest
<1>2. x # 0 /\ x - 1 \in Nat
  BY <1>1
<1>3. x - 1 \in S
  BY <1>1, <1>2
<1> QED
  BY <1>1, <1>2, <1>3

LEMMA MinIn ==
    ASSUME NEW T, T \subseteq Nat, T # {}
    PROVE  Min(T) \in T
<1>1. PICK x \in T : \A y \in T : x <= y
  BY Smallest
<1> QED
  BY <1>1 DEF Min

LEMMA MaxIn ==
    ASSUME NEW k \in Nat, NEW T, T \subseteq 0..k, T # {}
    PROVE  Max(T) \in T
<1> DEFINE U == {k - t : t \in T}
<1>1. U \subseteq Nat /\ U # {}
  <2>1. \A t \in T : k - t \in Nat
    OBVIOUS
  <2> QED
    BY <2>1
<1>2. PICK u \in U : \A v \in U : u <= v
  BY <1>1, Smallest
<1>3. PICK x \in T : u = k - x
  OBVIOUS
<1>4. ASSUME NEW y \in T PROVE x >= y
  <2>1. k - y \in U
    OBVIOUS
  <2>2. k - x <= k - y
    BY <1>2, <1>3, <2>1
  <2>3. x \in Int /\ y \in Int
    OBVIOUS
  <2> QED
    BY <2>2, <2>3
<1> QED
  BY <1>4 DEF Max

LEMMA MaxIs ==
    ASSUME NEW T, T \subseteq Nat, NEW m \in T, \A y \in T : m >= y
    PROVE  Max(T) = m
<1>1. Max(T) \in T /\ \A y \in T : Max(T) >= y
  BY DEF Max
<1>2. m \in Nat /\ Max(T) \in Nat
  BY <1>1
<1> QED
  BY <1>1, <1>2

(* The recursive function in FlattenSeq.                                   *)
Step(s, f) == f = [i \in 1..Len(s) |-> IF i = 1 THEN s[i] ELSE f[i - 1] \o s[i]]
Flat(s) == CHOOSE f : Step(s, f)
LEMMA FlattenDef ==
    ASSUME NEW s
    PROVE FlattenSeq(s) = IF Len(s) = 0 THEN s ELSE Flat(s)[Len(s)]
BY DEF FlattenSeq, Flat, Step

LEMMA AppendToConcat ==
    ASSUME NEW S, NEW s \in Seq(S), NEW q \in Seq(S), NEW e \in S
    PROVE  s \o Append(q, e) = Append(s \o q, e)
<1>1. /\ Append(q, e) = q \o <<e>> /\ <<e>> \in Seq(S)
      /\ s \o q \in Seq(S) /\ Append(s \o q, e) = (s \o q) \o <<e>>
  BY AppendIsConcat, ConcatProperties
<1>2. s \o (q \o <<e>>) = (s \o q) \o <<e>>
  BY <1>1, SMTT(60)
<1> QED
  BY <1>1, <1>2

LEMMA FlatExists ==
    ASSUME NEW S, NEW s \in Seq(Seq(S))
    PROVE  \E f : Step(s, f)
<1> DEFINE N == Len(s)
           Part(k, f) == \A i \in 1..k : f[i] = IF i = 1 THEN s[i] ELSE f[i - 1] \o s[i]
           Has(k) == k <= N => \E f \in [1..k -> Seq(S)] : Part(k, f)
           G == {k \in Nat : Has(k)}
<1>1. N \in Nat /\ \A i \in 1..N : s[i] \in Seq(S)
  OBVIOUS
<1>2. 0 \in G
  <2>1. [i \in 1..0 |-> <<>>] \in [1..0 -> Seq(S)] /\ Part(0, [i \in 1..0 |-> <<>>])
    OBVIOUS
  <2> QED
    BY <2>1
<1>3. ASSUME NEW k \in Nat, Has(k) PROVE Has(k + 1)
  <2> SUFFICES ASSUME k + 1 <= N PROVE \E f \in [1..(k + 1) -> Seq(S)] : Part(k + 1, f)
    OBVIOUS
  <2>0. \E f \in [1..k -> Seq(S)] : Part(k, f)
    <3>1. k <= N
      BY <1>1
    <3> QED
      BY <1>3, <3>1
  <2>1. PICK f \in [1..k -> Seq(S)] : Part(k, f)
    BY <2>0
  <2> DEFINE g == [i \in 1..(k + 1) |->
                     IF i = k + 1 THEN (IF i = 1 THEN s[i] ELSE f[k] \o s[i]) ELSE f[i]]
  <2>2. ASSUME NEW i \in 1..(k + 1)
        PROVE  g[i] \in Seq(S) /\ g[i] = IF i = 1 THEN s[i] ELSE g[i - 1] \o s[i]
    <3>1. s[i] \in Seq(S)
      BY <1>1
    <3>2. CASE i = k + 1 /\ i = 1
      BY <3>1, <3>2
    <3>3. CASE i = k + 1 /\ i # 1
      <4>1. k \in 1..k /\ i - 1 = k /\ k \in 1..(k + 1) /\ k # k + 1
        BY <3>3
      <4>2. f[k] \in Seq(S) /\ g[k] = f[k] /\ g[i] = f[k] \o s[i]
        BY <2>1, <3>3, <4>1
      <4>3. f[k] \o s[i] \in Seq(S)
        BY <3>1, <4>2, ConcatProperties
      <4> QED
        BY <3>3, <4>1, <4>2, <4>3
    <3>4. CASE i # k + 1
      <4>1. i \in 1..k /\ g[i] = f[i]
        BY <3>4
      <4>2. i = 1 \/ (i - 1 \in 1..(k + 1) /\ i - 1 # k + 1)
        BY <3>4
      <4>3. i = 1 \/ g[i - 1] = f[i - 1]
        BY <4>2
      <4>4. f[i] = IF i = 1 THEN s[i] ELSE f[i - 1] \o s[i]
        BY <2>1, <4>1
      <4>5. f[i] \in Seq(S)
        BY <2>1, <4>1
      <4> QED
        BY <4>1, <4>3, <4>4, <4>5
    <3> QED
      BY <3>2, <3>3, <3>4
  <2>3. g \in [1..(k + 1) -> Seq(S)]
    BY <2>2
  <2>4. Part(k + 1, g)
    BY <2>2
  <2> QED
    BY <2>3, <2>4
<1>4. Has(N)
  <2> HIDE DEF Has
  <2>1. \A k \in Nat : k \in G => k + 1 \in G
    BY <1>3
  <2> HIDE DEF G
  <2>2. Nat \subseteq G
    BY <1>2, <2>1, NatInd
  <2> QED
    BY <1>1, <2>2 DEF G
<1>5. PICK f \in [1..N -> Seq(S)] : Part(N, f)
  <2>1. \E f \in [1..N -> Seq(S)] : Part(N, f)
    BY <1>1, <1>4
  <2> QED
    BY <2>1
<1>6. f = [i \in 1..N |-> IF i = 1 THEN s[i] ELSE f[i - 1] \o s[i]]
  BY <1>5
<1> QED
  BY <1>6 DEF Step

(* The function depends on the part of the sequence before its argument.   *)
LEMMA FlatPrefix ==
    ASSUME NEW S, NEW s \in Seq(Seq(S)), NEW t \in Seq(Seq(S)), NEW f, NEW g,
           Step(s, f), Step(t, g), NEW n \in Nat, n <= Len(s), n <= Len(t),
           \A i \in 1..n : s[i] = t[i]
    PROVE  \A i \in 1..n : f[i] = g[i] /\ f[i] \in Seq(S)
<1> DEFINE G == {k \in Nat : k \in 1..n => f[k] = g[k] /\ f[k] \in Seq(S)}
<1>1. 0 \in G
  OBVIOUS
<1>2. ASSUME NEW k \in Nat, k \in G PROVE k + 1 \in G
  <2> SUFFICES ASSUME k + 1 \in 1..n PROVE f[k + 1] = g[k + 1] /\ f[k + 1] \in Seq(S)
    OBVIOUS
  <2>0. k + 1 \in 1..Len(s) /\ k + 1 \in 1..Len(t)
    OBVIOUS
  <2>1. k + 1 \in 1..Len(s) /\ k + 1 \in 1..Len(t) /\ s[k + 1] = t[k + 1] /\ s[k + 1] \in Seq(S)
    BY <2>0, ElementOfSeq
  <2>2. /\ f[k + 1] = IF k + 1 = 1 THEN s[k + 1] ELSE f[(k + 1) - 1] \o s[k + 1]
        /\ g[k + 1] = IF k + 1 = 1 THEN t[k + 1] ELSE g[(k + 1) - 1] \o t[k + 1]
    BY <2>1 DEF Step
  <2>3. CASE k = 0
    BY <2>1, <2>2, <2>3
  <2>4. CASE k # 0
    <3>1. k \in 1..n /\ (k + 1) - 1 = k /\ k + 1 # 1
      BY <2>4
    <3>2. f[k] = g[k] /\ f[k] \in Seq(S)
      BY <1>2, <3>1
    <3>3. f[k] \o s[k + 1] \in Seq(S)
      BY <2>1, <3>2, ConcatProperties
    <3> QED
      BY <2>1, <2>2, <3>1, <3>2, <3>3
  <2> QED
    BY <2>3, <2>4
<1> HIDE DEF G
<1>3. Nat \subseteq G
  BY <1>1, <1>2, NatInd
<1> QED
  BY <1>3 DEF G

LEMMA FlatStep ==
    ASSUME NEW S, NEW s \in Seq(Seq(S))
    PROVE  Step(s, Flat(s))
BY FlatExists DEF Flat

LEMMA FlattenAppend ==
    ASSUME NEW S, NEW s \in Seq(Seq(S)), NEW x \in Seq(S)
    PROVE  /\ FlattenSeq(s) \in Seq(S)
           /\ FlattenSeq(Append(s, x)) = FlattenSeq(s) \o x
<1> DEFINE t == Append(s, x)
           n == Len(s)
<1>1. /\ t \in Seq(Seq(S)) /\ n \in Nat /\ Len(t) = n + 1 /\ t[n + 1] = x
      /\ \A i \in 1..n : t[i] = s[i]
  BY AppendProperties
<1>2. Step(s, Flat(s)) /\ Step(t, Flat(t))
  BY <1>1, FlatStep
<1> HIDE DEF t
<1>3. \A i \in 1..n : Flat(s)[i] = Flat(t)[i] /\ Flat(s)[i] \in Seq(S)
  <2>1. n <= Len(s) /\ n <= Len(t)
    BY <1>1
  <2>0. \A i \in 1..n : s[i] = t[i]
    BY <1>1, Zenon
  <2>2. \A i \in 1..n : Flat(t)[i] = Flat(s)[i] /\ Flat(t)[i] \in Seq(S)
    BY <1>1, <1>2, <2>0, <2>1, FlatPrefix
  <2> QED
    BY <2>2
<1>4. FlattenSeq(t) = Flat(t)[n + 1]
  BY <1>1, FlattenDef
<1>5. Flat(t)[n + 1] = IF n + 1 = 1 THEN t[n + 1] ELSE Flat(t)[(n + 1) - 1] \o t[n + 1]
  <2>1. n + 1 \in 1..Len(t)
    BY <1>1
  <2> QED
    BY <1>2, <2>1 DEF Step
<1>6. CASE n = 0
  <2>1. FlattenSeq(s) = s /\ s = <<>> /\ s \in Seq(S)
    BY <1>6, FlattenDef
  <2>2. <<>> \o x = x
    BY ConcatEmptySeq
  <2> QED
    BY <1>1, <1>4, <1>5, <1>6, <2>1, <2>2 DEF t
<1>7. CASE n # 0
  <2>1. FlattenSeq(s) = Flat(s)[n] /\ n \in 1..n /\ (n + 1) - 1 = n /\ n + 1 # 1
    BY <1>1, <1>7, FlattenDef
  <2> QED
    BY <1>1, <1>3, <1>4, <1>5, <2>1 DEF t
<1> QED
  BY <1>6, <1>7

LEMMA FlattenEmpty == FlattenSeq(<<>>) = <<>>
BY FlattenDef

(* Empty sequences add nothing.                                            *)
LEMMA FlattenConcat ==
    ASSUME NEW S, NEW s \in Seq(Seq(S)), NEW t \in Seq(Seq(S))
    PROVE  FlattenSeq(s \o t) = FlattenSeq(s) \o FlattenSeq(t)
<1> DEFINE P(k) == SubSeq(t, 1, k)
           G == {k \in Nat : k <= Len(t) =>
                   FlattenSeq(s \o P(k)) = FlattenSeq(s) \o FlattenSeq(P(k))}
<1>1. Len(t) \in Nat /\ P(0) = <<>> /\ P(Len(t)) = t
  BY SubSeqEmpty, SubSeqFull
<1>2. FlattenSeq(s) \in Seq(S)
  BY FlattenAppend, EmptySeq
<1>3. 0 \in G
  <2>1. s \o <<>> = s /\ FlattenSeq(s) \o <<>> = FlattenSeq(s)
    BY <1>2, ConcatEmptySeq
  <2> QED
    BY <1>1, <2>1, FlattenEmpty
<1>4. ASSUME NEW k \in Nat, k \in G PROVE k + 1 \in G
  <2> SUFFICES ASSUME k + 1 <= Len(t)
               PROVE  FlattenSeq(s \o P(k + 1)) = FlattenSeq(s) \o FlattenSeq(P(k + 1))
    OBVIOUS
  <2> DEFINE p == P(k)
             x == t[k + 1]
  <2>1. FlattenSeq(s \o p) = FlattenSeq(s) \o FlattenSeq(p)
    BY <1>1, <1>4
  <2>2. p \in Seq(Seq(S)) /\ x \in Seq(S) /\ P(k + 1) = Append(p, x)
    <3>1. x \in Seq(S)
      OBVIOUS
    <3>2. \A i \in 1..k : t[i] \in Seq(S)
      OBVIOUS
    <3>3. p \in Seq(Seq(S))
      BY <3>2, SubSeqProperties
    <3>4. P(k + 1) = Append(p, x)
      OBVIOUS
    <3> QED
      BY <3>1, <3>3, <3>4
  <2> HIDE DEF p, x
  <2>3. s \o Append(p, x) = Append(s \o p, x) /\ s \o p \in Seq(Seq(S))
    <3>1. s \in Seq(Seq(S)) /\ p \in Seq(Seq(S)) /\ x \in Seq(S)
      BY <2>2
    <3> QED
      BY <3>1, AppendToConcat, ConcatProperties
  <2>4. /\ FlattenSeq(Append(s \o p, x)) = FlattenSeq(s \o p) \o x
        /\ FlattenSeq(Append(p, x)) = FlattenSeq(p) \o x
        /\ FlattenSeq(p) \in Seq(S)
    BY <2>2, <2>3, FlattenAppend
  <2> DEFINE u == FlattenSeq(s)
             v == FlattenSeq(p)
  <2>5. u \in Seq(S) /\ v \in Seq(S) /\ x \in Seq(S)
    BY <1>2, <2>2, <2>4
  <2> HIDE DEF u, v
  <2>6. (u \o v) \o x = u \o (v \o x)
    BY <2>5, SMTT(60)
  <2> QED
    BY <2>1, <2>2, <2>3, <2>4, <2>6 DEF u, v
<1> HIDE DEF G
<1>5. Len(t) \in G
  BY <1>1, <1>3, <1>4, NatInd
<1>6. FlattenSeq(s \o P(Len(t))) = FlattenSeq(s) \o FlattenSeq(P(Len(t)))
  BY <1>1, <1>5 DEF G
<1> QED
  BY <1>1, <1>6

LEMMA FlattenEmpties ==
    ASSUME NEW S, NEW s \in Seq(Seq(S)), \A i \in DOMAIN s : s[i] = <<>>
    PROVE  FlattenSeq(s) = <<>>
<1> DEFINE G == {k \in Nat : k \in 1..Len(s) => Flat(s)[k] = <<>>}
<1>1. 0 \in G
  OBVIOUS
<1>2. ASSUME NEW k \in Nat, k \in G PROVE k + 1 \in G
  <2> SUFFICES ASSUME k + 1 \in 1..Len(s) PROVE Flat(s)[k + 1] = <<>>
    OBVIOUS
  <2>1. s[k + 1] = <<>>
    OBVIOUS
  <2>2. Flat(s)[k + 1] = IF k + 1 = 1 THEN s[k + 1] ELSE Flat(s)[(k + 1) - 1] \o s[k + 1]
    <3>1. Step(s, Flat(s))
      BY FlatStep
    <3> QED
      BY <3>1 DEF Step
  <2>3. CASE k = 0
    BY <2>1, <2>2, <2>3
  <2>4. CASE k # 0
    <3>1. Flat(s)[k] = <<>> /\ (k + 1) - 1 = k /\ k + 1 # 1
      BY <1>2, <2>4
    <3>2. <<>> \o <<>> = <<>>
      OBVIOUS
    <3> QED
      BY <2>1, <2>2, <3>1, <3>2
  <2> QED
    BY <2>3, <2>4
<1> HIDE DEF G
<1>3. Nat \subseteq G
  BY <1>1, <1>2, NatInd
<1>4. CASE Len(s) = 0
  BY <1>4, FlattenDef
<1>5. CASE Len(s) # 0
  <2>1. Len(s) \in Nat /\ Len(s) \in 1..Len(s)
    BY <1>5
  <2> QED
    BY <1>3, <1>5, <2>1, FlattenDef DEF G
<1> QED
  BY <1>4, <1>5
(* Parts of a sequence that grows at its end and shrinks at its front.     *)
LEMMA RestAppend ==
    ASSUME NEW S, NEW s \in Seq(S), NEW n \in 0..Len(s), NEW e \in S
    PROVE  SubSeq(Append(s, e), n + 1, Len(Append(s, e))) = Append(SubSeq(s, n + 1, Len(s)), e)
<1> DEFINE t == Append(s, e)
           u == SubSeq(s, n + 1, Len(s))
           v == SubSeq(t, n + 1, Len(t))
           m == Len(s) - n
<1>1. /\ t \in Seq(S) /\ Len(t) = Len(s) + 1 /\ Len(s) \in Nat
      /\ \A i \in 1..Len(s) : t[i] = s[i]
      /\ t[Len(s) + 1] = e
  BY AppendProperties
<1> HIDE DEF t
<1>2. u \in Seq(S) /\ Len(u) = m /\ \A i \in 1..m : u[i] = s[n + i]
  OBVIOUS
<1>3. v \in Seq(S) /\ Len(v) = m + 1 /\ \A i \in 1..(m + 1) : v[i] = t[n + i]
  BY <1>1
<1> HIDE DEF u, v
<1>4. /\ Append(u, e) \in Seq(S) /\ Len(Append(u, e)) = m + 1
      /\ \A i \in 1..m : Append(u, e)[i] = u[i]
      /\ Append(u, e)[m + 1] = e
  BY <1>2, AppendProperties
<1>5. ASSUME NEW i \in 1..(m + 1) PROVE v[i] = Append(u, e)[i]
  <2>1. CASE i = m + 1
    <3>1. n + i = Len(s) + 1
      BY <1>1, <2>1
    <3> QED
      BY <1>1, <1>3, <1>4, <2>1, <3>1
  <2>2. CASE i # m + 1
    <3>1. i \in 1..m /\ n + i \in 1..Len(s)
      BY <1>1, <2>2
    <3> QED
      BY <1>1, <1>2, <1>3, <1>4, <3>1
  <2> QED
    BY <2>1, <2>2
<1>6. v = Append(u, e)
  BY <1>3, <1>4, <1>5, SeqEqual
<1> QED
  BY <1>6 DEF t, u, v

LEMMA RestTail ==
    ASSUME NEW S, NEW s \in Seq(S), s # <<>>, NEW n \in 1..Len(s)
    PROVE  SubSeq(Tail(s), n, Len(Tail(s))) = SubSeq(s, n + 1, Len(s))
OBVIOUS

LEMMA Halves ==
    ASSUME NEW S, NEW s \in Seq(S), NEW n \in 0..Len(s)
    PROVE  /\ SubSeq(s, 1, n) \in Seq(S) /\ SubSeq(s, n + 1, Len(s)) \in Seq(S)
           /\ s = SubSeq(s, 1, n) \o SubSeq(s, n + 1, Len(s))
<1>1. Len(s) \in Nat /\ \A i \in 1..Len(s) : s[i] \in S
  BY ElementOfSeq
<1>2. 1 \in 1..(Len(s) + 1) /\ n \in (1 - 1)..Len(s) /\ Len(s) \in n..Len(s)
  BY <1>1
<1>3. SubSeq(s, 1, n) \o SubSeq(s, n + 1, Len(s)) = SubSeq(s, 1, Len(s))
  BY <1>2, ConcatAdjacentSubSeq
<1>4. SubSeq(s, 1, Len(s)) = s
  BY SubSeqFull
<1>5. SubSeq(s, 1, n) \in Seq(S) /\ SubSeq(s, n + 1, Len(s)) \in Seq(S)
  BY <1>1, SubSeqProperties
<1> QED
  BY <1>3, <1>4, <1>5

LEMMA Regroup ==
    ASSUME NEW d \in Seq(Nat), NEW p \in Seq(Nat), NEW q \in Seq(Nat)
    PROVE  (d \o p) \o q = d \o (p \o q)
BY ConcatAssociative

-----------------------------------------------------------------------------
(* The inductive invariant.                                                *)

Writing == {"load", "store", "return"}
Visiting == {"peek1", "lock", "peek2", "advance", "load"}

ClockTypes == now \in Nat \ {0} /\ region \in [Cores -> Nat]

CoreTypes ==
    /\ wk \in [Cores -> {"idle", "log", "end"}] /\ commit_epoch \in [Cores -> Nat]
    /\ committed \in [Cores -> Seq(Nat)]

RingTypes ==
    /\ all_buffers \in [Cores -> Seq(Buffers)]
    /\ persist_buffers \in [Cores -> Seq(Buffers)]

LoopTypes ==
    /\ lpc \in [Loggers -> {"sleep", "peek"} \cup Writing]
    /\ left \in [Loggers -> SUBSET Cores]
    /\ niovs \in [Loggers -> 0..MaxIovs]
    /\ sense \in [Loggers -> {0, 1}]
    /\ \A l \in Loggers : lpc[l] \in {"store", "return"} => left[l] # {}

MarkTypes ==
    /\ cur_sync_epoch_ex \in [Loggers -> Int] /\ x0 \in [Loggers -> Int]
    /\ epoch_prefixes \in [Cores -> [{0, 1} -> Int]]
    /\ epochs \in [Cores -> Int] /\ disk \in [Cores -> Seq(Nat)]

PersisterTypes ==
    /\ ppc \in {"sleep", "next"} \cup Visiting /\ pleft \subseteq Cores
    /\ ppc \in Visiting => pleft # {}
    /\ best_tick_inc \in Int /\ min_so_far \in Int /\ system_sync_epoch \in Int

LogTypes ==
    ClockTypes /\ CoreTypes /\ RingTypes /\ LoopTypes /\ MarkTypes /\ PersisterTypes

(* The buffers of a core, and of what the log consists: committed          *)
(* transactions, those of a buffer of its epoch.                           *)
Held(c) == {all_buffers[c][i] : i \in 1..Len(all_buffers[c])}
              \cup {persist_buffers[c][i] : i \in 1..Len(persist_buffers[c])}
Honest(c, px) ==
    \A i \in 1..Len(px.txns) :
        px.txns[i] \in 1..Len(committed[c]) /\ committed[c][px.txns[i]] = px.epoch
HonestBuffers == \A c \in Cores : \A px \in Held(c) : Honest(c, px)

(* The core will commit in no epoch up to e any more.                      *)
Past(c, e) == e < now /\ (wk[c] = "log" => e < commit_epoch[c])

BuffersPast == \A c \in Cores : \A px \in Held(c) : Past(c, PrefixOf(px))
PrefixesPast == \A c \in Cores : \A s \in {0, 1} : Past(c, epoch_prefixes[c][s])
SyncsPast ==
    \A c \in Cores :
        /\ Past(c, epochs[c]) /\ Past(c, system_sync_epoch)
        /\ ppc # "sleep" /\ c \notin pleft => Past(c, min_so_far)
CommitsPresent ==
    \A c \in Cores : wk[c] = "log" => region[c] # None /\ commit_epoch[c] <= now
PersisterWaits ==
    /\ ppc # "sleep" => best_tick_inc < now
    /\ ppc \in {"peek2", "advance"} => region[pcur] = None
AllPast == BuffersPast /\ PrefixesPast /\ SyncsPast /\ CommitsPresent /\ PersisterWaits

(* The log of a core: on disk, in its ring s without the n buffers that    *)
(* were written (w), and in the buffers a that it holds; the first n of the*)
(* ring are scheduled.                                                     *)
Numbers(k) == [n \in 1..k |-> n]
Rest(s, n, w) == IF w THEN SubSeq(s, n + 1, Len(s)) ELSE s
Goes(d, s, n, w, a, k) ==
    /\ d \o Contents(Rest(s, n, w)) \o Contents(a) = Numbers(k)
    /\ n \in 0..Len(s) /\ \A i \in 1..Len(s) : s[i].io_scheduled <=> i <= n
    /\ \A i \in 2..Len(a) : a[i].txns = <<>>
    /\ \A i \in 1..Len(a) : ~a[i].io_scheduled

(* Where its logger is, and when there may be buffers marked.              *)
AtDisk(c) == lpc[LoggerOf[c]] \in Writing
Unvisited(c) == c \in left[LoggerOf[c]]
SomeScheduled(c) ==
    \/ lpc[LoggerOf[c]] = "peek" /\ ~Unvisited(c) /\ niovs[LoggerOf[c]] # 0
    \/ AtDisk(c) /\ Unvisited(c)
InLog(c, n) ==
    /\ Goes(disk[c], persist_buffers[c], n, AtDisk(c), all_buffers[c], Len(committed[c]))
    /\ n # 0 => SomeScheduled(c)
AllInLog ==
    /\ \A l \in Loggers : left[l] \subseteq Assigned(l)
    /\ \A c \in Cores : \E n \in Nat : InLog(c, n)

LogInv == LogTypes /\ HonestBuffers /\ AllPast /\ AllInLog
-----------------------------------------------------------------------------
(* Types.                                                                  *)

LEMMA Assumed ==
    /\ Cores \subseteq Nat /\ LoggerOf \in [Cores -> Loggers]
    /\ g_perthread_buffers \in Nat \ {0} /\ BufferSize \in Nat \ {0}
    /\ MaxIovs \in Nat \ {0} /\ g_max_lag_epochs \in Nat \ {0}
    /\ MaxTick \in Nat
BY LoggerAssumption

LEMMA AtCore ==
    ASSUME NEW T, T \subseteq Cores, T # {}
    PROVE  Min(T) \in Cores /\ Min(T) \in T
BY Assumed, MinIn

LEMMA AnEmptyBuffer ==
    /\ EmptyBuffer \in Buffers
    /\ EmptyBuffer.txns = <<>> /\ EmptyBuffer.epoch = 0 /\ EmptyBuffer.io_scheduled = FALSE
<1>1. <<>> \in Seq(Nat)
  OBVIOUS
<1> QED
  BY <1>1 DEF EmptyBuffer, Buffers

LEMMA InitTypes ==
    ASSUME LogInit PROVE LogTypes
<1> USE DEF LogInit
<1>1. ClockTypes
  BY DEF ClockTypes, Init, None
<1>2. CoreTypes
  <2>1. <<>> \in Seq(Nat)
    OBVIOUS
  <2> QED
    BY <2>1 DEF CoreTypes
<1>3. RingTypes
  <2>1. g_perthread_buffers \in Nat /\ EmptyBuffer \in Buffers /\ <<>> \in Seq(Buffers)
    BY Assumed, AnEmptyBuffer
  <2>2. [i \in 1..g_perthread_buffers |-> EmptyBuffer] \in Seq(Buffers)
    BY <2>1
  <2> QED
    BY <2>1, <2>2 DEF RingTypes
<1>4. LoopTypes
  BY Assumed DEF LoopTypes
<1>5. MarkTypes
  <2>1. <<>> \in Seq(Nat)
    OBVIOUS
  <2> QED
    BY <2>1 DEF MarkTypes
<1>6. PersisterTypes
  BY DEF PersisterTypes, Visiting
<1> QED
  BY <1>1, <1>2, <1>3, <1>4, <1>5, <1>6 DEF LogTypes

(* What a ring holds when a buffer is pushed, taken or written into.       *)
LEMMA PushedTypes ==
    ASSUME NEW s \in Seq(Buffers), NEW px \in Buffers
    PROVE  /\ Append(s, px) \in Seq(Buffers) /\ Len(Append(s, px)) = Len(s) + 1
           /\ \A i \in 1..Len(s) : Append(s, px)[i] = s[i]
           /\ Append(s, px)[Len(s) + 1] = px
BY AppendProperties

LEMMA TakenTypes ==
    ASSUME NEW s \in Seq(Buffers), s # <<>>
    PROVE  /\ Tail(s) \in Seq(Buffers) /\ Head(s) \in Buffers /\ Head(s) = s[1]
           /\ Len(s) \in Nat /\ Len(s) # 0 /\ Len(Tail(s)) = Len(s) - 1
           /\ \A i \in 1..Len(Tail(s)) : Tail(s)[i] = s[i + 1]
<1>1. Len(s) \in Nat /\ Len(s) # 0 /\ 1 \in 1..Len(s)
  BY EmptySeq
<1>2. Head(s) = s[1] /\ s[1] \in Buffers
  BY <1>1
<1> QED
  BY <1>1, <1>2, HeadTailProperties

LEMMA FilledTypes ==
    ASSUME NEW s \in Seq(Buffers), s # <<>>, NEW px \in Buffers
    PROVE  /\ [s EXCEPT ![1] = px] \in Seq(Buffers)
           /\ Len([s EXCEPT ![1] = px]) = Len(s)
           /\ \A i \in 1..Len(s) : [s EXCEPT ![1] = px][i] = IF i = 1 THEN px ELSE s[i]
<1>1. 1 \in 1..Len(s)
  BY EmptySeq
<1> QED
  BY <1>1, ExceptSeq

-----------------------------------------------------------------------------
(* Contents of buffers.                                                    *)

LEMMA ContentsType ==
    ASSUME NEW bs \in Seq(Buffers)
    PROVE  /\ [i \in DOMAIN bs |-> bs[i].txns] \in Seq(Seq(Nat))
           /\ Len([i \in DOMAIN bs |-> bs[i].txns]) = Len(bs)
           /\ Contents(bs) \in Seq(Nat)
<1> DEFINE t == [i \in DOMAIN bs |-> bs[i].txns]
           n == Len(bs)
<1>1. n \in Nat /\ DOMAIN bs = 1..n /\ \A i \in 1..n : bs[i] \in Buffers
  OBVIOUS
<1> HIDE DEF n
<1>2. t \in [1..n -> Seq(Nat)]
  BY <1>1 DEF Buffers
<1> HIDE DEF t
<1>3. t \in Seq(Seq(Nat)) /\ Len(t) = n
  <2>1. DOMAIN t = 1..n
    BY <1>2
  <2>2. t \in Seq(Seq(Nat))
    BY <1>1, <1>2, SeqDef
  <2> QED
    BY <1>1, <2>1, <2>2, LenProperties
<1>4. FlattenSeq(t) \in Seq(Nat)
  <2>1. <<>> \in Seq(Nat)
    OBVIOUS
  <2> QED
    BY <1>3, <2>1, FlattenAppend
<1> QED
  BY <1>3, <1>4 DEF t, n, Contents

LEMMA SameContents ==
    ASSUME NEW bs \in Seq(Buffers), NEW cs \in Seq(Buffers), Len(bs) = Len(cs),
           \A i \in 1..Len(bs) : bs[i].txns = cs[i].txns
    PROVE  Contents(bs) = Contents(cs)
<1>1. DOMAIN bs = 1..Len(bs) /\ DOMAIN cs = DOMAIN bs
  OBVIOUS
<1>2. [i \in DOMAIN bs |-> bs[i].txns] = [i \in DOMAIN cs |-> cs[i].txns]
  BY <1>1
<1> QED
  BY <1>2 DEF Contents

LEMMA ContentsConcat ==
    ASSUME NEW bs \in Seq(Buffers), NEW cs \in Seq(Buffers)
    PROVE  Contents(bs \o cs) = Contents(bs) \o Contents(cs)
<1> DEFINE T(s) == [i \in DOMAIN s |-> s[i].txns]
           ds == bs \o cs
<1>1. ds \in Seq(Buffers) /\ Len(ds) = Len(bs) + Len(cs)
      /\ \A i \in 1..Len(ds) : ds[i] = IF i <= Len(bs) THEN bs[i] ELSE cs[i - Len(bs)]
  BY ConcatProperties
<1> HIDE DEF ds
<1>2. /\ T(bs) \in Seq(Seq(Nat)) /\ Len(T(bs)) = Len(bs)
      /\ T(cs) \in Seq(Seq(Nat)) /\ Len(T(cs)) = Len(cs)
      /\ T(ds) \in Seq(Seq(Nat)) /\ Len(T(ds)) = Len(ds)
  BY <1>1, ContentsType
<1>3. /\ Len(bs) \in Nat /\ Len(cs) \in Nat
      /\ DOMAIN bs = 1..Len(bs) /\ DOMAIN cs = 1..Len(cs) /\ DOMAIN ds = 1..Len(ds)
  BY <1>1
<1>4. ASSUME NEW i \in 1..Len(ds)
      PROVE  T(ds)[i] = IF i <= Len(bs) THEN T(bs)[i] ELSE T(cs)[i - Len(bs)]
  <2>1. CASE i <= Len(bs)
    <3>1. i \in DOMAIN bs /\ i \in DOMAIN ds /\ ds[i] = bs[i]
      BY <1>1, <1>3, <2>1
    <3> QED
      BY <2>1, <3>1
  <2>2. CASE ~(i <= Len(bs))
    <3>1. i - Len(bs) \in DOMAIN cs /\ i \in DOMAIN ds /\ ds[i] = cs[i - Len(bs)]
      BY <1>1, <1>3, <2>2
    <3> QED
      BY <2>2, <3>1
  <2> QED
    BY <2>1, <2>2
<1> HIDE DEF T
<1>5. T(ds) = T(bs) \o T(cs)
  <2>1. /\ T(bs) \o T(cs) \in Seq(Seq(Nat)) /\ Len(T(bs) \o T(cs)) = Len(T(ds))
        /\ \A i \in 1..Len(T(ds)) : (T(bs) \o T(cs))[i] =
              IF i <= Len(bs) THEN T(bs)[i] ELSE T(cs)[i - Len(bs)]
    BY <1>1, <1>2, ConcatProperties
  <2>2. \A i \in 1..Len(T(ds)) : T(ds)[i] = (T(bs) \o T(cs))[i]
    BY <1>2, <1>4, <2>1
  <2> QED
    BY <1>2, <2>1, <2>2, SeqEqual
<1>6. FlattenSeq(T(ds)) = FlattenSeq(T(bs)) \o FlattenSeq(T(cs))
  BY <1>2, <1>5, FlattenConcat
<1> QED
  BY <1>6 DEF T, ds, Contents

LEMMA ContentsEmpty ==
    ASSUME NEW bs \in Seq(Buffers), \A i \in 1..Len(bs) : bs[i].txns = <<>>
    PROVE  Contents(bs) = <<>>
<1> DEFINE t == [i \in DOMAIN bs |-> bs[i].txns]
<1>1. t \in Seq(Seq(Nat)) /\ DOMAIN t = DOMAIN bs /\ DOMAIN bs = 1..Len(bs)
  BY ContentsType
<1>2. \A i \in DOMAIN t : t[i] = <<>>
  BY <1>1
<1> HIDE DEF t
<1>3. FlattenSeq(t) = <<>>
  BY <1>1, <1>2, FlattenEmpties
<1> QED
  BY <1>3 DEF t, Contents

LEMMA ContentsOne ==
    ASSUME NEW px \in Buffers
    PROVE  Contents(<<px>>) = px.txns
<1> DEFINE t == [i \in DOMAIN <<px>> |-> <<px>>[i].txns]
<1>1. px.txns \in Seq(Nat) /\ <<>> \in Seq(Seq(Nat))
  BY DEF Buffers
<1>2. t = <<px.txns>>
  OBVIOUS
<1>3. <<px.txns>> = Append(<<>>, px.txns)
  OBVIOUS
<1>4. FlattenSeq(Append(<<>>, px.txns)) = FlattenSeq(<<>>) \o px.txns
  BY <1>1, FlattenAppend
<1>5. <<>> \o px.txns = px.txns
  BY <1>1, ConcatEmptySeq
<1> HIDE DEF t
<1> QED
  BY <1>2, <1>3, <1>4, <1>5, FlattenEmpty DEF t, Contents

LEMMA ContentsAppend ==
    ASSUME NEW bs \in Seq(Buffers), NEW px \in Buffers
    PROVE  Contents(Append(bs, px)) = Contents(bs) \o px.txns
<1>1. Append(bs, px) = bs \o <<px>> /\ <<px>> \in Seq(Buffers)
  BY AppendIsConcat
<1>2. Contents(bs \o <<px>>) = Contents(bs) \o Contents(<<px>>)
  BY <1>1, ContentsConcat
<1> QED
  BY <1>1, <1>2, ContentsOne

(* All the transactions are in the first buffer.                           *)
LEMMA ContentsFirst ==
    ASSUME NEW bs \in Seq(Buffers), bs # <<>>,
           \A i \in 2..Len(bs) : bs[i].txns = <<>>
    PROVE  Contents(bs) = bs[1].txns
<1> DEFINE h == Head(bs)
           t == Tail(bs)
<1>1. /\ t \in Seq(Buffers) /\ h \in Buffers /\ h = bs[1]
      /\ Len(bs) \in Nat /\ Len(t) = Len(bs) - 1
      /\ \A i \in 1..Len(t) : t[i] = bs[i + 1]
  BY TakenTypes
<1>2. bs = <<h>> \o t
  OBVIOUS
<1> HIDE DEF h, t
<1>3. Contents(t) = <<>>
  <2>1. \A i \in 1..Len(t) : t[i].txns = <<>>
    <3> TAKE i \in 1..Len(t)
    <3>1. i + 1 \in 2..Len(bs)
      BY <1>1
    <3> QED
      BY <1>1, <3>1
  <2> QED
    BY <1>1, <2>1, ContentsEmpty
<1>4. <<h>> \in Seq(Buffers) /\ h.txns \in Seq(Nat)
  BY <1>1 DEF Buffers
<1>5. Contents(bs) = h.txns \o <<>>
  BY <1>1, <1>2, <1>3, <1>4, ContentsConcat, ContentsOne
<1> QED
  BY <1>1, <1>4, <1>5, ConcatEmptySeq


(* Every variable of the logger but those of the clock.                    *)
logged == <<worker, rings, logger, epochs, persister>>

LEMMA ClockStepTypes ==
    ASSUME LogTypes, Clock PROVE LogTypes'
<1>1. UNCHANGED logged
  BY DEF Clock, logged
<1>2. ClockTypes'
  BY DEF LogTypes, ClockTypes, Clock, Advance, DeclareOver, Start, End, None
<1> QED
  BY <1>1, <1>2 DEF LogTypes, CoreTypes, RingTypes, LoopTypes, MarkTypes, PersisterTypes,
        logged, worker, rings, logger, persister

(* Pushing: the ring of the core and its buffers.                          *)
LEMMA PushTypes ==
    ASSUME RingTypes, NEW c \in Cores, all_buffers[c] # <<>>, PushHead(c)
    PROVE  RingTypes'
<1>1. all_buffers[c] \in Seq(Buffers) /\ persist_buffers[c] \in Seq(Buffers)
  BY DEF RingTypes
<1>2. Head(all_buffers[c]) \in Buffers /\ Tail(all_buffers[c]) \in Seq(Buffers)
  BY <1>1, TakenTypes
<1>3. Append(persist_buffers[c], Head(all_buffers[c])) \in Seq(Buffers)
  BY <1>1, <1>2, PushedTypes
<1> QED
  BY <1>2, <1>3 DEF RingTypes, PushHead

LEMMA CoreStepTypes ==
    ASSUME LogTypes, NEW c \in Cores, Core(c) PROVE LogTypes'
<1>1. UNCHANGED <<vars, logger, epochs, persister>>
  BY DEF Core, GenCommitTid, WriteTxn, PushBuffer, ThreadEnd
<1>2. ClockTypes' /\ LoopTypes' /\ MarkTypes' /\ PersisterTypes'
  BY <1>1 DEF LogTypes, ClockTypes, LoopTypes, MarkTypes, PersisterTypes,
        vars, logger, persister
<1>3. CASE GenCommitTid(c)
  <2>1. CoreTypes'
    BY <1>3 DEF GenCommitTid, LogTypes, CoreTypes, ClockTypes
  <2>2. RingTypes'
    BY <1>3 DEF GenCommitTid, LogTypes, RingTypes, rings
  <2> QED
    BY <1>2, <2>1, <2>2 DEF LogTypes
<1>4. CASE WriteTxn(c)
  <2> DEFINE px == Head(all_buffers[c])
             n == Len(committed[c]) + 1
             py == [px EXCEPT !.txns = Append(@, n), !.epoch = commit_epoch[c]]
  <2>1. /\ all_buffers[c] \in Seq(Buffers) /\ all_buffers[c] # <<>>
        /\ commit_epoch[c] \in Nat /\ committed[c] \in Seq(Nat) /\ n \in Nat
    BY <1>4 DEF WriteTxn, LogTypes, RingTypes, CoreTypes
  <2>2. px \in Buffers
    BY <2>1, TakenTypes
  <2>3. py \in Buffers
    <3> HIDE DEF px, n
    <3>1. px.txns \in Seq(Nat) /\ Append(px.txns, n) \in Seq(Nat)
      BY <2>1, <2>2, AppendProperties DEF Buffers
    <3> QED
      BY <2>1, <2>2, <3>1 DEF Buffers
  <2>4. all_buffers' = [all_buffers EXCEPT ![c] = [all_buffers[c] EXCEPT ![1] = py]]
    BY <1>4 DEF WriteTxn
  <2> HIDE DEF py, px
  <2>5. [all_buffers[c] EXCEPT ![1] = py] \in Seq(Buffers)
    BY <2>1, <2>3, FilledTypes
  <2>6. RingTypes'
    BY <1>4, <2>4, <2>5 DEF WriteTxn, LogTypes, RingTypes
  <2>7. Append(committed[c], commit_epoch[c]) \in Seq(Nat)
    BY <2>1, AppendProperties
  <2>8. CoreTypes'
    BY <1>4, <2>7 DEF WriteTxn, LogTypes, CoreTypes
  <2> QED
    BY <1>2, <2>6, <2>8 DEF LogTypes
<1>5. CASE PushBuffer(c)
  <2>1. RingTypes'
    BY <1>5, PushTypes DEF PushBuffer, LogTypes
  <2>2. CoreTypes'
    BY <1>5 DEF PushBuffer, LogTypes, CoreTypes, worker
  <2> QED
    BY <1>2, <2>1, <2>2 DEF LogTypes
<1>6. CASE ThreadEnd(c)
  <2>1. RingTypes'
    <3>1. CASE all_buffers[c] # <<>> /\ Head(all_buffers[c]).txns # <<>>
      BY <1>6, <3>1, PushTypes DEF ThreadEnd, LogTypes
    <3>2. CASE ~(all_buffers[c] # <<>> /\ Head(all_buffers[c]).txns # <<>>)
      BY <1>6, <3>2 DEF ThreadEnd, LogTypes, RingTypes, rings
    <3> QED
      BY <3>1, <3>2
  <2>2. CoreTypes'
    BY <1>6 DEF ThreadEnd, LogTypes, CoreTypes
  <2> QED
    BY <1>2, <2>1, <2>2 DEF LogTypes
<1> QED
  BY <1>3, <1>4, <1>5, <1>6 DEF Core

LEMMA PersisterStepTypes ==
    ASSUME LogTypes, Persister PROVE LogTypes'
<1>1. UNCHANGED <<vars, worker, rings, logger>>
  BY DEF Persister, PersisterStart, FirstPeek, FirstPeekDone, LockCore, LockFails,
        SecondPeekDone, AdvanceCore, CountCore, PersisterDone
<1>2. ClockTypes' /\ CoreTypes' /\ RingTypes' /\ LoopTypes'
  BY <1>1 DEF LogTypes, ClockTypes, CoreTypes, RingTypes, LoopTypes, vars, worker, rings, logger
<1>3. ASSUME UNCHANGED epochs PROVE MarkTypes'
  BY <1>1, <1>3 DEF LogTypes, MarkTypes, logger
<1> USE DEF LogTypes
<1>4. CASE PersisterStart
  BY <1>2, <1>3, <1>4, Assumed DEF PersisterStart, PersisterTypes, Visiting, ClockTypes
<1>5. CASE FirstPeek \/ FirstPeekDone \/ LockCore \/ LockFails \/ SecondPeekDone
  BY <1>2, <1>3, <1>5 DEF FirstPeek, FirstPeekDone, LockCore, LockFails, SecondPeekDone,
        Goto, PersisterTypes, Visiting
<1>6. ASSUME NEW e \in Int, CoreDone(e), UNCHANGED <<best_tick_inc, system_sync_epoch>>
      PROVE  PersisterTypes'
  <2>1. Min({min_so_far, e}) \in Int
    <3>1. min_so_far \in Int
      BY DEF PersisterTypes
    <3>2. \E x \in {min_so_far, e} : \A y \in {min_so_far, e} : x <= y
      BY <3>1, <1>6
    <3> QED
      BY <1>6, <3>1, <3>2 DEF Min
  <2> QED
    BY <1>6, <2>1 DEF CoreDone, Goto, PersisterTypes, Visiting
<1>7. CASE AdvanceCore
  <2>1. best_tick_inc \in Int
    BY DEF PersisterTypes
  <2>2. PersisterTypes'
    BY <1>6, <1>7, <2>1 DEF AdvanceCore
  <2>3. MarkTypes'
    BY <1>1, <1>7, <2>1 DEF AdvanceCore, MarkTypes, logger
  <2> QED
    BY <1>2, <2>2, <2>3
<1>8. CASE CountCore
  <2>1. epochs[pcur] \in Int
    <3>1. pleft \subseteq Cores /\ pleft # {}
      BY <1>8 DEF CountCore, PersisterTypes, Visiting
    <3> QED
      BY <3>1, AtCore DEF pcur, MarkTypes
  <2>2. PersisterTypes'
    BY <1>6, <1>8, <2>1 DEF CountCore
  <2> QED
    BY <1>2, <1>3, <1>8, <2>2 DEF CountCore
<1>9. CASE PersisterDone
  BY <1>2, <1>3, <1>9 DEF PersisterDone, Goto, PersisterTypes, Visiting
<1> QED
  BY <1>4, <1>5, <1>7, <1>8, <1>9 DEF Persister

(* The core whose turn it is.                                              *)
LEMMA TurnOf ==
    ASSUME LogTypes, NEW l \in Loggers, left[l] # {}
    PROVE  Min(left[l]) \in Cores /\ Min(left[l]) \in left[l]
BY AtCore DEF LogTypes, LoopTypes

LEMMA Chosen ==
    ASSUME LogTypes, NEW l \in Loggers, NEW c \in Cores
    PROVE  /\ Max(Schedulable(l, c)) \in 0..Len(persist_buffers[c])
           /\ niovs[l] + Max(Schedulable(l, c)) \in 0..MaxIovs
<1>1. Len(persist_buffers[c]) \in Nat /\ niovs[l] \in 0..MaxIovs /\ MaxIovs \in Nat
  BY Assumed DEF LogTypes, RingTypes, LoopTypes
<1>2. Schedulable(l, c) \subseteq 0..Len(persist_buffers[c])
  BY DEF Schedulable
<1>3. 0 \in Schedulable(l, c)
  BY <1>1 DEF Schedulable
<1>4. Max(Schedulable(l, c)) \in Schedulable(l, c)
  BY <1>1, <1>2, <1>3, MaxIn
<1>5. ASSUME NEW n \in Schedulable(l, c)
      PROVE  n \in 0..Len(persist_buffers[c]) /\ niovs[l] + n \in 0..MaxIovs
  BY <1>1 DEF Schedulable
<1> QED
  BY <1>4, <1>5

(* The scheduled buffers are the first n, if any n is.                     *)
LEMMA ScheduledAre ==
    ASSUME NEW s \in Seq(Buffers), NEW n \in 0..Len(s),
           \A i \in 1..Len(s) : s[i].io_scheduled <=> i <= n
    PROVE  Max({k \in 0..Len(s) : \A i \in 1..k : s[i].io_scheduled}) = n
<1> DEFINE T == {k \in 0..Len(s) : \A i \in 1..k : s[i].io_scheduled}
<1>1. Len(s) \in Nat
  OBVIOUS
<1>2. n \in T
  BY <1>1
<1>3. ASSUME NEW k \in T PROVE n >= k
  <2>1. CASE k = 0
    BY <1>1, <2>1
  <2>2. CASE k # 0
    <3>1. k \in 1..k /\ k \in 1..Len(s)
      BY <1>1, <2>2
    <3> QED
      BY <3>1
  <2> QED
    BY <2>1, <2>2
<1>4. T \subseteq Nat
  BY <1>1
<1> HIDE DEF T
<1>5. Max(T) = n
  BY <1>2, <1>3, <1>4, MaxIs
<1> QED
  BY <1>5 DEF T

LEMMA ScheduledTypes ==
    ASSUME RingTypes, NEW c \in Cores
    PROVE  ScheduledTo(c) \in 0..Len(persist_buffers[c]) /\ Scheduled(c) \in Seq(Buffers)
<1> DEFINE pb == persist_buffers[c]
           T == {k \in 0..Len(pb) : \A i \in 1..k : pb[i].io_scheduled}
<1>1. pb \in Seq(Buffers) /\ Len(pb) \in Nat
  BY DEF RingTypes
<1>2. 0 \in T /\ T \subseteq 0..Len(pb)
  BY <1>1
<1>3. Max(T) \in T
  <2> HIDE DEF T
  <2> QED
    BY <1>1, <1>2, MaxIn
<1>4. PICK n \in 0..Len(pb) : n = Max(T)
  BY <1>2, <1>3
<1>5. ScheduledTo(c) = n
  BY <1>4 DEF ScheduledTo
<1>6. SubSeq(pb, 1, n) \in Seq(Buffers)
  <2>1. \A i \in 1..n : pb[i] \in Buffers
    BY <1>1, <1>4, ElementOfSeq
  <2> QED
    BY <1>1, <1>4, <2>1, SubSeqProperties
<1> QED
  BY <1>5, <1>6 DEF Scheduled

(* The ring after n buffers were scheduled.                                *)
Marked(s, n) ==
    [i \in DOMAIN s |-> IF i <= n THEN [s[i] EXCEPT !.io_scheduled = TRUE] ELSE s[i]]
LEMMA MarkedTypes ==
    ASSUME NEW s \in Seq(Buffers), NEW n \in Nat
    PROVE  /\ Marked(s, n) \in Seq(Buffers) /\ Len(Marked(s, n)) = Len(s)
           /\ \A i \in 1..Len(s) :
                 /\ Marked(s, n)[i].txns = s[i].txns /\ Marked(s, n)[i].epoch = s[i].epoch
                 /\ Marked(s, n)[i].io_scheduled <=> i <= n \/ s[i].io_scheduled
<1> DEFINE t == [i \in DOMAIN s |->
                   IF i <= n THEN [s[i] EXCEPT !.io_scheduled = TRUE] ELSE s[i]]
<1> DEFINE k == Len(s)
<1>1. k \in Nat /\ DOMAIN s = 1..k /\ \A i \in 1..k : s[i] \in Buffers
  BY LenProperties, ElementOfSeq
<1> HIDE DEF k
<1>2. ASSUME NEW i \in 1..k
      PROVE  /\ t[i] \in Buffers /\ t[i].txns = s[i].txns /\ t[i].epoch = s[i].epoch
             /\ t[i].io_scheduled <=> i <= n \/ s[i].io_scheduled
  <2>1. s[i] \in Buffers
    BY <1>1
  <2>2. CASE i <= n
    <3>1. t[i] = [s[i] EXCEPT !.io_scheduled = TRUE]
      BY <1>1, <2>2
    <3> QED
      BY <2>1, <2>2, <3>1 DEF Buffers
  <2>3. CASE ~(i <= n)
    <3>1. t[i] = s[i]
      BY <1>1, <2>3
    <3> QED
      BY <2>1, <2>3, <3>1
  <2> QED
    BY <2>2, <2>3
<1>3. DOMAIN t = 1..k
  BY <1>1
<1>4. t \in [1..k -> Buffers]
  <2>1. t = [i \in 1..k |-> t[i]]
    BY <1>1
  <2> QED
    BY <1>2, <2>1
<1>5. t \in Seq(Buffers)
  BY <1>1, <1>4, SeqDef
<1>6. Len(t) = k
  BY <1>1, <1>3, <1>5, LenProperties
<1> QED
  BY <1>2, <1>5, <1>6 DEF k, t, Marked

LEMMA ScheduleTypes ==
    ASSUME LogTypes, NEW l \in Loggers, Schedule(l) PROVE LogTypes'
<1> DEFINE c == Min(left[l])
           n == Max(Schedulable(l, c))
<1>1. c \in Cores /\ left[l] \subseteq Cores
  BY TurnOf DEF Schedule, LogTypes, LoopTypes
<1>2. n \in 0..Len(persist_buffers[c]) /\ niovs[l] + n \in 0..MaxIovs
  BY <1>1, Chosen
<1> HIDE DEF c, n
<1>3. persist_buffers[c] \in Seq(Buffers) /\ Len(persist_buffers[c]) \in Nat
  BY <1>1 DEF LogTypes, RingTypes
<1>4. RingTypes'
  <2>1. Marked(persist_buffers[c], n) \in Seq(Buffers)
    BY <1>2, <1>3, MarkedTypes
  <2>2. persist_buffers' = [persist_buffers EXCEPT ![c] = Marked(persist_buffers[c], n)]
    BY DEF Schedule, c, n, Marked
  <2>3. UNCHANGED all_buffers
    BY DEF Schedule
  <2> QED
    BY <2>1, <2>2, <2>3 DEF LogTypes, RingTypes
<1>5. LoopTypes'
  <2>1. niovs' = [niovs EXCEPT ![l] = @ + n] /\ UNCHANGED <<lpc, sense>>
    BY DEF Schedule, c, n
  <2>2. left' = [left EXCEPT ![l] = @ \ {c}] /\ lpc[l] = "peek"
    BY DEF Schedule, c
  <2> QED
    BY <1>1, <1>2, <2>1, <2>2 DEF LogTypes, LoopTypes
<1>6. MarkTypes'
  <2> DEFINE e == IF n = 0 THEN epoch_prefixes[c][sense[l]] ELSE PrefixOf(persist_buffers[c][n])
  <2>1. sense[l] \in {0, 1} /\ epoch_prefixes[c] \in [{0, 1} -> Int]
    BY <1>1 DEF LogTypes, LoopTypes, MarkTypes
  <2>2. e \in Int
    <3>1. CASE n = 0
      BY <2>1, <3>1
    <3>2. CASE n # 0
      <4>1. n \in 1..Len(persist_buffers[c])
        BY <1>2, <1>3, <3>2
      <4>2. persist_buffers[c][n] \in Buffers
        BY <1>3, <4>1, ElementOfSeq
      <4> QED
        BY <3>2, <4>2 DEF Buffers, PrefixOf
    <3> QED
      BY <3>1, <3>2
  <2>3. epoch_prefixes' = [epoch_prefixes EXCEPT ![c][sense[l]] = e]
    BY DEF Schedule, c, n
  <2> HIDE DEF e
  <2>4. epoch_prefixes' \in [Cores -> [{0, 1} -> Int]]
    BY <2>1, <2>2, <2>3 DEF LogTypes, MarkTypes
  <2>5. UNCHANGED <<cur_sync_epoch_ex, x0, epochs, disk>>
    BY DEF Schedule
  <2> QED
    BY <2>4, <2>5 DEF LogTypes, MarkTypes
<1>7. ClockTypes' /\ CoreTypes' /\ PersisterTypes'
  BY DEF Schedule, LogTypes, ClockTypes, CoreTypes, PersisterTypes, vars, worker, persister
<1> QED
  BY <1>4, <1>5, <1>6, <1>7 DEF LogTypes

LEMMA ReturnTypes ==
    ASSUME LogTypes, NEW l \in Loggers, ReturnBuffer(l) PROVE LogTypes'
<1> DEFINE c == Min(left[l])
<1>1. c \in Cores
  BY TurnOf DEF ReturnBuffer, LogTypes, LoopTypes
<1>2. /\ persist_buffers[c] # <<>>
      /\ persist_buffers' = [persist_buffers EXCEPT ![c] = Tail(@)]
      /\ all_buffers' = [all_buffers EXCEPT ![c] = Append(@, EmptyBuffer)]
  BY DEF ReturnBuffer
<1> HIDE DEF c
<1>3. persist_buffers[c] \in Seq(Buffers) /\ all_buffers[c] \in Seq(Buffers)
  BY <1>1 DEF LogTypes, RingTypes
<1>4. Tail(persist_buffers[c]) \in Seq(Buffers) /\ Append(all_buffers[c], EmptyBuffer) \in Seq(Buffers)
  BY <1>2, <1>3, TakenTypes, PushedTypes, AnEmptyBuffer
<1>5. RingTypes'
  BY <1>1, <1>2, <1>4 DEF LogTypes, RingTypes
<1>6. ClockTypes' /\ CoreTypes' /\ LoopTypes' /\ MarkTypes'
  BY DEF ReturnBuffer, LogTypes, ClockTypes, CoreTypes, LoopTypes, MarkTypes, vars, worker, logger
<1>7. PersisterTypes'
  BY DEF ReturnBuffer, LogTypes, PersisterTypes
<1> QED
  BY <1>5, <1>6, <1>7 DEF LogTypes

LEMMA WriterStepTypes ==
    ASSUME LogTypes, NEW l \in Loggers, Writer(l) PROVE LogTypes'
<1>1. CASE Schedule(l)
  BY <1>1, ScheduleTypes
<1>2. CASE ReturnBuffer(l)
  BY <1>2, ReturnTypes
<1>3. ASSUME UNCHANGED <<vars, worker, rings, persister>>
      PROVE  ClockTypes' /\ CoreTypes' /\ RingTypes' /\ PersisterTypes'
  BY <1>3 DEF LogTypes, ClockTypes, CoreTypes, RingTypes, PersisterTypes,
        vars, worker, rings, persister
<1> USE Assumed DEF LogTypes
<1>4. CASE WriterStart(l)
  <2>1. LoopTypes'
    BY <1>4 DEF WriterStart, LoopTypes, Assigned, Writing
  <2>2. MarkTypes'
    BY <1>4 DEF WriterStart, MarkTypes, PersisterTypes
  <2> QED
    BY <1>3, <1>4, <2>1, <2>2 DEF WriterStart, persister
<1>5. CASE NothingToWrite(l)
  <2>1. LoopTypes' /\ MarkTypes'
    BY <1>5 DEF NothingToWrite, LoopTypes, MarkTypes
  <2> QED
    BY <1>3, <1>5, <2>1 DEF NothingToWrite
<1>6. CASE Writev(l)
  <2>1. LoopTypes'
    BY <1>6 DEF Writev, LoopTypes, Assigned, Writing
  <2>2. ASSUME NEW c \in Cores PROVE disk[c] \o Contents(Scheduled(c)) \in Seq(Nat)
    BY ScheduledTypes, ContentsType, ConcatProperties DEF MarkTypes
  <2>3. disk' \in [Cores -> Seq(Nat)]
    BY <1>6, <2>2 DEF Writev, MarkTypes
  <2>4. MarkTypes'
    BY <1>6, <2>3 DEF Writev, MarkTypes
  <2> QED
    BY <1>3, <1>6, <2>1, <2>4 DEF Writev
<1>7. CASE LoadEpoch(l)
  <2>1. LoopTypes'
    BY <1>7 DEF LoadEpoch, LoopTypes, Writing
  <2>2. epochs[Min(left[l])] \in Int
    BY <1>7, TurnOf DEF LoadEpoch, MarkTypes
  <2>3. MarkTypes'
    BY <1>7, <2>2 DEF LoadEpoch, MarkTypes
  <2> QED
    BY <1>3, <1>7, <2>1, <2>3 DEF LoadEpoch
<1>8. CASE StoreEpoch(l)
  <2>1. LoopTypes'
    BY <1>8 DEF StoreEpoch, LoopTypes, Writing
  <2>2. Min(left[l]) \in Cores /\ sense[l] \in {0, 1}
    BY <1>8, TurnOf DEF StoreEpoch, LoopTypes
  <2>3. epoch_prefixes[Min(left[l])][sense[l]] \in Int
    BY <2>2 DEF MarkTypes
  <2> DEFINE c == Min(left[l])
             x1 == epoch_prefixes[c][sense[l]]
             e == IF x1 > x0[l] THEN x1 ELSE epochs[c]
  <2>5. e \in Int
    BY <2>2, <2>3 DEF MarkTypes
  <2>6. /\ epochs' = [epochs EXCEPT ![c] = e]
        /\ x0' = [x0 EXCEPT ![l] = 0]
        /\ UNCHANGED <<cur_sync_epoch_ex, epoch_prefixes, disk>>
    BY <1>8 DEF StoreEpoch
  <2> HIDE DEF e, x1
  <2>7. epochs' \in [Cores -> Int]
    BY <2>5, <2>6 DEF MarkTypes
  <2>8. x0' \in [Loggers -> Int]
    BY <2>6 DEF MarkTypes
  <2>4. MarkTypes'
    BY <2>6, <2>7, <2>8 DEF MarkTypes
  <2> QED
    BY <1>3, <1>8, <2>1, <2>4 DEF StoreEpoch
<1>9. CASE NextCore(l)
  <2>1. LoopTypes'
    BY <1>9 DEF NextCore, LoopTypes, Writing
  <2>2. MarkTypes'
    BY <1>9 DEF NextCore, MarkTypes
  <2> QED
    BY <1>3, <1>9, <2>1, <2>2 DEF NextCore
<1>10. CASE WriterDone(l)
  <2>0. sense[l] \in {0, 1} /\ 1 - sense[l] \in {0, 1}
    BY DEF LoopTypes
  <2>1. LoopTypes' /\ MarkTypes'
    <3>1. sense' \in [Loggers -> {0, 1}]
      BY <1>10, <2>0 DEF WriterDone, LoopTypes
    <3>2. LoopTypes'
      BY <1>10, <3>1 DEF WriterDone, LoopTypes
    <3>3. MarkTypes'
      BY <1>10 DEF WriterDone, MarkTypes
    <3> QED
      BY <3>2, <3>3
  <2> QED
    BY <1>3, <1>10, <2>1 DEF WriterDone
<1> QED
  BY <1>1, <1>2, <1>4, <1>5, <1>6, <1>7, <1>8, <1>9, <1>10 DEF Writer

LEMMA NextTypes ==
    ASSUME LogTypes, [LogNext]_logvars PROVE LogTypes'
<1>1. CASE UNCHANGED logvars
  BY <1>1 DEF logvars, LogTypes, ClockTypes, CoreTypes, RingTypes, LoopTypes, MarkTypes,
        PersisterTypes, vars, worker, rings, logger, persister
<1> QED
  BY <1>1, ClockStepTypes, CoreStepTypes, PersisterStepTypes, WriterStepTypes DEF LogNext

-----------------------------------------------------------------------------
(* What the steps do to the log of a core.                                 *)

LEMMA NumbersGrow ==
    ASSUME NEW k \in Nat
    PROVE  Numbers(k) \in Seq(Nat) /\ Append(Numbers(k), k + 1) = Numbers(k + 1)
<1>1. Numbers(k) \in Seq(Nat) /\ Numbers(k + 1) \in Seq(Nat) /\ Len(Numbers(k)) = k /\ Len(Numbers(k + 1)) = k + 1
  BY DEF Numbers
<1>2. /\ Append(Numbers(k), k + 1) \in Seq(Nat) /\ Len(Append(Numbers(k), k + 1)) = k + 1
      /\ \A i \in 1..k : Append(Numbers(k), k + 1)[i] = Numbers(k)[i]
      /\ Append(Numbers(k), k + 1)[k + 1] = k + 1
  BY <1>1, AppendProperties
<1>3. \A i \in 1..(k + 1) : Append(Numbers(k), k + 1)[i] = Numbers(k + 1)[i]
  <2> TAKE i \in 1..(k + 1)
  <2>1. CASE i = k + 1
    BY <1>2, <2>1 DEF Numbers
  <2>2. CASE i # k + 1
    <3>1. i \in 1..k
      BY <2>2
    <3>2. Numbers(k)[i] = i /\ Numbers(k + 1)[i] = i
      BY <3>1 DEF Numbers
    <3> QED
      BY <1>2, <3>1, <3>2
  <2> QED
    BY <2>1, <2>2
<1> QED
  BY <1>1, <1>2, <1>3, SeqEqual

LEMMA RestType ==
    ASSUME NEW s \in Seq(Buffers), NEW n \in 0..Len(s), NEW w
    PROVE  Rest(s, n, w) \in Seq(Buffers)
<1>1. n + 1 \in Int /\ Len(s) \in Int /\ \A i \in (n + 1)..Len(s) : s[i] \in Buffers
  OBVIOUS
<1>2. SubSeq(s, n + 1, Len(s)) \in Seq(Buffers)
  BY <1>1, SubSeqProperties
<1> QED
  BY <1>2 DEF Rest

(* No buffer is marked.                                                    *)
LEMMA NoneWritten ==
    ASSUME NEW s \in Seq(Buffers), NEW w
    PROVE  Rest(s, 0, w) = s
BY SubSeqFull DEF Rest

LEMMA Written1 ==
    ASSUME NEW d \in Seq(Nat), NEW s \in Seq(Buffers), NEW n, NEW w, NEW k \in Nat,
           NEW a \in Seq(Buffers), a # <<>>, Goes(d, s, n, w, a, k),
           NEW py \in Buffers, py.txns = Append(a[1].txns, k + 1), ~py.io_scheduled
    PROVE  Goes(d, s, n, w, [a EXCEPT ![1] = py], k + 1)
<1> DEFINE b == [a EXCEPT ![1] = py]
           r == Rest(s, n, w)
<1>1. /\ b \in Seq(Buffers) /\ Len(b) = Len(a)
      /\ \A i \in 1..Len(a) : b[i] = IF i = 1 THEN py ELSE a[i]
  BY FilledTypes
<1>2. Len(a) \in Nat /\ Len(a) # 0 /\ a[1] \in Buffers /\ b # <<>>
  BY <1>1, TakenTypes, EmptySeq
<1> HIDE DEF b
<1>3. r \in Seq(Buffers) /\ Contents(r) \in Seq(Nat) /\ a[1].txns \in Seq(Nat)
  BY <1>2, RestType, ContentsType DEF Goes, Buffers
<1> HIDE DEF r
<1>4. /\ \A i \in 2..Len(a) : a[i].txns = <<>>
      /\ \A i \in 1..Len(a) : ~a[i].io_scheduled
      /\ d \o Contents(r) \o Contents(a) = Numbers(k)
  BY DEF Goes, r
<1>5. \A i \in 2..Len(b) : b[i].txns = <<>>
  BY <1>1, <1>4
<1>6. \A i \in 1..Len(b) : ~b[i].io_scheduled
  <2> TAKE i \in 1..Len(b)
  <2>1. b[i] = py \/ b[i] = a[i]
    BY <1>1
  <2> QED
    BY <1>1, <1>4, <2>1
<1>7. Contents(a) = a[1].txns /\ Contents(b) = Append(a[1].txns, k + 1)
  <2>1. b[1] = py
    BY <1>1, <1>2
  <2>2. Contents(b) = b[1].txns
    BY <1>1, <1>2, <1>5, ContentsFirst
  <2>3. Contents(a) = a[1].txns
    BY <1>4, ContentsFirst
  <2> QED
    BY <2>1, <2>2, <2>3
<1>8. d \o Contents(r) \o Contents(b) = Append(d \o Contents(r) \o Contents(a), k + 1)
  <2> DEFINE e == d \o Contents(r)
             q == a[1].txns
             j == k + 1
  <2>1. e \in Seq(Nat) /\ j \in Nat /\ q \in Seq(Nat)
    BY <1>3, ConcatProperties
  <2> HIDE DEF e, q, j
  <2>2. e \o Append(q, j) = Append(e \o q, j)
    BY <2>1, AppendToConcat
  <2> QED
    BY <1>7, <2>2 DEF e, q, j
<1>9. d \o Contents(r) \o Contents(b) = Numbers(k + 1)
  BY <1>4, <1>8, NumbersGrow
<1>10. n \in 0..Len(s) /\ \A i \in 1..Len(s) : s[i].io_scheduled <=> i <= n
  BY DEF Goes
<1> QED
  BY <1>5, <1>6, <1>9, <1>10 DEF Goes, r, b

LEMMA Pushed1 ==
    ASSUME NEW d \in Seq(Nat), NEW s \in Seq(Buffers), NEW n, NEW w, NEW k \in Nat,
           NEW a \in Seq(Buffers), a # <<>>, Goes(d, s, n, w, a, k)
    PROVE  Goes(d, Append(s, Head(a)), n, w, Tail(a), k)
<1> DEFINE h == Head(a)
           t == Append(s, h)
           b == Tail(a)
           r == Rest(s, n, w)
<1>1. /\ b \in Seq(Buffers) /\ h \in Buffers /\ h = a[1]
      /\ Len(a) \in Nat /\ Len(a) # 0 /\ Len(b) = Len(a) - 1
      /\ \A i \in 1..Len(b) : b[i] = a[i + 1]
  BY TakenTypes
<1> HIDE DEF h, b
<1>2. /\ t \in Seq(Buffers) /\ Len(t) = Len(s) + 1 /\ Len(s) \in Nat
      /\ \A i \in 1..Len(s) : t[i] = s[i]
      /\ t[Len(s) + 1] = h
  BY <1>1, PushedTypes
<1>3. /\ n \in 0..Len(s) /\ \A i \in 1..Len(s) : s[i].io_scheduled <=> i <= n
      /\ \A i \in 2..Len(a) : a[i].txns = <<>>
      /\ \A i \in 1..Len(a) : ~a[i].io_scheduled
      /\ d \o Contents(r) \o Contents(a) = Numbers(k)
  BY DEF Goes
<1>4. r \in Seq(Buffers) /\ Contents(r) \in Seq(Nat) /\ h.txns \in Seq(Nat)
  BY <1>1, <1>3, RestType, ContentsType DEF Buffers
<1>5. Rest(t, n, w) = Append(r, h)
  BY <1>1, <1>3, RestAppend DEF Rest
<1> HIDE DEF t, r
<1>6. Contents(Rest(t, n, w)) = Contents(r) \o h.txns /\ Contents(a) = h.txns
  BY <1>1, <1>3, <1>4, <1>5, ContentsAppend, ContentsFirst
<1>7. \A i \in 1..Len(b) : b[i].txns = <<>> /\ ~b[i].io_scheduled
  <2> TAKE i \in 1..Len(b)
  <2>1. i + 1 \in 2..Len(a) /\ i + 1 \in 1..Len(a)
    BY <1>1
  <2> QED
    BY <1>1, <1>3, <2>1
<1>8. Contents(b) = <<>>
  BY <1>1, <1>7, ContentsEmpty
<1>9. d \o Contents(Rest(t, n, w)) \o Contents(b) = Numbers(k)
  <2>1. (d \o Contents(r)) \o h.txns = d \o (Contents(r) \o h.txns)
    <3> DEFINE p == Contents(r)
               q == h.txns
    <3>1. p \in Seq(Nat) /\ q \in Seq(Nat)
      BY <1>4
    <3> HIDE DEF p, q
    <3>2. (d \o p) \o q = d \o (p \o q)
      BY <3>1, Regroup
    <3> QED
      BY <3>2 DEF p, q
  <2>2. d \o (Contents(r) \o h.txns) \in Seq(Nat)
    BY <1>4, ConcatProperties
  <2>3. d \o Contents(Rest(t, n, w)) \o Contents(b) = d \o (Contents(r) \o h.txns)
    BY <1>6, <1>8, <2>2, ConcatEmptySeq
  <2> QED
    BY <1>3, <1>6, <2>1, <2>3
<1>10. \A i \in 1..Len(t) : t[i].io_scheduled <=> i <= n
  <2> TAKE i \in 1..Len(t)
  <2>1. CASE i = Len(s) + 1
    <3>1. t[i] = h /\ ~(i <= n)
      BY <1>2, <1>3, <2>1
    <3>2. 1 \in 1..Len(a)
      BY <1>1
    <3>3. ~h.io_scheduled
      BY <1>1, <1>3, <3>2
    <3> QED
      BY <3>1, <3>3
  <2>2. CASE i # Len(s) + 1
    <3>1. i \in 1..Len(s)
      BY <1>2, <2>2
    <3> QED
      BY <1>2, <1>3, <3>1
  <2> QED
    BY <2>1, <2>2
<1>11. n \in 0..Len(t)
  BY <1>2, <1>3
<1>12. \A i \in 2..Len(b) : b[i].txns = <<>>
  BY <1>1, <1>7
<1> QED
  BY <1>7, <1>9, <1>10, <1>11, <1>12 DEF Goes, t, b, h

LEMMA Scheduled1 ==
    ASSUME NEW s \in Seq(Buffers), NEW n \in 0..Len(s), NEW t \in Seq(Buffers),
           NEW d, NEW a, NEW k, Goes(d, s, 0, FALSE, a, k), Len(t) = Len(s),
           \A i \in 1..Len(s) :
              /\ t[i].txns = s[i].txns
              /\ t[i].io_scheduled <=> i <= n \/ s[i].io_scheduled
    PROVE  Goes(d, t, n, FALSE, a, k)
<1>1. Contents(t) = Contents(s)
  BY SameContents
<1>2. d \o Contents(s) \o Contents(a) = Numbers(k) /\ \A i \in 1..Len(s) : ~s[i].io_scheduled
  BY DEF Goes, Rest
<1>3. \A i \in 1..Len(t) : t[i].io_scheduled <=> i <= n
  BY <1>2
<1> QED
  BY <1>1, <1>2, <1>3 DEF Goes, Rest

LEMMA Written2 ==
    ASSUME NEW d \in Seq(Nat), NEW s \in Seq(Buffers), NEW n \in 0..Len(s),
           NEW a \in Seq(Buffers), NEW k, Goes(d, s, n, FALSE, a, k)
    PROVE  Goes(d \o Contents(SubSeq(s, 1, n)), s, n, TRUE, a, k)
<1> DEFINE u == SubSeq(s, 1, n)
           v == SubSeq(s, n + 1, Len(s))
<1>1. u \in Seq(Buffers) /\ v \in Seq(Buffers) /\ s = u \o v
  BY Halves
<1> HIDE DEF u, v
<1>2. Contents(s) = Contents(u) \o Contents(v) /\ Contents(u) \in Seq(Nat) /\ Contents(v) \in Seq(Nat)
  BY <1>1, ContentsConcat, ContentsType
<1> DEFINE p == Contents(u)
           q == Contents(v)
<1>3. p \in Seq(Nat) /\ q \in Seq(Nat)
  BY <1>2
<1> HIDE DEF p, q
<1>4. (d \o p) \o q = d \o (p \o q)
  BY <1>3, Regroup
<1> QED
  BY <1>2, <1>4 DEF Goes, Rest, u, v, p, q

LEMMA Returned1 ==
    ASSUME NEW d \in Seq(Nat), NEW s \in Seq(Buffers), s # <<>>, NEW n \in 0..Len(s),
           NEW a \in Seq(Buffers), NEW k, Goes(d, s, n, TRUE, a, k), Head(s).io_scheduled
    PROVE  n - 1 \in Nat /\ Goes(d, Tail(s), n - 1, TRUE, Append(a, EmptyBuffer), k)
<1> DEFINE t == Tail(s)
           b == Append(a, EmptyBuffer)
<1>1. /\ t \in Seq(Buffers) /\ Head(s) = s[1]
      /\ Len(s) \in Nat /\ Len(s) # 0 /\ Len(t) = Len(s) - 1
      /\ \A i \in 1..Len(t) : t[i] = s[i + 1]
  BY TakenTypes
<1>2. /\ b \in Seq(Buffers) /\ Len(b) = Len(a) + 1 /\ Len(a) \in Nat
      /\ \A i \in 1..Len(a) : b[i] = a[i]
      /\ b[Len(a) + 1] = EmptyBuffer
  BY AnEmptyBuffer, PushedTypes
<1>3. /\ n \in 0..Len(s) /\ \A i \in 1..Len(s) : s[i].io_scheduled <=> i <= n
      /\ \A i \in 2..Len(a) : a[i].txns = <<>>
      /\ \A i \in 1..Len(a) : ~a[i].io_scheduled
      /\ d \o Contents(SubSeq(s, n + 1, Len(s))) \o Contents(a) = Numbers(k)
  BY DEF Goes, Rest
<1>4. n - 1 \in Nat /\ n - 1 <= Len(t)
  <2>1. 1 \in 1..Len(s)
    BY <1>1
  <2>2. 1 <= n
    BY <1>1, <1>3, <2>1
  <2> QED
    BY <1>1, <2>2
<1>5. SubSeq(t, (n - 1) + 1, Len(t)) = SubSeq(s, n + 1, Len(s))
  <2>1. n \in 1..Len(s) /\ (n - 1) + 1 = n
    BY <1>1, <1>3, <1>4
  <2> QED
    BY <2>1, RestTail
<1>6. Contents(b) = Contents(a)
  <2>1. Contents(b) = Contents(a) \o <<>>
    BY AnEmptyBuffer, ContentsAppend
  <2> QED
    BY <2>1, ContentsType, ConcatEmptySeq
<1> HIDE DEF t, b
<1>7. \A i \in 1..Len(t) : t[i].io_scheduled <=> i <= n - 1
  <2> TAKE i \in 1..Len(t)
  <2>1. i + 1 \in 1..Len(s) /\ (i + 1 <= n <=> i <= n - 1)
    BY <1>1, <1>3
  <2> QED
    BY <1>1, <1>3, <2>1
<1>8. ASSUME NEW i \in 1..Len(b)
      PROVE  ~b[i].io_scheduled /\ (i # 1 => b[i].txns = <<>>)
  <2>1. CASE i = Len(a) + 1
    BY <1>2, <2>1, AnEmptyBuffer
  <2>2. CASE i # Len(a) + 1
    <3>1. i \in 1..Len(a) /\ (i # 1 => i \in 2..Len(a))
      BY <1>2, <2>2
    <3>2. b[i] = a[i] /\ ~a[i].io_scheduled
      BY <1>2, <1>3, <3>1
    <3>3. i # 1 => a[i].txns = <<>>
      BY <1>3, <3>1
    <3> QED
      BY <3>2, <3>3
  <2> QED
    BY <2>1, <2>2
<1>9. \A i \in 2..Len(b) : b[i].txns = <<>>
  BY <1>2, <1>8
<1>10. n - 1 \in 0..Len(t) /\ \A i \in 1..Len(b) : ~b[i].io_scheduled
  BY <1>1, <1>4, <1>8
<1>11. d \o Contents(SubSeq(t, (n - 1) + 1, Len(t))) \o Contents(b) = Numbers(k)
  BY <1>3, <1>5, <1>6
<1> QED
  BY <1>4, <1>7, <1>9, <1>10, <1>11 DEF Goes, Rest, t, b

LEMMA LogFrame ==
    ASSUME NEW c, NEW n, InLog(c, n), AtDisk(c)' <=> AtDisk(c),
           disk'[c] = disk[c], persist_buffers'[c] = persist_buffers[c],
           all_buffers'[c] = all_buffers[c], committed'[c] = committed[c],
           SomeScheduled(c) => SomeScheduled(c)'
    PROVE  InLog(c, n)'
<1>1. Goes(disk[c], persist_buffers[c], n, AtDisk(c)', all_buffers[c], Len(committed[c]))
  BY DEF InLog, Goes, Rest
<1> QED
  BY <1>1, Zenon DEF InLog

(* With no buffer marked, it does not matter where the logger is.          *)
LEMMA LogFrameNone ==
    ASSUME LogTypes, NEW c \in Cores, InLog(c, 0),
           disk'[c] = disk[c], persist_buffers'[c] = persist_buffers[c],
           all_buffers'[c] = all_buffers[c], committed'[c] = committed[c]
    PROVE  InLog(c, 0)'
<1>1. persist_buffers[c] \in Seq(Buffers)
  BY DEF LogTypes, RingTypes
<1>2. Rest(persist_buffers[c], 0, AtDisk(c)) = Rest(persist_buffers[c], 0, AtDisk(c)')
  BY <1>1, NoneWritten
<1>3. Goes(disk[c], persist_buffers[c], 0, AtDisk(c)', all_buffers[c], Len(committed[c]))
  BY <1>2 DEF InLog, Goes
<1> QED
  BY <1>3, Zenon DEF InLog

LEMMA LogMoves ==
    ASSUME NEW c, NEW n, NEW m, InLog(c, n),
           Goes(disk'[c], persist_buffers'[c], m, AtDisk(c)', all_buffers'[c], Len(committed'[c])),
           m # 0 => SomeScheduled(c)'
    PROVE  InLog(c, m)'
BY Zenon DEF InLog

LEMMA LogTyped ==
    ASSUME LogTypes, NEW c \in Cores
    PROVE  /\ disk[c] \in Seq(Nat) /\ committed[c] \in Seq(Nat) /\ Len(committed[c]) \in Nat
           /\ persist_buffers[c] \in Seq(Buffers) /\ all_buffers[c] \in Seq(Buffers)
           /\ LoggerOf[c] \in Loggers /\ left[LoggerOf[c]] \subseteq Cores
<1>1. disk[c] \in Seq(Nat) /\ committed[c] \in Seq(Nat)
  BY DEF LogTypes, MarkTypes, CoreTypes
<1>2. persist_buffers[c] \in Seq(Buffers) /\ all_buffers[c] \in Seq(Buffers)
  BY DEF LogTypes, RingTypes
<1>3. LoggerOf[c] \in Loggers
  BY Assumed
<1> QED
  BY <1>1, <1>2, <1>3 DEF LogTypes, LoopTypes

LEMMA CoreInLog ==
    ASSUME LogTypes, NEW b \in Cores, Core(b), NEW c \in Cores, NEW n \in Nat, InLog(c, n)
    PROVE  InLog(c, n)'
<1>0. UNCHANGED <<lpc, left, niovs, disk>>
  BY DEF Core, GenCommitTid, WriteTxn, PushBuffer, ThreadEnd, logger
<1>1. /\ disk'[c] = disk[c]
      /\ AtDisk(c)' <=> AtDisk(c)
      /\ SomeScheduled(c) => SomeScheduled(c)'
  BY <1>0 DEF AtDisk, SomeScheduled, Unvisited
<1>2. ASSUME UNCHANGED <<persist_buffers, all_buffers, committed>> PROVE InLog(c, n)'
  BY <1>1, <1>2, LogFrame
<1>3. /\ persist_buffers[c] \in Seq(Buffers) /\ all_buffers[c] \in Seq(Buffers)
      /\ disk[c] \in Seq(Nat) /\ committed[c] \in Seq(Nat) /\ Len(committed[c]) \in Nat
  BY LogTyped
<1>4. Goes(disk[c], persist_buffers[c], n, AtDisk(c), all_buffers[c], Len(committed[c]))
      /\ (n # 0 => SomeScheduled(c))
  BY DEF InLog
<1>5. ASSUME b # c, \/ WriteTxn(b)
                    \/ all_buffers[b] # <<>> /\ PushHead(b) /\ UNCHANGED committed
      PROVE  InLog(c, n)'
  <2>1. /\ persist_buffers'[c] = persist_buffers[c] /\ all_buffers'[c] = all_buffers[c]
        /\ committed'[c] = committed[c]
    BY <1>5 DEF WriteTxn, PushHead, LogTypes, RingTypes, CoreTypes
  <2> QED
    BY <1>1, <2>1, LogFrame
<1>6. ASSUME b = c, all_buffers[c] # <<>>, PushHead(c), UNCHANGED committed
      PROVE  InLog(c, n)'
  <2>1. /\ persist_buffers'[c] = Append(persist_buffers[c], Head(all_buffers[c]))
        /\ all_buffers'[c] = Tail(all_buffers[c])
    BY <1>6 DEF PushHead, LogTypes, RingTypes
  <2>2. Goes(disk[c], Append(persist_buffers[c], Head(all_buffers[c])), n, AtDisk(c),
             Tail(all_buffers[c]), Len(committed[c]))
    BY <1>3, <1>4, <1>6, Pushed1
  <2>3. Goes(disk'[c], persist_buffers'[c], n, AtDisk(c)', all_buffers'[c], Len(committed'[c]))
    BY <1>0, <1>6, <2>1, <2>2 DEF AtDisk
  <2> QED
    BY <1>1, <1>4, <2>3, LogMoves
<1>7. CASE GenCommitTid(b)
  BY <1>2, <1>7 DEF GenCommitTid, rings
<1>8. CASE WriteTxn(b)
  <2>1. CASE b # c
    BY <1>5, <1>8, <2>1
  <2>2. CASE b = c
    <3> DEFINE px == Head(all_buffers[c])
               k == Len(committed[c])
               py == [px EXCEPT !.txns = Append(@, k + 1), !.epoch = commit_epoch[c]]
    <3>1. /\ all_buffers[c] # <<>>
          /\ all_buffers' = [all_buffers EXCEPT ![c] = [all_buffers[c] EXCEPT ![1] = py]]
          /\ committed' = [committed EXCEPT ![c] = Append(@, commit_epoch[c])]
          /\ UNCHANGED persist_buffers
      BY <1>8, <2>2 DEF WriteTxn
    <3>2. px \in Buffers /\ px = all_buffers[c][1] /\ commit_epoch[c] \in Nat
      BY <1>3, <3>1, TakenTypes DEF LogTypes, CoreTypes
    <3>3. 1 \in 1..Len(all_buffers[c]) /\ ~px.io_scheduled
      <4>1. Len(all_buffers[c]) \in Nat /\ Len(all_buffers[c]) # 0
        BY <1>3, <3>1, TakenTypes
      <4>2. 1 \in 1..Len(all_buffers[c])
        BY <4>1
      <4> QED
        BY <1>4, <3>2, <4>2 DEF Goes
    <3> HIDE DEF px
    <3>4. py \in Buffers /\ py.txns = Append(px.txns, k + 1) /\ py.io_scheduled = px.io_scheduled
      <4>1. px.txns \in Seq(Nat) /\ k + 1 \in Nat
        BY <1>3, <3>2 DEF Buffers
      <4> HIDE DEF k
      <4>2. Append(px.txns, k + 1) \in Seq(Nat)
        BY <4>1, AppendProperties
      <4> QED
        BY <3>2, <4>2 DEF Buffers
    <3> HIDE DEF py
    <3>5. Goes(disk[c], persist_buffers[c], n, AtDisk(c), [all_buffers[c] EXCEPT ![1] = py], k + 1)
      BY <1>3, <1>4, <3>1, <3>2, <3>3, <3>4, Written1
    <3>6. all_buffers'[c] = [all_buffers[c] EXCEPT ![1] = py] /\ Len(committed'[c]) = k + 1
      <4>1. committed'[c] = Append(committed[c], commit_epoch[c])
        BY <3>1 DEF LogTypes, CoreTypes
      <4> QED
        BY <1>3, <3>1, <3>2, <4>1, AppendProperties DEF LogTypes, RingTypes
    <3>7. Goes(disk'[c], persist_buffers'[c], n, AtDisk(c)', all_buffers'[c], Len(committed'[c]))
      BY <1>0, <3>1, <3>5, <3>6 DEF AtDisk
    <3> QED
      BY <1>1, <1>4, <3>7, LogMoves
  <2> QED
    BY <2>1, <2>2
<1>9. CASE PushBuffer(b)
  BY <1>5, <1>6, <1>9 DEF PushBuffer, worker
<1>10. CASE ThreadEnd(b)
  <2>1. CASE all_buffers[b] # <<>> /\ Head(all_buffers[b]).txns # <<>>
    BY <1>5, <1>6, <1>10, <2>1 DEF ThreadEnd
  <2>2. CASE ~(all_buffers[b] # <<>> /\ Head(all_buffers[b]).txns # <<>>)
    BY <1>2, <1>10, <2>2 DEF ThreadEnd, rings
  <2> QED
    BY <2>1, <2>2
<1> QED
  BY <1>7, <1>8, <1>9, <1>10 DEF Core

LEMMA WriterInLog ==
    ASSUME LogTypes, AllInLog, NEW l \in Loggers, Writer(l), NEW c \in Cores,
           NEW n \in Nat, InLog(c, n)
    PROVE  \E m \in Nat : InLog(c, m)'
<1> DEFINE b == Min(left[l])
<1>0. UNCHANGED committed
  BY DEF Writer, WriterStart, Schedule, NothingToWrite, Writev, LoadEpoch, StoreEpoch,
        ReturnBuffer, NextCore, WriterDone, worker
<1>1. /\ persist_buffers[c] \in Seq(Buffers) /\ all_buffers[c] \in Seq(Buffers)
      /\ disk[c] \in Seq(Nat) /\ Len(committed[c]) \in Nat
      /\ LoggerOf[c] \in Loggers
  BY LogTyped
<1>2. Goes(disk[c], persist_buffers[c], n, AtDisk(c), all_buffers[c], Len(committed[c]))
      /\ (n # 0 => SomeScheduled(c))
  BY DEF InLog
<1>3. left[l] # {} => b \in left[l] /\ b \in Cores /\ LoggerOf[b] = l
  <2>1. left[l] \subseteq Assigned(l)
    BY DEF AllInLog
  <2> QED
    BY <2>1, TurnOf DEF Assigned
<1>4. /\ lpc \in [Loggers -> {"sleep", "peek"} \cup Writing]
      /\ left \in [Loggers -> SUBSET Cores] /\ niovs \in [Loggers -> 0..MaxIovs]
  BY DEF LogTypes, LoopTypes
<1>5. ASSUME UNCHANGED <<disk, persist_buffers, all_buffers>>,
             AtDisk(c)' <=> AtDisk(c), SomeScheduled(c) => SomeScheduled(c)'
      PROVE  InLog(c, n)'
  BY <1>0, <1>5, LogFrame
<1>6. ASSUME UNCHANGED <<disk, persist_buffers, all_buffers>>, n = 0
      PROVE  InLog(c, n)'
  BY <1>0, <1>6, LogFrameNone
(* The writer of another logger.                                           *)
<1>7. CASE LoggerOf[c] # l
  <2>1. /\ lpc'[LoggerOf[c]] = lpc[LoggerOf[c]] /\ left'[LoggerOf[c]] = left[LoggerOf[c]]
        /\ niovs'[LoggerOf[c]] = niovs[LoggerOf[c]]
    <3>1. lpc'[LoggerOf[c]] = lpc[LoggerOf[c]]
      BY <1>1, <1>4, <1>7 DEF Writer, WriterStart, Schedule, NothingToWrite, Writev, LoadEpoch,
            StoreEpoch, ReturnBuffer, NextCore, WriterDone, logger
    <3>2. left'[LoggerOf[c]] = left[LoggerOf[c]]
      BY <1>1, <1>4, <1>7 DEF Writer, WriterStart, Schedule, NothingToWrite, Writev, LoadEpoch,
            StoreEpoch, ReturnBuffer, NextCore, WriterDone, logger
    <3>3. niovs'[LoggerOf[c]] = niovs[LoggerOf[c]]
      BY <1>1, <1>4, <1>7 DEF Writer, WriterStart, Schedule, NothingToWrite, Writev, LoadEpoch,
            StoreEpoch, ReturnBuffer, NextCore, WriterDone, logger
    <3> QED
      BY <3>1, <3>2, <3>3
  <2>2. (AtDisk(c)' <=> AtDisk(c)) /\ (SomeScheduled(c) => SomeScheduled(c)')
    BY <2>1 DEF AtDisk, SomeScheduled, Unvisited
  <2>3. disk'[c] = disk[c] /\ persist_buffers'[c] = persist_buffers[c] /\ all_buffers'[c] = all_buffers[c]
    <3>1. CASE Schedule(l) \/ ReturnBuffer(l)
      <4>1. b # c /\ UNCHANGED disk
        BY <1>3, <1>7, <3>1 DEF Schedule, ReturnBuffer, LogTypes, LoopTypes, logger
      <4>2. persist_buffers'[c] = persist_buffers[c] /\ all_buffers'[c] = all_buffers[c]
        BY <3>1, <4>1 DEF Schedule, ReturnBuffer, LogTypes, RingTypes
      <4> QED
        BY <4>1, <4>2
    <3>2. CASE Writev(l)
      BY <1>7, <3>2 DEF Writev, rings, Assigned
    <3>3. CASE ~(Schedule(l) \/ ReturnBuffer(l)) /\ ~Writev(l)
      BY <3>3 DEF Writer, WriterStart, NothingToWrite, LoadEpoch, StoreEpoch, NextCore,
            WriterDone, rings
    <3> QED
      BY <3>1, <3>2, <3>3
  <2>4. InLog(c, n)'
    BY <1>0, <2>2, <2>3, LogFrame
  <2> QED
    BY <2>4
<1>8. CASE LoggerOf[c] = l
  <2>1. CASE WriterStart(l)
    <3>1. n = 0
      BY <1>2, <1>8, <2>1 DEF WriterStart, SomeScheduled, AtDisk, Writing
    <3> QED
      BY <1>6, <2>1, <3>1 DEF WriterStart, rings
  <2>2. CASE Schedule(l) /\ b # c
    <3>1. persist_buffers'[c] = persist_buffers[c] /\ UNCHANGED <<disk, all_buffers>>
      BY <2>2 DEF Schedule, LogTypes, RingTypes
    <3>2. AtDisk(c)' <=> AtDisk(c)
      BY <2>2 DEF Schedule, AtDisk
    <3>3. SomeScheduled(c) => SomeScheduled(c)'
      <4>1. niovs'[l] # 0 \/ niovs[l] = 0
        <5>1. niovs' = [niovs EXCEPT ![l] = @ + Max(Schedulable(l, b))]
          BY <2>2 DEF Schedule
        <5>2. Max(Schedulable(l, b)) \in Nat /\ niovs[l] \in Nat
          <6>1. b \in Cores
            BY <1>3, <2>2 DEF Schedule
          <6>2. Len(persist_buffers[b]) \in Nat
            BY <6>1, LogTyped
          <6> QED
            BY <1>4, <6>1, <6>2, Chosen
        <5>3. niovs'[l] = niovs[l] + Max(Schedulable(l, b))
          BY <1>4, <5>1
        <5> QED
          BY <5>2, <5>3
      <4>2. left'[l] \subseteq left[l] /\ UNCHANGED lpc /\ lpc[l] = "peek"
        BY <1>4, <2>2 DEF Schedule
      <4> QED
        BY <1>8, <4>1, <4>2 DEF SomeScheduled, AtDisk, Unvisited, Writing
    <3> QED
      BY <1>0, <3>1, <3>2, <3>3, LogFrame
  <2>3. CASE Schedule(l) /\ b = c
    <3>0. PICK m \in Nat : m = Max(Schedulable(l, c))
      BY <1>1, Chosen
    <3>1. /\ persist_buffers' = [persist_buffers EXCEPT ![c] =
                [i \in DOMAIN @ |-> IF i <= m THEN [@[i] EXCEPT !.io_scheduled = TRUE] ELSE @[i]]]
          /\ niovs' = [niovs EXCEPT ![l] = @ + m]
          /\ left' = [left EXCEPT ![l] = @ \ {c}]
          /\ lpc[l] = "peek" /\ c \in left[l] /\ UNCHANGED <<disk, all_buffers, lpc>>
      BY <1>3, <2>3, <3>0 DEF Schedule
    <3>2. m \in 0..Len(persist_buffers[c]) /\ niovs[l] + m \in 0..MaxIovs
      BY <3>0, Chosen
    <3>3. m \in Nat /\ niovs[l] \in Nat
      BY <1>1, <1>4, <3>2
    <3>4. n = 0 /\ ~AtDisk(c) /\ ~AtDisk(c)'
      BY <1>2, <1>8, <3>1 DEF SomeScheduled, AtDisk, Unvisited, Writing
    <3> DEFINE s == persist_buffers[c]
               t == Marked(s, m)
    <3>8. persist_buffers'[c] = t
      BY <3>1 DEF LogTypes, RingTypes, Marked
    <3>5. /\ t \in Seq(Buffers) /\ Len(t) = Len(s)
          /\ \A i \in 1..Len(s) :
                /\ t[i].txns = s[i].txns /\ t[i].epoch = s[i].epoch
                /\ t[i].io_scheduled <=> i <= m \/ s[i].io_scheduled
      BY <1>1, <3>3, MarkedTypes
    <3> HIDE DEF t
    <3>6. Goes(disk[c], persist_buffers[c], 0, FALSE, all_buffers[c], Len(committed[c]))
      BY <1>2, <3>4 DEF Goes, Rest
    <3>7. Goes(disk[c], t, m, FALSE, all_buffers[c], Len(committed[c]))
      BY <1>1, <3>2, <3>5, <3>6, Scheduled1
    <3>9. Goes(disk'[c], persist_buffers'[c], m, AtDisk(c)', all_buffers'[c], Len(committed'[c]))
      BY <1>0, <3>1, <3>4, <3>7, <3>8 DEF Goes, Rest
    <3>10. m # 0 => SomeScheduled(c)'
      <4>1. lpc'[l] = "peek" /\ c \notin left'[l] /\ niovs'[l] = niovs[l] + m
        BY <1>4, <3>1
      <4> QED
        BY <1>8, <3>3, <4>1 DEF SomeScheduled, Unvisited
    <3>11. InLog(c, m)'
      BY <3>9, <3>10, LogMoves
    <3> QED
      BY <3>3, <3>11
  <2>4. CASE NothingToWrite(l)
    <3>1. n = 0
      BY <1>2, <1>8, <2>4 DEF NothingToWrite, SomeScheduled, AtDisk, Writing
    <3> QED
      BY <1>6, <2>4, <3>1 DEF NothingToWrite, rings
  <2>5. CASE Writev(l)
    <3> DEFINE s == persist_buffers[c]
    <3>1. ~AtDisk(c) /\ AtDisk(c)' /\ Unvisited(c)'
      BY <1>4, <1>8, <2>5 DEF Writev, AtDisk, Unvisited, Writing, Assigned
    <3>2. n \in 0..Len(s) /\ \A i \in 1..Len(s) : s[i].io_scheduled <=> i <= n
      BY <1>2 DEF Goes
    <3>3. ScheduledTo(c) = n
      BY <1>1, <3>2, ScheduledAre DEF ScheduledTo
    <3>4. disk'[c] = disk[c] \o Contents(SubSeq(s, 1, n)) /\ UNCHANGED <<persist_buffers, all_buffers>>
      BY <1>8, <2>5, <3>3 DEF Writev, Scheduled, Assigned, rings
    <3>5. Goes(disk[c], s, n, FALSE, all_buffers[c], Len(committed[c]))
      BY <1>2, <3>1 DEF Goes, Rest
    <3>6. Goes(disk[c] \o Contents(SubSeq(s, 1, n)), s, n, TRUE, all_buffers[c], Len(committed[c]))
      BY <1>1, <3>2, <3>5, Written2
    <3>7. Goes(disk'[c], persist_buffers'[c], n, AtDisk(c)', all_buffers'[c], Len(committed'[c]))
      BY <1>0, <3>1, <3>4, <3>6 DEF Goes, Rest
    <3>8. InLog(c, n)'
      BY <3>1, <3>7, LogMoves DEF SomeScheduled
    <3> QED
      BY <3>8
  <2>6. CASE LoadEpoch(l) \/ StoreEpoch(l)
    <3>1. (AtDisk(c)' <=> AtDisk(c)) /\ (SomeScheduled(c) => SomeScheduled(c)')
      BY <1>4, <1>8, <2>6 DEF LoadEpoch, StoreEpoch, SomeScheduled, AtDisk, Unvisited, Writing
    <3>2. InLog(c, n)'
      BY <1>5, <2>6, <3>1 DEF LoadEpoch, StoreEpoch, rings
    <3> QED
      BY <3>2
  <2>7. CASE ReturnBuffer(l) /\ b = c
    <3> DEFINE s == persist_buffers[c]
               t == Tail(s)
               a == Append(all_buffers[c], EmptyBuffer)
    <3>1. /\ s # <<>> /\ Head(s).io_scheduled /\ lpc[l] = "return" /\ UNCHANGED <<disk, lpc, left>>
          /\ persist_buffers' = [persist_buffers EXCEPT ![c] = t]
          /\ all_buffers' = [all_buffers EXCEPT ![c] = a]
      BY <2>7 DEF ReturnBuffer, Written, logger
    <3>2. c \in left[l]
      BY <1>3, <2>7, <3>1 DEF LogTypes, LoopTypes
    <3>3. AtDisk(c) /\ AtDisk(c)' /\ SomeScheduled(c)'
      BY <1>8, <3>1, <3>2 DEF AtDisk, Writing, SomeScheduled, Unvisited
    <3>4. Goes(disk[c], s, n, TRUE, all_buffers[c], Len(committed[c])) /\ n \in 0..Len(s)
      BY <1>2, <3>3 DEF Goes, Rest
    <3>5. n - 1 \in Nat /\ Goes(disk[c], t, n - 1, TRUE, a, Len(committed[c]))
      BY <1>1, <3>1, <3>4, Returned1
    <3>6. persist_buffers'[c] = t /\ all_buffers'[c] = a
      BY <3>1 DEF LogTypes, RingTypes
    <3> HIDE DEF t, a
    <3>7. Goes(disk'[c], persist_buffers'[c], n - 1, AtDisk(c)', all_buffers'[c], Len(committed'[c]))
      BY <1>0, <3>1, <3>3, <3>5, <3>6 DEF Goes, Rest
    <3>8. InLog(c, n - 1)'
      BY <3>3, <3>7, LogMoves
    <3> QED
      BY <3>5, <3>8
  <2>8. CASE ReturnBuffer(l) /\ b # c
    <3>1. /\ persist_buffers'[c] = persist_buffers[c] /\ all_buffers'[c] = all_buffers[c]
          /\ UNCHANGED <<disk, lpc, left, niovs>>
      BY <2>8 DEF ReturnBuffer, LogTypes, RingTypes, logger
    <3>2. (AtDisk(c)' <=> AtDisk(c)) /\ (SomeScheduled(c) => SomeScheduled(c)')
      BY <3>1 DEF AtDisk, SomeScheduled, Unvisited
    <3>3. InLog(c, n)'
      BY <1>0, <3>1, <3>2, LogFrame
    <3> QED
      BY <3>3
  <2>9. CASE NextCore(l)
    <3>1. /\ UNCHANGED <<disk, persist_buffers, all_buffers>>
          /\ left' = [left EXCEPT ![l] = @ \ {b}]
          /\ lpc[l] = "return" /\ lpc'[l] = "load"
      BY <1>4, <2>9 DEF NextCore, rings
    <3>2. AtDisk(c)' <=> AtDisk(c)
      BY <1>8, <3>1 DEF AtDisk, Writing
    <3>3. CASE n = 0
      BY <1>6, <3>1, <3>3
    <3>4. CASE n # 0
      <4>1. b # c
        <5>1. n \in 1..Len(persist_buffers[c]) /\ 1 \in 1..Len(persist_buffers[c]) /\ 1 <= n
          BY <1>1, <1>2, <3>4 DEF Goes
        <5>2. persist_buffers[c] # <<>> /\ persist_buffers[c][1].io_scheduled
          BY <1>2, <5>1 DEF Goes
        <5>3. Head(persist_buffers[c]) = persist_buffers[c][1]
          BY <1>1, <5>2, TakenTypes
        <5> QED
          BY <2>9, <5>2, <5>3 DEF NextCore, Written
      <4>2. SomeScheduled(c) => SomeScheduled(c)'
        BY <1>4, <1>8, <3>1, <4>1 DEF SomeScheduled, AtDisk, Unvisited, Writing
      <4> QED
        BY <1>5, <3>1, <3>2, <4>2
    <3> QED
      BY <3>3, <3>4
  <2>10. CASE WriterDone(l)
    <3>1. n = 0
      BY <1>2, <1>8, <2>10 DEF WriterDone, SomeScheduled, Unvisited
    <3> QED
      BY <1>6, <2>10, <3>1 DEF WriterDone, rings
  <2> QED
    BY <2>1, <2>2, <2>3, <2>4, <2>5, <2>6, <2>7, <2>8, <2>9, <2>10 DEF Writer
<1> QED
  BY <1>7, <1>8

LEMMA NextInLog ==
    ASSUME LogTypes, AllInLog, [LogNext]_logvars PROVE AllInLog'
<1>1. \A l \in Loggers : left'[l] \subseteq Assigned(l)
  <2>1. \A l \in Loggers : left'[l] = left[l] \/ left'[l] \subseteq left[l] \/ left'[l] = Assigned(l)
    <3>1. CASE UNCHANGED left
      BY <3>1
    <3>2. ASSUME NEW k \in Loggers, Writer(k)
          PROVE  \A l \in Loggers : left'[l] \subseteq left[l] \/ left'[l] = Assigned(l)
      <4>1. left \in [Loggers -> SUBSET Cores]
        BY DEF LogTypes, LoopTypes
      <4>2. CASE WriterStart(k) \/ Writev(k)
        BY <4>1, <4>2 DEF WriterStart, Writev
      <4>3. CASE ~(WriterStart(k) \/ Writev(k))
        BY <3>2, <4>1, <4>3 DEF Writer, Schedule, NothingToWrite, LoadEpoch, StoreEpoch,
              ReturnBuffer, NextCore, WriterDone, logger
      <4> QED
        BY <4>2, <4>3
    <3>3. ASSUME NEW c \in Cores, Core(c) PROVE UNCHANGED left
      BY <3>3 DEF Core, GenCommitTid, WriteTxn, PushBuffer, ThreadEnd, logger
    <3>4. Clock \/ Persister \/ UNCHANGED logvars => UNCHANGED left
      BY DEF Clock, Persister, PersisterStart, FirstPeek, FirstPeekDone, LockCore, LockFails,
            SecondPeekDone, AdvanceCore, CountCore, PersisterDone, logger, logvars
    <3> QED
      BY <3>1, <3>2, <3>3, <3>4 DEF LogNext
  <2> QED
    BY <2>1 DEF AllInLog
<1>2. ASSUME NEW c \in Cores PROVE \E m \in Nat : InLog(c, m)'
  <2>1. PICK n \in Nat : InLog(c, n)
    BY DEF AllInLog
  <2>2. CASE Clock \/ Persister \/ UNCHANGED logvars
    <3>1. UNCHANGED <<disk, persist_buffers, all_buffers, committed, lpc, left, niovs>>
      <4>1. UNCHANGED <<worker, rings, logger>>
        BY <2>2 DEF Clock, Persister, PersisterStart, FirstPeek, FirstPeekDone, LockCore,
              LockFails, SecondPeekDone, AdvanceCore, CountCore, PersisterDone, logvars
      <4> QED
        BY <4>1 DEF worker, rings, logger
    <3>2. (AtDisk(c)' <=> AtDisk(c)) /\ (SomeScheduled(c) => SomeScheduled(c)')
      BY <3>1 DEF AtDisk, SomeScheduled, Unvisited
    <3>3. InLog(c, n)'
      BY <2>1, <3>1, <3>2, LogFrame
    <3> QED
      BY <3>3
  <2>3. CASE \E b \in Cores : Core(b)
    BY <2>1, <2>3, CoreInLog
  <2>4. CASE \E l \in Loggers : Writer(l)
    BY <2>1, <2>4, WriterInLog
  <2> QED
    BY <2>2, <2>3, <2>4 DEF LogNext
<1> QED
  BY <1>1, <1>2 DEF AllInLog

LEMMA InitInLog ==
    ASSUME LogInit PROVE AllInLog
<1>1. \A l \in Loggers : left[l] \subseteq Assigned(l)
  BY DEF LogInit
<1>2. ASSUME NEW c \in Cores PROVE InLog(c, 0)
  <2> DEFINE a == [i \in 1..g_perthread_buffers |-> EmptyBuffer]
  <2>1. disk[c] = <<>> /\ persist_buffers[c] = <<>> /\ committed[c] = <<>> /\ all_buffers[c] = a
    BY <1>2 DEF LogInit
  <2>2. a \in Seq(Buffers) /\ Len(a) = g_perthread_buffers
    BY Assumed, AnEmptyBuffer
  <2>3. \A i \in 1..Len(a) : a[i].txns = <<>> /\ ~a[i].io_scheduled
    BY <2>2, AnEmptyBuffer
  <2>4. \A i \in 2..Len(a) : a[i].txns = <<>>
    BY <2>2, <2>3, Assumed
  <2> HIDE DEF a
  <2>5. Contents(a) = <<>>
    BY <2>2, <2>3, ContentsEmpty
  <2>6. <<>> \in Seq(Buffers) /\ Len(<<>>) = 0
    OBVIOUS
  <2>7. Contents(<<>>) = <<>>
    <3>1. \A i \in 1..Len(<<>>) : FALSE
      OBVIOUS
    <3> DEFINE s == <<>>
    <3>2. s \in Seq(Buffers) /\ \A i \in 1..Len(s) : s[i].txns = <<>>
      BY <2>6, <3>1
    <3> HIDE DEF s
    <3>3. Contents(s) = <<>>
      BY <3>2, ContentsEmpty
    <3> QED
      BY <3>3 DEF s
  <2>8. Rest(<<>>, 0, AtDisk(c)) = <<>>
    BY <2>6, NoneWritten
  <2>9. <<>> \o <<>> \o <<>> = Numbers(0)
    BY DEF Numbers
  <2>10. Goes(<<>>, <<>>, 0, AtDisk(c), a, 0)
    BY <2>3, <2>4, <2>5, <2>6, <2>7, <2>8, <2>9 DEF Goes
  <2> QED
    BY <2>1, <2>6, <2>10 DEF InLog
<1> QED
  BY <1>1, <1>2 DEF AllInLog

-----------------------------------------------------------------------------
(* Where the buffers of a core come from.                                  *)

SameData(px, py) == px.txns = py.txns /\ px.epoch = py.epoch
Extended(c, px) ==
    \E py \in Held(c) :
        /\ WriteTxn(c) /\ can_hold_tid(py, commit_epoch[c])
        /\ py.txns \in Seq(Nat)
        /\ px.txns = Append(py.txns, Len(committed[c]) + 1) /\ px.epoch = commit_epoch[c]
Comes(c, px) ==
    \/ SameData(px, EmptyBuffer)
    \/ \E py \in Held(c) : SameData(px, py)
    \/ Extended(c, px)

LEMMA PushComes ==
    ASSUME LogTypes, NEW b \in Cores, all_buffers[b] # <<>>, PushHead(b), NEW c \in Cores
    PROVE  Held(c)' \subseteq Held(c)
<1>1. all_buffers[c] \in Seq(Buffers) /\ persist_buffers[c] \in Seq(Buffers)
  BY LogTyped
<1>2. CASE b # c
  <2>1. persist_buffers'[c] = persist_buffers[c] /\ all_buffers'[c] = all_buffers[c]
    BY <1>2 DEF PushHead, LogTypes, RingTypes
  <2> QED
    BY <2>1 DEF Held
<1>3. CASE b = c
  <2> DEFINE a == all_buffers[c]
             s == persist_buffers[c]
             t == Append(s, Head(a))
  <2>1. persist_buffers'[c] = t /\ all_buffers'[c] = Tail(a)
    BY <1>3 DEF PushHead, LogTypes, RingTypes
  <2>2. /\ Head(a) \in Buffers /\ Head(a) = a[1]
        /\ Len(a) \in Nat /\ Len(a) # 0 /\ Len(Tail(a)) = Len(a) - 1
        /\ \A i \in 1..Len(Tail(a)) : Tail(a)[i] = a[i + 1]
    BY <1>1, <1>3, TakenTypes
  <2>3. /\ Len(t) = Len(s) + 1 /\ Len(s) \in Nat
        /\ \A i \in 1..Len(s) : t[i] = s[i]
        /\ t[Len(s) + 1] = a[1]
    BY <1>1, <2>2, PushedTypes
  <2> HIDE DEF t
  <2>4. \A i \in 1..Len(Tail(a)) : Tail(a)[i] \in Held(c)
    <3> TAKE i \in 1..Len(Tail(a))
    <3>1. i + 1 \in 1..Len(a)
      BY <2>2
    <3> QED
      BY <2>2, <3>1 DEF Held
  <2>5. \A i \in 1..Len(t) : t[i] \in Held(c)
    <3> TAKE i \in 1..Len(t)
    <3>1. CASE i = Len(s) + 1
      <4>1. 1 \in 1..Len(a)
        BY <2>2
      <4> QED
        BY <2>3, <3>1, <4>1 DEF Held
    <3>2. CASE i # Len(s) + 1
      <4>1. i \in 1..Len(s)
        BY <2>3, <3>2
      <4> QED
        BY <2>3, <4>1 DEF Held
    <3> QED
      BY <3>1, <3>2
  <2> QED
    BY <2>1, <2>4, <2>5 DEF Held
<1> QED
  BY <1>2, <1>3

LEMMA WriteComes ==
    ASSUME LogTypes, NEW c \in Cores, WriteTxn(c), NEW px \in Held(c)'
    PROVE  Comes(c, px)
<1> DEFINE a == all_buffers[c]
           h == Head(a)
           py == [h EXCEPT !.txns = Append(@, Len(committed[c]) + 1), !.epoch = commit_epoch[c]]
           b == [a EXCEPT ![1] = py]
<1>1. a \in Seq(Buffers) /\ committed[c] \in Seq(Nat) /\ commit_epoch[c] \in Nat
  BY LogTyped DEF LogTypes, CoreTypes
<1>2. /\ a # <<>> /\ HasRoom(h, commit_epoch[c])
      /\ all_buffers' = [all_buffers EXCEPT ![c] = b] /\ UNCHANGED persist_buffers
  BY DEF WriteTxn
<1>3. h \in Buffers /\ h = a[1] /\ Len(a) \in Nat /\ Len(a) # 0
  BY <1>1, <1>2, TakenTypes
<1>4. 1 \in 1..Len(a)
  BY <1>3
<1>5. h \in Held(c) /\ can_hold_tid(h, commit_epoch[c])
  BY <1>2, <1>3, <1>4 DEF Held, HasRoom
<1> HIDE DEF h
<1>6. h.txns \in Seq(Nat) /\ Len(committed[c]) + 1 \in Nat
  BY <1>1, <1>3 DEF Buffers
<1>7. Append(h.txns, Len(committed[c]) + 1) \in Seq(Nat)
  BY <1>6, AppendProperties
<1>8. py \in Buffers
  BY <1>1, <1>3, <1>7 DEF Buffers
<1>9. py.txns = Append(h.txns, Len(committed[c]) + 1) /\ py.epoch = commit_epoch[c]
  BY <1>3 DEF Buffers
<1> HIDE DEF py
<1>10. Len(b) = Len(a) /\ \A i \in 1..Len(a) : b[i] = IF i = 1 THEN py ELSE a[i]
  BY <1>1, <1>2, <1>8, FilledTypes
<1> HIDE DEF b
<1>11. all_buffers'[c] = b
  BY <1>2 DEF LogTypes, RingTypes
<1>12. px = py \/ px \in Held(c)
  BY <1>2, <1>10, <1>11 DEF Held
<1>13. Extended(c, py)
  BY <1>5, <1>6, <1>9 DEF Extended
<1> QED
  BY <1>12, <1>13 DEF Comes, SameData

LEMMA ScheduleComes ==
    ASSUME LogTypes, NEW l \in Loggers, Schedule(l), NEW c \in Cores, NEW px \in Held(c)'
    PROVE  Comes(c, px)
<1> DEFINE b == Min(left[l])
<1>1. all_buffers[c] \in Seq(Buffers) /\ persist_buffers[c] \in Seq(Buffers)
  BY LogTyped
<1>2. UNCHANGED all_buffers
  BY DEF Schedule
<1>3. CASE b # c
  <2>1. persist_buffers'[c] = persist_buffers[c]
    BY <1>3 DEF Schedule, LogTypes, RingTypes
  <2> QED
    BY <1>2, <2>1 DEF Held, Comes, SameData
<1>4. CASE b = c
  <2>1. Len(persist_buffers[c]) \in Nat
    BY <1>1
  <2>2. PICK n \in Nat : n = Max(Schedulable(l, c))
    BY <2>1, Chosen
  <2>3. persist_buffers'[c] = Marked(persist_buffers[c], n)
    BY <1>4, <2>2 DEF Schedule, Marked, LogTypes, RingTypes
  <2>4. /\ Len(Marked(persist_buffers[c], n)) = Len(persist_buffers[c])
        /\ \A i \in 1..Len(persist_buffers[c]) :
              SameData(Marked(persist_buffers[c], n)[i], persist_buffers[c][i])
    BY <1>1, MarkedTypes DEF SameData
  <2> QED
    BY <1>2, <2>3, <2>4 DEF Held, Comes, SameData
<1> QED
  BY <1>3, <1>4

LEMMA ReturnComes ==
    ASSUME LogTypes, NEW l \in Loggers, ReturnBuffer(l), NEW c \in Cores, NEW px \in Held(c)'
    PROVE  Comes(c, px)
<1> DEFINE b == Min(left[l])
           s == persist_buffers[c]
           a == all_buffers[c]
           t == Append(a, EmptyBuffer)
<1>1. a \in Seq(Buffers) /\ s \in Seq(Buffers)
  BY LogTyped
<1>2. CASE b # c
  <2>1. persist_buffers'[c] = persist_buffers[c] /\ all_buffers'[c] = all_buffers[c]
    BY <1>2 DEF ReturnBuffer, LogTypes, RingTypes
  <2> QED
    BY <2>1 DEF Held, Comes, SameData
<1>3. CASE b = c
  <2>1. s # <<>> /\ persist_buffers'[c] = Tail(s) /\ all_buffers'[c] = t
    BY <1>3 DEF ReturnBuffer, LogTypes, RingTypes
  <2>2. /\ Len(s) \in Nat /\ Len(Tail(s)) = Len(s) - 1
        /\ \A i \in 1..Len(Tail(s)) : Tail(s)[i] = s[i + 1]
    BY <1>1, <2>1, TakenTypes
  <2>3. /\ Len(t) = Len(a) + 1 /\ Len(a) \in Nat
        /\ \A i \in 1..Len(a) : t[i] = a[i]
        /\ t[Len(a) + 1] = EmptyBuffer
    BY <1>1, AnEmptyBuffer, PushedTypes
  <2> HIDE DEF t
  <2>4. \A i \in 1..Len(Tail(s)) : Tail(s)[i] \in Held(c)
    <3> TAKE i \in 1..Len(Tail(s))
    <3>1. i + 1 \in 1..Len(s)
      BY <2>2
    <3> QED
      BY <2>2, <3>1 DEF Held
  <2>5. \A i \in 1..Len(t) : t[i] \in Held(c) \/ t[i] = EmptyBuffer
    <3> TAKE i \in 1..Len(t)
    <3>1. i = Len(a) + 1 \/ i \in 1..Len(a)
      BY <2>3
    <3> QED
      BY <2>3, <3>1 DEF Held
  <2>6. px \in Held(c) \/ px = EmptyBuffer
    BY <2>1, <2>4, <2>5 DEF Held
  <2> QED
    BY <2>6 DEF Comes, SameData
<1> QED
  BY <1>2, <1>3

LEMMA AllCome ==
    ASSUME LogTypes, [LogNext]_logvars, NEW c \in Cores, NEW px \in Held(c)'
    PROVE  Comes(c, px)
<1>1. ASSUME UNCHANGED rings PROVE Comes(c, px)
  BY <1>1 DEF rings, Held, Comes, SameData
<1>2. ASSUME Held(c)' \subseteq Held(c) PROVE Comes(c, px)
  BY <1>2 DEF Comes, SameData
<1>3. CASE Clock \/ Persister \/ UNCHANGED logvars
  <2>1. UNCHANGED rings
    BY <1>3 DEF Clock, Persister, PersisterStart, FirstPeek, FirstPeekDone, LockCore, LockFails,
          SecondPeekDone, AdvanceCore, CountCore, PersisterDone, logvars
  <2> QED
    BY <1>1, <2>1
<1>4. ASSUME NEW b \in Cores, Core(b) PROVE Comes(c, px)
  <2>1. CASE GenCommitTid(b)
    BY <1>1, <2>1 DEF GenCommitTid
  <2>2. CASE WriteTxn(b)
    <3>1. CASE b = c
      BY <2>2, <3>1, WriteComes
    <3>2. CASE b # c
      <4>1. persist_buffers'[c] = persist_buffers[c] /\ all_buffers'[c] = all_buffers[c]
        BY <2>2, <3>2 DEF WriteTxn, LogTypes, RingTypes
      <4> QED
        BY <1>2, <4>1 DEF Held
    <3> QED
      BY <3>1, <3>2
  <2>3. CASE PushBuffer(b)
    BY <1>2, <2>3, PushComes DEF PushBuffer
  <2>4. CASE ThreadEnd(b)
    BY <1>1, <1>2, <2>4, PushComes DEF ThreadEnd
  <2> QED
    BY <1>4, <2>1, <2>2, <2>3, <2>4 DEF Core
<1>5. ASSUME NEW l \in Loggers, Writer(l) PROVE Comes(c, px)
  <2>1. Schedule(l) => Comes(c, px)
    BY ScheduleComes
  <2>2. ReturnBuffer(l) => Comes(c, px)
    BY ReturnComes
  <2>3. ~Schedule(l) /\ ~ReturnBuffer(l) => UNCHANGED rings
    BY <1>5 DEF Writer, WriterStart, NothingToWrite, Writev, LoadEpoch, StoreEpoch, NextCore,
          WriterDone
  <2> QED
    BY <1>1, <2>1, <2>2, <2>3
<1> QED
  BY <1>3, <1>4, <1>5 DEF LogNext

-----------------------------------------------------------------------------
(* One epoch per buffer.                                                   *)

(* Only WriteTxn commits, and what was committed stays.                    *)
LEMMA CommittedKept ==
    ASSUME LogTypes, [LogNext]_logvars, NEW c \in Cores
    PROVE  /\ \A n \in 1..Len(committed[c]) :
                 n \in 1..Len(committed'[c]) /\ committed'[c][n] = committed[c][n]
           /\ WriteTxn(c) => committed'[c] = Append(committed[c], commit_epoch[c])
<1>1. committed \in [Cores -> Seq(Nat)] /\ committed[c] \in Seq(Nat) /\ commit_epoch[c] \in Nat
  BY LogTyped DEF LogTypes, CoreTypes
<1>2. CASE WriteTxn(c)
  <2>1. committed'[c] = Append(committed[c], commit_epoch[c])
    BY <1>1, <1>2 DEF WriteTxn
  <2> QED
    BY <1>1, <2>1, AppendProperties
<1>3. CASE ~WriteTxn(c)
  <2>1. committed'[c] = committed[c]
    <3>1. CASE UNCHANGED committed
      BY <3>1
    <3>2. CASE \E b \in Cores : WriteTxn(b)
      BY <1>1, <1>3, <3>2 DEF WriteTxn
    <3>3. (\E b \in Cores : WriteTxn(b)) \/ UNCHANGED committed
      <4>1. Clock \/ Persister \/ UNCHANGED logvars => UNCHANGED committed
        BY DEF Clock, Persister, PersisterStart, FirstPeek, FirstPeekDone, LockCore, LockFails,
              SecondPeekDone, AdvanceCore, CountCore, PersisterDone, worker, logvars
      <4>2. ASSUME NEW l \in Loggers, Writer(l) PROVE UNCHANGED committed
        BY <4>2 DEF Writer, WriterStart, Schedule, NothingToWrite, Writev, LoadEpoch, StoreEpoch,
              ReturnBuffer, NextCore, WriterDone, worker
      <4>3. ASSUME NEW b \in Cores, Core(b) PROVE WriteTxn(b) \/ UNCHANGED committed
        BY <4>3 DEF Core, GenCommitTid, PushBuffer, ThreadEnd, worker
      <4> QED
        BY <4>1, <4>2, <4>3 DEF LogNext
    <3> QED
      BY <3>1, <3>2, <3>3
  <2> QED
    BY <1>3, <2>1
<1> QED
  BY <1>2, <1>3

LEMMA NextHonest ==
    ASSUME LogTypes, HonestBuffers, [LogNext]_logvars PROVE HonestBuffers'
<1> SUFFICES ASSUME NEW c \in Cores, NEW px \in Held(c)' PROVE Honest(c, px)'
  BY DEF HonestBuffers
<1>1. /\ \A n \in 1..Len(committed[c]) :
            n \in 1..Len(committed'[c]) /\ committed'[c][n] = committed[c][n]
      /\ WriteTxn(c) => committed'[c] = Append(committed[c], commit_epoch[c])
  BY CommittedKept
<1>2. \A py \in Held(c) : Honest(c, py)
  BY DEF HonestBuffers
<1> SUFFICES ASSUME NEW i \in 1..Len(px.txns)
             PROVE  /\ px.txns[i] \in 1..Len(committed'[c])
                    /\ committed'[c][px.txns[i]] = px.epoch
  BY Zenon DEF Honest
<1>3. CASE SameData(px, EmptyBuffer)
  <2>1. px.txns = <<>>
    BY <1>3, AnEmptyBuffer DEF SameData
  <2> QED
    BY <2>1
<1>4. ASSUME NEW py \in Held(c), SameData(px, py) PROVE px.txns[i] \in 1..Len(committed'[c])
                    /\ committed'[c][px.txns[i]] = px.epoch
  <2>1. i \in 1..Len(py.txns) /\ Honest(c, py) /\ px.txns[i] = py.txns[i] /\ px.epoch = py.epoch
    BY <1>2, <1>4 DEF SameData
  <2>2. px.txns[i] \in 1..Len(committed[c]) /\ committed[c][px.txns[i]] = px.epoch
    BY <2>1 DEF Honest
  <2> QED
    BY <1>1, <2>2
<1>5. CASE Extended(c, px)
  <2>1. PICK py \in Held(c) :
            /\ WriteTxn(c) /\ can_hold_tid(py, commit_epoch[c])
            /\ py.txns \in Seq(Nat)
            /\ px.txns = Append(py.txns, Len(committed[c]) + 1) /\ px.epoch = commit_epoch[c]
    BY <1>5 DEF Extended
  <2>2. committed[c] \in Seq(Nat) /\ Len(committed[c]) + 1 \in Nat /\ commit_epoch[c] \in Nat
    BY LogTyped DEF LogTypes, CoreTypes
  <2>3. /\ Len(px.txns) = Len(py.txns) + 1 /\ Len(py.txns) \in Nat
        /\ \A j \in 1..Len(py.txns) : px.txns[j] = py.txns[j]
        /\ px.txns[Len(py.txns) + 1] = Len(committed[c]) + 1
    BY <2>1, <2>2, AppendProperties
  <2>4. /\ Len(committed'[c]) = Len(committed[c]) + 1
        /\ committed'[c][Len(committed[c]) + 1] = commit_epoch[c]
    BY <1>1, <2>1, <2>2, AppendProperties
  <2>5. CASE i = Len(py.txns) + 1
    <3>1. px.txns[i] = Len(committed[c]) + 1
      BY <2>3, <2>5
    <3> QED
      BY <2>1, <2>2, <2>4, <3>1
  <2>6. CASE i # Len(py.txns) + 1
    <3>1. i \in 1..Len(py.txns) /\ px.txns[i] = py.txns[i]
      BY <2>3, <2>6
    <3>2. px.txns[i] \in 1..Len(committed[c]) /\ committed[c][px.txns[i]] = py.epoch
      BY <1>2, <3>1 DEF Honest
    <3>3. py.epoch = commit_epoch[c]
      <4>1. py.txns # <<>>
        BY <2>3, <3>1
      <4> QED
        BY <2>1, <4>1 DEF can_hold_tid
    <3> QED
      BY <1>1, <2>1, <3>2, <3>3
  <2> QED
    BY <2>5, <2>6
<1> QED
  BY <1>3, <1>4, <1>5, AllCome DEF Comes

-----------------------------------------------------------------------------
(* No core commits into the past.                                          *)

LEMMA PastKept ==
    ASSUME LogTypes, CommitsPresent, [LogNext]_logvars, NEW c \in Cores, NEW e \in Int, Past(c, e)
    PROVE  Past(c, e)'
<1>1. /\ now \in Nat /\ now' \in Nat /\ now <= now'
      /\ wk \in [Cores -> {"idle", "log", "end"}] /\ commit_epoch \in [Cores -> Nat]
  <2>1. now \in Nat /\ wk \in [Cores -> {"idle", "log", "end"}] /\ commit_epoch \in [Cores -> Nat]
    BY DEF LogTypes, ClockTypes, CoreTypes
  <2>2. now' = now \/ now' = now + 1
    <3>1. Clock => now' = now \/ now' = now + 1
      BY DEF Clock, Advance, DeclareOver, Start, End
    <3>2. Persister \/ UNCHANGED logvars => now' = now
      BY DEF Persister, PersisterStart, FirstPeek, FirstPeekDone, LockCore, LockFails,
            SecondPeekDone, AdvanceCore, CountCore, PersisterDone, vars, logvars
    <3>3. ASSUME NEW b \in Cores, Core(b) PROVE now' = now
      BY <3>3 DEF Core, GenCommitTid, WriteTxn, PushBuffer, ThreadEnd, vars
    <3>4. ASSUME NEW l \in Loggers, Writer(l) PROVE now' = now
      BY <3>4 DEF Writer, WriterStart, Schedule, NothingToWrite, Writev, LoadEpoch, StoreEpoch,
            ReturnBuffer, NextCore, WriterDone, vars
    <3> QED
      BY <3>1, <3>2, <3>3, <3>4 DEF LogNext
  <2> QED
    BY <2>1, <2>2
<1>2. \/ wk'[c] # "log"
      \/ wk[c] = "log" /\ commit_epoch'[c] = commit_epoch[c]
      \/ commit_epoch'[c] = now
  <2>1. CASE UNCHANGED <<wk, commit_epoch>>
    BY <2>1
  <2>2. ASSUME NEW b \in Cores, Core(b)
        PROVE  \/ wk'[c] # "log"
               \/ wk[c] = "log" /\ commit_epoch'[c] = commit_epoch[c]
               \/ commit_epoch'[c] = now
    <3>1. CASE b = c
      BY <1>1, <2>2, <3>1 DEF Core, GenCommitTid, WriteTxn, PushBuffer, ThreadEnd, worker
    <3>2. CASE b # c
      <4>1. wk'[c] = wk[c] /\ commit_epoch'[c] = commit_epoch[c]
        BY <1>1, <2>2, <3>2 DEF Core, GenCommitTid, WriteTxn, PushBuffer, ThreadEnd, worker
      <4> QED
        BY <4>1
    <3> QED
      BY <3>1, <3>2
  <2>3. Clock \/ Persister \/ UNCHANGED logvars => UNCHANGED <<wk, commit_epoch>>
    BY DEF Clock, Persister, PersisterStart, FirstPeek, FirstPeekDone, LockCore, LockFails,
          SecondPeekDone, AdvanceCore, CountCore, PersisterDone, worker, logvars
  <2>4. ASSUME NEW l \in Loggers, Writer(l) PROVE UNCHANGED <<wk, commit_epoch>>
    BY <2>4 DEF Writer, WriterStart, Schedule, NothingToWrite, Writev, LoadEpoch, StoreEpoch,
          ReturnBuffer, NextCore, WriterDone, worker
  <2> QED
    BY <2>1, <2>2, <2>3, <2>4 DEF LogNext
<1>3. commit_epoch'[c] = now => e < commit_epoch'[c]
  BY DEF Past
<1>4. e < now'
  BY <1>1 DEF Past
<1> QED
  BY <1>2, <1>3, <1>4, Zenon DEF Past

LEMMA NextBuffersPast ==
    ASSUME LogTypes, CommitsPresent, BuffersPast, [LogNext]_logvars PROVE BuffersPast'
<1> SUFFICES ASSUME NEW c \in Cores, NEW px \in Held(c)' PROVE Past(c, PrefixOf(px))'
  BY DEF BuffersPast
<1>0. LogTypes'
  BY NextTypes
<1>1. CASE SameData(px, EmptyBuffer)
  <2>1. PrefixOf(px) = -1
    BY <1>1, AnEmptyBuffer DEF SameData, PrefixOf
  <2>2. now' \in Nat /\ commit_epoch'[c] \in Nat
    BY <1>0 DEF LogTypes, ClockTypes, CoreTypes
  <2>3. -1 < now' /\ -1 < commit_epoch'[c]
    BY <2>2
  <2> QED
    BY <2>1, <2>3, Zenon DEF Past
<1>2. ASSUME NEW py \in Held(c), SameData(px, py) PROVE Past(c, PrefixOf(px))'
  <2>1. py \in Buffers /\ Past(c, PrefixOf(py))
    <3>1. all_buffers[c] \in Seq(Buffers) /\ persist_buffers[c] \in Seq(Buffers)
      BY LogTyped
    <3> QED
      BY <3>1, ElementOfSeq DEF Held, BuffersPast
  <2>2. PrefixOf(px) = PrefixOf(py) /\ PrefixOf(py) \in Int
    BY <1>2, <2>1 DEF PrefixOf, SameData, Buffers
  <2>3. PICK e \in Int : e = PrefixOf(py)
    BY <2>2
  <2>4. Past(c, e)'
    BY <2>1, <2>3, PastKept
  <2> QED
    BY <2>2, <2>3, <2>4, Zenon DEF Past
<1>3. CASE Extended(c, px)
  <2>1. WriteTxn(c) /\ px.epoch = commit_epoch[c]
    BY <1>3 DEF Extended
  <2>2. wk'[c] # "log" /\ now' = now /\ wk[c] = "log"
    BY <2>1 DEF WriteTxn, vars, LogTypes, CoreTypes
  <2>3. commit_epoch[c] <= now /\ now \in Nat /\ commit_epoch[c] \in Nat
    BY <2>2 DEF CommitsPresent, LogTypes, ClockTypes, CoreTypes
  <2>4. PrefixOf(px) < now'
    BY <2>1, <2>2, <2>3 DEF PrefixOf
  <2> QED
    BY <2>2, <2>4, Zenon DEF Past
<1> QED
  BY <1>1, <1>2, <1>3, AllCome DEF Comes

LEMMA NextPrefixesPast ==
    ASSUME LogTypes, CommitsPresent, BuffersPast, PrefixesPast, [LogNext]_logvars
    PROVE  PrefixesPast'
<1> SUFFICES ASSUME NEW c \in Cores, NEW s \in {0, 1} PROVE Past(c, epoch_prefixes[c][s])'
  BY DEF PrefixesPast
<1>1. epoch_prefixes \in [Cores -> [{0, 1} -> Int]] /\ epoch_prefixes[c][s] \in Int
  BY DEF LogTypes, MarkTypes
<1>2. Past(c, epoch_prefixes[c][s])
  BY DEF PrefixesPast
<1>3. ASSUME NEW e \in Int, Past(c, e), epoch_prefixes'[c][s] = e
      PROVE  Past(c, epoch_prefixes[c][s])'
  <2>1. Past(c, e)'
    BY <1>3, PastKept
  <2> QED
    BY <1>3, <2>1, Zenon DEF Past
<1>4. CASE epoch_prefixes'[c][s] = epoch_prefixes[c][s]
  <2>1. PICK e \in Int : e = epoch_prefixes[c][s]
    BY <1>1
  <2> QED
    BY <1>2, <1>3, <1>4, <2>1
<1>5. ASSUME NEW l \in Loggers, Schedule(l) PROVE Past(c, epoch_prefixes[c][s])'
  <2> DEFINE b == Min(left[l])
  <2>0. b \in Cores /\ sense[l] \in {0, 1}
    BY <1>5, TurnOf DEF Schedule, LogTypes, LoopTypes
  <2>1. CASE b # c \/ sense[l] # s
    <3>1. epoch_prefixes'[c][s] = epoch_prefixes[c][s]
      BY <1>1, <1>5, <2>0, <2>1 DEF Schedule
    <3> QED
      BY <1>4, <3>1
  <2>2. CASE b = c /\ sense[l] = s
    <3>1. persist_buffers[c] \in Seq(Buffers) /\ Len(persist_buffers[c]) \in Nat
      BY LogTyped
    <3>2. PICK n \in 0..Len(persist_buffers[c]) : n = Max(Schedulable(l, c))
      BY Chosen
    <3>3. epoch_prefixes'[c][s] = IF n = 0 THEN epoch_prefixes[c][s]
                                           ELSE PrefixOf(persist_buffers[c][n])
      BY <1>1, <1>5, <2>2, <3>2 DEF Schedule
    <3>4. CASE n = 0
      BY <1>4, <3>3, <3>4
    <3>5. CASE n # 0
      <4>1. n \in 1..Len(persist_buffers[c])
        BY <3>1, <3>5
      <4>2. persist_buffers[c][n] \in Held(c) /\ persist_buffers[c][n] \in Buffers
        BY <3>1, <4>1, ElementOfSeq DEF Held
      <4>3. Past(c, PrefixOf(persist_buffers[c][n])) /\ PrefixOf(persist_buffers[c][n]) \in Int
        BY <4>2 DEF BuffersPast, PrefixOf, Buffers
      <4>4. PICK e \in Int : e = PrefixOf(persist_buffers[c][n])
        BY <4>3
      <4> QED
        BY <1>3, <3>3, <3>5, <4>3, <4>4
    <3> QED
      BY <3>4, <3>5
  <2> QED
    BY <2>1, <2>2
<1>6. (\E l \in Loggers : Schedule(l)) \/ UNCHANGED epoch_prefixes
  <2>1. Clock \/ Persister \/ UNCHANGED logvars => UNCHANGED epoch_prefixes
    BY DEF Clock, Persister, PersisterStart, FirstPeek, FirstPeekDone, LockCore, LockFails,
          SecondPeekDone, AdvanceCore, CountCore, PersisterDone, logger, logvars
  <2>2. ASSUME NEW l \in Loggers, Writer(l) PROVE Schedule(l) \/ UNCHANGED epoch_prefixes
    BY <2>2 DEF Writer, WriterStart, NothingToWrite, Writev, LoadEpoch, StoreEpoch,
          ReturnBuffer, NextCore, WriterDone, logger
  <2>3. ASSUME NEW b \in Cores, Core(b) PROVE UNCHANGED epoch_prefixes
    BY <2>3 DEF Core, GenCommitTid, WriteTxn, PushBuffer, ThreadEnd, logger
  <2> QED
    BY <2>1, <2>2, <2>3 DEF LogNext
<1> QED
  BY <1>4, <1>5, <1>6

(* Outside of the persister, its variables stay.                           *)
LEMMA PersisterRests ==
    ASSUME [LogNext]_logvars, ~Persister
    PROVE  UNCHANGED <<ppc, pleft, best_tick_inc, min_so_far, system_sync_epoch>>
<1>1. Clock \/ UNCHANGED logvars => UNCHANGED persister
  BY DEF Clock, logvars
<1>2. ASSUME NEW l \in Loggers, Writer(l)
      PROVE  UNCHANGED <<ppc, pleft, best_tick_inc, min_so_far, system_sync_epoch>>
  BY <1>2 DEF Writer, WriterStart, Schedule, NothingToWrite, Writev, LoadEpoch, StoreEpoch,
        ReturnBuffer, NextCore, WriterDone, persister
<1>3. ASSUME NEW c \in Cores, Core(c) PROVE UNCHANGED persister
  BY <1>3 DEF Core, GenCommitTid, WriteTxn, PushBuffer, ThreadEnd
<1> QED
  BY <1>1, <1>2, <1>3 DEF LogNext, persister

LEMMA MinOfTwo ==
    ASSUME NEW x \in Int, NEW y \in Int
    PROVE  Min({x, y}) \in Int /\ Min({x, y}) <= x /\ Min({x, y}) <= y
<1>1. \E m \in {x, y} : \A z \in {x, y} : m <= z
  OBVIOUS
<1>2. Min({x, y}) \in {x, y} /\ \A z \in {x, y} : Min({x, y}) <= z
  BY <1>1 DEF Min
<1> QED
  BY <1>2

LEMMA NextSyncsPast ==
    ASSUME LogTypes, PrefixesPast, SyncsPast, CommitsPresent, PersisterWaits, [LogNext]_logvars
    PROVE  SyncsPast'
<1> SUFFICES ASSUME NEW c \in Cores
             PROVE  /\ Past(c, epochs[c])' /\ Past(c, system_sync_epoch)'
                    /\ (ppc # "sleep" /\ c \notin pleft => Past(c, min_so_far))'
  BY DEF SyncsPast
<1>1. /\ epochs \in [Cores -> Int] /\ epochs[c] \in Int /\ system_sync_epoch \in Int
      /\ min_so_far \in Int /\ best_tick_inc \in Int
      /\ now \in Nat /\ wk \in [Cores -> {"idle", "log", "end"}] /\ commit_epoch[c] \in Nat
  BY DEF LogTypes, MarkTypes, PersisterTypes, ClockTypes, CoreTypes
<1>2. /\ Past(c, epochs[c]) /\ Past(c, system_sync_epoch)
      /\ ppc # "sleep" /\ c \notin pleft => Past(c, min_so_far)
  BY DEF SyncsPast
<1>3. ASSUME NEW e \in Int, Past(c, e) PROVE Past(c, e)'
  BY <1>3, PastKept
<1>4. ASSUME NEW e \in Int, NEW f \in Int, Past(c, e), f <= e PROVE Past(c, f)
  BY <1>1, <1>4 DEF Past
<1>5. \A x \in Int : Past(c, x) => \E e \in Int : e = x /\ Past(c, e)
  OBVIOUS
(* The tick that an idle core is moved to.                                 *)
<1>6. ASSUME ppc = "advance", pcur = c PROVE Past(c, best_tick_inc)
  <2>1. best_tick_inc < now /\ region[c] = None
    BY <1>6 DEF PersisterWaits
  <2>2. wk[c] # "log"
    BY <2>1 DEF CommitsPresent
  <2> QED
    BY <2>1, <2>2 DEF Past
<1>7. Past(c, epochs[c])'
  <2>1. CASE epochs'[c] = epochs[c]
    <3>1. PICK e \in Int : e = epochs[c]
      BY <1>1
    <3>2. Past(c, e)'
      BY <1>2, <1>3, <3>1
    <3> QED
      BY <2>1, <3>1, <3>2, Zenon DEF Past
  <2>2. CASE AdvanceCore /\ pcur = c
    <3>1. epochs'[c] = best_tick_inc /\ Past(c, best_tick_inc)
      BY <1>1, <1>6, <2>2 DEF AdvanceCore
    <3>2. PICK e \in Int : e = best_tick_inc
      BY <1>1
    <3>3. Past(c, e)'
      BY <1>3, <3>1, <3>2
    <3> QED
      BY <3>1, <3>2, <3>3, Zenon DEF Past
  <2>3. ASSUME NEW l \in Loggers, StoreEpoch(l), Min(left[l]) = c PROVE Past(c, epochs[c])'
    <3>1. sense[l] \in {0, 1} /\ epoch_prefixes[c][sense[l]] \in Int
      BY DEF LogTypes, LoopTypes, MarkTypes
    <3>2. PICK e \in Int : e = epoch_prefixes[c][sense[l]]
      BY <3>1
    <3>3. Past(c, e)
      BY <3>1, <3>2 DEF PrefixesPast
    <3>4. epochs'[c] = e \/ epochs'[c] = epochs[c]
      BY <1>1, <2>3, <3>2 DEF StoreEpoch
    <3>5. Past(c, e)'
      BY <1>3, <3>3
    <3> QED
      BY <2>1, <3>4, <3>5, Zenon DEF Past
  <2>4. \/ epochs'[c] = epochs[c]
        \/ AdvanceCore /\ pcur = c
        \/ \E l \in Loggers : StoreEpoch(l) /\ Min(left[l]) = c
    <3>1. Clock \/ UNCHANGED logvars => UNCHANGED epochs
      BY DEF Clock, logvars
    <3>2. Persister /\ ~AdvanceCore => UNCHANGED epochs
      BY DEF Persister, PersisterStart, FirstPeek, FirstPeekDone, LockCore, LockFails,
            SecondPeekDone, CountCore, PersisterDone
    <3>3. ASSUME NEW l \in Loggers, Writer(l) PROVE StoreEpoch(l) \/ UNCHANGED epochs
      BY <3>3 DEF Writer, WriterStart, Schedule, NothingToWrite, Writev, LoadEpoch,
            ReturnBuffer, NextCore, WriterDone
    <3>4. ASSUME NEW b \in Cores, Core(b) PROVE UNCHANGED epochs
      BY <3>4 DEF Core, GenCommitTid, WriteTxn, PushBuffer, ThreadEnd
    <3>5. AdvanceCore => epochs'[c] = epochs[c] \/ pcur = c
      BY <1>1 DEF AdvanceCore
    <3>6. ASSUME NEW l \in Loggers, StoreEpoch(l) PROVE epochs'[c] = epochs[c] \/ Min(left[l]) = c
      BY <1>1, <3>6 DEF StoreEpoch
    <3>7. CASE UNCHANGED epochs
      BY <3>7
    <3>8. UNCHANGED epochs \/ AdvanceCore \/ \E l \in Loggers : StoreEpoch(l)
      BY <3>1, <3>2, <3>3, <3>4 DEF LogNext
    <3> QED
      BY <3>5, <3>6, <3>7, <3>8
  <2> QED
    BY <2>1, <2>2, <2>3, <2>4
<1>8. Past(c, system_sync_epoch)'
  <2>1. CASE UNCHANGED system_sync_epoch
    <3>1. PICK e \in Int : e = system_sync_epoch
      BY <1>1
    <3>2. Past(c, e)'
      BY <1>2, <1>3, <3>1
    <3> QED
      BY <2>1, <3>1, <3>2, Zenon DEF Past
  <2>2. CASE PersisterDone
    <3>1. system_sync_epoch' = min_so_far /\ Past(c, min_so_far)
      BY <1>2, <2>2 DEF PersisterDone
    <3>2. PICK e \in Int : e = min_so_far
      BY <1>1
    <3>3. Past(c, e)'
      BY <1>3, <3>1, <3>2
    <3> QED
      BY <3>1, <3>2, <3>3, Zenon DEF Past
  <2>3. UNCHANGED system_sync_epoch \/ PersisterDone
    <3>1. Persister => UNCHANGED system_sync_epoch \/ PersisterDone
      BY DEF Persister, PersisterStart, FirstPeek, FirstPeekDone, LockCore, LockFails,
            SecondPeekDone, AdvanceCore, CountCore
    <3> QED
      BY <3>1, PersisterRests
  <2> QED
    BY <2>1, <2>2, <2>3
<1>9. ASSUME ppc' # "sleep", c \notin pleft' PROVE Past(c, min_so_far)'
  <2>1. ASSUME ppc # "sleep", c \notin pleft, UNCHANGED min_so_far PROVE Past(c, min_so_far)'
    <3>1. PICK e \in Int : e = min_so_far
      BY <1>1
    <3>2. Past(c, e)'
      BY <1>2, <1>3, <2>1, <3>1
    <3> QED
      BY <2>1, <3>1, <3>2, Zenon DEF Past
  <2>2. ASSUME NEW e \in Int, CoreDone(e), ppc # "sleep", pcur = c => Past(c, e)
        PROVE  Past(c, min_so_far)'
    <3>1. min_so_far' = Min({min_so_far, e}) /\ pleft' = pleft \ {pcur}
      BY <2>2 DEF CoreDone
    <3>2. PICK f \in Int : f = Min({min_so_far, e}) /\ f <= min_so_far /\ f <= e
      BY <1>1, MinOfTwo
    <3>3. CASE c \notin pleft
      <4>1. Past(c, f)
        BY <1>1, <1>2, <1>4, <2>2, <3>2, <3>3
      <4>2. Past(c, f)'
        BY <1>3, <4>1
      <4> QED
        BY <3>1, <3>2, <4>2, Zenon DEF Past
    <3>4. CASE c \in pleft
      <4>1. pcur = c
        BY <1>9, <3>1, <3>4
      <4>2. Past(c, f)
        BY <1>4, <2>2, <3>2, <4>1
      <4>3. Past(c, f)'
        BY <1>3, <4>2
      <4> QED
        BY <3>1, <3>2, <4>3, Zenon DEF Past
    <3> QED
      BY <3>3, <3>4
  <2>3. CASE ~Persister
    BY <1>9, <2>1, <2>3, PersisterRests
  <2>4. CASE PersisterStart
    BY <1>9, <2>4 DEF PersisterStart
  <2>5. CASE FirstPeek \/ FirstPeekDone \/ LockCore \/ LockFails \/ SecondPeekDone
    BY <1>9, <2>1, <2>5 DEF FirstPeek, FirstPeekDone, LockCore, LockFails, SecondPeekDone
  <2>6. CASE AdvanceCore
    <3>1. PICK e \in Int : e = best_tick_inc
      BY <1>1
    <3>2. CoreDone(e) /\ ppc = "advance" /\ (pcur = c => Past(c, e))
      BY <1>6, <2>6, <3>1 DEF AdvanceCore
    <3> QED
      BY <2>2, <3>2
  <2>7. CASE CountCore
    <3>1. pcur \in Cores
      BY <2>7, AtCore DEF CountCore, pcur, LogTypes, PersisterTypes, Visiting
    <3>2. PICK e \in Int : e = epochs[pcur]
      BY <1>1, <3>1
    <3>3. CoreDone(e) /\ ppc = "load" /\ (pcur = c => Past(c, e))
      BY <1>2, <2>7, <3>2 DEF CountCore
    <3> QED
      BY <2>2, <3>3
  <2>8. CASE PersisterDone
    BY <1>9, <2>8 DEF PersisterDone, Goto
  <2> QED
    BY <2>3, <2>4, <2>5, <2>6, <2>7, <2>8 DEF Persister
<1> QED
  BY <1>7, <1>8, <1>9

(* A core commits only in a region, whose start the persister holds up.    *)
LEMMA NextCommitsPresent ==
    ASSUME LogTypes, CommitsPresent, [LogNext]_logvars PROVE CommitsPresent'
<1> SUFFICES ASSUME NEW c \in Cores, wk'[c] = "log"
             PROVE  region'[c] # None /\ commit_epoch'[c] <= now'
  BY DEF CommitsPresent
<1>1. /\ now \in Nat \ {0} /\ region \in [Cores -> Nat]
      /\ wk \in [Cores -> {"idle", "log", "end"}] /\ commit_epoch \in [Cores -> Nat]
  BY DEF LogTypes, ClockTypes, CoreTypes
<1>2. wk[c] = "log" => region[c] # None /\ commit_epoch[c] <= now
  BY DEF CommitsPresent
<1>3. CASE UNCHANGED <<vars, wk, commit_epoch>>
  BY <1>2, <1>3 DEF vars
<1>4. CASE Clock
  <2>1. UNCHANGED <<wk, commit_epoch>>
    BY <1>4 DEF Clock, worker
  <2>2. region'[c] # None
    BY <1>1, <1>2, <1>4, <2>1 DEF Clock, Advance, DeclareOver, Start, End, None
  <2>3. now' = now \/ now' = now + 1
    BY <1>4 DEF Clock, Advance, DeclareOver, Start, End
  <2> QED
    BY <1>1, <1>2, <2>1, <2>2, <2>3
<1>5. ASSUME NEW b \in Cores, Core(b) PROVE region'[c] # None /\ commit_epoch'[c] <= now'
  <2>1. UNCHANGED <<now, region>>
    BY <1>5 DEF Core, GenCommitTid, WriteTxn, PushBuffer, ThreadEnd, vars
  <2>2. CASE GenCommitTid(b)
    BY <1>1, <1>2, <2>1, <2>2 DEF GenCommitTid
  <2>3. CASE PushBuffer(b)
    BY <1>2, <2>1, <2>3 DEF PushBuffer, worker
  <2>4. CASE WriteTxn(b)
    BY <1>1, <1>2, <2>1, <2>4 DEF WriteTxn
  <2>5. CASE ThreadEnd(b)
    BY <1>1, <1>2, <2>1, <2>5 DEF ThreadEnd
  <2> QED
    BY <1>5, <2>2, <2>3, <2>4, <2>5 DEF Core
<1>6. Persister \/ UNCHANGED logvars => UNCHANGED <<vars, wk, commit_epoch>>
  BY DEF Persister, PersisterStart, FirstPeek, FirstPeekDone, LockCore, LockFails,
        SecondPeekDone, AdvanceCore, CountCore, PersisterDone, worker, logvars
<1>7. ASSUME NEW l \in Loggers, Writer(l) PROVE UNCHANGED <<vars, wk, commit_epoch>>
  BY <1>7 DEF Writer, WriterStart, Schedule, NothingToWrite, Writev, LoadEpoch, StoreEpoch,
        ReturnBuffer, NextCore, WriterDone, worker
<1> QED
  BY <1>3, <1>4, <1>5, <1>6, <1>7 DEF LogNext

LEMMA NextPersisterWaits ==
    ASSUME LogTypes, PersisterWaits, [LogNext]_logvars PROVE PersisterWaits'
<1>1. /\ now \in Nat \ {0} /\ region \in [Cores -> Nat] /\ best_tick_inc \in Int
  BY DEF LogTypes, ClockTypes, PersisterTypes
<1>2. CASE Persister
  <2>1. UNCHANGED <<now, region>>
    BY <1>2 DEF Persister, PersisterStart, FirstPeek, FirstPeekDone, LockCore, LockFails,
          SecondPeekDone, AdvanceCore, CountCore, PersisterDone, vars
  <2>2. CASE PersisterStart
    BY <1>1, <2>1, <2>2 DEF PersisterStart, PersisterWaits
  <2>3. CASE LockCore
    BY <2>1, <2>3 DEF LockCore, Goto, PersisterWaits, pcur
  <2>4. CASE SecondPeekDone
    BY <2>1, <2>4 DEF SecondPeekDone, Goto, PersisterWaits, pcur
  <2>5. CASE FirstPeek \/ FirstPeekDone \/ LockFails
    BY <2>1, <2>5 DEF FirstPeek, FirstPeekDone, LockFails, Goto, PersisterWaits
  <2>6. CASE AdvanceCore \/ CountCore
    BY <2>1, <2>6 DEF AdvanceCore, CountCore, CoreDone, Goto, PersisterWaits
  <2>7. CASE PersisterDone
    BY <2>1, <2>7 DEF PersisterDone, Goto, PersisterWaits
  <2> QED
    BY <1>2, <2>2, <2>3, <2>4, <2>5, <2>6, <2>7 DEF Persister
<1>3. CASE ~Persister
  <2>1. UNCHANGED <<ppc, pleft, best_tick_inc>>
    BY <1>3, PersisterRests
  <2>2. CASE Clock
    <3>1. now' = now \/ now' = now + 1
      BY <2>2 DEF Clock, Advance, DeclareOver, Start, End
    <3>2. ASSUME ppc \in {"peek2", "advance"} PROVE region'[pcur] = None
      <4>1. region[pcur] = None
        BY <3>2 DEF PersisterWaits
      <4>2. CASE UNCHANGED region
        BY <4>1, <4>2
      <4>3. ASSUME NEW c \in Cores, wk[c] # "end" /\ ~PersisterHolds(c) /\ Start(c)
            PROVE  region'[pcur] = None
        BY <3>2, <4>1, <4>3 DEF PersisterHolds, Start
      <4>4. ASSUME NEW c \in Cores, End(c) PROVE region'[pcur] = None
        BY <1>1, <4>1, <4>4 DEF End
      <4> QED
        BY <2>2, <4>2, <4>3, <4>4 DEF Clock, Advance, DeclareOver
    <3> QED
      BY <1>1, <2>1, <3>1, <3>2 DEF PersisterWaits, pcur
  <2>3. CASE UNCHANGED <<now, region>>
    BY <2>1, <2>3 DEF PersisterWaits, pcur
  <2>4. Clock \/ UNCHANGED <<now, region>>
    <3>1. ASSUME NEW c \in Cores, Core(c) PROVE UNCHANGED <<now, region>>
      BY <3>1 DEF Core, GenCommitTid, WriteTxn, PushBuffer, ThreadEnd, vars
    <3>2. ASSUME NEW l \in Loggers, Writer(l) PROVE UNCHANGED <<now, region>>
      BY <3>2 DEF Writer, WriterStart, Schedule, NothingToWrite, Writev, LoadEpoch, StoreEpoch,
            ReturnBuffer, NextCore, WriterDone, vars
    <3> QED
      BY <1>3, <3>1, <3>2 DEF LogNext, logvars, vars
  <2> QED
    BY <2>2, <2>3, <2>4
<1> QED
  BY <1>2, <1>3

-----------------------------------------------------------------------------
(* The results.                                                            *)

LEMMA InitPast ==
    ASSUME LogInit PROVE HonestBuffers /\ AllPast
<1>1. \A c \in Cores : \A px \in Held(c) : px = EmptyBuffer
  <2> TAKE c \in Cores
  <2> DEFINE a == [i \in 1..g_perthread_buffers |-> EmptyBuffer]
  <2>1. all_buffers[c] = a /\ persist_buffers[c] = <<>>
    BY DEF LogInit
  <2>2. Len(a) = g_perthread_buffers /\ Len(<<>>) = 0
    BY Assumed
  <2>3. \A i \in 1..Len(a) : a[i] = EmptyBuffer
    BY <2>2
  <2>4. \A i \in 1..Len(<<>>) : FALSE
    BY <2>2
  <2> QED
    BY <2>1, <2>3, <2>4 DEF Held
<1>2. Len(EmptyBuffer.txns) = 0 /\ PrefixOf(EmptyBuffer) = -1
  BY AnEmptyBuffer DEF PrefixOf
<1>3. HonestBuffers
  BY <1>1, <1>2 DEF HonestBuffers, Honest
<1>4. now = 1 /\ \A c \in Cores : wk[c] # "log"
  BY DEF LogInit, Init
<1>5. ASSUME NEW c \in Cores PROVE Past(c, 0) /\ Past(c, -1)
  <2>1. 0 < now /\ -1 < now
    BY <1>4
  <2> QED
    BY <1>4, <2>1 DEF Past
<1>6. BuffersPast
  BY <1>1, <1>2, <1>5 DEF BuffersPast
<1>7. PrefixesPast /\ SyncsPast
  BY <1>5 DEF LogInit, PrefixesPast, SyncsPast
<1>8. CommitsPresent /\ PersisterWaits
  BY <1>4 DEF LogInit, CommitsPresent, PersisterWaits
<1> QED
  BY <1>3, <1>6, <1>7, <1>8 DEF AllPast

(* The invariant is inductive.                                             *)
THEOREM LoggerInvariant == LogSpec => []LogInv
<1>1. LogInit => LogInv
  BY InitTypes, InitPast, InitInLog DEF LogInv
<1>2. LogInv /\ [LogNext]_logvars => LogInv'
  <2> SUFFICES ASSUME LogInv, [LogNext]_logvars PROVE LogInv'
    OBVIOUS
  <2>1. LogTypes /\ HonestBuffers /\ AllPast /\ AllInLog
    BY DEF LogInv
  <2>2. LogTypes'
    BY <2>1, NextTypes
  <2>3. HonestBuffers'
    BY <2>1, NextHonest
  <2>4. AllPast'
    BY <2>1, NextBuffersPast, NextPrefixesPast, NextSyncsPast, NextCommitsPresent,
       NextPersisterWaits DEF AllPast
  <2>5. AllInLog'
    BY <2>1, NextInLog
  <2> QED
    BY <2>2, <2>3, <2>4, <2>5 DEF LogInv
<1> QED
  BY <1>1, <1>2, PTL DEF LogSpec

(* A core's transactions reach the disk in commit order: what is written,  *)
(* what is pushed and what the core still holds are all of them, each once *)
(* (writer and on_tid_finish in txn_ic3_impl).                             *)
THEOREM InOrder == LogSpec => []LogInOrder
<1>1. LogInv => LogInOrder
  <2> SUFFICES ASSUME LogInv, NEW c \in Cores
               PROVE  disk[c] \o Contents(Unwritten(c)) \o Contents(all_buffers[c])
                        = [n \in 1..Len(committed[c]) |-> n]
    BY DEF LogInOrder
  <2>1. LogTypes /\ AllInLog
    BY DEF LogInv
  <2>2. PICK n \in Nat : InLog(c, n)
    BY <2>1 DEF AllInLog
  <2> DEFINE s == persist_buffers[c]
  <2>3. s \in Seq(Buffers)
    BY <2>1, LogTyped
  <2>4. /\ n \in 0..Len(s) /\ \A i \in 1..Len(s) : s[i].io_scheduled <=> i <= n
    BY <2>2 DEF InLog, Goes
  <2>5. ScheduledTo(c) = n
    BY <2>3, <2>4, ScheduledAre DEF ScheduledTo
  <2>6. Unwritten(c) = Rest(s, n, AtDisk(c))
    BY <2>5 DEF Unwritten, Rest, AtDisk, Writing
  <2> QED
    BY <2>2, <2>6 DEF InLog, Goes, Numbers
<1> QED
  BY <1>1, LoggerInvariant, PTL

(* A buffer's epoch, which the logger takes for that of everything in it,  *)
(* is that of each of its transactions (can_hold_tid).                     *)
THEOREM OneEpoch == LogSpec => []OneEpochPerBuffer
<1>1. LogInv => OneEpochPerBuffer
  <2> SUFFICES ASSUME LogInv, NEW c \in Cores,
                      NEW px \in ToSet(all_buffers[c] \o persist_buffers[c]),
                      NEW i \in DOMAIN px.txns
               PROVE  committed[c][px.txns[i]] = px.epoch
    BY DEF OneEpochPerBuffer
  <2> DEFINE a == all_buffers[c]
             s == persist_buffers[c]
             t == a \o s
  <2>1. a \in Seq(Buffers) /\ s \in Seq(Buffers)
    BY LogTyped DEF LogInv
  <2>2. /\ t \in Seq(Buffers) /\ Len(t) = Len(a) + Len(s)
        /\ \A j \in 1..(Len(a) + Len(s)) : t[j] = IF j <= Len(a) THEN a[j] ELSE s[j - Len(a)]
    BY <2>1, ConcatProperties
  <2>3. PICK j \in DOMAIN t : px = t[j]
    BY DEF ToSet
  <2>4. j \in 1..(Len(a) + Len(s)) /\ Len(a) \in Nat /\ Len(s) \in Nat
    BY <2>1, <2>2, <2>3, LenProperties
  <2> HIDE DEF t
  <2>5. px \in Held(c) /\ px \in Buffers
    <3>1. CASE j <= Len(a)
      <4>0. t[j] = a[j]
        BY <2>2, <2>4, <3>1
      <4>1. j \in 1..Len(a) /\ px = a[j]
        BY <2>3, <2>4, <3>1, <4>0
      <4> QED
        BY <2>1, <4>1, ElementOfSeq DEF Held
    <3>2. CASE ~(j <= Len(a))
      <4>0. t[j] = s[j - Len(a)]
        BY <2>2, <2>4, <3>2
      <4> DEFINE k == Len(a)
                 m == Len(s)
      <4>2. k \in Nat /\ m \in Nat /\ j \in 1..(k + m) /\ ~(j <= k)
        BY <2>4, <3>2
      <4> HIDE DEF k, m
      <4>3. j - k \in 1..m
        BY <4>2
      <4>1. j - Len(a) \in 1..Len(s) /\ px = s[j - Len(a)]
        BY <2>3, <4>0, <4>3 DEF k, m
      <4> QED
        BY <2>1, <4>1, ElementOfSeq DEF Held
    <3> QED
      BY <3>1, <3>2
  <2>6. i \in 1..Len(px.txns)
    BY <2>5 DEF Buffers
  <2> QED
    BY <2>5, <2>6 DEF LogInv, HonestBuffers, Honest
<1> QED
  BY <1>1, LoggerInvariant, PTL

(* No core commits into an epoch that its logger, or the persister, has    *)
(* declared durable, although the persister moves idle cores on            *)
(* (advance_system_sync_epoch).                                            *)
THEOREM LaterCommits == LogSpec => []CommitsAreLater
<1>1. LogInv => CommitsAreLater
  <2> SUFFICES ASSUME LogInv, NEW c \in Cores, wk[c] = "log"
               PROVE  commit_epoch[c] > epochs[c] /\ commit_epoch[c] > system_sync_epoch
    BY DEF CommitsAreLater
  <2>1. Past(c, epochs[c]) /\ Past(c, system_sync_epoch)
    BY DEF LogInv, AllPast, SyncsPast
  <2>2. commit_epoch[c] \in Int /\ epochs[c] \in Int /\ system_sync_epoch \in Int
    BY DEF LogInv, LogTypes, CoreTypes, MarkTypes, PersisterTypes
  <2> QED
    BY <2>1, <2>2 DEF Past
<1> QED
  BY <1>1, LoggerInvariant, PTL
=============================================================================
