----------------------------- MODULE FoldLemmas -----------------------------
(***************************************************************************)
(* Induction over sets of naturals, and what the folds and concatenations   *)
(* of the community modules compute. The provers cannot instantiate the     *)
(* induction theorems of the library, whose parameters are operators; a set *)
(* of naturals without a least element is as good, and it is first order.   *)
(***************************************************************************)
EXTENDS Integers, FiniteSetsExt, SequencesExt, FiniteSetTheorems, WellFoundedInduction, TLAPS

-----------------------------------------------------------------------------
(* Least and greatest elements.                                            *)

Less == OpToRel(<, Nat)
LEMMA LessIsLess == \A x, y \in Nat : x < y => <<x, y>> \in Less
  BY DEF OpToRel, Less

LEMMA HasLeast ==
    ASSUME NEW S, S \subseteq Nat, S # {}
    PROVE  \E x \in S : \A y \in S : x <= y
  <1>1. IsWellFoundedOn(Less, Nat)
    BY NatLessThanWellFounded DEF Less
  <1>2. PICK x \in S : \A y \in S : ~(<<y, x>> \in Less)
    BY <1>1, WFMin, Zenon
  <1>3. ASSUME NEW y \in S PROVE x <= y
    <2>1. x \in Nat /\ y \in Nat
      OBVIOUS
    <2>2. ~(y < x)
      BY <2>1, <1>2, LessIsLess, Zenon
    <2> QED
      BY <2>1, <2>2
  <1> QED
    BY <1>3

(* A bounded set of naturals has the greatest element that Max names.       *)
LEMMA MaxIsGreatest ==
    ASSUME NEW n \in Nat, NEW S \in SUBSET (0 .. n), S # {}
    PROVE  Max(S) \in S /\ \A y \in S : Max(S) >= y
  <1> DEFINE gaps == {n - x : x \in S}
  <1>1. gaps \subseteq Nat
    <2>1. \A x \in S : x \in 0 .. n
      OBVIOUS
    <2>2. \A x \in 0 .. n : n - x \in Nat
      OBVIOUS
    <2> QED
      BY <2>1, <2>2
  <1>2. gaps # {}
    OBVIOUS
  <1>3. PICK k \in gaps : \A y \in gaps : k <= y
    <2> HIDE DEF gaps
    <2> QED
      BY <1>1, <1>2, HasLeast
  <1>4. PICK x \in S : k = n - x
    OBVIOUS
  <1>5. \A y \in S : n - y \in gaps /\ y \in 0 .. n
    OBVIOUS
  <1> HIDE DEF gaps
  <1>6. \A y \in S : x >= y
    BY <1>3, <1>4, <1>5
  <1> QED
    BY <1>6 DEF Max

(* The induction principle: a set of naturals that has 0 and with a natural *)
(* the next has them all. An induction is an application of it to the set   *)
(* of the naturals for which the claim holds.                              *)
LEMMA Induction ==
    ASSUME NEW S, 0 \in S, \A n \in Nat : n \in S => n + 1 \in S
    PROVE  \A n \in Nat : n \in S
  <1> SUFFICES ASSUME \E n \in Nat : n \notin S PROVE FALSE
    OBVIOUS
  <1> DEFINE T == {n \in Nat : n \notin S}
  <1>1. PICK k \in T : \A y \in T : k <= y
    <2>1. T \subseteq Nat /\ T # {}
      OBVIOUS
    <2> HIDE DEF T
    <2> QED
      BY <2>1, HasLeast
  <1>2. k \in Nat /\ k # 0 /\ k \notin S
    OBVIOUS
  <1>3. k - 1 \in Nat /\ ~(k <= k - 1)
    BY <1>2
  <1>4. k - 1 \in S
    BY <1>1, <1>3
  <1> QED
    BY <1>2, <1>3, <1>4

-----------------------------------------------------------------------------
(* Folds. A fold of a sequence from the left runs over the sets of its      *)
(* first indices; F is the step, a function.                               *)

LEMMA InitialRanges ==
    ASSUME NEW n \in Nat
    PROVE  /\ Max(1 .. n + 1) = n + 1
           /\ (1 .. n + 1) \ {n + 1} = 1 .. n
           /\ \A t \in SUBSET (1 .. n + 1) : n + 1 \in t => Max(t) = n + 1
  <1>1. ASSUME NEW t \in SUBSET (1 .. n + 1), n + 1 \in t PROVE Max(t) = n + 1
    <2>1. t \in SUBSET (0 .. n + 1) /\ t # {} /\ n + 1 \in Nat
      BY <1>1
    <2>2. Max(t) \in t /\ Max(t) >= n + 1
      BY <1>1, <2>1, MaxIsGreatest, Zenon
    <2>3. Max(t) \in 1 .. n + 1
      BY <1>1, <2>2
    <2> QED
      BY <2>2, <2>3
  <1> QED
    BY <1>1

IsFold(g, F, base, s, n) ==
    \A t \in SUBSET (1 .. n) :
        g[t] = IF t = {} THEN base ELSE F[<<g[t \ {Max(t)}], s[Max(t)]>>]

LEMMA FoldExists ==
    ASSUME NEW V, NEW E, NEW F \in [V \X E -> V], NEW base \in V, NEW s \in Seq(E)
    PROVE  \E g \in [SUBSET (1 .. Len(s)) -> V] : IsFold(g, F, base, s, Len(s))
  <1> USE DEF IsFold
  <1> DEFINE Is(g, n) == IsFold(g, F, base, s, n)
             P(n) == n <= Len(s) => \E g \in [SUBSET (1 .. n) -> V] : Is(g, n)
  <1>1. P(0)
    <2> DEFINE g == [t \in SUBSET (1 .. 0) |-> base]
    <2>1. \A t \in SUBSET (1 .. 0) : t = {}
      OBVIOUS
    <2>2. g \in [SUBSET (1 .. 0) -> V] /\ Is(g, 0)
      BY <2>1
    <2> QED
      BY <2>2
  <1>2. ASSUME NEW n \in Nat, P(n) PROVE P(n + 1)
    <2> SUFFICES ASSUME n + 1 <= Len(s)
                 PROVE  \E h \in [SUBSET (1 .. n + 1) -> V] : Is(h, n + 1)
      OBVIOUS
    <2>0. n <= Len(s)
      OBVIOUS
    <2>1. PICK g \in [SUBSET (1 .. n) -> V] : Is(g, n)
      BY <1>2, <2>0
    <2> DEFINE h == [t \in SUBSET (1 .. n + 1) |->
                        IF n + 1 \in t THEN F[<<g[t \ {n + 1}], s[n + 1]>>] ELSE g[t]]
    <2>2. s[n + 1] \in E
      OBVIOUS
    <2>3. \A t \in SUBSET (1 .. n + 1) : /\ t \ {n + 1} \in SUBSET (1 .. n)
                                         /\ n + 1 \notin t => t \in SUBSET (1 .. n)
      OBVIOUS
    <2>4. h \in [SUBSET (1 .. n + 1) -> V]
      <3>1. \A t \in SUBSET (1 .. n + 1) :
                (IF n + 1 \in t THEN F[<<g[t \ {n + 1}], s[n + 1]>>] ELSE g[t]) \in V
        BY <2>2, <2>3
      <3> QED
        BY <3>1
    <2>5. ASSUME NEW t \in SUBSET (1 .. n + 1)
          PROVE  h[t] = IF t = {} THEN base ELSE F[<<h[t \ {Max(t)}], s[Max(t)]>>]
      <3>1. CASE n + 1 \in t
        <4>1. Max(t) = n + 1
          BY <3>1, InitialRanges
        <4>2. h[t \ {n + 1}] = g[t \ {n + 1}]
          BY <2>3
        <4>3. h[t] = F[<<g[t \ {n + 1}], s[n + 1]>>]
          BY <3>1
        <4> QED
          BY <3>1, <4>1, <4>2, <4>3
      <3>2. CASE n + 1 \notin t
        <4>1. t \in SUBSET (1 .. n) /\ h[t] = g[t]
          BY <2>3, <3>2
        <4>2. \A u \in SUBSET t : u \in SUBSET (1 .. n + 1) /\ n + 1 \notin u
          BY <3>2
        <4>3. \A u \in SUBSET t : h[u] = g[u]
          BY <4>2
        <4>4. h[t \ {Max(t)}] = g[t \ {Max(t)}]
          BY <4>3
        <4>5. g[t] = IF t = {} THEN base ELSE F[<<g[t \ {Max(t)}], s[Max(t)]>>]
          BY <2>1, <4>1
        <4> HIDE DEF h
        <4> QED
          BY <4>1, <4>4, <4>5
      <3> QED
        BY <3>1, <3>2
    <2> HIDE DEF h
    <2> QED
      BY <2>4, <2>5
  <1>3. \A n \in Nat : P(n)
    <2> DEFINE S == {n \in Nat : P(n)}
    <2> HIDE DEF P
    <2>1. 0 \in S /\ \A n \in Nat : n \in S => n + 1 \in S
      BY <1>1, <1>2
    <2> HIDE DEF S
    <2>2. \A n \in Nat : n \in S
      BY <2>1, Induction
    <2> QED
      BY <2>2 DEF S
  <1>4. Len(s) \in Nat /\ Len(s) <= Len(s)
    OBVIOUS
  <1>5. P(Len(s))
    <2> HIDE DEF P
    <2> QED
      BY <1>3, <1>4
  <1> QED
    BY <1>4, <1>5

(* A run has the value of a fold after each index.                          *)
IsRun(r, F, base, s) == r[0] = base /\ \A i \in 1 .. Len(s) : r[i] = F[<<r[i - 1], s[i]>>]
Follows(h, F, V, s) ==
    \A i \in 1 .. Len(s) : h[1 .. i - 1] \in V => h[1 .. i] = F[<<h[1 .. i - 1], s[i]>>]
HasRun(h, F, base, V, s) ==
    \E r \in [0 .. Len(s) -> V] : IsRun(r, F, base, s) /\ r[Len(s)] = h[1 .. Len(s)]

(* The run of a fold, given the function h that the fold *)
(* computes over sets of indices.                                          *)
LEMMA FoldRuns ==
    ASSUME NEW V, NEW E, NEW F \in [V \X E -> V], NEW base \in V, NEW s \in Seq(E), NEW h,
           h[{}] = base, Follows(h, F, V, s)
    PROVE  HasRun(h, F, base, V, s)
  <1> USE DEF IsRun, Follows, HasRun
  <1> DEFINE r == [i \in 0 .. Len(s) |-> h[1 .. i]]
             P(n) == n <= Len(s) => h[1 .. n] \in V
  <1>1. Len(s) \in Nat
    OBVIOUS
  <1>2. h[1 .. 0] = base
    <2>1. 1 .. 0 = {}
      OBVIOUS
    <2> QED
      BY <2>1
  <1>3. ASSUME NEW n \in Nat, n + 1 <= Len(s), h[1 .. n] \in V
        PROVE  h[1 .. n + 1] = F[<<h[1 .. n], s[n + 1]>>]
    <2>1. n + 1 \in 1 .. Len(s) /\ (n + 1) - 1 = n
      BY <1>1, <1>3
    <2> QED
      BY <1>3, <2>1
  <1>4. \A n \in Nat : P(n)
    <2>1. P(0)
      BY <1>2
    <2>2. ASSUME NEW n \in Nat, P(n) PROVE P(n + 1)
      <3> SUFFICES ASSUME n + 1 <= Len(s) PROVE h[1 .. n + 1] \in V
        OBVIOUS
      <3>1. h[1 .. n] \in V /\ s[n + 1] \in E
        BY <1>1, <2>2
      <3> QED
        BY <1>3, <3>1
    <2> DEFINE S == {n \in Nat : P(n)}
    <2> HIDE DEF P
    <2>3. 0 \in S /\ \A n \in Nat : n \in S => n + 1 \in S
      BY <2>1, <2>2
    <2> HIDE DEF S
    <2>4. \A n \in Nat : n \in S
      BY <2>3, Induction
    <2> QED
      BY <2>4 DEF S
  <1>5. r \in [0 .. Len(s) -> V]
    <2>1. \A i \in 0 .. Len(s) : i \in Nat /\ i <= Len(s)
      BY <1>1
    <2> QED
      BY <1>4, <2>1
  <1>6. ASSUME NEW i \in 1 .. Len(s) PROVE r[i] = F[<<r[i - 1], s[i]>>]
    <2>1. i - 1 \in Nat /\ (i - 1) + 1 = i /\ i <= Len(s) /\ i - 1 \in 0 .. Len(s) /\ i \in 0 .. Len(s)
      BY <1>1
    <2>2. h[1 .. i - 1] \in V
      BY <1>4, <2>1
    <2>3. h[1 .. (i - 1) + 1] = F[<<h[1 .. i - 1], s[(i - 1) + 1]>>]
      BY <1>3, <2>1, <2>2
    <2> QED
      BY <2>1, <2>3
  <1>7. r[0] = base /\ r[Len(s)] = h[1 .. Len(s)]
    BY <1>1, <1>2
  <1> HIDE DEF r
  <1> QED
    BY <1>5, <1>6, <1>7

(* A function as FoldLeft chooses it computes a fold, where its values are   *)
(* known to be in V.                                                        *)
Computes(h, F, base, V, s) ==
    /\ h[{}] = base
    /\ \A t \in SUBSET (1 .. Len(s)) :
          t # {} /\ h[t \ {Max(t)}] \in V => h[t] = F[<<h[t \ {Max(t)}], s[Max(t)]>>]

LEMMA IndexSets ==
    ASSUME NEW n \in Nat, NEW t \in SUBSET (1 .. n), t # {}
    PROVE  Max(t) \in 1 .. n /\ t \ {Max(t)} \in SUBSET (1 .. n)
  <1>1. t \in SUBSET (0 .. n)
    OBVIOUS
  <1> QED
    BY <1>1, MaxIsGreatest

LEMMA FoldComputes ==
    ASSUME NEW V, NEW E, NEW F \in [V \X E -> V], NEW base \in V, NEW s \in Seq(E), NEW h,
           Computes(h, F, base, V, s)
    PROVE  HasRun(h, F, base, V, s)
  <1>1. Len(s) \in Nat
    OBVIOUS
  <1>2. ASSUME NEW i \in 1 .. Len(s), h[1 .. i - 1] \in V
        PROVE  h[1 .. i] = F[<<h[1 .. i - 1], s[i]>>]
    <2>0. i \in 1 .. i /\ \A n \in 1 .. i : n \in 1 .. Len(s)
      BY <1>1
    <2>1. i - 1 \in Nat /\ (i - 1) + 1 = i /\ 1 .. i \in SUBSET (1 .. Len(s)) /\ 1 .. i # {}
      <3>1. i - 1 \in Nat /\ (i - 1) + 1 = i
        BY <1>1
      <3> QED
        BY <2>0, <3>1
    <2>2. Max(1 .. (i - 1) + 1) = (i - 1) + 1 /\ (1 .. (i - 1) + 1) \ {(i - 1) + 1} = 1 .. i - 1
      BY <2>1, InitialRanges
    <2>3. Max(1 .. i) = i /\ (1 .. i) \ {i} = 1 .. i - 1
      BY <2>1, <2>2
    <2>4. h[(1 .. i) \ {Max(1 .. i)}] \in V
      BY <1>2, <2>3
    <2>5. h[1 .. i] = F[<<h[(1 .. i) \ {Max(1 .. i)}], s[Max(1 .. i)]>>]
      BY <2>1, <2>4 DEF Computes
    <2> QED
      BY <2>3, <2>5
  <1>3. Follows(h, F, V, s)
    BY <1>2 DEF Follows
  <1>4. h[{}] = base
    BY DEF Computes
  <1> QED
    BY <1>3, <1>4, FoldRuns

(* Two runs that start and go on alike agree.                               *)
GoAlike(q, r, n) == \A i \in 1 .. n : q[i - 1] = r[i - 1] => q[i] = r[i]
Alike(q, r, n) == \A i \in 0 .. n : q[i] = r[i]
LEMMA RunsAgree ==
    ASSUME NEW n \in Nat, NEW q, NEW r, q[0] = r[0], GoAlike(q, r, n)
    PROVE  Alike(q, r, n)
  <1> USE DEF GoAlike, Alike
  <1> DEFINE P(i) == i <= n => q[i] = r[i]
  <1>1. P(0)
    OBVIOUS
  <1>2. ASSUME NEW i \in Nat, P(i) PROVE P(i + 1)
    <2> SUFFICES ASSUME i + 1 <= n PROVE q[i + 1] = r[i + 1]
      OBVIOUS
    <2>1. i + 1 \in 1 .. n /\ (i + 1) - 1 = i /\ q[i] = r[i]
      BY <1>2
    <2> QED
      BY <2>1
  <1> DEFINE S == {i \in Nat : P(i)}
  <1> HIDE DEF P
  <1>3. 0 \in S /\ \A i \in Nat : i \in S => i + 1 \in S
    BY <1>1, <1>2
  <1> HIDE DEF S
  <1>4. \A i \in Nat : i \in S
    BY <1>3, Induction
  <1>5. \A i \in Nat : P(i)
    BY <1>4 DEF S
  <1> QED
    BY <1>5 DEF P

-----------------------------------------------------------------------------
(* Concatenations.                                                         *)

LEMMA ConcatIs ==
    ASSUME NEW E, NEW s \in Seq(E), NEW t \in Seq(E)
    PROVE  /\ s \o t \in Seq(E) /\ Len(s \o t) = Len(s) + Len(t)
           /\ \A i \in 1 .. Len(s) : (s \o t)[i] = s[i]
           /\ \A i \in 1 .. Len(t) : (s \o t)[Len(s) + i] = t[i]
  OBVIOUS

LEMMA EqualSeqs ==
    ASSUME NEW E, NEW s \in Seq(E), NEW t \in Seq(E), Len(s) = Len(t),
           \A i \in 1 .. Len(s) : s[i] = t[i]
    PROVE  s = t
  OBVIOUS

LEMMA ConcatAssoc ==
    ASSUME NEW E, NEW s \in Seq(E), NEW t \in Seq(E), NEW u \in Seq(E)
    PROVE  (s \o t) \o u = s \o (t \o u)
  OBVIOUS

(* FlattenSeq, of a sequence of sequences, by its last one.                 *)
LEMMA FlattenEmpty == FlattenSeq(<<>>) = <<>>
  BY DEF FlattenSeq

LEMMA FlattenRuns ==
    ASSUME NEW E, NEW s \in Seq(Seq(E))
    PROVE  \E r \in [0 .. Len(s) -> Seq(E)] :
               /\ r[0] = <<>> /\ r[Len(s)] = FlattenSeq(s)
               /\ \A i \in 1 .. Len(s) : r[i] = r[i - 1] \o s[i]
  <1> DEFINE V == Seq(E)
             Is(g, n) == \A i \in 1 .. n : g[i] = IF i = 1 THEN s[i] ELSE g[i - 1] \o s[i]
             P(n) == n <= Len(s) => \E g \in [1 .. n -> V] : Is(g, n)
  <1>0. Len(s) \in Nat /\ \A i \in 1 .. Len(s) : s[i] \in V
    OBVIOUS
  <1>1. P(0)
    <2> DEFINE g == [i \in 1 .. 0 |-> <<>>]
    <2>1. g \in [1 .. 0 -> V] /\ Is(g, 0)
      OBVIOUS
    <2> QED
      BY <2>1
  <1>2. ASSUME NEW n \in Nat, P(n) PROVE P(n + 1)
    <2> SUFFICES ASSUME n + 1 <= Len(s)
                 PROVE  \E h \in [1 .. n + 1 -> V] : Is(h, n + 1)
      OBVIOUS
    <2>0. n <= Len(s)
      OBVIOUS
    <2>1. PICK g \in [1 .. n -> V] : Is(g, n)
      BY <1>2, <2>0
    <2> DEFINE h == [i \in 1 .. n + 1 |->
                        IF i = n + 1 THEN IF i = 1 THEN s[i] ELSE g[n] \o s[i] ELSE g[i]]
    <2>2. \A i \in 1 .. n + 1 : s[i] \in V /\ (i = n + 1 \/ i \in 1 .. n)
      BY <1>0
    <2>3. n + 1 # 1 => n \in 1 .. n
      OBVIOUS
    <2>4. h \in [1 .. n + 1 -> V]
      <3>1. n + 1 # 1 => g[n] \o s[n + 1] \in V
        BY <2>2, <2>3
      <3>2. \A i \in 1 .. n + 1 :
               (IF i = n + 1 THEN IF i = 1 THEN s[i] ELSE g[n] \o s[i] ELSE g[i]) \in V
        BY <2>2, <3>1
      <3> QED
        BY <3>2
    <2>5. Is(h, n + 1)
      <3>1. ASSUME NEW i \in 1 .. n + 1 PROVE h[i] = IF i = 1 THEN s[i] ELSE h[i - 1] \o s[i]
        <4>1. CASE i = n + 1
          <5>1. i # 1 => h[i - 1] = g[n]
            BY <2>3, <4>1
          <5> QED
            BY <4>1, <5>1
        <4>2. CASE i # n + 1
          <5>1. i \in 1 .. n /\ h[i] = g[i]
            BY <2>2, <4>2
          <5>2. i # 1 => i - 1 \in 1 .. n /\ i - 1 # n + 1 /\ i - 1 \in 1 .. n + 1
            BY <5>1
          <5>3. i # 1 => h[i - 1] = g[i - 1]
            BY <5>2
          <5>4. g[i] = IF i = 1 THEN s[i] ELSE g[i - 1] \o s[i]
            BY <2>1, <5>1
          <5> HIDE DEF h
          <5> QED
            BY <5>1, <5>3, <5>4
        <4> QED
          BY <4>1, <4>2
      <3> HIDE DEF h
      <3> QED
        BY <3>1
    <2> HIDE DEF h
    <2> QED
      BY <2>4, <2>5
  <1>3. \A n \in Nat : P(n)
    <2> DEFINE S == {n \in Nat : P(n)}
    <2> HIDE DEF P
    <2>1. 0 \in S /\ \A n \in Nat : n \in S => n + 1 \in S
      BY <1>1, <1>2
    <2> HIDE DEF S
    <2>2. \A n \in Nat : n \in S
      BY <2>1, Induction
    <2> QED
      BY <2>2 DEF S
  <1>4. PICK g \in [1 .. Len(s) -> V] : Is(g, Len(s))
    <2>1. P(Len(s))
      <3> HIDE DEF P
      <3> QED
        BY <1>0, <1>3
    <2> QED
      BY <1>0, <2>1
  <1>5. CASE s = <<>>
    <2> DEFINE r == [i \in 0 .. 0 |-> <<>>]
    <2>1. r \in [0 .. 0 -> V] /\ r[0] = <<>> /\ Len(s) = 0 /\ FlattenSeq(s) = <<>>
      BY <1>5, FlattenEmpty
    <2>2. \A i \in 1 .. 0 : r[i] = r[i - 1] \o s[i]
      OBVIOUS
    <2> HIDE DEF r
    <2> QED
      BY <2>1, <2>2
  <1>6. CASE s # <<>>
    <2> DEFINE flatten == CHOOSE h : h = [i \in 1 .. Len(s) |->
                              IF i = 1 THEN s[i] ELSE h[i - 1] \o s[i]]
    <2>1. g = [i \in 1 .. Len(s) |-> IF i = 1 THEN s[i] ELSE g[i - 1] \o s[i]]
      BY <1>4
    <2>2. flatten = [i \in 1 .. Len(s) |-> IF i = 1 THEN s[i] ELSE flatten[i - 1] \o s[i]]
      <3> HIDE <1>4
      <3> QED
        BY <2>1, Zenon
    <2>3. FlattenSeq(s) = flatten[Len(s)] /\ Len(s) # 0
      BY <1>0, <1>6 DEF FlattenSeq
    <2> HIDE DEF flatten
    <2> DEFINE r == [i \in 0 .. Len(s) |-> IF i = 0 THEN <<>> ELSE flatten[i]]
               Q(n) == n <= Len(s) => r[n] \in V
    <2>4. ASSUME NEW i \in 1 .. Len(s) PROVE r[i] = r[i - 1] \o s[i]
      <3>1. flatten[i] = IF i = 1 THEN s[i] ELSE flatten[i - 1] \o s[i]
        BY <2>2
      <3>2. s[i] = <<>> \o s[i]
        BY <1>0
      <3>3. i \in 0 .. Len(s) /\ i - 1 \in 0 .. Len(s) /\ i # 0 /\ (i - 1 = 0 <=> i = 1)
        BY <1>0
      <3> QED
        BY <3>1, <3>2, <3>3
    <2>5. r[0] = <<>> /\ r[Len(s)] = FlattenSeq(s)
      BY <1>0, <2>3
    <2>6. DOMAIN r = 0 .. Len(s) /\ r = [i \in 0 .. Len(s) |-> r[i]]
      OBVIOUS
    <2> HIDE DEF r
    <2>7. Q(0)
      BY <2>5
    <2>8. ASSUME NEW n \in Nat, Q(n) PROVE Q(n + 1)
      <3> SUFFICES ASSUME n + 1 <= Len(s) PROVE r[n + 1] \in V
        OBVIOUS
      <3>1. n + 1 \in 1 .. Len(s) /\ (n + 1) - 1 = n /\ r[n] \in V
        BY <1>0, <2>8
      <3>2. r[n + 1] = r[n] \o s[n + 1] /\ s[n + 1] \in V
        BY <1>0, <2>4, <3>1
      <3> QED
        BY <3>1, <3>2
    <2>9. \A n \in Nat : Q(n)
      <3> DEFINE S == {n \in Nat : Q(n)}
      <3> HIDE DEF Q
      <3>1. 0 \in S /\ \A n \in Nat : n \in S => n + 1 \in S
        BY <2>7, <2>8
      <3> HIDE DEF S
      <3>2. \A n \in Nat : n \in S
        BY <3>1, Induction
      <3> QED
        BY <3>2 DEF S
    <2>10. r \in [0 .. Len(s) -> V]
      <3>1. \A i \in 0 .. Len(s) : i \in Nat /\ i <= Len(s)
        BY <1>0
      <3> QED
        BY <2>6, <2>9, <3>1
    <2> QED
      BY <2>4, <2>5, <2>10
  <1> QED
    BY <1>5, <1>6

LEMMA FlattenAppend ==
    ASSUME NEW E, NEW s \in Seq(Seq(E)), NEW x \in Seq(E)
    PROVE  /\ FlattenSeq(s) \in Seq(E)
           /\ FlattenSeq(Append(s, x)) = FlattenSeq(s) \o x
  <1> DEFINE t == Append(s, x)
  <1>0. /\ t \in Seq(Seq(E)) /\ Len(t) = Len(s) + 1 /\ Len(s) \in Nat
        /\ t[Len(s) + 1] = x /\ \A i \in 1 .. Len(s) : t[i] = s[i]
    OBVIOUS
  <1> HIDE DEF t
  <1>1. PICK q \in [0 .. Len(s) -> Seq(E)] :
            /\ q[0] = <<>> /\ q[Len(s)] = FlattenSeq(s)
            /\ \A i \in 1 .. Len(s) : q[i] = q[i - 1] \o s[i]
    BY FlattenRuns
  <1>2. PICK r \in [0 .. Len(t) -> Seq(E)] :
            /\ r[0] = <<>> /\ r[Len(t)] = FlattenSeq(t)
            /\ \A i \in 1 .. Len(t) : r[i] = r[i - 1] \o t[i]
    BY <1>0, FlattenRuns
  <1>3. \A i \in 1 .. Len(s) : q[i - 1] = r[i - 1] => q[i] = r[i]
    <2>1. \A i \in 1 .. Len(s) : i \in 1 .. Len(t)
      BY <1>0
    <2> QED
      BY <1>0, <1>1, <1>2, <2>1
  <1>4. \A i \in 0 .. Len(s) : q[i] = r[i]
    <2>1. Len(s) \in Nat /\ q[0] = r[0] /\ GoAlike(q, r, Len(s))
      BY <1>0, <1>1, <1>2, <1>3 DEF GoAlike
    <2>2. Alike(q, r, Len(s))
      BY <2>1, RunsAgree
    <2> QED
      BY <2>2 DEF Alike
  <1>5. q[Len(s)] = r[Len(s)] /\ Len(t) \in 1 .. Len(t) /\ Len(t) - 1 = Len(s) /\ Len(s) \in 0 .. Len(s)
    <2>1. Len(t) \in 1 .. Len(t) /\ Len(t) - 1 = Len(s) /\ Len(s) \in 0 .. Len(s)
      BY <1>0
    <2> QED
      BY <1>4, <2>1
  <1>6. FlattenSeq(t) = FlattenSeq(s) \o x
    BY <1>0, <1>1, <1>2, <1>5
  <1> QED
    BY <1>1, <1>5, <1>6 DEF t

(* What is in a concatenation is in one of its parts, at its place there.   *)
LEMMA FlattenElements ==
    ASSUME NEW E, NEW s \in Seq(Seq(E))
    PROVE  /\ FlattenSeq(s) \in Seq(E)
           /\ \A j \in 1 .. Len(FlattenSeq(s)) :
                 \E i \in 1 .. Len(s) : \E k \in 1 .. Len(s[i]) : FlattenSeq(s)[j] = s[i][k]
  <1> DEFINE From(q, n) == \A j \in 1 .. Len(q) :
                 \E i \in 1 .. n : \E k \in 1 .. Len(s[i]) : q[j] = s[i][k]
  <1>0. Len(s) \in Nat /\ \A i \in 1 .. Len(s) : s[i] \in Seq(E)
    OBVIOUS
  <1>1. PICK r \in [0 .. Len(s) -> Seq(E)] :
            /\ r[0] = <<>> /\ r[Len(s)] = FlattenSeq(s)
            /\ \A i \in 1 .. Len(s) : r[i] = r[i - 1] \o s[i]
    BY FlattenRuns
  <1> DEFINE P(n) == n <= Len(s) => From(r[n], n)
  <1>2. P(0)
    BY <1>1
  <1>3. ASSUME NEW n \in Nat, P(n) PROVE P(n + 1)
    <2> SUFFICES ASSUME n + 1 <= Len(s), NEW j \in 1 .. Len(r[n + 1])
                 PROVE  \E i \in 1 .. n + 1 : \E k \in 1 .. Len(s[i]) : r[n + 1][j] = s[i][k]
      OBVIOUS
    <2>1. /\ r[n] \in Seq(E) /\ s[n + 1] \in Seq(E) /\ r[n + 1] = r[n] \o s[n + 1]
          /\ From(r[n], n)
      <3>1. n \in 0 .. Len(s) /\ n + 1 \in 1 .. Len(s) /\ (n + 1) - 1 = n /\ n <= Len(s)
        BY <1>0
      <3>2. r[n + 1] = r[n] \o s[n + 1]
        BY <1>1, <3>1
      <3> QED
        BY <1>0, <1>1, <1>3, <3>1, <3>2
    <2> DEFINE a == r[n]
               b == s[n + 1]
               c == r[n + 1]
    <2>2. /\ Len(a) \in Nat /\ Len(b) \in Nat /\ Len(c) = Len(a) + Len(b)
          /\ \A i \in 1 .. Len(a) : c[i] = a[i]
          /\ \A i \in 1 .. Len(b) : c[Len(a) + i] = b[i]
      <3> HIDE DEF a, b, c
      <3>1. a \in Seq(E) /\ b \in Seq(E) /\ c = a \o b
        BY <2>1 DEF a, b, c
      <3> QED
        BY <3>1, ConcatIs
    <2>3. CASE j <= Len(a)
      <3>1. j \in 1 .. Len(a)
        BY <2>2, <2>3
      <3>2. PICK i \in 1 .. n : \E k \in 1 .. Len(s[i]) : a[j] = s[i][k]
        BY <2>1, <3>1
      <3> QED
        BY <2>2, <3>1, <3>2
    <2>4. CASE ~(j <= Len(a))
      <3> DEFINE k == j - Len(a)
      <3>1. k \in 1 .. Len(b) /\ Len(a) + k = j
        <4>1. j \in Nat /\ j <= Len(c)
          OBVIOUS
        <4> HIDE DEF a, b, c
        <4> QED
          BY <2>2, <2>4, <4>1
      <3>2. c[j] = b[k] /\ n + 1 \in 1 .. n + 1
        BY <2>2, <3>1
      <3> HIDE DEF k
      <3> QED
        BY <3>1, <3>2
    <2> QED
      BY <2>3, <2>4
  <1>4. \A n \in Nat : P(n)
    <2> DEFINE S == {n \in Nat : P(n)}
    <2> HIDE DEF P
    <2>1. 0 \in S /\ \A n \in Nat : n \in S => n + 1 \in S
      BY <1>2, <1>3
    <2> HIDE DEF S
    <2>2. \A n \in Nat : n \in S
      BY <2>1, Induction
    <2> QED
      BY <2>2 DEF S
  <1>5. P(Len(s))
    <2> HIDE DEF P
    <2> QED
      BY <1>0, <1>4
  <1>6. Len(s) \in 0 .. Len(s) /\ Len(s) <= Len(s)
    BY <1>0
  <1>7. From(r[Len(s)], Len(s))
    <2> HIDE DEF From
    <2> QED
      BY <1>5, <1>6
  <1>8. r[Len(s)] \in Seq(E)
    BY <1>1, <1>6
  <1> QED
    BY <1>1, <1>7, <1>8

LEMMA PrefixGrows ==
    ASSUME NEW E, NEW s \in Seq(E), NEW n \in Nat, n + 1 <= Len(s)
    PROVE  /\ SubSeq(s, 1, n) \in Seq(E) /\ SubSeq(s, 1, n + 1) = SubSeq(s, 1, n) \o <<s[n + 1]>>
           /\ s[n + 1] \in E
  OBVIOUS

(* Sequences that repeat nothing.                                           *)
LEMMA ConcatDistinct ==
    ASSUME NEW E, NEW s \in Seq(E), NEW t \in Seq(E)
    PROVE  /\ Range(s \o t) = Range(s) \cup Range(t)
           /\ IsInjective(s \o t)
                 <=> IsInjective(s) /\ IsInjective(t) /\ Range(s) \cap Range(t) = {}
  <1> DEFINE u == s \o t
  <1>1. /\ Len(s) \in Nat /\ Len(t) \in Nat
        /\ DOMAIN s = 1 .. Len(s) /\ DOMAIN t = 1 .. Len(t) /\ DOMAIN u = 1 .. Len(s) + Len(t)
        /\ \A i \in 1 .. Len(s) : u[i] = s[i]
        /\ \A i \in 1 .. Len(t) : u[Len(s) + i] = t[i]
    BY ConcatIs
  <1> HIDE DEF u
  <1>2. \A i \in DOMAIN u : \/ i \in 1 .. Len(s)
                            \/ i - Len(s) \in 1 .. Len(t) /\ i = Len(s) + (i - Len(s))
    BY <1>1
  <1>3. \A i \in 1 .. Len(s) : i \in DOMAIN u
    BY <1>1
  <1>4. \A i \in 1 .. Len(t) : Len(s) + i \in DOMAIN u
    BY <1>1
  <1>5. Range(u) = Range(s) \cup Range(t)
    <2>1. ASSUME NEW x \in Range(u) PROVE x \in Range(s) \cup Range(t)
      <3>1. PICK i \in DOMAIN u : x = u[i]
        BY DEF Range
      <3>2. CASE i \in 1 .. Len(s)
        BY <1>1, <3>1, <3>2 DEF Range
      <3>3. CASE i - Len(s) \in 1 .. Len(t) /\ i = Len(s) + (i - Len(s))
        <4>1. x = t[i - Len(s)]
          BY <1>1, <3>1, <3>3
        <4> QED
          BY <1>1, <3>3, <4>1 DEF Range
      <3> QED
        BY <1>2, <3>2, <3>3
    <2>2. ASSUME NEW x \in Range(s) PROVE x \in Range(u)
      BY <1>1, <1>3 DEF Range
    <2>3. ASSUME NEW x \in Range(t) PROVE x \in Range(u)
      <3>1. PICK i \in 1 .. Len(t) : x = t[i]
        BY <1>1 DEF Range
      <3>2. Len(s) + i \in DOMAIN u /\ x = u[Len(s) + i]
        BY <1>1, <1>4, <3>1
      <3> QED
        BY <3>2 DEF Range
    <2> QED
      BY <2>1, <2>2, <2>3
  <1>6. ASSUME IsInjective(s), IsInjective(t), Range(s) \cap Range(t) = {}
        PROVE  IsInjective(u)
    <2>1. \A i \in 1 .. Len(s) : u[i] \in Range(s)
      BY <1>1 DEF Range
    <2>2. \A i \in DOMAIN u : i - Len(s) \in 1 .. Len(t) /\ i = Len(s) + (i - Len(s))
                                  => u[i] = t[i - Len(s)] /\ u[i] \in Range(t)
      <3>1. ASSUME NEW i \in DOMAIN u, i - Len(s) \in 1 .. Len(t), i = Len(s) + (i - Len(s))
            PROVE  u[i] = t[i - Len(s)] /\ u[i] \in Range(t)
        <4>1. u[i] = t[i - Len(s)]
          BY <1>1, <3>1
        <4> QED
          BY <1>1, <3>1, <4>1 DEF Range
      <3> QED
        BY <3>1
    <2>3. ASSUME NEW i \in DOMAIN u, NEW j \in DOMAIN u, u[i] = u[j] PROVE i = j
      <3>1. CASE i \in 1 .. Len(s) /\ j \in 1 .. Len(s)
        <4>1. s[i] = s[j]
          BY <1>1, <2>3, <3>1
        <4> QED
          BY <1>1, <1>6, <3>1, <4>1 DEF IsInjective
      <3>2. CASE /\ i - Len(s) \in 1 .. Len(t) /\ i = Len(s) + (i - Len(s))
                 /\ j - Len(s) \in 1 .. Len(t) /\ j = Len(s) + (j - Len(s))
        <4>1. t[i - Len(s)] = t[j - Len(s)]
          BY <2>2, <2>3, <3>2
        <4>2. i - Len(s) = j - Len(s)
          BY <1>1, <1>6, <3>2, <4>1 DEF IsInjective
        <4> QED
          BY <3>2, <4>2
      <3>3. CASE i \in 1 .. Len(s) /\ j - Len(s) \in 1 .. Len(t) /\ j = Len(s) + (j - Len(s))
        BY <1>6, <2>1, <2>2, <2>3, <3>3
      <3>4. CASE j \in 1 .. Len(s) /\ i - Len(s) \in 1 .. Len(t) /\ i = Len(s) + (i - Len(s))
        BY <1>6, <2>1, <2>2, <2>3, <3>4
      <3> QED
        BY <1>2, <3>1, <3>2, <3>3, <3>4
    <2> QED
      BY <2>3 DEF IsInjective
  <1>7. ASSUME IsInjective(u)
        PROVE  IsInjective(s) /\ IsInjective(t) /\ Range(s) \cap Range(t) = {}
    <2>1. ASSUME NEW i \in 1 .. Len(s), NEW j \in 1 .. Len(s), s[i] = s[j] PROVE i = j
      <3>1. u[i] = u[j] /\ i \in DOMAIN u /\ j \in DOMAIN u
        BY <1>1, <1>3, <2>1
      <3> QED
        BY <1>7, <3>1 DEF IsInjective
    <2>2. ASSUME NEW i \in 1 .. Len(t), NEW j \in 1 .. Len(t), t[i] = t[j] PROVE i = j
      <3>1. u[Len(s) + i] = u[Len(s) + j] /\ Len(s) + i \in DOMAIN u /\ Len(s) + j \in DOMAIN u
        BY <1>1, <1>4, <2>2
      <3>2. Len(s) + i = Len(s) + j
        BY <1>7, <3>1 DEF IsInjective
      <3> QED
        BY <1>1, <3>2
    <2>3. ASSUME NEW i \in 1 .. Len(s), NEW j \in 1 .. Len(t), s[i] = t[j] PROVE FALSE
      <3>1. u[i] = u[Len(s) + j] /\ i \in DOMAIN u /\ Len(s) + j \in DOMAIN u
        BY <1>1, <1>3, <1>4, <2>3
      <3>2. i = Len(s) + j
        BY <1>7, <3>1 DEF IsInjective
      <3> QED
        BY <1>1, <3>2
    <2>4. IsInjective(s) /\ IsInjective(t)
      BY <1>1, <2>1, <2>2 DEF IsInjective
    <2>5. Range(s) \cap Range(t) = {}
      BY <1>1, <2>3 DEF Range
    <2> QED
      BY <2>4, <2>5
  <1> QED
    BY <1>5, <1>6, <1>7 DEF u

AllDistinct(s) ==
    /\ \A i \in DOMAIN s : IsInjective(s[i])
    /\ \A i, j \in DOMAIN s : i # j => Range(s[i]) \cap Range(s[j]) = {}
InSome(s) == UNION {Range(s[i]) : i \in DOMAIN s}

LEMMA FlattenDistinct ==
    ASSUME NEW E, NEW s \in Seq(Seq(E))
    PROVE  /\ Range(FlattenSeq(s)) = InSome(s)
           /\ IsInjective(FlattenSeq(s)) <=> AllDistinct(s)
  <1> DEFINE Upto(n) == UNION {Range(s[i]) : i \in 1 .. n}
             Distinct(n) == /\ \A i \in 1 .. n : IsInjective(s[i])
                            /\ \A i, j \in 1 .. n : i # j => Range(s[i]) \cap Range(s[j]) = {}
  <1>0. Len(s) \in Nat /\ DOMAIN s = 1 .. Len(s) /\ \A i \in 1 .. Len(s) : s[i] \in Seq(E)
    OBVIOUS
  <1>1. PICK r \in [0 .. Len(s) -> Seq(E)] :
            /\ r[0] = <<>> /\ r[Len(s)] = FlattenSeq(s)
            /\ \A i \in 1 .. Len(s) : r[i] = r[i - 1] \o s[i]
    BY FlattenRuns
  <1> DEFINE Good(n) == Range(r[n]) = Upto(n) /\ (IsInjective(r[n]) <=> Distinct(n))
             P(n) == n <= Len(s) => Good(n)
  <1>2. P(0)
    <2>1. Range(<<>>) = {} /\ IsInjective(<<>>)
      BY DEF Range, IsInjective
    <2>2. Upto(0) = {} /\ Distinct(0)
      OBVIOUS
    <2> QED
      BY <1>1, <2>1, <2>2
  <1>3. ASSUME NEW n \in Nat, P(n) PROVE P(n + 1)
    <2> SUFFICES ASSUME n + 1 <= Len(s) PROVE Good(n + 1)
      OBVIOUS
    <2>1. n \in 0 .. Len(s) /\ n + 1 \in 1 .. Len(s) /\ (n + 1) - 1 = n /\ n <= Len(s)
      BY <1>0
    <2>2. r[n + 1] = r[n] \o s[n + 1] /\ r[n] \in Seq(E) /\ s[n + 1] \in Seq(E)
      BY <1>0, <1>1, <2>1
    <2>3. Range(r[n]) = Upto(n) /\ (IsInjective(r[n]) <=> Distinct(n))
      BY <1>3, <2>1
    <2>4. 1 .. n + 1 = (1 .. n) \cup {n + 1} /\ n + 1 \notin 1 .. n
      OBVIOUS
    <2>5. Upto(n + 1) = Upto(n) \cup Range(s[n + 1])
      BY <2>4
    <2>6. Distinct(n + 1) <=>
             Distinct(n) /\ IsInjective(s[n + 1]) /\ \A i \in 1 .. n : Range(s[i]) \cap Range(s[n + 1]) = {}
      <3> DEFINE K == 1 .. n + 1
                 L == 1 .. n
                 m == n + 1
                 R(i) == Range(s[i])
                 I(i) == IsInjective(s[i])
      <3>1. K = L \cup {m} /\ m \notin L
        BY <2>4
      <3> HIDE DEF K, L, m, R, I
      <3>2. (\A i \in K : I(i)) <=> (\A i \in L : I(i)) /\ I(m)
        BY <3>1
      <3>3. (\A i, j \in K : i # j => R(i) \cap R(j) = {})
               <=> (\A i, j \in L : i # j => R(i) \cap R(j) = {}) /\ \A i \in L : R(i) \cap R(m) = {}
        BY <3>1
      <3> QED
        BY <3>2, <3>3 DEF K, L, m, R, I
    <2>7. Upto(n) \cap Range(s[n + 1]) = {} <=> \A i \in 1 .. n : Range(s[i]) \cap Range(s[n + 1]) = {}
      OBVIOUS
    <2> HIDE DEF Upto, Distinct
    <2>8. Range(r[n + 1]) = Range(r[n]) \cup Range(s[n + 1])
      BY <2>2, ConcatDistinct
    <2>9. IsInjective(r[n + 1])
             <=> IsInjective(r[n]) /\ IsInjective(s[n + 1]) /\ Range(r[n]) \cap Range(s[n + 1]) = {}
      BY <2>2, ConcatDistinct
    <2> QED
      BY <2>3, <2>5, <2>6, <2>7, <2>8, <2>9, Zenon
  <1>4. \A n \in Nat : P(n)
    <2> DEFINE S == {n \in Nat : P(n)}
    <2> HIDE DEF P
    <2>1. 0 \in S /\ \A n \in Nat : n \in S => n + 1 \in S
      BY <1>2, <1>3
    <2> HIDE DEF S
    <2>2. \A n \in Nat : n \in S
      BY <2>1, Induction
    <2> QED
      BY <2>2 DEF S
  <1>5. Good(Len(s))
    <2> HIDE DEF Good
    <2>1. Len(s) <= Len(s)
      BY <1>0
    <2> QED
      BY <1>0, <1>4, <2>1
  <1> QED
    BY <1>0, <1>1, <1>5 DEF InSome, AllDistinct

-----------------------------------------------------------------------------
(* Ranks. In a finite set of naturals there is an element with any number   *)
(* of smaller ones, and a first one.                                        *)

LEMMA MinIsLeast ==
    ASSUME NEW S \in SUBSET Nat, S # {}
    PROVE  Min(S) \in S /\ \A y \in S : Min(S) <= y
  BY HasLeast DEF Min

Below(S, p) == {q \in S : q < p}

LEMMA RanksExist ==
    ASSUME NEW S \in SUBSET Nat, IsFiniteSet(S)
    PROVE  /\ Cardinality(S) \in Nat
           /\ \A k \in 0 .. Cardinality(S) - 1 : \E p \in S : Cardinality(Below(S, p)) = k
  <1> DEFINE Ranked(T, n) == \A k \in 0 .. n - 1 : \E p \in T : Cardinality(Below(T, p)) = k
             P(n) == \A T \in SUBSET Nat : IsFiniteSet(T) /\ Cardinality(T) = n => Ranked(T, n)
  <1>1. P(0)
    OBVIOUS
  <1>2. ASSUME NEW n \in Nat, P(n) PROVE P(n + 1)
    <2> SUFFICES ASSUME NEW T \in SUBSET Nat, IsFiniteSet(T), Cardinality(T) = n + 1,
                        NEW k \in 0 .. (n + 1) - 1
                 PROVE  \E p \in T : Cardinality(Below(T, p)) = k
      BY Zenon
    <2> DEFINE m == Min(T)
               U == T \ {m}
    <2>1. T # {}
      BY FS_EmptySet
    <2>2. m \in T /\ \A y \in T : m <= y
      BY <2>1, MinIsLeast
    <2> HIDE DEF m
    <2>3. U \in SUBSET Nat /\ IsFiniteSet(U) /\ Cardinality(U) = n
      <3>1. IsFiniteSet(U) /\ Cardinality(U) = (n + 1) - 1
        <4>1. IsFiniteSet(T \ {m}) /\ Cardinality(T \ {m}) =
                 IF m \in T THEN Cardinality(T) - 1 ELSE Cardinality(T)
          BY FS_RemoveElement, Zenon
        <4> QED
          BY <2>2, <4>1
      <3>2. (n + 1) - 1 = n
        OBVIOUS
      <3> QED
        BY <3>1, <3>2
    <2>4. CASE k = 0
      <3>0. \A y \in T : y \in Nat /\ m \in Nat /\ ~(y < m)
        BY <2>2
      <3>1. Below(T, m) = {}
        BY <3>0, Zenon DEF Below
      <3> QED
        BY <2>2, <2>4, <3>1, FS_EmptySet
    <2>5. CASE k # 0
      <3>1. k - 1 \in 0 .. n - 1
        BY <2>5
      <3>2. PICK p \in U : Cardinality(Below(U, p)) = k - 1
        BY <1>2, <2>3, <3>1
      <3>3. m \in Nat /\ p \in Nat /\ m < p
        BY <2>2, <3>2
      <3>4. Below(T, p) = Below(U, p) \cup {m} /\ m \notin Below(U, p)
        BY <2>2, <3>3 DEF Below
      <3>5. IsFiniteSet(Below(U, p))
        <4>1. Below(U, p) \in SUBSET U
          BY DEF Below
        <4> QED
          BY <2>3, <4>1, FS_Subset
      <3>6. Cardinality(Below(T, p)) = (k - 1) + 1
        <4> HIDE DEF U
        <4>1. Cardinality(Below(U, p) \cup {m}) =
                 IF m \in Below(U, p) THEN Cardinality(Below(U, p)) ELSE Cardinality(Below(U, p)) + 1
          BY <3>5, FS_AddElement, Zenon
        <4> QED
          BY <3>2, <3>4, <4>1
      <3> QED
        BY <3>2, <3>6
    <2> QED
      BY <2>4, <2>5
  <1>3. \A n \in Nat : P(n)
    <2> DEFINE R == {n \in Nat : P(n)}
    <2> HIDE DEF P
    <2>1. 0 \in R /\ \A n \in Nat : n \in R => n + 1 \in R
      BY <1>1, <1>2
    <2> HIDE DEF R
    <2>2. \A n \in Nat : n \in R
      BY <2>1, Induction
    <2> QED
      BY <2>2 DEF R
  <1>4. Cardinality(S) \in Nat
    BY FS_CardinalityType
  <1>5. P(Cardinality(S))
    <2> HIDE DEF P
    <2> QED
      BY <1>3, <1>4
  <1> QED
    BY <1>4, <1>5

LEMMA RanksDiffer ==
    ASSUME NEW S \in SUBSET Nat, IsFiniteSet(S), NEW p \in S, NEW q \in S,
           Cardinality(Below(S, p)) = Cardinality(Below(S, q))
    PROVE  p = q
  <1>0. p \in Nat /\ q \in Nat
    OBVIOUS
  <1>1. ASSUME NEW a \in S, NEW b \in S, a < b,
               Cardinality(Below(S, a)) = Cardinality(Below(S, b))
        PROVE  FALSE
    <2>0. a \in Nat /\ b \in Nat /\ \A x \in S : x \in Nat
      OBVIOUS
    <2>1. Below(S, b) \in SUBSET S /\ Below(S, a) \in SUBSET Below(S, b)
      <3>1. \A x \in S : x < a => x < b
        BY <1>1, <2>0
      <3> QED
        BY <3>1 DEF Below
    <2>2. IsFiniteSet(Below(S, b))
      BY <2>1, FS_Subset
    <2>3. Below(S, b) = Below(S, a)
      BY <1>1, <2>1, <2>2, FS_Subset
    <2>4. a \in Below(S, b) /\ a \notin Below(S, a)
      BY <1>1, <2>0 DEF Below
    <2> QED
      BY <2>3, <2>4
  <1>2. p < q \/ q < p \/ p = q
    BY <1>0
  <1> QED
    BY <1>1, <1>2

=============================================================================
