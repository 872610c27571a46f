----------------------------- MODULE PlanProofs -----------------------------
(***************************************************************************)
(* Proofs about SourcePlan, for every selection and all byte constants that *)
(* PlanAssumption relates.                                                  *)
(***************************************************************************)
EXTENDS SourcePlan, FoldLemmas

-----------------------------------------------------------------------------
(* Sums of sizes.                                                          *)

(* The sum after each index. *)
LEMMA TotalRuns ==
    ASSUME NEW s \in Seq(Nat)
    PROVE  \E r \in [0 .. Len(s) -> Nat] :
               /\ r[0] = 0 /\ r[Len(s)] = Total(s)
               /\ \A i \in 1 .. Len(s) : r[i] = r[i - 1] + s[i]
  <1> DEFINE F == [p \in Nat \X Nat |-> p[1] + p[2]]
             D == SUBSET (1 .. Len(s))
  <1>1. F \in [Nat \X Nat -> Nat]
    OBVIOUS
  <1>2. Len(s) \in Nat /\ DOMAIN s = 1 .. Len(s) /\ \A i \in 1 .. Len(s) : s[i] \in Nat
    OBVIOUS
  <1>3. PICK g \in [D -> Nat] : \A t \in D :
            g[t] = IF t = {} THEN 0 ELSE F[<<g[t \ {Max(t)}], s[Max(t)]>>]
    <2> HIDE DEF F
    <2>1. PICK g \in [D -> Nat] : IsFold(g, F, 0, s, Len(s))
      BY <1>1, FoldExists
    <2> QED
      BY <2>1 DEF IsFold
  <1>4. \A t \in D : t # {} => Max(t) \in 1 .. Len(s) /\ t \ {Max(t)} \in D
    BY <1>2, IndexSets
  <1>5. g = [t \in D |-> IF t = {} THEN 0 ELSE g[t \ {Max(t)}] + s[Max(t)]]
    <2>1. ASSUME NEW t \in D, t # {} PROVE g[t] = g[t \ {Max(t)}] + s[Max(t)]
      <3>1. g[t \ {Max(t)}] \in Nat /\ s[Max(t)] \in Nat
        BY <1>2, <1>4, <2>1
      <3> QED
        BY <1>3, <2>1, <3>1
    <2> QED
      BY <1>3, <2>1
  <1>6. PICK h : /\ h = [t \in D |-> IF t = {} THEN 0 ELSE h[t \ {Max(t)}] + s[Max(t)]]
                 /\ Total(s) = h[1 .. Len(s)]
    <2>1. g = [t \in SUBSET (DOMAIN s) |-> IF t = {} THEN 0 ELSE g[t \ {Max(t)}] + s[Max(t)]]
      BY <1>2, <1>5
    <2> HIDE <1>3
    <2>2. \E h : /\ h = [t \in SUBSET (DOMAIN s) |-> IF t = {} THEN 0 ELSE h[t \ {Max(t)}] + s[Max(t)]]
                 /\ Total(s) = h[DOMAIN s]
      BY <2>1 DEF Total, FoldLeft, MapThenFoldSet
    <2> QED
      BY <1>2, <2>2
  <1> HIDE DEF F
  <1>7. Computes(h, F, 0, Nat, s)
    <2>1. h[{}] = 0
      BY <1>6
    <2>2. ASSUME NEW t \in D, t # {}, h[t \ {Max(t)}] \in Nat
          PROVE  h[t] = F[<<h[t \ {Max(t)}], s[Max(t)]>>]
      <3>1. s[Max(t)] \in Nat
        BY <1>2, <1>4, <2>2
      <3>2. h[t] = h[t \ {Max(t)}] + s[Max(t)]
        BY <1>6, <2>2
      <3> QED
        BY <2>2, <3>1, <3>2 DEF F
    <2> QED
      BY <2>1, <2>2 DEF Computes
  <1>8. 0 \in Nat
    OBVIOUS
  <1>9. PICK r \in [0 .. Len(s) -> Nat] : IsRun(r, F, 0, s) /\ r[Len(s)] = h[1 .. Len(s)]
    <2>1. HasRun(h, F, 0, Nat, s)
      BY <1>1, <1>7, <1>8, FoldComputes
    <2> QED
      BY <2>1 DEF HasRun
  <1>10. \A i \in 1 .. Len(s) : r[i] = r[i - 1] + s[i]
    <2>1. \A i \in 1 .. Len(s) : i - 1 \in 0 .. Len(s)
      BY <1>2
    <2>2. \A i \in 1 .. Len(s) : r[i - 1] \in Nat /\ s[i] \in Nat
      BY <1>2, <1>9, <2>1
    <2> QED
      BY <1>9, <2>2 DEF F, IsRun
  <1> QED
    BY <1>6, <1>9, <1>10 DEF IsRun

LEMMA TotalType == ASSUME NEW s \in Seq(Nat) PROVE Total(s) \in Nat
  <1>1. PICK r \in [0 .. Len(s) -> Nat] : r[Len(s)] = Total(s)
    BY TotalRuns
  <1>2. Len(s) \in 0 .. Len(s)
    OBVIOUS
  <1> QED
    BY <1>1, <1>2

LEMMA TotalEmpty == Total(<<>>) = 0
  <1>1. <<>> \in Seq(Nat) /\ Len(<<>>) = 0
    OBVIOUS
  <1>2. PICK r : r[0] = 0 /\ r[Len(<<>>)] = Total(<<>>)
    BY <1>1, TotalRuns
  <1> QED
    BY <1>1, <1>2

LEMMA TotalConcat ==
    ASSUME NEW s \in Seq(Nat), NEW t \in Seq(Nat)
    PROVE  s \o t \in Seq(Nat) /\ Total(s \o t) = Total(s) + Total(t)
  <1> DEFINE u == s \o t
             n == Len(s)
             m == Len(t)
  <1>1. /\ u \in Seq(Nat) /\ n \in Nat /\ m \in Nat /\ Len(u) = n + m
        /\ \A i \in 1 .. n : u[i] = s[i]
        /\ \A i \in 1 .. m : u[n + i] = t[i] /\ t[i] \in Nat
    BY ConcatIs
  <1> HIDE DEF u
  <1>2. PICK q \in [0 .. n -> Nat] : /\ q[0] = 0 /\ q[n] = Total(s)
                                     /\ \A i \in 1 .. n : q[i] = q[i - 1] + s[i]
    BY TotalRuns
  <1>3. PICK r \in [0 .. m -> Nat] : /\ r[0] = 0 /\ r[m] = Total(t)
                                     /\ \A i \in 1 .. m : r[i] = r[i - 1] + t[i]
    BY TotalRuns
  <1>4. PICK w \in [0 .. Len(u) -> Nat] : /\ w[0] = 0 /\ w[Len(u)] = Total(u)
                                          /\ \A i \in 1 .. Len(u) : w[i] = w[i - 1] + u[i]
    BY <1>1, TotalRuns
  <1> HIDE DEF n, m
  <1>5. w[n] = q[n]
    <2>1. GoAlike(w, q, n)
      <3>1. \A i \in 1 .. n : i \in 1 .. Len(u)
        BY <1>1
      <3> QED
        BY <1>1, <1>2, <1>4, <3>1 DEF GoAlike
    <2>2. w[0] = q[0]
      BY <1>2, <1>4
    <2>3. Alike(w, q, n)
      BY <1>1, <2>1, <2>2, RunsAgree
    <2> QED
      BY <1>1, <2>3 DEF Alike
  <1> DEFINE P(i) == i <= m => w[n + i] = q[n] + r[i]
  <1>6. P(0)
    BY <1>1, <1>2, <1>3, <1>5
  <1>7. ASSUME NEW i \in Nat, P(i) PROVE P(i + 1)
    <2> SUFFICES ASSUME i + 1 <= m PROVE w[n + (i + 1)] = q[n] + r[i + 1]
      OBVIOUS
    <2>1. /\ i + 1 \in 1 .. m /\ (i + 1) - 1 = i /\ i <= m /\ i \in 0 .. m /\ n \in 0 .. n
          /\ n + (i + 1) \in 1 .. Len(u) /\ (n + (i + 1)) - 1 = n + i
      BY <1>1
    <2>2. w[n + (i + 1)] = w[n + i] + t[i + 1] /\ r[i + 1] = r[i] + t[i + 1]
      BY <1>1, <1>3, <1>4, <2>1
    <2>3. w[n + i] = q[n] + r[i] /\ q[n] \in Nat /\ r[i] \in Nat /\ t[i + 1] \in Nat
      BY <1>1, <1>2, <1>3, <1>7, <2>1
    <2> QED
      BY <2>2, <2>3
  <1>8. \A i \in Nat : P(i)
    <2> DEFINE S == {i \in Nat : P(i)}
    <2> HIDE DEF P
    <2>1. 0 \in S /\ \A i \in Nat : i \in S => i + 1 \in S
      BY <1>6, <1>7
    <2> HIDE DEF S
    <2>2. \A i \in Nat : i \in S
      BY <2>1, Induction
    <2> QED
      BY <2>2 DEF S
  <1>9. w[n + m] = q[n] + r[m]
    <2>1. P(m) /\ m <= m
      <3> HIDE DEF P
      <3> QED
        BY <1>1, <1>8
    <2> QED
      BY <2>1
  <1> QED
    BY <1>1, <1>2, <1>3, <1>4, <1>9 DEF u

LEMMA TotalOne == ASSUME NEW x \in Nat PROVE <<x>> \in Seq(Nat) /\ Total(<<x>>) = x
  <1>1. <<x>> \in Seq(Nat) /\ Len(<<x>>) = 1 /\ <<x>>[1] = x
    OBVIOUS
  <1>2. PICK r : /\ r[0] = 0 /\ r[Len(<<x>>)] = Total(<<x>>)
                 /\ \A i \in 1 .. Len(<<x>>) : r[i] = r[i - 1] + <<x>>[i]
    BY <1>1, TotalRuns
  <1> HIDE <1>1
  <1>3. r[1] = r[1 - 1] + <<x>>[1]
    BY <1>1, <1>2
  <1> QED
    BY <1>1, <1>2, <1>3

(* Lines are packed as prefixes: more room, more lines.                     *)
LEMMA CutFits ==
    ASSUME NEW sizes \in Seq(Nat), NEW room \in Nat
    PROVE  Cut(sizes, room) \in Seq(Nat) /\ Total(Cut(sizes, room)) <= room
  <1> DEFINE S == {n \in 0 .. Len(sizes) : Total(SubSeq(sizes, 1, n)) <= room}
  <1>1. Len(sizes) \in Nat /\ S \in SUBSET (0 .. Len(sizes))
    OBVIOUS
  <1>2. 0 \in S
    <2>1. SubSeq(sizes, 1, 0) = <<>>
      OBVIOUS
    <2>2. Total(SubSeq(sizes, 1, 0)) = 0
      BY <2>1, TotalEmpty
    <2>3. 0 \in 0 .. Len(sizes) /\ 0 <= room
      BY <1>1
    <2> QED
      BY <2>2, <2>3
  <1>3. Max(S) \in S
    <2> HIDE DEF S
    <2>1. S # {}
      BY <1>2
    <2> QED
      BY <1>1, <2>1, MaxIsGreatest
  <1>4. Cut(sizes, room) = SubSeq(sizes, 1, Max(S))
    BY DEF Cut
  <1>5. Total(SubSeq(sizes, 1, Max(S))) <= room /\ Max(S) \in 0 .. Len(sizes)
    BY <1>3
  <1> HIDE DEF S
  <1>6. SubSeq(sizes, 1, Max(S)) \in Seq(Nat)
    BY <1>5
  <1> QED
    BY <1>4, <1>5, <1>6

LEMMA ByteConstants ==
    /\ PromptBudget \in Nat /\ Framing \in Nat /\ ContextRoom \in Nat /\ Frame \in Nat
    /\ PathBytes \in Nat /\ SpanBytes \in Nat /\ TaskBytes \in Nat /\ Header \in Nat
    /\ Reserve \in Nat /\ HeaderReserve \in Nat /\ ManifestRoom \in Nat /\ ExcerptRoom \in Nat
    /\ MinExcerpt \in Nat /\ MaxExcerpt \in Nat /\ Marker \in Nat
    /\ ContextHeader \in Nat /\ ContextTotal \in Nat /\ MinContext \in Nat
    /\ Frame + SpanBytes <= Reserve /\ Header <= HeaderReserve
    /\ 2 * TaskBytes <= ExcerptRoom /\ Marker < MinExcerpt
  BY PlanAssumption

(* An excerpt, its marker included, keeps to its room (planExcerpt).        *)
LEMMA ExcerptFits ==
    ASSUME NEW sizes \in Seq(Nat), NEW room \in Nat, room >= MinExcerpt
    PROVE  Excerpt(sizes, room) \in Nat /\ Excerpt(sizes, room) <= room
  <1>1. CASE Total(sizes) <= room
    BY <1>1, TotalType DEF Excerpt
  <1>2. CASE ~(Total(sizes) <= room)
    <2> DEFINE available == room - Marker
               head == Total(Cut(sizes, available \div 2))
               left == available - head - 1
               tail == Total(Cut(Reverse(sizes), left))
    <2>1. available \in Nat /\ available >= 1 /\ available + Marker = room /\ Marker \in Nat
      BY ByteConstants
    <2>2. Excerpt(sizes, room) = head + Marker + tail
      BY <1>2 DEF Excerpt
    <2> HIDE DEF available
    <2>3. available \div 2 \in Nat /\ available \div 2 <= available - 1
      BY <2>1
    <2>4. head \in Nat /\ head <= available \div 2
      BY <2>3, CutFits, TotalType
    <2> HIDE DEF head
    <2>5. left \in Nat
      BY <2>1, <2>3, <2>4
    <2>6. Reverse(sizes) \in Seq(Nat)
      BY DEF Reverse
    <2>7. tail \in Nat /\ tail <= left
      <3> HIDE DEF left
      <3> QED
        BY <2>5, <2>6, CutFits, TotalType
    <2> HIDE DEF tail
    <2> QED
      BY <2>1, <2>2, <2>4, <2>7
  <1> QED
    BY <1>1, <1>2

(* A prompt with its context is within the budget if it was without         *)
(* (appendDiscoveryContext).                                               *)
LEMMA ContextFits ==
    ASSUME NEW prompt \in Nat, prompt <= PromptBudget, NEW extra \in Seq(Nat)
    PROVE  AppendContext(prompt, extra) \in Nat /\ AppendContext(prompt, extra) <= PromptBudget
  <1> DEFINE room == PromptBudget - prompt - 2
             cut == IF Total(extra) - 1 <= room THEN extra
                    ELSE IF room < MinContext THEN <<>> ELSE Cut(extra, room)
  <1>1. AppendContext(prompt, extra) = IF cut = <<>> THEN prompt ELSE prompt + Total(cut) + 1
    BY DEF AppendContext
  <1>2. room \in Int /\ prompt + room + 2 = PromptBudget /\ PromptBudget \in Nat /\ MinContext \in Nat
    BY ByteConstants
  <1>3. Total(extra) \in Nat
    BY TotalType
  <1> HIDE DEF room
  <1>4. CASE Total(extra) - 1 <= room
    <2>1. cut = extra
      BY <1>4
    <2> HIDE DEF cut
    <2> QED
      BY <1>1, <1>2, <1>3, <1>4, <2>1
  <1>5. CASE ~(Total(extra) - 1 <= room) /\ ~(room < MinContext)
    <2>1. cut = Cut(extra, room)
      BY <1>5
    <2>2. room \in Nat
      BY <1>2, <1>5
    <2>3. Total(cut) \in Nat /\ Total(cut) <= room
      BY <2>1, <2>2, CutFits, TotalType
    <2> HIDE DEF cut
    <2> QED
      BY <1>1, <1>2, <2>3
  <1>6. CASE ~(Total(extra) - 1 <= room) /\ room < MinContext
    BY <1>1, <1>6
  <1> QED
    BY <1>4, <1>5, <1>6

(* The parts of the context are sizes (renderParts).                        *)
Part == [file : DOMAIN Files, sizes : Seq(Nat)]
LEMMA PartsType ==
    ASSUME NEW parts \in Seq(Part), NEW paths
    PROVE  RenderParts(parts, paths) \in Seq(Nat)
  <1> DEFINE Step(sizes, part) ==
                 IF part.file \in paths /\ Total(sizes) + Total(part.sizes) <= ContextTotal
                 THEN sizes \o part.sizes ELSE sizes
             V == Seq(Nat)
             F == [p \in V \X Part |-> Step(p[1], p[2])]
             D == SUBSET (1 .. Len(parts))
             base == <<ContextHeader>>
  <1>1. base \in V
    BY ByteConstants
  <1>2. Len(parts) \in Nat /\ DOMAIN parts = 1 .. Len(parts) /\ \A i \in 1 .. Len(parts) : parts[i] \in Part
    OBVIOUS
  <1>3. \A x \in V, y \in Part : Step(x, y) \in V
    BY DEF Part
  <1> HIDE DEF Step
  <1>4. F \in [V \X Part -> V]
    BY <1>3
  <1>5. \A t \in D : t # {} => Max(t) \in 1 .. Len(parts) /\ t \ {Max(t)} \in D
    BY <1>2, IndexSets
  <1> HIDE DEF base
  <1>6. PICK g \in [D -> V] : g = [t \in D |-> IF t = {} THEN base ELSE Step(g[t \ {Max(t)}], parts[Max(t)])]
    <2> HIDE DEF F, V
    <2>1. PICK g \in [D -> V] : IsFold(g, F, base, parts, Len(parts))
      BY <1>1, <1>4, FoldExists
    <2>2. ASSUME NEW t \in D, t # {} PROVE g[t] = Step(g[t \ {Max(t)}], parts[Max(t)])
      <3>1. g[t \ {Max(t)}] \in V /\ parts[Max(t)] \in Part
        BY <1>2, <1>5, <2>2
      <3>2. g[t] = F[<<g[t \ {Max(t)}], parts[Max(t)]>>]
        BY <2>1, <2>2 DEF IsFold
      <3> QED
        BY <3>1, <3>2 DEF F
    <2>3. g = [t \in D |-> IF t = {} THEN base ELSE Step(g[t \ {Max(t)}], parts[Max(t)])]
      BY <2>1, <2>2 DEF IsFold
    <2> QED
      BY <2>3
  <1> DEFINE extra == FoldLeft(Step, base, parts)
  <1>7. PICK h : /\ h = [t \in D |-> IF t = {} THEN base ELSE Step(h[t \ {Max(t)}], parts[Max(t)])]
                 /\ extra = h[1 .. Len(parts)]
    <2>1. \E k : k = [t \in SUBSET (DOMAIN parts) |->
                         IF t = {} THEN base ELSE Step(k[t \ {Max(t)}], parts[Max(t)])]
      BY <1>2, <1>6
    <2>2. \E h : /\ h = [t \in SUBSET (DOMAIN parts) |->
                            IF t = {} THEN base ELSE Step(h[t \ {Max(t)}], parts[Max(t)])]
                 /\ extra = h[DOMAIN parts]
      BY <2>1 DEF FoldLeft, MapThenFoldSet
    <2> QED
      BY <1>2, <2>2
  <1> HIDE DEF extra
  <1>8. extra \in V
    <2>1. h[{}] = base
      BY <1>7
    <2>2. ASSUME NEW t \in D, t # {}, h[t \ {Max(t)}] \in V
          PROVE  h[t] = F[<<h[t \ {Max(t)}], parts[Max(t)]>>]
      <3>1. parts[Max(t)] \in Part
        BY <1>2, <1>5, <2>2
      <3>2. h[t] = Step(h[t \ {Max(t)}], parts[Max(t)])
        BY <1>7, <2>2
      <3> QED
        BY <2>2, <3>1, <3>2
    <2> HIDE DEF F, V
    <2>3. Computes(h, F, base, V, parts)
      BY <2>1, <2>2 DEF Computes
    <2>4. HasRun(h, F, base, V, parts)
      BY <1>1, <1>4, <2>3, FoldComputes
    <2>5. Len(parts) \in 0 .. Len(parts)
      BY <1>2
    <2> QED
      BY <1>7, <2>4, <2>5 DEF HasRun
  <1>9. RenderParts(parts, paths) = IF extra = base THEN <<>> ELSE extra
    BY DEF RenderParts, base, Step, extra
  <1> QED
    BY <1>8, <1>9

-----------------------------------------------------------------------------
(* Sorted sets.                                                            *)

LEMMA SortedType ==
    ASSUME NEW S \in SUBSET Nat, IsFiniteSet(S)
    PROVE  /\ Cardinality(S) \in Nat
           /\ Sorted(S) \in Seq(S) /\ Len(Sorted(S)) = Cardinality(S)
  <1> DEFINE At(i) == CHOOSE p \in S : Cardinality({q \in S : q < p}) = i - 1
  <1>1. Cardinality(S) \in Nat
    BY RanksExist
  <1>2. ASSUME NEW i \in 1 .. Cardinality(S) PROVE At(i) \in S
    <2>1. i - 1 \in 0 .. Cardinality(S) - 1
      BY <1>1
    <2>2. \E p \in S : Cardinality(Below(S, p)) = i - 1
      BY <2>1, RanksExist
    <2>3. \E p \in S : Cardinality({q \in S : q < p}) = i - 1
      BY <2>2 DEF Below
    <2> QED
      BY <2>3
  <1>3. Sorted(S) = [i \in 1 .. Cardinality(S) |-> At(i)]
    BY DEF Sorted
  <1> HIDE DEF At
  <1> QED
    BY <1>1, <1>2, <1>3

-----------------------------------------------------------------------------
(* Fragments and the prompts made of them.                                  *)

BodyLine == [kind : Kind, bytes : Nat \ {0}]
Patch ==
    [old : Int, oldCount : Nat, new : Int, newCount : Nat, suffix : Nat, lines : Seq(BodyLine)]
Fragment == [file : DOMAIN Files, start : Nat, end : Nat, hunks : Seq(Patch), sizes : Seq(Nat)]

LEMMA FragmentFields ==
    \A f \in Fragment : f.file \in DOMAIN Files /\ f.sizes \in Seq(Nat)
  BY DEF Fragment

LEMMA SizesType ==
    ASSUME NEW frags \in Seq(Fragment)
    PROVE  Sizes(frags) \in Seq(Nat)
  <1> DEFINE s == [i \in DOMAIN frags |-> frags[i].sizes]
  <1>1. s \in Seq(Seq(Nat))
    <2>0. \A i \in DOMAIN frags : frags[i] \in Fragment
      OBVIOUS
    <2>1. \A i \in DOMAIN frags : frags[i].sizes \in Seq(Nat)
      BY <2>0, FragmentFields
    <2>2. Len(frags) \in Nat /\ DOMAIN frags = 1 .. Len(frags)
      OBVIOUS
    <2> QED
      BY <2>1, <2>2
  <1> HIDE DEF s
  <1>2. FlattenSeq(s) \in Seq(Nat)
    BY <1>1, FlattenElements
  <1> QED
    BY <1>2 DEF Sizes, s

LEMMA OneSizes ==
    ASSUME NEW f \in Fragment
    PROVE  Sizes(<<f>>) = f.sizes /\ f.sizes \in Seq(Nat)
  <1>1. f.sizes \in Seq(Nat)
    BY DEF Fragment
  <1>2. FlattenSeq(Append(<<>>, f.sizes)) = f.sizes
    <2>1. <<>> \in Seq(Seq(Nat))
      OBVIOUS
    <2>2. FlattenSeq(Append(<<>>, f.sizes)) = FlattenSeq(<<>>) \o f.sizes
      BY <1>1, <2>1, FlattenAppend
    <2>3. <<>> \o f.sizes = f.sizes
      BY <1>1
    <2> QED
      BY <2>2, <2>3, FlattenEmpty
  <1>3. [i \in DOMAIN <<f>> |-> <<f>>[i].sizes] = Append(<<>>, f.sizes)
    OBVIOUS
  <1> QED
    BY <1>1, <1>2, <1>3 DEF Sizes

LEMMA PathsFinite ==
    ASSUME NEW frags \in Seq(Fragment)
    PROVE  /\ Paths(frags) \in SUBSET DOMAIN Files /\ IsFiniteSet(Paths(frags))
           /\ Cardinality(Paths(frags)) \in Nat
  <1>0. \A i \in DOMAIN frags : frags[i] \in Fragment
    OBVIOUS
  <1>1. Paths(frags) \in SUBSET DOMAIN Files
    BY <1>0, FragmentFields DEF Paths, Range
  <1>2. IsFiniteSet(Paths(frags))
    BY <1>1, GroupingAssumption, FS_Subset
  <1> QED
    BY <1>1, <1>2, FS_CardinalityType

(* A prompt without what goes into every prompt of the selection.           *)
Payload(frags) ==
    Frame + PathBytes * Cardinality(Paths(frags)) + SpanBytes * Len(frags) + Total(Sizes(frags))

LEMMA PayloadType == ASSUME NEW frags \in Seq(Fragment) PROVE Payload(frags) \in Nat
  <1>1. Total(Sizes(frags)) \in Nat
    BY SizesType, TotalType
  <1>2. PathBytes * Cardinality(Paths(frags)) \in Nat
    BY PathsFinite, ByteConstants
  <1>3. SpanBytes * Len(frags) \in Nat
    BY ByteConstants
  <1> QED
    BY <1>1, <1>2, <1>3, ByteConstants DEF Payload

LEMMA OnePayload ==
    ASSUME NEW f \in Fragment
    PROVE  Payload(<<f>>) = Frame + PathBytes + SpanBytes + Total(f.sizes)
  <1>1. Paths(<<f>>) = {f.file}
    BY DEF Paths, Range
  <1>2. Cardinality(Paths(<<f>>)) = 1
    BY <1>1, FS_Singleton
  <1>3. PathBytes * 1 = PathBytes /\ SpanBytes * Len(<<f>>) = SpanBytes
    BY ByteConstants
  <1> QED
    BY <1>2, <1>3, OneSizes DEF Payload

(* What fits beside the base, and the fragments that do alone.              *)
Fitting(base) == {frags \in Seq(Fragment) : base + Payload(frags) <= PromptBudget}
Alone(base) == {f \in Fragment : <<f>> \in Fitting(base)}

LEMMA FitsIsFitting ==
    ASSUME NEW frags \in Seq(Fragment), input.base \in Nat
    PROVE  /\ LocalPrompt(frags) \in Nat /\ LocalPrompt(frags) = input.base + Payload(frags)
           /\ Fits(frags) <=> frags \in Fitting(input.base)
  <1>1. Total(Sizes(frags)) \in Nat
    BY SizesType, TotalType
  <1>2. PathBytes * Cardinality(Paths(frags)) \in Nat
    BY PathsFinite, ByteConstants
  <1>3. SpanBytes * Len(frags) \in Nat
    BY ByteConstants
  <1>4. LocalPrompt(frags) = input.base + Payload(frags)
    BY <1>1, <1>2, <1>3, ByteConstants DEF Payload, LocalPrompt
  <1> QED
    BY <1>4, PayloadType DEF Fits, Fitting

-----------------------------------------------------------------------------
(* Bytes of the diff.                                                      *)

LEMMA BytesType ==
    ASSUME NEW lines \in Seq(BodyLine)
    PROVE  /\ [i \in DOMAIN lines |-> lines[i].bytes] \in Seq(Nat)
           /\ Bytes(lines) \in Nat
  <1>1. \A x \in BodyLine : x.bytes \in Nat
    BY DEF BodyLine
  <1>2. \A i \in 1 .. Len(lines) : lines[i] \in BodyLine
    OBVIOUS
  <1>3. DOMAIN lines = 1 .. Len(lines) /\ Len(lines) \in Nat
    OBVIOUS
  <1>4. [i \in DOMAIN lines |-> lines[i].bytes] \in Seq(Nat)
    BY <1>1, <1>2, <1>3
  <1> QED
    BY <1>4, TotalType DEF Bytes

LEMMA CountsType ==
    ASSUME NEW lines \in Seq(BodyLine)
    PROVE  OldCount(lines) \in Nat /\ NewCount(lines) \in Nat
  <1>1. IsFiniteSet(DOMAIN lines)
    <2>1. DOMAIN lines = 1 .. Len(lines) /\ Len(lines) \in Int /\ 1 \in Int
      OBVIOUS
    <2> QED
      BY <2>1, FS_Interval
  <1>2. ASSUME NEW S \in SUBSET DOMAIN lines PROVE Cardinality(S) \in Nat
    BY <1>1, FS_Subset, FS_CardinalityType
  <1>3. /\ {i \in DOMAIN lines : Old(lines[i])} \in SUBSET DOMAIN lines
        /\ {i \in DOMAIN lines : New(lines[i])} \in SUBSET DOMAIN lines
    OBVIOUS
  <1> QED
    BY <1>2, <1>3 DEF OldCount, NewCount

(* Hunks as far as their bytes go.                                          *)
IsHunk(h) == h.suffix \in Nat /\ h.lines \in Seq(BodyLine)

LEMMA LineSizesTotal ==
    ASSUME NEW h, IsHunk(h)
    PROVE  /\ LineSizes(h) \in Seq(Nat)
           /\ Total(LineSizes(h)) = Header + h.suffix + Bytes(h.lines)
           /\ HunkBytes(h) = Header + h.suffix + Bytes(h.lines)
           /\ HunkBytes(h) \in Nat
  <1> DEFINE s == [i \in DOMAIN h.lines |-> h.lines[i].bytes]
  <1>1. s \in Seq(Nat) /\ Bytes(h.lines) = Total(s) /\ Bytes(h.lines) \in Nat
    BY BytesType DEF IsHunk, Bytes
  <1>2. Header + h.suffix \in Nat
    BY ByteConstants DEF IsHunk
  <1>3. LineSizes(h) = <<Header + h.suffix>> \o s
    BY DEF LineSizes
  <1> HIDE DEF s
  <1>4. <<Header + h.suffix>> \in Seq(Nat) /\ Total(<<Header + h.suffix>>) = Header + h.suffix
    BY <1>2, TotalOne
  <1>5. LineSizes(h) \in Seq(Nat) /\ Total(LineSizes(h)) = Header + h.suffix + Total(s)
    BY <1>1, <1>3, <1>4, TotalConcat
  <1> QED
    BY <1>1, <1>2, <1>5 DEF HunkBytes

FileSection == [file : DOMAIN Files, meta : Nat \ {0}, hunks : Seq(Hunks)]

LEMMA HunkFields ==
    \A h \in Hunks : /\ IsHunk(h) /\ h.old \in Nat /\ h.oldCount \in Nat
                     /\ h.new \in Nat /\ h.newCount \in Nat
  BY DEF Hunks, IsHunk, BodyLine

LEMMA SectionFields ==
    \A s \in FileSection : /\ s.file \in DOMAIN Files /\ s.meta \in Nat /\ s.meta # 0
                           /\ s.hunks \in Seq(Hunks) /\ Len(s.hunks) \in Nat
                           /\ \A j \in 1 .. Len(s.hunks) : s.hunks[j] \in Hunks
                           /\ DOMAIN s.hunks = 1 .. Len(s.hunks)
  BY DEF FileSection

LEMMA SelectionFields ==
    ASSUME input \in Selections
    PROVE  /\ Sections \in Seq(FileSection) /\ Len(Sections) \in Nat
           /\ \A k \in 1 .. Len(Sections) : Sections[k] \in FileSection
           /\ input.base \in Nat /\ input.parts \in Seq(Part) /\ Sections # <<>>
           /\ input.imports \in [DOMAIN Files -> SUBSET Seq(STRING)]
  <1>1. /\ Sections \in Seq(FileSection) /\ Sections # <<>>
        /\ input.base \in Nat /\ input.parts \in Seq(Part)
    BY DEF Selections, Sections, FileSection, Part
  <1>2. input.imports \in [DOMAIN Files -> SUBSET Seq(STRING)]
    BY DEF Selections
  <1> QED
    BY <1>1, <1>2

LEMMA SectionBytesType ==
    ASSUME NEW s \in FileSection
    PROVE  /\ \A j \in 1 .. Len(s.hunks) + 1 :
                  Total([i \in 1 .. j - 1 |-> HunkBytes(s.hunks[i])]) \in Nat
           /\ SectionBytes(s) \in Nat
  <1>1. \A j \in 1 .. Len(s.hunks) : HunkBytes(s.hunks[j]) \in Nat
    BY SectionFields, HunkFields, LineSizesTotal
  <1>2. ASSUME NEW n \in 0 .. Len(s.hunks)
        PROVE  Total([i \in 1 .. n |-> HunkBytes(s.hunks[i])]) \in Nat
    <2>1. [i \in 1 .. n |-> HunkBytes(s.hunks[i])] \in Seq(Nat)
      BY <1>1, SectionFields
    <2> QED
      BY <2>1, TotalType
  <1>3. \A j \in 1 .. Len(s.hunks) + 1 : j - 1 \in 0 .. Len(s.hunks)
    BY SectionFields
  <1>4. SectionBytes(s) \in Nat
    <2>1. Len(s.hunks) \in 0 .. Len(s.hunks) /\ DOMAIN s.hunks = 1 .. Len(s.hunks) /\ s.meta \in Nat
      BY SectionFields
    <2> QED
      BY <1>2, <2>1 DEF SectionBytes
  <1> QED
    BY <1>2, <1>3, <1>4

LEMMA StartType ==
    ASSUME input \in Selections, NEW k \in 1 .. Len(Sections) + 1
    PROVE  Start(k) \in Nat
  <1>1. \A j \in 1 .. Len(Sections) : SectionBytes(Sections[j]) \in Nat
    BY SelectionFields, SectionBytesType
  <1>2. k - 1 \in Nat /\ \A j \in 1 .. k - 1 : j \in 1 .. Len(Sections)
    BY SelectionFields
  <1>3. [j \in 1 .. k - 1 |-> SectionBytes(Sections[j])] \in Seq(Nat)
    BY <1>1, <1>2
  <1> QED
    BY <1>3, TotalType DEF Start

LEMMA LineAtType ==
    ASSUME input \in Selections, NEW k \in 1 .. Len(Sections),
           NEW j \in 1 .. Len(Sections[k].hunks)
    PROVE  /\ HunkAt(k, j) \in Nat
           /\ \A i \in 1 .. Len(Sections[k].hunks[j].lines) + 1 : LineAt(k, j, i) \in Nat
  <1> DEFINE s == Sections[k]
             h == s.hunks[j]
  <1>1. s \in FileSection /\ k \in 1 .. Len(Sections) + 1
    BY SelectionFields
  <1>2. h \in Hunks /\ s.meta \in Nat /\ Len(s.hunks) \in Nat
    BY <1>1, SectionFields
  <1>3. IsHunk(h)
    BY <1>2, HunkFields
  <1> HIDE DEF s, h
  <1>4. HunkAt(k, j) \in Nat
    <2>1. Start(k) \in Nat
      BY <1>1, StartType
    <2>2. j \in 1 .. Len(s.hunks) + 1
      BY <1>2 DEF s
    <2>3. Total([i \in 1 .. j - 1 |-> HunkBytes(s.hunks[i])]) \in Nat
      BY <1>1, <2>2, SectionBytesType
    <2> DEFINE sizes == Total([i \in 1 .. j - 1 |-> HunkBytes(s.hunks[i])])
    <2>4. HunkAt(k, j) = Start(k) + s.meta + sizes
      BY DEF HunkAt, s
    <2>5. sizes \in Nat
      BY <2>3
    <2> HIDE DEF sizes
    <2> QED
      BY <1>2, <2>1, <2>4, <2>5
  <1>5. ASSUME NEW i \in 1 .. Len(h.lines) + 1 PROVE LineAt(k, j, i) \in Nat
    <2>1. h.lines \in Seq(BodyLine) /\ h.suffix \in Nat /\ Len(h.lines) \in Nat
      BY <1>3 DEF IsHunk
    <2>2. SubSeq(h.lines, 1, i - 1) \in Seq(BodyLine)
      BY <2>1
    <2>3. Bytes(SubSeq(h.lines, 1, i - 1)) \in Nat
      BY <2>2, BytesType
    <2>4. LineAt(k, j, i) = HunkAt(k, j) + Header + h.suffix + Bytes(SubSeq(h.lines, 1, i - 1))
      BY DEF LineAt, h, s
    <2>5. Header \in Nat
      BY ByteConstants
    <2>6. \A a, b, c, d \in Nat : a + b + c + d \in Nat
      OBVIOUS
    <2> HIDE DEF h
    <2> QED
      BY <1>4, <2>1, <2>3, <2>4, <2>5, <2>6
  <1> QED
    BY <1>4, <1>5 DEF s, h

-----------------------------------------------------------------------------
(* Splitting (planSplitSection).                                            *)

LEMMA WholeType ==
    ASSUME input \in Selections, NEW k \in 1 .. Len(Sections)
    PROVE  Whole(k) \in Fragment
  <1> DEFINE s == Sections[k]
             parts == [j \in DOMAIN s.hunks |-> LineSizes(s.hunks[j])]
  <1>1. s \in FileSection /\ k \in 1 .. Len(Sections) + 1 /\ k + 1 \in 1 .. Len(Sections) + 1
    BY SelectionFields
  <1>2. /\ s.file \in DOMAIN Files /\ s.meta \in Nat /\ s.hunks \in Seq(Hunks)
        /\ DOMAIN s.hunks = 1 .. Len(s.hunks) /\ Len(s.hunks) \in Nat
        /\ \A j \in 1 .. Len(s.hunks) : s.hunks[j] \in Hunks
    BY <1>1, SectionFields, Zenon
  <1>3. Start(k) \in Nat /\ Start(k + 1) \in Nat
    BY <1>1, StartType
  <1> HIDE DEF s
  <1>4. s.hunks \in Seq(Patch)
    <2>1. \A h \in Hunks : h \in Patch
      BY DEF Hunks, Patch, BodyLine
    <2> QED
      BY <1>2, <2>1
  <1>5. parts \in Seq(Seq(Nat))
    <2>1. \A j \in 1 .. Len(s.hunks) : LineSizes(s.hunks[j]) \in Seq(Nat)
      BY <1>2, HunkFields, LineSizesTotal
    <2> QED
      BY <1>2, <2>1
  <1>6. FlattenSeq(parts) \in Seq(Nat)
    <2> HIDE DEF parts
    <2> QED
      BY <1>5, FlattenElements
  <1>7. <<s.meta>> \o FlattenSeq(parts) \in Seq(Nat)
    BY <1>2, <1>6, TotalOne, TotalConcat
  <1>8. Whole(k) = [file |-> s.file, start |-> Start(k), end |-> Start(k + 1), hunks |-> s.hunks,
                    sizes |-> <<s.meta>> \o FlattenSeq(parts)]
    BY DEF Whole, s
  <1> QED
    BY <1>2, <1>3, <1>4, <1>7, <1>8 DEF Fragment

(* The loop variables: the hunk they are in is one of its section, which    *)
(* has room for some line.                                                  *)
Cursors == [section : Nat \ {0}, hunk : Nat, line : Nat \ {0}, old : Int, new : Int]
InHunk(c, sel) ==
    /\ c.hunk > 0 /\ c.section <= Len(sel.sections) /\ c.hunk <= Len(sel.sections[c.section].hunks)
    /\ c.line <= Len(sel.sections[c.section].hunks[c.hunk].lines) + 1
AtOK == at \in Cursors /\ (at.hunk = 0 \/ InHunk(at, input))

LEMMA CursorTypes ==
    ASSUME input \in Selections
    PROVE  /\ \A k \in Nat \ {0} : AtSection(k) \in Cursors /\ AtSection(k).hunk = 0
           /\ \A k \in 1 .. Len(Sections) : \A j \in 1 .. Len(Sections[k].hunks) :
                 AtHunk(k, j) \in Cursors /\ InHunk(AtHunk(k, j), input)
           /\ \A k \in 1 .. Len(Sections) : \A j \in 1 .. Len(Sections[k].hunks) :
                 /\ AfterHunk(k, j) \in Cursors
                 /\ AfterHunk(k, j).hunk = 0 \/ InHunk(AfterHunk(k, j), input)
  <1>1. \A k \in Nat \ {0} : AtSection(k) \in Cursors /\ AtSection(k).hunk = 0
    BY DEF AtSection, Cursors
  <1>2. ASSUME NEW k \in 1 .. Len(Sections), NEW j \in 1 .. Len(Sections[k].hunks)
        PROVE  AtHunk(k, j) \in Cursors /\ InHunk(AtHunk(k, j), input)
    <2> DEFINE h == Sections[k].hunks[j]
    <2>1. Sections[k] \in FileSection /\ Len(Sections) \in Nat
      BY SelectionFields
    <2>2. h \in Hunks /\ Len(Sections[k].hunks) \in Nat
      BY <2>1, SectionFields
    <2>3. /\ h.old \in Nat /\ h.oldCount \in Nat /\ h.new \in Nat /\ h.newCount \in Nat
          /\ h.lines \in Seq(BodyLine)
      BY <2>2, HunkFields DEF IsHunk
    <2>4. /\ Cursor(h.old, h.oldCount) \in Int /\ Cursor(h.new, h.newCount) \in Int
          /\ Len(h.lines) \in Nat /\ k \in Nat \ {0} /\ j \in Nat \ {0}
      <3>1. k \in Nat \ {0} /\ j \in Nat \ {0}
        BY <2>1, <2>2
      <3> HIDE DEF h
      <3>2. Cursor(h.old, h.oldCount) \in Int /\ Cursor(h.new, h.newCount) \in Int
        BY <2>3 DEF Cursor
      <3>3. Len(h.lines) \in Nat
        BY <2>3
      <3> QED
        BY <3>1, <3>2, <3>3
    <2>5. AtHunk(k, j) = [section |-> k, hunk |-> j, line |-> 1,
                          old |-> Cursor(h.old, h.oldCount), new |-> Cursor(h.new, h.newCount)]
      BY DEF AtHunk
    <2>6. AtHunk(k, j) \in Cursors
      <3> HIDE DEF h
      <3> QED
        BY <2>4, <2>5 DEF Cursors
    <2>7. InHunk(AtHunk(k, j), input)
      <3>1. 1 <= Len(h.lines) + 1
        <4> HIDE DEF h
        <4> QED
          BY <2>4
      <3>2. k <= Len(Sections) /\ j <= Len(Sections[k].hunks) /\ j > 0
        BY <2>1, <2>2
      <3> QED
        BY <2>5, <3>1, <3>2 DEF InHunk, Sections
    <2> QED
      BY <2>6, <2>7
  <1>3. ASSUME NEW k \in 1 .. Len(Sections), NEW j \in 1 .. Len(Sections[k].hunks)
        PROVE  /\ AfterHunk(k, j) \in Cursors
               /\ AfterHunk(k, j).hunk = 0 \/ InHunk(AfterHunk(k, j), input)
    <2>1. Len(Sections) \in Nat /\ Len(Sections[k].hunks) \in Nat
      BY SelectionFields, SectionFields
    <2>2. CASE j < Len(Sections[k].hunks)
      <3>1. AfterHunk(k, j) = AtHunk(k, j + 1) /\ j + 1 \in 1 .. Len(Sections[k].hunks)
        BY <2>1, <2>2 DEF AfterHunk
      <3> QED
        BY <1>2, <3>1
    <2>3. CASE ~(j < Len(Sections[k].hunks))
      <3>1. AfterHunk(k, j) = AtSection(k + 1) /\ k + 1 \in Nat \ {0}
        BY <2>1, <2>3 DEF AfterHunk
      <3> QED
        BY <1>1, <3>1
    <2> QED
      BY <2>2, <2>3
  <1> QED
    BY <1>1, <1>2, <1>3

LEMMA Within ==
    \A i \in Nat \ {0}, e \in Int, n \in Nat :
        i <= e /\ e <= n => i \in 1 .. n + 1 /\ e + 1 \in 1 .. n + 1
  OBVIOUS

LEMMA ReserveSuffices ==
    \A base, meta, suffix, bytes \in Nat :
        bytes <= PromptBudget - base - PathBytes - Reserve - meta - suffix - HeaderReserve
          => base + (Frame + PathBytes + SpanBytes + (meta + (Header + suffix + bytes)))
                <= PromptBudget
  BY ByteConstants

LEMMA PartOf ==
    ASSUME NEW E, NEW s \in Seq(E), NEW i \in Nat \ {0}, NEW e \in i .. Len(s)
    PROVE  SubSeq(s, i, e) \in Seq(E)
  OBVIOUS

(* What is under the payload limit fits with all that is reserved for it.   *)
LEMMA ChunkFits ==
    ASSUME input \in Selections, AtOK, at.hunk > 0,
           NEW h, h = Sections[at.section].hunks[at.hunk],
           NEW e \in at.line .. Len(h.lines),
           Bytes(SubSeq(h.lines, at.line, e))
              <= PayloadLimit - Sections[at.section].meta - h.suffix - HeaderReserve
    PROVE  Chunk(at.section, at.hunk, at.line, e) \in Alone(input.base)
  <1> DEFINE k == at.section
             j == at.hunk
             i == at.line
             s == Sections[k]
             lines == SubSeq(h.lines, i, e)
             hunk == [old |-> Rebuilt(at.old, OldCount(lines)), oldCount |-> OldCount(lines),
                      new |-> Rebuilt(at.new, NewCount(lines)), newCount |-> NewCount(lines),
                      suffix |-> h.suffix, lines |-> lines]
             chunk == Chunk(k, j, i, e)
  <1>1. /\ k \in Nat \ {0} /\ j \in Nat \ {0} /\ i \in Nat \ {0} /\ at.old \in Int /\ at.new \in Int
        /\ InHunk(at, input)
    BY DEF AtOK, Cursors
  <1>2. k <= Len(Sections) /\ j <= Len(s.hunks) /\ i <= Len(h.lines) + 1
    BY <1>1 DEF InHunk, Sections
  <1>3. k \in 1 .. Len(Sections) /\ s \in FileSection
    BY <1>1, <1>2, SelectionFields
  <1>4. /\ s.file \in DOMAIN Files /\ s.meta \in Nat /\ Len(s.hunks) \in Nat
        /\ j \in 1 .. Len(s.hunks) /\ h \in Hunks
    <2>1. /\ s.file \in DOMAIN Files /\ s.meta \in Nat /\ Len(s.hunks) \in Nat
          /\ \A n \in 1 .. Len(s.hunks) : s.hunks[n] \in Hunks
      BY <1>3, SectionFields, Zenon
    <2>2. j \in 1 .. Len(s.hunks)
      BY <1>1, <1>2, <2>1
    <2> QED
      BY <2>1, <2>2
  <1>5. h.suffix \in Nat /\ h.lines \in Seq(BodyLine) /\ Len(h.lines) \in Nat
    BY <1>4, HunkFields DEF IsHunk
  <1>6. lines \in Seq(BodyLine) /\ e \in Int
    <2>1. lines \in Seq(BodyLine)
      BY <1>1, <1>5, PartOf, Zenon
    <2>2. e \in Int
      BY <1>1, <1>5
    <2> QED
      BY <2>1, <2>2
  <1>7. OldCount(lines) \in Nat /\ NewCount(lines) \in Nat /\ Bytes(lines) \in Nat
    BY <1>6, CountsType, BytesType
  <1>8. chunk = [file |-> s.file, start |-> OwnedStart(k, j, i), end |-> LineAt(k, j, e + 1),
                 hunks |-> <<hunk>>, sizes |-> <<s.meta>> \o LineSizes(hunk)]
    BY DEF Chunk
  <1>9. hunk.suffix = h.suffix /\ hunk.lines = lines
    OBVIOUS
  <1>10. hunk \in Patch
    <2>1. Rebuilt(at.old, OldCount(lines)) \in Int /\ Rebuilt(at.new, NewCount(lines)) \in Int
      <3> HIDE DEF lines
      <3> QED
        BY <1>1, <1>7 DEF Rebuilt
    <2> HIDE DEF lines
    <2> QED
      BY <1>5, <1>6, <1>7, <2>1 DEF Patch
  <1> HIDE DEF hunk, lines, s, chunk
  <1>11. /\ LineSizes(hunk) \in Seq(Nat)
         /\ Total(LineSizes(hunk)) = Header + h.suffix + Bytes(lines)
    BY <1>5, <1>6, <1>9, LineSizesTotal DEF IsHunk
  <1>12. <<s.meta>> \o LineSizes(hunk) \in Seq(Nat)
         /\ Total(<<s.meta>> \o LineSizes(hunk)) = s.meta + (Header + h.suffix + Bytes(lines))
    <2>1. <<s.meta>> \in Seq(Nat) /\ Total(<<s.meta>>) = s.meta
      BY <1>4, TotalOne
    <2> QED
      BY <1>11, <2>1, TotalConcat
  <1>13. Start(k) \in Nat /\ HunkAt(k, j) \in Nat
         /\ \A n \in 1 .. Len(h.lines) + 1 : LineAt(k, j, n) \in Nat
    <2>1. k \in 1 .. Len(Sections) + 1
      BY <1>3, SelectionFields
    <2>2. j \in 1 .. Len(Sections[k].hunks)
      BY <1>4 DEF s
    <2> QED
      BY <1>3, <2>1, <2>2, StartType, LineAtType
  <1>14. OwnedStart(k, j, i) \in Nat /\ LineAt(k, j, e + 1) \in Nat
    <2>0. e \in Int /\ i <= e /\ e <= Len(h.lines)
      BY <1>1, <1>5
    <2>1. i \in 1 .. Len(h.lines) + 1 /\ e + 1 \in 1 .. Len(h.lines) + 1
      BY <1>1, <1>2, <1>5, <2>0, Within, Zenon
    <2> QED
      BY <1>13, <2>1 DEF OwnedStart
  <1>15. chunk \in Fragment /\ chunk.sizes = <<s.meta>> \o LineSizes(hunk)
    BY <1>4, <1>8, <1>10, <1>12, <1>14 DEF Fragment
  <1>16. Payload(<<chunk>>) = Frame + PathBytes + SpanBytes + (s.meta + (Header + h.suffix + Bytes(lines)))
    BY <1>12, <1>15, OnePayload
  <1>17. Bytes(lines) <= PromptBudget - input.base - PathBytes - Reserve - s.meta - h.suffix - HeaderReserve
    BY DEF PayloadLimit, lines, s
  <1>18. input.base + Payload(<<chunk>>) <= PromptBudget
    <2>1. input.base \in Nat
      BY SelectionFields
    <2> QED
      BY <1>4, <1>5, <1>7, <1>16, <1>17, <2>1, ReserveSuffices, Zenon
  <1>19. <<chunk>> \in Seq(Fragment)
    BY <1>15
  <1> QED
    BY <1>15, <1>18, <1>19 DEF Alone, Fitting, chunk

-----------------------------------------------------------------------------
(* Groups (packFiles, splitOversized, clusterFilesEdges).                   *)

LEMMA FileSets ==
    ASSUME NEW S \in SUBSET DOMAIN Files
    PROVE  /\ S \in SUBSET Nat /\ IsFiniteSet(S)
           /\ Cardinality(S) \in Nat /\ Sorted(S) \in Seq(S) /\ Len(Sorted(S)) = Cardinality(S)
           /\ S # {} => Len(Sorted(S)) >= 1
  <1>1. S \in SUBSET Nat /\ IsFiniteSet(S)
    BY GroupingAssumption, FS_Subset
  <1>2. S # {} => Cardinality(S) # 0
    BY <1>1, FS_EmptySet
  <1> QED
    BY <1>1, <1>2, SortedType

(* The steps of packFiles. *)
Full(chunk, p) ==
    /\ chunk # {}
    /\ \/ Cardinality(chunk) >= MaxGroupFiles
       \/ Lines(chunk) + Files[p].lines > MaxGroupLines
Put(acc, p) ==
    IF Full(acc.chunk, p) THEN [out |-> acc.out \cup {acc.chunk}, chunk |-> {p}]
                          ELSE [acc EXCEPT !.chunk = @ \cup {p}]
Chunks(S) == [out : SUBSET ((SUBSET S) \ {{}}), chunk : SUBSET S]
PutRun(r, S) ==
    /\ r \in [0 .. Len(Sorted(S)) -> Chunks(S)]
    /\ r[0] = [out |-> {}, chunk |-> {}]
    /\ \A i \in 1 .. Len(Sorted(S)) : r[i] = Put(r[i - 1], Sorted(S)[i])

LEMMA PutType ==
    ASSUME NEW S, NEW acc \in Chunks(S), NEW p \in S
    PROVE  Put(acc, p) \in Chunks(S) /\ Put(acc, p).chunk # {}
  <1> DEFINE N == (SUBSET S) \ {{}}
  <1>0. /\ acc = [out |-> acc.out, chunk |-> acc.chunk]
        /\ acc.out \in SUBSET N /\ acc.chunk \in SUBSET S
    BY DEF Chunks
  <1>1. CASE Full(acc.chunk, p)
    <2>1. Put(acc, p) = [out |-> acc.out \cup {acc.chunk}, chunk |-> {p}]
      BY <1>1 DEF Put
    <2>2. acc.chunk \in N /\ {p} \in SUBSET S
      BY <1>0, <1>1 DEF Full
    <2> HIDE DEF N
    <2>3. acc.out \cup {acc.chunk} \in SUBSET N
      BY <1>0, <2>2
    <2> QED
      BY <2>1, <2>2, <2>3 DEF Chunks, N
  <1>2. CASE ~Full(acc.chunk, p)
    <2>1. Put(acc, p) = [out |-> acc.out, chunk |-> acc.chunk \cup {p}]
      BY <1>0, <1>2 DEF Put
    <2>2. acc.chunk \cup {p} \in SUBSET S /\ acc.chunk \cup {p} # {}
      BY <1>0
    <2> QED
      BY <1>0, <2>1, <2>2 DEF Chunks
  <1> QED
    BY <1>1, <1>2

LEMMA PackFilesRuns ==
    ASSUME NEW S \in SUBSET DOMAIN Files
    PROVE  \E r : /\ PutRun(r, S)
                  /\ PackFiles(S) = r[Len(Sorted(S))].out \cup {r[Len(Sorted(S))].chunk}
  <1> DEFINE base == [out |-> {}, chunk |-> {}]
             s == Sorted(S)
             V == Chunks(S)
             F == [p \in V \X S |-> Put(p[1], p[2])]
             D == SUBSET (1 .. Len(s))
             result == FoldLeft(Put, base, s)
  <1>1. base \in V
    BY DEF Chunks
  <1>2. s \in Seq(S) /\ Len(s) \in Nat
    BY FileSets
  <1>3. DOMAIN s = 1 .. Len(s) /\ \A i \in 1 .. Len(s) : s[i] \in S
    BY <1>2
  <1> HIDE DEF V
  <1>4. \A acc \in V, p \in S : Put(acc, p) \in V
    BY PutType DEF V
  <1>5. F \in [V \X S -> V]
    BY <1>4
  <1>7. \A t \in D : t # {} => Max(t) \in 1 .. Len(s) /\ t \ {Max(t)} \in D
    <2> HIDE DEF s
    <2> QED
      BY <1>2, IndexSets
  <1> HIDE DEF s, base
  <1>8. PICK g \in [D -> V] : g = [t \in D |-> IF t = {} THEN base ELSE Put(g[t \ {Max(t)}], s[Max(t)])]
    <2> HIDE DEF F
    <2>1. PICK g \in [D -> V] : IsFold(g, F, base, s, Len(s))
      BY <1>1, <1>2, <1>5, FoldExists
    <2>2. ASSUME NEW t \in D, t # {} PROVE g[t] = Put(g[t \ {Max(t)}], s[Max(t)])
      <3>1. g[t \ {Max(t)}] \in V /\ s[Max(t)] \in S
        BY <1>3, <1>7, <2>2
      <3>2. g[t] = F[<<g[t \ {Max(t)}], s[Max(t)]>>]
        BY <2>1, <2>2 DEF IsFold
      <3> QED
        BY <3>1, <3>2 DEF F
    <2>3. g = [t \in D |-> IF t = {} THEN base ELSE Put(g[t \ {Max(t)}], s[Max(t)])]
      BY <2>1, <2>2 DEF IsFold
    <2> QED
      BY <2>3
  <1>9. PICK h : /\ h = [t \in D |-> IF t = {} THEN base ELSE Put(h[t \ {Max(t)}], s[Max(t)])]
                 /\ result = h[1 .. Len(s)]
    <2>1. \E k : k = [t \in SUBSET (DOMAIN s) |-> IF t = {} THEN base ELSE Put(k[t \ {Max(t)}], s[Max(t)])]
      BY <1>3, <1>8
    <2>2. \E h : /\ h = [t \in SUBSET (DOMAIN s) |-> IF t = {} THEN base ELSE Put(h[t \ {Max(t)}], s[Max(t)])]
                 /\ result = h[DOMAIN s]
      BY <2>1 DEF FoldLeft, MapThenFoldSet
    <2> QED
      BY <1>3, <2>2
  <1> HIDE DEF result
  <1>10. Computes(h, F, base, V, s)
    <2>1. h[{}] = base
      BY <1>9
    <2>2. ASSUME NEW t \in D, t # {}, h[t \ {Max(t)}] \in V
          PROVE  h[t] = F[<<h[t \ {Max(t)}], s[Max(t)]>>]
      <3>1. s[Max(t)] \in S
        BY <1>3, <1>7, <2>2
      <3>2. h[t] = Put(h[t \ {Max(t)}], s[Max(t)])
        BY <1>9, <2>2
      <3> QED
        BY <2>2, <3>1, <3>2
    <2> QED
      BY <2>1, <2>2 DEF Computes
  <1>11. PICK r \in [0 .. Len(s) -> V] : IsRun(r, F, base, s) /\ r[Len(s)] = result
    <2> HIDE DEF F
    <2>1. HasRun(h, F, base, V, s)
      BY <1>1, <1>2, <1>5, <1>10, FoldComputes
    <2> QED
      BY <1>9, <2>1 DEF HasRun
  <1>12. ASSUME NEW i \in 1 .. Len(s) PROVE r[i] = Put(r[i - 1], s[i])
    <2>1. i - 1 \in 0 .. Len(s)
      BY <1>2
    <2>2. r[i - 1] \in V /\ s[i] \in S
      BY <1>3, <1>11, <2>1
    <2>3. r[i] = F[<<r[i - 1], s[i]>>]
      BY <1>11 DEF IsRun
    <2> QED
      BY <2>2, <2>3
  <1>13. PutRun(r, S)
    BY <1>11, <1>12 DEF PutRun, IsRun, V, s, base
  <1>14. PackFiles(S) = result.out \cup {result.chunk}
    BY DEF PackFiles, result, s, base, Put, Full
  <1> QED
    BY <1>11, <1>13, <1>14 DEF s

LEMMA PackFilesType ==
    ASSUME NEW S \in SUBSET DOMAIN Files, S # {}
    PROVE  PackFiles(S) \subseteq (SUBSET S) \ {{}}
  <1> DEFINE s == Sorted(S)
             n == Len(s)
  <1>1. PICK r : PutRun(r, S) /\ PackFiles(S) = r[n].out \cup {r[n].chunk}
    BY PackFilesRuns
  <1>2. s \in Seq(S) /\ n \in Nat /\ n >= 1
    BY FileSets
  <1> HIDE DEF s
  <1>3. n - 1 \in 0 .. n /\ n \in 1 .. n /\ s[n] \in S
    BY <1>2
  <1>4. r[n - 1] \in Chunks(S) /\ r[n] = Put(r[n - 1], s[n])
    BY <1>1, <1>3 DEF PutRun, s
  <1>5. r[n] \in Chunks(S) /\ r[n].chunk # {}
    BY <1>3, <1>4, PutType
  <1> QED
    BY <1>1, <1>5 DEF Chunks

LEMMA ClusterType ==
    ASSUME NEW S \in SUBSET DOMAIN Files, NEW imported
    PROVE  ClusterFilesEdges(S, imported) \in Seq((SUBSET S) \ {{}})
  <1> DEFINE key == Keys(S, imported)
             buckets == {{q \in S : key[q] = key[p]} : p \in S}
             split == UNION {SplitOversized(b) : b \in buckets}
             mins == {Min(group) : group \in split}
             firsts == Sorted(mins)
             Of(i) == CHOOSE group \in split : Min(group) = firsts[i]
             N == (SUBSET S) \ {{}}
  <1> HIDE DEF key
  <1>1. \A b \in buckets : b \in SUBSET S /\ b # {}
    <2>1. ASSUME NEW p \in S PROVE p \in {q \in S : key[q] = key[p]}
      OBVIOUS
    <2> QED
      BY <2>1
  <1>2. \A b \in buckets : SplitOversized(b) \subseteq N
    <2>1. ASSUME NEW b \in buckets PROVE SplitOversized(b) \subseteq N
      <3>1. b \in SUBSET S /\ b # {} /\ b \in SUBSET DOMAIN Files
        BY <1>1
      <3>2. PackFiles(b) \subseteq (SUBSET b) \ {{}}
        BY <3>1, PackFilesType
      <3>3. (SUBSET b) \ {{}} \subseteq N /\ {b} \subseteq N
        BY <3>1
      <3> HIDE DEF N
      <3> QED
        BY <3>2, <3>3 DEF SplitOversized
    <2> QED
      BY <2>1
  <1>3. split \subseteq N
    BY <1>2
  <1> HIDE DEF split
  <1>4. \A group \in split : Min(group) \in S
    <2>1. ASSUME NEW group \in split PROVE Min(group) \in S
      <3>1. group \in SUBSET S /\ group # {} /\ group \in SUBSET Nat
        BY <1>3, GroupingAssumption
      <3> QED
        BY <3>1, MinIsLeast
    <2> QED
      BY <2>1
  <1>5. mins \in SUBSET DOMAIN Files
    BY <1>4
  <1>6. firsts \in Seq(mins) /\ Len(firsts) \in Nat
    <2> HIDE DEF mins
    <2> QED
      BY <1>5, FileSets
  <1>7. DOMAIN firsts = 1 .. Len(firsts) /\ \A i \in 1 .. Len(firsts) : firsts[i] \in mins
    <2> HIDE DEF mins, firsts
    <2> QED
      BY <1>6
  <1>8. ASSUME NEW i \in 1 .. Len(firsts) PROVE Of(i) \in N
    <2>1. \E group \in split : Min(group) = firsts[i]
      <3> HIDE DEF firsts
      <3> QED
        BY <1>7
    <2>2. Of(i) \in split
      BY <2>1
    <2> QED
      BY <1>3, <2>2
  <1>9. ClusterFilesEdges(S, imported) = [i \in DOMAIN firsts |-> Of(i)]
    BY DEF ClusterFilesEdges, key, split
  <1> HIDE DEF Of, firsts, N
  <1> QED
    BY <1>6, <1>7, <1>8, <1>9 DEF N

(* The imports between changed files (goImportEdges).                       *)
Edge == [from : DOMAIN Files, to : DOMAIN Files]
LEMMA EdgesType ==
    ASSUME NEW S \in SUBSET DOMAIN Files, NEW imports
    PROVE  GoImportEdges(Sorted(S), imports) \in Seq(Edge)
  <1> DEFINE listing == Sorted(S)
             Hit(p) == IF PackageOf(p) = {} THEN {} ELSE UniqueImported(listing, p, imports[p])
             EdgeOf(p) == IF Hit(p) = {} THEN <<>>
                          ELSE <<[from |-> p, to |-> CHOOSE q \in Hit(p) : TRUE]>>
             parts == [i \in DOMAIN listing |-> EdgeOf(listing[i])]
  <1>1. listing \in Seq(S) /\ Len(listing) \in Nat
    BY FileSets
  <1> HIDE DEF listing
  <1>2. Range(listing) \in SUBSET DOMAIN Files
    BY <1>1 DEF Range
  <1>3. ASSUME NEW pkg PROVE Representative(listing, pkg) \subseteq DOMAIN Files
    <2> DEFINE in == {p \in Range(listing) : pkg \in PackageOf(p)}
    <2>1. in \in SUBSET DOMAIN Files /\ in \in SUBSET Nat
      BY <1>2, GroupingAssumption
    <2>2. Representative(listing, pkg) = IF in = {} THEN {} ELSE {Min(in)}
      BY DEF Representative
    <2> HIDE DEF in
    <2> QED
      BY <2>1, <2>2, MinIsLeast
  <1>4. ASSUME NEW p PROVE Hit(p) \subseteq DOMAIN Files
    <2>1. UniqueImported(listing, p, imports[p]) \subseteq
              UNION {Representative(listing, pkg) : pkg \in imports[p]}
      BY DEF UniqueImported
    <2>2. UNION {Representative(listing, pkg) : pkg \in imports[p]} \subseteq DOMAIN Files
      BY <1>3
    <2> QED
      BY <2>1, <2>2
  <1> HIDE DEF Hit
  <1>5. ASSUME NEW p \in DOMAIN Files PROVE EdgeOf(p) \in Seq(Edge)
    <2>1. CASE Hit(p) = {}
      BY <2>1
    <2>2. CASE Hit(p) # {}
      <3> DEFINE to == CHOOSE q \in Hit(p) : TRUE
      <3>1. to \in DOMAIN Files
        BY <1>4, <2>2
      <3>2. EdgeOf(p) = <<[from |-> p, to |-> to]>>
        BY <2>2
      <3> HIDE DEF to, EdgeOf
      <3> QED
        BY <3>1, <3>2 DEF Edge
    <2> QED
      BY <2>1, <2>2
  <1> HIDE DEF EdgeOf
  <1>6. parts \in Seq(Seq(Edge))
    <2>1. DOMAIN listing = 1 .. Len(listing) /\ \A i \in 1 .. Len(listing) : listing[i] \in DOMAIN Files
      BY <1>1
    <2> QED
      BY <1>1, <1>5, <2>1
  <1>7. GoImportEdges(listing, imports) = FlattenSeq(parts)
    BY DEF GoImportEdges, EdgeOf, Hit
  <1> HIDE DEF parts
  <1> QED
    BY <1>6, <1>7, FlattenElements DEF listing

-----------------------------------------------------------------------------
(* Packing (buildReviewPlan, groups loop).                                  *)

LEMMA FragmentsOfType ==
    ASSUME NEW T, fragments \in Seq(T), NEW group \in SUBSET DOMAIN Files
    PROVE  FragmentsOf(group) \in Seq(T)
  <1> DEFINE Of(p) == Sorted({n \in DOMAIN fragments : fragments[n].file = p})
             files == Sorted(group)
             parts == [i \in DOMAIN files |-> Of(files[i])]
             order == FlattenSeq(parts)
             N == DOMAIN fragments
  <1>1. N = 1 .. Len(fragments) /\ Len(fragments) \in Nat /\ \A n \in N : fragments[n] \in T
    OBVIOUS
  <1> HIDE DEF N
  <1>2. ASSUME NEW p PROVE Of(p) \in Seq(N)
    <2> DEFINE M == {n \in DOMAIN fragments : fragments[n].file = p}
    <2>1. M \in SUBSET N
      BY DEF N
    <2> HIDE DEF M
    <2>2. M \in SUBSET Nat /\ IsFiniteSet(M)
      <3>1. N \in SUBSET Nat /\ IsFiniteSet(N)
        <4>1. 1 \in Int /\ Len(fragments) \in Int
          BY <1>1
        <4> QED
          BY <1>1, <4>1, FS_Interval
      <3> QED
        BY <2>1, <3>1, FS_Subset
    <2>3. Sorted(M) \in Seq(M)
      BY <2>2, SortedType
    <2>4. Sorted(M) \in Seq(N)
      BY <2>1, <2>3
    <2> QED
      BY <2>4 DEF M
  <1>3. DOMAIN files = 1 .. Len(files) /\ Len(files) \in Nat
    <2>1. files \in Seq(group)
      BY FileSets
    <2> HIDE DEF files
    <2> QED
      BY <2>1
  <1> HIDE DEF files, Of
  <1>4. parts \in Seq(Seq(N))
    BY <1>2, <1>3
  <1> HIDE DEF parts
  <1>5. order \in Seq(N)
    BY <1>4, FlattenElements
  <1> HIDE DEF order
  <1>6. FragmentsOf(group) = [n \in DOMAIN order |-> fragments[order[n]]]
    BY DEF FragmentsOf, order, parts, Of, files
  <1>7. DOMAIN order = 1 .. Len(order) /\ Len(order) \in Nat /\ \A n \in DOMAIN order : order[n] \in N
    BY <1>5
  <1> QED
    BY <1>1, <1>6, <1>7

(* Local tasks: some fragments, that fit.                                   *)
Locals(base) == Fitting(base) \ {<<>>}
Packings(base) == [pending : Fitting(base) \cup {<<>>}, locals : Seq(Locals(base))]

LEMMA FlushType ==
    ASSUME NEW base, NEW acc \in Packings(base)
    PROVE  Flush(acc) \in Packings(base) /\ Flush(acc).pending = <<>>
  <1>1. /\ acc.pending \in Fitting(base) \cup {<<>>} /\ acc.locals \in Seq(Locals(base))
        /\ acc = [pending |-> acc.pending, locals |-> acc.locals]
    BY DEF Packings
  <1>2. CASE acc.pending = <<>>
    BY <1>1, <1>2 DEF Flush
  <1>3. CASE acc.pending # <<>>
    <2>1. acc.pending \in Locals(base)
      BY <1>1, <1>3 DEF Locals
    <2>2. Append(acc.locals, acc.pending) \in Seq(Locals(base))
      BY <1>1, <2>1
    <2>3. Flush(acc) = [pending |-> <<>>, locals |-> Append(acc.locals, acc.pending)]
      BY <1>3 DEF Flush
    <2> QED
      BY <2>2, <2>3 DEF Packings
  <1> QED
    BY <1>2, <1>3

LEMMA PlaceType ==
    ASSUME input.base \in Nat, NEW acc \in Packings(input.base), NEW frags \in Fitting(input.base)
    PROVE  Place(acc, frags) \in Packings(input.base)
  <1> DEFINE both == acc.pending \o frags
  <1>1. /\ acc.pending \in Fitting(input.base) \cup {<<>>}
        /\ acc.locals \in Seq(Locals(input.base))
    BY DEF Packings
  <1>2. acc.pending \in Seq(Fragment) /\ frags \in Seq(Fragment)
    <2>1. \A x \in Fitting(input.base) : x \in Seq(Fragment)
      BY DEF Fitting
    <2>2. <<>> \in Seq(Fragment)
      OBVIOUS
    <2> QED
      BY <1>1, <2>1, <2>2
  <1>3. both \in Seq(Fragment)
    BY <1>2
  <1> HIDE DEF both
  <1>4. CASE Fits(both)
    <2>1. both \in Fitting(input.base)
      BY <1>3, <1>4, FitsIsFitting
    <2>2. Place(acc, frags) = [acc EXCEPT !.pending = both]
      BY <1>4 DEF Place, both
    <2> QED
      BY <1>1, <2>1, <2>2 DEF Packings
  <1>5. CASE ~Fits(both)
    <2>1. Place(acc, frags) = [Flush(acc) EXCEPT !.pending = frags]
      BY <1>5 DEF Place, both
    <2>2. Flush(acc) \in Packings(input.base)
      BY FlushType
    <2> QED
      BY <2>1, <2>2 DEF Packings
  <1> QED
    BY <1>4, <1>5

(* Packing the fragments of a group one by one. *)
PlaceRun(r, acc, frags) ==
    /\ r \in [0 .. Len(frags) -> Packings(input.base)]
    /\ r[0] = Flush(acc)
    /\ \A i \in 1 .. Len(frags) : r[i] = Place(r[i - 1], <<frags[i]>>)

LEMMA PackedGroupRuns ==
    ASSUME input.base \in Nat, NEW acc \in Packings(input.base),
           NEW frags \in Seq(Alone(input.base))
    PROVE  \E r : /\ PlaceRun(r, acc, frags)
                  /\ PackedGroup(acc, frags) = IF Fits(frags) THEN Place(acc, frags)
                                               ELSE Flush(r[Len(frags)])
  <1> DEFINE Step(a, f) == Place(a, <<f>>)
             base == Flush(acc)
             E == Alone(input.base)
             V == Packings(input.base)
             F == [p \in V \X E |-> Step(p[1], p[2])]
             D == SUBSET (1 .. Len(frags))
             result == FoldLeft(Step, base, frags)
  <1>1. base \in V
    BY FlushType
  <1>2. Len(frags) \in Nat /\ DOMAIN frags = 1 .. Len(frags) /\ \A i \in 1 .. Len(frags) : frags[i] \in E
    OBVIOUS
  <1>3. \A a \in V, f \in E : Step(a, f) \in V
    <2>1. \A f \in E : <<f>> \in Fitting(input.base)
      BY DEF Alone
    <2> QED
      BY <2>1, PlaceType
  <1> HIDE DEF Step, V, E
  <1>4. F \in [V \X E -> V]
    BY <1>3
  <1>5. \A t \in D : t # {} => Max(t) \in 1 .. Len(frags) /\ t \ {Max(t)} \in D
    BY <1>2, IndexSets
  <1> HIDE DEF base
  <1>6. PICK g \in [D -> V] : g = [t \in D |-> IF t = {} THEN base ELSE Step(g[t \ {Max(t)}], frags[Max(t)])]
    <2> HIDE DEF F
    <2>0. frags \in Seq(E)
      BY DEF E
    <2>1. PICK g \in [D -> V] : IsFold(g, F, base, frags, Len(frags))
      BY <1>1, <1>4, <2>0, FoldExists
    <2>2. ASSUME NEW t \in D, t # {} PROVE g[t] = Step(g[t \ {Max(t)}], frags[Max(t)])
      <3>1. g[t \ {Max(t)}] \in V /\ frags[Max(t)] \in E
        BY <1>2, <1>5, <2>2
      <3>2. g[t] = F[<<g[t \ {Max(t)}], frags[Max(t)]>>]
        BY <2>1, <2>2 DEF IsFold
      <3> QED
        BY <3>1, <3>2 DEF F
    <2>3. g = [t \in D |-> IF t = {} THEN base ELSE Step(g[t \ {Max(t)}], frags[Max(t)])]
      BY <2>1, <2>2 DEF IsFold
    <2> QED
      BY <2>3
  <1>7. PICK h : /\ h = [t \in D |-> IF t = {} THEN base ELSE Step(h[t \ {Max(t)}], frags[Max(t)])]
                 /\ result = h[1 .. Len(frags)]
    <2>1. \E k : k = [t \in SUBSET (DOMAIN frags) |->
                         IF t = {} THEN base ELSE Step(k[t \ {Max(t)}], frags[Max(t)])]
      BY <1>2, <1>6
    <2>2. \E h : /\ h = [t \in SUBSET (DOMAIN frags) |->
                            IF t = {} THEN base ELSE Step(h[t \ {Max(t)}], frags[Max(t)])]
                 /\ result = h[DOMAIN frags]
      BY <2>1 DEF FoldLeft, MapThenFoldSet
    <2> QED
      BY <1>2, <2>2
  <1> HIDE DEF result
  <1>8. Computes(h, F, base, V, frags)
    <2>1. h[{}] = base
      BY <1>7
    <2>2. ASSUME NEW t \in D, t # {}, h[t \ {Max(t)}] \in V
          PROVE  h[t] = F[<<h[t \ {Max(t)}], frags[Max(t)]>>]
      <3>1. frags[Max(t)] \in E
        BY <1>2, <1>5, <2>2
      <3>2. h[t] = Step(h[t \ {Max(t)}], frags[Max(t)])
        BY <1>7, <2>2
      <3> QED
        BY <2>2, <3>1, <3>2
    <2> QED
      BY <2>1, <2>2 DEF Computes
  <1>9. PICK r \in [0 .. Len(frags) -> V] : IsRun(r, F, base, frags) /\ r[Len(frags)] = result
    <2> HIDE DEF F
    <2>0. frags \in Seq(E)
      BY DEF E
    <2>1. HasRun(h, F, base, V, frags)
      BY <1>1, <1>4, <1>8, <2>0, FoldComputes
    <2> QED
      BY <1>7, <2>1 DEF HasRun
  <1>10. ASSUME NEW i \in 1 .. Len(frags) PROVE r[i] = Step(r[i - 1], frags[i])
    <2>1. i - 1 \in 0 .. Len(frags)
      BY <1>2
    <2>2. r[i - 1] \in V /\ frags[i] \in E
      BY <1>2, <1>9, <2>1
    <2>3. r[i] = F[<<r[i - 1], frags[i]>>]
      BY <1>9 DEF IsRun
    <2> QED
      BY <2>2, <2>3
  <1>11. PlaceRun(r, acc, frags)
    BY <1>9, <1>10 DEF PlaceRun, IsRun, V, Step, base
  <1>12. PackedGroup(acc, frags) = IF Fits(frags) THEN Place(acc, frags) ELSE Flush(result)
    BY DEF PackedGroup, result, Step, base
  <1> QED
    BY <1>9, <1>11, <1>12

LEMMA PackedGroupType ==
    ASSUME input.base \in Nat, NEW acc \in Packings(input.base),
           NEW frags \in Seq(Alone(input.base))
    PROVE  PackedGroup(acc, frags) \in Packings(input.base)
  <1>1. PICK r : /\ PlaceRun(r, acc, frags)
                 /\ PackedGroup(acc, frags) = IF Fits(frags) THEN Place(acc, frags)
                                              ELSE Flush(r[Len(frags)])
    BY PackedGroupRuns
  <1>2. CASE Fits(frags)
    <2>1. \A f \in Alone(input.base) : f \in Fragment
      BY DEF Alone
    <2>2. frags \in Seq(Fragment)
      BY <2>1
    <2>3. frags \in Fitting(input.base)
      BY <1>2, <2>2, FitsIsFitting
    <2> QED
      BY <1>1, <1>2, <2>3, PlaceType
  <1>3. CASE ~Fits(frags)
    <2>1. Len(frags) \in 0 .. Len(frags)
      OBVIOUS
    <2>2. r[Len(frags)] \in Packings(input.base)
      BY <1>1, <2>1 DEF PlaceRun
    <2> QED
      BY <1>1, <1>3, <2>2, FlushType
  <1> QED
    BY <1>2, <1>3

-----------------------------------------------------------------------------
(* Boundaries (planAddBoundaries).                                          *)

LEMMA LocalsFields ==
    ASSUME NEW base, locals \in Seq(Locals(base))
    PROVE  /\ DOMAIN locals = 1 .. Len(locals) /\ Len(locals) \in Nat
           /\ \A i \in DOMAIN locals : locals[i] \in Seq(Fragment) /\ locals[i] \in Fitting(base)
  <1>1. \A x \in Locals(base) : x \in Seq(Fragment) /\ x \in Fitting(base)
    BY DEF Locals, Fitting
  <1>2. \A i \in DOMAIN locals : locals[i] \in Locals(base)
    OBVIOUS
  <1> QED
    BY <1>1, <1>2

LEMMA ChangedFilesType ==
    ASSUME input \in Selections
    PROVE  ChangedFiles \in SUBSET DOMAIN Files
  <1>1. \A k \in DOMAIN Sections : Sections[k].file \in DOMAIN Files
    BY SelectionFields, SectionFields
  <1> QED
    BY <1>1 DEF ChangedFiles, Range

LEMMA ManifestType ==
    ASSUME input \in Selections, NEW base, locals \in Seq(Locals(base))
    PROVE  Manifest \in Nat
  <1> DEFINE Entry(frags) ==
                 TaskBytes + PathBytes * Cardinality(Paths(frags)) + SpanBytes * Len(frags)
             entries == [i \in DOMAIN locals |-> Entry(locals[i])]
  <1>1. \A frags \in Seq(Fragment) : Entry(frags) \in Nat
    <2>1. ASSUME NEW frags \in Seq(Fragment) PROVE Entry(frags) \in Nat
      <3>1. PathBytes * Cardinality(Paths(frags)) \in Nat
        BY PathsFinite, ByteConstants
      <3>2. SpanBytes * Len(frags) \in Nat
        BY ByteConstants
      <3> QED
        BY <3>1, <3>2, ByteConstants
    <2> QED
      BY <2>1
  <1>2. entries \in Seq(Nat)
    <2> HIDE DEF Entry
    <2>1. /\ DOMAIN locals = 1 .. Len(locals) /\ Len(locals) \in Nat
          /\ \A i \in DOMAIN locals : locals[i] \in Seq(Fragment)
      BY LocalsFields
    <2> QED
      BY <1>1, <2>1
  <1>3. Total(entries) \in Nat
    <2> HIDE DEF entries
    <2> QED
      BY <1>2, TotalType
  <1>4. PathBytes * Cardinality(ChangedFiles) \in Nat
    <2>1. Cardinality(ChangedFiles) \in Nat
      BY ChangedFilesType, FileSets
    <2> QED
      BY <2>1, ByteConstants
  <1>5. Manifest = input.base + Frame + PathBytes * Cardinality(ChangedFiles) + Total(entries)
    BY DEF Manifest
  <1> HIDE DEF entries
  <1> QED
    BY <1>3, <1>4, <1>5, SelectionFields, ByteConstants

LEMMA TwoLeast ==
    \A x, y \in Int : Min({x, y}) \in Int /\ Min({x, y}) <= x /\ Min({x, y}) <= y
  <1>1. ASSUME NEW x \in Int, NEW y \in Int
        PROVE  Min({x, y}) \in Int /\ Min({x, y}) <= x /\ Min({x, y}) <= y
    <2>1. \E m \in {x, y} : \A z \in {x, y} : m <= z
      OBVIOUS
    <2> QED
      BY <2>1 DEF Min
  <1> QED
    BY <1>1

LEMMA Halves == \A x \in Int : x \div 1 = x /\ x \div 2 \in Int /\ (x \div 2) + (x \div 2) <= x
  OBVIOUS

Boundary ==
    [kind : {"boundary"}, paths : SUBSET DOMAIN Files, spans : {<<>>},
     about : Nat \X Nat \X Seq(DOMAIN Files), prompt : 0 .. PromptBudget]

(* A boundary prompt keeps to the budget with the excerpts of its scopes.   *)
LEMMA BoundaryFits ==
    ASSUME input \in Selections, NEW base, locals \in Seq(Locals(base)),
           NEW a \in DOMAIN locals, NEW b \in DOMAIN locals, NEW edge \in Seq(DOMAIN Files),
           ~(ExcerptBudget(a, b, edge) < MinExcerpt)
    PROVE  BoundaryTask(a, b, edge) \in Boundary /\ BoundaryTask(a, b, edge).about[1] = a
  <1> DEFINE head == BoundaryHead(edge)
             room == ExcerptBudget(a, b, edge)
             left == PromptBudget - head - ExcerptRoom
             scopes == Scopes(a, b)
             Quoted(i) == TaskBytes + Excerpt(Sizes(locals[i]), room)
             quoted == [n \in DOMAIN scopes |-> Quoted(scopes[n])]
             task == BoundaryTask(a, b, edge)
  <1>1. head \in Nat
    <2>1. PathBytes * Len(edge) \in Nat
      BY ByteConstants
    <2> QED
      BY <2>1, ManifestType, ByteConstants DEF BoundaryHead
  <1>2. left \in Int /\ head + left + ExcerptRoom = PromptBudget
    <2> HIDE DEF head
    <2> QED
      BY <1>1, ByteConstants
  <1>3. room = Min({MaxExcerpt, left \div Len(scopes)})
    BY DEF ExcerptBudget
  <1>4. Len(scopes) = 1 \/ Len(scopes) = 2
    BY DEF Scopes
  <1> HIDE DEF left, head
  <1>5. room \in Int /\ room <= left \div Len(scopes)
    <2>1. left \div 1 \in Int /\ left \div 2 \in Int /\ MaxExcerpt \in Int
      BY <1>2, Halves, ByteConstants
    <2>2. left \div Len(scopes) \in Int
      BY <1>4, <2>1
    <2> HIDE DEF scopes, room
    <2> QED
      BY <1>3, <2>1, <2>2, TwoLeast
  <1>6. room \in Nat /\ room >= MinExcerpt
    <2>1. ~(room < MinExcerpt)
      OBVIOUS
    <2> HIDE DEF room
    <2> QED
      BY <1>5, <2>1, ByteConstants
  <1> HIDE DEF room
  <1>7. \A i \in DOMAIN locals : Quoted(i) \in Nat /\ Quoted(i) <= TaskBytes + room
    <2>1. ASSUME NEW i \in DOMAIN locals
          PROVE  Quoted(i) \in Nat /\ Quoted(i) <= TaskBytes + room
      <3>1. Sizes(locals[i]) \in Seq(Nat)
        BY LocalsFields, SizesType
      <3>2. Excerpt(Sizes(locals[i]), room) \in Nat /\ Excerpt(Sizes(locals[i]), room) <= room
        BY <1>6, <3>1, ExcerptFits
      <3> QED
        BY <1>6, <3>2, ByteConstants
    <2> QED
      BY <2>1
  <1> HIDE DEF Quoted
  <1>8. Total(quoted) \in Nat /\ Total(quoted) <= ExcerptRoom + left
    <2>1. CASE a = b
      <3>1. scopes = <<a>>
        BY <2>1 DEF Scopes
      <3>2. quoted = <<Quoted(a)>> /\ Len(scopes) = 1
        BY <3>1
      <3>3. Total(quoted) = Quoted(a)
        BY <1>7, <3>2, TotalOne
      <3>4. room <= left
        BY <1>2, <1>5, <3>2, Halves
      <3> HIDE DEF quoted
      <3> QED
        BY <1>2, <1>6, <1>7, <3>3, <3>4, ByteConstants
    <2>2. CASE a # b
      <3>1. scopes = <<a, b>>
        BY <2>2 DEF Scopes
      <3>2. quoted = <<Quoted(a), Quoted(b)>> /\ Len(scopes) = 2
        BY <3>1
      <3>3. <<Quoted(a), Quoted(b)>> = <<Quoted(a)>> \o <<Quoted(b)>>
        OBVIOUS
      <3>4. Quoted(a) \in Nat /\ Quoted(b) \in Nat
        BY <1>7
      <3>5. Total(quoted) = Quoted(a) + Quoted(b)
        <4>1. /\ <<Quoted(a)>> \in Seq(Nat) /\ Total(<<Quoted(a)>>) = Quoted(a)
              /\ <<Quoted(b)>> \in Seq(Nat) /\ Total(<<Quoted(b)>>) = Quoted(b)
          BY <3>4, TotalOne
        <4>2. Total(<<Quoted(a)>> \o <<Quoted(b)>>) = Total(<<Quoted(a)>>) + Total(<<Quoted(b)>>)
          BY <4>1, TotalConcat, Zenon
        <4> HIDE DEF quoted
        <4> QED
          BY <3>2, <3>3, <4>1, <4>2
      <3>6. room + room <= left
        BY <1>2, <1>5, <1>6, <3>2, Halves
      <3> HIDE DEF quoted
      <3> QED
        BY <1>2, <1>6, <1>7, <3>4, <3>5, <3>6, ByteConstants
    <2> QED
      BY <2>1, <2>2
  <1>9. task = [kind |-> "boundary", paths |-> Paths(locals[a]) \cup Paths(locals[b]),
                spans |-> <<>>, about |-> <<a, b, edge>>, prompt |-> head + Total(quoted)]
    BY DEF BoundaryTask, quoted, scopes, Quoted, head, room
  <1>10. Paths(locals[a]) \cup Paths(locals[b]) \in SUBSET DOMAIN Files
    BY LocalsFields, PathsFinite
  <1>11. head + Total(quoted) \in 0 .. PromptBudget
    <2> HIDE DEF quoted
    <2> QED
      BY <1>1, <1>2, <1>8, ByteConstants
  <1>12. a \in Nat /\ b \in Nat
    BY LocalsFields
  <1> HIDE DEF quoted, task
  <1> QED
    BY <1>9, <1>10, <1>11, <1>12 DEF Boundary, task

(* The pair that is covered next is one of those that are not yet.          *)
LEMMA FirstIsOne ==
    ASSUME NEW triples \in SUBSET (Nat \X Nat \X Nat), triples # {}
    PROVE  First(triples) \in triples
  <1>1. PICK i \in {x[1] : x \in triples} : \A j \in {x[1] : x \in triples} : i <= j
    <2>1. {x[1] : x \in triples} \subseteq Nat /\ {x[1] : x \in triples} # {}
      OBVIOUS
    <2> QED
      BY <2>1, HasLeast
  <1> DEFINE A == {x \in triples : x[1] = i}
  <1>2. PICK k \in {x[2] : x \in A} : \A j \in {x[2] : x \in A} : k <= j
    <2>1. {x[2] : x \in A} \subseteq Nat /\ {x[2] : x \in A} # {}
      OBVIOUS
    <2> QED
      BY <2>1, HasLeast
  <1> DEFINE B == {x \in A : x[2] = k}
  <1>3. PICK m \in {x[3] : x \in B} : \A j \in {x[3] : x \in B} : m <= j
    <2>1. {x[3] : x \in B} \subseteq Nat /\ {x[3] : x \in B} # {}
      OBVIOUS
    <2> QED
      BY <2>1, HasLeast
  <1>4. PICK x \in B : x[3] = m
    OBVIOUS
  <1>5. x \in triples /\ x[1] = i /\ x[2] = k /\ x[3] = m
    <2>1. x \in A /\ x[2] = k
      OBVIOUS
    <2> QED
      BY <1>4, <2>1
  <1>6. ASSUME NEW y \in triples
        PROVE  \/ x[1] < y[1]
               \/ x[1] = y[1] /\ x[2] < y[2]
               \/ x[1] = y[1] /\ x[2] = y[2] /\ x[3] <= y[3]
    <2>1. x[1] \in Nat /\ x[2] \in Nat /\ y[1] \in Nat /\ y[2] \in Nat
      OBVIOUS
    <2>2. x[1] <= y[1]
      BY <1>1, <1>5
    <2>3. y[1] = i => x[2] <= y[2]
      BY <1>2, <1>5
    <2>4. y[1] = i /\ y[2] = k => x[3] <= y[3]
      BY <1>3, <1>5
    <2> QED
      BY <1>5, <2>1, <2>2, <2>3, <2>4
  <1> QED
    BY <1>5, <1>6 DEF First

-----------------------------------------------------------------------------
(* The inductive invariant.                                                 *)

Typed ==
    /\ input \in Selections
    /\ phase \in {"split", "pack", "border", "planned", "refused"}
    /\ edges \in Seq(Edge) /\ groups \in Seq(SUBSET DOMAIN Files) /\ packed \in Nat
(* Whatever is packed fits: each fragment alone, and the tasks so far.      *)
Packable ==
    /\ fragments \in Seq(Alone(input.base))
    /\ pending \in Fitting(input.base) \cup {<<>>} /\ locals \in Seq(Locals(input.base))
(* The first boundaries are the conservative ones, one for each task.       *)
Bordered ==
    /\ boundaries \in Seq(Boundary)
    /\ phase \in {"split", "pack"} => boundaries = <<>>
    /\ \A i \in DOMAIN boundaries : i <= Len(locals) => boundaries[i].about[1] = i
(* A plan has all boundaries, and no fragment was ever too large to pack.   *)
Finished ==
    /\ phase = "planned" => Len(boundaries) >= Len(locals) /\ Uncovered = {}
    /\ reason # "fragment"
PlanInv == Typed /\ AtOK /\ Packable /\ Bordered /\ Finished

LEMMA PlanInit == Init => PlanInv
  <1> SUFFICES ASSUME Init PROVE PlanInv
    OBVIOUS
  <1>1. /\ input \in Inputs /\ phase = "split" /\ reason = "" /\ at = AtSection(1)
        /\ fragments = <<>> /\ edges = <<>> /\ groups = <<>> /\ packed = 0
        /\ pending = <<>> /\ locals = <<>> /\ boundaries = <<>>
    BY DEF Init
  <1>2. input \in Selections
    BY <1>1, InputsAssumption
  <1>3. Typed
    <2>1. <<>> \in Seq(Edge) /\ <<>> \in Seq(SUBSET DOMAIN Files) /\ 0 \in Nat
      OBVIOUS
    <2> QED
      BY <1>1, <1>2, <2>1 DEF Typed
  <1>4. AtOK
    <2>1. 1 \in Nat \ {0}
      OBVIOUS
    <2> QED
      BY <1>1, <1>2, <2>1, CursorTypes DEF AtOK
  <1>5. Packable
    <2>1. <<>> \in Seq(Alone(input.base)) /\ <<>> \in Seq(Locals(input.base))
      OBVIOUS
    <2> QED
      BY <1>1, <2>1 DEF Packable
  <1>6. Bordered
    <2>1. <<>> \in Seq(Boundary) /\ DOMAIN <<>> = {}
      OBVIOUS
    <2> QED
      BY <1>1, <2>1 DEF Bordered
  <1>7. Finished
    BY <1>1 DEF Finished
  <1> QED
    BY <1>3, <1>4, <1>5, <1>6, <1>7 DEF PlanInv

(* What a step that leaves some variables alone keeps.                      *)
LEMMA Kept ==
    ASSUME PlanInv, input' = input
    PROVE  /\ (phase' \in {"split", "pack", "border", "planned", "refused"} /\
                 UNCHANGED <<edges, groups, packed>>) => Typed'
           /\ UNCHANGED at => AtOK'
           /\ UNCHANGED <<fragments, pending, locals>> => Packable'
           /\ (UNCHANGED <<locals, boundaries>> /\ (phase' \in {"split", "pack"} => phase' = phase))
                 => Bordered'
  <1>1. Typed /\ AtOK /\ Packable /\ Bordered
    BY DEF PlanInv
  <1>2. (phase' \in {"split", "pack", "border", "planned", "refused"} /\
                 UNCHANGED <<edges, groups, packed>>) => Typed'
    BY <1>1 DEF Typed
  <1>3. UNCHANGED at => AtOK'
    BY <1>1 DEF AtOK
  <1>4. UNCHANGED <<fragments, pending, locals>> => Packable'
    BY <1>1 DEF Packable
  <1>5. (UNCHANGED <<locals, boundaries>> /\ (phase' \in {"split", "pack"} => phase' = phase))
                 => Bordered'
    BY <1>1 DEF Bordered
  <1> QED
    BY <1>2, <1>3, <1>4, <1>5

LEMMA RefuseKeeps == ASSUME PlanInv, NEW why, why # "fragment", Refuse(why) PROVE PlanInv'
  <1>1. /\ phase' = "refused" /\ reason' = why
        /\ UNCHANGED <<input, at, fragments, edges, groups, packed, pending, locals, boundaries>>
    BY DEF Refuse
  <1>2. Typed' /\ AtOK' /\ Packable' /\ Bordered'
    BY <1>1, Kept
  <1>3. Finished'
    BY <1>1 DEF Finished
  <1> QED
    BY <1>2, <1>3 DEF PlanInv

LEMMA UnplannedKeeps ==
    ASSUME PlanInv, phase' # "planned", reason' = reason
    PROVE  Finished'
  BY DEF PlanInv, Finished

LEMMA BeginSectionKeeps == ASSUME PlanInv, BeginSection PROVE PlanInv'
  <1> DEFINE k == at.section
             s == Sections[k]
  <1>1. /\ phase = "split" /\ at.hunk = 0 /\ k <= Len(Sections)
        /\ \/ /\ Fits(<<Whole(k)>>)
              /\ fragments' = Append(fragments, Whole(k)) /\ at' = AtSection(k + 1)
              /\ UNCHANGED <<phase, SplitRest>>
           \/ Refuse(IF s.hunks = <<>> THEN "binary" ELSE "metadata")
           \/ /\ s.hunks # <<>> /\ at' = AtHunk(k, 1)
              /\ UNCHANGED <<phase, fragments, SplitRest>>
    BY DEF BeginSection
  <1>2. /\ input \in Selections /\ at \in Cursors /\ fragments \in Seq(Alone(input.base))
        /\ pending \in Fitting(input.base) \cup {<<>>} /\ locals \in Seq(Locals(input.base))
    BY DEF PlanInv, Typed, AtOK, Packable
  <1>3. k \in Nat \ {0} /\ k \in 1 .. Len(Sections) /\ k + 1 \in Nat \ {0}
    <2>1. k \in Nat \ {0} /\ Len(Sections) \in Nat
      BY <1>2, SelectionFields DEF Cursors
    <2> HIDE DEF k
    <2> QED
      BY <1>1, <2>1
  <1>4. input.base \in Nat
    BY <1>2, SelectionFields
  <1> HIDE DEF k, s
  <1>5. CASE /\ Fits(<<Whole(k)>>)
             /\ fragments' = Append(fragments, Whole(k)) /\ at' = AtSection(k + 1)
             /\ UNCHANGED <<phase, SplitRest>>
    <2>1. Whole(k) \in Alone(input.base)
      <3>1. Whole(k) \in Fragment
        BY <1>2, <1>3, WholeType
      <3>2. <<Whole(k)>> \in Seq(Fragment)
        BY <3>1
      <3>3. <<Whole(k)>> \in Fitting(input.base)
        BY <1>4, <1>5, <3>2, FitsIsFitting
      <3> QED
        BY <3>1, <3>3 DEF Alone
    <2>2. /\ UNCHANGED <<phase, input, reason, edges, groups, packed, pending, locals, boundaries>>
          /\ phase = "split"
      BY <1>1, <1>5 DEF SplitRest
    <2>3. Packable'
      <3>1. fragments' \in Seq(Alone(input.base))
        BY <1>2, <1>5, <2>1
      <3> QED
        BY <1>2, <2>2, <3>1 DEF Packable
    <2>4. AtOK'
      BY <1>2, <1>3, <1>5, CursorTypes DEF AtOK
    <2>5. Typed' /\ Bordered'
      BY <2>2, Kept
    <2>6. Finished'
      BY <2>2, UnplannedKeeps
    <2> QED
      BY <2>3, <2>4, <2>5, <2>6 DEF PlanInv
  <1>6. CASE Refuse(IF s.hunks = <<>> THEN "binary" ELSE "metadata")
    BY <1>6, RefuseKeeps
  <1>7. CASE s.hunks # <<>> /\ at' = AtHunk(k, 1) /\ UNCHANGED <<phase, fragments, SplitRest>>
    <2>1. /\ UNCHANGED <<phase, input, reason, fragments, edges, groups, packed, pending, locals,
                         boundaries>>
          /\ phase = "split"
      BY <1>1, <1>7 DEF SplitRest
    <2>2. 1 \in 1 .. Len(s.hunks)
      <3>1. s.hunks \in Seq(Hunks)
        BY <1>2, <1>3, SelectionFields, SectionFields DEF s
      <3> QED
        BY <1>7, <3>1
    <2>3. AtOK'
      BY <1>2, <1>3, <1>7, <2>1, <2>2, CursorTypes DEF AtOK, s
    <2>4. Typed' /\ Bordered' /\ Packable'
      BY <2>1, Kept
    <2>5. Finished'
      BY <2>1, UnplannedKeeps
    <2> QED
      BY <2>3, <2>4, <2>5 DEF PlanInv
  <1> QED
    BY <1>1, <1>5, <1>6, <1>7 DEF s

(* What a chunk is refused for; else some of its ends fit.                  *)
Objections == {"header", "body", "line", "hunk"}
LEMMA ObjectionOf ==
    ASSUME NEW k, NEW j, NEW i, NEW ends
    PROVE  /\ Objection(k, j, i, ends) \in Objections \cup {""}
           /\ Objection(k, j, i, ends) = "" => ends # {}
  BY DEF Objection, Objections

LEMMA SplitChunkKeeps == ASSUME PlanInv, SplitChunk PROVE PlanInv'
  <1> DEFINE k == at.section
             j == at.hunk
             i == at.line
             h == Sections[k].hunks[j]
             limit == PayloadLimit - Sections[k].meta - h.suffix - HeaderReserve
             ends == {e \in ChunkEnds(h, i) : Bytes(SubSeq(h.lines, i, e)) <= limit}
             last == Max(ends)
             lines == SubSeq(h.lines, i, last)
  <1>1. /\ phase = "split" /\ at.hunk > 0
        /\ \/ \E why \in Objections : Refuse(why)
           \/ /\ ends # {}
              /\ fragments' = Append(fragments, Chunk(k, j, i, last))
              /\ at' = IF last = Len(h.lines) THEN AfterHunk(k, j)
                       ELSE [at EXCEPT !.line = last + 1, !.old = @ + OldCount(lines),
                                       !.new = @ + NewCount(lines)]
              /\ UNCHANGED <<phase, SplitRest>>
    BY ObjectionOf DEF SplitChunk
  <1>2. /\ input \in Selections /\ AtOK /\ fragments \in Seq(Alone(input.base))
        /\ pending \in Fitting(input.base) \cup {<<>>} /\ locals \in Seq(Locals(input.base))
    BY DEF PlanInv, Typed, Packable
  <1>3. /\ k \in Nat \ {0} /\ j \in Nat \ {0} /\ i \in Nat \ {0} /\ at.old \in Int /\ at.new \in Int
        /\ at \in Cursors /\ InHunk(at, input)
    <2>1. at \in Cursors /\ (j = 0 \/ InHunk(at, input)) /\ j > 0
      BY <1>1, <1>2 DEF AtOK
    <2>2. /\ k \in Nat \ {0} /\ j \in Nat /\ i \in Nat \ {0} /\ at.old \in Int /\ at.new \in Int
      BY <2>1 DEF Cursors
    <2> QED
      BY <2>1, <2>2
  <1>4. k \in 1 .. Len(Sections) /\ j \in 1 .. Len(Sections[k].hunks)
    <2>1. Len(Sections) \in Nat /\ k <= Len(Sections) /\ j <= Len(Sections[k].hunks)
      BY <1>2, <1>3, SelectionFields DEF InHunk, Sections
    <2>2. k \in 1 .. Len(Sections)
      BY <1>3, <2>1
    <2>3. Len(Sections[k].hunks) \in Nat
      BY <1>2, <2>2, SelectionFields, SectionFields
    <2> QED
      BY <1>3, <2>1, <2>2, <2>3
  <1>5. h.lines \in Seq(BodyLine) /\ Len(h.lines) \in Nat
    <2>1. h \in Hunks
      BY <1>2, <1>4, SelectionFields, SectionFields
    <2>2. h.lines \in Seq(BodyLine)
      BY <2>1, HunkFields DEF IsHunk
    <2> HIDE DEF h
    <2> QED
      BY <2>2
  <1>6. CASE \E why \in Objections : Refuse(why)
    BY <1>6, RefuseKeeps DEF Objections
  <1>7. CASE /\ ends # {}
             /\ fragments' = Append(fragments, Chunk(k, j, i, last))
             /\ at' = IF last = Len(h.lines) THEN AfterHunk(k, j)
                      ELSE [at EXCEPT !.line = last + 1, !.old = @ + OldCount(lines),
                                      !.new = @ + NewCount(lines)]
             /\ UNCHANGED <<phase, SplitRest>>
    <2>1. /\ UNCHANGED <<phase, input, reason, edges, groups, packed, pending, locals, boundaries>>
          /\ phase = "split"
      BY <1>1, <1>7 DEF SplitRest
    <2>2. last \in ends
      <3>1. ends \in SUBSET (i .. Len(h.lines))
        BY DEF ChunkEnds
      <3> HIDE DEF ends, h, i
      <3>2. i .. Len(h.lines) \subseteq 0 .. Len(h.lines)
        BY <1>3, <1>5
      <3>3. ends \in SUBSET (0 .. Len(h.lines)) /\ ends # {}
        BY <1>7, <3>1, <3>2
      <3> QED
        BY <1>5, <3>3, MaxIsGreatest
    <2>3. last \in i .. Len(h.lines) /\ Bytes(SubSeq(h.lines, i, last)) <= limit
      <3> HIDE DEF last
      <3> QED
        BY <2>2 DEF ChunkEnds
    <2> HIDE DEF last
    <2>4. Chunk(k, j, i, last) \in Alone(input.base)
      BY <1>1, <1>2, <2>3, ChunkFits
    <2>5. Packable'
      <3>1. fragments' \in Seq(Alone(input.base))
        BY <1>2, <1>7, <2>4
      <3> QED
        BY <1>2, <2>1, <3>1 DEF Packable
    <2>6. AtOK'
      <3>1. CASE last = Len(h.lines)
        <4>1. at' = AfterHunk(k, j)
          BY <1>7, <3>1
        <4>2. AfterHunk(k, j) \in Cursors /\ (AfterHunk(k, j).hunk = 0 \/ InHunk(AfterHunk(k, j), input))
          BY <1>2, <1>4, CursorTypes
        <4> QED
          BY <2>1, <4>1, <4>2 DEF AtOK
      <3>2. CASE last # Len(h.lines)
        <4>1. lines \in Seq(BodyLine)
          <5> HIDE DEF h, i
          <5> QED
            BY <1>3, <1>5, <2>3, PartOf
        <4>2. OldCount(lines) \in Nat /\ NewCount(lines) \in Nat
          BY <4>1, CountsType
        <4>3. last + 1 \in Nat \ {0} /\ last + 1 <= Len(h.lines) + 1
          <5> HIDE DEF h, i
          <5> QED
            BY <1>3, <1>5, <2>3
        <4>4. at' = [at EXCEPT !.line = last + 1, !.old = @ + OldCount(lines),
                               !.new = @ + NewCount(lines)]
          BY <1>7, <3>2
        <4> HIDE DEF lines
        <4>5. /\ at' = [section |-> k, hunk |-> j, line |-> last + 1,
                        old |-> at.old + OldCount(lines), new |-> at.new + NewCount(lines)]
          BY <1>3, <4>4 DEF Cursors
        <4>6. at' \in Cursors
          BY <1>3, <4>2, <4>3, <4>5 DEF Cursors
        <4>7. InHunk(at', input')
          BY <1>3, <2>1, <4>3, <4>5 DEF InHunk, Sections
        <4> QED
          BY <4>6, <4>7 DEF AtOK
      <3> QED
        BY <3>1, <3>2
    <2>7. Typed' /\ Bordered'
      BY <2>1, Kept
    <2>8. Finished'
      BY <2>1, UnplannedKeeps
    <2> QED
      BY <2>5, <2>6, <2>7, <2>8 DEF PlanInv
  <1> HIDE DEF ends, last, h, k, j, i, limit, lines
  <1> QED
    BY <1>1, <1>6, <1>7

LEMMA GroupKeeps == ASSUME PlanInv, Group PROVE PlanInv'
  <1>1. /\ phase = "split" /\ phase' = "pack"
        /\ edges' = GoImportEdges(Sorted(ChangedFiles), input.imports)
        /\ groups' = ClusterFilesEdges(ChangedFiles, edges')
        /\ UNCHANGED <<input, reason, at, fragments, packed, pending, locals, boundaries>>
    BY DEF Group
  <1>2. input \in Selections /\ packed \in Nat
    BY DEF PlanInv, Typed
  <1>3. ChangedFiles \in SUBSET DOMAIN Files
    BY <1>2, ChangedFilesType
  <1>4. edges' \in Seq(Edge)
    BY <1>1, <1>3, EdgesType
  <1>5. groups' \in Seq(SUBSET DOMAIN Files)
    <2>1. groups' \in Seq((SUBSET ChangedFiles) \ {{}})
      BY <1>1, <1>3, ClusterType
    <2>2. \A x \in (SUBSET ChangedFiles) \ {{}} : x \in SUBSET DOMAIN Files
      BY <1>3
    <2> QED
      BY <2>1, <2>2
  <1>6. Typed'
    BY <1>1, <1>2, <1>4, <1>5 DEF Typed
  <1>7. AtOK' /\ Packable'
    BY <1>1, Kept
  <1>8. Bordered'
    BY <1>1 DEF PlanInv, Bordered
  <1>9. Finished'
    BY <1>1, UnplannedKeeps
  <1> QED
    BY <1>6, <1>7, <1>8, <1>9 DEF PlanInv

LEMMA PackKeeps == ASSUME PlanInv, Pack PROVE PlanInv'
  <1> DEFINE frags == FragmentsOf(groups[packed + 1])
             acc == [pending |-> pending, locals |-> locals]
             next == PackedGroup(acc, frags)
  <1>1. /\ phase = "pack" /\ packed < Len(groups)
        /\ \/ /\ \E f \in Range(frags) : ~Fits(<<f>>)
              /\ Refuse("fragment")
           \/ /\ packed' = packed + 1 /\ pending' = next.pending /\ locals' = next.locals
              /\ UNCHANGED <<input, phase, reason, at, fragments, edges, groups, boundaries>>
    BY DEF Pack
  <1>2. /\ input \in Selections /\ fragments \in Seq(Alone(input.base))
        /\ edges \in Seq(Edge) /\ groups \in Seq(SUBSET DOMAIN Files) /\ packed \in Nat
        /\ acc \in Packings(input.base) /\ boundaries = <<>> /\ boundaries \in Seq(Boundary)
    BY <1>1 DEF PlanInv, Typed, Packable, Packings, Bordered
  <1>3. input.base \in Nat
    BY <1>2, SelectionFields
  <1>4. groups[packed + 1] \in SUBSET DOMAIN Files
    BY <1>1, <1>2
  <1>5. frags \in Seq(Alone(input.base))
    BY <1>2, <1>4, FragmentsOfType
  <1>6. next \in Packings(input.base)
    <2> HIDE DEF acc, frags
    <2> QED
      BY <1>2, <1>3, <1>5, PackedGroupType
  <1> HIDE DEF frags, next
  <1>7. CASE \E f \in Range(frags) : ~Fits(<<f>>)
    <2>1. PICK f \in Range(frags) : ~Fits(<<f>>)
      BY <1>7
    <2>2. f \in Alone(input.base)
      BY <1>5 DEF Range
    <2>3. <<f>> \in Fitting(input.base) /\ <<f>> \in Seq(Fragment)
      BY <2>2 DEF Alone
    <2>4. Fits(<<f>>)
      BY <1>3, <2>3, FitsIsFitting
    <2> QED
      BY <2>1, <2>4
  <1>8. CASE /\ packed' = packed + 1 /\ pending' = next.pending /\ locals' = next.locals
             /\ UNCHANGED <<input, phase, reason, at, fragments, edges, groups, boundaries>>
    <2>1. Typed'
      BY <1>1, <1>2, <1>8 DEF Typed
    <2>2. AtOK'
      BY <1>8, Kept
    <2>3. Packable'
      <3>1. next.pending \in Fitting(input.base) \cup {<<>>} /\ next.locals \in Seq(Locals(input.base))
        BY <1>6 DEF Packings
      <3> QED
        BY <1>2, <1>8, <3>1 DEF Packable
    <2>4. Bordered'
      <3>1. DOMAIN boundaries' = {}
        BY <1>2, <1>8
      <3> QED
        BY <1>2, <1>8, <3>1 DEF Bordered
    <2>5. Finished'
      BY <1>1, <1>8, UnplannedKeeps
    <2> QED
      BY <2>1, <2>2, <2>3, <2>4, <2>5 DEF PlanInv
  <1> QED
    BY <1>1, <1>7, <1>8

LEMMA PackLastKeeps == ASSUME PlanInv, PackLast PROVE PlanInv'
  <1> DEFINE acc == [pending |-> pending, locals |-> locals]
             next == Flush(acc)
  <1>1. /\ phase = "pack" /\ phase' = "border"
        /\ pending' = next.pending /\ locals' = next.locals
        /\ UNCHANGED <<input, reason, at, fragments, edges, groups, packed, boundaries>>
    BY DEF PackLast
  <1>2. /\ acc \in Packings(input.base) /\ boundaries = <<>> /\ boundaries \in Seq(Boundary)
        /\ fragments \in Seq(Alone(input.base))
    BY <1>1 DEF PlanInv, Packable, Packings, Bordered
  <1> HIDE DEF acc
  <1>3. next \in Packings(input.base)
    BY <1>2, FlushType
  <1> HIDE DEF next
  <1>4. Packable'
    <2>1. next.pending \in Fitting(input.base) \cup {<<>>} /\ next.locals \in Seq(Locals(input.base))
      BY <1>3 DEF Packings
    <2> QED
      BY <1>1, <1>2, <2>1 DEF Packable
  <1>5. Bordered'
    <2>1. DOMAIN boundaries' = {}
      BY <1>1, <1>2
    <2> QED
      BY <1>1, <1>2, <2>1 DEF Bordered
  <1>6. Typed' /\ AtOK'
    BY <1>1, Kept
  <1>7. Finished'
    BY <1>1, UnplannedKeeps
  <1> QED
    BY <1>4, <1>5, <1>6, <1>7 DEF PlanInv

(* A boundary that is about the task at its own place, or comes after those *)
(* of all tasks.                                                            *)
LEMMA AddKeeps ==
    ASSUME PlanInv, phase = "border", NEW a \in DOMAIN locals, NEW b \in DOMAIN locals,
           NEW edge \in Seq(DOMAIN Files), Add(a, b, edge),
           Len(boundaries) + 1 <= Len(locals) => a = Len(boundaries) + 1
    PROVE  PlanInv'
  <1>1. /\ input \in Selections /\ locals \in Seq(Locals(input.base))
        /\ boundaries \in Seq(Boundary)
        /\ \A i \in DOMAIN boundaries : i <= Len(locals) => boundaries[i].about[1] = i
    BY DEF PlanInv, Typed, Packable, Bordered
  <1>2. CASE ExcerptBudget(a, b, edge) < MinExcerpt
    <2>1. Refuse("excerpt")
      BY <1>2 DEF Add
    <2> QED
      BY <2>1, RefuseKeeps
  <1>3. CASE ~(ExcerptBudget(a, b, edge) < MinExcerpt)
    <2> DEFINE task == BoundaryTask(a, b, edge)
    <2>1. /\ boundaries' = Append(boundaries, task)
          /\ UNCHANGED <<input, phase, reason, at, fragments, edges, groups, packed, pending, locals>>
      BY <1>3 DEF Add
    <2>2. task \in Boundary /\ task.about[1] = a
      BY <1>1, <1>3, BoundaryFits
    <2> HIDE DEF task
    <2>3. Bordered'
      <3>1. boundaries' \in Seq(Boundary)
        BY <1>1, <2>1, <2>2
      <3>2. ASSUME NEW i \in DOMAIN boundaries', i <= Len(locals)
            PROVE  boundaries'[i].about[1] = i
        <4>1. Len(boundaries) \in Nat /\ DOMAIN boundaries = 1 .. Len(boundaries)
          BY <1>1
        <4>2. i \in 1 .. Len(boundaries) + 1
          BY <1>1, <2>1
        <4>3. CASE i = Len(boundaries) + 1
          <5>1. boundaries'[i] = task
            BY <1>1, <2>1, <4>3
          <5> QED
            BY <2>2, <3>2, <4>3, <5>1
        <4>4. CASE i # Len(boundaries) + 1
          <5>1. i \in DOMAIN boundaries
            BY <4>1, <4>2, <4>4
          <5>2. boundaries'[i] = boundaries[i]
            BY <1>1, <2>1, <5>1
          <5> QED
            BY <1>1, <3>2, <5>1, <5>2
        <4> QED
          BY <4>3, <4>4
      <3> QED
        BY <2>1, <3>1, <3>2 DEF Bordered
    <2>4. Typed' /\ AtOK' /\ Packable'
      <3>1. phase' \in {"split", "pack", "border", "planned", "refused"}
        BY <2>1
      <3> QED
        BY <2>1, <3>1, Kept
    <2>5. Finished'
      BY <2>1, UnplannedKeeps
    <2> QED
      BY <2>3, <2>4, <2>5 DEF PlanInv
  <1> QED
    BY <1>2, <1>3

LEMMA AddNeighborKeeps == ASSUME PlanInv, AddNeighbor PROVE PlanInv'
  <1> DEFINE a == Len(boundaries) + 1
  <1>1. /\ phase = "border" /\ Len(boundaries) < Len(locals) /\ Add(a, Neighbor(a), <<>>)
    BY DEF AddNeighbor
  <1>2. locals \in Seq(Locals(input.base)) /\ boundaries \in Seq(Boundary)
    BY DEF PlanInv, Packable, Bordered
  <1>3. Len(locals) \in Nat /\ Len(boundaries) \in Nat /\ DOMAIN locals = 1 .. Len(locals)
    BY <1>2
  <1>4. a \in DOMAIN locals /\ Neighbor(a) \in DOMAIN locals
    <2>1. a \in 1 .. Len(locals)
      BY <1>1, <1>3
    <2> HIDE DEF a
    <2>2. (a % Len(locals)) + 1 \in 1 .. Len(locals)
      BY <1>3, <2>1
    <2> QED
      BY <1>3, <2>1, <2>2 DEF Neighbor
  <1>5. <<>> \in Seq(DOMAIN Files)
    OBVIOUS
  <1> QED
    BY <1>1, <1>4, <1>5, AddKeeps

(* The pair AddEdge takes is one of those no boundary covers yet.           *)
LEMMA FirstUncovered ==
    ASSUME PlanInv, Uncovered # {}, NEW x, x = First(Uncovered)
    PROVE  /\ x[1] \in DOMAIN edges /\ x[2] \in DOMAIN locals /\ x[3] \in DOMAIN locals
           /\ {x[2], x[3]} \notin Covered
  <1>1. locals \in Seq(Locals(input.base)) /\ edges \in Seq(Edge)
    BY DEF PlanInv, Typed, Packable
  <1>2. DOMAIN locals \subseteq Nat /\ DOMAIN edges \subseteq Nat
    BY <1>1
  <1>3. ASSUME NEW y \in Uncovered
        PROVE  /\ y[1] \in DOMAIN edges /\ y[2] \in DOMAIN locals /\ y[3] \in DOMAIN locals
               /\ y = <<y[1], y[2], y[3]>> /\ {y[2], y[3]} \notin Covered
    <2> DEFINE Pairs(e) == {ab \in Owners(e.from) \X Owners(e.to) :
                               ab[1] # ab[2] /\ {ab[1], ab[2]} \notin Covered}
    <2>1. PICK i \in DOMAIN edges : \E ab \in Pairs(edges[i]) : y = <<i, ab[1], ab[2]>>
      BY <1>3 DEF Uncovered
    <2>2. PICK ab \in Pairs(edges[i]) : y = <<i, ab[1], ab[2]>>
      BY <2>1
    <2>3. ab[1] \in DOMAIN locals /\ ab[2] \in DOMAIN locals /\ {ab[1], ab[2]} \notin Covered
      BY <2>2 DEF Owners
    <2> QED
      BY <2>2, <2>3
  <1>4. ASSUME NEW y \in Uncovered PROVE y \in Nat \X Nat \X Nat
    <2>1. y[1] \in Nat /\ y[2] \in Nat /\ y[3] \in Nat /\ y = <<y[1], y[2], y[3]>>
      BY <1>2, <1>3
    <2> QED
      BY <2>1
  <1>5. Uncovered \in SUBSET (Nat \X Nat \X Nat)
    BY <1>4
  <1>6. x \in Uncovered
    BY <1>5, FirstIsOne
  <1> QED
    BY <1>3, <1>6

LEMMA AddEdgeKeeps == ASSUME PlanInv, AddEdge PROVE PlanInv'
  <1> DEFINE x == First(Uncovered)
             edge == <<edges[x[1]].from, edges[x[1]].to>>
  <1>1. /\ phase = "border" /\ Len(boundaries) >= Len(locals) /\ Uncovered # {}
        /\ Add(x[2], x[3], edge)
    BY DEF AddEdge
  <1>2. /\ locals \in Seq(Locals(input.base)) /\ boundaries \in Seq(Boundary)
        /\ edges \in Seq(Edge)
    BY DEF PlanInv, Typed, Packable, Bordered
  <1>3. /\ Len(locals) \in Nat /\ Len(boundaries) \in Nat
        /\ DOMAIN locals \subseteq Nat /\ DOMAIN edges \subseteq Nat
    BY <1>2
  <1>4. x[1] \in DOMAIN edges /\ x[2] \in DOMAIN locals /\ x[3] \in DOMAIN locals
    BY <1>1, FirstUncovered
  <1> HIDE DEF x
  <1>5. edge \in Seq(DOMAIN Files)
    <2>1. edges[x[1]] \in Edge
      BY <1>2, <1>4
    <2>2. edges[x[1]].from \in DOMAIN Files /\ edges[x[1]].to \in DOMAIN Files
      BY <2>1 DEF Edge
    <2> QED
      BY <2>2
  <1>6. Len(boundaries) + 1 <= Len(locals) => x[2] = Len(boundaries) + 1
    BY <1>1, <1>3
  <1> HIDE DEF edge
  <1> QED
    BY <1>1, <1>4, <1>5, <1>6, AddKeeps

LEMMA UncoveredSame ==
    ASSUME UNCHANGED <<edges, locals, boundaries>> PROVE Uncovered' = Uncovered
  BY DEF Uncovered, Owners, Covered

LEMMA ValidateKeeps == ASSUME PlanInv, Validate PROVE PlanInv'
  <1>1. /\ Len(boundaries) >= Len(locals) /\ Uncovered = {}
        /\ phase' \in {"planned", "refused"} /\ reason' \in {"", "invalid"}
        /\ UNCHANGED <<input, at, fragments, edges, groups, packed, pending, locals, boundaries>>
    BY DEF Validate
  <1>2. Typed' /\ AtOK' /\ Packable' /\ Bordered'
    <2>1. phase' \in {"split", "pack", "border", "planned", "refused"}
      BY <1>1
    <2>2. phase' \in {"split", "pack"} => phase' = phase
      BY <1>1
    <2> QED
      BY <1>1, <2>1, <2>2, Kept
  <1>3. Uncovered' = {}
    <2>1. Uncovered' = Uncovered
      BY <1>1, UncoveredSame
    <2> QED
      BY <1>1, <2>1
  <1>4. Finished'
    BY <1>1, <1>3 DEF Finished
  <1> QED
    BY <1>2, <1>4 DEF PlanInv

LEMMA StutterKeeps == ASSUME PlanInv, UNCHANGED vars PROVE PlanInv'
  <1>1. UNCHANGED <<input, phase, reason, at, fragments, edges, groups, packed, pending, locals,
                    boundaries>>
    BY DEF vars
  <1>2. Typed' /\ AtOK' /\ Packable' /\ Bordered'
    <2>1. phase' \in {"split", "pack", "border", "planned", "refused"}
      BY <1>1 DEF PlanInv, Typed
    <2> QED
      BY <1>1, <2>1, Kept
  <1>3. Uncovered' = Uncovered
    BY <1>1, UncoveredSame
  <1>4. Finished'
    BY <1>1, <1>3 DEF PlanInv, Finished
  <1> QED
    BY <1>2, <1>4 DEF PlanInv

LEMMA PlanStep == PlanInv /\ [Next]_vars => PlanInv'
  <1> SUFFICES ASSUME PlanInv, [Next]_vars PROVE PlanInv'
    OBVIOUS
  <1>1. CASE Interrupted
    BY <1>1, RefuseKeeps DEF Interrupted
  <1>2. CASE NoRoomForContext
    BY <1>2, RefuseKeeps DEF NoRoomForContext
  <1>3. CASE NoRoomForManifest
    BY <1>3, RefuseKeeps DEF NoRoomForManifest
  <1>4. CASE Answered \/ UNCHANGED vars
    BY <1>4, StutterKeeps DEF Answered
  <1> QED
    BY <1>1, <1>2, <1>3, <1>4, BeginSectionKeeps, SplitChunkKeeps, GroupKeeps, PackKeeps,
       PackLastKeeps, AddNeighborKeeps, AddEdgeKeeps, ValidateKeeps DEF Next

-----------------------------------------------------------------------------
(* Fragments tile the diff.                                                 *)

LEMMA StartStep ==
    ASSUME input \in Selections, NEW k \in 1 .. Len(Sections)
    PROVE  /\ Start(k + 1) = Start(k) + SectionBytes(Sections[k])
           /\ Start(k) \in Nat /\ SectionBytes(Sections[k]) \in Nat
  <1> DEFINE size == [j \in 1 .. Len(Sections) |-> SectionBytes(Sections[j])]
  <1>1. /\ \A j \in 1 .. Len(Sections) : SectionBytes(Sections[j]) \in Nat
        /\ Len(Sections) \in Nat
    BY SelectionFields, SectionBytesType
  <1>2. k \in Nat /\ k <= Len(Sections) /\ k - 1 \in Nat /\ (k - 1) + 1 = k /\ (k + 1) - 1 = k
    BY <1>1
  <1>3. size \in Seq(Nat) /\ Len(size) = Len(Sections) /\ size[k] = SectionBytes(Sections[k])
    BY <1>1
  <1>4. ASSUME NEW n \in 0 .. Len(Sections)
        PROVE  SubSeq(size, 1, n) = [j \in 1 .. n |-> SectionBytes(Sections[j])]
    BY <1>1
  <1>5. /\ Start(k) = Total(SubSeq(size, 1, k - 1)) /\ Start(k + 1) = Total(SubSeq(size, 1, k))
    <2>1. k - 1 \in 0 .. Len(Sections) /\ k \in 0 .. Len(Sections)
      BY <1>1, <1>2
    <2> HIDE DEF size
    <2> QED
      BY <1>2, <1>4, <2>1 DEF Start
  <1> HIDE DEF size
  <1>6. /\ SubSeq(size, 1, k - 1) \in Seq(Nat) /\ size[k] \in Nat
        /\ SubSeq(size, 1, k) = SubSeq(size, 1, k - 1) \o <<size[k]>>
    <2>1. (k - 1) + 1 <= Len(size)
      BY <1>2, <1>3
    <2> QED
      BY <1>2, <1>3, <2>1, PrefixGrows
  <1>7. Total(SubSeq(size, 1, k)) = Total(SubSeq(size, 1, k - 1)) + size[k]
    BY <1>6, TotalOne, TotalConcat
  <1> QED
    BY <1>3, <1>5, <1>6, <1>7, TotalType

LEMMA HunkStep ==
    ASSUME input \in Selections, NEW k \in 1 .. Len(Sections),
           NEW j \in 1 .. Len(Sections[k].hunks)
    PROVE  /\ HunkAt(k, j + 1) = HunkAt(k, j) + HunkBytes(Sections[k].hunks[j])
           /\ HunkAt(k, j) \in Nat /\ HunkBytes(Sections[k].hunks[j]) \in Nat
           /\ Start(k) < HunkAt(k, j) /\ Start(k) \in Nat
           /\ j = Len(Sections[k].hunks) => HunkAt(k, j + 1) = Start(k + 1)
  <1> DEFINE s == Sections[k]
             size == [i \in 1 .. Len(s.hunks) |-> HunkBytes(s.hunks[i])]
  <1>1. s \in FileSection /\ Start(k) \in Nat
    BY SelectionFields, StartStep
  <1>2. /\ s.meta \in Nat /\ s.meta > 0 /\ Len(s.hunks) \in Nat
        /\ \A i \in 1 .. Len(s.hunks) : HunkBytes(s.hunks[i]) \in Nat
        /\ DOMAIN s.hunks = 1 .. Len(s.hunks)
    <2>1. s.meta \in Nat /\ s.meta # 0
      BY <1>1, SectionFields
    <2>2. s.meta > 0
      <3> HIDE DEF s
      <3> QED
        BY <2>1
    <2> QED
      BY <1>1, <2>1, <2>2, SectionFields, HunkFields, LineSizesTotal
  <1>3. j \in Nat /\ j <= Len(s.hunks) /\ j - 1 \in Nat /\ (j - 1) + 1 = j /\ (j + 1) - 1 = j
    BY <1>2
  <1>0. Start(k + 1) = Start(k) + SectionBytes(s)
    BY StartStep
  <1>9. /\ HunkAt(k, j) = Start(k) + s.meta + Total([i \in 1 .. j - 1 |-> HunkBytes(s.hunks[i])])
        /\ HunkAt(k, j + 1) = Start(k) + s.meta + Total([i \in 1 .. j |-> HunkBytes(s.hunks[i])])
    BY <1>3 DEF HunkAt
  <1>11. j \in 1 .. Len(s.hunks)
    OBVIOUS
  <1> HIDE DEF s
  <1>4. size \in Seq(Nat) /\ Len(size) = Len(s.hunks) /\ size[j] = HunkBytes(s.hunks[j])
    BY <1>2, <1>11
  <1>5. ASSUME NEW n \in 0 .. Len(s.hunks)
        PROVE  SubSeq(size, 1, n) = [i \in 1 .. n |-> HunkBytes(s.hunks[i])]
    BY <1>2
  <1>6. /\ SubSeq(size, 1, j - 1) = [i \in 1 .. j - 1 |-> HunkBytes(s.hunks[i])]
        /\ SubSeq(size, 1, j) = [i \in 1 .. j |-> HunkBytes(s.hunks[i])]
    <2>1. j - 1 \in 0 .. Len(s.hunks) /\ j \in 0 .. Len(s.hunks)
      BY <1>2, <1>3
    <2> HIDE DEF size
    <2> QED
      BY <1>5, <2>1
  <1> HIDE DEF size
  <1>7. /\ SubSeq(size, 1, j - 1) \in Seq(Nat) /\ size[j] \in Nat
        /\ SubSeq(size, 1, j) = SubSeq(size, 1, j - 1) \o <<size[j]>>
    <2>1. (j - 1) + 1 <= Len(size)
      BY <1>3, <1>4
    <2> QED
      BY <1>3, <1>4, <2>1, PrefixGrows
  <1>8. /\ Total(SubSeq(size, 1, j)) = Total(SubSeq(size, 1, j - 1)) + size[j]
        /\ Total(SubSeq(size, 1, j - 1)) \in Nat
    BY <1>7, TotalOne, TotalConcat, TotalType
  <1>10. j = Len(s.hunks) => HunkAt(k, j + 1) = Start(k + 1)
    <2>1. SectionBytes(s) = s.meta + Total([i \in 1 .. Len(s.hunks) |-> HunkBytes(s.hunks[i])])
      BY <1>2 DEF SectionBytes
    <2>2. ASSUME j = Len(s.hunks)
          PROVE  SectionBytes(s) = s.meta + Total(SubSeq(size, 1, j))
      BY <1>6, <2>1, <2>2
    <2>3. Total(SubSeq(size, 1, j)) \in Nat /\ s.meta \in Nat
      BY <1>2, <1>4, <1>7, <1>8
    <2>4. HunkAt(k, j + 1) = Start(k) + s.meta + Total(SubSeq(size, 1, j))
      BY <1>6, <1>9
    <2> QED
      BY <1>0, <1>1, <2>2, <2>3, <2>4
  <1>12. /\ HunkAt(k, j) = Start(k) + s.meta + Total(SubSeq(size, 1, j - 1))
         /\ HunkAt(k, j + 1) = Start(k) + s.meta + (Total(SubSeq(size, 1, j - 1)) + HunkBytes(s.hunks[j]))
         /\ HunkBytes(s.hunks[j]) \in Nat
    BY <1>2, <1>4, <1>6, <1>7, <1>8, <1>9, <1>11
  <1>13. /\ HunkAt(k, j + 1) = HunkAt(k, j) + HunkBytes(s.hunks[j]) /\ HunkAt(k, j) \in Nat
         /\ Start(k) < HunkAt(k, j)
    <2>1. s.meta \in Nat /\ s.meta > 0
      BY <1>2
    <2> DEFINE t == Total(SubSeq(size, 1, j - 1))
               b == HunkBytes(s.hunks[j])
    <2>2. t \in Nat /\ b \in Nat /\ Start(k) \in Nat
      BY <1>1, <1>8, <1>12, Zenon
    <2>3. HunkAt(k, j) = Start(k) + s.meta + t /\ HunkAt(k, j + 1) = Start(k) + s.meta + (t + b)
      BY <1>12, Zenon
    <2> HIDE DEF t, b
    <2>4. /\ Start(k) + s.meta + t \in Nat /\ Start(k) < Start(k) + s.meta + t
          /\ Start(k) + s.meta + (t + b) = (Start(k) + s.meta + t) + b
      BY <2>1, <2>2
    <2> QED
      BY <2>3, <2>4 DEF b
  <1> QED
    BY <1>1, <1>10, <1>12, <1>13 DEF s

(* Bytes of lines add up, and lines have some.                              *)
LEMMA BytesConcat ==
    ASSUME NEW a \in Seq(BodyLine), NEW b \in Seq(BodyLine)
    PROVE  /\ a \o b \in Seq(BodyLine) /\ Bytes(a \o b) = Bytes(a) + Bytes(b)
           /\ Bytes(a) \in Nat /\ Bytes(b) \in Nat
  <1> DEFINE p == [i \in DOMAIN a |-> a[i].bytes]
             q == [i \in DOMAIN b |-> b[i].bytes]
             c == a \o b
             r == [i \in DOMAIN c |-> c[i].bytes]
  <1>1. /\ Len(a) \in Nat /\ Len(b) \in Nat /\ DOMAIN a = 1 .. Len(a) /\ DOMAIN b = 1 .. Len(b)
        /\ c \in Seq(BodyLine) /\ Len(c) = Len(a) + Len(b) /\ DOMAIN c = 1 .. Len(a) + Len(b)
        /\ \A i \in 1 .. Len(a) : c[i] = a[i]
        /\ \A i \in 1 .. Len(b) : c[Len(a) + i] = b[i]
    BY ConcatIs
  <1> HIDE DEF c
  <1>2. p \in Seq(Nat) /\ q \in Seq(Nat) /\ r \in Seq(Nat)
    BY <1>1, BytesType
  <1>3. Len(p) = Len(a) /\ Len(q) = Len(b) /\ Len(r) = Len(a) + Len(b)
    BY <1>1
  <1>4. r = p \o q
    <2>1. p \o q \in Seq(Nat) /\ Len(p \o q) = Len(a) + Len(b)
      <3> HIDE DEF p, q
      <3>1. p \o q \in Seq(Nat) /\ Len(p \o q) = Len(p) + Len(q)
        BY <1>2, ConcatIs, Zenon
      <3> QED
        BY <1>3, <3>1
    <2>2. ASSUME NEW i \in 1 .. Len(a) + Len(b) PROVE r[i] = (p \o q)[i]
      <3>1. CASE i <= Len(a)
        <4>1. i \in 1 .. Len(a) /\ c[i] = a[i]
          BY <1>1, <3>1
        <4> QED
          BY <1>1, <1>2, <1>3, <4>1
      <3>2. CASE ~(i <= Len(a))
        <4>1. i - Len(a) \in 1 .. Len(b) /\ Len(a) + (i - Len(a)) = i
          BY <1>1, <3>2
        <4>2. c[i] = b[i - Len(a)]
          BY <1>1, <4>1
        <4> QED
          BY <1>1, <1>2, <1>3, <3>2, <4>1, <4>2
      <3> QED
        BY <3>1, <3>2
    <2> HIDE DEF p, q, r
    <2> QED
      BY <1>2, <1>3, <2>1, <2>2, EqualSeqs
  <1> HIDE DEF p, q, r
  <1>5. Total(r) = Total(p) + Total(q)
    BY <1>2, <1>4, TotalConcat
  <1>6. Bytes(a) = Total(p) /\ Bytes(b) = Total(q) /\ Bytes(c) = Total(r)
    BY DEF Bytes, p, q, r
  <1> QED
    BY <1>1, <1>2, <1>5, <1>6, TotalType DEF c

LEMMA BytesPositive == ASSUME NEW a \in Seq(BodyLine), a # <<>> PROVE Bytes(a) > 0
  <1> DEFINE first == <<a[1]>>
             rest == SubSeq(a, 2, Len(a))
  <1>1. /\ first \in Seq(BodyLine) /\ rest \in Seq(BodyLine) /\ a = first \o rest
        /\ a[1] \in BodyLine /\ first[1] = a[1] /\ DOMAIN first = {1}
    OBVIOUS
  <1> HIDE DEF first, rest
  <1>2. a[1].bytes \in Nat /\ a[1].bytes > 0
    <2>1. \A n \in Nat \ {0} : n > 0
      OBVIOUS
    <2> QED
      BY <1>1, <2>1 DEF BodyLine
  <1>3. Bytes(first) = a[1].bytes
    <2>1. [i \in DOMAIN first |-> first[i].bytes] = <<a[1].bytes>>
      BY <1>1
    <2> QED
      BY <1>2, <2>1, TotalOne DEF Bytes
  <1>4. Bytes(a) = Bytes(first) + Bytes(rest) /\ Bytes(rest) \in Nat
    BY <1>1, BytesConcat
  <1> QED
    BY <1>2, <1>3, <1>4

LEMMA LinesGrow ==
    ASSUME NEW lines \in Seq(BodyLine), NEW i \in Nat \ {0}, NEW e \in i .. Len(lines)
    PROVE  /\ Bytes(SubSeq(lines, 1, i - 1)) \in Nat /\ Bytes(SubSeq(lines, 1, e)) \in Nat
           /\ Bytes(SubSeq(lines, 1, i - 1)) < Bytes(SubSeq(lines, 1, e))
  <1> DEFINE a == SubSeq(lines, 1, i - 1)
             b == SubSeq(lines, i, e)
  <1>1. a \in Seq(BodyLine) /\ b \in Seq(BodyLine) /\ b # <<>> /\ SubSeq(lines, 1, e) = a \o b
    OBVIOUS
  <1> HIDE DEF a, b
  <1>2. Bytes(a \o b) = Bytes(a) + Bytes(b) /\ Bytes(a) \in Nat /\ Bytes(b) \in Nat /\ Bytes(b) > 0
    BY <1>1, BytesConcat, BytesPositive
  <1>3. Bytes(SubSeq(lines, 1, e)) = Bytes(a) + Bytes(b)
    BY <1>1, <1>2
  <1> QED
    BY <1>2, <1>3 DEF a

(* Where the next byte to split is. *)
Position(c) ==
    IF c.hunk = 0 THEN Start(c.section) ELSE OwnedStart(c.section, c.hunk, c.line)

(* Fragments in the order of the diff: each byte up to pos is in one.       *)
Owns(f, byte) == f.start <= byte /\ byte < f.end
UpTo(frs, pos) ==
    /\ \A n \in DOMAIN frs : frs[n].start < frs[n].end /\ frs[n].end <= pos
    /\ \A m, n \in DOMAIN frs : m < n => frs[m].end <= frs[n].start
    /\ \A byte \in 0 .. pos - 1 : \E n \in DOMAIN frs : Owns(frs[n], byte)

LEMMA NextOwns ==
    ASSUME NEW pos \in Nat, NEW frs \in Seq(Fragment), UpTo(frs, pos),
           NEW f \in Fragment, f.start = pos, f.start < f.end
    PROVE  UpTo(Append(frs, f), f.end)
  <1> DEFINE next == Append(frs, f)
             last == Len(frs) + 1
  <1>1. /\ Len(frs) \in Nat /\ DOMAIN frs = 1 .. Len(frs) /\ DOMAIN next = 1 .. last
        /\ \A n \in 1 .. Len(frs) : next[n] = frs[n] /\ frs[n] \in Fragment
        /\ next[last] = f
    OBVIOUS
  <1> HIDE DEF next
  <1>2. f.end \in Nat /\ \A n \in 1 .. Len(frs) : frs[n].start \in Nat /\ frs[n].end \in Nat
    <2>1. \A x \in Fragment : x.start \in Nat /\ x.end \in Nat
      BY DEF Fragment
    <2> QED
      BY <1>1, <2>1
  <1>3. \A n \in 1 .. last : n = last \/ n \in 1 .. Len(frs)
    BY <1>1
  <1>4. ASSUME NEW n \in 1 .. last
        PROVE  next[n].start < next[n].end /\ next[n].end <= f.end
    <2>1. CASE n = last
      BY <1>1, <1>2, <2>1
    <2>2. CASE n \in 1 .. Len(frs)
      <3>1. frs[n].start < frs[n].end /\ frs[n].end <= pos
        BY <1>1, <2>2 DEF UpTo
      <3> QED
        BY <1>1, <1>2, <2>2, <3>1
    <2> QED
      BY <1>3, <2>1, <2>2
  <1>5. ASSUME NEW m \in 1 .. last, NEW n \in 1 .. last, m < n
        PROVE  next[m].end <= next[n].start
    <2>1. m \in 1 .. Len(frs)
      BY <1>1, <1>5
    <2>2. CASE n = last
      <3>1. frs[m].end <= pos
        BY <1>1, <2>1 DEF UpTo
      <3> QED
        BY <1>1, <2>1, <2>2, <3>1
    <2>3. CASE n \in 1 .. Len(frs)
      BY <1>1, <1>5, <2>1, <2>3 DEF UpTo
    <2> QED
      BY <1>3, <2>2, <2>3
  <1>6. ASSUME NEW byte \in 0 .. f.end - 1
        PROVE  \E n \in 1 .. last : Owns(next[n], byte)
    <2>1. CASE byte < pos
      <3>1. byte \in 0 .. pos - 1
        BY <2>1
      <3>2. PICK n \in 1 .. Len(frs) : Owns(frs[n], byte)
        BY <1>1, <3>1 DEF UpTo
      <3> QED
        BY <1>1, <3>2
    <2>2. CASE ~(byte < pos)
      <3>1. Owns(next[last], byte)
        BY <1>1, <1>2, <2>2 DEF Owns
      <3>2. last \in 1 .. last
        BY <1>1
      <3> QED
        BY <3>1, <3>2
    <2> QED
      BY <2>1, <2>2
  <1> QED
    BY <1>1, <1>4, <1>5, <1>6 DEF UpTo, next

LEMMA WholeOwns ==
    ASSUME input \in Selections, NEW k \in 1 .. Len(Sections)
    PROVE  /\ Whole(k).start = Start(k) /\ Whole(k).end = Start(k + 1) /\ Start(k) < Start(k + 1)
           /\ Whole(k).file = Sections[k].file /\ Start(k) \in Nat
  <1>1. /\ Start(k + 1) = Start(k) + SectionBytes(Sections[k])
        /\ Start(k) \in Nat /\ SectionBytes(Sections[k]) \in Nat
    BY StartStep
  <1>2. SectionBytes(Sections[k]) > 0
    <2> DEFINE s == Sections[k]
               t == Total([j \in DOMAIN s.hunks |-> HunkBytes(s.hunks[j])])
    <2>1. s \in FileSection
      BY SelectionFields
    <2> HIDE DEF s
    <2>2. s.meta \in Nat /\ s.meta # 0 /\ DOMAIN s.hunks = 1 .. Len(s.hunks) /\ Len(s.hunks) \in Nat
      BY <2>1, SectionFields
    <2>3. [j \in DOMAIN s.hunks |-> HunkBytes(s.hunks[j])] \in Seq(Nat)
      <3>1. \A j \in 1 .. Len(s.hunks) : HunkBytes(s.hunks[j]) \in Nat
        BY <2>1, SectionFields, HunkFields, LineSizesTotal
      <3> QED
        BY <2>2, <3>1
    <2>4. t \in Nat
      BY <2>3, TotalType
    <2>5. SectionBytes(s) = s.meta + t
      BY DEF SectionBytes
    <2> HIDE DEF t
    <2>6. SectionBytes(s) > 0
      BY <2>2, <2>4, <2>5
    <2> QED
      BY <2>6 DEF s
  <1> QED
    BY <1>1, <1>2 DEF Whole

(* A chunk owns the bytes from the last one's end to its own; the next      *)
(* position is there.                                                       *)
LEMMA ChunkOwns ==
    ASSUME input \in Selections, NEW k \in 1 .. Len(Sections),
           NEW j \in 1 .. Len(Sections[k].hunks), NEW i \in Nat \ {0},
           NEW e \in i .. Len(Sections[k].hunks[j].lines)
    PROVE  /\ OwnedStart(k, j, i) \in Nat /\ LineAt(k, j, e + 1) \in Nat
           /\ OwnedStart(k, j, i) < LineAt(k, j, e + 1)
           /\ Chunk(k, j, i, e).start = OwnedStart(k, j, i)
           /\ Chunk(k, j, i, e).end = LineAt(k, j, e + 1)
           /\ Chunk(k, j, i, e).file = Sections[k].file
           /\ e = Len(Sections[k].hunks[j].lines) => Position(AfterHunk(k, j)) = LineAt(k, j, e + 1)
           /\ e # Len(Sections[k].hunks[j].lines) => OwnedStart(k, j, e + 1) = LineAt(k, j, e + 1)
  <1> DEFINE s == Sections[k]
             h == s.hunks[j]
             lines == h.lines
             before == Bytes(SubSeq(lines, 1, i - 1))
             through == Bytes(SubSeq(lines, 1, e))
             open == Header + h.suffix
  <1>1. s \in FileSection /\ Len(s.hunks) \in Nat
    BY SelectionFields, SectionFields
  <1>2. IsHunk(h)
    BY <1>1, SectionFields, HunkFields
  <1>3. /\ HunkAt(k, j + 1) = HunkAt(k, j) + HunkBytes(h)
        /\ HunkAt(k, j) \in Nat /\ Start(k) \in Nat /\ Start(k) < HunkAt(k, j)
        /\ j = Len(s.hunks) => HunkAt(k, j + 1) = Start(k + 1)
    BY HunkStep
  <1>4. /\ LineAt(k, j, i) = HunkAt(k, j) + Header + h.suffix + before
        /\ LineAt(k, j, e + 1) = HunkAt(k, j) + Header + h.suffix + through
    <2>1. (e + 1) - 1 = e
      OBVIOUS
    <2> QED
      BY <2>1 DEF LineAt
  <1>5. e \in i .. Len(lines)
    OBVIOUS
  <1>6. /\ Chunk(k, j, i, e).start = OwnedStart(k, j, i) /\ Chunk(k, j, i, e).file = s.file
        /\ Chunk(k, j, i, e).end = LineAt(k, j, e + 1)
    BY DEF Chunk
  <1>7. j \in 1 .. Len(s.hunks)
    OBVIOUS
  <1> HIDE DEF h
  <1>8. lines \in Seq(BodyLine) /\ Len(lines) \in Nat /\ h.suffix \in Nat /\ Header \in Nat
    BY <1>2, ByteConstants DEF IsHunk
  <1> HIDE DEF lines
  <1>9. before \in Nat /\ through \in Nat /\ before < through
    BY <1>5, <1>8, LinesGrow
  <1>10. e = Len(lines) => through = Bytes(lines)
    <2>1. SubSeq(lines, 1, Len(lines)) = lines
      BY <1>8
    <2> QED
      BY <2>1
  <1>11. HunkBytes(h) = Header + h.suffix + Bytes(lines) /\ Bytes(lines) \in Nat
    BY <1>2, <1>8, LineSizesTotal, BytesType DEF lines
  <1> HIDE DEF before, through, s
  <1>12. i > 1 \/ i = 1
    OBVIOUS
  <1>13. /\ OwnedStart(k, j, i) \in {LineAt(k, j, i), HunkAt(k, j), Start(k)}
    BY DEF OwnedStart
  <1>14. /\ LineAt(k, j, i) \in Nat /\ LineAt(k, j, e + 1) \in Nat
         /\ LineAt(k, j, i) < LineAt(k, j, e + 1) /\ HunkAt(k, j) < LineAt(k, j, e + 1)
         /\ Start(k) < LineAt(k, j, e + 1)
    <2> DEFINE at0 == HunkAt(k, j)
               start == Start(k)
    <2>1. at0 \in Nat /\ start \in Nat /\ start < at0
      BY <1>3
    <2> HIDE DEF at0, start
    <2> DEFINE body == at0 + Header + h.suffix
    <2>2. body \in Nat /\ at0 <= body
      <3>1. \A a, b, c \in Nat : a + b + c \in Nat /\ a <= a + b + c
        OBVIOUS
      <3> QED
        BY <1>8, <2>1, <3>1
    <2>3. LineAt(k, j, i) = body + before /\ LineAt(k, j, e + 1) = body + through
      BY <1>4 DEF at0
    <2> HIDE DEF body
    <2>4. /\ body + before \in Nat /\ body + through \in Nat
          /\ body + before < body + through /\ at0 < body + through /\ start < body + through
      <3>1. \A n, m \in Nat : n < m => /\ body + n \in Nat /\ body + m \in Nat
                                      /\ body + n < body + m /\ at0 < body + m /\ start < body + m
        BY <2>1, <2>2
      <3> QED
        BY <1>9, <3>1
    <2> QED
      BY <2>3, <2>4 DEF at0, start
  <1>15. e = Len(lines) => LineAt(k, j, e + 1) = HunkAt(k, j + 1)
    <2> HIDE DEF lines
    <2>1. ASSUME e = Len(lines) PROVE through = Bytes(lines)
      BY <1>10, <2>1
    <2> QED
      BY <1>3, <1>4, <1>8, <1>9, <1>11, <2>1
  <1>16. e + 1 > 1 /\ OwnedStart(k, j, e + 1) = LineAt(k, j, e + 1)
    <2>1. e + 1 > 1
      BY <1>5, <1>8
    <2> QED
      BY <2>1 DEF OwnedStart
  <1>17. Position(AfterHunk(k, j)) = HunkAt(k, j + 1)
    <2>1. CASE j < Len(s.hunks)
      <3>1. AfterHunk(k, j) = AtHunk(k, j + 1)
        BY <2>1 DEF AfterHunk, s
      <3>2. AtHunk(k, j + 1).section = k /\ AtHunk(k, j + 1).hunk = j + 1 /\ AtHunk(k, j + 1).line = 1
        BY DEF AtHunk
      <3>3. j + 1 # 0 /\ j + 1 > 1 /\ ~(1 > 1)
        BY <1>1, <1>7
      <3> QED
        BY <3>1, <3>2, <3>3 DEF Position, OwnedStart
    <2>2. CASE ~(j < Len(s.hunks))
      <3>1. j = Len(s.hunks)
        BY <1>1, <1>7, <2>2
      <3>2. AfterHunk(k, j) = AtSection(k + 1)
        BY <2>2 DEF AfterHunk, s
      <3>3. AtSection(k + 1).hunk = 0 /\ AtSection(k + 1).section = k + 1
        BY DEF AtSection
      <3> QED
        BY <1>3, <3>1, <3>2, <3>3 DEF Position
    <2> QED
      BY <2>1, <2>2
  <1> QED
    BY <1>3, <1>6, <1>13, <1>14, <1>15, <1>16, <1>17 DEF s, h, lines

LEMMA SortedAll ==
    ASSUME NEW S \in SUBSET Nat, IsFiniteSet(S)
    PROVE  IsInjective(Sorted(S)) /\ Range(Sorted(S)) = S
  <1> DEFINE At(i) == CHOOSE p \in S : Cardinality({q \in S : q < p}) = i - 1
             n == Cardinality(S)
  <1>1. n \in Nat /\ Sorted(S) \in Seq(S) /\ Len(Sorted(S)) = n
    BY SortedType
  <1>2. ASSUME NEW i \in 1 .. n PROVE At(i) \in S /\ Cardinality(Below(S, At(i))) = i - 1
    <2>1. i - 1 \in 0 .. n - 1
      BY <1>1
    <2>2. \E p \in S : Cardinality(Below(S, p)) = i - 1
      BY <2>1, RanksExist
    <2>3. \E p \in S : Cardinality({q \in S : q < p}) = i - 1
      BY <2>2 DEF Below
    <2> QED
      BY <2>3 DEF Below
  <1>3. DOMAIN Sorted(S) = 1 .. n /\ \A i \in 1 .. n : Sorted(S)[i] = At(i)
    BY DEF Sorted
  <1> HIDE DEF At, n
  <1>4. IsInjective(Sorted(S))
    <2>1. ASSUME NEW i \in 1 .. n, NEW j \in 1 .. n, At(i) = At(j) PROVE i = j
      <3>1. i - 1 = j - 1
        BY <1>2, <2>1
      <3> QED
        BY <1>1, <3>1
    <2> QED
      BY <1>3, <2>1 DEF IsInjective
  <1>5. ASSUME NEW p \in S PROVE p \in Range(Sorted(S))
    <2> DEFINE i == Cardinality(Below(S, p)) + 1
    <2>1. Below(S, p) \in SUBSET S /\ p \notin Below(S, p)
      BY DEF Below
    <2>2. IsFiniteSet(Below(S, p)) /\ Cardinality(Below(S, p)) <= n /\ Cardinality(Below(S, p)) # n
      BY <2>1, FS_Subset DEF n
    <2>3. Cardinality(Below(S, p)) \in Nat
      BY <2>2, FS_CardinalityType
    <2>4. i \in 1 .. n /\ i - 1 = Cardinality(Below(S, p))
      BY <1>1, <2>2, <2>3
    <2> HIDE DEF i
    <2>5. At(i) = p
      BY <1>2, <2>4, RanksDiffer
    <2> QED
      BY <1>3, <2>4, <2>5 DEF Range
  <1>6. ASSUME NEW p \in Range(Sorted(S)) PROVE p \in S
    BY <1>2, <1>3 DEF Range
  <1> QED
    BY <1>4, <1>5, <1>6

(* The groups so far: apart from each other, and all of the first files.    *)
Apart(groupings) == \A a, b \in groupings : a # b => a \cap b = {}
Cover(sets, S) == \A x : x \in S <=> \E a \in sets : x \in a
Piled(acc, done) ==
    /\ Apart(acc.out) /\ \A a \in acc.out : a \cap acc.chunk = {}
    /\ Cover(acc.out \cup {acc.chunk}, done)

LEMMA CoverIsUnion == ASSUME NEW sets, NEW S, Cover(sets, S) PROVE UNION sets = S
  <1>1. ASSUME NEW x \in UNION sets PROVE x \in S
    <2>1. PICK a \in sets : x \in a
      OBVIOUS
    <2> QED
      BY <2>1, Zenon DEF Cover
  <1>2. ASSUME NEW x \in S PROVE x \in UNION sets
    <2>1. PICK a \in sets : x \in a
      BY Zenon DEF Cover
    <2> QED
      BY <2>1
  <1> QED
    BY <1>1, <1>2

LEMMA PutPiles ==
    ASSUME NEW S, NEW acc \in Chunks(S), NEW done, Piled(acc, done), NEW p \in S, p \notin done
    PROVE  Piled(Put(acc, p), done \cup {p})
  <1>1. /\ Apart(acc.out) /\ \A a \in acc.out : a \cap acc.chunk = {}
        /\ Cover(acc.out \cup {acc.chunk}, done)
        /\ acc = [out |-> acc.out, chunk |-> acc.chunk]
    BY DEF Piled, Chunks
  <1>2. \A a \in acc.out \cup {acc.chunk} : p \notin a
    BY <1>1, Zenon DEF Cover
  <1>3. CASE Full(acc.chunk, p)
    <2> DEFINE out == acc.out \cup {acc.chunk}
    <2>1. Put(acc, p) = [out |-> out, chunk |-> {p}]
      BY <1>3 DEF Put
    <2>2. Apart(out)
      BY <1>1 DEF Apart
    <2>3. \A a \in out : a \cap {p} = {}
      BY <1>2
    <2>4. Cover(out \cup {{p}}, done \cup {p})
      BY <1>1, Zenon DEF Cover
    <2> HIDE DEF out
    <2> QED
      BY <2>1, <2>2, <2>3, <2>4 DEF Piled
  <1>4. CASE ~Full(acc.chunk, p)
    <2> DEFINE chunk == acc.chunk \cup {p}
    <2>1. Put(acc, p) = [out |-> acc.out, chunk |-> chunk]
      BY <1>1, <1>4 DEF Put
    <2>2. \A a \in acc.out : a \cap chunk = {}
      BY <1>1, <1>2
    <2>3. Cover(acc.out \cup {chunk}, done \cup {p})
      <3>1. ASSUME NEW x
            PROVE  x \in done \cup {p} <=> \E a \in acc.out \cup {chunk} : x \in a
        <4>1. x \in done <=> x \in acc.chunk \/ \E a \in acc.out : x \in a
          <5>1. x \in done <=> \E a \in acc.out \cup {acc.chunk} : x \in a
            BY <1>1, Zenon DEF Cover
          <5>2. (\E a \in acc.out \cup {acc.chunk} : x \in a)
                   <=> x \in acc.chunk \/ \E a \in acc.out : x \in a
            OBVIOUS
          <5> QED
            BY <5>1, <5>2
        <4>2. x \in chunk <=> x \in acc.chunk \/ x = p
          OBVIOUS
        <4> HIDE DEF chunk
        <4> QED
          BY <4>1, <4>2, Zenon
      <3> QED
        BY <3>1 DEF Cover
    <2> HIDE DEF chunk
    <2> QED
      BY <1>1, <2>1, <2>2, <2>3 DEF Piled
  <1> QED
    BY <1>3, <1>4

LEMMA PackFilesApart ==
    ASSUME NEW S \in SUBSET DOMAIN Files, S # {}
    PROVE  Apart(PackFiles(S)) /\ Cover(PackFiles(S), S)
  <1> DEFINE s == Sorted(S)
             Done(n) == {s[i] : i \in 1 .. n}
  <1>1. PICK r : /\ PutRun(r, S)
                 /\ PackFiles(S) = r[Len(s)].out \cup {r[Len(s)].chunk}
    BY PackFilesRuns
  <1>2. s \in Seq(S) /\ Len(s) \in Nat
    BY FileSets
  <1>3. IsInjective(s) /\ Range(s) = S
    BY FileSets, SortedAll
  <1> HIDE DEF s
  <1>4. DOMAIN s = 1 .. Len(s) /\ \A i \in 1 .. Len(s) : s[i] \in S
    BY <1>2
  <1> DEFINE P(n) == n <= Len(s) => Piled(r[n], Done(n))
  <1>5. P(0)
    <2>1. r[0].out = {} /\ r[0].chunk = {} /\ Done(0) = {}
      BY <1>1 DEF PutRun
    <2> QED
      BY <2>1 DEF Piled, Apart, Cover
  <1>6. ASSUME NEW n \in Nat, P(n) PROVE P(n + 1)
    <2> SUFFICES ASSUME n + 1 <= Len(s) PROVE Piled(r[n + 1], Done(n + 1))
      OBVIOUS
    <2>1. n \in 0 .. Len(s) /\ n + 1 \in 1 .. Len(s) /\ (n + 1) - 1 = n /\ n <= Len(s)
      BY <1>2
    <2>2. r[n] \in Chunks(S) /\ r[n + 1] = Put(r[n], s[n + 1])
      BY <1>1, <2>1 DEF PutRun, s
    <2>3. Done(n + 1) = Done(n) \cup {s[n + 1]}
      <3>1. 1 .. n + 1 = (1 .. n) \cup {n + 1}
        OBVIOUS
      <3> QED
        BY <3>1
    <2>4. s[n + 1] \notin Done(n)
      <3>1. \A i \in 1 .. n : i \in DOMAIN s /\ n + 1 \in DOMAIN s /\ i # n + 1
        BY <1>4, <2>1
      <3>2. \A i \in 1 .. n : s[i] # s[n + 1]
        BY <1>3, <3>1 DEF IsInjective
      <3> QED
        BY <3>2
    <2>5. Piled(r[n], Done(n)) /\ s[n + 1] \in S
      BY <1>4, <1>6, <2>1
    <2> HIDE DEF Done
    <2>6. Piled(Put(r[n], s[n + 1]), Done(n) \cup {s[n + 1]})
      BY <2>2, <2>4, <2>5, PutPiles
    <2> QED
      BY <2>2, <2>3, <2>6
  <1>7. \A n \in Nat : P(n)
    <2> DEFINE T == {n \in Nat : P(n)}
    <2> HIDE DEF P
    <2>1. 0 \in T /\ \A n \in Nat : n \in T => n + 1 \in T
      BY <1>5, <1>6
    <2> HIDE DEF T
    <2>2. \A n \in Nat : n \in T
      BY <2>1, Induction
    <2> QED
      BY <2>2 DEF T
  <1>8. Piled(r[Len(s)], Done(Len(s)))
    <2>1. Len(s) <= Len(s)
      BY <1>2
    <2> HIDE DEF Done
    <2> QED
      BY <1>2, <1>7, <2>1
  <1>9. Done(Len(s)) = S
    BY <1>3, <1>4 DEF Range
  <1> HIDE DEF Done
  <1> DEFINE last == r[Len(s)]
  <1>10. /\ Apart(last.out) /\ \A a \in last.out : a \cap last.chunk = {}
         /\ Cover(last.out \cup {last.chunk}, S) /\ PackFiles(S) = last.out \cup {last.chunk}
    BY <1>1, <1>8, <1>9 DEF Piled, s
  <1> HIDE DEF last
  <1>11. Apart(PackFiles(S))
    BY <1>10 DEF Apart
  <1> QED
    BY <1>10, <1>11

(* The groups are apart from each other, and all of the files.              *)
Partition(s, S) ==
    UNION Range(s) = S /\ \A i, j \in DOMAIN s : i # j => s[i] \cap s[j] = {}

LEMMA SplitApart ==
    ASSUME NEW S \in SUBSET DOMAIN Files, S # {}
    PROVE  /\ SplitOversized(S) \subseteq (SUBSET S) \ {{}}
           /\ Apart(SplitOversized(S)) /\ Cover(SplitOversized(S), S)
  <1>1. CASE SplitOversized(S) = {S}
    <2>1. Apart({S}) /\ Cover({S}, S) /\ S \in (SUBSET S) \ {{}}
      BY DEF Apart, Cover
    <2> QED
      BY <1>1, <2>1
  <1>2. CASE SplitOversized(S) = PackFiles(S)
    BY <1>2, PackFilesApart, PackFilesType
  <1> QED
    BY <1>1, <1>2 DEF SplitOversized

LEMMA ClusterApart ==
    ASSUME NEW S \in SUBSET DOMAIN Files, NEW imported
    PROVE  Partition(ClusterFilesEdges(S, imported), S)
  <1> DEFINE key == Keys(S, imported)
             buckets == {{q \in S : key[q] = key[p]} : p \in S}
             split == UNION {SplitOversized(b) : b \in buckets}
             mins == {Min(group) : group \in split}
             firsts == Sorted(mins)
             Of(i) == CHOOSE group \in split : Min(group) = firsts[i]
             result == [i \in DOMAIN firsts |-> Of(i)]
  <1> HIDE DEF key
  <1>1. Apart(buckets) /\ Cover(buckets, S)
    <2>1. ASSUME NEW p \in S, NEW q \in S, NEW x \in S, key[x] = key[p], key[x] = key[q]
          PROVE  {y \in S : key[y] = key[p]} = {y \in S : key[y] = key[q]}
      BY <2>1
    <2>2. Apart(buckets)
      <3>1. ASSUME NEW a \in buckets, NEW b \in buckets, NEW x \in a, x \in b PROVE a = b
        <4>1. PICK p \in S : a = {y \in S : key[y] = key[p]}
          OBVIOUS
        <4>2. PICK q \in S : b = {y \in S : key[y] = key[q]}
          OBVIOUS
        <4>3. x \in S /\ key[x] = key[p] /\ key[x] = key[q]
          BY <3>1, <4>1, <4>2
        <4> QED
          BY <2>1, <4>1, <4>2, <4>3
      <3> HIDE DEF buckets
      <3> QED
        BY <3>1 DEF Apart
    <2>3. ASSUME NEW x \in S PROVE \E b \in buckets : x \in b
      <3>1. {y \in S : key[y] = key[x]} \in buckets /\ x \in {y \in S : key[y] = key[x]}
        OBVIOUS
      <3> QED
        BY <3>1
    <2>4. ASSUME NEW b \in buckets, NEW x \in b PROVE x \in S
      OBVIOUS
    <2> QED
      BY <2>2, <2>3, <2>4 DEF Cover
  <1>2. \A b \in buckets : b \in SUBSET DOMAIN Files /\ b \in SUBSET S /\ b # {}
    <2>1. ASSUME NEW p \in S PROVE p \in {q \in S : key[q] = key[p]}
      OBVIOUS
    <2> QED
      BY <2>1
  <1> HIDE DEF buckets
  <1>3. ASSUME NEW g, g \in split
        PROVE  \E b \in buckets : g \in SplitOversized(b)
    BY <1>3
  <1>4. ASSUME NEW b \in buckets
        PROVE  /\ SplitOversized(b) \subseteq (SUBSET b) \ {{}}
               /\ Apart(SplitOversized(b)) /\ Cover(SplitOversized(b), b)
               /\ SplitOversized(b) \subseteq split
    BY <1>2, SplitApart
  <1> HIDE DEF split
  <1>5. Cover(split, S)
    <2>1. ASSUME NEW x \in S PROVE \E g \in split : x \in g
      <3>1. PICK b \in buckets : x \in b
        BY <1>1, Zenon DEF Cover
      <3>2. PICK g \in SplitOversized(b) : x \in g
        <4>1. Cover(SplitOversized(b), b)
          BY <1>4
        <4> QED
          BY <3>1, <4>1, Zenon DEF Cover
      <3> QED
        BY <1>4, <3>2
    <2>2. ASSUME NEW g \in split, NEW x \in g PROVE x \in S
      <3>1. PICK b \in buckets : g \in SplitOversized(b)
        BY <1>3
      <3>2. x \in b
        BY <1>4, <3>1
      <3> QED
        BY <1>2, <3>2
    <2> QED
      BY <2>1, <2>2 DEF Cover
  <1>6. ASSUME NEW g \in split, NEW h \in split, NEW x \in g, x \in h PROVE g = h
    <2>1. PICK a \in buckets : g \in SplitOversized(a)
      BY <1>3
    <2>2. PICK b \in buckets : h \in SplitOversized(b)
      BY <1>3
    <2>3. x \in a /\ x \in b
      BY <1>4, <1>6, <2>1, <2>2
    <2>4. a = b
      BY <1>1, <2>3 DEF Apart
    <2> QED
      BY <1>4, <1>6, <2>1, <2>2, <2>4 DEF Apart
  <1>7. ASSUME NEW g \in split PROVE g \in (SUBSET S) \ {{}} /\ Min(g) \in g /\ Min(g) \in S
    <2>1. PICK b \in buckets : g \in SplitOversized(b)
      BY <1>3
    <2>2. g \in (SUBSET b) \ {{}} /\ b \in SUBSET S
      BY <1>2, <1>4, <2>1
    <2>3. g \in (SUBSET S) \ {{}} /\ g \in SUBSET Nat
      BY <2>2, GroupingAssumption
    <2> QED
      BY <2>3, MinIsLeast
  <1>8. mins \in SUBSET DOMAIN Files
    BY <1>7
  <1>9. IsInjective(firsts) /\ Range(firsts) = mins
    <2> HIDE DEF mins
    <2>1. mins \in SUBSET Nat /\ IsFiniteSet(mins)
      BY <1>8, FileSets
    <2> QED
      BY <2>1, SortedAll
  <1> HIDE DEF firsts
  <1>10. ASSUME NEW i \in DOMAIN firsts PROVE Of(i) \in split /\ Min(Of(i)) = firsts[i]
    <2>1. firsts[i] \in mins
      BY <1>9 DEF Range
    <2>2. \E g \in split : Min(g) = firsts[i]
      BY <2>1
    <2> QED
      BY <2>2
  <1>11. ASSUME NEW g \in split PROVE \E i \in DOMAIN firsts : Of(i) = g
    <2>1. Min(g) \in Range(firsts)
      BY <1>9
    <2>2. PICK i \in DOMAIN firsts : Min(g) = firsts[i]
      BY <2>1 DEF Range
    <2>3. Of(i) \in split /\ Min(Of(i)) = Min(g)
      BY <1>10, <2>2
    <2>4. Min(g) \in g /\ Min(g) \in Of(i)
      <3> HIDE DEF Of
      <3>1. Min(Of(i)) \in Of(i)
        BY <1>7, <2>3
      <3> QED
        BY <1>7, <2>3, <3>1
    <2>5. Of(i) = g
      <3> HIDE DEF Of
      <3> QED
        BY <1>6, <2>3, <2>4
    <2> QED
      BY <2>5
  <1>12. ClusterFilesEdges(S, imported) = result
    BY DEF ClusterFilesEdges, key, buckets, split, firsts
  <1> HIDE DEF Of
  <1>13. Range(result) = split
    BY <1>10, <1>11 DEF Range
  <1>14. ASSUME NEW i \in DOMAIN firsts, NEW j \in DOMAIN firsts, i # j
         PROVE  Of(i) \cap Of(j) = {}
    <2>1. firsts[i] # firsts[j]
      BY <1>9, <1>14 DEF IsInjective
    <2>2. Of(i) \in split /\ Of(j) \in split /\ Of(i) # Of(j)
      BY <1>10, <2>1
    <2> QED
      BY <1>6, <2>2
  <1>15. \A i, j \in DOMAIN result : i # j => result[i] \cap result[j] = {}
    BY <1>14
  <1> HIDE DEF result
  <1> QED
    BY <1>5, <1>12, <1>13, <1>15, CoverIsUnion DEF Partition

-----------------------------------------------------------------------------
(* Packing puts the fragments of a group after those packed before.         *)

Indices(group) == {n \in DOMAIN fragments : fragments[n].file \in group}
LEMMA FragmentsOfAll ==
    ASSUME fragments \in Seq(Fragment), IsInjective(fragments), NEW group \in SUBSET DOMAIN Files
    PROVE  /\ IsInjective(FragmentsOf(group))
           /\ Range(FragmentsOf(group)) = {fragments[n] : n \in Indices(group)}
  <1> DEFINE At(p) == {n \in DOMAIN fragments : fragments[n].file = p}
             files == Sorted(group)
             parts == [i \in DOMAIN files |-> Sorted(At(files[i]))]
             order == FlattenSeq(parts)
             N == DOMAIN fragments
  <1>1. N = 1 .. Len(fragments) /\ Len(fragments) \in Nat
    OBVIOUS
  <1>2. N \in SUBSET Nat /\ IsFiniteSet(N)
    <2>1. 1 \in Int /\ Len(fragments) \in Int
      BY <1>1
    <2> HIDE DEF N
    <2> QED
      BY <1>1, <2>1, FS_Interval
  <1>3. ASSUME NEW p
        PROVE  Sorted(At(p)) \in Seq(N) /\ IsInjective(Sorted(At(p))) /\ Range(Sorted(At(p))) = At(p)
    <2>1. At(p) \in SUBSET N
      OBVIOUS
    <2> HIDE DEF At, N
    <2>2. At(p) \in SUBSET Nat /\ IsFiniteSet(At(p))
      BY <1>2, <2>1, FS_Subset
    <2>3. Sorted(At(p)) \in Seq(At(p))
      BY <2>2, SortedType
    <2> QED
      BY <2>1, <2>2, <2>3, SortedAll
  <1>4. /\ files \in Seq(group) /\ Len(files) \in Nat /\ DOMAIN files = 1 .. Len(files)
        /\ IsInjective(files) /\ Range(files) = group
    <2>1. files \in Seq(group) /\ group \in SUBSET Nat /\ IsFiniteSet(group)
      BY FileSets
    <2>2. IsInjective(files) /\ Range(files) = group
      BY <2>1, SortedAll
    <2> HIDE DEF files
    <2> QED
      BY <2>1, <2>2
  <1>5. \A p, q : p # q => At(p) \cap At(q) = {}
    OBVIOUS
  <1>6. UNION {At(p) : p \in group} = Indices(group)
    BY DEF Indices
  <1> HIDE DEF files, At, N
  <1>7. parts \in Seq(Seq(N)) /\ DOMAIN parts = DOMAIN files
    BY <1>3, <1>4
  <1>8. AllDistinct(parts)
    <2>1. \A i \in DOMAIN files : IsInjective(parts[i]) /\ Range(parts[i]) = At(files[i])
      BY <1>3
    <2>2. ASSUME NEW i \in DOMAIN files, NEW j \in DOMAIN files, i # j
          PROVE  Range(parts[i]) \cap Range(parts[j]) = {}
      <3>1. files[i] # files[j]
        BY <1>4, <2>2 DEF IsInjective
      <3> HIDE DEF parts
      <3> QED
        BY <1>5, <2>1, <3>1
    <2> HIDE DEF parts
    <2> QED
      BY <1>7, <2>1, <2>2 DEF AllDistinct
  <1>9. InSome(parts) = Indices(group)
    <2>1. \A i \in DOMAIN files : Range(parts[i]) = At(files[i])
      BY <1>3
    <2> HIDE DEF parts
    <2>2. ASSUME NEW n \in InSome(parts) PROVE n \in Indices(group)
      <3>1. PICK i \in DOMAIN files : n \in Range(parts[i])
        BY <1>7 DEF InSome
      <3>2. files[i] \in group /\ n \in At(files[i])
        BY <1>4, <2>1, <3>1
      <3> QED
        BY <3>2 DEF At, Indices
    <2>3. ASSUME NEW n \in Indices(group) PROVE n \in InSome(parts)
      <3>1. fragments[n].file \in group /\ n \in At(fragments[n].file)
        BY DEF At, Indices
      <3>2. PICK i \in DOMAIN files : files[i] = fragments[n].file
        BY <1>4, <3>1 DEF Range
      <3>3. n \in Range(parts[i])
        BY <2>1, <3>1, <3>2
      <3> QED
        BY <1>7, <3>3 DEF InSome
    <2> QED
      BY <2>2, <2>3
  <1>10. order \in Seq(N) /\ IsInjective(order) /\ Range(order) = Indices(group)
    <2> HIDE DEF parts
    <2> QED
      BY <1>7, <1>8, <1>9, FlattenDistinct, FlattenElements
  <1>11. FragmentsOf(group) = [n \in DOMAIN order |-> fragments[order[n]]]
    BY DEF FragmentsOf, order, parts, At, files
  <1> HIDE DEF order
  <1>12. \A n \in DOMAIN order : order[n] \in DOMAIN fragments
    BY <1>10 DEF Range, Indices
  <1>13. IsInjective(FragmentsOf(group))
    BY <1>10, <1>11, <1>12 DEF IsInjective
  <1>14. Range(FragmentsOf(group)) = {fragments[n] : n \in Range(order)}
    BY <1>11 DEF Range
  <1> QED
    BY <1>10, <1>13, <1>14

(* What is packed, in the order it was.                                     *)
AllOf(acc) == FlattenSeq(acc.locals) \o acc.pending

LEMMA PackingFields ==
    ASSUME NEW base, NEW acc \in Packings(base)
    PROVE  /\ acc.pending \in Seq(Fragment) /\ acc.locals \in Seq(Seq(Fragment))
           /\ FlattenSeq(acc.locals) \in Seq(Fragment) /\ AllOf(acc) \in Seq(Fragment)
  <1>1. acc.pending \in Fitting(base) \cup {<<>>} /\ acc.locals \in Seq(Locals(base))
    BY DEF Packings
  <1>2. \A x \in Fitting(base) : x \in Seq(Fragment)
    BY DEF Fitting
  <1>3. <<>> \in Seq(Fragment)
    OBVIOUS
  <1>4. \A x \in Locals(base) : x \in Seq(Fragment)
    BY <1>2 DEF Locals
  <1>5. acc.pending \in Seq(Fragment) /\ acc.locals \in Seq(Seq(Fragment))
    <2>1. acc.pending \in Seq(Fragment)
      BY <1>1, <1>2, <1>3
    <2> HIDE DEF Locals
    <2>2. Len(acc.locals) \in Nat /\ acc.locals = [i \in 1 .. Len(acc.locals) |-> acc.locals[i]]
          /\ \A i \in 1 .. Len(acc.locals) : acc.locals[i] \in Locals(base)
      BY <1>1
    <2>3. \A i \in 1 .. Len(acc.locals) : acc.locals[i] \in Seq(Fragment)
      BY <1>4, <2>2
    <2> QED
      BY <2>1, <2>2, <2>3
  <1>6. FlattenSeq(acc.locals) \in Seq(Fragment)
    BY <1>5, FlattenElements
  <1> QED
    BY <1>5, <1>6, ConcatIs DEF AllOf

LEMMA AllOfFields ==
    \A pend, packs : AllOf([pending |-> pend, locals |-> packs]) = FlattenSeq(packs) \o pend
  BY DEF AllOf

LEMMA FragmentsConcat ==
    \A s, t, u \in Seq(Fragment) : (s \o t) \o u = s \o (t \o u)
  BY ConcatAssoc

LEMMA FlushAll ==
    ASSUME NEW base, NEW acc \in Packings(base)
    PROVE  AllOf(Flush(acc)) = AllOf(acc) /\ FlattenSeq(Flush(acc).locals) = AllOf(acc)
  <1>1. /\ acc.pending \in Seq(Fragment) /\ acc.locals \in Seq(Seq(Fragment))
        /\ FlattenSeq(acc.locals) \in Seq(Fragment) /\ AllOf(acc) \in Seq(Fragment)
    BY PackingFields
  <1>2. \A s \in Seq(Fragment) : s \o <<>> = s
    OBVIOUS
  <1>3. CASE acc.pending = <<>>
    BY <1>1, <1>2, <1>3 DEF Flush, AllOf
  <1>4. CASE acc.pending # <<>>
    <2> DEFINE next == Append(acc.locals, acc.pending)
    <2>1. Flush(acc) = [pending |-> <<>>, locals |-> next]
      BY <1>4 DEF Flush
    <2>2. FlattenSeq(next) = AllOf(acc)
      BY <1>1, FlattenAppend DEF AllOf
    <2> HIDE DEF next
    <2>3. AllOf(Flush(acc)) = FlattenSeq(next) \o <<>>
      BY <2>1 DEF AllOf
    <2> QED
      BY <1>1, <1>2, <2>1, <2>2, <2>3
  <1> QED
    BY <1>3, <1>4

LEMMA PlaceAll ==
    ASSUME NEW base, NEW acc \in Packings(base), NEW frags \in Seq(Fragment)
    PROVE  AllOf(Place(acc, frags)) = AllOf(acc) \o frags
  <1>1. /\ acc.pending \in Seq(Fragment) /\ FlattenSeq(acc.locals) \in Seq(Fragment)
        /\ acc = [pending |-> acc.pending, locals |-> acc.locals]
    BY PackingFields DEF Packings
  <1>2. CASE Fits(acc.pending \o frags)
    <2>1. Place(acc, frags) = [pending |-> acc.pending \o frags, locals |-> acc.locals]
      BY <1>1, <1>2 DEF Place
    <2>2. AllOf(Place(acc, frags)) = FlattenSeq(acc.locals) \o (acc.pending \o frags)
      BY <2>1, AllOfFields
    <2> QED
      BY <1>1, <2>2, FragmentsConcat DEF AllOf
  <1>3. CASE ~Fits(acc.pending \o frags)
    <2>1. Flush(acc) \in Packings(base) /\ FlattenSeq(Flush(acc).locals) = AllOf(acc)
      BY FlushType, FlushAll
    <2>2. Flush(acc) = [pending |-> Flush(acc).pending, locals |-> Flush(acc).locals]
      BY <2>1 DEF Packings
    <2>3. Place(acc, frags) = [pending |-> frags, locals |-> Flush(acc).locals]
      BY <1>3, <2>2 DEF Place
    <2> QED
      BY <2>1, <2>3, AllOfFields
  <1> QED
    BY <1>2, <1>3

LEMMA PackedGroupAll ==
    ASSUME input.base \in Nat, NEW acc \in Packings(input.base),
           NEW frags \in Seq(Alone(input.base))
    PROVE  AllOf(PackedGroup(acc, frags)) = AllOf(acc) \o frags
  <1> DEFINE n == Len(frags)
  <1>1. PICK r : /\ PlaceRun(r, acc, frags)
                 /\ PackedGroup(acc, frags) = IF Fits(frags) THEN Place(acc, frags)
                                              ELSE Flush(r[n])
    BY PackedGroupRuns
  <1>2. frags \in Seq(Fragment) /\ n \in Nat /\ \A i \in 1 .. n : frags[i] \in Fragment
    <2>1. \A f \in Alone(input.base) : f \in Fragment
      BY DEF Alone
    <2> QED
      BY <2>1
  <1>3. AllOf(acc) \in Seq(Fragment)
    BY PackingFields
  <1>4. CASE Fits(frags)
    BY <1>1, <1>2, <1>4, PlaceAll
  <1>5. CASE ~Fits(frags)
    <2> DEFINE P(i) == i <= n => AllOf(r[i]) = AllOf(acc) \o SubSeq(frags, 1, i)
    <2>1. P(0)
      <3>1. SubSeq(frags, 1, 0) = <<>> /\ AllOf(acc) \o <<>> = AllOf(acc)
        BY <1>3
      <3>2. AllOf(r[0]) = AllOf(acc)
        BY <1>1, FlushAll DEF PlaceRun
      <3> QED
        BY <3>1, <3>2
    <2>2. ASSUME NEW i \in Nat, P(i) PROVE P(i + 1)
      <3> SUFFICES ASSUME i + 1 <= n PROVE AllOf(r[i + 1]) = AllOf(acc) \o SubSeq(frags, 1, i + 1)
        OBVIOUS
      <3>1. i \in 0 .. n /\ i + 1 \in 1 .. n /\ (i + 1) - 1 = i /\ i <= n
        BY <1>2
      <3>2. r[i] \in Packings(input.base) /\ r[i + 1] = Place(r[i], <<frags[i + 1]>>)
        BY <1>1, <3>1 DEF PlaceRun
      <3>3. <<frags[i + 1]>> \in Seq(Fragment)
        BY <1>2, <3>1
      <3>4. AllOf(r[i + 1]) = AllOf(r[i]) \o <<frags[i + 1]>>
        BY <3>2, <3>3, PlaceAll
      <3>5. AllOf(r[i]) = AllOf(acc) \o SubSeq(frags, 1, i)
        BY <2>2, <3>1
      <3>6. /\ SubSeq(frags, 1, i) \in Seq(Fragment)
            /\ SubSeq(frags, 1, i + 1) = SubSeq(frags, 1, i) \o <<frags[i + 1]>>
        BY <1>2, PrefixGrows
      <3>7. (AllOf(acc) \o SubSeq(frags, 1, i)) \o <<frags[i + 1]>>
              = AllOf(acc) \o (SubSeq(frags, 1, i) \o <<frags[i + 1]>>)
        BY <1>3, <3>3, <3>6, FragmentsConcat
      <3> QED
        BY <3>4, <3>5, <3>6, <3>7
    <2>3. \A i \in Nat : P(i)
      <3> DEFINE T == {i \in Nat : P(i)}
      <3> HIDE DEF P
      <3>1. 0 \in T /\ \A i \in Nat : i \in T => i + 1 \in T
        BY <2>1, <2>2
      <3> HIDE DEF T
      <3>2. \A i \in Nat : i \in T
        BY <3>1, Induction
      <3> QED
        BY <3>2 DEF T
    <2>4. P(n) /\ n <= n
      <3> HIDE DEF P
      <3> QED
        BY <1>2, <2>3
    <2>5. SubSeq(frags, 1, n) = frags /\ n \in 0 .. n
      BY <1>2
    <2>6. AllOf(r[n]) = AllOf(acc) \o frags
      <3>1. AllOf(r[n]) = AllOf(acc) \o SubSeq(frags, 1, n)
        BY <2>4
      <3> QED
        BY <2>5, <3>1
    <2>7. r[n] \in Packings(input.base)
      BY <1>1, <2>5 DEF PlaceRun
    <2> QED
      BY <1>1, <1>5, <2>6, <2>7, FlushAll
  <1> QED
    BY <1>4, <1>5

LEMMA SpecsSelect ==
    ASSUME NEW all \in SUBSET DOMAIN Files, NEW group \in SUBSET all,
           \A p, q \in all : IsPrefix(Path(p), Path(q)) => p = q
    PROVE  UNION {Under(spec, all) : spec \in GroupPathspecs(group, all)} = group
  <1> DEFINE dirs == {Files[p].dir : p \in group}
             own == {d \in dirs : d # <<>> /\ ExclusivePrefix(d, group, all)}
             paths == {Path(p) : p \in group}
             specs == GroupPathspecs(group, all)
  <1>1. CASE specs = own /\ own # {}
    <2>1. \A d \in own : Under(d, all) = group
      BY DEF ExclusivePrefix
    <2> HIDE DEF own
    <2>2. {Under(d, all) : d \in own} = {group}
      BY <1>1, <2>1
    <2> QED
      BY <1>1, <2>2
  <1>2. CASE specs = paths
    <2>1. ASSUME NEW p \in group PROVE Under(Path(p), all) = {p}
      <3>1. IsPrefix(Path(p), Path(p))
        <4>1. Path(p) \in Seq(STRING)
          BY GroupingAssumption DEF Path
        <4>2. Len(Path(p)) \in Nat
          BY <4>1
        <4> QED
          BY <4>2 DEF IsPrefix
      <3> QED
        BY <3>1 DEF Under
    <2>2. ASSUME NEW x \in UNION {Under(spec, all) : spec \in specs} PROVE x \in group
      <3>1. PICK p \in group : x \in Under(Path(p), all)
        BY <1>2
      <3> QED
        BY <2>1, <3>1
    <2>3. ASSUME NEW p \in group PROVE p \in UNION {Under(spec, all) : spec \in specs}
      <3>1. Path(p) \in specs /\ p \in Under(Path(p), all)
        BY <1>2, <2>1
      <3> QED
        BY <3>1
    <2> HIDE DEF specs
    <2>4. UNION {Under(spec, all) : spec \in specs} = group
      BY <2>2, <2>3
    <2> QED
      BY <2>4 DEF specs
  <1>3. specs = paths \/ (specs = own /\ own # {})
    BY DEF GroupPathspecs
  <1> QED
    BY <1>1, <1>2, <1>3

-----------------------------------------------------------------------------
(* Every byte is owned once: the inductive invariant.                       *)

(* The fragments cover the diff up to the loop variables, in order.         *)
OfChanged(frs) == \A n \in DOMAIN frs : frs[n].file \in ChangedFiles
Tiled ==
    /\ at.hunk = 0 => at.section <= Len(Sections) + 1
    /\ UpTo(fragments, Position(at))
    /\ OfChanged(fragments)
    /\ phase \in {"pack", "border"} => at = AtSection(Len(Sections) + 1)
(* The groups are a partition of the changed files.                         *)
Parted == phase = "pack" => Partition(groups, ChangedFiles) /\ packed <= Len(groups)
(* What is packed is every fragment of the groups so far, once.             *)
Packing == [pending |-> pending, locals |-> locals]
InGroups(n) == UNION {groups[i] : i \in 1 .. n}
Held ==
    /\ phase = "split" => pending = <<>> /\ locals = <<>> /\ packed = 0
    /\ phase = "pack" => /\ IsInjective(AllOf(Packing))
                         /\ Range(AllOf(Packing)) = {fragments[n] : n \in Indices(InGroups(packed))}
    /\ phase = "border" => /\ IsInjective(FlattenSeq(locals))
                           /\ Range(FlattenSeq(locals)) = Range(fragments)
OwnInv == Tiled /\ Parted /\ Held

LEMMA TiledNext ==
    ASSUME input' = input, NEW c, at' = c, c.hunk = 0 => c.section <= Len(Sections) + 1,
           UpTo(fragments', Position(c)), OfChanged(fragments'),
           phase' \in {"pack", "border"} => c = AtSection(Len(Sections) + 1)
    PROVE  Tiled'
  <1>1. UpTo(fragments, Position(at))'
    BY DEF UpTo, Owns, Position, OwnedStart, LineAt, HunkAt, Start, Sections
  <1>2. OfChanged(fragments)'
    BY DEF OfChanged, ChangedFiles, Sections
  <1>3. /\ (at.hunk = 0 => at.section <= Len(Sections) + 1)'
        /\ (phase \in {"pack", "border"} => at = AtSection(Len(Sections) + 1))'
    BY DEF Sections, AtSection
  <1> QED
    BY <1>1, <1>2, <1>3 DEF Tiled

LEMMA OwnKept ==
    ASSUME OwnInv, UNCHANGED <<input, at, fragments, groups, packed, pending, locals>>,
           phase' \in {"split", "pack", "border"} => phase' = phase
    PROVE  OwnInv'
  <1>1. Tiled'
    <2>1. /\ at.hunk = 0 => at.section <= Len(Sections) + 1
          /\ UpTo(fragments', Position(at)) /\ OfChanged(fragments')
          /\ phase' \in {"pack", "border"} => at = AtSection(Len(Sections) + 1)
      BY DEF OwnInv, Tiled
    <2> QED
      BY <2>1, TiledNext
  <1>2. Parted'
    BY DEF OwnInv, Parted, ChangedFiles, Sections, Partition
  <1>3. Held'
    <2>1. Indices(InGroups(packed))' = Indices(InGroups(packed)) /\ AllOf(Packing)' = AllOf(Packing)
      BY DEF Indices, InGroups, AllOf, Packing
    <2> QED
      BY <2>1 DEF OwnInv, Held
  <1> QED
    BY <1>1, <1>2, <1>3 DEF OwnInv

LEMMA RefuseOwns == ASSUME OwnInv, NEW why, Refuse(why) PROVE OwnInv'
  BY OwnKept DEF Refuse

LEMMA AddOwns == ASSUME OwnInv, NEW a, NEW b, NEW edge, Add(a, b, edge) PROVE OwnInv'
  BY OwnKept, RefuseOwns DEF Add

(* In the split phase only the fragments and the loop variables change.     *)
LEMMA SplitOwns ==
    ASSUME OwnInv, phase = "split", UNCHANGED <<phase, SplitRest>>, NEW c, at' = c,
           c.hunk = 0 => c.section <= Len(Sections) + 1,
           UpTo(fragments', Position(c)), OfChanged(fragments')
    PROVE  OwnInv'
  <1>1. /\ phase' = "split"
        /\ UNCHANGED <<input, reason, edges, groups, packed, pending, locals, boundaries>>
    BY DEF SplitRest
  <1>2. Tiled'
    BY <1>1, TiledNext
  <1>3. Parted' /\ Held'
    BY <1>1 DEF OwnInv, Parted, Held
  <1> QED
    BY <1>2, <1>3 DEF OwnInv

LEMMA AppendOfChanged ==
    ASSUME fragments \in Seq(Fragment), OfChanged(fragments),
           NEW f \in Fragment, f.file \in ChangedFiles
    PROVE  OfChanged(Append(fragments, f))
  <1> DEFINE next == Append(fragments, f)
             last == Len(fragments) + 1
  <1>1. /\ Len(fragments) \in Nat /\ DOMAIN fragments = 1 .. Len(fragments)
        /\ DOMAIN next = 1 .. last /\ next[last] = f
        /\ \A n \in 1 .. Len(fragments) : next[n] = fragments[n]
    OBVIOUS
  <1>2. \A n \in 1 .. last : n = last \/ n \in 1 .. Len(fragments)
    BY <1>1
  <1> HIDE DEF next, last
  <1> QED
    BY <1>1, <1>2 DEF OfChanged, next

LEMMA FragmentsType == ASSUME PlanInv PROVE fragments \in Seq(Fragment) /\ input \in Selections
  <1>1. fragments \in Seq(Alone(input.base)) /\ input \in Selections
    BY DEF PlanInv, Packable, Typed
  <1>2. \A f \in Alone(input.base) : f \in Fragment
    BY DEF Alone
  <1> HIDE DEF Alone
  <1>3. Len(fragments) \in Nat /\ fragments = [n \in 1 .. Len(fragments) |-> fragments[n]]
        /\ \A n \in 1 .. Len(fragments) : fragments[n] \in Alone(input.base)
    BY <1>1
  <1>4. \A n \in 1 .. Len(fragments) : fragments[n] \in Fragment
    BY <1>2, <1>3
  <1> QED
    BY <1>1, <1>3, <1>4

LEMMA FileIsChanged == \A k \in DOMAIN Sections : Sections[k].file \in ChangedFiles
  BY DEF ChangedFiles, Range

LEMMA BeginSectionOwns == ASSUME PlanInv, OwnInv, BeginSection PROVE OwnInv'
  <1> DEFINE k == at.section
             s == Sections[k]
  <1>1. /\ phase = "split" /\ at.hunk = 0 /\ k <= Len(Sections)
        /\ \/ /\ fragments' = Append(fragments, Whole(k)) /\ at' = AtSection(k + 1)
              /\ UNCHANGED <<phase, SplitRest>>
           \/ Refuse(IF s.hunks = <<>> THEN "binary" ELSE "metadata")
           \/ /\ s.hunks # <<>> /\ at' = AtHunk(k, 1)
              /\ UNCHANGED <<phase, fragments, SplitRest>>
    BY DEF BeginSection
  <1>2. /\ input \in Selections /\ fragments \in Seq(Fragment) /\ at \in Cursors
        /\ UpTo(fragments, Position(at)) /\ OfChanged(fragments)
    BY FragmentsType DEF PlanInv, AtOK, OwnInv, Tiled
  <1>3. k \in 1 .. Len(Sections) /\ k \in Nat /\ Len(Sections) \in Nat /\ k \in DOMAIN Sections
    <2>1. k \in Nat \ {0} /\ Len(Sections) \in Nat /\ Sections \in Seq(FileSection)
      BY <1>2, SelectionFields DEF Cursors
    <2> HIDE DEF k
    <2> QED
      BY <1>1, <2>1
  <1>4. UpTo(fragments, Start(k))
    BY <1>1, <1>2 DEF Position
  <1> HIDE DEF k, s
  <1>5. CASE /\ fragments' = Append(fragments, Whole(k)) /\ at' = AtSection(k + 1)
             /\ UNCHANGED <<phase, SplitRest>>
    <2>1. Whole(k) \in Fragment
      BY <1>2, <1>3, WholeType
    <2>2. /\ Whole(k).start = Start(k) /\ Whole(k).end = Start(k + 1) /\ Start(k) < Start(k + 1)
          /\ Whole(k).file \in ChangedFiles /\ Start(k) \in Nat
      BY <1>2, <1>3, WholeOwns, FileIsChanged
    <2>3. UpTo(fragments', Start(k + 1))
      BY <1>2, <1>4, <1>5, <2>1, <2>2, NextOwns
    <2>4. /\ Position(AtSection(k + 1)) = Start(k + 1) /\ AtSection(k + 1).section = k + 1
          /\ k + 1 <= Len(Sections) + 1
      BY <1>3 DEF Position, AtSection
    <2>5. OfChanged(fragments')
      BY <1>2, <1>5, <2>1, <2>2, AppendOfChanged
    <2> DEFINE c == AtSection(k + 1)
    <2>6. at' = c /\ UpTo(fragments', Position(c)) /\ (c.hunk = 0 => c.section <= Len(Sections) + 1)
      BY <1>5, <2>3, <2>4
    <2> HIDE DEF c
    <2> QED
      BY <1>1, <1>5, <2>5, <2>6, SplitOwns
  <1>6. CASE Refuse(IF s.hunks = <<>> THEN "binary" ELSE "metadata")
    BY <1>6, RefuseOwns
  <1>7. CASE s.hunks # <<>> /\ at' = AtHunk(k, 1) /\ UNCHANGED <<phase, fragments, SplitRest>>
    <2> DEFINE c == AtHunk(k, 1)
    <2>1. c.hunk = 1 /\ Position(c) = Start(k)
      BY DEF AtHunk, Position, OwnedStart
    <2>2. at' = c /\ UpTo(fragments', Position(c)) /\ OfChanged(fragments')
          /\ UNCHANGED <<phase, SplitRest>>
      BY <1>2, <1>4, <1>7, <2>1
    <2> HIDE DEF c
    <2> QED
      BY <1>1, <2>1, <2>2, SplitOwns
  <1> QED
    BY <1>1, <1>5, <1>6, <1>7 DEF s

LEMMA SplitChunkOwns == ASSUME PlanInv, OwnInv, SplitChunk PROVE OwnInv'
  <1> DEFINE k == at.section
             j == at.hunk
             i == at.line
             h == Sections[k].hunks[j]
             limit == PayloadLimit - Sections[k].meta - h.suffix - HeaderReserve
             ends == {e \in ChunkEnds(h, i) : Bytes(SubSeq(h.lines, i, e)) <= limit}
             last == Max(ends)
             lines == SubSeq(h.lines, i, last)
  <1>1. /\ phase = "split" /\ at.hunk > 0
        /\ \/ \E why \in Objections : Refuse(why)
           \/ /\ ends # {}
              /\ fragments' = Append(fragments, Chunk(k, j, i, last))
              /\ at' = IF last = Len(h.lines) THEN AfterHunk(k, j)
                       ELSE [at EXCEPT !.line = last + 1, !.old = @ + OldCount(lines),
                                       !.new = @ + NewCount(lines)]
              /\ UNCHANGED <<phase, SplitRest>>
    BY ObjectionOf DEF SplitChunk
  <1>2. /\ input \in Selections /\ AtOK /\ fragments \in Seq(Fragment)
        /\ UpTo(fragments, Position(at)) /\ OfChanged(fragments)
    BY FragmentsType DEF PlanInv, OwnInv, Tiled
  <1>3. /\ k \in Nat \ {0} /\ j \in Nat \ {0} /\ i \in Nat \ {0}
        /\ at \in Cursors /\ InHunk(at, input)
    <2>1. at \in Cursors /\ (j = 0 \/ InHunk(at, input)) /\ j > 0
      BY <1>1, <1>2 DEF AtOK
    <2>2. k \in Nat \ {0} /\ j \in Nat /\ i \in Nat \ {0}
      BY <2>1 DEF Cursors
    <2> QED
      BY <2>1, <2>2
  <1>4. k \in 1 .. Len(Sections) /\ j \in 1 .. Len(Sections[k].hunks) /\ k \in DOMAIN Sections
    <2>1. Len(Sections) \in Nat /\ k <= Len(Sections) /\ j <= Len(Sections[k].hunks)
      BY <1>2, <1>3, SelectionFields DEF InHunk, Sections
    <2>2. k \in 1 .. Len(Sections) /\ Sections \in Seq(FileSection)
      BY <1>2, <1>3, <2>1, SelectionFields
    <2>3. Len(Sections[k].hunks) \in Nat
      BY <1>2, <2>2, SelectionFields, SectionFields
    <2> HIDE DEF k, j
    <2> QED
      BY <1>3, <2>1, <2>2, <2>3
  <1>5. Len(h.lines) \in Nat
    <2>1. h \in Hunks
      BY <1>2, <1>4, SelectionFields, SectionFields
    <2>2. h.lines \in Seq(BodyLine)
      BY <2>1, HunkFields DEF IsHunk
    <2> HIDE DEF h
    <2> QED
      BY <2>2
  <1>6. CASE \E why \in Objections : Refuse(why)
    BY <1>6, RefuseOwns
  <1>7. CASE /\ ends # {}
             /\ fragments' = Append(fragments, Chunk(k, j, i, last))
             /\ at' = IF last = Len(h.lines) THEN AfterHunk(k, j)
                      ELSE [at EXCEPT !.line = last + 1, !.old = @ + OldCount(lines),
                                      !.new = @ + NewCount(lines)]
             /\ UNCHANGED <<phase, SplitRest>>
    <2>1. last \in ends
      <3>1. ends \in SUBSET (i .. Len(h.lines))
        BY DEF ChunkEnds
      <3> HIDE DEF ends, h, i
      <3>2. i .. Len(h.lines) \subseteq 0 .. Len(h.lines)
        BY <1>3, <1>5
      <3>3. ends \in SUBSET (0 .. Len(h.lines)) /\ ends # {}
        BY <1>7, <3>1, <3>2
      <3> QED
        BY <1>5, <3>3, MaxIsGreatest
    <2>2. last \in i .. Len(h.lines) /\ Bytes(SubSeq(h.lines, i, last)) <= limit
      <3> HIDE DEF last
      <3> QED
        BY <2>1 DEF ChunkEnds
    <2> DEFINE f == Chunk(k, j, i, last)
    <2>3. f \in Fragment
      <3> HIDE DEF last, f
      <3>1. f \in Alone(input.base)
        BY <1>1, <1>2, <2>2, ChunkFits DEF f
      <3> QED
        BY <3>1 DEF Alone
    <2> HIDE DEF last
    <2>4. /\ f.start = OwnedStart(k, j, i) /\ f.end = LineAt(k, j, last + 1)
          /\ f.start \in Nat /\ f.start < f.end /\ f.file = Sections[k].file
          /\ last = Len(h.lines) => Position(AfterHunk(k, j)) = f.end
          /\ last # Len(h.lines) => OwnedStart(k, j, last + 1) = f.end
      <3>1. last \in i .. Len(Sections[k].hunks[j].lines)
        BY <2>2
      <3> HIDE DEF k, j, i
      <3> DEFINE e == last
      <3>2. /\ OwnedStart(k, j, i) \in Nat /\ OwnedStart(k, j, i) < LineAt(k, j, e + 1)
            /\ Chunk(k, j, i, e).start = OwnedStart(k, j, i)
            /\ Chunk(k, j, i, e).end = LineAt(k, j, e + 1)
            /\ Chunk(k, j, i, e).file = Sections[k].file
            /\ e = Len(Sections[k].hunks[j].lines) => Position(AfterHunk(k, j)) = LineAt(k, j, e + 1)
            /\ e # Len(Sections[k].hunks[j].lines) => OwnedStart(k, j, e + 1) = LineAt(k, j, e + 1)
        <4> HIDE DEF e
        <4>1. e \in i .. Len(Sections[k].hunks[j].lines)
          BY <3>1 DEF e
        <4> QED
          BY <1>2, <1>3, <1>4, <4>1, ChunkOwns
      <3> QED
        BY <3>2
    <2>5. UpTo(fragments, f.start)
      <3>1. Position(at) = OwnedStart(k, j, i)
        BY <1>3 DEF Position
      <3> QED
        BY <1>2, <2>4, <3>1
    <2>6. fragments' = Append(fragments, f) /\ UNCHANGED <<phase, SplitRest>>
      BY <1>7
    <2> HIDE DEF f
    <2>7. UpTo(fragments', f.end)
      BY <1>2, <2>3, <2>4, <2>5, <2>6, NextOwns
    <2>8. OfChanged(fragments')
      BY <1>2, <1>4, <2>3, <2>4, <2>6, AppendOfChanged, FileIsChanged
    <2>9. Position(at') = f.end /\ (at'.hunk = 0 => at'.section <= Len(Sections) + 1)
      <3>1. CASE last = Len(h.lines)
        <4>1. at' = AfterHunk(k, j)
          BY <1>7, <3>1
        <4>2. AfterHunk(k, j).hunk = 0 => AfterHunk(k, j).section <= Len(Sections) + 1
          <5>1. Len(Sections) \in Nat /\ k <= Len(Sections) /\ j + 1 # 0 /\ k \in Nat
            <6> HIDE DEF k, j
            <6> QED
              BY <1>2, <1>3, <1>4, SelectionFields
          <5> HIDE DEF k, j
          <5> QED
            BY <5>1 DEF AfterHunk, AtHunk, AtSection
        <4> QED
          BY <2>4, <3>1, <4>1, <4>2
      <3>2. CASE last # Len(h.lines)
        <4> HIDE DEF lines
        <4>1. at' = [at EXCEPT !.line = last + 1, !.old = @ + OldCount(lines),
                               !.new = @ + NewCount(lines)]
          BY <1>7, <3>2
        <4>2. at'.section = k /\ at'.hunk = j /\ at'.line = last + 1
          BY <1>3, <4>1 DEF Cursors
        <4>3. Position(at') = OwnedStart(k, j, last + 1)
          BY <1>3, <4>2 DEF Position
        <4> QED
          BY <1>3, <2>4, <3>2, <4>2, <4>3
      <3> QED
        BY <3>1, <3>2
    <2> QED
      BY <1>1, <2>6, <2>7, <2>8, <2>9, SplitOwns
  <1> HIDE DEF ends, last, h, k, j, i, limit, lines
  <1> QED
    BY <1>1, <1>6, <1>7

LEMMA GroupOwns == ASSUME PlanInv, OwnInv, Group PROVE OwnInv'
  <1>1. /\ phase = "split" /\ phase' = "pack" /\ at = AtSection(Len(Sections) + 1)
        /\ groups' = ClusterFilesEdges(ChangedFiles, edges')
        /\ UNCHANGED <<input, reason, at, fragments, packed, pending, locals, boundaries>>
    BY DEF Group
  <1>2. /\ input \in Selections /\ pending = <<>> /\ locals = <<>> /\ packed = 0
        /\ UpTo(fragments, Position(at)) /\ OfChanged(fragments)
        /\ at.hunk = 0 => at.section <= Len(Sections) + 1
    BY <1>1 DEF PlanInv, Typed, OwnInv, Held, Tiled
  <1>3. Tiled'
    BY <1>1, <1>2, TiledNext
  <1>4. Parted'
    <2>1. Partition(groups', ChangedFiles)
      BY <1>1, <1>2, ChangedFilesType, ClusterApart
    <2>2. ChangedFiles' = ChangedFiles /\ packed' = 0
      BY <1>1, <1>2 DEF ChangedFiles, Sections
    <2>3. 0 <= Len(groups')
      <3>1. groups' \in Seq((SUBSET ChangedFiles) \ {{}})
        BY <1>1, <1>2, ChangedFilesType, ClusterType
      <3> QED
        BY <3>1
    <2>4. Partition(groups', ChangedFiles')
      BY <2>1, <2>2
    <2> QED
      BY <2>2, <2>3, <2>4 DEF Parted
  <1>5. Held'
    <2>1. AllOf(Packing)' = <<>>
      <3>1. AllOf(Packing)' = FlattenSeq(<<>>) \o <<>>
        BY <1>1, <1>2 DEF AllOf, Packing
      <3> QED
        BY <3>1, FlattenEmpty
    <2>2. Indices(InGroups(packed))' = {}
      <3>1. 1 .. 0 = {}
        OBVIOUS
      <3> QED
        BY <1>1, <1>2, <3>1 DEF Indices, InGroups
    <2>3. IsInjective(<<>>) /\ Range(<<>>) = {}
      BY DEF IsInjective, Range
    <2> QED
      BY <1>1, <2>1, <2>2, <2>3 DEF Held
  <1> QED
    BY <1>3, <1>4, <1>5 DEF OwnInv

LEMMA SpansDiffer ==
    ASSUME NEW pos, NEW frs \in Seq(Fragment), UpTo(frs, pos),
           NEW m \in DOMAIN frs, NEW n \in DOMAIN frs, NEW byte \in Nat,
           Owns(frs[m], byte), Owns(frs[n], byte)
    PROVE  m = n
  <1>1. m \in Nat /\ n \in Nat /\ frs[m] \in Fragment /\ frs[n] \in Fragment
    OBVIOUS
  <1>2. /\ frs[m].start \in Nat /\ frs[m].end \in Nat /\ frs[n].start \in Nat /\ frs[n].end \in Nat
    BY <1>1 DEF Fragment
  <1>3. /\ m < n => frs[m].end <= frs[n].start
        /\ n < m => frs[n].end <= frs[m].start
    BY DEF UpTo
  <1>4. /\ frs[m].start <= byte /\ byte < frs[m].end /\ frs[n].start <= byte /\ byte < frs[n].end
    BY DEF Owns
  <1> QED
    BY <1>1, <1>2, <1>3, <1>4

LEMMA SpansInjective ==
    ASSUME NEW pos, NEW frs \in Seq(Fragment), UpTo(frs, pos)
    PROVE  IsInjective(frs)
  <1>1. ASSUME NEW m \in DOMAIN frs, NEW n \in DOMAIN frs, frs[m] = frs[n] PROVE m = n
    <2>1. frs[m] \in Fragment
      OBVIOUS
    <2>2. frs[m].start \in Nat /\ frs[m].end \in Nat
      BY <2>1 DEF Fragment
    <2>3. frs[m].start < frs[m].end
      BY DEF UpTo
    <2>4. Owns(frs[m], frs[m].start) /\ Owns(frs[n], frs[m].start)
      BY <1>1, <2>2, <2>3 DEF Owns
    <2> QED
      BY <2>2, <2>4, SpansDiffer
  <1> QED
    BY <1>1 DEF IsInjective

LEMMA PackOwns == ASSUME PlanInv, OwnInv, Pack PROVE OwnInv'
  <1> DEFINE group == groups[packed + 1]
             frags == FragmentsOf(group)
             next == PackedGroup(Packing, frags)
             done == InGroups(packed)
  <1>1. /\ phase = "pack" /\ packed < Len(groups)
        /\ \/ Refuse("fragment")
           \/ /\ packed' = packed + 1 /\ pending' = next.pending /\ locals' = next.locals
              /\ UNCHANGED <<input, phase, reason, at, fragments, edges, groups, boundaries>>
    BY DEF Pack, Packing
  <1>2. CASE Refuse("fragment")
    BY <1>2, RefuseOwns
  <1>3. CASE /\ packed' = packed + 1 /\ pending' = next.pending /\ locals' = next.locals
             /\ UNCHANGED <<input, phase, reason, at, fragments, edges, groups, boundaries>>
    <2>1. /\ input \in Selections /\ input.base \in Nat /\ fragments \in Seq(Alone(input.base))
          /\ groups \in Seq(SUBSET DOMAIN Files) /\ packed \in Nat /\ Packing \in Packings(input.base)
          /\ fragments \in Seq(Fragment)
      BY SelectionFields, FragmentsType DEF PlanInv, Typed, Packable, Packings, Packing
    <2>2. /\ UpTo(fragments, Position(at)) /\ OfChanged(fragments)
          /\ at.hunk = 0 => at.section <= Len(Sections) + 1
          /\ at = AtSection(Len(Sections) + 1)
          /\ Partition(groups, ChangedFiles)
          /\ IsInjective(AllOf(Packing))
          /\ Range(AllOf(Packing)) = {fragments[n] : n \in Indices(done)}
      BY <1>1 DEF OwnInv, Tiled, Parted, Held
    <2>3. /\ Len(groups) \in Nat /\ DOMAIN groups = 1 .. Len(groups)
          /\ packed + 1 \in DOMAIN groups /\ group \in SUBSET DOMAIN Files
      BY <1>1, <2>1
    <2>4. frags \in Seq(Alone(input.base)) /\ frags \in Seq(Fragment)
      BY <2>1, <2>3, FragmentsOfType
    <2>5. IsInjective(frags) /\ Range(frags) = {fragments[n] : n \in Indices(group)}
      BY <2>1, <2>2, <2>3, SpansInjective, FragmentsOfAll
    <2> HIDE DEF frags
    <2>6. AllOf(next) = AllOf(Packing) \o frags
      BY <2>1, <2>4, PackedGroupAll
    <2>7. next \in Packings(input.base) /\ AllOf(Packing) \in Seq(Fragment)
      BY <2>1, <2>4, PackedGroupType, PackingFields
    <2>8. AllOf(Packing)' = AllOf(next)
      BY <1>3 DEF AllOf, Packing
    <2> HIDE DEF next
    <2>9. done \cap group = {}
      <3>1. \A n \in 1 .. packed : n \in DOMAIN groups /\ n # packed + 1
        BY <1>1, <2>1, <2>3
      <3>2. \A n \in 1 .. packed : groups[n] \cap group = {}
        BY <2>2, <2>3, <3>1 DEF Partition
      <3> HIDE DEF group
      <3> QED
        BY <3>2 DEF InGroups
    <2>10. InGroups(packed)' = done \cup group
      <3>1. 1 .. packed + 1 = (1 .. packed) \cup {packed + 1}
        BY <2>1
      <3> QED
        BY <1>3, <3>1 DEF InGroups
    <2> HIDE DEF done, group
    <2>11. /\ \A n \in Indices(done) : fragments[n].file \in done
           /\ \A n \in Indices(group) : fragments[n].file \in group
      BY DEF Indices
    <2>12. Range(AllOf(Packing)) \cap Range(frags) = {}
      BY <2>2, <2>5, <2>9, <2>11
    <2>13. IsInjective(AllOf(next)) /\ Range(AllOf(next)) = Range(AllOf(Packing)) \cup Range(frags)
      <3> DEFINE a == AllOf(Packing)
      <3>1. a \in Seq(Fragment) /\ IsInjective(a) /\ Range(a) \cap Range(frags) = {}
        BY <2>2, <2>7, <2>12
      <3> HIDE DEF a
      <3>2. IsInjective(a \o frags) /\ Range(a \o frags) = Range(a) \cup Range(frags)
        BY <2>4, <2>5, <3>1, ConcatDistinct
      <3> QED
        BY <2>6, <3>2 DEF a
    <2>14. Indices(InGroups(packed))' = Indices(done) \cup Indices(group)
      BY <1>3, <2>10 DEF Indices
    <2>15. Held'
      <3>1. Range(AllOf(Packing))' = {fragments[n] : n \in Indices(done) \cup Indices(group)}
        BY <2>2, <2>5, <2>8, <2>13
      <3>2. phase' = "pack" /\ fragments' = fragments
        BY <1>1, <1>3
      <3> QED
        BY <2>8, <2>13, <2>14, <3>1, <3>2 DEF Held
    <2>16. Tiled'
      BY <1>3, <2>2, TiledNext
    <2>17. Parted'
      <3>1. ChangedFiles' = ChangedFiles
        BY <1>3 DEF ChangedFiles, Sections
      <3>2. packed' <= Len(groups') /\ Partition(groups', ChangedFiles')
        BY <1>1, <1>3, <2>1, <2>2, <2>3, <3>1
      <3> QED
        BY <3>2 DEF Parted
    <2> QED
      BY <2>15, <2>16, <2>17 DEF OwnInv
  <1> QED
    BY <1>1, <1>2, <1>3

LEMMA PackLastOwns == ASSUME PlanInv, OwnInv, PackLast PROVE OwnInv'
  <1>1. /\ phase = "pack" /\ packed = Len(groups) /\ phase' = "border"
        /\ locals' = Flush(Packing).locals
        /\ UNCHANGED <<input, reason, at, fragments, edges, groups, packed, boundaries>>
    BY DEF PackLast, Packing
  <1>2. /\ Packing \in Packings(input.base) /\ groups \in Seq(SUBSET DOMAIN Files)
    BY DEF PlanInv, Typed, Packable, Packings, Packing
  <1>3. /\ UpTo(fragments, Position(at)) /\ OfChanged(fragments)
        /\ at.hunk = 0 => at.section <= Len(Sections) + 1
        /\ at = AtSection(Len(Sections) + 1)
        /\ Partition(groups, ChangedFiles)
        /\ IsInjective(AllOf(Packing))
        /\ Range(AllOf(Packing)) = {fragments[n] : n \in Indices(InGroups(packed))}
    BY <1>1 DEF OwnInv, Tiled, Parted, Held
  <1>4. InGroups(packed) = ChangedFiles
    <2>1. DOMAIN groups = 1 .. packed
      BY <1>1, <1>2
    <2>2. Range(groups) = {groups[i] : i \in 1 .. packed}
      BY <2>1 DEF Range
    <2> QED
      BY <1>3, <2>2 DEF Partition, InGroups
  <1>5. Indices(ChangedFiles) = DOMAIN fragments
    BY <1>3 DEF Indices, OfChanged
  <1>6. Range(AllOf(Packing)) = Range(fragments)
    BY <1>3, <1>4, <1>5 DEF Range
  <1>7. FlattenSeq(locals') = AllOf(Packing)
    BY <1>1, <1>2, FlushAll
  <1>8. Held'
    <2>1. Range(fragments)' = Range(fragments) /\ fragments' = fragments
      BY <1>1 DEF Range
    <2> QED
      BY <1>1, <1>3, <1>6, <1>7, <2>1 DEF Held
  <1>9. Tiled'
    BY <1>1, <1>3, TiledNext
  <1>10. Parted'
    BY <1>1 DEF Parted
  <1> QED
    BY <1>8, <1>9, <1>10 DEF OwnInv

LEMMA OwnInit == Init => OwnInv
  <1> SUFFICES ASSUME Init PROVE OwnInv
    OBVIOUS
  <1>1. /\ input \in Selections /\ phase = "split" /\ at = AtSection(1)
        /\ fragments = <<>> /\ packed = 0 /\ pending = <<>> /\ locals = <<>>
    BY InputsAssumption DEF Init
  <1>2. Tiled
    <2>1. Position(at) = Start(1) /\ at.section = 1
      BY <1>1 DEF Position, AtSection
    <2>2. Start(1) = 0
      <3>1. [j \in 1 .. 1 - 1 |-> SectionBytes(Sections[j])] = <<>>
        OBVIOUS
      <3> QED
        BY <3>1, TotalEmpty DEF Start
    <2>3. Len(Sections) \in Nat
      BY <1>1, SelectionFields
    <2>4. UpTo(fragments, 0)
      BY <1>1 DEF UpTo
    <2>5. OfChanged(fragments)
      BY <1>1 DEF OfChanged
    <2> QED
      BY <1>1, <2>1, <2>2, <2>3, <2>4, <2>5 DEF Tiled
  <1>3. Parted /\ Held
    BY <1>1 DEF Parted, Held
  <1> QED
    BY <1>2, <1>3 DEF OwnInv

LEMMA OwnStep == PlanInv /\ OwnInv /\ [Next]_vars => OwnInv'
  <1> SUFFICES ASSUME PlanInv, OwnInv, [Next]_vars PROVE OwnInv'
    OBVIOUS
  <1>1. CASE Interrupted \/ NoRoomForContext \/ NoRoomForManifest
    BY <1>1, RefuseOwns DEF Interrupted, NoRoomForContext, NoRoomForManifest
  <1>2. CASE AddNeighbor \/ AddEdge
    BY <1>2, AddOwns DEF AddNeighbor, AddEdge
  <1>3. CASE Validate
    BY <1>3, OwnKept DEF Validate
  <1>4. CASE Answered \/ UNCHANGED vars
    BY <1>4, OwnKept DEF Answered, vars
  <1> QED
    BY <1>1, <1>2, <1>3, <1>4, BeginSectionOwns, SplitChunkOwns, GroupOwns, PackOwns,
       PackLastOwns DEF Next

(* A byte is in one place of the local tasks.                               *)
(* What is known of the bytes, once the tasks are packed.                   *)
LEMMA Packed ==
    ASSUME PlanInv, OwnInv, phase = "border"
    PROVE  /\ DiffBytes \in Nat /\ DiffBytes > 0 /\ UpTo(fragments, DiffBytes)
           /\ locals \in Seq(Seq(Fragment))
           /\ InSome(locals) = Range(fragments) /\ AllDistinct(locals)
  <1>1. input \in Selections /\ locals \in Seq(Locals(input.base))
    BY FragmentsType DEF PlanInv, Packable
  <1>2. /\ UpTo(fragments, Position(at)) /\ at = AtSection(Len(Sections) + 1)
        /\ IsInjective(FlattenSeq(locals)) /\ Range(FlattenSeq(locals)) = Range(fragments)
    BY DEF OwnInv, Tiled, Held
  <1>3. UpTo(fragments, DiffBytes)
    BY <1>2 DEF Position, AtSection, DiffBytes
  <1>4. locals \in Seq(Seq(Fragment))
    <2>1. \A t \in DOMAIN locals : locals[t] \in Seq(Fragment)
      BY <1>1, LocalsFields
    <2>2. Len(locals) \in Nat /\ DOMAIN locals = 1 .. Len(locals)
          /\ locals = [t \in 1 .. Len(locals) |-> locals[t]]
      <3> HIDE DEF Locals
      <3> QED
        BY <1>1
    <2> QED
      BY <2>1, <2>2
  <1>5. DiffBytes \in Nat /\ DiffBytes > 0
    <2> DEFINE k == Len(Sections)
    <2>1. k \in Nat /\ k \in 1 .. k
      <3>1. Sections \in Seq(FileSection) /\ Sections # <<>> /\ k \in Nat
        BY <1>1, SelectionFields
      <3> HIDE DEF FileSection
      <3>2. k # 0
        BY <3>1
      <3> QED
        BY <3>1, <3>2
    <2>2. Start(k) < Start(k + 1) /\ Start(k) \in Nat
      BY <1>1, <2>1, WholeOwns
    <2>3. k + 1 \in 1 .. k + 1
      BY <2>1
    <2>4. Start(k + 1) \in Nat
      BY <1>1, <2>3, StartType
    <2> HIDE DEF k
    <2>5. Start(k + 1) > 0
      BY <2>2, <2>4
    <2> QED
      BY <2>4, <2>5 DEF DiffBytes, k
  <1> QED
    BY <1>2, <1>3, <1>4, <1>5, FlattenDistinct

Places == UNION {{<<t, i>> : i \in DOMAIN locals[t]} : t \in DOMAIN locals}
LEMMA OnePlace ==
    ASSUME PlanInv, OwnInv, phase = "border", NEW byte \in 0 .. DiffBytes - 1
    PROVE  Quantify(Places, LAMBDA ti : LET f == locals[ti[1]][ti[2]]
                                        IN f.start <= byte /\ byte < f.end) = 1
  <1> DEFINE Here(ti) == LET f == locals[ti[1]][ti[2]] IN f.start <= byte /\ byte < f.end
             here == {ti \in Places : Here(ti)}
  <1>1. fragments \in Seq(Fragment)
    BY FragmentsType
  <1>2. UpTo(fragments, DiffBytes) /\ byte \in Nat
    BY Packed
  <1>3. InSome(locals) = Range(fragments) /\ AllDistinct(locals)
    BY Packed
  <1>4. PICK n \in DOMAIN fragments : Owns(fragments[n], byte)
    BY <1>2 DEF UpTo
  <1>5. PICK t \in DOMAIN locals : fragments[n] \in Range(locals[t])
    <2>1. fragments[n] \in InSome(locals)
      BY <1>3 DEF Range
    <2> QED
      BY <2>1 DEF InSome
  <1>6. PICK i \in DOMAIN locals[t] : locals[t][i] = fragments[n]
    BY <1>5 DEF Range
  <1>7. <<t, i>> \in here
    <2>1. <<t, i>> \in Places
      BY DEF Places
    <2>2. Here(<<t, i>>)
      BY <1>4, <1>6 DEF Owns
    <2> QED
      BY <2>1, <2>2
  <1>8. ASSUME NEW ti \in here PROVE ti = <<t, i>>
    <2>1. ti \in Places /\ Here(ti)
      OBVIOUS
    <2>2. PICK u \in DOMAIN locals : \E j \in DOMAIN locals[u] : ti = <<u, j>>
      BY <2>1 DEF Places
    <2>3. PICK j \in DOMAIN locals[u] : ti = <<u, j>>
      BY <2>2
    <2>4. locals[u][j] \in Range(fragments)
      <3>1. locals[u][j] \in Range(locals[u])
        BY DEF Range
      <3>2. locals[u][j] \in InSome(locals)
        BY <3>1 DEF InSome
      <3> QED
        BY <1>3, <3>2
    <2>5. PICK m \in DOMAIN fragments : locals[u][j] = fragments[m]
      BY <2>4 DEF Range
    <2>6. Owns(fragments[m], byte)
      BY <2>1, <2>3, <2>5 DEF Owns
    <2>7. m = n
      BY <1>1, <1>2, <1>4, <2>6, SpansDiffer
    <2>8. u = t
      <3>1. fragments[n] \in Range(locals[u]) /\ fragments[n] \in Range(locals[t])
        BY <1>5, <2>5, <2>7 DEF Range
      <3> QED
        BY <1>3, <3>1 DEF AllDistinct
    <2>9. j = i
      <3>1. IsInjective(locals[t]) /\ locals[t][j] = locals[t][i] /\ j \in DOMAIN locals[t]
        BY <1>3, <1>6, <2>5, <2>7, <2>8 DEF AllDistinct
      <3> QED
        BY <3>1 DEF IsInjective
    <2> QED
      BY <2>3, <2>8, <2>9
  <1>9. here = {<<t, i>>}
    <2> HIDE DEF here
    <2> QED
      BY <1>7, <1>8
  <1>10. Cardinality(here) = 1
    <2> HIDE DEF here
    <2> QED
      BY <1>9, FS_Singleton
  <1> QED
    BY <1>10 DEF Quantify

-----------------------------------------------------------------------------
(* Sorting spans.                                                           *)

LEMMA SameSize ==
    ASSUME NEW S, IsFiniteSet(S), NEW T, NEW f \in [S -> T],
           \A x, y \in S : f[x] = f[y] => x = y, \A z \in T : \E x \in S : f[x] = z
    PROVE  IsFiniteSet(T) /\ Cardinality(T) = Cardinality(S)
  <1>1. f \in Bijection(S, T)
    BY DEF Bijection, Injection, Surjection, IsInjective
  <1> QED
    BY <1>1, FS_Bijection DEF ExistsBijection

LEMMA UpToSize ==
    ASSUME NEW n \in Nat
    PROVE  IsFiniteSet(1 .. n) /\ Cardinality(1 .. n) = n
  <1>1. 1 \in Int /\ n \in Int
    OBVIOUS
  <1>2. IsFiniteSet(1 .. n) /\ Cardinality(1 .. n) = IF 1 > n THEN 0 ELSE n - 1 + 1
    BY <1>1, FS_Interval
  <1> QED
    BY <1>2

Span == [start : Nat, end : Nat]
Ascending(t) == \A m, n \in DOMAIN t : m < n => t[m].start < t[n].start

(* ValidatePlan sorts spans that differ into the only ascending order.      *)
LEMMA ByStartSorts ==
    ASSUME NEW s \in Seq(Span), NEW t \in Seq(Span), IsInjective(s), Range(s) = Range(t), Ascending(t)
    PROVE  ByStart(s) = t
  <1> DEFINE N == Len(s)
             M == Len(t)
             place == [m \in 1 .. N |-> CHOOSE k \in 1 .. M : t[k] = s[m]]
             Before(m) == {n \in DOMAIN s : \/ s[n].start < s[m].start
                                            \/ s[n].start = s[m].start /\ n < m}
  <1>1. /\ N \in Nat /\ M \in Nat /\ DOMAIN s = 1 .. N /\ DOMAIN t = 1 .. M
        /\ \A m \in 1 .. N : s[m].start \in Nat
        /\ \A k \in 1 .. M : t[k].start \in Nat
    <2>1. N \in Nat /\ M \in Nat /\ DOMAIN s = 1 .. N /\ DOMAIN t = 1 .. M
      OBVIOUS
    <2>2. \A m \in 1 .. N : s[m] \in Span
      OBVIOUS
    <2>3. \A k \in 1 .. M : t[k] \in Span
      OBVIOUS
    <2>4. \A x \in Span : x.start \in Nat
      BY DEF Span
    <2> QED
      BY <2>1, <2>2, <2>3, <2>4
  <1>2. \A m \in 1 .. N : place[m] \in 1 .. M /\ t[place[m]] = s[m]
    <2>1. ASSUME NEW m \in 1 .. N PROVE \E k \in 1 .. M : t[k] = s[m]
      BY <1>1 DEF Range
    <2> QED
      BY <2>1
  <1>3. \A k \in 1 .. M : \E m \in 1 .. N : s[m] = t[k]
    BY <1>1 DEF Range
  <1>4. \A k, l \in 1 .. M : t[k].start < t[l].start <=> k < l
    <2>1. ASSUME NEW k \in 1 .. M, NEW l \in 1 .. M PROVE t[k].start < t[l].start <=> k < l
      <3>1. k < l => t[k].start < t[l].start
        BY <1>1 DEF Ascending
      <3>2. l < k => t[l].start < t[k].start
        BY <1>1 DEF Ascending
      <3>3. t[k].start \in Nat /\ t[l].start \in Nat
        BY <1>1
      <3>4. k < l \/ k = l \/ l < k
        BY <1>1
      <3> QED
        BY <1>1, <3>1, <3>2, <3>3, <3>4
    <2> QED
      BY <2>1
  <1>5. \A k, l \in 1 .. M : t[k].start = t[l].start => k = l
    <2>1. ASSUME NEW k \in 1 .. M, NEW l \in 1 .. M, t[k].start = t[l].start PROVE k = l
      <3>1. ~(k < l) /\ ~(l < k)
        BY <1>1, <1>4, <2>1
      <3> QED
        BY <3>1
    <2> QED
      BY <2>1
  <1>6. \A m, n \in 1 .. N : place[m] = place[n] => m = n
    <2> HIDE DEF place
    <2>1. ASSUME NEW m \in 1 .. N, NEW n \in 1 .. N, place[m] = place[n] PROVE m = n
      <3>1. s[m] = s[n]
        BY <1>2, <2>1
      <3> QED
        BY <1>1, <3>1 DEF IsInjective
    <2> QED
      BY <2>1
  <1>7. \A k \in 1 .. M : \E m \in 1 .. N : place[m] = k
    <2>1. ASSUME NEW k \in 1 .. M PROVE \E m \in 1 .. N : place[m] = k
      <3>1. PICK m \in 1 .. N : s[m] = t[k]
        BY <1>3
      <3>2. t[place[m]] = t[k] /\ place[m] \in 1 .. M
        BY <1>2, <3>1
      <3> HIDE DEF place
      <3>3. place[m] = k
        BY <1>5, <3>2
      <3> QED
        BY <3>3
    <2> QED
      BY <2>1
  <1>8. place \in [1 .. N -> 1 .. M]
    BY <1>2
  <1>9. ASSUME NEW m \in 1 .. N PROVE Before(m) = {n \in 1 .. N : place[n] < place[m]}
    <2>1. ASSUME NEW n \in 1 .. N
          PROVE  s[n].start < s[m].start \/ (s[n].start = s[m].start /\ n < m)
                    <=> place[n] < place[m]
      <3>1. place[n] \in 1 .. M /\ place[m] \in 1 .. M /\ t[place[n]] = s[n] /\ t[place[m]] = s[m]
        BY <1>2
      <3> HIDE DEF place
      <3>2. s[n].start < s[m].start <=> place[n] < place[m]
        BY <1>4, <3>1
      <3>3. s[n].start = s[m].start => n = m
        BY <1>5, <1>6, <3>1
      <3>4. ~(m < m)
        BY <1>1
      <3> QED
        BY <3>2, <3>3, <3>4
    <2> HIDE DEF place
    <2> QED
      BY <1>1, <2>1
  <1> HIDE DEF place
  <1>10. ASSUME NEW m \in 1 .. N PROVE Cardinality(Before(m)) = place[m] - 1
    <2> DEFINE B == {n \in 1 .. N : place[n] < place[m]}
               f == [n \in B |-> place[n]]
               T == 1 .. place[m] - 1
    <2>1. place[m] \in Nat /\ place[m] >= 1 /\ place[m] <= M
      BY <1>8
    <2>2. \A n \in B : place[n] \in T
      BY <1>8, <2>1
    <2>3. \A k \in T : k \in 1 .. M /\ k < place[m]
      BY <1>1, <2>1
    <2>4. ASSUME NEW k \in T PROVE \E n \in B : f[n] = k
      <3>1. PICK n \in 1 .. N : place[n] = k
        BY <1>7, <2>3
      <3>2. n \in B
        BY <2>3, <3>1
      <3> QED
        BY <3>1, <3>2
    <2>5. \A x, y \in B : f[x] = f[y] => x = y
      BY <1>6
    <2>6. f \in [B -> T]
      BY <2>2
    <2>7. IsFiniteSet(B)
      <3>1. B \subseteq 1 .. N /\ IsFiniteSet(1 .. N)
        BY <1>1, FS_Interval
      <3> QED
        BY <3>1, FS_Subset
    <2>8. Cardinality(T) = place[m] - 1
      <3> DEFINE q == place[m] - 1
      <3>1. q \in Nat /\ T = 1 .. q
        BY <2>1
      <3> HIDE DEF q, T
      <3>2. Cardinality(T) = q
        BY <3>1, UpToSize
      <3> QED
        BY <3>2 DEF q
    <2>9. Cardinality(T) = Cardinality(B)
      <3> HIDE DEF B, T, f
      <3> QED
        BY <2>4, <2>5, <2>6, <2>7, SameSize
    <2> QED
      BY <1>9, <2>8, <2>9
  <1>11. N = M
    <2>1. IsFiniteSet(1 .. N) /\ Cardinality(1 .. N) = N /\ Cardinality(1 .. M) = M
      BY <1>1, UpToSize
    <2>2. Cardinality(1 .. M) = Cardinality(1 .. N)
      <3> DEFINE A == 1 .. N
                 B == 1 .. M
      <3>1. IsFiniteSet(A) /\ place \in [A -> B]
        BY <1>8, <2>1
      <3>2. (\A x, y \in A : place[x] = place[y] => x = y) /\ \A z \in B : \E x \in A : place[x] = z
        BY <1>6, <1>7
      <3> HIDE DEF A, B
      <3>3. Cardinality(B) = Cardinality(A)
        BY <3>1, <3>2, SameSize
      <3> QED
        BY <3>3 DEF A, B
    <2> QED
      BY <2>1, <2>2
  <1> DEFINE At(i) == CHOOSE m \in DOMAIN s : Cardinality(Before(m)) = i - 1
  <1>12. ASSUME NEW i \in 1 .. M PROVE s[At(i)] = t[i]
    <2>1. PICK m \in 1 .. N : place[m] = i
      BY <1>7
    <2>2. m \in DOMAIN s /\ Cardinality(Before(m)) = i - 1
      BY <1>1, <1>10, <2>1
    <2> HIDE DEF Before
    <2>3. At(i) \in DOMAIN s /\ Cardinality(Before(At(i))) = i - 1
      BY <2>2
    <2> HIDE DEF At
    <2>4. place[At(i)] - 1 = i - 1 /\ place[At(i)] \in 1 .. M
      BY <1>1, <1>8, <1>10, <2>3
    <2>5. place[At(i)] = i
      BY <1>1, <2>4
    <2> QED
      BY <1>1, <1>2, <2>3, <2>5
  <1>13. ByStart(s) = [i \in 1 .. M |-> s[At(i)]]
    BY <1>1, <1>11 DEF ByStart
  <1> HIDE DEF At
  <1>14. t = [i \in 1 .. M |-> t[i]]
    BY <1>1
  <1> QED
    BY <1>12, <1>13, <1>14

(* Fragments in the order of the diff that own every byte of it adjoin.     *)
Adjoin(frs, pos) ==
    /\ Len(frs) > 0 /\ frs[1].start = 0 /\ frs[Len(frs)].end = pos
    /\ \A n \in 1 .. Len(frs) : frs[n].start < frs[n].end
    /\ \A m, n \in 1 .. Len(frs) : n = m + 1 => frs[n].start = frs[m].end

LEMMA UpToAdjoins ==
    ASSUME NEW pos \in Nat, pos > 0, NEW frs \in Seq(Fragment), UpTo(frs, pos)
    PROVE  Adjoin(frs, pos)
  <1> DEFINE L == Len(frs)
  <1>1. L \in Nat /\ DOMAIN frs = 1 .. L
    OBVIOUS
  <1>2. \A n \in 1 .. L : frs[n].start \in Nat /\ frs[n].end \in Nat
    <2>1. \A n \in 1 .. L : frs[n] \in Fragment
      OBVIOUS
    <2>2. \A x \in Fragment : x.start \in Nat /\ x.end \in Nat
      BY DEF Fragment
    <2> QED
      BY <2>1, <2>2
  <1>3. \A n \in 1 .. L : frs[n].start < frs[n].end /\ frs[n].end <= pos
    BY <1>1 DEF UpTo
  <1>4. \A m, n \in 1 .. L : m < n => frs[m].end <= frs[n].start
    BY <1>1 DEF UpTo
  <1>5. ASSUME NEW byte \in Nat, byte < pos
        PROVE  \E n \in 1 .. L : frs[n].start <= byte /\ byte < frs[n].end
    <2>1. byte \in 0 .. pos - 1
      BY <1>5
    <2> QED
      BY <1>1, <2>1 DEF UpTo, Owns
  <1> HIDE DEF L
  <1>6. L > 0 /\ frs[1].start = 0
    <2>1. PICK n \in 1 .. L : frs[n].start <= 0 /\ 0 < frs[n].end
      BY <1>5
    <2>2. 1 \in 1 .. L /\ L > 0
      BY <1>1
    <2>3. CASE 1 < n
      <3>1. frs[1].end <= frs[n].start /\ frs[1].start < frs[1].end
        BY <1>3, <1>4, <2>2, <2>3
      <3>2. frs[1].end \in Nat /\ frs[1].start \in Nat /\ frs[n].start \in Nat
        BY <1>2, <2>2
      <3> QED
        BY <2>1, <3>1, <3>2
    <2>4. CASE ~(1 < n)
      <3>1. n = 1
        BY <1>1, <2>4
      <3> QED
        BY <1>2, <2>1, <2>2, <3>1
    <2> QED
      BY <2>3, <2>4
  <1>7. ASSUME NEW m \in 1 .. L, NEW n \in 1 .. L, n = m + 1 PROVE frs[n].start = frs[m].end
    <2> DEFINE e == frs[m].end
    <2>1. e \in Nat /\ e <= frs[n].start /\ frs[n].start \in Nat
      BY <1>1, <1>2, <1>4, <1>7
    <2>2. frs[n].start < frs[n].end /\ frs[n].end <= pos /\ frs[n].end \in Nat
      BY <1>2, <1>3
    <2>3. e < pos
      BY <2>1, <2>2
    <2>4. PICK k \in 1 .. L : frs[k].start <= e /\ e < frs[k].end
      BY <1>5, <2>1, <2>3
    <2>5. frs[k].start \in Nat /\ frs[k].end \in Nat /\ frs[m].start \in Nat /\ frs[m].start < e
      BY <1>2, <1>3
    <2>6. k # m
      BY <2>1, <2>4
    <2> HIDE DEF e
    <2>7. ~(k < m)
      <3>1. k < m => frs[k].end <= frs[m].start
        BY <1>4
      <3> QED
        BY <2>1, <2>4, <2>5, <3>1
    <2>8. ~(n < k)
      <3>1. n < k => frs[n].end <= frs[k].start
        BY <1>4
      <3>2. n < k => frs[n].end <= e
        BY <2>1, <2>2, <2>4, <2>5, <3>1
      <3>3. e < frs[n].end
        BY <2>1, <2>2
      <3> QED
        BY <2>1, <2>2, <3>2, <3>3
    <2>9. k = n
      BY <1>1, <1>7, <2>6, <2>7, <2>8
    <2> QED
      BY <2>1, <2>4, <2>9 DEF e
  <1>8. frs[L].end = pos
    <2> DEFINE e == frs[L].end
    <2>1. L \in 1 .. L /\ L \in Nat
      BY <1>1, <1>6
    <2>2. e \in Nat /\ e <= pos /\ frs[L].start \in Nat /\ frs[L].start < e
      BY <1>2, <1>3, <2>1
    <2>3. ASSUME e < pos PROVE FALSE
      <3>1. PICK k \in 1 .. L : frs[k].start <= e /\ e < frs[k].end
        BY <1>5, <2>2, <2>3
      <3>2. frs[k].end \in Nat /\ k # L
        BY <1>2, <2>2, <3>1
      <3>3. k < L
        BY <1>1, <3>2
      <3>4. frs[k].end <= frs[L].start
        BY <1>4, <2>1, <3>3
      <3> QED
        BY <2>2, <3>1, <3>2, <3>4
    <2> QED
      BY <2>2, <2>3
  <1> QED
    BY <1>3, <1>6, <1>7, <1>8 DEF Adjoin, L

(* The check that adds up spans that adjoin ends at the end of the last.    *)
LEMMA SpansAddUp ==
    ASSUME NEW pos \in Nat, NEW t \in Seq(Span), Adjoin(t, pos)
    PROVE  LET After(n, span) == IF span.start = n /\ span.end > n THEN span.end ELSE -1
           IN FoldLeft(After, 0, t) = pos
  <1> DEFINE Step(n, span) == IF span.start = n /\ span.end > n THEN span.end ELSE -1
             E == Span
             V == Int
             F == [p \in V \X E |-> Step(p[1], p[2])]
             D == SUBSET (1 .. Len(t))
             result == FoldLeft(Step, 0, t)
  <1>1. 0 \in V
    OBVIOUS
  <1>2. Len(t) \in Nat /\ DOMAIN t = 1 .. Len(t) /\ \A i \in 1 .. Len(t) : t[i] \in E
    OBVIOUS
  <1>3. \A n \in V, x \in E : Step(n, x) \in V
    BY DEF Span
  <1>4. \A x \in E : x.start \in Nat /\ x.end \in Nat
    BY DEF Span
  <1> HIDE DEF Step, V, E
  <1>5. F \in [V \X E -> V]
    BY <1>3
  <1>6. \A d \in D : d # {} => Max(d) \in 1 .. Len(t) /\ d \ {Max(d)} \in D
    BY <1>2, IndexSets
  <1>7. PICK g \in [D -> V] : g = [d \in D |-> IF d = {} THEN 0 ELSE Step(g[d \ {Max(d)}], t[Max(d)])]
    <2> HIDE DEF F
    <2>0. t \in Seq(E)
      BY DEF E
    <2>1. PICK g \in [D -> V] : IsFold(g, F, 0, t, Len(t))
      BY <1>1, <1>5, <2>0, FoldExists
    <2>2. ASSUME NEW d \in D, d # {} PROVE g[d] = Step(g[d \ {Max(d)}], t[Max(d)])
      <3>1. g[d \ {Max(d)}] \in V /\ t[Max(d)] \in E
        BY <1>2, <1>6, <2>2
      <3>2. g[d] = F[<<g[d \ {Max(d)}], t[Max(d)]>>]
        BY <2>1, <2>2 DEF IsFold
      <3> QED
        BY <3>1, <3>2 DEF F
    <2>3. g = [d \in D |-> IF d = {} THEN 0 ELSE Step(g[d \ {Max(d)}], t[Max(d)])]
      BY <2>1, <2>2 DEF IsFold
    <2> QED
      BY <2>3
  <1>8. PICK h : /\ h = [d \in D |-> IF d = {} THEN 0 ELSE Step(h[d \ {Max(d)}], t[Max(d)])]
                 /\ result = h[1 .. Len(t)]
    <2>1. \E k : k = [d \in SUBSET (DOMAIN t) |->
                         IF d = {} THEN 0 ELSE Step(k[d \ {Max(d)}], t[Max(d)])]
      BY <1>2, <1>7
    <2>2. \E h : /\ h = [d \in SUBSET (DOMAIN t) |->
                            IF d = {} THEN 0 ELSE Step(h[d \ {Max(d)}], t[Max(d)])]
                 /\ result = h[DOMAIN t]
      BY <2>1 DEF FoldLeft, MapThenFoldSet
    <2> QED
      BY <1>2, <2>2
  <1> HIDE DEF result
  <1>9. Computes(h, F, 0, V, t)
    <2>1. h[{}] = 0
      BY <1>8
    <2>2. ASSUME NEW d \in D, d # {}, h[d \ {Max(d)}] \in V
          PROVE  h[d] = F[<<h[d \ {Max(d)}], t[Max(d)]>>]
      <3>1. t[Max(d)] \in E
        BY <1>2, <1>6, <2>2
      <3>2. h[d] = Step(h[d \ {Max(d)}], t[Max(d)])
        BY <1>8, <2>2
      <3> QED
        BY <2>2, <3>1, <3>2
    <2> QED
      BY <2>1, <2>2 DEF Computes
  <1>10. PICK r \in [0 .. Len(t) -> V] : IsRun(r, F, 0, t) /\ r[Len(t)] = result
    <2> HIDE DEF F
    <2>0. t \in Seq(E)
      BY DEF E
    <2>1. HasRun(h, F, 0, V, t)
      BY <1>1, <1>5, <1>9, <2>0, FoldComputes
    <2> QED
      BY <1>8, <2>1 DEF HasRun
  <1>11. \A i \in 1 .. Len(t) : r[i] = Step(r[i - 1], t[i])
    <2>1. ASSUME NEW i \in 1 .. Len(t) PROVE r[i] = Step(r[i - 1], t[i])
      <3>1. i - 1 \in 0 .. Len(t) /\ r[i - 1] \in V /\ t[i] \in E
        BY <1>2
      <3>2. r[i] = F[<<r[i - 1], t[i]>>]
        BY <1>10 DEF IsRun
      <3> QED
        BY <3>1, <3>2
    <2> QED
      BY <2>1
  <1> DEFINE S == {i \in Nat : i + 1 <= Len(t) => r[i + 1] = t[i + 1].end}
  <1>12. /\ Len(t) > 0 /\ t[1].start = 0 /\ t[Len(t)].end = pos
         /\ \A n \in 1 .. Len(t) : t[n].start < t[n].end
         /\ \A m, n \in 1 .. Len(t) : n = m + 1 => t[n].start = t[m].end
    BY DEF Adjoin
  <1>13. 0 \in S
    <2>1. 1 \in 1 .. Len(t) /\ r[0] = 0
      BY <1>2, <1>10, <1>12 DEF IsRun
    <2>2. r[1] = Step(0, t[1])
      BY <1>11, <2>1
    <2>3. t[1].start = 0 /\ t[1].end > 0
      BY <1>2, <1>4, <1>12, <2>1
    <2> QED
      BY <2>2, <2>3 DEF Step
  <1>14. ASSUME NEW i \in Nat, i \in S PROVE i + 1 \in S
    <2> SUFFICES ASSUME (i + 1) + 1 <= Len(t) PROVE r[(i + 1) + 1] = t[(i + 1) + 1].end
      OBVIOUS
    <2> DEFINE j == (i + 1) + 1
               m == i + 1
    <2>1. m \in 1 .. Len(t) /\ j \in 1 .. Len(t) /\ j - 1 = m /\ j = m + 1 /\ m <= Len(t)
      BY <1>2
    <2>2. r[m] = t[m].end
      BY <1>14, <2>1
    <2> HIDE DEF j, m
    <2>3. r[j] = Step(r[m], t[j])
      BY <1>11, <2>1
    <2>4. t[j].start = t[m].end /\ t[j].end > t[m].end
      <3>1. t[j].start = t[m].end /\ t[j].start < t[j].end
        BY <1>12, <2>1
      <3>2. t[j].start \in Nat /\ t[j].end \in Nat
        BY <1>2, <1>4, <2>1
      <3> QED
        BY <3>1, <3>2
    <2>5. r[j] = t[j].end
      BY <2>2, <2>3, <2>4 DEF Step
    <2> QED
      BY <2>5 DEF j
  <1> HIDE DEF S
  <1>15. \A i \in Nat : i \in S
    BY <1>13, <1>14, Induction
  <1>16. r[Len(t)] = pos
    <2>1. Len(t) - 1 \in Nat /\ (Len(t) - 1) + 1 = Len(t) /\ Len(t) <= Len(t)
      BY <1>2, <1>12
    <2>2. Len(t) - 1 \in S
      BY <1>15, <2>1
    <2>3. r[Len(t)] = t[Len(t)].end
      BY <2>1, <2>2 DEF S
    <2> QED
      BY <1>12, <2>3
  <1> QED
    BY <1>10, <1>16 DEF result, Step

-----------------------------------------------------------------------------
(* The plan that is built is valid.                                         *)

(* The local tasks come first.                                              *)
TasksAre ==
    /\ DOMAIN Tasks = 1 .. Len(locals) + Len(boundaries)
    /\ \A i \in 1 .. Len(locals) : Tasks[i] = LocalTask(locals[i])
    /\ \A i \in 1 .. Len(locals) + Len(boundaries) :
          i \notin 1 .. Len(locals) => /\ i - Len(locals) \in 1 .. Len(boundaries)
                                       /\ Tasks[i] = boundaries[i - Len(locals)]

LEMMA TasksInOrder == ASSUME PlanInv PROVE TasksAre
  <1> DEFINE own == [i \in DOMAIN locals |-> LocalTask(locals[i])]
  <1>1. /\ Len(locals) \in Nat /\ DOMAIN locals = 1 .. Len(locals)
        /\ Len(boundaries) \in Nat /\ boundaries \in Seq(Boundary)
        /\ DOMAIN boundaries = 1 .. Len(boundaries)
    <2>1. locals \in Seq(Locals(input.base)) /\ boundaries \in Seq(Boundary)
      BY DEF PlanInv, Packable, Bordered
    <2> HIDE DEF Locals, Boundary
    <2> QED
      BY <2>1
  <1>2. Len(own) = Len(locals) /\ own = [i \in 1 .. Len(locals) |-> LocalTask(locals[i])]
    BY <1>1
  <1>3. Tasks = own \o boundaries
    BY DEF Tasks
  <1> HIDE DEF own
  <1>4. DOMAIN Tasks = 1 .. Len(locals) + Len(boundaries)
    BY <1>1, <1>2, <1>3
  <1>5. ASSUME NEW i \in 1 .. Len(locals) PROVE Tasks[i] = LocalTask(locals[i])
    BY <1>1, <1>2, <1>3
  <1>6. ASSUME NEW i \in 1 .. Len(locals) + Len(boundaries), i \notin 1 .. Len(locals)
        PROVE  i - Len(locals) \in 1 .. Len(boundaries) /\ Tasks[i] = boundaries[i - Len(locals)]
    BY <1>1, <1>2, <1>3, <1>6
  <1> QED
    BY <1>4, <1>5, <1>6 DEF TasksAre

SpanOf(f) == [start |-> f.start, end |-> f.end]
SpansOf(frs) == [n \in DOMAIN frs |-> SpanOf(frs[n])]

LEMMA SpansOfType ==
    ASSUME NEW frs \in Seq(Fragment)
    PROVE  SpansOf(frs) \in Seq(Span) /\ Len(SpansOf(frs)) = Len(frs)
  <1>1. \A f \in Fragment : SpanOf(f) \in Span
    BY DEF Fragment, SpanOf, Span
  <1>2. /\ Len(frs) \in Nat /\ DOMAIN frs = 1 .. Len(frs)
        /\ \A n \in 1 .. Len(frs) : SpanOf(frs[n]) \in Span
    BY <1>1
  <1> QED
    BY <1>2 DEF SpansOf

LEMMA OwnedContiguous == ASSUME PlanInv, OwnInv, phase = "border" PROVE Contiguous
  <1> DEFINE L == Len(locals)
             K == Len(locals) + Len(boundaries)
             spans == [i \in DOMAIN Tasks |-> Tasks[i].spans]
             owned == FlattenSeq(spans)
             t == SpansOf(fragments)
  <1>1. /\ DiffBytes \in Nat /\ DiffBytes > 0 /\ UpTo(fragments, DiffBytes)
        /\ InSome(locals) = Range(fragments) /\ AllDistinct(locals)
        /\ fragments \in Seq(Fragment)
        /\ boundaries \in Seq(Boundary) /\ Len(boundaries) \in Nat
        /\ DOMAIN boundaries = 1 .. Len(boundaries)
    <2>1. boundaries \in Seq(Boundary)
      BY DEF PlanInv, Bordered
    <2> HIDE DEF Boundary
    <2> QED
      BY <2>1, Packed, FragmentsType
  <1>2. /\ L \in Nat /\ DOMAIN locals = 1 .. L /\ \A i \in 1 .. L : locals[i] \in Seq(Fragment)
    BY Packed
  <1>3. ASSUME NEW x \in Range(fragments), NEW y \in Range(fragments), SpanOf(x) = SpanOf(y)
        PROVE  x = y
    <2>1. PICK m \in DOMAIN fragments : x = fragments[m]
      BY DEF Range
    <2>2. PICK n \in DOMAIN fragments : y = fragments[n]
      BY DEF Range
    <2>3. SpanOf(x).start = SpanOf(y).start /\ SpanOf(x).end = SpanOf(y).end
      BY <1>3
    <2>4. x.start = y.start /\ x.end = y.end
      BY <2>3 DEF SpanOf
    <2>5. x.start < x.end /\ x \in Fragment
      BY <1>1, <2>1 DEF UpTo
    <2>6. x.start \in Nat
      BY <2>5 DEF Fragment
    <2>7. Owns(x, x.start) /\ Owns(y, x.start)
      BY <2>4, <2>5, <2>6 DEF Owns
    <2>8. m = n
      BY <1>1, <2>1, <2>2, <2>6, <2>7, SpansDiffer
    <2> QED
      BY <2>1, <2>2, <2>8
  <1>4. DOMAIN spans = 1 .. K /\ K \in Nat
    BY <1>1, <1>2, TasksInOrder DEF TasksAre
  <1>5. ASSUME NEW i \in 1 .. L PROVE i \in 1 .. K /\ spans[i] = SpansOf(locals[i])
    <2>1. i \in 1 .. K
      BY <1>1, <1>2
    <2>2. Tasks[i] = LocalTask(locals[i])
      BY TasksInOrder DEF TasksAre
    <2>3. spans[i] = Tasks[i].spans
      BY <1>4, <2>1
    <2> QED
      BY <2>1, <2>2, <2>3 DEF LocalTask, SpansOf, SpanOf
  <1>6. ASSUME NEW i \in 1 .. K, i \notin 1 .. L PROVE spans[i] = <<>>
    <2>1. i - Len(locals) \in 1 .. Len(boundaries) /\ Tasks[i] = boundaries[i - Len(locals)]
      BY <1>6, TasksInOrder DEF TasksAre
    <2>2. boundaries[i - Len(locals)] \in Boundary
      BY <1>1, <2>1
    <2>3. Tasks[i].spans = <<>>
      BY <2>1, <2>2 DEF Boundary
    <2> QED
      BY <1>4, <2>3
  <1>7. \A i \in 1 .. L : SpansOf(locals[i]) \in Seq(Span)
    BY <1>2, SpansOfType
  <1>8. spans \in Seq(Seq(Span))
    <2>1. \A i \in 1 .. K : spans[i] \in Seq(Span)
      <3>1. <<>> \in Seq(Span)
        OBVIOUS
      <3> HIDE DEF spans, K, L
      <3> QED
        BY <1>5, <1>6, <1>7, <3>1
    <2>2. spans = [i \in 1 .. K |-> spans[i]]
      BY <1>4
    <2> HIDE DEF spans, K
    <2> QED
      BY <1>4, <2>1, <2>2
  <1> HIDE DEF spans, K, L
  <1>9. ASSUME NEW i \in 1 .. L, NEW z
        PROVE  z \in Range(spans[i]) <=> \E x \in Range(locals[i]) : z = SpanOf(x)
    <2>1. Range(spans[i]) = {SpanOf(locals[i][n]) : n \in DOMAIN locals[i]}
      BY <1>5 DEF SpansOf, Range
    <2> QED
      BY <2>1 DEF Range
  <1>10. Range(<<>>) = {} /\ IsInjective(<<>>)
    BY DEF Range, IsInjective
  <1>11. \A i \in 1 .. L : \A x \in Range(locals[i]) : x \in Range(fragments)
    BY <1>1, <1>2 DEF InSome
  <1>12. ASSUME NEW z PROVE z \in InSome(spans) <=> z \in Range(t)
    <2>1. z \in Range(t) <=> \E x \in Range(fragments) : z = SpanOf(x)
      <3>1. Range(t) = {SpanOf(fragments[n]) : n \in DOMAIN fragments}
        BY DEF SpansOf, Range
      <3> QED
        BY <3>1 DEF Range
    <2>2. z \in InSome(spans) <=> \E i \in 1 .. K : z \in Range(spans[i])
      BY <1>4 DEF InSome
    <2>3. (\E i \in 1 .. K : z \in Range(spans[i])) <=> \E i \in 1 .. L : z \in Range(spans[i])
      BY <1>5, <1>6, <1>10
    <2>4. (\E i \in 1 .. L : z \in Range(spans[i]))
             <=> \E i \in 1 .. L : \E x \in Range(locals[i]) : z = SpanOf(x)
      BY <1>9
    <2>5. (\E i \in 1 .. L : \E x \in Range(locals[i]) : z = SpanOf(x))
             <=> \E x \in InSome(locals) : z = SpanOf(x)
      BY <1>2 DEF InSome
    <2> QED
      BY <1>1, <2>1, <2>2, <2>3, <2>4, <2>5
  <1>13. AllDistinct(spans)
    <2>1. ASSUME NEW i \in 1 .. L PROVE IsInjective(spans[i])
      <3>1. IsInjective(locals[i])
        BY <1>1, <1>2 DEF AllDistinct
      <3>2. ASSUME NEW m \in DOMAIN locals[i], NEW n \in DOMAIN locals[i],
                   SpanOf(locals[i][m]) = SpanOf(locals[i][n])
            PROVE  m = n
        <4>1. locals[i][m] \in Range(fragments) /\ locals[i][n] \in Range(fragments)
          BY <1>11 DEF Range
        <4>2. locals[i][m] = locals[i][n]
          BY <1>3, <3>2, <4>1
        <4> QED
          BY <3>1, <4>2 DEF IsInjective
      <3>3. /\ DOMAIN spans[i] = DOMAIN locals[i]
            /\ \A n \in DOMAIN locals[i] : spans[i][n] = SpanOf(locals[i][n])
        BY <1>5 DEF SpansOf
      <3>4. \A m, n \in DOMAIN spans[i] : spans[i][m] = spans[i][n] => m = n
        BY <3>2, <3>3
      <3> QED
        BY <3>4 DEF IsInjective
    <2>2. ASSUME NEW i \in 1 .. K PROVE IsInjective(spans[i])
      BY <1>6, <1>10, <2>1
    <2>3. ASSUME NEW i \in 1 .. K, NEW j \in 1 .. K, i # j, NEW z,
                 z \in Range(spans[i]), z \in Range(spans[j])
          PROVE  FALSE
      <3>1. i \in 1 .. L /\ j \in 1 .. L
        BY <1>6, <1>10, <2>3
      <3>2. PICK x \in Range(locals[i]) : z = SpanOf(x)
        BY <1>9, <2>3, <3>1
      <3>3. PICK y \in Range(locals[j]) : z = SpanOf(y)
        BY <1>9, <2>3, <3>1
      <3>4. x = y
        BY <1>3, <1>11, <3>1, <3>2, <3>3
      <3> QED
        BY <1>1, <1>2, <2>3, <3>1, <3>2, <3>3, <3>4 DEF AllDistinct
    <2> QED
      BY <1>4, <2>2, <2>3 DEF AllDistinct
  <1>14. Range(owned) = Range(t) /\ IsInjective(owned)
    <2>1. InSome(spans) = Range(t)
      BY <1>12
    <2> QED
      BY <1>8, <1>13, <2>1, FlattenDistinct
  <1>15. owned \in Seq(Span)
    BY <1>8, FlattenElements
  <1>16. t \in Seq(Span) /\ Len(t) = Len(fragments)
    BY <1>1, SpansOfType
  <1>17. /\ Len(fragments) \in Nat /\ DOMAIN fragments = 1 .. Len(fragments)
         /\ \A n \in DOMAIN fragments : fragments[n].start \in Nat /\ fragments[n].end \in Nat
    <2>1. \A x \in Fragment : x.start \in Nat /\ x.end \in Nat
      BY DEF Fragment
    <2> HIDE DEF Fragment
    <2> QED
      BY <1>1, <2>1
  <1>18. /\ DOMAIN t = DOMAIN fragments
         /\ \A n \in DOMAIN t : t[n].start = fragments[n].start /\ t[n].end = fragments[n].end
    BY DEF SpansOf, SpanOf
  <1> HIDE DEF t
  <1>19. Ascending(t)
    <2>1. ASSUME NEW m \in DOMAIN t, NEW n \in DOMAIN t, m < n PROVE t[m].start < t[n].start
      <3>1. /\ fragments[m].start < fragments[m].end
            /\ fragments[m].end <= fragments[n].start
        BY <1>1, <1>18, <2>1 DEF UpTo
      <3> QED
        BY <1>17, <1>18, <3>1
    <2> QED
      BY <2>1 DEF Ascending
  <1>20. ByStart(owned) = t
    <2> HIDE DEF owned
    <2> QED
      BY <1>14, <1>15, <1>16, <1>19, ByStartSorts
  <1>21. Adjoin(t, DiffBytes)
    <2> DEFINE N == Len(fragments)
    <2>1. Adjoin(fragments, DiffBytes)
      BY <1>1, UpToAdjoins
    <2>2. /\ N > 0 /\ fragments[1].start = 0 /\ fragments[N].end = DiffBytes
          /\ \A n \in 1 .. N : fragments[n].start < fragments[n].end
          /\ \A m, n \in 1 .. N : n = m + 1 => fragments[n].start = fragments[m].end
      BY <2>1 DEF Adjoin
    <2>3. Len(t) = N /\ DOMAIN t = 1 .. N /\ N \in Nat
      BY <1>16, <1>17, <1>18
    <2> HIDE DEF N
    <2>4. 1 \in 1 .. N /\ N \in 1 .. N
      BY <2>2, <2>3
    <2>5. t[1].start = 0 /\ t[N].end = DiffBytes
      BY <1>18, <2>2, <2>3, <2>4
    <2>6. \A n \in 1 .. N : t[n].start < t[n].end
      BY <1>18, <2>2, <2>3
    <2>7. \A m, n \in 1 .. N : n = m + 1 => t[n].start = t[m].end
      BY <1>18, <2>2, <2>3
    <2> QED
      BY <2>2, <2>3, <2>5, <2>6, <2>7 DEF Adjoin
  <1>22. LET After(n, span) == IF span.start = n /\ span.end > n THEN span.end ELSE -1
         IN FoldLeft(After, 0, t) = DiffBytes
    BY <1>1, <1>16, <1>21, SpansAddUp
  <1>23. LET After(n, span) == IF span.start = n /\ span.end > n THEN span.end ELSE -1
         IN FoldLeft(After, 0, ByStart(owned)) = DiffBytes
    BY <1>20, <1>22
  <1> QED
    BY <1>23 DEF Contiguous, owned, spans

(* Every prompt keeps to the budget, its context or excerpts included.      *)
LEMMA TasksFit ==
    ASSUME PlanInv, NEW i \in DOMAIN Tasks
    PROVE  Tasks[i].prompt \in Nat /\ Tasks[i].prompt <= PromptBudget
  <1>1. /\ input \in Selections /\ locals \in Seq(Locals(input.base))
        /\ boundaries \in Seq(Boundary)
    BY DEF PlanInv, Typed, Packable, Bordered
  <1>2. DOMAIN locals = 1 .. Len(locals) /\ DOMAIN boundaries = 1 .. Len(boundaries)
    <2> HIDE DEF Locals, Boundary
    <2> QED
      BY <1>1
  <1>3. CASE i \in 1 .. Len(locals)
    <2>1. locals[i] \in Seq(Fragment) /\ locals[i] \in Fitting(input.base)
      BY <1>1, <1>2, <1>3, LocalsFields
    <2>2. input.base \in Nat /\ input.parts \in Seq(Part)
      BY <1>1, SelectionFields
    <2>3. LocalPrompt(locals[i]) \in Nat /\ LocalPrompt(locals[i]) <= PromptBudget
      BY <2>1, <2>2, FitsIsFitting DEF Fits
    <2>4. RenderParts(input.parts, Paths(locals[i])) \in Seq(Nat)
      BY <2>2, PartsType
    <2>5. /\ LocalTask(locals[i]).prompt \in Nat
          /\ LocalTask(locals[i]).prompt <= PromptBudget
      BY <2>3, <2>4, ContextFits DEF LocalTask
    <2>6. Tasks[i] = LocalTask(locals[i])
      BY <1>3, TasksInOrder DEF TasksAre
    <2> QED
      BY <2>5, <2>6
  <1>4. CASE i \notin 1 .. Len(locals)
    <2>1. i - Len(locals) \in 1 .. Len(boundaries) /\ Tasks[i] = boundaries[i - Len(locals)]
      BY <1>4, TasksInOrder DEF TasksAre
    <2>2. boundaries[i - Len(locals)] \in Boundary
      BY <1>1, <1>2, <2>1
    <2>3. Tasks[i].prompt \in 0 .. PromptBudget
      BY <2>1, <2>2 DEF Boundary
    <2> QED
      BY <2>3, ByteConstants
  <1> QED
    BY <1>3, <1>4

(* No two boundaries are the same look at the same tasks.                   *)
BordersDiffer ==
    /\ \A m, n \in DOMAIN boundaries : m # n => boundaries[m].about # boundaries[n].about
    /\ \A n \in DOMAIN boundaries : boundaries[n].paths # {}

LEMMA BuiltIsValid ==
    ASSUME PlanInv, OwnInv, BordersDiffer, phase = "border", Len(boundaries) >= Len(locals)
    PROVE  ValidPlan
  <1> DEFINE L == Len(locals)
             K == Len(locals) + Len(boundaries)
  <1>1. /\ DiffBytes \in Nat /\ DiffBytes > 0 /\ UpTo(fragments, DiffBytes)
        /\ InSome(locals) = Range(fragments) /\ AllDistinct(locals)
        /\ locals \in Seq(Seq(Fragment))
    BY Packed
  <1>2. /\ boundaries \in Seq(Boundary) /\ locals \in Seq(Locals(input.base))
    BY DEF PlanInv, Packable, Bordered
  <1>3. /\ L \in Nat /\ DOMAIN locals = 1 .. L
        /\ Len(boundaries) \in Nat /\ DOMAIN boundaries = 1 .. Len(boundaries)
    <2> HIDE DEF Locals, Boundary
    <2> QED
      BY <1>2
  <1>4. ASSUME NEW i \in 1 .. L PROVE locals[i] \in Seq(Fragment) /\ locals[i] # <<>>
    <2>1. locals[i] \in Locals(input.base)
      BY <1>2, <1>3
    <2>2. locals[i] # <<>>
      BY <2>1 DEF Locals
    <2> QED
      BY <1>1, <1>3, <2>2
  <1>5. L > 0
    <2>1. 0 \in 0 .. DiffBytes - 1
      BY <1>1
    <2>2. PICK n \in DOMAIN fragments : Owns(fragments[n], 0)
      BY <1>1, <2>1 DEF UpTo
    <2>3. fragments[n] \in InSome(locals)
      BY <1>1 DEF Range
    <2>4. PICK i \in DOMAIN locals : fragments[n] \in Range(locals[i])
      BY <2>3 DEF InSome
    <2> QED
      BY <1>3, <2>4
  <1> HIDE DEF L
  <1>6. DOMAIN Tasks = 1 .. K /\ K \in Nat
    BY <1>3, TasksInOrder DEF TasksAre, L
  <1>7. ASSUME NEW i \in 1 .. L
        PROVE  /\ i \in 1 .. K /\ Tasks[i].kind = "local" /\ Tasks[i].about = locals[i]
               /\ Tasks[i].spans # <<>> /\ Tasks[i].paths # {}
    <2>1. Tasks[i] = LocalTask(locals[i])
      BY TasksInOrder DEF TasksAre, L
    <2>2. /\ Tasks[i].kind = "local" /\ Tasks[i].about = locals[i]
          /\ Tasks[i].paths = Paths(locals[i]) /\ Tasks[i].spans = SpansOf(locals[i])
      BY <2>1 DEF LocalTask, SpansOf, SpanOf
    <2>3. locals[i] \in Seq(Fragment) /\ locals[i] # <<>>
      BY <1>4
    <2>4. Len(locals[i]) \in Nat /\ Len(locals[i]) # 0 /\ 1 \in DOMAIN locals[i]
      <3> HIDE DEF Fragment
      <3> QED
        BY <2>3
    <2>5. Len(SpansOf(locals[i])) = Len(locals[i])
      BY <2>3, SpansOfType
    <2>6. SpansOf(locals[i]) # <<>>
      <3>1. Len(<<>>) = 0
        OBVIOUS
      <3> QED
        BY <2>4, <2>5, <3>1
    <2>7. locals[i][1].file \in Paths(locals[i])
      BY <2>4 DEF Paths, Range
    <2>8. i \in 1 .. K
      BY <1>3 DEF L
    <2> QED
      BY <2>2, <2>6, <2>7, <2>8
  <1>8. ASSUME NEW i \in 1 .. K, i \notin 1 .. L
        PROVE  /\ i - L \in 1 .. Len(boundaries) /\ Tasks[i] = boundaries[i - L]
               /\ Tasks[i].kind = "boundary" /\ Tasks[i].spans = <<>> /\ Tasks[i].paths # {}
    <2>1. i - L \in 1 .. Len(boundaries) /\ Tasks[i] = boundaries[i - L]
      BY <1>8, TasksInOrder DEF TasksAre, L
    <2>2. boundaries[i - L] \in Boundary
      BY <1>2, <1>3, <2>1
    <2>3. Tasks[i].kind = "boundary" /\ Tasks[i].spans = <<>>
      BY <2>1, <2>2 DEF Boundary
    <2>4. Tasks[i].paths # {}
      BY <1>3, <2>1 DEF BordersDiffer
    <2> QED
      BY <2>1, <2>3, <2>4
  <1>9. \A i \in 1 .. K : Tasks[i].prompt <= PromptBudget + Framing
    <2>1. ASSUME NEW i \in 1 .. K PROVE Tasks[i].prompt <= PromptBudget + Framing
      <3>1. Tasks[i].prompt \in Nat /\ Tasks[i].prompt <= PromptBudget
        BY <1>6, TasksFit
      <3> QED
        BY <3>1, ByteConstants
    <2> QED
      BY <2>1
  <1>10. IsInjective(Tasks)
    <2>1. ASSUME NEW i \in 1 .. K, NEW j \in 1 .. K, Tasks[i] = Tasks[j] PROVE i = j
      <3>1. i \in 1 .. L <=> j \in 1 .. L
        <4>1. i \in 1 .. L <=> Tasks[i].kind = "local"
          BY <1>7, <1>8
        <4>2. j \in 1 .. L <=> Tasks[j].kind = "local"
          BY <1>7, <1>8
        <4> QED
          BY <2>1, <4>1, <4>2
      <3>2. CASE i \in 1 .. L
        <4>1. locals[i] = locals[j]
          BY <1>7, <2>1, <3>1, <3>2
        <4>2. PICK n \in DOMAIN locals[i] : TRUE
          <5>1. locals[i] \in Seq(Fragment) /\ locals[i] # <<>>
            BY <1>4, <3>2
          <5>2. 1 \in DOMAIN locals[i]
            <6> HIDE DEF Fragment
            <6> QED
              BY <5>1
          <5> QED
            BY <5>2
        <4>3. locals[i][n] \in Range(locals[i]) \cap Range(locals[j])
          BY <4>1 DEF Range
        <4> QED
          BY <1>1, <1>3, <3>1, <3>2, <4>3 DEF AllDistinct
      <3>3. CASE i \notin 1 .. L
        <4>1. boundaries[i - L].about = boundaries[j - L].about
          BY <1>8, <2>1, <3>1, <3>3
        <4>2. i - L \in DOMAIN boundaries /\ j - L \in DOMAIN boundaries
          BY <1>3, <1>8, <3>1, <3>3
        <4>3. i - L = j - L
          BY <4>1, <4>2 DEF BordersDiffer
        <4> QED
          BY <1>3, <1>6, <4>3
      <3> QED
        BY <3>2, <3>3
    <2> QED
      BY <1>6, <2>1 DEF IsInjective
  <1>11. ASSUME NEW i \in 1 .. K
         PROVE  /\ Tasks[i].prompt <= PromptBudget + Framing /\ Tasks[i].paths # {}
                /\ (Tasks[i].kind = "local") <=> (Tasks[i].spans # <<>>)
    <2>1. CASE i \in 1 .. L
      BY <1>7, <1>9, <2>1
    <2>2. CASE i \notin 1 .. L
      BY <1>8, <1>9, <2>2
    <2> QED
      BY <2>1, <2>2
  <1>12. Range(Tasks) = {Tasks[i] : i \in 1 .. K}
    BY <1>6 DEF Range
  <1> QED
    BY <1>1, <1>5, <1>10, <1>11, <1>12, OwnedContiguous DEF ValidPlan, L

(* A hunk has lines, and its header counts them, as git writes it.          *)
CountsAgree ==
    \A s \in Range(Sections) : \A h \in Range(s.hunks) : h.lines # <<>> /\ CountsMatch(h)
Honest ==
    /\ BordersDiffer
    /\ reason # "invalid" /\ (CountsAgree => reason # "hunk")

LEMMA BordersKept ==
    ASSUME Honest, input' = input, boundaries' = boundaries,
           reason' # "invalid", CountsAgree => reason' # "hunk"
    PROVE  Honest'
  <1>1. CountsAgree' <=> CountsAgree
    BY DEF CountsAgree, CountsMatch, Sections
  <1> QED
    BY <1>1 DEF Honest, BordersDiffer

LEMMA RefuseHonest ==
    ASSUME Honest, NEW why, why # "invalid", CountsAgree => why # "hunk", Refuse(why)
    PROVE  Honest'
  BY BordersKept DEF Refuse

LEMMA AddHonest ==
    ASSUME PlanInv, Honest, NEW a \in DOMAIN locals, NEW b \in DOMAIN locals, NEW edge,
           Add(a, b, edge), \A n \in DOMAIN boundaries : boundaries[n].about # <<a, b, edge>>
    PROVE  Honest'
  <1>1. locals \in Seq(Locals(input.base)) /\ boundaries \in Seq(Boundary)
    BY DEF PlanInv, Packable, Bordered
  <1>2. CASE ExcerptBudget(a, b, edge) < MinExcerpt
    <2>1. Refuse("excerpt")
      BY <1>2 DEF Add
    <2> QED
      BY <2>1, RefuseHonest
  <1>3. CASE ~(ExcerptBudget(a, b, edge) < MinExcerpt)
    <2> DEFINE task == BoundaryTask(a, b, edge)
               last == Len(boundaries) + 1
    <2>1. boundaries' = Append(boundaries, task) /\ UNCHANGED <<input, reason>>
      BY <1>3 DEF Add
    <2>2. task.about = <<a, b, edge>> /\ task.paths = Paths(locals[a]) \cup Paths(locals[b])
      BY DEF BoundaryTask
    <2>3. task.paths # {}
      <3>1. locals[a] \in Locals(input.base) /\ locals[a] \in Seq(Fragment)
        BY <1>1, LocalsFields
      <3>2. locals[a] # <<>>
        BY <3>1 DEF Locals
      <3>3. 1 \in DOMAIN locals[a]
        <4> HIDE DEF Fragment
        <4> QED
          BY <3>1, <3>2
      <3>4. locals[a][1].file \in Paths(locals[a])
        BY <3>3 DEF Paths, Range
      <3> QED
        BY <2>2, <3>4
    <2> HIDE DEF task
    <2>4. /\ Len(boundaries) \in Nat /\ DOMAIN boundaries = 1 .. Len(boundaries)
          /\ DOMAIN boundaries' = 1 .. last /\ boundaries'[last] = task
          /\ \A n \in 1 .. Len(boundaries) : boundaries'[n] = boundaries[n]
      <3> HIDE DEF Boundary
      <3> QED
        BY <1>1, <2>1
    <2>5. \A n \in 1 .. last : n = last \/ n \in 1 .. Len(boundaries)
      BY <2>4
    <2> HIDE DEF last
    <2>6. ASSUME NEW m \in 1 .. last, NEW n \in 1 .. last, m # n
          PROVE  boundaries'[m].about # boundaries'[n].about
      <3>1. m \in 1 .. Len(boundaries) => boundaries'[m].about # task.about
        BY <2>2, <2>4
      <3>2. n \in 1 .. Len(boundaries) => boundaries'[n].about # task.about
        BY <2>2, <2>4
      <3>3. m \in 1 .. Len(boundaries) /\ n \in 1 .. Len(boundaries)
               => boundaries'[m].about # boundaries'[n].about
        BY <2>4, <2>6 DEF Honest, BordersDiffer
      <3> QED
        BY <2>4, <2>5, <2>6, <3>1, <3>2, <3>3
    <2>7. ASSUME NEW n \in 1 .. last PROVE boundaries'[n].paths # {}
      BY <2>3, <2>4, <2>5 DEF Honest, BordersDiffer
    <2>8. CountsAgree' <=> CountsAgree
      BY <2>1 DEF CountsAgree, CountsMatch, Sections
    <2>9. BordersDiffer'
      <3>1. \A m, n \in DOMAIN boundaries' : m # n => boundaries'[m].about # boundaries'[n].about
        BY <2>4, <2>6
      <3>2. \A n \in DOMAIN boundaries' : boundaries'[n].paths # {}
        BY <2>4, <2>7
      <3> QED
        BY <3>1, <3>2 DEF BordersDiffer
    <2> QED
      BY <2>1, <2>8, <2>9 DEF Honest
  <1> QED
    BY <1>2, <1>3

LEMMA AddNeighborHonest == ASSUME PlanInv, Honest, AddNeighbor PROVE Honest'
  <1> DEFINE a == Len(boundaries) + 1
  <1>1. /\ phase = "border" /\ Len(boundaries) < Len(locals) /\ Add(a, Neighbor(a), <<>>)
    BY DEF AddNeighbor
  <1>2. /\ locals \in Seq(Locals(input.base)) /\ boundaries \in Seq(Boundary)
        /\ \A i \in DOMAIN boundaries : i <= Len(locals) => boundaries[i].about[1] = i
    BY DEF PlanInv, Packable, Bordered
  <1>3. /\ Len(locals) \in Nat /\ DOMAIN locals = 1 .. Len(locals)
        /\ Len(boundaries) \in Nat /\ DOMAIN boundaries = 1 .. Len(boundaries)
    <2> HIDE DEF Locals, Boundary
    <2> QED
      BY <1>2
  <1>4. a \in DOMAIN locals /\ Neighbor(a) \in DOMAIN locals
    <2>1. a \in 1 .. Len(locals)
      BY <1>1, <1>3
    <2> HIDE DEF a
    <2>2. (a % Len(locals)) + 1 \in 1 .. Len(locals)
      BY <1>3, <2>1
    <2> QED
      BY <1>3, <2>1, <2>2 DEF Neighbor
  <1>5. ASSUME NEW n \in DOMAIN boundaries PROVE boundaries[n].about # <<a, Neighbor(a), <<>>>>
    <2>1. n <= Len(locals) /\ n # a
      BY <1>1, <1>3
    <2>2. boundaries[n].about[1] = n
      BY <1>2, <2>1
    <2> HIDE DEF a
    <2>3. <<a, Neighbor(a), <<>>>>[1] = a
      OBVIOUS
    <2> QED
      BY <2>1, <2>2, <2>3
  <1> HIDE DEF a
  <1> QED
    BY <1>1, <1>4, <1>5, AddHonest

LEMMA AddEdgeHonest == ASSUME PlanInv, Honest, AddEdge PROVE Honest'
  <1> DEFINE x == First(Uncovered)
             edge == <<edges[x[1]].from, edges[x[1]].to>>
  <1>1. Uncovered # {} /\ Add(x[2], x[3], edge)
    BY DEF AddEdge
  <1>2. x[2] \in DOMAIN locals /\ x[3] \in DOMAIN locals /\ {x[2], x[3]} \notin Covered
    BY <1>1, FirstUncovered
  <1> HIDE DEF x
  <1>3. ASSUME NEW n \in DOMAIN boundaries, boundaries[n].about = <<x[2], x[3], edge>>
        PROVE  FALSE
    <2>1. boundaries[n].about[1] = x[2] /\ boundaries[n].about[2] = x[3]
      BY <1>3
    <2>2. boundaries[n] \in Range(boundaries)
      BY DEF Range
    <2> QED
      BY <1>2, <2>1, <2>2 DEF Covered
  <1> HIDE DEF edge
  <1> QED
    BY <1>1, <1>2, <1>3, AddHonest

(* The hunk that is split is one of the diff.                               *)
LEMMA SplitHunk ==
    ASSUME PlanInv, SplitChunk
    PROVE  LET h == Sections[at.section].hunks[at.hunk]
           IN /\ Sections[at.section] \in Range(Sections) /\ h \in Range(Sections[at.section].hunks)
              /\ at.section \in DOMAIN Sections /\ at.hunk \in DOMAIN Sections[at.section].hunks
              /\ h.lines \in Seq(BodyLine) /\ at \in Cursors
  <1> DEFINE k == at.section
             j == at.hunk
  <1>1. at.hunk > 0 /\ at \in Cursors /\ (at.hunk = 0 \/ InHunk(at, input))
    BY DEF SplitChunk, PlanInv, AtOK
  <1>2. at.hunk # 0
    BY <1>1 DEF Cursors
  <1>3. InHunk(at, input) /\ input \in Selections
    BY <1>1, <1>2 DEF PlanInv, Typed
  <1>4. k \in Nat \ {0} /\ j \in Nat /\ j # 0
    BY <1>1, <1>2 DEF Cursors
  <1>5. k <= Len(Sections) /\ j <= Len(Sections[k].hunks)
    BY <1>3 DEF InHunk, Sections
  <1>6. Len(Sections) \in Nat
    BY <1>3, SelectionFields
  <1>7. k \in 1 .. Len(Sections)
    BY <1>4, <1>5, <1>6
  <1>8. Len(Sections[k].hunks) \in Nat
    BY <1>3, <1>7, SelectionFields, SectionFields
  <1>9. k \in 1 .. Len(Sections) /\ j \in 1 .. Len(Sections[k].hunks)
    BY <1>4, <1>5, <1>7, <1>8
  <1>10. Sections \in Seq(FileSection) /\ Sections[k] \in FileSection
    BY <1>3, <1>9, SelectionFields
  <1>11. Sections[k].hunks \in Seq(Hunks) /\ Sections[k].hunks[j] \in Hunks
    BY <1>9, <1>10, SectionFields
  <1>12. Sections[k].hunks[j].lines \in Seq(BodyLine)
    BY <1>11, HunkFields DEF IsHunk
  <1>13. k \in DOMAIN Sections /\ j \in DOMAIN Sections[k].hunks
    <2> HIDE DEF FileSection, Hunks, k, j
    <2> QED
      BY <1>9, <1>10, <1>11
  <1> QED
    BY <1>1, <1>12, <1>13 DEF Range

LEMMA SplitChunkHonest == ASSUME PlanInv, Honest, SplitChunk PROVE Honest'
  <1> DEFINE k == at.section
             j == at.hunk
             h == Sections[k].hunks[j]
             ends == {e \in ChunkEnds(h, at.line) :
                         Bytes(SubSeq(h.lines, at.line, e)) <=
                            PayloadLimit - Sections[k].meta - h.suffix - HeaderReserve}
             why == Objection(k, j, at.line, ends)
  <1>1. Refuse(why) \/ UNCHANGED <<phase, SplitRest>>
    BY DEF SplitChunk
  <1>2. CountsAgree => h.lines # <<>> /\ CountsMatch(h)
    BY SplitHunk DEF CountsAgree
  <1>3. CASE Refuse(why)
    <2>1. why \in Objections \cup {""}
      BY ObjectionOf
    <2>2. why = "hunk" => h.lines = <<>> \/ ~CountsMatch(h)
      <3> HIDE DEF ends
      <3> QED
        BY DEF Objection
    <2>3. why # "invalid" /\ (CountsAgree => why # "hunk")
      <3> HIDE DEF why
      <3> QED
        BY <1>2, <2>1, <2>2 DEF Objections
    <2> HIDE DEF why
    <2> QED
      BY <1>3, <2>3, RefuseHonest
  <1>4. CASE UNCHANGED <<phase, SplitRest>>
    <2>1. UNCHANGED <<input, reason, boundaries>>
      BY <1>4 DEF SplitRest
    <2> QED
      BY <2>1, BordersKept DEF Honest
  <1> QED
    BY <1>1, <1>3, <1>4

LEMMA HonestInit == Init => Honest
  <1>1. ASSUME Init PROVE boundaries = <<>> /\ reason = ""
    BY <1>1 DEF Init
  <1>2. ASSUME boundaries = <<>> PROVE BordersDiffer
    BY <1>2 DEF BordersDiffer
  <1> QED
    BY <1>1, <1>2 DEF Honest

LEMMA HonestStep == PlanInv /\ OwnInv /\ Honest /\ [Next]_vars => Honest'
  <1> SUFFICES ASSUME PlanInv, OwnInv, Honest, [Next]_vars PROVE Honest'
    OBVIOUS
  <1>1. CASE Interrupted
    BY <1>1, RefuseHonest DEF Interrupted
  <1>2. CASE NoRoomForContext
    BY <1>2, RefuseHonest DEF NoRoomForContext
  <1>3. CASE BeginSection
    <2>1. \/ UNCHANGED <<phase, SplitRest>>
          \/ \E why \in {"binary", "metadata"} : Refuse(why)
          \/ UNCHANGED <<phase, fragments, SplitRest>>
      BY <1>3 DEF BeginSection
    <2>2. CASE \E why \in {"binary", "metadata"} : Refuse(why)
      BY <2>2, RefuseHonest
    <2>3. CASE UNCHANGED <<input, reason, boundaries>>
      BY <2>3, BordersKept DEF Honest
    <2> QED
      BY <2>1, <2>2, <2>3 DEF SplitRest
  <1>4. CASE SplitChunk
    BY <1>4, SplitChunkHonest
  <1>5. CASE Group
    BY <1>5, BordersKept DEF Group, Honest
  <1>6. CASE Pack
    <2>1. Refuse("fragment") \/ UNCHANGED <<input, reason, boundaries>>
      BY <1>6 DEF Pack
    <2> QED
      BY <2>1, RefuseHonest, BordersKept DEF Honest
  <1>7. CASE PackLast
    BY <1>7, BordersKept DEF PackLast, Honest
  <1>8. CASE NoRoomForManifest
    BY <1>8, RefuseHonest DEF NoRoomForManifest
  <1>9. CASE AddNeighbor
    BY <1>9, AddNeighborHonest
  <1>10. CASE AddEdge
    BY <1>10, AddEdgeHonest
  <1>11. CASE Validate
    <2>1. /\ phase = "border" /\ Len(boundaries) >= Len(locals)
          /\ reason' = IF ValidPlan THEN "" ELSE "invalid"
          /\ UNCHANGED <<input, boundaries>>
      BY <1>11 DEF Validate
    <2>2. ValidPlan
      BY <2>1, BuiltIsValid DEF Honest
    <2> QED
      BY <2>1, <2>2, BordersKept
  <1>12. CASE Answered
    BY <1>12, BordersKept DEF Answered, vars, Honest
  <1>13. CASE UNCHANGED vars
    BY <1>13, BordersKept DEF vars, Honest
  <1> QED
    BY <1>1, <1>2, <1>3, <1>4, <1>5, <1>6, <1>7, <1>8, <1>9, <1>10, <1>11, <1>12, <1>13 DEF Next

-----------------------------------------------------------------------------
(* A cut never separates a line from its "\ No newline".                    *)

(* The next line to look at starts a chunk, and is not such a mark.         *)
AtAtom ==
    at.hunk # 0 =>
        LET lines == Sections[at.section].hunks[at.hunk].lines
        IN at.line \in DOMAIN lines => lines[at.line].kind # "\\"
CutInv == AllStandard => reason # "body" /\ AtAtom

LEMMA CutKept ==
    ASSUME CutInv, input' = input, at' = at, reason' = reason \/ reason' # "body"
    PROVE  CutInv'
  BY DEF CutInv, AllStandard, Standard, AtAtom, Sections

(* A hunk or a section starts with such a line.                             *)
LEMMA CutBegins ==
    ASSUME CutInv, UNCHANGED <<input, reason>>, NEW k \in Nat, NEW j \in Nat,
           \/ at' = AtSection(k)
           \/ /\ at' = AtHunk(k, j)
              /\ k \in DOMAIN Sections /\ j \in DOMAIN Sections[k].hunks
    PROVE  CutInv'
  <1> DEFINE lines == Sections[k].hunks[j].lines
  <1>1. AllStandard' <=> AllStandard
    BY DEF AllStandard, Standard, Sections
  <1>2. CASE at' = AtSection(k)
    <2>1. at'.hunk = 0
      BY <1>2 DEF AtSection
    <2>2. AtAtom'
      BY <2>1 DEF AtAtom
    <2> QED
      BY <1>1, <2>2 DEF CutInv
  <1>3. CASE /\ at' = AtHunk(k, j)
             /\ k \in DOMAIN Sections /\ j \in DOMAIN Sections[k].hunks
    <2>1. at'.section = k /\ at'.hunk = j /\ at'.line = 1
      BY <1>3 DEF AtHunk
    <2>2. ASSUME AllStandard, 1 \in DOMAIN lines PROVE lines[1].kind # "\\"
      <3>1. Sections[k] \in Range(Sections) /\ Sections[k].hunks[j] \in Range(Sections[k].hunks)
        BY <1>3 DEF Range
      <3>2. Standard(Sections[k].hunks[j])
        BY <2>2, <3>1 DEF AllStandard
      <3> QED
        BY <2>2, <3>2 DEF Standard
    <2>3. AllStandard => AtAtom'
      BY <2>1, <2>2 DEF AtAtom, Sections
    <2> QED
      BY <1>1, <2>3 DEF CutInv
  <1> QED
    BY <1>2, <1>3

(* In a standard body, neither where a chunk starts nor where the next one  *)
(* does is there such a mark.                                               *)
LEMMA EndsBeforeAtom ==
    ASSUME NEW h, h.lines \in Seq(BodyLine), Standard(h), NEW i \in Nat \ {0},
           NEW e \in ChunkEnds(h, i), e # Len(h.lines)
    PROVE  e + 1 \in DOMAIN h.lines /\ h.lines[e + 1].kind # "\\"
  <1> DEFINE L == h.lines
  <1>1. e \in i .. Len(L) /\ (L[e].kind = "\\" \/ L[e + 1].kind # "\\")
    BY DEF ChunkEnds
  <1>2. Len(L) \in Nat /\ DOMAIN L = 1 .. Len(L) /\ e # Len(L)
    OBVIOUS
  <1>3. e + 1 \in DOMAIN L /\ (e + 1) - 1 = e
    <2> DEFINE n == Len(L)
    <2>1. n \in Nat /\ DOMAIN L = 1 .. n /\ e # n /\ e \in i .. n
      BY <1>1, <1>2
    <2> HIDE DEF n
    <2>2. e + 1 \in 1 .. n /\ (e + 1) - 1 = e
      BY <2>1
    <2> QED
      BY <2>1, <2>2
  <1>4. L[e + 1].kind = "\\" => L[(e + 1) - 1].kind # "\\"
    BY <1>3 DEF Standard
  <1> QED
    BY <1>1, <1>3, <1>4

LEMMA SplitChunkCuts == ASSUME PlanInv, CutInv, SplitChunk PROVE CutInv'
  <1> DEFINE k == at.section
             j == at.hunk
             i == at.line
             h == Sections[k].hunks[j]
             ends == {e \in ChunkEnds(h, i) :
                         Bytes(SubSeq(h.lines, i, e)) <=
                            PayloadLimit - Sections[k].meta - h.suffix - HeaderReserve}
             last == Max(ends)
             why == Objection(k, j, i, ends)
  <1>1. /\ Sections[k] \in Range(Sections) /\ h \in Range(Sections[k].hunks)
        /\ k \in DOMAIN Sections /\ j \in DOMAIN Sections[k].hunks
        /\ h.lines \in Seq(BodyLine) /\ at \in Cursors
    BY SplitHunk
  <1>2. k \in Nat \ {0} /\ j \in Nat /\ i \in Nat \ {0} /\ j > 0
    BY <1>1 DEF Cursors, SplitChunk
  <1>3. AllStandard => Standard(h)
    BY <1>1 DEF AllStandard
  <1>4. \/ Refuse(why)
        \/ /\ ends # {}
           /\ \/ last = Len(h.lines) /\ at' = AfterHunk(k, j)
              \/ last # Len(h.lines) /\ at'.section = k /\ at'.hunk = j /\ at'.line = last + 1
           /\ UNCHANGED <<input, reason>>
    <2>1. \/ Refuse(why)
          \/ /\ ends # {}
             /\ at' = IF last = Len(h.lines) THEN AfterHunk(k, j)
                      ELSE [at EXCEPT !.line = last + 1,
                                      !.old = @ + OldCount(SubSeq(h.lines, i, last)),
                                      !.new = @ + NewCount(SubSeq(h.lines, i, last))]
             /\ UNCHANGED <<input, reason>>
      BY ObjectionOf DEF SplitChunk, SplitRest
    <2> HIDE DEF why, ends, last, h
    <2> QED
      BY <1>1, <2>1 DEF Cursors
  <1>5. CASE Refuse(why)
    <2>1. ASSUME AllStandard PROVE why # "body"
      <3> DEFINE seen == ({i} \cup {e + 1 : e \in ends}) \cap DOMAIN h.lines
      <3>1. ASSUME NEW n \in seen PROVE h.lines[n].kind \in {" ", "-", "+"}
        <4>1. h.lines[n].kind # "\\"
          <5>1. CASE n = i
            BY <1>2, <2>1, <3>1, <5>1 DEF CutInv, AtAtom
          <5>2. CASE n # i
            <6>1. PICK e \in ends : n = e + 1
              BY <3>1, <5>2
            <6>2. e # Len(h.lines)
              <7>1. Len(h.lines) \in Nat /\ n \in 1 .. Len(h.lines)
                BY <1>1, <3>1
              <7> HIDE DEF h
              <7> QED
                BY <6>1, <7>1
            <6>3. e \in ChunkEnds(h, i)
              BY <6>1
            <6> HIDE DEF h, ends, i
            <6> QED
              BY <1>1, <1>2, <1>3, <2>1, <6>1, <6>2, <6>3, EndsBeforeAtom
          <5> QED
            BY <5>1, <5>2
        <4>2. h.lines[n].kind # "?"
          BY <1>3, <2>1, <3>1 DEF Standard
        <4>3. h.lines[n] \in BodyLine
          BY <1>1, <3>1
        <4> QED
          BY <4>1, <4>2, <4>3 DEF BodyLine, Kind
      <3> HIDE DEF ends
      <3> QED
        BY <3>1 DEF Objection
    <2> HIDE DEF why
    <2>2. reason' = why /\ UNCHANGED <<input, at>>
      BY <1>5 DEF Refuse
    <2>3. AllStandard' <=> AllStandard
      BY <2>2 DEF AllStandard, Standard, Sections
    <2>4. AtAtom' <=> AtAtom
      BY <2>2 DEF AtAtom, Sections
    <2> QED
      BY <2>1, <2>2, <2>3, <2>4 DEF CutInv
  <1>6. CASE last = Len(h.lines) /\ at' = AfterHunk(k, j) /\ UNCHANGED <<input, reason>>
    <2>1. CASE j < Len(Sections[k].hunks)
      <3>1. j + 1 \in DOMAIN Sections[k].hunks /\ j + 1 \in Nat
        <4>1. Sections[k].hunks \in Seq(Hunks)
          <5>1. k \in 1 .. Len(Sections)
            <6>1. Sections \in Seq(FileSection)
              BY SelectionFields DEF PlanInv, Typed
            <6> HIDE DEF FileSection
            <6> QED
              BY <1>1, <6>1
          <5> QED
            BY <5>1, SelectionFields, SectionFields DEF PlanInv, Typed
        <4> HIDE DEF k, j
        <4> QED
          BY <1>2, <2>1, <4>1
      <3>2. at' = AtHunk(k, j + 1)
        BY <1>6, <2>1 DEF AfterHunk
      <3> HIDE DEF k, j
      <3> QED
        BY <1>1, <1>2, <1>6, <3>1, <3>2, CutBegins
    <2>2. CASE ~(j < Len(Sections[k].hunks))
      <3>1. at' = AtSection(k + 1) /\ k + 1 \in Nat
        BY <1>2, <1>6, <2>2 DEF AfterHunk
      <3> HIDE DEF k, j
      <3> QED
        BY <1>2, <1>6, <3>1, CutBegins
    <2> QED
      BY <2>1, <2>2
  <1>7. CASE /\ ends # {} /\ last # Len(h.lines)
             /\ at'.section = k /\ at'.hunk = j /\ at'.line = last + 1
             /\ UNCHANGED <<input, reason>>
    <2>1. last \in ends
      <3>1. ends \in SUBSET (i .. Len(h.lines))
        BY DEF ChunkEnds
      <3>2. Len(h.lines) \in Nat
        BY <1>1
      <3> HIDE DEF ends, h, i
      <3>3. i .. Len(h.lines) \subseteq 0 .. Len(h.lines)
        BY <1>2, <3>2
      <3>4. ends \in SUBSET (0 .. Len(h.lines)) /\ ends # {}
        BY <1>7, <3>1, <3>3
      <3> QED
        BY <3>2, <3>4, MaxIsGreatest
    <2>2. last \in ChunkEnds(h, i)
      <3> HIDE DEF last
      <3> QED
        BY <2>1
    <2>3. AllStandard => h.lines[last + 1].kind # "\\"
      <3> HIDE DEF last, h, i
      <3> QED
        BY <1>1, <1>2, <1>3, <1>7, <2>2, EndsBeforeAtom
    <2>4. AllStandard' <=> AllStandard
      BY <1>7 DEF AllStandard, Standard, Sections
    <2>5. AllStandard => AtAtom'
      <3> HIDE DEF last
      <3> QED
        BY <1>7, <2>3 DEF AtAtom, Sections
    <2> QED
      BY <1>7, <2>4, <2>5 DEF CutInv
  <1> HIDE DEF why, ends, last, h
  <1> QED
    BY <1>4, <1>5, <1>6, <1>7

LEMMA CutInit == Init => CutInv
  <1> SUFFICES ASSUME Init PROVE CutInv
    OBVIOUS
  <1>1. reason = "" /\ at.hunk = 0
    BY DEF Init, AtSection
  <1>2. AtAtom
    BY <1>1 DEF AtAtom
  <1> QED
    BY <1>1, <1>2 DEF CutInv

LEMMA CutStep == PlanInv /\ CutInv /\ [Next]_vars => CutInv'
  <1> SUFFICES ASSUME PlanInv, CutInv, [Next]_vars PROVE CutInv'
    OBVIOUS
  <1>1. CASE Interrupted \/ NoRoomForContext \/ NoRoomForManifest
    BY <1>1, CutKept DEF Interrupted, NoRoomForContext, NoRoomForManifest, Refuse
  <1>2. CASE BeginSection
    <2> DEFINE k == at.section
    <2>1. k \in Nat \ {0} /\ k \in DOMAIN Sections
      <3>1. at \in Cursors /\ input \in Selections /\ k <= Len(Sections)
        BY <1>2 DEF PlanInv, AtOK, Typed, BeginSection
      <3>2. Sections \in Seq(FileSection)
        BY <3>1, SelectionFields
      <3>3. k \in Nat \ {0}
        BY <3>1 DEF Cursors
      <3> HIDE DEF k, FileSection
      <3> QED
        BY <3>1, <3>2, <3>3
    <2>2. \/ at' = AtSection(k + 1) /\ UNCHANGED <<input, reason>>
          \/ \E why \in {"binary", "metadata"} : Refuse(why)
          \/ Sections[k].hunks # <<>> /\ at' = AtHunk(k, 1) /\ UNCHANGED <<input, reason>>
      BY <1>2 DEF BeginSection, SplitRest
    <2>3. Sections[k].hunks # <<>> => 1 \in DOMAIN Sections[k].hunks
      <3>1. input \in Selections
        BY DEF PlanInv, Typed
      <3>2. k \in 1 .. Len(Sections)
        <4>1. Sections \in Seq(FileSection)
          BY <3>1, SelectionFields
        <4> HIDE DEF FileSection, k
        <4> QED
          BY <2>1, <4>1
      <3>3. Sections[k].hunks \in Seq(Hunks)
        BY <3>1, <3>2, SelectionFields, SectionFields
      <3> HIDE DEF Hunks, k
      <3> QED
        BY <3>3
    <2>4. k + 1 \in Nat /\ k \in Nat
      BY <2>1
    <2> HIDE DEF k
    <2>5. CASE \E why \in {"binary", "metadata"} : Refuse(why)
      BY <2>5, CutKept DEF Refuse
    <2> QED
      BY <2>1, <2>2, <2>3, <2>4, <2>5, CutBegins
  <1>3. CASE SplitChunk
    BY <1>3, SplitChunkCuts
  <1>4. CASE Group \/ PackLast
    BY <1>4, CutKept DEF Group, PackLast
  <1>5. CASE Pack
    BY <1>5, CutKept DEF Pack, Refuse
  <1>6. CASE AddNeighbor \/ AddEdge
    BY <1>6, CutKept DEF AddNeighbor, AddEdge, Add, Refuse
  <1>7. CASE Validate
    BY <1>7, CutKept DEF Validate
  <1>8. CASE Answered \/ UNCHANGED vars
    BY <1>8, CutKept DEF Answered, vars
  <1> QED
    BY <1>1, <1>2, <1>3, <1>4, <1>5, <1>6, <1>7, <1>8 DEF Next

-----------------------------------------------------------------------------
(* Every line keeps its place: the inductive invariant.                    *)

-----------------------------------------------------------------------------
(* Places of lines.                                                         *)

(* OldCount and NewCount: the lines of some kinds. They add up.             *)
KindCount(lines, kinds) == Cardinality({i \in DOMAIN lines : lines[i].kind \in kinds})
LEMMA Counts ==
    ASSUME NEW lines
    PROVE  /\ OldCount(lines) = KindCount(lines, {" ", "-", "?"})
           /\ NewCount(lines) = KindCount(lines, {" ", "+", "?"})
  BY DEF OldCount, NewCount, Old, New, KindCount

LEMMA CountSplits ==
    ASSUME NEW E, NEW lines \in Seq(E), NEW kinds, NEW n \in 0 .. Len(lines), NEW m \in 0 .. n
    PROVE  /\ KindCount(SubSeq(lines, 1, n), kinds) =
                 KindCount(SubSeq(lines, 1, m), kinds) + KindCount(SubSeq(lines, m + 1, n), kinds)
           /\ KindCount(SubSeq(lines, 1, m), kinds) \in Nat
           /\ KindCount(SubSeq(lines, m + 1, n), kinds) \in Nat
  <1> DEFINE Of(I) == {i \in I : lines[i].kind \in kinds}
             A == Of(1 .. n)
             B == Of(1 .. m)
             C == Of(m + 1 .. n)
             rest == SubSeq(lines, m + 1, n)
             D == {i \in DOMAIN rest : rest[i].kind \in kinds}
             f == [i \in D |-> i + m]
  <1>1. n \in Nat /\ m \in Nat /\ m <= n /\ n <= Len(lines) /\ Len(lines) \in Nat
    OBVIOUS
  <1>2. ASSUME NEW q \in 0 .. Len(lines)
        PROVE  KindCount(SubSeq(lines, 1, q), kinds) = Cardinality(Of(1 .. q))
    <2>1. /\ DOMAIN SubSeq(lines, 1, q) = 1 .. q
          /\ \A i \in 1 .. q : SubSeq(lines, 1, q)[i] = lines[i]
      OBVIOUS
    <2> QED
      BY <2>1 DEF KindCount
  <1>3. /\ DOMAIN rest = 1 .. n - m
        /\ \A i \in 1 .. n - m : rest[i] = lines[i + m] /\ i + m \in m + 1 .. n
    BY <1>1
  <1>4. IsFiniteSet(1 .. n) /\ IsFiniteSet(1 .. n - m)
    <2>1. n - m \in Nat
      BY <1>1
    <2> HIDE DEF C, D
    <2> QED
      BY <1>1, <2>1, UpToSize
  <1>5. B \subseteq 1 .. n /\ C \subseteq 1 .. n
    BY <1>1
  <1>6. IsFiniteSet(B) /\ IsFiniteSet(C) /\ IsFiniteSet(D)
    <2>1. D \subseteq 1 .. n - m
      BY <1>3
    <2> HIDE DEF B, C, D
    <2> QED
      BY <1>4, <1>5, <2>1, FS_Subset
  <1>7. A = B \cup C /\ B \cap C = {}
    BY <1>1
  <1>8. Cardinality(A) = Cardinality(B) + Cardinality(C)
    <2> HIDE DEF A, B, C
    <2>1. Cardinality(B \cup C) = Cardinality(B) + Cardinality(C) - Cardinality(B \cap C)
      BY <1>6, FS_Union
    <2>2. Cardinality(B \cap C) = 0
      BY <1>7, FS_EmptySet
    <2>3. Cardinality(B) \in Nat /\ Cardinality(C) \in Nat
      BY <1>6, FS_CardinalityType
    <2> QED
      BY <1>7, <2>1, <2>2, <2>3
  <1>9. Cardinality(C) = Cardinality(D)
    <2>1. \A i \in D : i \in 1 .. n - m /\ i + m \in C
      BY <1>3
    <2>2. \A i \in C : i - m \in 1 .. n - m /\ (i - m) + m = i
      BY <1>1
    <2>3. \A i \in C : i - m \in D /\ (i - m) + m = i
      <3>1. \A i \in C : lines[i].kind \in kinds
        OBVIOUS
      <3>2. ASSUME NEW i \in C PROVE i - m \in D /\ (i - m) + m = i
        <4>1. i - m \in 1 .. n - m /\ (i - m) + m = i
          BY <2>2
        <4>2. rest[i - m] = lines[i]
          BY <1>3, <4>1
        <4> QED
          BY <1>3, <3>1, <4>1, <4>2
      <3> QED
        BY <3>2
    <2>4. \A x, y \in D : x + m = y + m => x = y
      <3> HIDE DEF D
      <3> QED
        BY <1>1, <2>1
    <2> HIDE DEF C, D
    <2>5. f \in [D -> C] /\ \A x, y \in D : f[x] = f[y] => x = y
      BY <2>1, <2>4
    <2>6. \A z \in C : \E x \in D : f[x] = z
      BY <2>3
    <2> HIDE DEF f
    <2> QED
      BY <1>6, <2>5, <2>6, SameSize
  <1>10. KindCount(rest, kinds) = Cardinality(D)
    BY DEF KindCount
  <1>11. n \in 0 .. Len(lines) /\ m \in 0 .. Len(lines)
    BY <1>1
  <1>12. Cardinality(B) \in Nat /\ Cardinality(D) \in Nat
    <2> HIDE DEF B, D
    <2> QED
      BY <1>6, FS_CardinalityType
  <1>13. /\ KindCount(SubSeq(lines, 1, n), kinds) = Cardinality(A)
         /\ KindCount(SubSeq(lines, 1, m), kinds) = Cardinality(B)
    BY <1>2, <1>11
  <1> HIDE DEF A, B, C, D, rest
  <1> QED
    BY <1>8, <1>9, <1>10, <1>12, <1>13 DEF rest

(* Where Placed puts a line of a hunk, in the old and in the new file.      *)
PlaceOf(h, i) ==
    <<Cursor(h.old, h.oldCount) + OldCount(SubSeq(h.lines, 1, i - 1)),
      Cursor(h.new, h.newCount) + NewCount(SubSeq(h.lines, 1, i - 1)), h.lines[i]>>

(* A line of the diff is [section, hunk, line]. Those of a file, and those  *)
(* the split has passed.                                                    *)
LinesOf(p) ==
    UNION {UNION {{<<k, j, i>> : i \in DOMAIN Sections[k].hunks[j].lines} :
                     j \in DOMAIN Sections[k].hunks} :
              k \in {n \in DOMAIN Sections : Sections[n].file = p}}
Behind(c, l) ==
    \/ l[1] < c.section
    \/ l[1] = c.section /\ l[2] < c.hunk
    \/ l[1] = c.section /\ l[2] = c.hunk /\ l[3] < c.line
PlaceAt(l) == PlaceOf(Sections[l[1]].hunks[l[2]], l[3])

(* The places of the lines of the fragments of a file.                      *)
PlacesOf(frs, p) == UNION {Placed(f.hunks) : f \in {g \in Range(frs) : g.file = p}}
LaidOut(frs, c) ==
    \A p \in DOMAIN Files : PlacesOf(frs, p) = {PlaceAt(l) : l \in {m \in LinesOf(p) : Behind(c, m)}}

(* The cursors of planSplitSection are at the place of the next line.       *)
AtCursors(c, h, i) ==
    /\ c.old = Cursor(h.old, h.oldCount) + OldCount(SubSeq(h.lines, 1, i - 1))
    /\ c.new = Cursor(h.new, h.newCount) + NewCount(SubSeq(h.lines, 1, i - 1))
CursorsRight(c) == c.hunk # 0 => AtCursors(c, Sections[c.section].hunks[c.hunk], c.line)

(* Git numbers lines from 1, and counts those of a hunk in its header.      *)
Numbered(h) == (h.oldCount # 0 => h.old # 0) /\ (h.newCount # 0 => h.new # 0)
GitWrites ==
    \A s \in Range(Sections) : \A h \in Range(s.hunks) : CountsMatch(h) /\ Numbered(h)
(* Then the anchors of a hunk are at the places of its lines.               *)
Anchorable(h) ==
    /\ (\E i \in DOMAIN h.lines : Old(h.lines[i])) => HunkStart(h.old) = Cursor(h.old, h.oldCount)
    /\ (\E i \in DOMAIN h.lines : New(h.lines[i])) => HunkStart(h.new) = Cursor(h.new, h.newCount)
AllAnchorable(frs) == \A f \in Range(frs) : \A h \in Range(f.hunks) : Anchorable(h)

LinesInv == CursorsRight(at) /\ LaidOut(fragments, at) /\ (GitWrites => AllAnchorable(fragments))

LEMMA SomeCounted ==
    ASSUME NEW E, NEW lines \in Seq(E), NEW S \in SUBSET (DOMAIN lines), NEW n \in S
    PROVE  Cardinality(S) # 0
  <1>1. DOMAIN lines = 1 .. Len(lines) /\ Len(lines) \in Nat
    OBVIOUS
  <1>2. IsFiniteSet(S)
    BY <1>1, UpToSize, FS_Subset
  <1> QED
    BY <1>2, FS_EmptySet

LEMMA PartOfPart ==
    ASSUME NEW E, NEW lines \in Seq(E), NEW i \in Nat \ {0}, NEW e \in i .. Len(lines),
           NEW n \in 1 .. e - i + 1
    PROVE  SubSeq(SubSeq(lines, i, e), 1, n - 1) = SubSeq(lines, i, i + n - 2)
  <1> DEFINE part == SubSeq(lines, i, e)
             a == SubSeq(part, 1, n - 1)
             b == SubSeq(lines, i, i + n - 2)
  <1>1. e \in Nat /\ i <= e /\ e <= Len(lines) /\ Len(lines) \in Nat /\ n \in Nat /\ n >= 1
    OBVIOUS
  <1>2. /\ part \in Seq(E) /\ Len(part) = e - i + 1
        /\ \A m \in 1 .. e - i + 1 : part[m] = lines[i + m - 1]
    BY <1>1
  <1>3. b \in Seq(E) /\ Len(b) = n - 1 /\ \A m \in 1 .. n - 1 : b[m] = lines[i + m - 1]
    BY <1>1
  <1> HIDE DEF part, b
  <1>4. a \in Seq(E) /\ Len(a) = n - 1 /\ \A m \in 1 .. n - 1 : a[m] = part[m]
    BY <1>1, <1>2
  <1>5. \A m \in 1 .. n - 1 : m \in 1 .. e - i + 1
    BY <1>1
  <1> HIDE DEF a
  <1>6. Len(a) = Len(b) /\ \A m \in 1 .. Len(a) : a[m] = b[m]
    BY <1>2, <1>3, <1>4, <1>5
  <1>7. a = b
    BY <1>3, <1>4, <1>6, EqualSeqs
  <1> QED
    BY <1>7 DEF a, b, part

LEMMA PlacedIs ==
    ASSUME NEW hunks
    PROVE  Placed(hunks) = UNION {{PlaceOf(h, i) : i \in DOMAIN h.lines} : h \in Range(hunks)}
  BY DEF Placed, PlaceOf

(* A rebuilt header keeps the cursor.                                       *)
LEMMA RebuiltKeeps ==
    ASSUME NEW cursor \in Int, NEW count \in Nat
    PROVE  Cursor(Rebuilt(cursor, count), count) = cursor
  BY DEF Cursor, Rebuilt

(* The lines of a part of a hunk are where those of the hunk are.           *)
IsPart(c, h, i, e) ==
    /\ c.lines = SubSeq(h.lines, i, e)
    /\ Cursor(c.old, c.oldCount) =
          Cursor(h.old, h.oldCount) + OldCount(SubSeq(h.lines, 1, i - 1))
    /\ Cursor(c.new, c.newCount) =
          Cursor(h.new, h.newCount) + NewCount(SubSeq(h.lines, 1, i - 1))
Stays(c, h, i, e) == {PlaceOf(c, n) : n \in DOMAIN c.lines} = {PlaceOf(h, n) : n \in i .. e}
LEMMA PartPlaced ==
    ASSUME NEW h, h.lines \in Seq(BodyLine), h.old \in Nat, h.new \in Nat,
           NEW i \in Nat \ {0}, NEW e \in i .. Len(h.lines), NEW c, IsPart(c, h, i, e)
    PROVE  Stays(c, h, i, e)
  <1> USE DEF IsPart
  <1> DEFINE lines == h.lines
             part == c.lines
             start == Cursor(h.old, h.oldCount)
             begin == Cursor(h.new, h.newCount)
  <1>1. e \in Nat /\ i <= e /\ e <= Len(lines) /\ Len(lines) \in Nat
    OBVIOUS
  <1>8. lines \in Seq(BodyLine) /\ e \in i .. Len(lines) /\ part = SubSeq(lines, i, e)
    OBVIOUS
  <1>2. start \in Int /\ begin \in Int
    BY DEF Cursor
  <1>3. DOMAIN part = 1 .. e - i + 1 /\ \A n \in 1 .. e - i + 1 : part[n] = lines[i + n - 1]
    BY <1>1
  <1> HIDE DEF start, begin
  <1>4. ASSUME NEW n \in 1 .. e - i + 1
        PROVE  PlaceOf(c, n) = PlaceOf(h, i + n - 1) /\ i + n - 1 \in i .. e
    <2> DEFINE q == (i + n - 1) - 1
               m == i - 1
    <2>1. q \in 0 .. Len(lines) /\ m \in 0 .. q /\ m + 1 = i /\ i + n - 1 \in i .. e
      BY <1>1
    <2>2. SubSeq(part, 1, n - 1) = SubSeq(lines, m + 1, q)
      <3>1. m + 1 = i /\ q = i + n - 2
        BY <1>1
      <3>2. SubSeq(part, 1, n - 1) = SubSeq(lines, i, i + n - 2)
        BY <1>8, PartOfPart
      <3> QED
        BY <3>1, <3>2
    <2> HIDE DEF q
    <2>3. ASSUME NEW kinds
          PROVE  /\ KindCount(SubSeq(lines, 1, q), kinds) =
                       KindCount(SubSeq(lines, 1, m), kinds) + KindCount(SubSeq(part, 1, n - 1), kinds)
                 /\ KindCount(SubSeq(lines, 1, m), kinds) \in Nat
                 /\ KindCount(SubSeq(part, 1, n - 1), kinds) \in Nat
      <3> HIDE DEF m, part, lines
      <3>1. /\ KindCount(SubSeq(lines, 1, q), kinds) =
                  KindCount(SubSeq(lines, 1, m), kinds) + KindCount(SubSeq(lines, m + 1, q), kinds)
            /\ KindCount(SubSeq(lines, 1, m), kinds) \in Nat
            /\ KindCount(SubSeq(lines, m + 1, q), kinds) \in Nat
        BY <1>8, <2>1, CountSplits
      <3> QED
        BY <2>2, <3>1
    <2>4. /\ OldCount(SubSeq(lines, 1, q)) =
                OldCount(SubSeq(lines, 1, m)) + OldCount(SubSeq(part, 1, n - 1))
          /\ OldCount(SubSeq(lines, 1, m)) \in Nat /\ OldCount(SubSeq(part, 1, n - 1)) \in Nat
      BY <2>3, Counts
    <2>5. /\ NewCount(SubSeq(lines, 1, q)) =
                NewCount(SubSeq(lines, 1, m)) + NewCount(SubSeq(part, 1, n - 1))
          /\ NewCount(SubSeq(lines, 1, m)) \in Nat /\ NewCount(SubSeq(part, 1, n - 1)) \in Nat
      BY <2>3, Counts
    <2> DEFINE a == OldCount(SubSeq(lines, 1, m))
               b == OldCount(SubSeq(part, 1, n - 1))
               u == NewCount(SubSeq(lines, 1, m))
               v == NewCount(SubSeq(part, 1, n - 1))
    <2>6. PlaceOf(c, n) = <<(start + a) + b, (begin + u) + v, part[n]>>
      BY DEF PlaceOf, start, begin
    <2>7. PlaceOf(h, i + n - 1) =
             <<start + OldCount(SubSeq(lines, 1, q)), begin + NewCount(SubSeq(lines, 1, q)),
               lines[i + n - 1]>>
      BY DEF PlaceOf, start, begin, q
    <2>8. part[n] = lines[i + n - 1]
      BY <1>3
    <2>9. a \in Nat /\ b \in Nat /\ u \in Nat /\ v \in Nat
      BY <2>4, <2>5
    <2>10. PlaceOf(h, i + n - 1) = <<start + (a + b), begin + (u + v), lines[i + n - 1]>>
      BY <2>4, <2>5, <2>7
    <2> HIDE DEF a, b, u, v, part, lines
    <2>11. (start + a) + b = start + (a + b) /\ (begin + u) + v = begin + (u + v)
      BY <1>2, <2>9
    <2> QED
      BY <2>1, <2>6, <2>8, <2>10, <2>11
  <1>5. ASSUME NEW n \in i .. e
        PROVE  n - i + 1 \in 1 .. e - i + 1 /\ i + (n - i + 1) - 1 = n
    BY <1>1
  <1>6. ASSUME NEW x PROVE x \in {PlaceOf(c, n) : n \in DOMAIN part} <=> x \in {PlaceOf(h, n) : n \in i .. e}
    <2>1. ASSUME NEW n \in DOMAIN part, x = PlaceOf(c, n) PROVE \E m \in i .. e : x = PlaceOf(h, m)
      BY <1>3, <1>4, <2>1
    <2>2. ASSUME NEW n \in i .. e, x = PlaceOf(h, n) PROVE \E m \in DOMAIN part : x = PlaceOf(c, m)
      <3> DEFINE m == n - i + 1
      <3>1. m \in 1 .. e - i + 1 /\ i + m - 1 = n
        BY <1>5
      <3> HIDE DEF m
      <3>2. PlaceOf(c, m) = PlaceOf(h, n)
        BY <1>4, <3>1
      <3> QED
        BY <1>3, <2>2, <3>1, <3>2
    <2> QED
      BY <2>1, <2>2
  <1> HIDE DEF part
  <1>7. {PlaceOf(c, n) : n \in DOMAIN part} = {PlaceOf(h, n) : n \in i .. e}
    BY <1>6
  <1> QED
    BY <1>7 DEF part, Stays

LEMMA CursorIs ==
    \A first, count \in Nat :
        Cursor(first, count) \in Nat /\ ((count # 0 => first # 0) => Cursor(first, count) # 0)
  BY DEF Cursor

(* A chunk that starts at the cursors keeps the places of its lines, and    *)
(* anchors them, as no line has number 0.                                   *)
LEMMA ChunkPlaced ==
    ASSUME input \in Selections, NEW k \in 1 .. Len(Sections),
           NEW j \in 1 .. Len(Sections[k].hunks), NEW i \in Nat \ {0},
           NEW e \in i .. Len(Sections[k].hunks[j].lines), AtCursors(at, Sections[k].hunks[j], i)
    PROVE  /\ Placed(Chunk(k, j, i, e).hunks) = {PlaceOf(Sections[k].hunks[j], n) : n \in i .. e}
           /\ Numbered(Sections[k].hunks[j]) =>
                 \A c \in Range(Chunk(k, j, i, e).hunks) : Anchorable(c)
           /\ Chunk(k, j, i, e).file = Sections[k].file
  <1> DEFINE h == Sections[k].hunks[j]
             part == SubSeq(h.lines, i, e)
             c == [old |-> Rebuilt(at.old, OldCount(part)), oldCount |-> OldCount(part),
                   new |-> Rebuilt(at.new, NewCount(part)), newCount |-> NewCount(part),
                   suffix |-> h.suffix, lines |-> part]
             start == Cursor(h.old, h.oldCount)
             begin == Cursor(h.new, h.newCount)
             olds == OldCount(SubSeq(h.lines, 1, i - 1))
             news == NewCount(SubSeq(h.lines, 1, i - 1))
  <1>1. h \in Hunks
    BY SelectionFields, SectionFields
  <1>2. /\ h.lines \in Seq(BodyLine) /\ h.old \in Nat /\ h.new \in Nat
        /\ h.oldCount \in Nat /\ h.newCount \in Nat
    BY <1>1, HunkFields DEF IsHunk
  <1>3. Chunk(k, j, i, e).hunks = <<c>> /\ Chunk(k, j, i, e).file = Sections[k].file
    BY DEF Chunk
  <1>4. /\ c.lines = part /\ c.oldCount = OldCount(part) /\ c.newCount = NewCount(part)
        /\ c.old = Rebuilt(at.old, OldCount(part)) /\ c.new = Rebuilt(at.new, NewCount(part))
    OBVIOUS
  <1>5. e \in i .. Len(h.lines) /\ AtCursors(at, h, i)
    OBVIOUS
  <1> HIDE DEF c, h
  <1>6. e \in Nat /\ i <= e /\ e <= Len(h.lines) /\ Len(h.lines) \in Nat
    BY <1>2, <1>5
  <1>7. ASSUME NEW kinds
        PROVE  /\ KindCount(SubSeq(h.lines, 1, i - 1), kinds) \in Nat
               /\ KindCount(part, kinds) \in Nat
    <2> DEFINE m == i - 1
    <2>1. e \in 0 .. Len(h.lines) /\ m \in 0 .. e /\ m + 1 = i
      BY <1>6
    <2> HIDE DEF m
    <2>2. /\ KindCount(SubSeq(h.lines, 1, m), kinds) \in Nat
          /\ KindCount(SubSeq(h.lines, m + 1, e), kinds) \in Nat
      BY <1>2, <2>1, CountSplits
    <2> QED
      BY <2>1, <2>2 DEF m
  <1>8. olds \in Nat /\ news \in Nat /\ OldCount(part) \in Nat /\ NewCount(part) \in Nat
    BY <1>7, Counts
  <1>9. start \in Nat /\ begin \in Nat /\ (Numbered(h) => start # 0 /\ begin # 0)
    <2>1. start \in Nat /\ ((h.oldCount # 0 => h.old # 0) => start # 0)
      BY <1>2, CursorIs, Zenon
    <2>2. begin \in Nat /\ ((h.newCount # 0 => h.new # 0) => begin # 0)
      BY <1>2, CursorIs, Zenon
    <2> QED
      BY <2>1, <2>2, Zenon DEF Numbered
  <1>10. at.old = start + olds /\ at.new = begin + news
    BY <1>5 DEF AtCursors
  <1>11. part \in Seq(BodyLine)
    BY <1>2, <1>6
  <1> HIDE DEF start, begin, olds, news, part
  <1>12. /\ at.old \in Nat /\ at.new \in Nat
         /\ Numbered(h) => at.old # 0 /\ at.new # 0
    BY <1>8, <1>9, <1>10
  <1>13. Cursor(c.old, c.oldCount) = at.old /\ Cursor(c.new, c.newCount) = at.new
    BY <1>4, <1>8, <1>12, RebuiltKeeps
  <1>14. {PlaceOf(c, n) : n \in DOMAIN c.lines} = {PlaceOf(h, n) : n \in i .. e}
    <2>1. c.lines = SubSeq(h.lines, i, e)
      BY <1>4 DEF part
    <2>2. /\ Cursor(c.old, c.oldCount) =
               Cursor(h.old, h.oldCount) + OldCount(SubSeq(h.lines, 1, i - 1))
          /\ Cursor(c.new, c.newCount) =
               Cursor(h.new, h.newCount) + NewCount(SubSeq(h.lines, 1, i - 1))
      BY <1>10, <1>13 DEF start, begin, olds, news
    <2>3. IsPart(c, h, i, e)
      BY <2>1, <2>2 DEF IsPart
    <2>4. Stays(c, h, i, e)
      BY <1>2, <1>5, <2>3, PartPlaced
    <2> QED
      BY <2>4 DEF Stays
  <1>15. Range(<<c>>) = {c}
    BY DEF Range
  <1>16. Placed(<<c>>) = {PlaceOf(h, n) : n \in i .. e}
    <2>1. Placed(<<c>>) = UNION {{PlaceOf(x, n) : n \in DOMAIN x.lines} : x \in Range(<<c>>)}
      BY PlacedIs
    <2>2. Placed(<<c>>) = {PlaceOf(c, n) : n \in DOMAIN c.lines}
      BY <1>15, <2>1
    <2> QED
      BY <1>14, <2>2
  <1>17. ASSUME Numbered(h) PROVE Anchorable(c)
    <2>1. at.old # 0 /\ at.new # 0
      BY <1>12, <1>17
    <2>2. ASSUME NEW n \in DOMAIN c.lines, Old(c.lines[n]) PROVE c.oldCount # 0
      <3> DEFINE S == {m \in DOMAIN part : Old(part[m])}
      <3>1. n \in S /\ S \in SUBSET (DOMAIN part)
        BY <1>4, <2>2
      <3> HIDE DEF S
      <3>2. Cardinality(S) # 0
        BY <1>11, <3>1, SomeCounted
      <3> QED
        BY <1>4, <3>2 DEF S, OldCount
    <2>3. ASSUME NEW n \in DOMAIN c.lines, New(c.lines[n]) PROVE c.newCount # 0
      <3> DEFINE S == {m \in DOMAIN part : New(part[m])}
      <3>1. n \in S /\ S \in SUBSET (DOMAIN part)
        BY <1>4, <2>3
      <3> HIDE DEF S
      <3>2. Cardinality(S) # 0
        BY <1>11, <3>1, SomeCounted
      <3> QED
        BY <1>4, <3>2 DEF S, NewCount
    <2>4. c.oldCount # 0 => HunkStart(c.old) = Cursor(c.old, c.oldCount)
      BY <1>4, <2>1 DEF HunkStart, Cursor, Rebuilt
    <2>5. c.newCount # 0 => HunkStart(c.new) = Cursor(c.new, c.newCount)
      BY <1>4, <2>1 DEF HunkStart, Cursor, Rebuilt
    <2> QED
      BY <2>2, <2>3, <2>4, <2>5 DEF Anchorable
  <1>18. Numbered(h) => \A x \in Range(<<c>>) : Anchorable(x)
    BY <1>15, <1>17
  <1> QED
    BY <1>3, <1>16, <1>18 DEF h

LEMMA LineIs ==
    ASSUME NEW p, NEW l \in LinesOf(p)
    PROVE  /\ l = <<l[1], l[2], l[3]>> /\ l[1] \in DOMAIN Sections /\ Sections[l[1]].file = p
           /\ l[2] \in DOMAIN Sections[l[1]].hunks
           /\ l[3] \in DOMAIN Sections[l[1]].hunks[l[2]].lines
  <1>1. PICK k \in {n \in DOMAIN Sections : Sections[n].file = p} :
            \E j \in DOMAIN Sections[k].hunks :
               l \in {<<k, j, i>> : i \in DOMAIN Sections[k].hunks[j].lines}
    BY DEF LinesOf
  <1>2. PICK j \in DOMAIN Sections[k].hunks :
            l \in {<<k, j, i>> : i \in DOMAIN Sections[k].hunks[j].lines}
    BY <1>1
  <1>3. PICK i \in DOMAIN Sections[k].hunks[j].lines : l = <<k, j, i>>
    BY <1>2
  <1> QED
    BY <1>1, <1>2, <1>3

LEMMA LineIn ==
    ASSUME NEW k \in DOMAIN Sections, NEW j \in DOMAIN Sections[k].hunks,
           NEW i \in DOMAIN Sections[k].hunks[j].lines
    PROVE  <<k, j, i>> \in LinesOf(Sections[k].file)
  BY DEF LinesOf

LEMMA AppendRange ==
    ASSUME NEW frs \in Seq(Fragment), NEW f \in Fragment
    PROVE  Range(Append(frs, f)) = Range(frs) \cup {f}
  <1> DEFINE next == Append(frs, f)
  <1>1. /\ Len(frs) \in Nat /\ DOMAIN frs = 1 .. Len(frs) /\ DOMAIN next = 1 .. Len(frs) + 1
        /\ \A n \in 1 .. Len(frs) : next[n] = frs[n]
        /\ next[Len(frs) + 1] = f
    OBVIOUS
  <1>2. \A n \in 1 .. Len(frs) + 1 : n \in 1 .. Len(frs) \/ n = Len(frs) + 1
    BY <1>1
  <1>3. \A n \in 1 .. Len(frs) : n \in 1 .. Len(frs) + 1
    BY <1>1
  <1>4. Len(frs) + 1 \in 1 .. Len(frs) + 1
    BY <1>1
  <1> HIDE DEF next
  <1>5. ASSUME NEW x \in Range(next) PROVE x \in Range(frs) \cup {f}
    BY <1>1, <1>2 DEF Range
  <1>6. ASSUME NEW x \in Range(frs) \cup {f} PROVE x \in Range(next)
    BY <1>1, <1>3, <1>4 DEF Range
  <1>7. Range(next) = Range(frs) \cup {f}
    BY <1>5, <1>6
  <1> QED
    BY <1>7 DEF next

(* A fragment adds the lines the split passes with it.                      *)
Passes(lines, c, d) ==
    \A p \in DOMAIN Files : \A m \in LinesOf(p) : Behind(d, m) <=> Behind(c, m) \/ m \in lines
LEMMA LaidNext ==
    ASSUME NEW frs \in Seq(Fragment), NEW f \in Fragment, NEW c, NEW d, LaidOut(frs, c),
           NEW lines \in SUBSET LinesOf(f.file), Placed(f.hunks) = {PlaceAt(l) : l \in lines},
           Passes(lines, c, d)
    PROVE  LaidOut(Append(frs, f), d)
  <1> DEFINE next == Append(frs, f)
             Done(p) == {m \in LinesOf(p) : Behind(c, m)}
             Then(p) == {m \in LinesOf(p) : Behind(d, m)}
  <1>1. Range(next) = Range(frs) \cup {f}
    BY AppendRange
  <1> HIDE DEF next
  <1>2. ASSUME NEW p \in DOMAIN Files PROVE PlacesOf(next, p) = {PlaceAt(l) : l \in Then(p)}
    <2>1. PlacesOf(frs, p) = {PlaceAt(l) : l \in Done(p)}
      BY DEF LaidOut
    <2>2. \A m \in LinesOf(p) : Behind(d, m) <=> Behind(c, m) \/ m \in lines
      BY DEF Passes
    <2>3. CASE f.file = p
      <3>1. PlacesOf(next, p) = PlacesOf(frs, p) \cup Placed(f.hunks)
        BY <1>1, <2>3 DEF PlacesOf
      <3>2. Then(p) = Done(p) \cup lines
        BY <2>2, <2>3
      <3> HIDE DEF Then, Done
      <3>3. {PlaceAt(l) : l \in Then(p)} = {PlaceAt(l) : l \in Done(p)} \cup {PlaceAt(l) : l \in lines}
        BY <3>2
      <3> QED
        BY <2>1, <3>1, <3>3
    <2>4. CASE f.file # p
      <3>1. PlacesOf(next, p) = PlacesOf(frs, p)
        BY <1>1, <2>4 DEF PlacesOf
      <3>2. \A m \in LinesOf(p) : m \notin lines
        BY <2>4, LineIs
      <3>3. Then(p) = Done(p)
        BY <2>2, <3>2
      <3> QED
        BY <2>1, <3>1, <3>3
    <2> QED
      BY <2>3, <2>4
  <1> QED
    BY <1>2 DEF LaidOut, next

LEMMA LaidSame ==
    ASSUME NEW frs, NEW c, NEW d, LaidOut(frs, c), Passes({}, c, d)
    PROVE  LaidOut(frs, d)
  <1>1. ASSUME NEW p \in DOMAIN Files
        PROVE  {m \in LinesOf(p) : Behind(d, m)} = {m \in LinesOf(p) : Behind(c, m)}
    BY DEF Passes
  <1> QED
    BY <1>1 DEF LaidOut

(* Numbers of sections, hunks and lines.                                    *)
LEMMA LineNumbers ==
    ASSUME input \in Selections, NEW p, NEW l \in LinesOf(p)
    PROVE  /\ l[1] \in 1 .. Len(Sections) /\ Len(Sections) \in Nat
           /\ l[2] \in 1 .. Len(Sections[l[1]].hunks) /\ Len(Sections[l[1]].hunks) \in Nat
           /\ l[3] \in 1 .. Len(Sections[l[1]].hunks[l[2]].lines)
           /\ Len(Sections[l[1]].hunks[l[2]].lines) \in Nat
           /\ l[1] \in Nat /\ l[2] \in Nat /\ l[2] > 0 /\ l[3] \in Nat /\ l[3] > 0
  <1> DEFINE s == Sections[l[1]]
             h == s.hunks[l[2]]
  <1>1. Sections \in Seq(FileSection) /\ Len(Sections) \in Nat /\ DOMAIN Sections = 1 .. Len(Sections)
    <2>1. Sections \in Seq(FileSection)
      BY SelectionFields
    <2> HIDE DEF FileSection
    <2> QED
      BY <2>1
  <1>2. l[1] \in DOMAIN Sections /\ l[2] \in DOMAIN s.hunks /\ l[3] \in DOMAIN h.lines
    BY LineIs
  <1>3. s \in FileSection
    BY <1>1, <1>2, SelectionFields
  <1> HIDE DEF s
  <1>4. DOMAIN s.hunks = 1 .. Len(s.hunks) /\ Len(s.hunks) \in Nat
    BY <1>3, SectionFields
  <1>5. h \in Hunks
    BY <1>2, <1>3, <1>4, SectionFields
  <1> HIDE DEF h
  <1>6. h.lines \in Seq(BodyLine)
    BY <1>5, HunkFields DEF IsHunk
  <1>7. DOMAIN h.lines = 1 .. Len(h.lines) /\ Len(h.lines) \in Nat
    <2> HIDE DEF BodyLine
    <2> QED
      BY <1>6
  <1>8. l[1] \in Nat
    BY <1>1, <1>2
  <1>9. l[2] \in Nat /\ l[2] > 0
    BY <1>2, <1>4
  <1>10. l[3] \in Nat /\ l[3] > 0
    BY <1>2, <1>7
  <1> QED
    BY <1>1, <1>2, <1>4, <1>7, <1>8, <1>9, <1>10 DEF s, h

(* A whole section.                                                         *)
InSection(k) == {m \in LinesOf(Sections[k].file) : m[1] = k}
LEMMA SectionPlaced ==
    ASSUME NEW k \in DOMAIN Sections
    PROVE  Placed(Sections[k].hunks) = {PlaceAt(l) : l \in InSection(k)}
  <1> DEFINE s == Sections[k]
             places == UNION {{PlaceOf(h, i) : i \in DOMAIN h.lines} : h \in Range(s.hunks)}
  <1>1. Placed(s.hunks) = places
    BY PlacedIs
  <1>2. ASSUME NEW x \in places PROVE x \in {PlaceAt(l) : l \in InSection(k)}
    <2>1. PICK j \in DOMAIN s.hunks : x \in {PlaceOf(s.hunks[j], i) : i \in DOMAIN s.hunks[j].lines}
      BY DEF Range
    <2>2. PICK i \in DOMAIN s.hunks[j].lines : x = PlaceOf(s.hunks[j], i)
      BY <2>1
    <2>3. <<k, j, i>> \in LinesOf(s.file)
      BY LineIn
    <2>4. <<k, j, i>> \in InSection(k)
      BY <2>3 DEF InSection
    <2>5. PlaceAt(<<k, j, i>>) = x
      BY <2>2 DEF PlaceAt
    <2> QED
      BY <2>4, <2>5
  <1>3. ASSUME NEW x \in {PlaceAt(l) : l \in InSection(k)} PROVE x \in places
    <2>1. PICK l \in InSection(k) : x = PlaceAt(l)
      OBVIOUS
    <2>2. l \in LinesOf(s.file) /\ l[1] = k
      BY DEF InSection
    <2>3. l[2] \in DOMAIN s.hunks /\ l[3] \in DOMAIN s.hunks[l[2]].lines
      BY <2>2, LineIs
    <2>4. s.hunks[l[2]] \in Range(s.hunks) /\ x = PlaceOf(s.hunks[l[2]], l[3])
      BY <2>1, <2>2, <2>3 DEF Range, PlaceAt
    <2> QED
      BY <2>3, <2>4
  <1> HIDE DEF places
  <1>4. places = {PlaceAt(l) : l \in InSection(k)}
    BY <1>2, <1>3
  <1> QED
    BY <1>1, <1>4

LEMMA PassSection ==
    ASSUME input \in Selections, NEW k \in 1 .. Len(Sections),
           NEW c, c.section = k, c.hunk = 0
    PROVE  Passes(InSection(k), c, AtSection(k + 1)) /\ Passes({}, c, AtHunk(k, 1))
  <1>1. ASSUME NEW p \in DOMAIN Files, NEW m \in LinesOf(p)
        PROVE  /\ Behind(AtSection(k + 1), m) <=> Behind(c, m) \/ m \in InSection(k)
               /\ Behind(AtHunk(k, 1), m) <=> Behind(c, m)
    <2>1. m[1] \in Nat /\ m[2] \in Nat /\ m[2] > 0 /\ m[3] \in Nat /\ m[3] > 0
      BY LineNumbers
    <2>2. k \in Nat
      BY SelectionFields
    <2>3. Behind(c, m) <=> m[1] < k
      BY <2>1, <2>2 DEF Behind
    <2>4. /\ AtSection(k + 1).section = k + 1 /\ AtSection(k + 1).hunk = 0
          /\ AtHunk(k, 1).section = k /\ AtHunk(k, 1).hunk = 1 /\ AtHunk(k, 1).line = 1
      BY DEF AtSection, AtHunk
    <2>5. Behind(AtSection(k + 1), m) <=> m[1] < k + 1
      BY <2>1, <2>2, <2>4 DEF Behind
    <2>6. Behind(AtHunk(k, 1), m) <=> m[1] < k
      BY <2>1, <2>2, <2>4 DEF Behind
    <2>7. m \in InSection(k) <=> m[1] = k
      <3>1. p = Sections[m[1]].file
        BY LineIs
      <3> QED
        BY <3>1 DEF InSection
    <2> QED
      BY <2>1, <2>2, <2>3, <2>5, <2>6, <2>7
  <1> QED
    BY <1>1 DEF Passes

(* The lines of a chunk.                                                    *)
InChunk(k, j, i, e) == {<<k, j, n>> : n \in i .. e}
LEMMA ChunkPlaces ==
    ASSUME NEW k, NEW j, NEW i, NEW e
    PROVE  {PlaceAt(l) : l \in InChunk(k, j, i, e)} =
              {PlaceOf(Sections[k].hunks[j], n) : n \in i .. e}
  <1>1. \A n \in i .. e : PlaceAt(<<k, j, n>>) = PlaceOf(Sections[k].hunks[j], n)
    BY DEF PlaceAt
  <1>2. ASSUME NEW x
        PROVE  x \in {PlaceAt(l) : l \in InChunk(k, j, i, e)} <=> \E n \in i .. e : x = PlaceAt(<<k, j, n>>)
    BY DEF InChunk
  <1>3. ASSUME NEW x
        PROVE  x \in {PlaceAt(l) : l \in InChunk(k, j, i, e)}
                 <=> x \in {PlaceOf(Sections[k].hunks[j], n) : n \in i .. e}
    <2>1. (\E n \in i .. e : x = PlaceAt(<<k, j, n>>))
             <=> \E n \in i .. e : x = PlaceOf(Sections[k].hunks[j], n)
      BY <1>1
    <2>2. x \in {PlaceOf(Sections[k].hunks[j], n) : n \in i .. e}
             <=> \E n \in i .. e : x = PlaceOf(Sections[k].hunks[j], n)
      BY Zenon
    <2> QED
      BY <1>2, <2>1, <2>2
  <1> QED
    BY <1>3

LEMMA PassChunk ==
    ASSUME input \in Selections, NEW k \in 1 .. Len(Sections),
           NEW j \in 1 .. Len(Sections[k].hunks), NEW i \in Nat \ {0},
           NEW e \in i .. Len(Sections[k].hunks[j].lines),
           NEW c, c.section = k, c.hunk = j, c.line = i, NEW d,
           \/ d.section = k /\ d.hunk = j /\ d.line = e + 1
           \/ d = AfterHunk(k, j) /\ e = Len(Sections[k].hunks[j].lines)
    PROVE  /\ InChunk(k, j, i, e) \in SUBSET LinesOf(Sections[k].file)
           /\ Passes(InChunk(k, j, i, e), c, d)
  <1> DEFINE s == Sections[k]
             lines == s.hunks[j].lines
  <1>1. /\ k \in DOMAIN Sections /\ j \in DOMAIN s.hunks /\ DOMAIN lines = 1 .. Len(lines)
        /\ k \in Nat /\ j \in Nat /\ Len(lines) \in Nat /\ Len(s.hunks) \in Nat
    <2>1. Sections \in Seq(FileSection) /\ Len(Sections) \in Nat /\ s \in FileSection
      BY SelectionFields
    <2>2. s.hunks \in Seq(Hunks) /\ Len(s.hunks) \in Nat /\ s.hunks[j] \in Hunks
      BY <2>1, SectionFields
    <2>3. lines \in Seq(BodyLine)
      BY <2>2, HunkFields DEF IsHunk
    <2>4. k \in DOMAIN Sections /\ k \in Nat
      <3> HIDE DEF FileSection
      <3> QED
        BY <2>1
    <2>5. j \in DOMAIN s.hunks /\ j \in Nat
      <3>1. DOMAIN s.hunks = 1 .. Len(s.hunks) /\ j \in 1 .. Len(s.hunks)
        BY <2>1, SectionFields
      <3> QED
        BY <3>1
    <2> HIDE DEF lines
    <2>6. DOMAIN lines = 1 .. Len(lines) /\ Len(lines) \in Nat
      BY <2>3
    <2> QED
      BY <2>2, <2>4, <2>5, <2>6 DEF lines
  <1>2. e \in Nat /\ i <= e /\ e <= Len(lines) /\ \A n \in i .. e : n \in DOMAIN lines
    <2>1. e \in i .. Len(lines)
      OBVIOUS
    <2> HIDE DEF lines
    <2> QED
      BY <1>1, <2>1
  <1>3. InChunk(k, j, i, e) \in SUBSET LinesOf(s.file)
    BY <1>1, <1>2, LineIn DEF InChunk
  <1>4. ASSUME NEW p \in DOMAIN Files, NEW m \in LinesOf(p)
        PROVE  Behind(d, m) <=> Behind(c, m) \/ m \in InChunk(k, j, i, e)
    <2>1. /\ m = <<m[1], m[2], m[3]>> /\ m[1] \in Nat /\ m[2] \in Nat /\ m[2] > 0
          /\ m[3] \in Nat /\ m[3] > 0
          /\ m[1] = k => m[2] <= Len(s.hunks)
          /\ m[1] = k /\ m[2] = j => m[3] <= Len(lines)
      <3>1. /\ m[2] \in 1 .. Len(Sections[m[1]].hunks) /\ Len(Sections[m[1]].hunks) \in Nat
            /\ m[3] \in 1 .. Len(Sections[m[1]].hunks[m[2]].lines)
            /\ Len(Sections[m[1]].hunks[m[2]].lines) \in Nat
        BY LineNumbers
      <3>2. m[1] \in Nat /\ m[2] \in Nat /\ m[2] > 0 /\ m[3] \in Nat /\ m[3] > 0
        BY LineNumbers
      <3>3. m[1] = k => m[2] <= Len(s.hunks)
        BY <3>1
      <3>4. m[1] = k /\ m[2] = j => m[3] <= Len(lines)
        BY <3>1
      <3> QED
        BY <3>2, <3>3, <3>4, LineIs
    <2>2. m \in InChunk(k, j, i, e) <=> m[1] = k /\ m[2] = j /\ m[3] \in i .. e
      BY <2>1 DEF InChunk
    <2> HIDE DEF lines, s
    <2>3. m[3] \in i .. e <=> i <= m[3] /\ m[3] <= e
      BY <1>2, <2>1
    <2>4. Behind(c, m) <=> \/ m[1] < k
                           \/ m[1] = k /\ m[2] < j
                           \/ m[1] = k /\ m[2] = j /\ m[3] < i
      BY DEF Behind
    <2>5. CASE d.section = k /\ d.hunk = j /\ d.line = e + 1
      <3>1. Behind(d, m) <=> \/ m[1] < k
                             \/ m[1] = k /\ m[2] < j
                             \/ m[1] = k /\ m[2] = j /\ m[3] < e + 1
        BY <2>5 DEF Behind
      <3>2. m[3] < e + 1 <=> m[3] < i \/ (i <= m[3] /\ m[3] <= e)
        BY <1>2, <2>1
      <3> QED
        BY <2>2, <2>3, <2>4, <3>1, <3>2
    <2>6. CASE d = AfterHunk(k, j) /\ e = Len(lines)
      <3>1. m[1] = k /\ m[2] = j => (m[3] < i \/ (i <= m[3] /\ m[3] <= e))
        BY <1>1, <2>1, <2>6
      <3>2. Behind(c, m) \/ m \in InChunk(k, j, i, e)
               <=> m[1] < k \/ (m[1] = k /\ m[2] < j) \/ (m[1] = k /\ m[2] = j)
        BY <2>2, <2>3, <2>4, <3>1
      <3>3. Behind(d, m) <=> m[1] < k \/ (m[1] = k /\ m[2] < j) \/ (m[1] = k /\ m[2] = j)
        <4>1. CASE j < Len(s.hunks)
          <5>1. d.section = k /\ d.hunk = j + 1 /\ d.line = 1
            BY <2>6, <4>1 DEF AfterHunk, AtHunk, s
          <5>2. Behind(d, m) <=> \/ m[1] < k
                                 \/ m[1] = k /\ m[2] < j + 1
                                 \/ m[1] = k /\ m[2] = j + 1 /\ m[3] < 1
            BY <5>1 DEF Behind
          <5>3. ~(m[3] < 1) /\ (m[2] < j + 1 <=> m[2] < j \/ m[2] = j)
            <6>1. \A a, b \in Nat : a < b + 1 <=> a < b \/ a = b
              OBVIOUS
            <6>2. \A a \in Nat : a > 0 => ~(a < 1)
              OBVIOUS
            <6>3. m[2] \in Nat /\ m[3] \in Nat /\ m[3] > 0 /\ j \in Nat
              BY <1>1, <2>1, Zenon
            <6> QED
              BY <6>1, <6>2, <6>3, Zenon
          <5> QED
            BY <5>2, <5>3
        <4>2. CASE ~(j < Len(s.hunks))
          <5>1. d.section = k + 1 /\ d.hunk = 0
            BY <2>6, <4>2 DEF AfterHunk, AtSection, s
          <5>2. Behind(d, m) <=> \/ m[1] < k + 1
                                 \/ m[1] = k + 1 /\ m[2] < 0
                                 \/ m[1] = k + 1 /\ m[2] = 0 /\ m[3] < d.line
            BY <5>1 DEF Behind
          <5>3. ~(m[2] < 0) /\ m[2] # 0
            BY <2>1
          <5>4. m[1] < k + 1 <=> m[1] < k \/ m[1] = k
            <6>1. \A a, b \in Nat : a < b + 1 <=> a < b \/ a = b
              OBVIOUS
            <6> QED
              BY <1>1, <2>1, <6>1
          <5>5. m[1] = k => m[2] < j \/ m[2] = j
            BY <1>1, <2>1, <4>2
          <5> QED
            BY <5>2, <5>3, <5>4, <5>5
        <4> QED
          BY <4>1, <4>2
      <3> QED
        BY <3>2, <3>3
    <2> QED
      BY <2>5, <2>6 DEF lines, s
  <1>5. Passes(InChunk(k, j, i, e), c, d)
    BY <1>4 DEF Passes
  <1> QED
    BY <1>3, <1>5

(* Anchors, from the places of lines.                                       *)
AnchorsOf(places) ==
    {<<"old", x[1], x[3]>> : x \in {y \in places : Old(y[3])}}
      \cup {<<"new", x[2], x[3]>> : x \in {y \in places : New(y[3])}}
PlacesIn(h) == {PlaceOf(h, i) : i \in DOMAIN h.lines}

LEMMA AnchoredIs ==
    ASSUME NEW h, Anchorable(h)
    PROVE  Anchored(h) = AnchorsOf(PlacesIn(h))
  <1> DEFINE olds == {i \in DOMAIN h.lines : Old(h.lines[i])}
             news == {i \in DOMAIN h.lines : New(h.lines[i])}
             OldOf(i) == <<"old", HunkStart(h.old) + OldCount(SubSeq(h.lines, 1, i - 1)), h.lines[i]>>
             NewOf(i) == <<"new", HunkStart(h.new) + NewCount(SubSeq(h.lines, 1, i - 1)), h.lines[i]>>
             P == PlacesIn(h)
  <1>1. Anchored(h) = {OldOf(i) : i \in olds} \cup {NewOf(i) : i \in news}
    BY DEF Anchored
  <1>2. ASSUME NEW i \in DOMAIN h.lines
        PROVE  PlaceOf(h, i) \in P /\ PlaceOf(h, i)[3] = h.lines[i]
    BY DEF PlaceOf, PlacesIn
  <1>3. ASSUME NEW i \in olds
        PROVE  OldOf(i) = <<"old", PlaceOf(h, i)[1], PlaceOf(h, i)[3]>>
    <2>1. HunkStart(h.old) = Cursor(h.old, h.oldCount)
      BY DEF Anchorable
    <2> QED
      BY <2>1 DEF PlaceOf
  <1>4. ASSUME NEW i \in news
        PROVE  NewOf(i) = <<"new", PlaceOf(h, i)[2], PlaceOf(h, i)[3]>>
    <2>1. HunkStart(h.new) = Cursor(h.new, h.newCount)
      BY DEF Anchorable
    <2> QED
      BY <2>1 DEF PlaceOf
  <1>5. \A y \in P : \E i \in DOMAIN h.lines : y = PlaceOf(h, i)
    BY DEF PlacesIn
  <1> HIDE DEF P, OldOf, NewOf
  <1>6. ASSUME NEW z
        PROVE  z \in {OldOf(i) : i \in olds}
                 <=> z \in {<<"old", x[1], x[3]>> : x \in {y \in P : Old(y[3])}}
    <2>1. ASSUME NEW i \in olds, z = OldOf(i)
          PROVE  \E x \in {y \in P : Old(y[3])} : z = <<"old", x[1], x[3]>>
      BY <1>2, <1>3, <2>1
    <2>2. ASSUME NEW x \in P, Old(x[3]), z = <<"old", x[1], x[3]>>
          PROVE  \E i \in olds : z = OldOf(i)
      <3>1. PICK i \in DOMAIN h.lines : x = PlaceOf(h, i)
        BY <1>5
      <3>2. i \in olds
        BY <1>2, <2>2, <3>1
      <3> QED
        BY <1>3, <2>2, <3>1, <3>2
    <2> HIDE DEF olds
    <2> QED
      BY <2>1, <2>2
  <1>7. ASSUME NEW z
        PROVE  z \in {NewOf(i) : i \in news}
                 <=> z \in {<<"new", x[2], x[3]>> : x \in {y \in P : New(y[3])}}
    <2>1. ASSUME NEW i \in news, z = NewOf(i)
          PROVE  \E x \in {y \in P : New(y[3])} : z = <<"new", x[2], x[3]>>
      BY <1>2, <1>4, <2>1
    <2>2. ASSUME NEW x \in P, New(x[3]), z = <<"new", x[2], x[3]>>
          PROVE  \E i \in news : z = NewOf(i)
      <3>1. PICK i \in DOMAIN h.lines : x = PlaceOf(h, i)
        BY <1>5
      <3>2. i \in news
        BY <1>2, <2>2, <3>1
      <3> QED
        BY <1>4, <2>2, <3>1, <3>2
    <2> HIDE DEF news
    <2> QED
      BY <2>1, <2>2
  <1>8. {OldOf(i) : i \in olds} = {<<"old", x[1], x[3]>> : x \in {y \in P : Old(y[3])}}
    BY <1>6
  <1>9. {NewOf(i) : i \in news} = {<<"new", x[2], x[3]>> : x \in {y \in P : New(y[3])}}
    BY <1>7
  <1> QED
    BY <1>1, <1>8, <1>9 DEF AnchorsOf, P

(* The anchors of several sets of places are those of their union.          *)
LEMMA AnchorsJoin ==
    ASSUME NEW sets
    PROVE  UNION {AnchorsOf(P) : P \in sets} = AnchorsOf(UNION sets)
  <1>1. ASSUME NEW z
        PROVE  z \in UNION {AnchorsOf(P) : P \in sets} <=> z \in AnchorsOf(UNION sets)
    <2> DEFINE Is(x) == \/ Old(x[3]) /\ z = <<"old", x[1], x[3]>>
                        \/ New(x[3]) /\ z = <<"new", x[2], x[3]>>
    <2>1. \A P : z \in AnchorsOf(P) <=> \E x \in P : Is(x)
      BY DEF AnchorsOf
    <2> HIDE DEF Is
    <2>2. z \in UNION {AnchorsOf(P) : P \in sets} <=> \E P \in sets : z \in AnchorsOf(P)
      OBVIOUS
    <2> QED
      BY <2>1, <2>2
  <1> QED
    BY <1>1

LEMMA MergedIs ==
    ASSUME NEW patches, \A p \in patches : \A h \in Range(p) : Anchorable(h)
    PROVE  MergePatch(patches) = AnchorsOf(UNION {Placed(p) : p \in patches})
  <1>1. ASSUME NEW p \in patches PROVE ParseGitDiff(p) = AnchorsOf(Placed(p))
    <2> DEFINE sets == {PlacesIn(h) : h \in Range(p)}
    <2>1. Placed(p) = UNION sets
      BY PlacedIs DEF PlacesIn
    <2>2. \A h \in Range(p) : Anchored(h) = AnchorsOf(PlacesIn(h))
      BY AnchoredIs
    <2>3. {Anchored(h) : h \in Range(p)} = {AnchorsOf(P) : P \in sets}
      <3>1. ASSUME NEW z
            PROVE  z \in {Anchored(h) : h \in Range(p)} <=> z \in {AnchorsOf(P) : P \in sets}
        BY <2>2
      <3> QED
        BY <3>1
    <2> HIDE DEF sets
    <2> QED
      BY <2>1, <2>3, AnchorsJoin DEF ParseGitDiff
  <1> DEFINE sets == {Placed(p) : p \in patches}
  <1>2. {ParseGitDiff(p) : p \in patches} = {AnchorsOf(P) : P \in sets}
    <2>1. ASSUME NEW z
          PROVE  z \in {ParseGitDiff(p) : p \in patches} <=> z \in {AnchorsOf(P) : P \in sets}
      BY <1>1
    <2> QED
      BY <2>1
  <1> HIDE DEF sets
  <1>3. MergePatch(patches) = AnchorsOf(UNION sets)
    BY <1>2, AnchorsJoin DEF MergePatch
  <1> QED
    BY <1>3 DEF sets

(* What git writes can be anchored.                                         *)
LEMMA GitAnchorable ==
    ASSUME NEW h \in Hunks, CountsMatch(h), Numbered(h)
    PROVE  Anchorable(h)
  <1> DEFINE lines == h.lines
  <1>1. lines \in Seq(BodyLine)
    BY HunkFields DEF IsHunk
  <1>2. OldCount(lines) = h.oldCount /\ NewCount(lines) = h.newCount
    BY DEF CountsMatch
  <1> HIDE DEF lines
  <1>3. ASSUME NEW n \in DOMAIN lines, Old(lines[n]) PROVE h.oldCount # 0
    <2> DEFINE S == {m \in DOMAIN lines : Old(lines[m])}
    <2>1. n \in S /\ S \in SUBSET (DOMAIN lines)
      BY <1>3
    <2> HIDE DEF S
    <2>2. Cardinality(S) # 0
      BY <1>1, <2>1, SomeCounted
    <2> QED
      BY <1>2, <2>2 DEF S, OldCount
  <1>4. ASSUME NEW n \in DOMAIN lines, New(lines[n]) PROVE h.newCount # 0
    <2> DEFINE S == {m \in DOMAIN lines : New(lines[m])}
    <2>1. n \in S /\ S \in SUBSET (DOMAIN lines)
      BY <1>4
    <2> HIDE DEF S
    <2>2. Cardinality(S) # 0
      BY <1>1, <2>1, SomeCounted
    <2> QED
      BY <1>2, <2>2 DEF S, NewCount
  <1>5. h.oldCount # 0 => HunkStart(h.old) = Cursor(h.old, h.oldCount)
    BY DEF Numbered, HunkStart, Cursor
  <1>6. h.newCount # 0 => HunkStart(h.new) = Cursor(h.new, h.newCount)
    BY DEF Numbered, HunkStart, Cursor
  <1> QED
    BY <1>3, <1>4, <1>5, <1>6 DEF Anchorable, lines

LEMMA LinesNext ==
    ASSUME input' = input, NEW frs, fragments' = frs, NEW c, at' = c,
           CursorsRight(c), LaidOut(frs, c), GitWrites => AllAnchorable(frs)
    PROVE  LinesInv'
  <1>1. CursorsRight(at)'
    BY DEF CursorsRight, AtCursors, Sections
  <1>2. LaidOut(fragments, at)'
    BY DEF LaidOut, PlacesOf, LinesOf, PlaceAt, Sections
  <1>3. GitWrites' <=> GitWrites
    BY DEF GitWrites, CountsMatch, Sections
  <1>4. AllAnchorable(fragments)' <=> AllAnchorable(frs)
    BY DEF AllAnchorable
  <1> QED
    BY <1>1, <1>2, <1>3, <1>4 DEF LinesInv

LEMMA LinesKept == ASSUME LinesInv, UNCHANGED <<input, at, fragments>> PROVE LinesInv'
  <1>1. input' = input /\ at' = at /\ fragments' = fragments
    OBVIOUS
  <1> QED
    BY <1>1, LinesNext DEF LinesInv

LEMMA LinesInit == Init => LinesInv
  <1> SUFFICES ASSUME Init PROVE LinesInv
    OBVIOUS
  <1>1. input \in Selections /\ at = AtSection(1) /\ fragments = <<>>
    BY InputsAssumption DEF Init
  <1>2. at.hunk = 0 /\ at.section = 1
    BY <1>1 DEF AtSection
  <1>3. Range(fragments) = {}
    BY <1>1 DEF Range
  <1>4. ASSUME NEW p \in DOMAIN Files, NEW m \in LinesOf(p) PROVE ~Behind(at, m)
    <2>1. m[1] \in 1 .. Len(Sections) /\ m[2] \in Nat /\ Len(Sections) \in Nat
      BY <1>1, LineNumbers
    <2>2. m[1] \in Nat /\ ~(m[1] < 1) /\ ~(m[2] < 0)
      BY <2>1
    <2>3. m[2] > 0
      BY <1>1, LineNumbers
    <2>4. ~(m[2] = 0)
      BY <2>1, <2>3
    <2> QED
      BY <1>2, <2>2, <2>4 DEF Behind
  <1>5. LaidOut(fragments, at)
    <2>1. ASSUME NEW p \in DOMAIN Files
          PROVE  PlacesOf(fragments, p) = {PlaceAt(l) : l \in {m \in LinesOf(p) : Behind(at, m)}}
      <3>1. {m \in LinesOf(p) : Behind(at, m)} = {}
        BY <1>4
      <3>2. PlacesOf(fragments, p) = {}
        BY <1>3 DEF PlacesOf
      <3> QED
        BY <3>1, <3>2
    <2> QED
      BY <2>1 DEF LaidOut
  <1>6. AllAnchorable(fragments)
    BY <1>3 DEF AllAnchorable
  <1>7. CursorsRight(at)
    BY <1>2 DEF CursorsRight
  <1> QED
    BY <1>5, <1>6, <1>7 DEF LinesInv

(* A hunk starts at the cursors that AtHunk has.                            *)
LEMMA HunkCursors ==
    ASSUME input \in Selections, NEW k \in 1 .. Len(Sections),
           NEW j \in 1 .. Len(Sections[k].hunks)
    PROVE  CursorsRight(AtHunk(k, j))
  <1> DEFINE h == Sections[k].hunks[j]
             none == SubSeq(h.lines, 1, 1 - 1)
             start == Cursor(h.old, h.oldCount)
             begin == Cursor(h.new, h.newCount)
  <1>1. h \in Hunks
    BY SelectionFields, SectionFields
  <1>2. start \in Nat /\ begin \in Nat /\ h.lines \in Seq(BodyLine)
    BY <1>1, HunkFields DEF IsHunk, Cursor
  <1>3. /\ AtHunk(k, j).section = k /\ AtHunk(k, j).hunk = j /\ AtHunk(k, j).line = 1
        /\ AtHunk(k, j).old = start /\ AtHunk(k, j).new = begin
    BY DEF AtHunk
  <1>4. DOMAIN none = {}
    <2> HIDE DEF h
    <2> QED
      BY <1>2
  <1> HIDE DEF none
  <1>5. OldCount(none) = 0 /\ NewCount(none) = 0
    <2>1. {i \in DOMAIN none : Old(none[i])} = {} /\ {i \in DOMAIN none : New(none[i])} = {}
      BY <1>4
    <2> QED
      BY <2>1, FS_EmptySet DEF OldCount, NewCount
  <1> HIDE DEF start, begin
  <1>6. start = start + OldCount(none) /\ begin = begin + NewCount(none)
    BY <1>2, <1>5
  <1> QED
    BY <1>3, <1>6 DEF CursorsRight, AtCursors, start, begin, none

LEMMA GitAnchors ==
    ASSUME input \in Selections, GitWrites, NEW s \in Range(Sections), NEW h \in Range(s.hunks)
    PROVE  Anchorable(h)
  <1>1. Range(Sections) \in SUBSET FileSection
    <2>1. Sections \in Seq(FileSection)
      BY SelectionFields
    <2> HIDE DEF FileSection
    <2> QED
      BY <2>1 DEF Range
  <1>2. s.hunks \in Seq(Hunks)
    BY <1>1, SectionFields
  <1>3. h \in Hunks
    <2> HIDE DEF Hunks
    <2> QED
      BY <1>2 DEF Range
  <1>4. CountsMatch(h) /\ Numbered(h)
    BY DEF GitWrites
  <1> QED
    BY <1>3, <1>4, GitAnchorable

LEMMA AppendAnchorable ==
    ASSUME NEW frs \in Seq(Fragment), NEW f \in Fragment, AllAnchorable(frs),
           \A h \in Range(f.hunks) : Anchorable(h)
    PROVE  AllAnchorable(Append(frs, f))
  BY AppendRange DEF AllAnchorable

LEMMA BeginSectionLines == ASSUME PlanInv, LinesInv, BeginSection PROVE LinesInv'
  <1> DEFINE k == at.section
             s == Sections[k]
  <1>1. /\ at.hunk = 0 /\ k <= Len(Sections)
        /\ \/ /\ fragments' = Append(fragments, Whole(k)) /\ at' = AtSection(k + 1)
              /\ UNCHANGED <<phase, SplitRest>>
           \/ Refuse(IF s.hunks = <<>> THEN "binary" ELSE "metadata")
           \/ /\ s.hunks # <<>> /\ at' = AtHunk(k, 1)
              /\ UNCHANGED <<phase, fragments, SplitRest>>
    BY DEF BeginSection
  <1>2. /\ input \in Selections /\ fragments \in Seq(Fragment) /\ at \in Cursors
        /\ LaidOut(fragments, at) /\ (GitWrites => AllAnchorable(fragments))
    BY FragmentsType DEF PlanInv, AtOK, LinesInv
  <1>3. k \in 1 .. Len(Sections) /\ k \in DOMAIN Sections
    <2>1. k \in Nat \ {0} /\ Len(Sections) \in Nat /\ Sections \in Seq(FileSection)
      BY <1>2, SelectionFields DEF Cursors
    <2> HIDE DEF k
    <2> QED
      BY <1>1, <2>1
  <1>4. /\ Passes(InSection(k), at, AtSection(k + 1)) /\ Passes({}, at, AtHunk(k, 1))
    BY <1>1, <1>2, <1>3, PassSection
  <1>5. s \in Range(Sections)
    BY <1>3 DEF Range
  <1> HIDE DEF k
  <1>6. CASE /\ fragments' = Append(fragments, Whole(k)) /\ at' = AtSection(k + 1)
             /\ UNCHANGED <<phase, SplitRest>>
    <2> DEFINE f == Whole(k)
               c == AtSection(k + 1)
    <2>1. f \in Fragment
      BY <1>2, <1>3, WholeType
    <2>2. f.hunks = s.hunks /\ f.file = s.file
      BY DEF Whole
    <2>3. c.hunk = 0
      BY DEF AtSection
    <2>4. /\ fragments' = Append(fragments, f) /\ at' = c /\ input' = input
          /\ Passes(InSection(k), at, c)
      BY <1>4, <1>6 DEF SplitRest
    <2> HIDE DEF f, c
    <2>5. InSection(k) \in SUBSET LinesOf(f.file)
      BY <2>2 DEF InSection
    <2>6. Placed(f.hunks) = {PlaceAt(l) : l \in InSection(k)}
      BY <1>3, <2>2, SectionPlaced
    <2>7. LaidOut(Append(fragments, f), c)
      BY <1>2, <2>1, <2>4, <2>5, <2>6, LaidNext
    <2>8. GitWrites => \A h \in Range(f.hunks) : Anchorable(h)
      BY <1>2, <1>5, <2>2, GitAnchors
    <2>9. GitWrites => AllAnchorable(Append(fragments, f))
      BY <1>2, <2>1, <2>8, AppendAnchorable
    <2>10. CursorsRight(c)
      BY <2>3 DEF CursorsRight
    <2> QED
      BY <2>4, <2>7, <2>9, <2>10, LinesNext
  <1>7. CASE Refuse(IF s.hunks = <<>> THEN "binary" ELSE "metadata")
    BY <1>7, LinesKept DEF Refuse
  <1>8. CASE s.hunks # <<>> /\ at' = AtHunk(k, 1) /\ UNCHANGED <<phase, fragments, SplitRest>>
    <2> DEFINE c == AtHunk(k, 1)
    <2>1. s \in FileSection
      BY <1>2, <1>3, SelectionFields
    <2>2. s.hunks \in Seq(Hunks)
      BY <2>1, SectionFields
    <2>3. 1 \in 1 .. Len(s.hunks)
      <3> HIDE DEF s
      <3> QED
        BY <1>8, <2>2
    <2>4. CursorsRight(c)
      BY <1>2, <1>3, <2>3, HunkCursors
    <2>5. LaidOut(fragments, c)
      BY <1>2, <1>4, LaidSame
    <2>6. input' = input /\ fragments' = fragments /\ at' = c
      BY <1>8 DEF SplitRest
    <2> HIDE DEF c
    <2> QED
      BY <1>2, <2>4, <2>5, <2>6, LinesNext
  <1> QED
    BY <1>1, <1>6, <1>7, <1>8 DEF k

(* The cursors after a chunk, within its hunk.                              *)
LEMMA NextCursors ==
    ASSUME NEW h, h.lines \in Seq(BodyLine), h.old \in Nat, h.new \in Nat,
           NEW i \in Nat \ {0}, NEW e \in i .. Len(h.lines),
           NEW c, AtCursors(c, h, i), NEW d,
           d.old = c.old + OldCount(SubSeq(h.lines, i, e)),
           d.new = c.new + NewCount(SubSeq(h.lines, i, e))
    PROVE  AtCursors(d, h, e + 1)
  <1> DEFINE lines == h.lines
             m == i - 1
             start == Cursor(h.old, h.oldCount)
             begin == Cursor(h.new, h.newCount)
  <1>1. /\ lines \in Seq(BodyLine) /\ e \in 0 .. Len(lines) /\ m \in 0 .. e /\ m + 1 = i
        /\ (e + 1) - 1 = e /\ e \in Nat
    OBVIOUS
  <1>2. start \in Int /\ begin \in Int
    BY DEF Cursor
  <1>3. /\ c.old = start + OldCount(SubSeq(lines, 1, m))
        /\ c.new = begin + NewCount(SubSeq(lines, 1, m))
    BY DEF AtCursors
  <1>4. /\ d.old = c.old + OldCount(SubSeq(lines, i, e))
        /\ d.new = c.new + NewCount(SubSeq(lines, i, e))
    OBVIOUS
  <1> HIDE DEF lines, m
  <1>5. ASSUME NEW kinds
        PROVE  /\ KindCount(SubSeq(lines, 1, e), kinds) =
                     KindCount(SubSeq(lines, 1, m), kinds) + KindCount(SubSeq(lines, i, e), kinds)
               /\ KindCount(SubSeq(lines, 1, m), kinds) \in Nat
               /\ KindCount(SubSeq(lines, i, e), kinds) \in Nat
    <2>1. /\ KindCount(SubSeq(lines, 1, e), kinds) =
                KindCount(SubSeq(lines, 1, m), kinds) + KindCount(SubSeq(lines, m + 1, e), kinds)
          /\ KindCount(SubSeq(lines, 1, m), kinds) \in Nat
          /\ KindCount(SubSeq(lines, m + 1, e), kinds) \in Nat
      BY <1>1, CountSplits
    <2> QED
      BY <1>1, <2>1
  <1> DEFINE a == OldCount(SubSeq(lines, 1, m))
             b == OldCount(SubSeq(lines, i, e))
             u == NewCount(SubSeq(lines, 1, m))
             v == NewCount(SubSeq(lines, i, e))
  <1>6. OldCount(SubSeq(lines, 1, e)) = a + b /\ a \in Nat /\ b \in Nat
    BY <1>5, Counts
  <1>7. NewCount(SubSeq(lines, 1, e)) = u + v /\ u \in Nat /\ v \in Nat
    BY <1>5, Counts
  <1>8. d.old = (start + a) + b /\ d.new = (begin + u) + v
    BY <1>3, <1>4
  <1> HIDE DEF a, b, u, v, start, begin
  <1>9. d.old = start + (a + b) /\ d.new = begin + (u + v)
    BY <1>2, <1>6, <1>7, <1>8
  <1>10. /\ d.old = start + OldCount(SubSeq(lines, 1, (e + 1) - 1))
         /\ d.new = begin + NewCount(SubSeq(lines, 1, (e + 1) - 1))
    BY <1>1, <1>6, <1>7, <1>9
  <1> QED
    BY <1>10 DEF AtCursors, start, begin, lines

LEMMA AfterCursors ==
    ASSUME input \in Selections, NEW k \in 1 .. Len(Sections),
           NEW j \in 1 .. Len(Sections[k].hunks)
    PROVE  CursorsRight(AfterHunk(k, j))
  <1>1. CASE j < Len(Sections[k].hunks)
    <2>1. Len(Sections[k].hunks) \in Nat
      BY SelectionFields, SectionFields
    <2>2. AfterHunk(k, j) = AtHunk(k, j + 1) /\ j + 1 \in 1 .. Len(Sections[k].hunks)
      BY <1>1, <2>1 DEF AfterHunk
    <2> QED
      BY <2>2, HunkCursors
  <1>2. CASE ~(j < Len(Sections[k].hunks))
    <2>1. AfterHunk(k, j) = AtSection(k + 1) /\ AtSection(k + 1).hunk = 0
      BY <1>2 DEF AfterHunk, AtSection
    <2> QED
      BY <2>1 DEF CursorsRight
  <1> QED
    BY <1>1, <1>2

(* One chunk, up to the line e of its hunk.                                 *)
In(k, j, i) == at.section = k /\ at.hunk = j /\ at.line = i
LEMMA ChunkLines ==
    ASSUME PlanInv, LinesInv, NEW k \in 1 .. Len(Sections), NEW j \in 1 .. Len(Sections[k].hunks),
           NEW i \in Nat \ {0}, In(k, j, i),
           NEW e \in i .. Len(Sections[k].hunks[j].lines), Chunk(k, j, i, e) \in Fragment,
           NEW d, CursorsRight(d),
           \/ d.section = k /\ d.hunk = j /\ d.line = e + 1
           \/ d = AfterHunk(k, j) /\ e = Len(Sections[k].hunks[j].lines),
           input' = input, fragments' = Append(fragments, Chunk(k, j, i, e)), at' = d
    PROVE  LinesInv'
  <1> DEFINE h == Sections[k].hunks[j]
             f == Chunk(k, j, i, e)
             L == InChunk(k, j, i, e)
  <1>1. /\ input \in Selections /\ fragments \in Seq(Fragment)
        /\ CursorsRight(at) /\ LaidOut(fragments, at) /\ (GitWrites => AllAnchorable(fragments))
    BY FragmentsType DEF LinesInv
  <1>2. AtCursors(at, Sections[k].hunks[j], i)
    <2>1. Len(Sections[k].hunks) \in Nat
      BY <1>1, SelectionFields, SectionFields
    <2>2. at.hunk # 0
      BY <2>1 DEF In
    <2> QED
      BY <1>1, <2>2 DEF CursorsRight, In
  <1>3. /\ Placed(f.hunks) = {PlaceOf(h, n) : n \in i .. e}
        /\ (Numbered(h) => \A c \in Range(f.hunks) : Anchorable(c))
        /\ f.file = Sections[k].file
    BY <1>1, <1>2, ChunkPlaced
  <1>4. /\ L \in SUBSET LinesOf(f.file)
        /\ Passes(L, at, d)
        /\ {PlaceAt(l) : l \in L} = {PlaceOf(h, n) : n \in i .. e}
    <2> DEFINE c == at
    <2>1. c.section = k /\ c.hunk = j /\ c.line = i
      BY DEF In
    <2> HIDE DEF c
    <2>2. L \in SUBSET LinesOf(Sections[k].file) /\ Passes(L, c, d)
      BY <1>1, <2>1, PassChunk
    <2>3. {PlaceAt(l) : l \in L} = {PlaceOf(h, n) : n \in i .. e}
      BY ChunkPlaces
    <2> QED
      BY <1>3, <2>2, <2>3 DEF c
  <1>5. GitWrites => Numbered(h)
    <2>1. Sections \in Seq(FileSection) /\ Sections[k] \in FileSection
      BY <1>1, SelectionFields
    <2>2. k \in DOMAIN Sections
      <3> HIDE DEF FileSection
      <3> QED
        BY <2>1
    <2>3. j \in DOMAIN Sections[k].hunks
      BY <2>1, SectionFields
    <2> QED
      BY <2>2, <2>3 DEF GitWrites, Range
  <1>6. f \in Fragment /\ fragments' = Append(fragments, f)
    OBVIOUS
  <1> HIDE DEF f, L, h
  <1>7. LaidOut(Append(fragments, f), d)
    BY <1>1, <1>3, <1>4, <1>6, LaidNext
  <1>8. GitWrites => AllAnchorable(Append(fragments, f))
    BY <1>1, <1>3, <1>5, <1>6, AppendAnchorable
  <1> QED
    BY <1>6, <1>7, <1>8, LinesNext

LEMMA SplitChunkLines == ASSUME PlanInv, LinesInv, SplitChunk PROVE LinesInv'
  <1> DEFINE k == at.section
             j == at.hunk
             i == at.line
             h == Sections[k].hunks[j]
             limit == PayloadLimit - Sections[k].meta - h.suffix - HeaderReserve
             ends == {e \in ChunkEnds(h, i) : Bytes(SubSeq(h.lines, i, e)) <= limit}
             last == Max(ends)
             lines == SubSeq(h.lines, i, last)
  <1>1. /\ at.hunk > 0
        /\ \/ \E why \in Objections : Refuse(why)
           \/ /\ ends # {}
              /\ fragments' = Append(fragments, Chunk(k, j, i, last))
              /\ at' = IF last = Len(h.lines) THEN AfterHunk(k, j)
                       ELSE [at EXCEPT !.line = last + 1, !.old = @ + OldCount(lines),
                                       !.new = @ + NewCount(lines)]
              /\ UNCHANGED <<phase, SplitRest>>
    BY ObjectionOf DEF SplitChunk
  <1>2. input \in Selections /\ AtOK /\ CursorsRight(at)
    BY FragmentsType DEF PlanInv, LinesInv
  <1>3. /\ k \in Nat \ {0} /\ j \in Nat \ {0} /\ i \in Nat \ {0}
        /\ at \in Cursors /\ InHunk(at, input)
    <2>1. at \in Cursors /\ (j = 0 \/ InHunk(at, input)) /\ j > 0
      BY <1>1, <1>2 DEF AtOK
    <2>2. k \in Nat \ {0} /\ j \in Nat /\ i \in Nat \ {0}
      BY <2>1 DEF Cursors
    <2> QED
      BY <2>1, <2>2
  <1>4. k \in 1 .. Len(Sections) /\ j \in 1 .. Len(Sections[k].hunks)
    <2>1. Len(Sections) \in Nat /\ k <= Len(Sections) /\ j <= Len(Sections[k].hunks)
      BY <1>2, <1>3, SelectionFields DEF InHunk, Sections
    <2>2. k \in 1 .. Len(Sections)
      BY <1>3, <2>1
    <2>3. Len(Sections[k].hunks) \in Nat
      BY <1>2, <2>2, SelectionFields, SectionFields
    <2> HIDE DEF k, j
    <2> QED
      BY <1>3, <2>1, <2>2, <2>3
  <1>5. /\ Len(h.lines) \in Nat /\ h.lines \in Seq(BodyLine) /\ h.old \in Nat /\ h.new \in Nat
    <2>1. h \in Hunks
      BY <1>2, <1>4, SelectionFields, SectionFields
    <2>2. h.lines \in Seq(BodyLine) /\ h.old \in Nat /\ h.new \in Nat
      BY <2>1, HunkFields DEF IsHunk
    <2> HIDE DEF h
    <2> QED
      BY <2>2
  <1>6. CASE \E why \in Objections : Refuse(why)
    BY <1>6, LinesKept DEF Refuse
  <1>7. In(k, j, i)
    BY DEF In
  <1>8. CASE /\ ends # {}
             /\ fragments' = Append(fragments, Chunk(k, j, i, last))
             /\ at' = IF last = Len(h.lines) THEN AfterHunk(k, j)
                      ELSE [at EXCEPT !.line = last + 1, !.old = @ + OldCount(lines),
                                      !.new = @ + NewCount(lines)]
             /\ UNCHANGED <<phase, SplitRest>>
    <2>1. last \in ends
      <3>1. ends \in SUBSET (i .. Len(h.lines))
        BY DEF ChunkEnds
      <3> HIDE DEF ends, h, i
      <3>2. i .. Len(h.lines) \subseteq 0 .. Len(h.lines)
        BY <1>3, <1>5
      <3>3. ends \in SUBSET (0 .. Len(h.lines)) /\ ends # {}
        BY <1>8, <3>1, <3>2
      <3> QED
        BY <1>5, <3>3, MaxIsGreatest
    <2>2. last \in i .. Len(h.lines) /\ Bytes(SubSeq(h.lines, i, last)) <= limit
      <3> HIDE DEF last
      <3> QED
        BY <2>1 DEF ChunkEnds
    <2>3. Chunk(k, j, i, last) \in Fragment
      <3> HIDE DEF last
      <3>1. Chunk(k, j, i, last) \in Alone(input.base)
        BY <1>1, <1>2, <2>2, ChunkFits
      <3> QED
        BY <3>1 DEF Alone
    <2>4. /\ fragments' = Append(fragments, Chunk(k, j, i, last)) /\ input' = input
      BY <1>8 DEF SplitRest
    <2>5. last \in i .. Len(Sections[k].hunks[j].lines)
      BY <2>2
    <2> HIDE DEF last, ends, limit
    <2>6. CASE last = Len(h.lines)
      <3> DEFINE d == AfterHunk(k, j)
      <3>1. at' = d
        BY <1>8, <2>6
      <3>2. CursorsRight(d)
        BY <1>2, <1>4, AfterCursors
      <3>3. d = AfterHunk(k, j) /\ last = Len(Sections[k].hunks[j].lines)
        BY <2>6
      <3> HIDE DEF d, lines, h
      <3> QED
        BY <1>3, <1>4, <1>7, <2>3, <2>4, <2>5, <3>1, <3>2, <3>3, ChunkLines
    <2>7. CASE last # Len(h.lines)
      <3> DEFINE d == [at EXCEPT !.line = last + 1, !.old = @ + OldCount(lines),
                                 !.new = @ + NewCount(lines)]
      <3>1. at' = d
        BY <1>8, <2>7
      <3> HIDE DEF lines
      <3>2. /\ d.section = k /\ d.hunk = j /\ d.line = last + 1
            /\ d.old = at.old + OldCount(lines) /\ d.new = at.new + NewCount(lines)
        BY <1>3 DEF Cursors
      <3> HIDE DEF d
      <3>3. AtCursors(at, h, i)
        BY <1>2, <1>3 DEF CursorsRight
      <3>4. AtCursors(d, h, last + 1)
        <4>1. /\ d.old = at.old + OldCount(SubSeq(h.lines, i, last))
              /\ d.new = at.new + NewCount(SubSeq(h.lines, i, last))
          BY <3>2 DEF lines
        <4> HIDE DEF h
        <4> QED
          BY <1>3, <1>5, <2>2, <3>3, <4>1, NextCursors
      <3>5. CursorsRight(d)
        BY <3>2, <3>4 DEF CursorsRight
      <3> HIDE DEF h
      <3> QED
        BY <1>3, <1>4, <1>7, <2>3, <2>4, <2>5, <3>1, <3>2, <3>5, ChunkLines
    <2> QED
      BY <2>6, <2>7
  <1> HIDE DEF ends, last, h, k, j, i, limit, lines
  <1> QED
    BY <1>1, <1>6, <1>8

LEMMA LinesStep == PlanInv /\ LinesInv /\ [Next]_vars => LinesInv'
  <1> SUFFICES ASSUME PlanInv, LinesInv, [Next]_vars PROVE LinesInv'
    OBVIOUS
  <1>1. CASE Interrupted \/ NoRoomForContext \/ NoRoomForManifest
    BY <1>1, LinesKept DEF Interrupted, NoRoomForContext, NoRoomForManifest, Refuse
  <1>2. CASE Group \/ Pack \/ PackLast
    BY <1>2, LinesKept DEF Group, Pack, PackLast, Refuse
  <1>3. CASE AddNeighbor \/ AddEdge
    BY <1>3, LinesKept DEF AddNeighbor, AddEdge, Add, Refuse
  <1>4. CASE Validate \/ Answered \/ UNCHANGED vars
    BY <1>4, LinesKept DEF Validate, Answered, vars
  <1> QED
    BY <1>1, <1>2, <1>3, <1>4, BeginSectionLines, SplitChunkLines DEF Next

(* When the split is over, every line of a file is behind.                  *)
LEMMA SplitPlaces ==
    ASSUME PlanInv, OwnInv, LinesInv, phase = "pack", NEW p \in DOMAIN Files
    PROVE  PlacesOf(fragments, p) = {PlaceAt(l) : l \in LinesOf(p)}
  <1>1. /\ input \in Selections /\ LaidOut(fragments, at) /\ at = AtSection(Len(Sections) + 1)
    BY FragmentsType DEF LinesInv, OwnInv, Tiled
  <1>2. ASSUME NEW m \in LinesOf(p) PROVE Behind(at, m)
    <2>1. m[1] \in 1 .. Len(Sections) /\ Len(Sections) \in Nat
      BY <1>1, LineNumbers
    <2>2. m[1] < Len(Sections) + 1
      BY <2>1
    <2>3. at.section = Len(Sections) + 1
      BY <1>1 DEF AtSection
    <2> QED
      BY <2>2, <2>3 DEF Behind
  <1>3. {m \in LinesOf(p) : Behind(at, m)} = LinesOf(p)
    BY <1>2
  <1> QED
    BY <1>1, <1>3 DEF LaidOut

LEMMA WholePlaces ==
    ASSUME NEW p
    PROVE  UNION {Placed(h) : h \in {s.hunks : s \in {t \in Range(Sections) : t.file = p}}}
              = {PlaceAt(l) : l \in LinesOf(p)}
  <1> DEFINE whole == {s.hunks : s \in {t \in Range(Sections) : t.file = p}}
  <1>1. ASSUME NEW h \in whole, NEW x \in Placed(h) PROVE x \in {PlaceAt(l) : l \in LinesOf(p)}
    <2>1. PICK k \in DOMAIN Sections : h = Sections[k].hunks /\ Sections[k].file = p
      BY DEF Range
    <2>2. x \in {PlaceAt(l) : l \in InSection(k)}
      BY <2>1, SectionPlaced
    <2>3. \A l \in InSection(k) : l \in LinesOf(p)
      BY <2>1 DEF InSection
    <2> QED
      BY <2>2, <2>3
  <1>2. ASSUME NEW l \in LinesOf(p) PROVE \E h \in whole : PlaceAt(l) \in Placed(h)
    <2> DEFINE k == l[1]
    <2>1. k \in DOMAIN Sections /\ Sections[k].file = p
      BY LineIs
    <2>2. l \in InSection(k)
      BY <2>1 DEF InSection
    <2> HIDE DEF k
    <2>3. PlaceAt(l) \in Placed(Sections[k].hunks)
      BY <2>1, <2>2, SectionPlaced
    <2>4. Sections[k].hunks \in whole
      BY <2>1 DEF Range
    <2> QED
      BY <2>3, <2>4
  <1> HIDE DEF whole
  <1>3. UNION {Placed(h) : h \in whole} = {PlaceAt(l) : l \in LinesOf(p)}
    <2>1. ASSUME NEW x
          PROVE  x \in UNION {Placed(h) : h \in whole} <=> x \in {PlaceAt(l) : l \in LinesOf(p)}
      <3>1. x \in UNION {Placed(h) : h \in whole} <=> \E h \in whole : x \in Placed(h)
        OBVIOUS
      <3> QED
        BY <1>1, <1>2, <3>1
    <2> QED
      BY <2>1
  <1> QED
    BY <1>3 DEF whole

LEMMA SplitKeepsLines ==
    ASSUME PlanInv, OwnInv, LinesInv, GitWrites
    PROVE  CoordinatesPreserved
  <1> SUFFICES ASSUME phase = "pack", NEW p \in ChangedFiles
               PROVE  LET split == {f.hunks : f \in {g \in Range(fragments) : g.file = p}}
                          whole == {s.hunks : s \in {t \in Range(Sections) : t.file = p}}
                      IN /\ MergePatch(split) = MergePatch(whole)
                         /\ UNION {Placed(h) : h \in split} = UNION {Placed(h) : h \in whole}
    BY DEF CoordinatesPreserved
  <1> DEFINE split == {f.hunks : f \in {g \in Range(fragments) : g.file = p}}
             whole == {s.hunks : s \in {t \in Range(Sections) : t.file = p}}
  <1>1. input \in Selections /\ AllAnchorable(fragments)
    BY FragmentsType DEF LinesInv
  <1>2. p \in DOMAIN Files
    BY <1>1, ChangedFilesType
  <1>3. UNION {Placed(h) : h \in split} = {PlaceAt(l) : l \in LinesOf(p)}
    <2>1. {Placed(h) : h \in split} = {Placed(f.hunks) : f \in {g \in Range(fragments) : g.file = p}}
      OBVIOUS
    <2> QED
      BY <1>2, <2>1, SplitPlaces DEF PlacesOf
  <1>4. UNION {Placed(h) : h \in whole} = {PlaceAt(l) : l \in LinesOf(p)}
    BY WholePlaces
  <1>5. \A q \in split : \A h \in Range(q) : Anchorable(h)
    BY <1>1 DEF AllAnchorable
  <1>6. \A q \in whole : \A h \in Range(q) : Anchorable(h)
    BY <1>1, GitAnchors
  <1> HIDE DEF split, whole
  <1>8. MergePatch(split) = MergePatch(whole)
    BY <1>3, <1>4, <1>5, <1>6, MergedIs
  <1> QED
    BY <1>3, <1>4, <1>8 DEF split, whole

-----------------------------------------------------------------------------
(* The union-find of applyImportEdges. Every file has a root, T of it, that *)
(* following parents reaches, since the rank falls on the way.              *)

Forest(parent, T, rank, S) ==
    /\ parent \in [S -> S] /\ T \in [S -> S] /\ rank \in [S -> Nat]
    /\ \A j \in S : parent[j] = j => T[j] = j
    /\ \A j \in S : T[j] = T[parent[j]] /\ parent[T[j]] = T[j]
    /\ \A j \in S : parent[j] # j => rank[parent[j]] < rank[j]

LEMMA RootIs ==
    ASSUME NEW S, NEW parent, NEW T, NEW rank, Forest(parent, T, rank, S), NEW i \in S
    PROVE  Root(parent, i) = T[i]
  <1> DEFINE Finds(f) == f = [j \in DOMAIN parent |-> IF parent[j] = j THEN j ELSE f[parent[j]]]
  <1>1. /\ parent \in [S -> S] /\ T \in [S -> S] /\ rank \in [S -> Nat]
        /\ \A j \in S : parent[j] = j => T[j] = j
        /\ \A j \in S : T[j] = T[parent[j]]
        /\ \A j \in S : parent[j] # j => rank[parent[j]] < rank[j]
    BY DEF Forest
  <1>2. Finds(T)
    <2>1. \A j \in S : T[j] = IF parent[j] = j THEN j ELSE T[parent[j]]
      BY <1>1
    <2> QED
      BY <1>1, <2>1
  <1>3. Root(parent, i) = (CHOOSE f : Finds(f))[i]
    BY DEF Root
  <1>4. PICK f : Finds(f) /\ Root(parent, i) = f[i]
    <2> HIDE DEF Finds
    <2> QED
      BY <1>2, <1>3
  <1>5. \A j \in S : f[j] = IF parent[j] = j THEN j ELSE f[parent[j]]
    BY <1>1, <1>4
  <1> HIDE DEF Finds
  <1> DEFINE ranks == {rank[j] : j \in {k \in S : f[k] # T[k]}}
  <1>6. ranks = {}
    <2> SUFFICES ASSUME ranks # {} PROVE FALSE
      OBVIOUS
    <2>1. ranks \subseteq Nat
      BY <1>1
    <2>2. PICK x \in ranks : \A y \in ranks : x <= y
      <3> HIDE DEF ranks
      <3> QED
        BY <2>1, HasLeast
    <2>3. PICK j \in S : f[j] # T[j] /\ x = rank[j]
      OBVIOUS
    <2>4. parent[j] # j
      BY <1>1, <1>5, <2>3
    <2>5. parent[j] \in S /\ f[parent[j]] # T[parent[j]]
      BY <1>1, <1>5, <2>3, <2>4
    <2>6. rank[parent[j]] \in ranks
      BY <2>5
    <2> HIDE DEF ranks
    <2>7. x <= rank[parent[j]]
      BY <2>2, <2>6
    <2>8. rank[parent[j]] < rank[j] /\ rank[j] \in Nat /\ rank[parent[j]] \in Nat
      BY <1>1, <2>3, <2>4, <2>5
    <2> QED
      BY <2>3, <2>7, <2>8
  <1> QED
    BY <1>4, <1>6

(* Joining two files makes the root of the target that of both families.    *)
LEMMA JoinedForest ==
    ASSUME NEW S, NEW parent, NEW T, NEW rank, Forest(parent, T, rank, S),
           NEW edge, edge.from \in S, edge.to \in S
    PROVE  \E rank2 :
               Forest(Joined(parent, edge),
                      [p \in S |-> IF T[p] = T[edge.from] THEN T[edge.to] ELSE T[p]], rank2, S)
  <1> DEFINE a == T[edge.from]
             b == T[edge.to]
             T2 == [p \in S |-> IF T[p] = T[edge.from] THEN T[edge.to] ELSE T[p]]
             parent2 == [parent EXCEPT ![a] = b]
  <1>1. /\ parent \in [S -> S] /\ T \in [S -> S] /\ rank \in [S -> Nat]
        /\ \A j \in S : parent[j] = j => T[j] = j
        /\ \A j \in S : T[j] = T[parent[j]] /\ parent[T[j]] = T[j]
        /\ \A j \in S : parent[j] # j => rank[parent[j]] < rank[j]
    BY DEF Forest
  <1>2. Joined(parent, edge) = parent2
    <2>1. Root(parent, edge.from) = a /\ Root(parent, edge.to) = b
      BY RootIs
    <2> QED
      BY <2>1 DEF Joined
  <1>3. a \in S /\ b \in S /\ parent[a] = a /\ parent[b] = b /\ T[a] = a /\ T[b] = b
    BY <1>1
  <1>4. T2 = [p \in S |-> IF T[p] = a THEN b ELSE T[p]]
    OBVIOUS
  <1> HIDE DEF a, b, T2
  <1>5. CASE a = b
    <2>1. parent2 = parent
      BY <1>1, <1>3, <1>5
    <2>2. T2 = T
      BY <1>1, <1>4, <1>5
    <2> QED
      BY <1>2, <2>1, <2>2 DEF T2
  <1>6. CASE a # b
    <2> DEFINE c == rank[b] + 1
               rank2 == [p \in S |-> IF T[p] = a THEN rank[p] + c ELSE rank[p]]
    <2>1. c \in Nat /\ rank[b] \in Nat /\ rank[b] < c
      BY <1>1, <1>3
    <2>2. parent2 \in [S -> S] /\ T2 \in [S -> S]
      BY <1>1, <1>3, <1>4
    <2>3. rank2 \in [S -> Nat]
      <3> HIDE DEF c
      <3>1. \A p \in S : rank[p] \in Nat /\ rank[p] + c \in Nat
        BY <1>1, <2>1
      <3> QED
        BY <3>1
    <2>4. ASSUME NEW j \in S PROVE parent2[j] = IF j = a THEN b ELSE parent[j]
      BY <1>1, <1>3
    <2>5. ASSUME NEW j \in S PROVE T2[j] = IF T[j] = a THEN b ELSE T[j]
      BY <1>4
    <2> HIDE DEF parent2
    <2>6. ASSUME NEW j \in S, parent2[j] = j PROVE T2[j] = j
      <3>1. j # a /\ parent[j] = j
        BY <1>6, <2>4, <2>6
      <3>2. T[j] = j
        BY <1>1, <3>1
      <3> QED
        BY <2>5, <3>1, <3>2
    <2>7. ASSUME NEW j \in S PROVE T2[j] = T2[parent2[j]] /\ parent2[T2[j]] = T2[j]
      <3>1. parent2[j] \in S /\ T2[j] \in S /\ T[j] \in S /\ parent[j] \in S
        BY <1>1, <2>2
      <3>2. T2[j] = T2[parent2[j]]
        <4>1. CASE j = a
          BY <1>3, <1>6, <2>4, <2>5, <4>1
        <4>2. CASE j # a
          BY <1>1, <2>4, <2>5, <3>1, <4>2
        <4> QED
          BY <4>1, <4>2
      <3>3. parent2[T2[j]] = T2[j]
        <4>1. CASE T[j] = a
          BY <1>3, <1>6, <2>4, <2>5, <4>1
        <4>2. CASE T[j] # a
          BY <1>1, <2>4, <2>5, <3>1, <4>2
        <4> QED
          BY <4>1, <4>2
      <3> QED
        BY <3>2, <3>3
    <2>8. ASSUME NEW j \in S, parent2[j] # j PROVE rank2[parent2[j]] < rank2[j]
      <3> HIDE DEF c
      <3>0. parent2[j] \in S /\ rank[j] \in Nat
        BY <1>1, <2>2
      <3>1. CASE j = a
        <4>1. parent2[j] = b /\ T[j] = a /\ T[b] # a
          BY <1>3, <1>6, <2>4, <3>1
        <4>2. rank2[b] = rank[b] /\ rank2[j] = rank[j] + c
          BY <1>3, <4>1
        <4> HIDE DEF rank2
        <4>3. rank[b] < rank[j] + c
          BY <2>1, <3>0
        <4> QED
          BY <4>1, <4>2, <4>3
      <3>2. CASE j # a
        <4>1. parent2[j] = parent[j] /\ T[parent[j]] = T[j] /\ parent[j] # j
          BY <1>1, <2>4, <2>8, <3>2
        <4>2. rank[parent[j]] < rank[j] /\ rank[parent[j]] \in Nat
          BY <1>1, <3>0, <4>1
        <4>3. \/ rank2[parent[j]] = rank[parent[j]] /\ rank2[j] = rank[j]
              \/ rank2[parent[j]] = rank[parent[j]] + c /\ rank2[j] = rank[j] + c
          BY <3>0, <4>1
        <4> HIDE DEF rank2
        <4> QED
          BY <2>1, <3>0, <4>1, <4>2, <4>3
      <3> QED
        BY <3>1, <3>2
    <2> HIDE DEF rank2
    <2>9. Forest(parent2, T2, rank2, S)
      BY <2>2, <2>3, <2>6, <2>7, <2>8 DEF Forest
    <2> QED
      BY <1>2, <2>9 DEF T2
  <1> QED
    BY <1>5, <1>6

(* What a union-find over the edges of s has reached after n of them: both  *)
(* ends of each have one root, and what imports nothing is a root.          *)
EndsMeet(T, s, n, S) ==
    /\ \A i \in 1 .. n : T[s[i].from] = T[s[i].to]
    /\ \A p \in S : (\A i \in 1 .. n : s[i].from # p) => T[p] = p
Reached(parent, s, n, S) ==
    \E T, rank : Forest(parent, T, rank, S) /\ EndsMeet(T, s, n, S)

(* A file imports one other file at most.                                   *)
OneTarget(s) == \A i, j \in DOMAIN s : s[i].from = s[j].from => s[i].to = s[j].to

LEMMA SeqIs ==
    ASSUME NEW E, NEW s \in Seq(E)
    PROVE  Len(s) \in Nat /\ DOMAIN s = 1 .. Len(s) /\ \A i \in 1 .. Len(s) : s[i] \in E
  OBVIOUS

LEMMA StartsReached ==
    ASSUME NEW S, NEW s
    PROVE  Reached([p \in S |-> p], s, 0, S)
  <1> DEFINE id == [p \in S |-> p]
             rank == [p \in S |-> 0]
  <1>1. Forest(id, id, rank, S)
    BY DEF Forest
  <1>2. EndsMeet(id, s, 0, S)
    BY DEF EndsMeet
  <1> HIDE DEF id, rank
  <1>3. Reached(id, s, 0, S)
    BY <1>1, <1>2 DEF Reached
  <1> QED
    BY <1>3 DEF id

LEMMA JoinReaches ==
    ASSUME NEW S, NEW s \in Seq([from : S, to : S]), OneTarget(s), NEW n \in Nat, n + 1 \in 1 .. Len(s),
           NEW parent, Reached(parent, s, n, S)
    PROVE  Reached(Joined(parent, s[n + 1]), s, n + 1, S)
  <1> DEFINE a == s[n + 1].from
             b == s[n + 1].to
             edge == s[n + 1]
  <1>1. /\ Len(s) \in Nat /\ DOMAIN s = 1 .. Len(s) /\ n + 1 \in DOMAIN s
        /\ \A i \in 1 .. n + 1 : i \in DOMAIN s /\ (i \in 1 .. n \/ i = n + 1)
        /\ \A i \in 1 .. n : i \in 1 .. n + 1
    OBVIOUS
  <1>2. \A i \in DOMAIN s : s[i].from \in S /\ s[i].to \in S
    <2>1. \A i \in DOMAIN s : s[i] \in [from : S, to : S]
      BY <1>1, SeqIs
    <2> QED
      BY <2>1
  <1>3. PICK T, rank : Forest(parent, T, rank, S) /\ EndsMeet(T, s, n, S)
    BY DEF Reached
  <1> DEFINE T2 == [p \in S |-> IF T[p] = T[a] THEN T[b] ELSE T[p]]
  <1>4. a \in S /\ b \in S
    BY <1>1, <1>2
  <1>5. PICK rank2 : Forest(Joined(parent, edge), T2, rank2, S)
    <2> HIDE DEF edge
    <2>1. a = edge.from /\ b = edge.to
      BY DEF edge
    <2> HIDE DEF a, b
    <2> QED
      BY <1>3, <1>4, <2>1, JoinedForest
  <1>6. ASSUME NEW i \in 1 .. n + 1 PROVE T2[s[i].from] = T2[s[i].to]
    <2>1. s[i].from \in S /\ s[i].to \in S
      BY <1>1, <1>2
    <2>2. CASE i \in 1 .. n
      <3>1. T[s[i].from] = T[s[i].to]
        BY <1>3, <2>2 DEF EndsMeet
      <3> QED
        BY <2>1, <3>1
    <2>3. CASE i = n + 1
      <3>1. s[i].from = a /\ s[i].to = b
        BY <2>3
      <3> HIDE DEF a, b
      <3> QED
        BY <1>4, <3>1
    <2> QED
      BY <1>1, <2>2, <2>3
  <1>7. ASSUME NEW p \in S, \A i \in 1 .. n + 1 : s[i].from # p PROVE T2[p] = p
    <2>1. T[p] = p
      BY <1>1, <1>3, <1>7 DEF EndsMeet
    <2>2. CASE \E i \in 1 .. n : s[i].from = a
      <3>1. PICK i \in 1 .. n : s[i].from = a
        BY <2>2
      <3>2. s[i].to = b
        BY <1>1, <3>1 DEF OneTarget
      <3>3. T[a] = T[b]
        BY <1>3, <3>1, <3>2 DEF EndsMeet
      <3> HIDE DEF a, b
      <3> QED
        BY <2>1, <3>3
    <2>3. CASE \A i \in 1 .. n : s[i].from # a
      <3>1. T[a] = a
        BY <1>3, <1>4, <2>3 DEF EndsMeet
      <3>2. p # a
        BY <1>1, <1>7
      <3> HIDE DEF a, b
      <3> QED
        BY <2>1, <3>1, <3>2
    <2> QED
      BY <2>2, <2>3
  <1>8. EndsMeet(T2, s, n + 1, S)
    <2> HIDE DEF T2
    <2> QED
      BY <1>6, <1>7 DEF EndsMeet
  <1> HIDE DEF T2
  <1> QED
    BY <1>5, <1>8 DEF Reached

(* The forests of S, and the union-find as a fold over them.                *)
Forests(S) ==
    {parent \in [S -> S] : \E T \in [S -> S], rank \in [S -> Nat] : Forest(parent, T, rank, S)}

LEMMA JoinsReach ==
    ASSUME NEW S, NEW s \in Seq([from : S, to : S]), OneTarget(s)
    PROVE  Reached(FoldLeft(Joined, [p \in S |-> p], s), s, Len(s), S)
  <1> DEFINE id == [p \in S |-> p]
             E == [from : S, to : S]
             V == Forests(S)
             F == [x \in V \X E |-> Joined(x[1], x[2])]
             D == SUBSET (1 .. Len(s))
  <1>1. ASSUME NEW parent, NEW T, NEW rank, Forest(parent, T, rank, S) PROVE parent \in V
    BY <1>1 DEF Forest, Forests
  <1>2. id \in V
    <2> DEFINE rank == [p \in S |-> 0]
    <2>1. Forest(id, id, rank, S)
      BY DEF Forest
    <2> HIDE DEF id, rank, V
    <2> QED
      BY <1>1, <2>1
  <1>3. F \in [V \X E -> V]
    <2>1. ASSUME NEW parent \in V, NEW e \in E PROVE Joined(parent, e) \in V
      <3>1. PICK T \in [S -> S], rank \in [S -> Nat] : Forest(parent, T, rank, S)
        BY DEF Forests
      <3>2. e.from \in S /\ e.to \in S
        OBVIOUS
      <3> HIDE DEF V
      <3>3. \E T2, rank2 : Forest(Joined(parent, e), T2, rank2, S)
        BY <3>1, <3>2, JoinedForest
      <3> QED
        BY <1>1, <3>3
    <2> HIDE DEF V, E
    <2>2. \A x \in V \X E : x[1] \in V /\ x[2] \in E
      OBVIOUS
    <2> QED
      BY <2>1, <2>2
  <1>4. Len(s) \in Nat /\ DOMAIN s = 1 .. Len(s) /\ s \in Seq(E) /\ \A i \in 1 .. Len(s) : s[i] \in E
    BY SeqIs
  <1> HIDE DEF V, E, id
  <1>5. PICK g \in [D -> V] : \A t \in D :
            g[t] = IF t = {} THEN id ELSE F[<<g[t \ {Max(t)}], s[Max(t)]>>]
    <2> HIDE DEF F
    <2>1. PICK g \in [D -> V] : IsFold(g, F, id, s, Len(s))
      BY <1>2, <1>3, <1>4, FoldExists
    <2> QED
      BY <2>1 DEF IsFold
  <1>6. \A t \in D : t # {} => Max(t) \in 1 .. Len(s) /\ t \ {Max(t)} \in D
    BY <1>4, IndexSets
  <1>7. \A x \in V, e \in E : F[<<x, e>>] = Joined(x, e)
    OBVIOUS
  <1> HIDE DEF F
  <1>8. g = [t \in D |-> IF t = {} THEN id ELSE Joined(g[t \ {Max(t)}], s[Max(t)])]
    <2>1. ASSUME NEW t \in D, t # {} PROVE g[t] = Joined(g[t \ {Max(t)}], s[Max(t)])
      <3>1. g[t \ {Max(t)}] \in V /\ s[Max(t)] \in E
        BY <1>4, <1>6, <2>1
      <3> QED
        BY <1>5, <1>7, <2>1, <3>1
    <2> QED
      BY <1>5, <2>1
  <1>9. PICK h : /\ h = [t \in D |-> IF t = {} THEN id ELSE Joined(h[t \ {Max(t)}], s[Max(t)])]
                 /\ FoldLeft(Joined, id, s) = h[1 .. Len(s)]
    <2>1. g = [t \in SUBSET (DOMAIN s) |-> IF t = {} THEN id ELSE Joined(g[t \ {Max(t)}], s[Max(t)])]
      BY <1>4, <1>8
    <2> HIDE <1>5
    <2>2. \E h : /\ h = [t \in SUBSET (DOMAIN s) |-> IF t = {} THEN id ELSE Joined(h[t \ {Max(t)}], s[Max(t)])]
                 /\ FoldLeft(Joined, id, s) = h[DOMAIN s]
      BY <2>1 DEF FoldLeft, MapThenFoldSet
    <2> QED
      BY <1>4, <2>2
  <1>10. Computes(h, F, id, V, s)
    <2>1. h[{}] = id
      BY <1>9
    <2>2. ASSUME NEW t \in D, t # {}, h[t \ {Max(t)}] \in V
          PROVE  h[t] = F[<<h[t \ {Max(t)}], s[Max(t)]>>]
      <3>1. s[Max(t)] \in E
        BY <1>4, <1>6, <2>2
      <3>2. h[t] = Joined(h[t \ {Max(t)}], s[Max(t)])
        BY <1>9, <2>2
      <3> QED
        BY <1>7, <2>2, <3>1, <3>2
    <2> QED
      BY <2>1, <2>2 DEF Computes
  <1>11. PICK r \in [0 .. Len(s) -> V] : IsRun(r, F, id, s) /\ r[Len(s)] = h[1 .. Len(s)]
    <2>1. HasRun(h, F, id, V, s)
      BY <1>2, <1>3, <1>4, <1>10, FoldComputes
    <2> QED
      BY <2>1 DEF HasRun
  <1>12. r[0] = id /\ \A i \in 1 .. Len(s) : r[i] = Joined(r[i - 1], s[i])
    <2>1. \A i \in 1 .. Len(s) : i - 1 \in 0 .. Len(s)
      BY <1>4
    <2>2. \A i \in 1 .. Len(s) : r[i - 1] \in V /\ s[i] \in E
      BY <1>4, <1>11, <2>1
    <2> QED
      BY <1>7, <1>11, <2>2 DEF IsRun
  <1> DEFINE P(n) == n <= Len(s) => Reached(r[n], s, n, S)
  <1>13. P(0)
    BY <1>12, StartsReached DEF id
  <1>14. ASSUME NEW n \in Nat, P(n) PROVE P(n + 1)
    <2> SUFFICES ASSUME n + 1 <= Len(s) PROVE Reached(r[n + 1], s, n + 1, S)
      OBVIOUS
    <2>1. n + 1 \in 1 .. Len(s) /\ (n + 1) - 1 = n /\ n <= Len(s)
      BY <1>4
    <2>2. r[n + 1] = Joined(r[n], s[n + 1])
      BY <1>12, <2>1
    <2>3. Reached(Joined(r[n], s[n + 1]), s, n + 1, S)
      BY <1>14, <2>1, JoinReaches DEF E
    <2> QED
      BY <2>2, <2>3
  <1>15. \A n \in Nat : P(n)
    <2> DEFINE N == {n \in Nat : P(n)}
    <2> HIDE DEF P
    <2>1. 0 \in N /\ \A n \in Nat : n \in N => n + 1 \in N
      BY <1>13, <1>14
    <2> HIDE DEF N
    <2>2. \A n \in Nat : n \in N
      BY <2>1, Induction
    <2> QED
      BY <2>2 DEF N
  <1>16. Reached(r[Len(s)], s, Len(s), S)
    <2>1. Len(s) <= Len(s)
      BY <1>4
    <2> QED
      BY <1>4, <1>15, <2>1
  <1> QED
    BY <1>9, <1>11, <1>16 DEF id

(* Where imports run in a circle, there are targets none of which is the    *)
(* last: each imports another of them.                                      *)
Targets(E, p) == {e.to : e \in {d \in E : d.from = p}}
Loops(E) ==
    \E S \in SUBSET {e.to : e \in E} :
        S # {} /\ \A p \in S : Targets(E, p) # {} /\ Targets(E, p) \subseteq S

(* Otherwise the edges determine the roots, in whatever order: from a file  *)
(* whose roots differ, its import leads to another such file.               *)
LEMMA SettledAgree ==
    ASSUME NEW S, NEW q \in Seq([from : S, to : S]), NEW r \in Seq([from : S, to : S]),
           Range(q) = Range(r), ~Loops(Range(r)),
           NEW T, NEW U, EndsMeet(T, q, Len(q), S), EndsMeet(U, r, Len(r), S), NEW x \in S
    PROVE  T[x] = U[x]
  <1> DEFINE E == Range(r)
             differ == {p \in S : T[p] # U[p]}
             L == differ \cap {e.to : e \in E}
  <1>1. /\ DOMAIN q = 1 .. Len(q) /\ \A i \in 1 .. Len(q) : q[i] \in [from : S, to : S]
        /\ DOMAIN r = 1 .. Len(r) /\ \A i \in 1 .. Len(r) : r[i] \in [from : S, to : S]
    BY SeqIs
  <1>2. ASSUME NEW e \in E PROVE e.to \in S /\ T[e.from] = T[e.to] /\ U[e.from] = U[e.to]
    <2>1. PICK i \in 1 .. Len(q) : e = q[i]
      BY <1>1 DEF Range
    <2>2. PICK j \in 1 .. Len(r) : e = r[j]
      BY <1>1 DEF Range
    <2>3. e.to \in S
      BY <1>1, <2>2
    <2> QED
      BY <2>1, <2>2, <2>3 DEF EndsMeet
  <1>3. ASSUME NEW p \in S, Targets(E, p) = {} PROVE T[p] = p /\ U[p] = p
    <2>1. \A e \in E : e.from # p
      BY <1>3 DEF Targets
    <2>2. \A i \in 1 .. Len(q) : q[i] \in E
      BY <1>1 DEF Range
    <2>3. \A i \in 1 .. Len(r) : r[i] \in E
      BY <1>1 DEF Range
    <2> HIDE DEF E
    <2> QED
      BY <2>1, <2>2, <2>3 DEF EndsMeet
  <1> HIDE DEF E
  <1>4. ASSUME NEW p \in differ PROVE Targets(E, p) # {} /\ Targets(E, p) \subseteq L
    <2>1. Targets(E, p) # {}
      BY <1>3
    <2>2. ASSUME NEW y \in Targets(E, p) PROVE y \in L
      <3>1. PICK e \in E : e.from = p /\ e.to = y
        BY DEF Targets
      <3> QED
        BY <1>2, <3>1
    <2> QED
      BY <2>1, <2>2
  <1>5. CASE x \in differ
    <2>1. L # {}
      BY <1>4, <1>5
    <2>2. L \in SUBSET {e.to : e \in E} /\ L \subseteq differ
      OBVIOUS
    <2> HIDE DEF L, differ
    <2>3. Loops(E)
      BY <1>4, <2>1, <2>2 DEF Loops
    <2> QED
      BY <2>3 DEF E
  <1> QED
    BY <1>5

(* So do the keys (applyImportEdges).                                       *)
LEMMA ApplyAgrees ==
    ASSUME NEW key, NEW q \in Seq([from : DOMAIN key, to : DOMAIN key]),
           NEW r \in Seq([from : DOMAIN key, to : DOMAIN key]),
           Range(q) = Range(r), OneTarget(q), OneTarget(r), ~Loops(Range(r))
    PROVE  ApplyImportEdges(key, q) = ApplyImportEdges(key, r)
  <1> DEFINE S == DOMAIN key
             parent(s) == FoldLeft(Joined, [p \in S |-> p], s)
  <1>1. PICK T, a : Forest(parent(q), T, a, S) /\ EndsMeet(T, q, Len(q), S)
    <2>1. Reached(parent(q), q, Len(q), S)
      BY JoinsReach
    <2> HIDE DEF parent
    <2> QED
      BY <2>1 DEF Reached
  <1>2. PICK U, b : Forest(parent(r), U, b, S) /\ EndsMeet(U, r, Len(r), S)
    <2>1. Reached(parent(r), r, Len(r), S)
      BY JoinsReach
    <2> HIDE DEF parent
    <2> QED
      BY <2>1 DEF Reached
  <1>3. ASSUME NEW p \in S PROVE Root(parent(q), p) = Root(parent(r), p)
    <2> HIDE DEF parent
    <2>1. T[p] = U[p]
      <3>1. EndsMeet(T, q, Len(q), S) /\ EndsMeet(U, r, Len(r), S)
        BY <1>1, <1>2
      <3>2. q \in Seq([from : S, to : S]) /\ r \in Seq([from : S, to : S])
        OBVIOUS
      <3> HIDE DEF S
      <3> QED
        BY <3>1, <3>2, SettledAgree
    <2>2. Root(parent(q), p) = T[p] /\ Root(parent(r), p) = U[p]
      BY <1>1, <1>2, RootIs
    <2> QED
      BY <2>1, <2>2
  <1>4. \A s : ApplyImportEdges(key, s) =
           [p \in S |-> IF p \in {e.from : e \in Range(s)} THEN key[Root(parent(s), p)] ELSE key[p]]
    BY DEF ApplyImportEdges
  <1> HIDE DEF parent
  <1> QED
    BY <1>3, <1>4

LEMMA MergeDomain ==
    ASSUME NEW key, NEW family, NEW limit
    PROVE  DOMAIN MergeFamilies(key, family, limit) = DOMAIN key
  BY DEF MergeFamilies

LEMMA ClusterAgrees ==
    ASSUME NEW S, NEW q \in Seq([from : S, to : S]), NEW r \in Seq([from : S, to : S]),
           Range(q) = Range(r), OneTarget(q), OneTarget(r), ~Loops(Range(r))
    PROVE  ClusterFilesEdges(S, q) = ClusterFilesEdges(S, r)
  <1> DEFINE n == Cardinality(S) + 1
             dirs == [p \in S |-> DirKey(p)]
             located == MergeFamilies(dirs, LocaleFamily, n)
             headers == MergeFamilies(located, HeaderFamily, MaxHeaders)
             stems == MergeFamilies(headers, StemFamily, n)
             locks == MergeFamilies(stems, LockFamily, n)
  <1>1. DOMAIN locks = S
    <2>1. DOMAIN dirs = S
      OBVIOUS
    <2> HIDE DEF dirs, n
    <2> QED
      BY <2>1, MergeDomain
  <1>2. \A s : Keys(S, s) = AttachTests(ApplyImportEdges(locks, s))
    BY DEF Keys
  <1> HIDE DEF locks
  <1>3. ApplyImportEdges(locks, q) = ApplyImportEdges(locks, r)
    BY <1>1, ApplyAgrees
  <1>4. Keys(S, q) = Keys(S, r)
    BY <1>2, <1>3
  <1> QED
    BY <1>4 DEF ClusterFilesEdges

(* The edges are those of the files, in the order these are listed.         *)
RepresentativeIn(S, pkg) ==
    LET in == {p \in S : pkg \in PackageOf(p)} IN IF in = {} THEN {} ELSE {Min(in)}
ImportedIn(S, p, imports) ==
    LET hits == {q \in UNION {RepresentativeIn(S, pkg) : pkg \in imports} : Files[q].dir # Files[p].dir}
    IN IF PackageOf(p) # {} /\ Cardinality(hits) = 1 THEN hits ELSE {}
EdgeIn(S, imports, p) ==
    IF ImportedIn(S, p, imports[p]) = {} THEN <<>>
    ELSE <<[from |-> p, to |-> CHOOSE q \in ImportedIn(S, p, imports[p]) : TRUE]>>

LEMMA EdgesAre ==
    ASSUME NEW listing, NEW imports
    PROVE  GoImportEdges(listing, imports) =
               FlattenSeq([i \in DOMAIN listing |-> EdgeIn(Range(listing), imports, listing[i])])
  <1> DEFINE S == Range(listing)
             Hit(p) == IF PackageOf(p) = {} THEN {} ELSE UniqueImported(listing, p, imports[p])
             EdgeOf(p) == IF Hit(p) = {} THEN <<>>
                          ELSE <<[from |-> p, to |-> CHOOSE q \in Hit(p) : TRUE]>>
  <1>1. \A pkg : Representative(listing, pkg) = RepresentativeIn(S, pkg)
    BY DEF Representative, RepresentativeIn
  <1>2. ASSUME NEW p PROVE Hit(p) = ImportedIn(S, p, imports[p])
    <2> DEFINE found == {Representative(listing, pkg) : pkg \in imports[p]}
               found2 == {RepresentativeIn(S, pkg) : pkg \in imports[p]}
    <2>1. found = found2
      BY <1>1
    <2>2. UniqueImported(listing, p, imports[p]) =
             LET hits == {q \in UNION found : Files[q].dir # Files[p].dir}
             IN IF Cardinality(hits) = 1 THEN hits ELSE {}
      BY DEF UniqueImported
    <2>3. ImportedIn(S, p, imports[p]) =
             LET hits == {q \in UNION found2 : Files[q].dir # Files[p].dir}
             IN IF PackageOf(p) # {} /\ Cardinality(hits) = 1 THEN hits ELSE {}
      BY DEF ImportedIn
    <2> HIDE DEF found, found2
    <2> QED
      BY <2>1, <2>2, <2>3
  <1>3. ASSUME NEW p PROVE EdgeOf(p) = EdgeIn(S, imports, p)
    <2>1. Hit(p) = ImportedIn(S, p, imports[p])
      BY <1>2
    <2> HIDE DEF Hit
    <2> QED
      BY <2>1 DEF EdgeIn
  <1>4. GoImportEdges(listing, imports) = FlattenSeq([i \in DOMAIN listing |-> EdgeOf(listing[i])])
    BY DEF GoImportEdges
  <1> HIDE DEF EdgeOf
  <1> QED
    BY <1>3, <1>4

LEMMA EdgeInType ==
    ASSUME NEW S \in SUBSET DOMAIN Files, NEW imports, NEW p \in S
    PROVE  /\ EdgeIn(S, imports, p) \in Seq([from : S, to : S])
           /\ Len(EdgeIn(S, imports, p)) <= 1
           /\ \A e \in Range(EdgeIn(S, imports, p)) : e = EdgeIn(S, imports, p)[1] /\ e.from = p
  <1> DEFINE hit == ImportedIn(S, p, imports[p])
             to == CHOOSE q \in hit : TRUE
  <1>1. ASSUME NEW pkg PROVE RepresentativeIn(S, pkg) \subseteq S
    <2> DEFINE in == {f \in S : pkg \in PackageOf(f)}
    <2>1. in \in SUBSET S /\ in \in SUBSET Nat
      BY GroupingAssumption
    <2>2. RepresentativeIn(S, pkg) = IF in = {} THEN {} ELSE {Min(in)}
      BY DEF RepresentativeIn
    <2> HIDE DEF in
    <2> QED
      BY <2>1, <2>2, MinIsLeast
  <1>2. hit \subseteq S
    <2>1. hit \subseteq UNION {RepresentativeIn(S, pkg) : pkg \in imports[p]}
      BY DEF ImportedIn
    <2> QED
      BY <1>1, <2>1
  <1>3. CASE hit = {}
    <2>1. EdgeIn(S, imports, p) = <<>>
      BY <1>3 DEF EdgeIn
    <2> QED
      BY <2>1 DEF Range
  <1>4. CASE hit # {}
    <2>1. to \in S
      BY <1>2, <1>4
    <2>2. EdgeIn(S, imports, p) = <<[from |-> p, to |-> to]>>
      BY <1>4 DEF EdgeIn
    <2> HIDE DEF to, hit
    <2> DEFINE edge == [from |-> p, to |-> to]
    <2>3. edge \in [from : S, to : S] /\ edge.from = p
      BY <2>1
    <2> HIDE DEF edge
    <2>4. EdgeIn(S, imports, p) = <<edge>>
      BY <2>2 DEF edge
    <2> QED
      BY <2>3, <2>4 DEF Range
  <1> QED
    BY <1>3, <1>4

EdgesOf(S, imports) == UNION {Range(EdgeIn(S, imports, p)) : p \in S}
LEMMA EdgesListed ==
    ASSUME NEW S \in SUBSET DOMAIN Files, NEW imports, NEW listing \in Seq(S), Range(listing) = S
    PROVE  /\ GoImportEdges(listing, imports) \in Seq([from : S, to : S])
           /\ Range(GoImportEdges(listing, imports)) = EdgesOf(S, imports)
           /\ OneTarget(GoImportEdges(listing, imports))
  <1> DEFINE parts == [i \in DOMAIN listing |-> EdgeIn(S, imports, listing[i])]
             found == GoImportEdges(listing, imports)
             E == [from : S, to : S]
  <1>1. found = FlattenSeq(parts)
    BY EdgesAre
  <1>2. Len(listing) \in Nat /\ DOMAIN listing = 1 .. Len(listing) /\ \A i \in DOMAIN listing : listing[i] \in S
    BY SeqIs
  <1>3. parts \in Seq(Seq(E))
    <2>1. \A i \in DOMAIN listing : EdgeIn(S, imports, listing[i]) \in Seq(E)
      BY <1>2, EdgeInType
    <2> HIDE DEF E
    <2> QED
      BY <1>2, <2>1
  <1>4. InSome(parts) = EdgesOf(S, imports)
    <2>1. ASSUME NEW e \in InSome(parts) PROVE e \in EdgesOf(S, imports)
      <3>1. PICK i \in DOMAIN listing : e \in Range(EdgeIn(S, imports, listing[i]))
        BY DEF InSome
      <3> QED
        BY <1>2, <3>1 DEF EdgesOf
    <2>2. ASSUME NEW e \in EdgesOf(S, imports) PROVE e \in InSome(parts)
      <3>1. PICK p \in S : e \in Range(EdgeIn(S, imports, p))
        BY DEF EdgesOf
      <3>2. PICK i \in DOMAIN listing : p = listing[i]
        BY DEF Range
      <3>3. e \in Range(parts[i]) /\ i \in DOMAIN parts
        BY <3>1, <3>2
      <3> HIDE DEF parts
      <3> QED
        BY <3>3 DEF InSome
    <2> HIDE DEF parts
    <2> QED
      BY <2>1, <2>2
  <1> HIDE DEF parts, E
  <1>5. found \in Seq(E) /\ Range(found) = EdgesOf(S, imports)
    BY <1>1, <1>3, <1>4, FlattenElements, FlattenDistinct
  <1>6. OneTarget(found)
    <2>1. ASSUME NEW e \in EdgesOf(S, imports) PROVE e = EdgeIn(S, imports, e.from)[1]
      <3>1. PICK p \in S : e \in Range(EdgeIn(S, imports, p))
        BY DEF EdgesOf
      <3> QED
        BY <3>1, EdgeInType
    <2>2. \A i \in DOMAIN found : found[i] \in EdgesOf(S, imports)
      BY <1>5 DEF Range
    <2> HIDE DEF found
    <2>3. ASSUME NEW i \in DOMAIN found, NEW j \in DOMAIN found, found[i].from = found[j].from
          PROVE  found[i].to = found[j].to
      <3>1. found[i] = EdgeIn(S, imports, found[i].from)[1]
        BY <2>1, <2>2
      <3>2. found[j] = EdgeIn(S, imports, found[j].from)[1]
        BY <2>1, <2>2
      <3>3. found[i] = found[j]
        BY <2>3, <3>1, <3>2
      <3> QED
        BY <3>3
    <2> QED
      BY <2>3 DEF OneTarget
  <1> QED
    BY <1>5, <1>6 DEF E

(* Files in any order, as the command lists them, form the same groups.     *)
LEMMA GroupsAgree ==
    ASSUME NEW S \in SUBSET DOMAIN Files, NEW imports, NEW q \in Seq(S), NEW r \in Seq(S),
           Range(q) = S, Range(r) = S, ~Loops(Range(GoImportEdges(r, imports)))
    PROVE  Groups(q, imports) = ClusterFilesEdges(S, GoImportEdges(r, imports))
  <1> DEFINE a == GoImportEdges(q, imports)
             b == GoImportEdges(r, imports)
  <1>1. /\ a \in Seq([from : S, to : S]) /\ OneTarget(a)
        /\ b \in Seq([from : S, to : S]) /\ OneTarget(b)
        /\ Range(a) = Range(b)
    BY EdgesListed
  <1>2. ~Loops(Range(b))
    OBVIOUS
  <1>3. Groups(q, imports) = ClusterFilesEdges(S, a)
    BY DEF Groups
  <1> HIDE DEF a, b
  <1>4. ClusterFilesEdges(S, a) = ClusterFilesEdges(S, b)
    BY <1>1, <1>2, ClusterAgrees
  <1> QED
    BY <1>3, <1>4 DEF b

(* While groups are packed, they are those that the imports of the changed  *)
(* files, sorted, make.                                                     *)
Grouped ==
    phase = "pack" =>
        /\ edges = GoImportEdges(Sorted(ChangedFiles), input.imports)
        /\ groups = ClusterFilesEdges(ChangedFiles, edges)

LEMMA GroupedInit == Init => Grouped
  BY DEF Init, Grouped

LEMMA GroupedStep == ASSUME Grouped, [Next]_vars PROVE Grouped'
  <1>1. ASSUME phase' = phase, UNCHANGED <<input, edges, groups>> PROVE Grouped'
    BY <1>1 DEF Grouped, ChangedFiles, Sections
  <1>2. ASSUME phase' # "pack" PROVE Grouped'
    BY <1>2 DEF Grouped
  <1>3. CASE UNCHANGED vars
    BY <1>1, <1>3 DEF vars
  <1>4. CASE Interrupted \/ NoRoomForContext \/ NoRoomForManifest
    BY <1>2, <1>4 DEF Interrupted, NoRoomForContext, NoRoomForManifest, Refuse
  <1>5. CASE BeginSection
    BY <1>2, <1>5 DEF BeginSection, Refuse
  <1>6. CASE SplitChunk
    BY <1>2, <1>6 DEF SplitChunk, Refuse
  <1>7. CASE Group
    BY <1>7 DEF Group, Grouped, ChangedFiles, Sections
  <1>8. CASE Pack
    <2>1. \/ phase' = "refused"
          \/ phase' = phase /\ UNCHANGED <<input, edges, groups>>
      BY <1>8 DEF Pack, Refuse
    <2> QED
      BY <1>1, <1>2, <2>1
  <1>9. CASE PackLast
    BY <1>2, <1>9 DEF PackLast
  <1>10. CASE AddNeighbor
    BY <1>2, <1>10 DEF AddNeighbor, Add, Refuse
  <1>11. CASE AddEdge
    BY <1>2, <1>11 DEF AddEdge, Add, Refuse
  <1>12. CASE Validate
    BY <1>2, <1>12 DEF Validate
  <1>13. CASE Answered
    BY <1>1, <1>13 DEF Answered, vars
  <1> QED
    BY <1>3, <1>4, <1>5, <1>6, <1>7, <1>8, <1>9, <1>10, <1>11, <1>12, <1>13 DEF Next

LEMMA CircularLoops == Circular <=> Loops(Range(edges))
  BY DEF Circular, Loops, Targets

(* The files that the groups command is given are the changed ones, in      *)
(* whatever order.                                                          *)
ListsChanged == Range(input.listing) = ChangedFiles

LEMMA OrderNeverMatters ==
    ASSUME PlanInv, Grouped, ListsChanged PROVE OrderIrrelevant
  <1> SUFFICES ASSUME phase = "pack", ~Circular
               PROVE  Groups(input.listing, input.imports) = groups
    BY DEF OrderIrrelevant
  <1> DEFINE S == ChangedFiles
             q == input.listing
  <1>1. input \in Selections
    BY DEF PlanInv, Typed
  <1>2. S \in SUBSET DOMAIN Files
    BY <1>1, ChangedFilesType
  <1>3. q \in Seq(S) /\ Range(q) = S
    <2>1. q \in Seq(DOMAIN Files)
      BY <1>1 DEF Selections
    <2>2. Range(q) = S
      BY DEF ListsChanged
    <2> HIDE DEF q, S
    <2>3. \A i \in 1 .. Len(q) : q[i] \in S
      BY <2>1, <2>2 DEF Range
    <2> QED
      BY <2>1, <2>2, <2>3
  <1>4. Sorted(S) \in Seq(S) /\ Range(Sorted(S)) = S
    BY <1>2, FileSets, SortedAll
  <1>5. edges = GoImportEdges(Sorted(S), input.imports) /\ groups = ClusterFilesEdges(S, edges)
    BY DEF Grouped
  <1>6. ~Loops(Range(GoImportEdges(Sorted(S), input.imports)))
    BY <1>5, CircularLoops
  <1> HIDE DEF S
  <1>7. Groups(q, input.imports) = ClusterFilesEdges(S, GoImportEdges(Sorted(S), input.imports))
    BY <1>2, <1>3, <1>4, <1>6, GroupsAgree
  <1> QED
    BY <1>5, <1>7

-----------------------------------------------------------------------------
(* Theorems.                                                                *)

(* The invariant holds in every reachable state of buildReviewPlan, for     *)
(* every selection of well-formed sections and all byte constants that      *)
(* leave the reserves planSplitSection and planAddBoundaries count on.      *)
THEOREM PlanInvariant == Spec => []PlanInv
  BY PlanInit, PlanStep, PTL DEF Spec

(* And so does the second one: the tiling of the diff, the partition of the *)
(* changed files and the fragments packed (buildReviewPlan).                *)
THEOREM OwnInvariant == Spec => []OwnInv
  BY OwnInit, OwnStep, PlanInvariant, PTL DEF Spec

(* What was split always fits when it is packed (buildReviewPlan,           *)
(* "indivisible fragment"): the reserves of planSplitSection are enough for *)
(* the header, the path and the frame that are put around a chunk.          *)
NoneTooLarge == reason # "fragment"
THEOREM SplitSuffices == Spec => []NoneTooLarge
  <1>1. PlanInv => NoneTooLarge
    BY DEF PlanInv, Finished, NoneTooLarge
  <1> QED
    BY <1>1, PlanInvariant, PTL

(* Every prompt of a plan leaves the executor its framing room, the         *)
(* discovery context of a local task and the excerpts of a boundary         *)
(* included (appendDiscoveryContext, planAddBoundaries).                    *)
THEOREM AllPromptsFit == Spec => []PromptsFit
  <1>1. PlanInv => PromptsFit
    BY TasksFit DEF PromptsFit, Range
  <1> QED
    BY <1>1, PlanInvariant, PTL

(* A plan looks at every local task from the outside, and at every two      *)
(* tasks an import joins together (planAddBoundaries).                      *)
THEOREM AllEdgesReviewed == Spec => []EdgesReviewed
  <1>1. ASSUME PlanInv, phase = "planned"
        PROVE  /\ \A i \in DOMAIN locals : \E t \in Range(boundaries) : t.about[1] = i
               /\ \A e \in Range(edges) : \A i, j \in DOMAIN locals :
                     (i # j /\ e.from \in Paths(locals[i]) /\ e.to \in Paths(locals[j]))
                        => {i, j} \in Covered
    <2>1. /\ locals \in Seq(Locals(input.base)) /\ boundaries \in Seq(Boundary)
          /\ Len(boundaries) >= Len(locals) /\ Uncovered = {}
          /\ \A i \in DOMAIN boundaries : i <= Len(locals) => boundaries[i].about[1] = i
      BY <1>1 DEF PlanInv, Packable, Bordered, Finished
    <2>2. /\ Len(locals) \in Nat /\ DOMAIN locals = 1 .. Len(locals)
          /\ Len(boundaries) \in Nat /\ DOMAIN boundaries = 1 .. Len(boundaries)
      BY <2>1
    <2>3. ASSUME NEW i \in DOMAIN locals PROVE \E t \in Range(boundaries) : t.about[1] = i
      <3>1. i \in DOMAIN boundaries /\ i <= Len(locals)
        BY <2>1, <2>2
      <3>2. boundaries[i].about[1] = i /\ boundaries[i] \in Range(boundaries)
        BY <2>1, <3>1 DEF Range
      <3> QED
        BY <3>2
    <2>4. ASSUME NEW e \in Range(edges), NEW i \in DOMAIN locals, NEW j \in DOMAIN locals,
                 i # j, e.from \in Paths(locals[i]), e.to \in Paths(locals[j]), {i, j} \notin Covered
          PROVE  FALSE
      <3>1. PICK n \in DOMAIN edges : e = edges[n]
        BY DEF Range
      <3> DEFINE pairs == {ab \in Owners(edges[n].from) \X Owners(edges[n].to) :
                              ab[1] # ab[2] /\ {ab[1], ab[2]} \notin Covered}
      <3>2. i \in Owners(edges[n].from) /\ j \in Owners(edges[n].to)
        BY <2>4, <3>1 DEF Owners
      <3>3. <<i, j>> \in pairs
        BY <2>4, <3>2
      <3>4. <<n, i, j>> \in Uncovered
        <4>1. <<n, <<i, j>>[1], <<i, j>>[2]>> \in {<<n, ab[1], ab[2]>> : ab \in pairs}
          BY <3>3
        <4> QED
          BY <4>1 DEF Uncovered
      <3> QED
        BY <2>1, <3>4
    <2> QED
      BY <2>3, <2>4
  <1>2. PlanInv => EdgesReviewed
    BY <1>1 DEF EdgesReviewed
  <1> QED
    BY <1>2, PlanInvariant, PTL

(* Nothing goes unreviewed and nothing is reviewed twice as part of a local *)
(* task: once the tasks are packed, every byte of the diff is owned by one  *)
(* of them, once (planSplitSection, buildReviewPlan).                       *)
THEOREM AllOwnedExactly == Spec => []OwnedExactly
  <1>1. PlanInv /\ OwnInv => OwnedExactly
    BY OnePlace DEF OwnedExactly, Places
  <1> QED
    BY <1>1, PlanInvariant, OwnInvariant, PTL

(* The groups packed into tasks are a partition of the changed files: no    *)
(* file is left out of them and none is in two (clusterFilesEdges).         *)
GroupsPartition ==
    phase = "pack" =>
        UNION Range(groups) = ChangedFiles
          /\ \A i, j \in DOMAIN groups : i # j => groups[i] \cap groups[j] = {}
THEOREM AllGroupsPartition == Spec => []GroupsPartition
  <1>1. OwnInv => GroupsPartition
    BY DEF OwnInv, Parted, Partition, GroupsPartition
  <1> QED
    BY <1>1, OwnInvariant, PTL

(* The groups and their pathspecs select the change once, unless it has a   *)
(* file where another of its files has a directory, whose pathspec would    *)
(* select both (clusterFilesEdges, groupPathspecs).                         *)
NoneAbove == \A p, q \in ChangedFiles : IsPrefix(Path(p), Path(q)) => p = q
THEOREM AllSpecsSelect == Spec => [](NoneAbove => SpecsSelectGroup)
  <1>1. ASSUME PlanInv, OwnInv, NoneAbove, phase = "pack"
        PROVE  /\ UNION Range(groups) = ChangedFiles
               /\ \A i \in DOMAIN groups :
                     UNION {Under(spec, ChangedFiles) :
                               spec \in GroupPathspecs(groups[i], ChangedFiles)} = groups[i]
               /\ \A i, j \in DOMAIN groups : i # j => groups[i] \cap groups[j] = {}
    <2>1. Partition(groups, ChangedFiles) /\ input \in Selections
      BY <1>1 DEF PlanInv, OwnInv, Parted, Typed
    <2>2. \A i \in DOMAIN groups : groups[i] \in SUBSET ChangedFiles
      BY <2>1 DEF Partition, Range
    <2>3. ChangedFiles \in SUBSET DOMAIN Files
      BY <2>1, ChangedFilesType
    <2>4. ASSUME NEW i \in DOMAIN groups
          PROVE  UNION {Under(spec, ChangedFiles) :
                           spec \in GroupPathspecs(groups[i], ChangedFiles)} = groups[i]
      BY <1>1, <2>2, <2>3, SpecsSelect DEF NoneAbove
    <2> QED
      BY <2>1, <2>4 DEF Partition
  <1>2. PlanInv /\ OwnInv => (NoneAbove => SpecsSelectGroup)
    BY <1>1 DEF SpecsSelectGroup
  <1> QED
    BY <1>2, PlanInvariant, OwnInvariant, PTL

(* Boundaries differ, and what is built is valid (planAddBoundaries,         *)
(* ValidatePlan).                                                           *)
THEOREM HonestInvariant == Spec => []Honest
  BY HonestInit, HonestStep, PlanInvariant, OwnInvariant, PTL DEF Spec

(* While hunks are cut, a line and its "\ No newline" stay together          *)
(* (planSplitSection).                                                      *)
THEOREM CutInvariant == Spec => []CutInv
  BY CutInit, CutStep, PlanInvariant, PTL DEF Spec

(* A plan that is built passes ValidatePlan, and what is split always fits; *)
(* hunks add up when their headers count their lines, as git writes them,   *)
(* and no cut makes a standard body look like one that is not.              *)
THEOREM AllHonest == Spec => [](CountsAgree => HonestRefusals)
  <1>1. PlanInv /\ Honest /\ CutInv => (CountsAgree => HonestRefusals)
    BY DEF PlanInv, Finished, Honest, CutInv, HonestRefusals
  <1> QED
    BY <1>1, PlanInvariant, HonestInvariant, CutInvariant, PTL

(* While planSplitSection splits, its cursors are at the place of the next  *)
(* line, and the fragments have the lines before it at their places.        *)
THEOREM LinesInvariant == Spec => []LinesInv
  BY LinesInit, LinesStep, PlanInvariant, PTL DEF Spec

(* The parts of a hunk have its lines at the coordinates the hunk gives     *)
(* them, and anchor the same lines (planSplitSection): a finding reported   *)
(* from a part stands on the line it is about. Headers count the lines of   *)
(* their hunk and number them from 1, as git writes them.                   *)
THEOREM AllCoordinatesPreserved == Spec => [](GitWrites => CoordinatesPreserved)
  <1>1. PlanInv /\ OwnInv /\ LinesInv => (GitWrites => CoordinatesPreserved)
    BY SplitKeepsLines
  <1> QED
    BY <1>1, PlanInvariant, OwnInvariant, LinesInvariant, PTL

(* The groups of a plan are those that the groups command answers for the   *)
(* same files in whatever order git lists them, unless imports run in a     *)
(* circle (goImportEdges, applyImportEdges, clusterFilesEdges).             *)
THEOREM AllOrdersAgree == Spec => [](ListsChanged => OrderIrrelevant)
  <1>1. Spec => []Grouped
    BY GroupedInit, GroupedStep, PTL DEF Spec
  <1>2. PlanInv /\ Grouped => (ListsChanged => OrderIrrelevant)
    BY OrderNeverMatters
  <1> QED
    BY <1>1, <1>2, PlanInvariant, PTL

=============================================================================
