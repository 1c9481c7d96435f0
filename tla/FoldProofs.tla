----------------------------- MODULE FoldProofs -----------------------------
(***************************************************************************)
(* What the folds of the community modules compute: lemmas for the models  *)
(* that add up sizes (Manifest.TotalSize) and put lengths together of      *)
(* their bytes (nextFrame, comm.Receive).                                  *)
(*                                                                         *)
(* Induction over the naturals is taken here from WFMin, the existence of  *)
(* a least element, which is about a set and not about an operator.        *)
(***************************************************************************)
EXTENDS SequencesExt, WellFoundedInduction, TLAPS

LEMMA OrderFounded ==
  \E Q : IsWellFoundedOn(Q, Nat) /\ \A n, k \in Nat : <<n, k>> \in Q <=> n < k
<1>1. IsWellFoundedOn(OpToRel(<, Nat), Nat)
  BY NatLessThanWellFounded
<1>2. \A n, k \in Nat : <<n, k>> \in OpToRel(<, Nat) <=> n < k
  BY DEF OpToRel
<1> WITNESS OpToRel(<, Nat)
<1> QED
  <2>1. IsWellFoundedOn(OpToRel(<, Nat), Nat)
    BY <1>1
  <2>2. \A n, k \in Nat : <<n, k>> \in OpToRel(<, Nat) <=> n < k
    BY <1>2
  <2> QED
    BY <2>1, <2>2

(* Every set of naturals with an element has a least one.                  *)
LEMMA LeastElement ==
  ASSUME NEW T \in SUBSET Nat, T # {}
  PROVE  \E n \in T : \A k \in T : n <= k
<1>1. PICK Q : IsWellFoundedOn(Q, Nat) /\ \A n, k \in Nat : <<n, k>> \in Q <=> n < k
  BY OrderFounded
<1>2. \E n \in T : \A k \in T : ~(<<k, n>> \in Q)
  <2>1. IsWellFoundedOn(Q, Nat)
    BY <1>1
  <2>2. T \subseteq Nat
    OBVIOUS
  <2> HIDE <1>1
  <2> QED
    BY <2>1, <2>2, WFMin
<1>3. PICK n \in T : \A k \in T : ~(<<k, n>> \in Q)
  BY <1>2
<1>4. \A k \in T : ~(k < n)
  BY <1>1, <1>3
<1> QED
  BY <1>4

(* A set with 0 and with the successor of each of its naturals has all.    *)
LEMMA Induction ==
  ASSUME NEW A, 0 \in A, \A n \in Nat : n \in A => n + 1 \in A
  PROVE  Nat \subseteq A
<1> SUFFICES ASSUME Nat \ A # {} PROVE FALSE
  OBVIOUS
<1>1. PICK n \in Nat \ A : \A k \in Nat \ A : n <= k
  BY LeastElement
<1>2. n # 0
  OBVIOUS
<1>3. n - 1 \in Nat /\ ~(n <= n - 1)
  BY <1>2
<1>4. n - 1 \in A
  BY <1>1, <1>3
<1>5. (n - 1) + 1 \in A
  BY <1>3, <1>4
<1> QED
  BY <1>5

(* The Max of a set of positions is its greatest.                          *)
LEMMA MaxIsGreatest ==
  ASSUME NEW n \in Nat, NEW s \in SUBSET (1 .. n), s # {}
  PROVE  Max(s) \in s /\ \A k \in s : k <= Max(s)
<1> DEFINE T == {b \in Nat : \A k \in s : k <= b}
<1>1. n \in T /\ T \in SUBSET Nat
  OBVIOUS
<1>2. PICK b \in T : \A c \in T : b <= c
  BY <1>1, LeastElement
<1>3. b \in s
  <2>1. SUFFICES ASSUME b \notin s PROVE FALSE
    OBVIOUS
  <2>2. PICK k \in s : TRUE
    OBVIOUS
  <2>3. k \in Nat /\ k >= 1 /\ k <= b /\ b \in Nat
    BY <1>2
  <2>4. b - 1 \in Nat
    BY <2>3
  <2>5. \A j \in s : j <= b - 1
    BY <2>1, <2>4
  <2>6. b - 1 \in T
    BY <2>4, <2>5
  <2> QED
    BY <1>2, <2>3, <2>6
<1>4. \E m \in s : \A k \in s : m >= k
  BY <1>3
<1>5. Max(s) \in s /\ \A k \in s : Max(s) >= k
  BY <1>4 DEF Max
<1>6. \A k \in s : k \in Nat
  OBVIOUS
<1> QED
  BY <1>5, <1>6

LEMMA MaxOfInterval ==
  ASSUME NEW n \in Nat
  PROVE  /\ 1 .. n + 1 # {} /\ Max(1 .. n + 1) = n + 1
         /\ (1 .. n + 1) \ {n + 1} = 1 .. n
<1>1. 1 .. n + 1 \in SUBSET (1 .. n + 1) /\ n + 1 \in 1 .. n + 1 /\ 1 .. n + 1 # {}
  OBVIOUS
<1>2. Max(1 .. n + 1) \in 1 .. n + 1 /\ n + 1 <= Max(1 .. n + 1)
  <2>1. n + 1 \in Nat
    OBVIOUS
  <2> QED
    BY <1>1, <2>1, MaxIsGreatest
<1> QED
  BY <1>1, <1>2

(* g has the fold of every set of the first k positions: step[v, j] is     *)
(* what the j-th element makes of v.                                       *)
FoldsTo(g, k, V, base, step) ==
  /\ g \in [SUBSET (1 .. k) -> V]
  /\ \A s \in SUBSET (1 .. k) :
       g[s] = IF s = {} THEN base ELSE step[<<g[s \ {Max(s)}], Max(s)>>]

LEMMA FoldOfNone ==
  ASSUME NEW V, NEW base \in V, NEW step
  PROVE  \E g : FoldsTo(g, 0, V, base, step)
<1> DEFINE g == [s \in SUBSET (1 .. 0) |-> base]
<1>1. 1 .. 0 = {}
  OBVIOUS
<1>2. g \in [SUBSET (1 .. 0) -> V] /\ \A s \in SUBSET (1 .. 0) : s = {} /\ g[s] = base
  BY <1>1
<1>3. FoldsTo(g, 0, V, base, step)
  BY <1>2 DEF FoldsTo
<1> QED
  BY <1>3

LEMMA FoldOfMore ==
  ASSUME NEW n \in Nat, NEW V, NEW base \in V, NEW step \in [V \X (1 .. n) -> V],
         NEW k \in Nat, k + 1 <= n, NEW g, FoldsTo(g, k, V, base, step)
  PROVE  \E G : FoldsTo(G, k + 1, V, base, step)
<1> DEFINE G == [s \in SUBSET (1 .. k + 1) |->
                  IF k + 1 \in s THEN step[<<g[s \ {k + 1}], k + 1>>] ELSE g[s]]
<1>1. /\ g \in [SUBSET (1 .. k) -> V]
      /\ \A s \in SUBSET (1 .. k) :
           g[s] = IF s = {} THEN base ELSE step[<<g[s \ {Max(s)}], Max(s)>>]
  BY DEF FoldsTo
<1>2. ASSUME NEW s \in SUBSET (1 .. k + 1), k + 1 \notin s
      PROVE  s \in SUBSET (1 .. k)
  BY <1>2
<1>3. ASSUME NEW s \in SUBSET (1 .. k + 1)
      PROVE  s \ {k + 1} \in SUBSET (1 .. k)
  BY <1>3
<1>4. k + 1 \in 1 .. n
  OBVIOUS
<1>5. G \in [SUBSET (1 .. k + 1) -> V]
  <2>1. ASSUME NEW s \in SUBSET (1 .. k + 1)
        PROVE  (IF k + 1 \in s THEN step[<<g[s \ {k + 1}], k + 1>>] ELSE g[s]) \in V
    <3>1. CASE k + 1 \in s
      <4>1. g[s \ {k + 1}] \in V
        BY <1>1, <1>3, <2>1
      <4>2. <<g[s \ {k + 1}], k + 1>> \in V \X (1 .. n)
        BY <1>4, <4>1
      <4> QED
        BY <3>1, <4>2
    <3>2. CASE k + 1 \notin s
      BY <1>1, <1>2, <3>2
    <3> QED
      BY <3>1, <3>2
  <2> QED
    BY <2>1
<1>6. ASSUME NEW s \in SUBSET (1 .. k + 1)
      PROVE  G[s] = IF s = {} THEN base ELSE step[<<G[s \ {Max(s)}], Max(s)>>]
  <2>1. CASE k + 1 \in s
    <3>1. Max(s) = k + 1
      <4>1. s # {} /\ k + 1 \in Nat
        BY <2>1
      <4>2. Max(s) \in s /\ k + 1 <= Max(s)
        BY <2>1, <4>1, MaxIsGreatest
      <4>3. Max(s) \in 1 .. k + 1
        BY <4>2
      <4> HIDE DEF G
      <4> QED
        BY <4>2, <4>3
    <3>2. G[s \ {k + 1}] = g[s \ {k + 1}]
      <4>1. s \ {k + 1} \in SUBSET (1 .. k + 1) /\ k + 1 \notin s \ {k + 1}
        BY <1>6
      <4> QED
        BY <4>1
    <3>3. G[s] = step[<<g[s \ {k + 1}], k + 1>>]
      BY <2>1
    <3> HIDE DEF G
    <3> QED
      BY <2>1, <3>1, <3>2, <3>3
  <2>2. CASE k + 1 \notin s
    <3>1. s \in SUBSET (1 .. k) /\ G[s] = g[s]
      BY <1>2, <2>2
    <3>2. g[s] = IF s = {} THEN base ELSE step[<<g[s \ {Max(s)}], Max(s)>>]
      BY <1>1, <3>1
    <3>3. G[s \ {Max(s)}] = g[s \ {Max(s)}]
      <4>1. s \ {Max(s)} \in SUBSET (1 .. k + 1) /\ k + 1 \notin s \ {Max(s)}
        BY <1>6, <2>2
      <4> QED
        BY <4>1
    <3> HIDE DEF G
    <3> QED
      BY <3>1, <3>2, <3>3
  <2> QED
    BY <2>1, <2>2
<1> HIDE DEF G
<1>7. FoldsTo(G, k + 1, V, base, step)
  BY <1>5, <1>6 DEF FoldsTo
<1> QED
  BY <1>7

(* Folding from the left over n positions is well defined.                 *)
LEMMA FoldIsDefined ==
  ASSUME NEW n \in Nat, NEW V, NEW base \in V, NEW step \in [V \X (1 .. n) -> V]
  PROVE  \E g : FoldsTo(g, n, V, base, step)
<1> DEFINE A == {k \in Nat : k <= n => \E g : FoldsTo(g, k, V, base, step)}
<1>1. 0 \in A
  BY FoldOfNone
<1>2. ASSUME NEW k \in Nat, k \in A PROVE k + 1 \in A
  <2>1. CASE k + 1 <= n
    <3>1. k <= n
      BY <2>1
    <3>2. PICK g : FoldsTo(g, k, V, base, step)
      BY <1>2, <3>1
    <3>3. \E g_1 : FoldsTo(g_1, k + 1, V, base, step)
      BY <2>1, <3>2, FoldOfMore
    <3> QED
      BY <3>3
  <2>2. CASE ~(k + 1 <= n)
    BY <2>2
  <2> QED
    BY <2>1, <2>2
<1> HIDE DEF A
<1>3. n \in A
  BY <1>1, <1>2, Induction
<1> QED
  BY <1>3 DEF A
=============================================================================
