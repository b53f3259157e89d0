---------------------------- MODULE VectorFacts ----------------------------
(***************************************************************************)
(* What the proofs need to know of vectors: the effect of push_back, of    *)
(* erasing one position and of taking from the front, that a scan has a    *)
(* first element to visit, and that what is folded over a vector exists.   *)
(***************************************************************************)
EXTENDS Integers, Sequences, FiniteSets, Functions, SequencesExt,
        SequenceTheorems, FiniteSetTheorems, WellFoundedInduction, TLAPS

(* Erasing position k keeps what stands before and closes the gap after it. *)
LEMMA RemoveAtElements ==
  ASSUME NEW S, NEW q \in Seq(S), NEW k \in DOMAIN q
  PROVE  /\ RemoveAt(q, k) \in Seq(S)
         /\ Len(RemoveAt(q, k)) = Len(q) - 1
         /\ \A i \in 1 .. (Len(q) - 1) :
              RemoveAt(q, k)[i] = IF i < k THEN q[i] ELSE q[i + 1]
<1> DEFINE left == SubSeq(q, 1, k - 1)
           right == SubSeq(q, k + 1, Len(q))
<1>1. /\ left \in Seq(S) /\ Len(left) = k - 1
      /\ \A i \in 1 .. (k - 1) : left[i] = q[i]
  OBVIOUS
<1>2. /\ right \in Seq(S) /\ Len(right) = Len(q) - k
      /\ \A i \in 1 .. (Len(q) - k) : right[i] = q[i + k]
  OBVIOUS
<1> HIDE DEF left, right
<1>3. /\ left \o right \in Seq(S) /\ Len(left \o right) = Len(q) - 1
      /\ \A i \in 1 .. (Len(q) - 1) :
           (left \o right)[i] = IF i < k THEN q[i] ELSE q[i + 1]
  BY <1>1, <1>2
<1> QED BY <1>3 DEF RemoveAt, left, right

(* From a vector without duplicates that takes exactly one element.        *)
LEMMA RemoveAtInjective ==
  ASSUME NEW S, NEW q \in Seq(S), NEW k \in DOMAIN q, IsInjective(q)
  PROVE  /\ IsInjective(RemoveAt(q, k))
         /\ ToSet(RemoveAt(q, k)) = ToSet(q) \ {q[k]}
<1> DEFINE rest == RemoveAt(q, k)
<1>1. /\ rest \in Seq(S)
      /\ Len(rest) = Len(q) - 1
      /\ \A i \in 1 .. (Len(q) - 1) : rest[i] = IF i < k THEN q[i] ELSE q[i + 1]
  BY RemoveAtElements
<1> HIDE DEF rest
<1>2. IsInjective(rest)
  BY <1>1 DEF IsInjective
<1>3. ToSet(rest) \subseteq ToSet(q) \ {q[k]}
  BY <1>1 DEF IsInjective, ToSet
<1>4. ASSUME NEW e \in ToSet(q) \ {q[k]}  PROVE e \in ToSet(rest)
  <2>1. PICK j \in DOMAIN q : q[j] = e
    BY DEF ToSet
  <2>2. CASE j < k
    BY <1>1, <2>1, <2>2 DEF ToSet
  <2>3. CASE j > k
    <3>1. k \in 1 .. Len(q) /\ j \in 1 .. Len(q) /\ Len(q) \in Nat
      OBVIOUS
    <3>2. j - 1 \in 1 .. (Len(q) - 1) /\ ~(j - 1 < k) /\ (j - 1) + 1 = j
      BY <2>3, <3>1
    <3>3. rest[j - 1] = q[(j - 1) + 1]
      BY <1>1, <3>2
    <3>4. j - 1 \in DOMAIN rest
      BY <1>1, <3>2
    <3> QED BY <2>1, <3>2, <3>3, <3>4 DEF ToSet
  <2> QED BY <2>1, <2>2, <2>3
<1> QED BY <1>2, <1>3, <1>4 DEF rest

(* push_back of a new element keeps a vector free of duplicates. *)
LEMMA PushBackProperties ==
  ASSUME NEW S, NEW q \in Seq(S), NEW e \in S, IsInjective(q), e \notin ToSet(q)
  PROVE  /\ Append(q, e) \in Seq(S)
         /\ IsInjective(Append(q, e))
         /\ ToSet(Append(q, e)) = ToSet(q) \cup {e}
<1>1. /\ Append(q, e) \in Seq(S)
      /\ Len(Append(q, e)) = Len(q) + 1
      /\ \A i \in 1 .. Len(q) : Append(q, e)[i] = q[i]
      /\ Append(q, e)[Len(q) + 1] = e
  BY AppendProperties
<1>2. \A i \in 1 .. Len(q) : q[i] # e
  BY DEF ToSet
<1>3. IsInjective(Append(q, e))
  BY <1>1, <1>2 DEF IsInjective
<1>4. ToSet(Append(q, e)) = ToSet(q) \cup {e}
  BY <1>1 DEF ToSet
<1> QED BY <1>1, <1>3, <1>4

(* A non-empty set of positive numbers has a least element. *)
LEMMA LeastIndex ==
  ASSUME NEW T \in SUBSET (Nat \ {0}), T # {}
  PROVE  \E k \in T : \A j \in T : k <= j
<1> DEFINE Upto == {1 .. k : k \in T}
           Less == StrictSubsetOrdering(Nat)
<1>1. IsWellFoundedOn(Less, FiniteSubsetsOf(Nat))
  BY FS_StrictSubsetOrderingWellFounded
<1>2. \A k \in T : 1 .. k \in SUBSET Nat /\ IsFiniteSet(1 .. k)
  BY FS_Interval
<1>3. Upto \subseteq FiniteSubsetsOf(Nat) /\ Upto # {}
  BY <1>2 DEF FiniteSubsetsOf
<1>4. \E x \in Upto : \A y \in Upto : ~(<<y, x>> \in Less)
  <2> HIDE DEF Upto, Less
  <2> QED BY <1>1, <1>3, WFMin
<1>5. PICK k \in T : \A j \in T : ~(<<1 .. j, 1 .. k>> \in Less)
  BY <1>4
<1>6. ASSUME NEW j \in T, j < k PROVE FALSE
  <2>1. 1 .. j \subseteq 1 .. k /\ k \in 1 .. k /\ k \notin 1 .. j
    BY <1>6
  <2>2. <<1 .. j, 1 .. k>> \in Less
    BY <2>1, <1>2 DEF StrictSubsetOrdering
  <2> QED BY <2>2, <1>5
<1> QED BY <1>6

(* What a queue holds after one element is put in and after some are taken *)
(* out at the front.                                                       *)
LEMMA AppendElements ==
  ASSUME NEW S, NEW q \in Seq(S), NEW e \in S
  PROVE  Append(q, e) \in Seq(S) /\ ToSet(Append(q, e)) = ToSet(q) \cup {e}
BY AppendProperties DEF ToSet

(* recv() takes the first k and handles the very first.                    *)
LEMMA SuffixElements ==
  ASSUME NEW S, NEW q \in Seq(S), NEW k \in 1 .. Len(q)
  PROVE  /\ SubSeq(q, k + 1, Len(q)) \in Seq(S)
         /\ ToSet(SubSeq(q, k + 1, Len(q))) \subseteq ToSet(q)
         /\ Head(q) \in S /\ Head(q) \in ToSet(q)
<1> DEFINE rest == SubSeq(q, k + 1, Len(q))
<1>1. /\ rest \in Seq(S) /\ Len(rest) = Len(q) - k
      /\ \A i \in 1 .. Len(rest) : rest[i] = q[k + i]
  OBVIOUS
<1>2. Head(q) = q[1] /\ 1 \in DOMAIN q
  OBVIOUS
<1> HIDE DEF rest
<1>3. ToSet(rest) \subseteq ToSet(q)
  <2>1. \A i \in DOMAIN rest : rest[i] = q[k + i] /\ k + i \in DOMAIN q
    BY <1>1
  <2> QED BY <2>1 DEF ToSet
<1>4. Head(q) \in S /\ Head(q) \in ToSet(q)
  BY <1>2 DEF ToSet
<1> QED BY <1>1, <1>3, <1>4 DEF rest

-----------------------------------------------------------------------------
(* Induction over the natural numbers, for a set: it has 0, and the        *)
(* successor of every number in it.                                        *)
LEMMA NatSetInduction ==
  ASSUME NEW S, 0 \in S, \A n \in S \cap Nat : n + 1 \in S
  PROVE  Nat \subseteq S
<1> DEFINE T == Nat \ S
           R == OpToRel(<, Nat)
<1>1. IsWellFoundedOn(R, Nat)
  BY NatLessThanWellFounded
<1>2. \A x, y \in Nat : x < y => <<x, y>> \in R
  BY DEF OpToRel
<1> SUFFICES ASSUME T # {} PROVE FALSE
  OBVIOUS
<1>3. PICK x \in T : \A y \in T : ~ (<<y, x>> \in R)
  <2> HIDE DEF R
  <2> QED BY <1>1, WFMin
<1> HIDE DEF R
<1>4. x # 0 /\ x - 1 \in Nat /\ x - 1 < x
  BY <1>3
<1>5. x - 1 \notin T
  BY <1>2, <1>3, <1>4
<1> QED BY <1>3, <1>4, <1>5

(* The largest of some of the first m numbers, m among them, is m.         *)
LEMMA MaxUpTo ==
  ASSUME NEW m \in Nat, NEW s \in SUBSET (1 .. m), m \in s
  PROVE  Max(s) = m
<1>1. \A y \in s : m >= y
  OBVIOUS
<1>2. \A x \in s : (\A y \in s : x >= y) => x = m
  OBVIOUS
<1> QED BY <1>1, <1>2 DEF Max

(* Some of the first n numbers have a largest one. *)
LEMMA MaxOfInterval ==
  ASSUME NEW n \in Nat, NEW s \in SUBSET (1 .. n), s # {}
  PROVE  Max(s) \in s
<1> DEFINE I == {m \in Nat : \A t \in SUBSET (1 .. m) : t # {} => Max(t) \in t}
<1>1. 0 \in I
  <2>1. 1 .. 0 = {}
    OBVIOUS
  <2> QED BY <2>1
<1>2. ASSUME NEW m \in I \cap Nat PROVE m + 1 \in I
  <2> SUFFICES ASSUME NEW t \in SUBSET (1 .. (m + 1)), t # {} PROVE Max(t) \in t
    OBVIOUS
  <2>1. CASE m + 1 \in t
    BY <2>1, MaxUpTo
  <2>2. CASE m + 1 \notin t
    BY <2>2, <1>2
  <2> QED BY <2>1, <2>2
<1> HIDE DEF I
<1>3. n \in I
  BY <1>1, <1>2, NatSetInduction
<1> QED BY <1>3 DEF I

(* FoldLeft over a vector of length n is the value for 1 .. n of a function *)
(* on the sets of its indices, which goes from the largest index down:     *)
(* there is one, so the CHOOSE of the definition finds one.                *)
IsFold(g, n, base, step) ==
    \A s \in SUBSET (1 .. n) :
       g[s] = IF s = {} THEN base ELSE step[Max(s)][g[s \ {Max(s)}]]

LEMMA FoldExists ==
  ASSUME NEW n \in Nat, NEW V, NEW base \in V, NEW step \in [1 .. n -> [V -> V]]
  PROVE  \E g \in [SUBSET (1 .. n) -> V] : IsFold(g, n, base, step)
<1> DEFINE Iterates(m, g) ==
             \A s \in SUBSET (1 .. m) :
               g[s] = IF s = {} THEN base ELSE step[Max(s)][g[s \ {Max(s)}]]
           Exists(m) == m <= n => \E g \in [SUBSET (1 .. m) -> V] : Iterates(m, g)
           I == {m \in Nat : Exists(m)}
<1>1. Exists(0)
  <2> DEFINE g == [s \in SUBSET (1 .. 0) |-> base]
  <2>1. g \in [SUBSET (1 .. 0) -> V] /\ Iterates(0, g)
    OBVIOUS
  <2> QED BY <2>1
<1>2. ASSUME NEW m \in Nat, Exists(m) PROVE Exists(m + 1)
  <2> SUFFICES ASSUME m + 1 <= n
               PROVE  \E g \in [SUBSET (1 .. (m + 1)) -> V] : Iterates(m + 1, g)
    OBVIOUS
  <2>1. PICK g \in [SUBSET (1 .. m) -> V] : Iterates(m, g)
    <3>1. m <= n
      OBVIOUS
    <3> HIDE DEF Iterates
    <3> QED BY <1>2, <3>1
  <2> DEFINE h == [s \in SUBSET (1 .. (m + 1)) |->
                     IF m + 1 \in s THEN step[m + 1][g[s \ {m + 1}]] ELSE g[s]]
  <2>2. \A s \in SUBSET (1 .. (m + 1)) :
           /\ m + 1 \in s => s \ {m + 1} \in SUBSET (1 .. m) /\ Max(s) = m + 1
           /\ m + 1 \notin s => s \in SUBSET (1 .. m)
    BY MaxUpTo
  <2>3. h \in [SUBSET (1 .. (m + 1)) -> V]
    BY <2>2
  <2>4. \A s \in SUBSET (1 .. m) : h[s] = g[s]
    OBVIOUS
  <2>5. ASSUME NEW s \in SUBSET (1 .. (m + 1))
        PROVE  h[s] = IF s = {} THEN base ELSE step[Max(s)][h[s \ {Max(s)}]]
    <3>1. CASE m + 1 \in s
      <4>1. h[s] = step[m + 1][g[s \ {m + 1}]]
        BY <3>1
      <4>2. s \ {m + 1} \in SUBSET (1 .. m) /\ Max(s) = m + 1 /\ s # {}
        BY <3>1, <2>2
      <4>3. h[s \ {m + 1}] = g[s \ {m + 1}]
        BY <2>4, <4>2
      <4> HIDE DEF h
      <4> QED BY <4>1, <4>2, <4>3
    <3>2. CASE m + 1 \notin s
      <4>1. h[s] = g[s] /\ s \in SUBSET (1 .. m)
        BY <3>2, <2>2
      <4>2. s \ {Max(s)} \in SUBSET (1 .. m)
        BY <4>1
      <4>3. h[s \ {Max(s)}] = g[s \ {Max(s)}]
        BY <4>2, <2>4
      <4>4. g[s] = IF s = {} THEN base ELSE step[Max(s)][g[s \ {Max(s)}]]
        BY <2>1, <4>1
      <4> HIDE DEF h
      <4> QED BY <4>1, <4>3, <4>4
    <3> QED BY <3>1, <3>2
  <2> HIDE DEF h
  <2> QED BY <2>3, <2>5
<1> HIDE DEF Exists
<1>3. 0 \in I /\ \A m \in I \cap Nat : m + 1 \in I
  BY <1>1, <1>2
<1> HIDE DEF I
<1>4. n \in I
  BY <1>3, NatSetInduction
<1>5. Exists(n) /\ n <= n
  BY <1>4 DEF I
<1> QED BY <1>5 DEF Exists, IsFold

(* Two folds that start alike and take the same steps end alike. *)
LEMMA SameSteps ==
  ASSUME NEW n \in Nat, NEW f, NEW g, f[{}] = g[{}],
         \A k \in 1 .. n : f[1 .. (k - 1)] = g[1 .. (k - 1)] => f[1 .. k] = g[1 .. k]
  PROVE  f[1 .. n] = g[1 .. n]
<1> DEFINE I == {k \in Nat : k <= n => f[1 .. k] = g[1 .. k]}
<1>1. 0 \in I
  <2>1. 1 .. 0 = {}
    OBVIOUS
  <2> QED BY <2>1
<1>2. ASSUME NEW k \in I \cap Nat PROVE k + 1 \in I
  <2> SUFFICES ASSUME k + 1 <= n PROVE f[1 .. (k + 1)] = g[1 .. (k + 1)]
    OBVIOUS
  <2>1. k + 1 \in 1 .. n /\ k <= n /\ (k + 1) - 1 = k
    OBVIOUS
  <2>2. f[1 .. k] = g[1 .. k]
    BY <2>1
  <2>3. f[1 .. ((k + 1) - 1)] = g[1 .. ((k + 1) - 1)] => f[1 .. (k + 1)] = g[1 .. (k + 1)]
    BY <2>1
  <2> QED BY <2>1, <2>2, <2>3
<1> HIDE DEF I
<1>3. n \in I
  BY <1>1, <1>2, NatSetInduction
<1> QED BY <1>3 DEF I
=============================================================================
