---------------------------- MODULE FoldTheorems ----------------------------
(***************************************************************************)
(* What FoldLeft computes, for any operator: the modules whose state is a  *)
(* fold of a log reason about it with these. A theorem cannot be given an  *)
(* operator by the provers, a module can: instantiate this one for each    *)
(* fold, Name == INSTANCE FoldTheorems WITH Op <- Step.                    *)
(***************************************************************************)
EXTENDS Naturals, Sequences, SequencesExt, WellFoundedInduction, TLAPS

CONSTANT Op(_, _)

Fold(base, seq) == FoldLeft(Op, base, seq)

(* Induction over the numbers, for a set instead of a predicate.           *)
THEOREM NatSet ==
  ASSUME NEW S, 0 \in S, \A n \in Nat : n \in S => n + 1 \in S
  PROVE  Nat \subseteq S
<1> DEFINE T == Nat \ S
<1>1. SUFFICES ASSUME T # {} PROVE FALSE
  OBVIOUS
<1>2. T \subseteq Nat
  OBVIOUS
<1>3. IsWellFoundedOn(OpToRel(<, Nat), Nat)
  BY NatLessThanWellFounded
<1> HIDE DEF T
<1>4. PICK x \in T : \A y \in T : ~(<<y, x>> \in OpToRel(<, Nat))
  BY <1>1, <1>2, <1>3, WFMin
<1>5. \A y \in T : ~(y < x)
  BY <1>2, <1>4 DEF OpToRel
<1>6. x \in Nat /\ x # 0 /\ x - 1 \in Nat /\ x - 1 < x
  BY <1>2 DEF T
<1>7. x - 1 \in S
  BY <1>5, <1>6 DEF T
<1>8. (x - 1) + 1 \in S
  BY <1>6, <1>7
<1> QED
  BY <1>6, <1>8 DEF T

(* The same up to a bound.                                                 *)
THEOREM UpTo ==
  ASSUME NEW S, NEW n \in Nat, 0 \in S, \A k \in 0..(n - 1) : k \in S => k + 1 \in S
  PROVE  \A k \in 0..n : k \in S
<1> DEFINE T == {k \in Nat : k <= n => k \in S}
<1>1. 0 \in T
  OBVIOUS
<1>2. \A k \in Nat : k \in T => k + 1 \in T
  OBVIOUS
<1> HIDE DEF T
<1>3. Nat \subseteq T
  BY <1>1, <1>2, NatSet
<1> QED
  BY <1>3 DEF T

-----------------------------------------------------------------------------
(* FoldLeft takes the greatest index off a set of indices: the function it *)
(* chooses exists.                                                         *)

Body(g, d, base, seq) ==
  [s \in SUBSET d |-> IF s = {} THEN base ELSE Op(g[s \ {Max(s)}], seq[Max(s)])]

Iter(base, seq) == CHOOSE g : g = Body(g, DOMAIN seq, base, seq)

(* An index above all others is the greatest.                              *)
LEMMA Greatest ==
  ASSUME NEW n \in Nat, NEW s \in SUBSET (1..(n + 1)), n + 1 \in s
  PROVE  Max(s) = n + 1 /\ s \ {Max(s)} \in SUBSET (1..n)
<1>1. \A y \in s : n + 1 >= y
  OBVIOUS
<1>2. \A x \in s : (\A y \in s : x >= y) => x = n + 1
  OBVIOUS
<1>3. Max(s) = n + 1
  BY <1>1, <1>2 DEF Max
<1> QED
  BY <1>3

(* The function on subsets of 1..k is extended to those of 1..(k+1).       *)
LEMMA IterExists ==
  ASSUME NEW seq, NEW base, NEW n \in Nat
  PROVE  \E g : g = Body(g, 1..n, base, seq)
<1> DEFINE P == {k \in Nat : \E g : g = Body(g, 1..k, base, seq)}
<1>1. 0 \in P
  <2> DEFINE g == [s \in SUBSET (1..0) |-> base]
  <2>1. g = Body(g, 1..0, base, seq)
    BY DEF Body
  <2> QED
    BY <2>1
<1>2. ASSUME NEW k \in Nat, k \in P PROVE k + 1 \in P
  <2>1. PICK g : g = Body(g, 1..k, base, seq)
    BY <1>2
  <2> DEFINE h == [s \in SUBSET (1..(k + 1)) |->
                     IF k + 1 \in s THEN Op(g[s \ {k + 1}], seq[k + 1]) ELSE g[s]]
  <2>2. \A s \in SUBSET (1..(k + 1)) :
          h[s] = IF s = {} THEN base ELSE Op(h[s \ {Max(s)}], seq[Max(s)])
    <3> TAKE s \in SUBSET (1..(k + 1))
    <3>1. CASE k + 1 \in s
      <4>1. Max(s) = k + 1 /\ s \ {Max(s)} \in SUBSET (1..k)
        BY <3>1, Greatest
      <4>2. s \ {Max(s)} \in SUBSET (1..(k + 1))
        OBVIOUS
      <4>3. h[s \ {Max(s)}] = g[s \ {k + 1}]
        BY <4>1, <4>2
      <4>4. h[s] = Op(g[s \ {k + 1}], seq[k + 1])
        BY <3>1
      <4>5. s # {}
        BY <3>1
      <4> QED
        BY <4>1, <4>3, <4>4, <4>5
    <3>2. CASE k + 1 \notin s
      <4>1. s \in SUBSET (1..k)
        BY <3>2
      <4>2. h[s] = g[s]
        BY <3>2
      <4>3. g[s] = IF s = {} THEN base ELSE Op(g[s \ {Max(s)}], seq[Max(s)])
        BY <2>1, <4>1 DEF Body
      <4>4. s \ {Max(s)} \in SUBSET (1..(k + 1)) /\ k + 1 \notin s \ {Max(s)}
        BY <3>2
      <4>5. h[s \ {Max(s)}] = g[s \ {Max(s)}]
        BY <4>4
      <4> QED
        BY <4>2, <4>3, <4>5
    <3> QED
      BY <3>1, <3>2
  <2>3. h = Body(h, 1..(k + 1), base, seq)
    <3> HIDE DEF h
    <3>1. DOMAIN h = SUBSET (1..(k + 1)) /\ h = [s \in SUBSET (1..(k + 1)) |-> h[s]]
      BY DEF h
    <3> QED
      BY <2>2, <3>1 DEF Body
  <2> QED
    BY <2>3
<1> HIDE DEF P
<1>3. n \in P
  BY <1>1, <1>2, NatSet
<1> QED
  BY <1>3 DEF P

(* The definition of FoldLeft, its nested operators applied.               *)
LEMMA Unfold ==
  ASSUME NEW seq, NEW base
  PROVE  Fold(base, seq) = Iter(base, seq)[DOMAIN seq]
  BY Zenon DEF Fold, FoldLeft, MapThenFoldSet, Body, Iter

(* The chosen function satisfies its recursion.                            *)
LEMMA IterIs ==
  ASSUME NEW seq, NEW base, NEW n \in Nat, DOMAIN seq = 1..n
  PROVE  Iter(base, seq) = Body(Iter(base, seq), 1..n, base, seq)
<1>1. \E g : g = Body(g, DOMAIN seq, base, seq)
  BY IterExists
<1> QED
  BY Zenon, <1>1 DEF Iter

-----------------------------------------------------------------------------

Chain(F, base, seq, n) ==
  /\ F[0] = base
  /\ \A i \in 1..n : F[i] = Op(F[i - 1], seq[i])

(* A fold is a chain of states, from its base, one step for each element.  *)
THEOREM FoldAlong ==
  ASSUME NEW seq, NEW base, NEW n \in Nat, DOMAIN seq = 1..n
  PROVE  \E F : Chain(F, base, seq, n) /\ Fold(base, seq) = F[n]
<1> DEFINE I == Iter(base, seq)
           F == [k \in 0..n |-> I[1..k]]
<1>1. \A s \in SUBSET (1..n) :
        I[s] = IF s = {} THEN base ELSE Op(I[s \ {Max(s)}], seq[Max(s)])
  <2>1. Iter(base, seq) = Body(Iter(base, seq), 1..n, base, seq)
    BY IterIs
  <2> QED
    BY <2>1 DEF Body
<1> HIDE DEF I
<1>2. F[0] = base
  <2>1. 1..0 = {} /\ {} \in SUBSET (1..n)
    OBVIOUS
  <2>2. F[0] = I[1..0]
    OBVIOUS
  <2>3. I[{}] = base
    BY <1>1, <2>1
  <2> QED
    BY <2>1, <2>2, <2>3
<1>3. ASSUME NEW i \in 1..n PROVE F[i] = Op(F[i - 1], seq[i])
  <2>1. i - 1 \in Nat /\ i = (i - 1) + 1 /\ 1..i \in SUBSET (1..n) /\ i \in 1..i
    OBVIOUS
  <2>2. Max(1..i) = i
    BY <2>1, Greatest
  <2>3. (1..i) \ {i} = 1..(i - 1)
    BY <2>1
  <2>4. 1..i # {}
    BY <2>1
  <2>5. I[1..i] = Op(I[1..(i - 1)], seq[i])
    BY <1>1, <2>1, <2>2, <2>3, <2>4
  <2>6. F[i] = I[1..i] /\ F[i - 1] = I[1..(i - 1)]
    BY <2>1
  <2> QED
    BY <2>5, <2>6
<1>4. Fold(base, seq) = F[n]
  BY Unfold DEF I
<1> QED
  BY <1>2, <1>3, <1>4 DEF Chain

(* Induction along a fold: G holds what each prefix may have led to.       *)
THEOREM FoldInduction ==
  ASSUME NEW seq, NEW base, NEW n \in Nat, DOMAIN seq = 1..n, NEW G,
         <<0, base>> \in G,
         \A k \in 0..(n - 1) : \A a :
           <<k, a>> \in G => <<k + 1, Op(a, seq[k + 1])>> \in G
  PROVE  <<n, Fold(base, seq)>> \in G
<1>1. PICK F : Chain(F, base, seq, n) /\ Fold(base, seq) = F[n]
  BY FoldAlong
<1> DEFINE S == {k \in Nat : <<k, F[k]>> \in G}
<1>2. 0 \in S
  BY <1>1 DEF Chain
<1>3. ASSUME NEW k \in 0..(n - 1), k \in S PROVE k + 1 \in S
  <2>1. <<k, F[k]>> \in G
    BY <1>3
  <2>2. k + 1 \in 1..n /\ (k + 1) - 1 = k
    OBVIOUS
  <2>3. F[k + 1] = Op(F[k], seq[k + 1])
    BY <1>1, <2>2 DEF Chain
  <2> QED
    BY <2>1, <2>3
<1> HIDE DEF S
<1>4. \A k \in 0..n : k \in S
  BY <1>2, <1>3, UpTo
<1> QED
  BY <1>1, <1>4 DEF S

(* A fold never leaves a set its steps do not leave.                       *)
THEOREM FoldStays ==
  ASSUME NEW seq, NEW base, NEW n \in Nat, DOMAIN seq = 1..n, NEW A, base \in A,
         \A a \in A, i \in 1..n : Op(a, seq[i]) \in A
  PROVE  Fold(base, seq) \in A
<1> DEFINE G == (0..n) \X A
<1>1. <<0, base>> \in G
  OBVIOUS
<1>2. ASSUME NEW k \in 0..(n - 1), NEW a, <<k, a>> \in G
      PROVE  <<k + 1, Op(a, seq[k + 1])>> \in G
  <2>1. a \in A /\ k + 1 \in 1..n
    BY <1>2
  <2> QED
    BY <2>1
<1>3. <<n, Fold(base, seq)>> \in G
  <2> HIDE DEF G
  <2> QED
    BY <1>1, <1>2, FoldInduction
<1> QED
  BY <1>3

(* Nothing to fold.                                                        *)
THEOREM FoldEmpty ==
  ASSUME NEW base
  PROVE  Fold(base, << >>) = base
<1>1. DOMAIN << >> = 1..0 /\ 0 \in Nat
  OBVIOUS
<1> QED
  BY <1>1, FoldAlong DEF Chain

(* Two chains over the same elements are one.                              *)
LEMMA SameChain ==
  ASSUME NEW n \in Nat, NEW F, NEW G, NEW s, F[0] = G[0],
         \A i \in 1..n : F[i] = Op(F[i - 1], s[i]),
         \A i \in 1..n : G[i] = Op(G[i - 1], s[i])
  PROVE  F[n] = G[n]
<1> DEFINE S == {k \in Nat : F[k] = G[k]}
<1>1. 0 \in S
  OBVIOUS
<1>2. ASSUME NEW k \in 0..(n - 1), k \in S PROVE k + 1 \in S
  <2>1. k + 1 \in 1..n /\ (k + 1) - 1 = k
    OBVIOUS
  <2>2. F[k + 1] = Op(F[k], s[k + 1]) /\ G[k + 1] = Op(G[k], s[k + 1])
    BY <2>1
  <2> QED
    BY <1>2, <2>2
<1> HIDE DEF S
<1>3. \A k \in 0..n : k \in S
  BY <1>1, <1>2, UpTo
<1> QED
  BY <1>3 DEF S

(* One element more is one step more.                                      *)
THEOREM FoldAppend ==
  ASSUME NEW A, NEW seq \in Seq(A), NEW e \in A, NEW base
  PROVE  Fold(base, Append(seq, e)) = Op(Fold(base, seq), e)
<1> DEFINE n == Len(seq)
           t == Append(seq, e)
<1>1. /\ n \in Nat /\ n + 1 \in Nat
      /\ DOMAIN seq = 1..n /\ DOMAIN t = 1..(n + 1)
      /\ t[n + 1] = e /\ \A i \in 1..n : t[i] = seq[i]
  OBVIOUS
<1> HIDE DEF n, t
<1>2. PICK F : Chain(F, base, seq, n) /\ Fold(base, seq) = F[n]
  BY <1>1, FoldAlong
<1>3. PICK G : Chain(G, base, t, n + 1) /\ Fold(base, t) = G[n + 1]
  BY <1>1, FoldAlong
<1>4. \A i \in 1..n : G[i] = Op(G[i - 1], seq[i])
  BY <1>1, <1>3 DEF Chain
<1>5. F[n] = G[n]
  <2>1. F[0] = G[0] /\ n \in Nat
    BY <1>1, <1>2, <1>3 DEF Chain
  <2>2. \A i \in 1..n : F[i] = Op(F[i - 1], seq[i])
    BY <1>2 DEF Chain
  <2> QED
    BY <1>4, <2>1, <2>2, SameChain
<1>6. n + 1 \in 1..(n + 1) /\ (n + 1) - 1 = n
  BY <1>1
<1>7. G[n + 1] = Op(G[n], e)
  BY <1>1, <1>3, <1>6 DEF Chain
<1> QED
  BY <1>2, <1>3, <1>5, <1>7 DEF t

(* Two folds of one sequence stay related where each step keeps them so.   *)
THEOREM FoldAlike ==
  ASSUME NEW seq, NEW a0, NEW b0, NEW n \in Nat, DOMAIN seq = 1..n, NEW R,
         <<a0, b0>> \in R,
         \A i \in 1..n : \A a, b : <<a, b>> \in R => <<Op(a, seq[i]), Op(b, seq[i])>> \in R
  PROVE  <<Fold(a0, seq), Fold(b0, seq)>> \in R
<1>1. PICK F : Chain(F, a0, seq, n) /\ Fold(a0, seq) = F[n]
  BY FoldAlong
<1>2. PICK G : Chain(G, b0, seq, n) /\ Fold(b0, seq) = G[n]
  BY FoldAlong
<1> DEFINE S == {k \in Nat : <<F[k], G[k]>> \in R}
<1>3. 0 \in S
  BY <1>1, <1>2 DEF Chain
<1>4. ASSUME NEW k \in 0..(n - 1), k \in S PROVE k + 1 \in S
  <2>1. k + 1 \in 1..n /\ (k + 1) - 1 = k
    OBVIOUS
  <2>2. F[k + 1] = Op(F[k], seq[k + 1]) /\ G[k + 1] = Op(G[k], seq[k + 1])
    BY <1>1, <1>2, <2>1 DEF Chain
  <2>3. <<F[k], G[k]>> \in R
    BY <1>4
  <2> QED
    BY <2>1, <2>2, <2>3
<1> HIDE DEF S
<1>5. \A k \in 0..n : k \in S
  BY <1>3, <1>4, UpTo
<1> QED
  BY <1>1, <1>2, <1>5 DEF S

(* Chains over sequences that agree so far have come to the same.          *)
LEMMA SamePrefix ==
  ASSUME NEW n \in Nat, NEW m \in Nat, NEW F, NEW G, NEW s, NEW u, NEW base,
         Chain(F, base, s, n), Chain(G, base, u, n + m), \A i \in 1..n : u[i] = s[i]
  PROVE  F[n] = G[n]
<1>1. F[0] = G[0] /\ \A i \in 1..n : F[i] = Op(F[i - 1], s[i])
  BY DEF Chain
<1>2. \A i \in 1..n : G[i] = Op(G[i - 1], s[i])
  <2>1. 1..n \subseteq 1..(n + m)
    OBVIOUS
  <2> QED
    BY <2>1 DEF Chain
<1> QED
  BY <1>1, <1>2, SameChain

(* What follows is folded onto what the first part led to.                 *)
LEMMA FoldParts ==
  ASSUME NEW s, NEW t, NEW u, NEW base, NEW m \in Nat, NEW n \in Nat,
         DOMAIN s = 1..m, DOMAIN t = 1..n, DOMAIN u = 1..(m + n),
         \A i \in 1..m : u[i] = s[i], \A i \in 1..n : u[m + i] = t[i]
  PROVE  Fold(base, u) = Fold(Fold(base, s), t)
<1>1. PICK F : Chain(F, base, s, m) /\ Fold(base, s) = F[m]
  BY FoldAlong
<1>2. PICK G : Chain(G, F[m], t, n) /\ Fold(F[m], t) = G[n]
  BY FoldAlong
<1>3. m + n \in Nat
  OBVIOUS
<1>4. PICK H : Chain(H, base, u, m + n) /\ Fold(base, u) = H[m + n]
  BY <1>3, FoldAlong
<1>5. F[m] = H[m]
  <2>1. m \in Nat /\ n \in Nat /\ \A i \in 1..m : u[i] = s[i]
    OBVIOUS
  <2> QED
    BY ONLY <1>1, <1>4, <2>1, SamePrefix
<1> DEFINE J == [k \in 0..n |-> H[m + k]]
<1>6. J[0] = G[0]
  BY <1>2, <1>5 DEF Chain
<1>7. ASSUME NEW i \in 1..n PROVE J[i] = Op(J[i - 1], t[i])
  <2>1. m + i \in 1..(m + n) /\ (m + i) - 1 = m + (i - 1) /\ i \in 0..n /\ i - 1 \in 0..n
    OBVIOUS
  <2>2. H[m + i] = Op(H[(m + i) - 1], u[m + i])
    BY <1>4, <2>1 DEF Chain
  <2> QED
    BY <2>1, <2>2
<1>8. \A i \in 1..n : G[i] = Op(G[i - 1], t[i])
  BY <1>2 DEF Chain
<1>9. J[n] = H[m + n]
  OBVIOUS
<1> HIDE DEF J
<1>10. G[n] = J[n]
  <2>1. n \in Nat
    OBVIOUS
  <2> QED
    BY ONLY <1>6, <1>7, <1>8, <2>1, SameChain
<1> QED
  BY <1>1, <1>2, <1>4, <1>9, <1>10

(* The same of two sequences, one after the other.                         *)
THEOREM FoldConcat ==
  ASSUME NEW A, NEW s \in Seq(A), NEW t \in Seq(A), NEW base
  PROVE  Fold(base, s \o t) = Fold(Fold(base, s), t)
<1>1. PICK u : u = s \o t
  OBVIOUS
<1>2. PICK m, n : m = Len(s) /\ n = Len(t)
  OBVIOUS
<1>3. m \in Nat /\ n \in Nat
  BY <1>2
<1>4. DOMAIN s = 1..m /\ DOMAIN t = 1..n /\ DOMAIN u = 1..(m + n)
  BY <1>1, <1>2
<1>5. (\A i \in 1..m : u[i] = s[i]) /\ (\A i \in 1..n : u[m + i] = t[i])
  BY <1>1, <1>2
<1>6. Fold(base, u) = Fold(Fold(base, s), t)
  BY ONLY <1>3, <1>4, <1>5, FoldParts
<1> QED
  BY <1>1, <1>6
=============================================================================
