---------------------------- MODULE ScoringProofs ----------------------------
(***************************************************************************)
(* What the operators of Scoring compute, for any scores, prices, domains  *)
(* and parameters: the facts the proofs about an epoch and about a         *)
(* bucket's loops share.                                                   *)
(*                                                                         *)
(* First the laws of the sums over finite sets that Scoring is written     *)
(* with (SumFunctionOnSet and SumFunction of the community modules): what  *)
(* they are after one element more or less, that they are monotone, and    *)
(* that a sum may be taken part by part; with the few laws of products and *)
(* floored quotients that every proof about amounts uses.  The induction   *)
(* is over the subsets of a finite set.  A set G of subsets stands for the *)
(* statement to prove, and a smallest subset outside of G for a            *)
(* counterexample.                                                         *)
(***************************************************************************)
EXTENDS Scoring, FiniteSetTheorems, WellFoundedInduction, TLAPS

-----------------------------------------------------------------------------
(* Products and floored quotients of naturals                              *)

\* What a floored quotient is.
LEMMA Quotient ==
    ASSUME NEW a \in Nat, NEW b \in Nat, b > 0
    PROVE  a \div b \in Nat /\ (a \div b) * b <= a
  OBVIOUS

LEMMA Floor ==
    ASSUME NEW a \in Nat, NEW b \in Nat, b > 0
    PROVE  (a \div b + 1) * b > a
  OBVIOUS

LEMMA QuotientsAreMonotone ==
    ASSUME NEW a \in Nat, NEW b \in Nat, NEW c \in Nat, c > 0, a <= b
    PROVE  a \div c <= b \div c
  OBVIOUS

LEMMA ExactQuotient ==
    ASSUME NEW a \in Nat, NEW b \in Nat, a > 0
    PROVE  (a * b) \div a = b
  OBVIOUS

\* Products of naturals are monotone, and a common factor can be cancelled.
LEMMA Monotone ==
    ASSUME NEW a \in Nat, NEW b \in Nat, NEW c \in Nat, a <= b
    PROVE  a * c <= b * c /\ c * a <= c * b
  OBVIOUS

LEMMA Cancel ==
    ASSUME NEW a \in Nat, NEW b \in Nat, NEW c \in Nat, c > 0, a * c <= b * c
    PROVE  a <= b
  OBVIOUS

LEMMA Product ==
    ASSUME NEW a \in Nat, NEW b \in Nat
    PROVE  a * b \in Nat
  OBVIOUS

LEMMA Distribute ==
    ASSUME NEW a \in Nat, NEW b \in Nat, NEW c \in Nat
    PROVE  (a + b) * c = a * c + b * c /\ c * (a + b) = c * a + c * b
  OBVIOUS

-----------------------------------------------------------------------------
(* Induction                                                               *)

\* A nonempty set of subsets of a finite set has a smallest member.
LEMMA SmallestSubset ==
    ASSUME NEW S, IsFiniteSet(S), NEW B \in SUBSET SUBSET S, B # {}
    PROVE  \E T \in B : \A V \in SUBSET T : V # T => V \notin B
  <1> DEFINE R == StrictSubsetOrdering(S)
  <1>1. IsWellFoundedOn(R, SUBSET S)
    BY FS_StrictSubsetOrderingWellFounded, FS_FiniteSubsetsOfFinite
  <1>2. PICK T \in B : \A V \in B : <<V, T>> \notin R
    <2> HIDE DEF R
    <2> QED
      BY <1>1, WFMin
  <1>3. ASSUME NEW V \in SUBSET T, V # T, V \in B PROVE FALSE
    BY <1>2, <1>3 DEF StrictSubsetOrdering
  <1> QED
    BY <1>2, <1>3

\* A set G of subsets that has a subset whenever it has all smaller ones has
\* them all.
LEMMA SubsetInduction ==
    ASSUME NEW S, IsFiniteSet(S), NEW G,
           \A T \in SUBSET S : (\A V \in SUBSET T : V # T => V \in G) => T \in G
    PROVE  \A T \in SUBSET S : T \in G
  <1> DEFINE B == (SUBSET S) \ G
  <1>1. ASSUME B # {} PROVE FALSE
    <2>1. PICK T \in B : \A V \in SUBSET T : V # T => V \notin B
      <3>1. B \in SUBSET SUBSET S
        OBVIOUS
      <3> HIDE DEF B
      <3> QED
        BY <1>1, <3>1, SmallestSubset
    <2> QED
      BY <2>1
  <1> QED
    BY <1>1

-----------------------------------------------------------------------------
(* The recursion behind a sum                                              *)

FirstOf(u) == CHOOSE x \in u : TRUE

\* h gives the sums of f over the subsets of S.
SumsUp(h, f, S) ==
    h = [u \in SUBSET S |-> IF u = {} THEN 0 ELSE f[FirstOf(u)] + h[u \ {FirstOf(u)}]]

SumsOf(f, S) == CHOOSE h : SumsUp(h, f, S)

LEMMA FirstIn == ASSUME NEW u, u # {} PROVE FirstOf(u) \in u
  BY DEF FirstOf

LEMMA SumIsRecursive ==
    ASSUME NEW f, NEW S PROVE SumFunctionOnSet(f, S) = SumsOf(f, S)[S]
  BY DEF SumFunctionOnSet, FoldFunctionOnSet, MapThenFoldSet, SumsOf, SumsUp, FirstOf

LEMMA SumsAgree ==
    ASSUME NEW f, NEW S, IsFiniteSet(S), NEW W \in SUBSET S, NEW g, NEW h,
           SumsUp(g, f, S), SumsUp(h, f, W)
    PROVE  \A u \in SUBSET W : g[u] = h[u]
  <1> DEFINE G == {u \in SUBSET W : g[u] = h[u]}
  <1>1. ASSUME NEW u \in SUBSET W, \A v \in SUBSET u : v # u => v \in G
        PROVE  u \in G
    <2>1. CASE u = {}
      BY <2>1 DEF SumsUp
    <2>2. CASE u # {}
      <3> DEFINE v == u \ {FirstOf(u)}
      <3>1. v \in SUBSET u /\ v # u
        BY <2>2, FirstIn
      <3>2. v \in G
        BY <1>1, <3>1
      <3>3. g[u] = f[FirstOf(u)] + g[v] /\ h[u] = f[FirstOf(u)] + h[v]
        BY <2>2 DEF SumsUp
      <3> QED
        BY <3>2, <3>3
    <2> QED
      BY <2>1, <2>2
  <1>2. IsFiniteSet(W)
    BY FS_Subset
  <1>3. \A u \in SUBSET W : u \in G
    <2> HIDE DEF G
    <2> QED
      BY <1>1, <1>2, SubsetInduction
  <1> QED
    BY <1>3

LEMMA SumsExist ==
    ASSUME NEW f, NEW S, IsFiniteSet(S)
    PROVE  \E h : SumsUp(h, f, S)
  <1> DEFINE G == {T \in SUBSET S : \E h : SumsUp(h, f, T)}
  <1>1. ASSUME NEW T \in SUBSET S, \A V \in SUBSET T : V # T => V \in G
        PROVE  T \in G
    <2> DEFINE less(u) == u \ {FirstOf(u)}
               hh == [u \in SUBSET T |->
                        IF u = {} THEN 0 ELSE f[FirstOf(u)] + SumsOf(f, less(u))[less(u)]]
    <2>1. ASSUME NEW V \in SUBSET T, V # T PROVE SumsUp(SumsOf(f, V), f, V)
      <3>1. \E h : SumsUp(h, f, V)
        BY <1>1, <2>1
      <3> QED
        BY <3>1 DEF SumsOf
    <2>2. ASSUME NEW V \in SUBSET T, V # T PROVE hh[V] = SumsOf(f, V)[V]
      <3>1. CASE V = {}
        BY <2>1, <2>2, <3>1 DEF SumsUp
      <3>2. CASE V # {}
        <4> DEFINE W == V \ {FirstOf(V)}
        <4>1. W \in SUBSET V /\ W # V /\ W \in SUBSET T /\ W # T
          BY <3>2, FirstIn
        <4>2. SumsUp(SumsOf(f, V), f, V) /\ SumsUp(SumsOf(f, W), f, W)
          BY <2>1, <2>2, <4>1
        <4>3. IsFiniteSet(V)
          BY FS_Subset
        <4>4. SumsOf(f, V)[W] = SumsOf(f, W)[W]
          BY <4>1, <4>2, <4>3, SumsAgree
        <4>5. SumsOf(f, V)[V] = f[FirstOf(V)] + SumsOf(f, V)[W]
          BY <3>2, <4>2 DEF SumsUp
        <4> QED
          BY <3>2, <4>4, <4>5
      <3> QED
        BY <3>1, <3>2
    <2>3. ASSUME NEW u \in SUBSET T, u # {}
          PROVE  SumsOf(f, less(u))[less(u)] = hh[less(u)]
      <3>1. less(u) \in SUBSET T /\ less(u) # T
        BY <2>3, FirstIn
      <3> QED
        BY <2>2, <3>1
    <2>4. SumsUp(hh, f, T)
      BY <2>3 DEF SumsUp
    <2> QED
      BY <2>4
  <1>2. \A T \in SUBSET S : T \in G
    <2> HIDE DEF G
    <2> QED
      BY <1>1, SubsetInduction
  <1> QED
    BY <1>2

LEMMA SumsOfSumsUp ==
    ASSUME NEW f, NEW S, IsFiniteSet(S)
    PROVE  SumsUp(SumsOf(f, S), f, S)
  <1>1. \E h : SumsUp(h, f, S)
    BY SumsExist
  <1> QED
    BY <1>1, Zenon DEF SumsOf

LEMMA SumStep ==
    ASSUME NEW f, NEW S, IsFiniteSet(S)
    PROVE  SumFunctionOnSet(f, S) =
              IF S = {} THEN 0
              ELSE f[FirstOf(S)] + SumFunctionOnSet(f, S \ {FirstOf(S)})
  <1> DEFINE T == S \ {FirstOf(S)}
  <1>1. IsFiniteSet(T) /\ T \in SUBSET S
    BY FS_Subset
  <1>2. SumsUp(SumsOf(f, S), f, S) /\ SumsUp(SumsOf(f, T), f, T)
    BY <1>1, SumsOfSumsUp
  <1> HIDE DEF T
  <1>3. SumsOf(f, S)[T] = SumsOf(f, T)[T]
    <2>0. PICK g, h : g = SumsOf(f, S) /\ h = SumsOf(f, T)
      OBVIOUS
    <2>1. SumsUp(g, f, S) /\ SumsUp(h, f, T)
      BY <1>2, <2>0
    <2>2. \A u \in SUBSET T : g[u] = h[u]
      BY <1>1, <2>1, SumsAgree
    <2> QED
      BY <2>0, <2>2
  <1>4. SumsOf(f, S)[S] = IF S = {} THEN 0 ELSE f[FirstOf(S)] + SumsOf(f, S)[T]
    BY <1>2 DEF SumsUp, T
  <1>5. /\ SumFunctionOnSet(f, S) = SumsOf(f, S)[S]
        /\ SumFunctionOnSet(f, T) = SumsOf(f, T)[T]
    BY SumIsRecursive
  <1>6. SumFunctionOnSet(f, S) = IF S = {} THEN 0 ELSE f[FirstOf(S)] + SumFunctionOnSet(f, T)
    BY <1>3, <1>4, <1>5
  <1> QED
    BY <1>6 DEF T

-----------------------------------------------------------------------------
(* The sum of a function into the naturals                                 *)

LEMMA SumOfNone == ASSUME NEW f PROVE SumFunctionOnSet(f, {}) = 0
  BY FS_EmptySet, SumStep

LEMMA SumIsNat ==
    ASSUME NEW S, IsFiniteSet(S), NEW f, \A x \in S : f[x] \in Nat
    PROVE  SumFunctionOnSet(f, S) \in Nat
  <1> DEFINE G == {T \in SUBSET S : SumFunctionOnSet(f, T) \in Nat}
  <1>1. ASSUME NEW T \in SUBSET S, \A V \in SUBSET T : V # T => V \in G
        PROVE  T \in G
    <2>1. IsFiniteSet(T)
      BY FS_Subset
    <2>2. CASE T = {}
      BY <2>2, SumOfNone
    <2>3. CASE T # {}
      <3>1. T \ {FirstOf(T)} \in G /\ f[FirstOf(T)] \in Nat
        BY <1>1, <2>3, FirstIn
      <3>2. SumFunctionOnSet(f, T) = f[FirstOf(T)] + SumFunctionOnSet(f, T \ {FirstOf(T)})
        BY <2>1, <2>3, SumStep
      <3> QED
        BY <3>1, <3>2
    <2> QED
      BY <2>2, <2>3
  <1>2. \A T \in SUBSET S : T \in G
    <2> HIDE DEF G
    <2> QED
      BY <1>1, SubsetInduction
  <1> QED
    BY <1>2

\* The order in which a sum takes its elements does not matter: any of them may
\* be the first.
LEMMA SumTakes ==
    ASSUME NEW S, IsFiniteSet(S), NEW f, \A x \in S : f[x] \in Nat
    PROVE  \A x \in S : SumFunctionOnSet(f, S) = f[x] + SumFunctionOnSet(f, S \ {x})
  <1> DEFINE sum(T) == SumFunctionOnSet(f, T)
             G == {T \in SUBSET S : \A x \in T : sum(T) = f[x] + sum(T \ {x})}
  <1>0. ASSUME NEW T \in SUBSET S PROVE IsFiniteSet(T) /\ sum(T) \in Nat
    BY FS_Subset, SumIsNat
  <1>1. ASSUME NEW T \in SUBSET S, \A V \in SUBSET T : V # T => V \in G
        PROVE  T \in G
    <2> SUFFICES ASSUME NEW x \in T PROVE sum(T) = f[x] + sum(T \ {x})
      OBVIOUS
    <2> DEFINE c == FirstOf(T)
    <2>1. c \in T
      BY FirstIn
    <2>2. sum(T) = f[c] + sum(T \ {c})
      BY <1>0, <2>1, SumStep
    <2>3. CASE x = c
      BY <2>2, <2>3
    <2>4. CASE x # c
      <3>1. sum(T \ {c}) = f[x] + sum((T \ {c}) \ {x})
        <4>1. T \ {c} \in G /\ x \in T \ {c}
          BY <1>1, <2>1, <2>4
        <4> QED
          BY <4>1
      <3>2. sum(T \ {x}) = f[c] + sum((T \ {x}) \ {c})
        <4>1. T \ {x} \in G /\ c \in T \ {x}
          BY <1>1, <2>1, <2>4
        <4> QED
          BY <4>1
      <3>3. (T \ {c}) \ {x} = (T \ {x}) \ {c}
        OBVIOUS
      <3>4. f[c] \in Nat /\ f[x] \in Nat /\ sum((T \ {c}) \ {x}) \in Nat
        BY <1>0, <2>1
      <3> HIDE DEF sum, c
      <3> QED
        BY <2>2, <3>1, <3>2, <3>3, <3>4
    <2> QED
      BY <2>3, <2>4
  <1>2. \A T \in SUBSET S : T \in G
    <2> HIDE DEF G
    <2> QED
      BY <1>1, SubsetInduction
  <1> QED
    BY <1>2

LEMMA SumAdds ==
    ASSUME NEW S, IsFiniteSet(S), NEW f, \A x \in S : f[x] \in Nat,
           NEW x, x \notin S, f[x] \in Nat
    PROVE  SumFunctionOnSet(f, S \cup {x}) = f[x] + SumFunctionOnSet(f, S)
  <1>1. IsFiniteSet(S \cup {x}) /\ (S \cup {x}) \ {x} = S
    BY FS_AddElement
  <1>2. \A y \in S \cup {x} : f[y] \in Nat
    OBVIOUS
  <1>3. SumFunctionOnSet(f, S \cup {x}) = f[x] + SumFunctionOnSet(f, (S \cup {x}) \ {x})
    BY <1>1, <1>2, SumTakes
  <1> QED
    BY <1>1, <1>3

\* A set G of subsets that has the empty set, and with a subset the subsets of
\* one element more, has them all.
LEMMA ElementInduction ==
    ASSUME NEW S, IsFiniteSet(S), NEW G, {} \in G,
           \A T \in SUBSET S : \A x \in S \ T : T \in G => T \cup {x} \in G
    PROVE  S \in G
  <1>1. ASSUME NEW T \in SUBSET S, \A V \in SUBSET T : V # T => V \in G
        PROVE  T \in G
    <2>1. CASE T # {}
      <3>1. PICK x \in T : TRUE
        BY <2>1
      <3>2. T \ {x} \in G /\ x \in S \ (T \ {x}) /\ (T \ {x}) \cup {x} = T
        BY <1>1, <3>1
      <3> QED
        BY <3>2
    <2> QED
      BY <2>1
  <1> QED
    BY <1>1, SubsetInduction

\* The sums of two functions, up to factors, compare as their values do.
LEMMA SumsCompare ==
    ASSUME NEW S, IsFiniteSet(S), NEW a \in Nat, NEW b \in Nat,
           NEW f, \A x \in S : f[x] \in Nat,
           NEW g, \A x \in S : g[x] \in Nat,
           \A x \in S : f[x] * a <= g[x] * b
    PROVE  SumFunctionOnSet(f, S) * a <= SumFunctionOnSet(g, S) * b
  <1> DEFINE F(T) == SumFunctionOnSet(f, T)
             H(T) == SumFunctionOnSet(g, T)
             G == {T \in SUBSET S : F(T) * a <= H(T) * b}
  <1>1. {} \in G
    BY SumOfNone
  <1>2. ASSUME NEW T \in SUBSET S, NEW x \in S \ T, T \in G PROVE T \cup {x} \in G
    <2>1. IsFiniteSet(T)
      BY FS_Subset
    <2>2. F(T \cup {x}) = f[x] + F(T) /\ H(T \cup {x}) = g[x] + H(T)
      BY <2>1, SumAdds
    <2>3. F(T) \in Nat /\ H(T) \in Nat
      BY <2>1, SumIsNat
    <2>4. f[x] \in Nat /\ g[x] \in Nat /\ f[x] * a <= g[x] * b /\ F(T) * a <= H(T) * b
      BY <1>2
    <2>5. (f[x] + F(T)) * a <= (g[x] + H(T)) * b
      <3> HIDE DEF F, H
      <3> QED
        BY <2>3, <2>4
    <2> QED
      BY <2>2, <2>5
  <1>3. S \in G
    <2> HIDE DEF G
    <2> QED
      BY <1>1, <1>2, ElementInduction
  <1> QED
    BY <1>3

LEMMA SumsAreMonotone ==
    ASSUME NEW S, IsFiniteSet(S),
           NEW f, \A x \in S : f[x] \in Nat,
           NEW g, \A x \in S : g[x] \in Nat,
           \A x \in S : f[x] <= g[x]
    PROVE  SumFunctionOnSet(f, S) <= SumFunctionOnSet(g, S)
  <1>1. \A x \in S : f[x] * 1 <= g[x] * 1
    OBVIOUS
  <1>2. SumFunctionOnSet(f, S) * 1 <= SumFunctionOnSet(g, S) * 1
    BY <1>1, SumsCompare
  <1>3. SumFunctionOnSet(f, S) \in Nat /\ SumFunctionOnSet(g, S) \in Nat
    BY SumIsNat
  <1> QED
    BY <1>2, <1>3

LEMMA SumsAreEqual ==
    ASSUME NEW S, IsFiniteSet(S),
           NEW f, \A x \in S : f[x] \in Nat,
           NEW g, \A x \in S : f[x] = g[x]
    PROVE  SumFunctionOnSet(f, S) = SumFunctionOnSet(g, S)
  <1>1. \A x \in S : g[x] \in Nat /\ f[x] <= g[x] /\ g[x] <= f[x]
    OBVIOUS
  <1>2. /\ SumFunctionOnSet(f, S) <= SumFunctionOnSet(g, S)
        /\ SumFunctionOnSet(g, S) <= SumFunctionOnSet(f, S)
    BY <1>1, SumsAreMonotone
  <1>3. SumFunctionOnSet(f, S) \in Nat /\ SumFunctionOnSet(g, S) \in Nat
    BY <1>1, SumIsNat
  <1> QED
    BY <1>2, <1>3

LEMMA SumOfZeroes ==
    ASSUME NEW S, IsFiniteSet(S), NEW f, \A x \in S : f[x] = 0
    PROVE  SumFunctionOnSet(f, S) = 0
  <1>1. \A x \in S : f[x] \in Nat /\ f[x] * 1 <= f[x] * 0
    OBVIOUS
  <1>2. SumFunctionOnSet(f, S) * 1 <= SumFunctionOnSet(f, S) * 0
    BY <1>1, SumsCompare
  <1>3. SumFunctionOnSet(f, S) \in Nat
    BY <1>1, SumIsNat
  <1> QED
    BY <1>2, <1>3

LEMMA SumOfOne ==
    ASSUME NEW f, NEW x, f[x] \in Nat
    PROVE  SumFunctionOnSet(f, {x}) = f[x]
  <1>1. SumFunctionOnSet(f, {} \cup {x}) = f[x] + SumFunctionOnSet(f, {})
    BY FS_EmptySet, SumAdds
  <1>2. {} \cup {x} = {x}
    OBVIOUS
  <1> QED
    BY <1>1, <1>2, SumOfNone

\* The sum over two sets that share nothing is the sum of their sums.
LEMMA SumOfUnion ==
    ASSUME NEW S, IsFiniteSet(S), NEW U, IsFiniteSet(U), S \cap U = {},
           NEW f, \A x \in S \cup U : f[x] \in Nat
    PROVE  SumFunctionOnSet(f, S \cup U) = SumFunctionOnSet(f, S) + SumFunctionOnSet(f, U)
  <1> DEFINE F(T) == SumFunctionOnSet(f, T)
             G == {T \in SUBSET U : F(S \cup T) = F(S) + F(T)}
  <1>1. {} \in G
    <2>1. S \cup {} = S /\ F(S) \in Nat
      BY SumIsNat
    <2> HIDE DEF F
    <2>2. F({}) = 0
      BY SumOfNone DEF F
    <2> QED
      BY <2>1, <2>2
  <1>2. ASSUME NEW T \in SUBSET U, NEW x \in U \ T, T \in G PROVE T \cup {x} \in G
    <2>1. IsFiniteSet(T) /\ IsFiniteSet(S \cup T) /\ x \notin S \cup T
      BY FS_Subset, FS_Union
    <2>2. S \cup (T \cup {x}) = (S \cup T) \cup {x}
      OBVIOUS
    <2>3. F((S \cup T) \cup {x}) = f[x] + F(S \cup T) /\ F(T \cup {x}) = f[x] + F(T)
      BY <2>1, SumAdds
    <2>4. F(S) \in Nat /\ F(T) \in Nat /\ f[x] \in Nat /\ F(S \cup T) = F(S) + F(T)
      BY <1>2, <2>1, SumIsNat
    <2>5. F(S \cup (T \cup {x})) = F(S) + F(T \cup {x})
      <3> HIDE DEF F
      <3> QED
        BY <2>2, <2>3, <2>4
    <2> QED
      BY <2>5
  <1>3. U \in G
    <2> HIDE DEF G
    <2> QED
      BY <1>1, <1>2, ElementInduction
  <1> QED
    BY <1>3

LEMMA SumOfPart ==
    ASSUME NEW S, IsFiniteSet(S), NEW f, \A x \in S : f[x] \in Nat, NEW T \in SUBSET S
    PROVE  SumFunctionOnSet(f, T) <= SumFunctionOnSet(f, S)
  <1>1. IsFiniteSet(T) /\ IsFiniteSet(S \ T) /\ T \cup (S \ T) = S /\ T \cap (S \ T) = {}
    BY FS_Subset
  <1>2. SumFunctionOnSet(f, S) = SumFunctionOnSet(f, T) + SumFunctionOnSet(f, S \ T)
    BY <1>1, SumOfUnion
  <1>3. SumFunctionOnSet(f, T) \in Nat /\ SumFunctionOnSet(f, S \ T) \in Nat
    BY <1>1, SumIsNat
  <1> QED
    BY <1>2, <1>3

LEMMA SumBoundsElement ==
    ASSUME NEW S, IsFiniteSet(S), NEW f, \A x \in S : f[x] \in Nat, NEW x \in S
    PROVE  f[x] <= SumFunctionOnSet(f, S)
  <1>1. {x} \in SUBSET S
    OBVIOUS
  <1> QED
    BY <1>1, SumOfPart, SumOfOne

\* The sum of the sums of two functions is the sum of their values' sums.
LEMMA SumOfSums ==
    ASSUME NEW S, IsFiniteSet(S),
           NEW f, \A x \in S : f[x] \in Nat,
           NEW g, \A x \in S : g[x] \in Nat,
           NEW h, \A x \in S : h[x] = f[x] + g[x]
    PROVE  SumFunctionOnSet(h, S) = SumFunctionOnSet(f, S) + SumFunctionOnSet(g, S)
  <1> DEFINE F(T) == SumFunctionOnSet(f, T)
             E(T) == SumFunctionOnSet(g, T)
             H(T) == SumFunctionOnSet(h, T)
             G == {T \in SUBSET S : H(T) = F(T) + E(T)}
  <1>1. {} \in G
    BY SumOfNone
  <1>2. ASSUME NEW T \in SUBSET S, NEW x \in S \ T, T \in G PROVE T \cup {x} \in G
    <2>1. IsFiniteSet(T)
      BY FS_Subset
    <2>2. \A y \in S : h[y] \in Nat
      OBVIOUS
    <2>3. /\ F(T \cup {x}) = f[x] + F(T) /\ E(T \cup {x}) = g[x] + E(T)
          /\ H(T \cup {x}) = h[x] + H(T)
      BY <2>1, <2>2, SumAdds
    <2>4. F(T) \in Nat /\ E(T) \in Nat
      BY <2>1, SumIsNat
    <2>5. /\ f[x] \in Nat /\ g[x] \in Nat /\ h[x] = f[x] + g[x]
          /\ H(T) = F(T) + E(T)
      BY <1>2
    <2>6. H(T \cup {x}) = F(T \cup {x}) + E(T \cup {x})
      <3> HIDE DEF F, E, H
      <3> QED
        BY <2>3, <2>4, <2>5
    <2> QED
      BY <2>6
  <1>3. S \in G
    <2> HIDE DEF G
    <2> QED
      BY <1>1, <1>2, ElementInduction
  <1> QED
    BY <1>3

\* A sum may be taken group by group: the elements of S fall into a group each.
GroupOf(group, d) == {x \in DOMAIN group : group[x] = d}

LEMMA SumByGroup ==
    ASSUME NEW S, IsFiniteSet(S), NEW f, \A x \in S : f[x] \in Nat,
           NEW D, IsFiniteSet(D), NEW group \in [S -> D],
           NEW sums,
           \A d \in D : sums[d] = SumFunctionOnSet(f, GroupOf(group, d))
    PROVE  SumFunctionOnSet(sums, D) = SumFunctionOnSet(f, S)
  <1> DEFINE F(T) == SumFunctionOnSet(f, T)
             of(d) == {x \in S : group[x] = d}
             all(E) == {x \in S : group[x] \in E}
             G == {E \in SUBSET D : SumFunctionOnSet(sums, E) = F(all(E))}
  <1>0. \A d \in D : sums[d] \in Nat /\ IsFiniteSet(of(d)) /\ sums[d] = F(of(d))
    <2> TAKE d \in D
    <2>1. IsFiniteSet(of(d)) /\ GroupOf(group, d) = of(d)
      BY FS_Subset DEF GroupOf
    <2> QED
      BY <2>1, SumIsNat
  <1>1. {} \in G
    <2>1. all({}) = {}
      OBVIOUS
    <2> QED
      BY <2>1, SumOfNone
  <1>2. ASSUME NEW E \in SUBSET D, NEW d \in D \ E, E \in G PROVE E \cup {d} \in G
    <2>1. IsFiniteSet(E) /\ IsFiniteSet(all(E))
      BY FS_Subset
    <2>2. all(E \cup {d}) = of(d) \cup all(E) /\ of(d) \cap all(E) = {}
      OBVIOUS
    <2>3. F(of(d) \cup all(E)) = F(of(d)) + F(all(E))
      <3>1. \A x \in of(d) \cup all(E) : f[x] \in Nat
        OBVIOUS
      <3> HIDE DEF of, all
      <3> QED
        BY <1>0, <2>1, <2>2, <3>1, SumOfUnion
    <2>4. SumFunctionOnSet(sums, E \cup {d}) = sums[d] + SumFunctionOnSet(sums, E)
      BY <1>0, <2>1, SumAdds
    <2>5. SumFunctionOnSet(sums, E) = F(all(E))
      BY <1>2
    <2> HIDE DEF F, of, all
    <2>6. SumFunctionOnSet(sums, E \cup {d}) = F(all(E \cup {d}))
      BY <1>0, <2>2, <2>3, <2>4, <2>5
    <2> QED
      BY <2>6 DEF F, all
  <1>3. D \in G
    <2> HIDE DEF G
    <2> QED
      BY <1>1, <1>2, ElementInduction
  <1>4. all(D) = S
    OBVIOUS
  <1> QED
    BY <1>3, <1>4

-----------------------------------------------------------------------------
(* Finite images and largest elements                                      *)

LEMMA FiniteImage ==
    ASSUME NEW S, IsFiniteSet(S), NEW f
    PROVE  IsFiniteSet({f[x] : x \in S})
  <1> DEFINE T == {f[x] : x \in S}
             g == [x \in S |-> f[x]]
  <1>1. g \in Surjection(S, T)
    BY DEF Surjection
  <1> QED
    BY <1>1, FS_Surjection

LEMMA MaxOfNats ==
    ASSUME NEW S, IsFiniteSet(S), S \subseteq Nat, S # {}
    PROVE  Max(S) \in S /\ \A x \in S : x <= Max(S)
  <1> DEFINE G == {T \in SUBSET S : T # {} => \E m \in T : \A x \in T : m >= x}
  <1>1. {} \in G
    OBVIOUS
  <1>2. ASSUME NEW T \in SUBSET S, NEW y \in S \ T, T \in G PROVE T \cup {y} \in G
    <2>1. CASE T = {}
      <3>1. T \cup {y} = {y} /\ y >= y
        BY <2>1
      <3> QED
        BY <3>1
    <2>2. CASE T # {}
      <3>1. PICK m \in T : \A x \in T : m >= x
        BY <1>2, <2>2
      <3>2. CASE m >= y
        BY <3>1, <3>2
      <3>3. CASE ~(m >= y)
        <4>1. \A x \in T \cup {y} : y >= x
          BY <3>1, <3>3
        <4> QED
          BY <4>1
      <3> QED
        BY <3>2, <3>3
    <2> QED
      BY <2>1, <2>2
  <1>3. S \in G
    <2> HIDE DEF G
    <2> QED
      BY <1>1, <1>2, ElementInduction
  <1>4. \E m \in S : \A x \in S : m >= x
    BY <1>3
  <1>5. Max(S) \in S /\ \A x \in S : Max(S) >= x
    BY <1>4 DEF Max
  <1> QED
    BY <1>5

\* A sum does not change with elements that count nothing.
LEMMA SumOfExtension ==
    ASSUME NEW S, IsFiniteSet(S), NEW T \in SUBSET S, NEW f, \A x \in T : f[x] \in Nat,
           NEW g, \A x \in S : g[x] = IF x \in T THEN f[x] ELSE 0
    PROVE  SumFunctionOnSet(g, S) = SumFunctionOnSet(f, T)
  <1>1. IsFiniteSet(T) /\ IsFiniteSet(S \ T) /\ T \cap (S \ T) = {} /\ T \cup (S \ T) = S
    BY FS_Subset
  <1>2. SumFunctionOnSet(g, T \cup (S \ T))
           = SumFunctionOnSet(g, T) + SumFunctionOnSet(g, S \ T)
    BY <1>1, SumOfUnion
  <1>3. SumFunctionOnSet(g, S \ T) = 0
    BY <1>1, SumOfZeroes
  <1>4. SumFunctionOnSet(f, T) = SumFunctionOnSet(g, T) /\ SumFunctionOnSet(f, T) \in Nat
    BY <1>1, SumsAreEqual, SumIsNat
  <1>5. SumFunctionOnSet(g, S) = SumFunctionOnSet(g, T) + SumFunctionOnSet(g, S \ T)
    BY <1>1, <1>2
  <1> DEFINE whole == SumFunctionOnSet(g, S)
             part == SumFunctionOnSet(f, T)
             same == SumFunctionOnSet(g, T)
             rest == SumFunctionOnSet(g, S \ T)
  <1>6. whole = same + rest /\ rest = 0 /\ part = same /\ part \in Nat
    BY <1>3, <1>4, <1>5
  <1> HIDE DEF whole, part, same, rest
  <1>7. whole = part
    BY <1>6
  <1> QED
    BY <1>7 DEF whole, part

\* The prices of the units at some places add up as a function's values.
Price(us) == [i \in DOMAIN us |-> us[i].price]

LEMMA PriceSum ==
    ASSUME NEW us, NEW S \in SUBSET DOMAIN us
    PROVE  MapThenSumSet(LAMBDA i : us[i].price, S) = SumFunctionOnSet(Price(us), S)
  BY ZenonT(60) DEF MapThenSumSet, SumFunctionOnSet, FoldFunctionOnSet, MapThenFoldSet, Price

USE ScoringAssumption

-----------------------------------------------------------------------------
(* What a bucket pays                                                      *)

\* The peak of a finite set bounds it.
LEMMA PeakOfNats ==
    ASSUME NEW S, IsFiniteSet(S), S \subseteq Nat
    PROVE  Peak(S) \in S \cup {0} /\ Peak(S) \in Nat /\ \A x \in S : x <= Peak(S)
  <1>1. IsFiniteSet(S \cup {0}) /\ S \cup {0} \subseteq Nat /\ S \cup {0} # {}
    BY FS_AddElement
  <1> QED
    BY <1>1, MaxOfNats DEF Peak

\* A bucket's domain cap is a natural.
LEMMA CapIsNat == ASSUME NEW b \in Nat PROVE CapAmount(b) \in Nat
  <1>1. b * PayoutCapShareBps \in Nat
    BY Product
  <1> QED
    BY <1>1, Quotient DEF CapAmount, ApplyBps

\* Shares are due to the scores and add up to the budget at most.
LEMMA ProRataFacts ==
    ASSUME NEW b \in Nat, NEW s, IsFiniteSet(DOMAIN s), \A e \in DOMAIN s : s[e] \in Nat,
           NEW cap \in Nat \cup {NoCap}
    PROVE  /\ DOMAIN ProRata(b, s, cap) = DOMAIN s
           /\ \A e \in DOMAIN s : ProRata(b, s, cap)[e] \in Nat
           /\ \A e \in DOMAIN s : ProRata(b, s, cap)[e] * SumFunction(s) <= s[e] * b
           /\ SumFunction(ProRata(b, s, cap)) <= b
           /\ \A x, y \in DOMAIN s :
                 s[x] <= s[y] => ProRata(b, s, cap)[x] <= ProRata(b, s, cap)[y]
  <1> DEFINE shares == ProRata(b, s, cap)
             D == DOMAIN s
             total == SumFunctionOnSet(s, D)
             exact(e) == (b * s[e]) \div total
  <1>1. total \in Nat /\ SumFunction(s) = total
    BY SumIsNat DEF SumFunction
  <1>2. /\ DOMAIN shares = D
        /\ \A e \in D : shares[e] = IF total = 0 \/ b = 0 THEN 0
                                    ELSE IF cap = NoCap THEN exact(e)
                                    ELSE Least(exact(e), cap)
    BY <1>1 DEF ProRata
  <1>3. SumFunction(shares) = SumFunctionOnSet(shares, D)
    BY <1>2 DEF SumFunction
  <1> HIDE DEF shares, total
  <1>4. CASE total = 0 \/ b = 0
    <2>1. \A e \in D : shares[e] = 0
      BY <1>2, <1>4
    <2>2. SumFunctionOnSet(shares, D) = 0
      BY <2>1, SumOfZeroes
    <2>3. \A e \in D : shares[e] * total <= s[e] * b
      <3> TAKE e \in D
      <3>1. shares[e] * total = 0 /\ s[e] * b \in Nat
        BY <1>1, <2>1, Product
      <3> QED
        BY <3>1
    <2> QED
      BY <1>1, <1>2, <1>3, <2>1, <2>2, <2>3 DEF shares
  <1>5. CASE total > 0 /\ b > 0
    <2>1. ASSUME NEW e \in D
          PROVE  exact(e) \in Nat /\ exact(e) * total <= b * s[e]
      <3>1. b * s[e] \in Nat
        BY Product
      <3> QED
        BY <1>1, <1>5, <3>1, Quotient
    <2>2. ASSUME NEW x \in D, NEW y \in D, s[x] <= s[y] PROVE exact(x) <= exact(y)
      <3>1. /\ b * s[x] \in Nat /\ b * s[y] \in Nat /\ b * s[x] <= b * s[y]
        BY <2>2, Product, Monotone
      <3> QED
        BY <1>1, <1>5, <3>1, QuotientsAreMonotone
    <2>3. \A e \in D : shares[e] \in Nat /\ shares[e] <= exact(e)
      <3> HIDE DEF exact
      <3> QED
        BY <1>2, <1>5, <2>1 DEF Least
    <2>4. ASSUME NEW x \in D, NEW y \in D, s[x] <= s[y] PROVE shares[x] <= shares[y]
      <3>1. exact(x) \in Nat /\ exact(y) \in Nat /\ exact(x) <= exact(y)
        BY <2>1, <2>2, <2>4
      <3> HIDE DEF exact
      <3> QED
        BY <1>2, <1>5, <3>1 DEF Least
    <2>5. \A e \in D : shares[e] * total <= s[e] * b
      <3> TAKE e \in D
      <3>1. shares[e] * total <= exact(e) * total
        BY <1>1, <2>1, <2>3, Monotone
      <3>2. exact(e) * total <= s[e] * b
        BY <2>1
      <3>3. shares[e] * total \in Nat /\ exact(e) * total \in Nat /\ s[e] * b \in Nat
        BY <1>1, <2>1, <2>3, Product
      <3> QED
        BY <3>1, <3>2, <3>3
    <2>6. SumFunctionOnSet(shares, D) * total <= SumFunctionOnSet(s, D) * b
      BY <1>1, <2>3, <2>5, SumsCompare
    <2>7. SumFunctionOnSet(shares, D) \in Nat
      BY <2>3, SumIsNat
    <2>8. SumFunctionOnSet(shares, D) * total <= b * total
      BY <1>1, <2>6, <2>7 DEF total
    <2>9. SumFunctionOnSet(shares, D) <= b
      BY <1>1, <1>5, <2>7, <2>8, Cancel
    <2> QED
      BY <1>1, <1>2, <1>3, <2>3, <2>4, <2>5, <2>9 DEF shares
  <1> QED
    BY <1>1, <1>4, <1>5

\* The amounts are naturals that add up to the budget at most, and the caps keep
\* the order of the scores inside a control domain.
LEMMA AllocationFacts ==
    ASSUME NEW b \in Nat, NEW s, IsFiniteSet(DOMAIN s), \A e \in DOMAIN s : s[e] \in Nat,
           NEW cap \in Nat \cup {NoCap}, NEW dom
    PROVE  /\ DOMAIN Allocation(b, s, dom, cap) = DOMAIN s
           /\ \A e \in DOMAIN s : Allocation(b, s, dom, cap)[e] \in 0..b
           /\ SumFunction(Allocation(b, s, dom, cap)) \in 0..b
           /\ \A x, y \in DOMAIN s :
                 dom[x] = dom[y] /\ s[x] <= s[y] =>
                    Allocation(b, s, dom, cap)[x] <= Allocation(b, s, dom, cap)[y]
  <1> DEFINE shares == ProRata(b, s, cap)
             amounts == Allocation(b, s, dom, cap)
             D == DOMAIN s
             C == CapAmount(b)
             taken(e) == DomainTotal(shares, dom, dom[e])
  <1>1. /\ DOMAIN amounts = D
        /\ \A e \in D : amounts[e] = IF taken(e) > C THEN (shares[e] * C) \div taken(e)
                                     ELSE shares[e]
    BY DEF Allocation
  <1>2. C \in Nat
    BY CapIsNat
  <1>3. /\ DOMAIN shares = D
        /\ \A e \in D : shares[e] \in Nat
        /\ SumFunctionOnSet(shares, D) <= b
        /\ \A x, y \in D : s[x] <= s[y] => shares[x] <= shares[y]
    BY ProRataFacts DEF SumFunction
  <1> HIDE DEF shares, amounts, C
  <1>4. \A e \in D : taken(e) \in Nat
    <2> TAKE e \in D
    <2>1. IsFiniteSet({x \in DOMAIN shares : dom[x] = dom[e]})
      BY <1>3, FS_Subset
    <2> QED
      BY <1>3, <2>1, SumIsNat DEF DomainTotal
  <1>5. ASSUME NEW e \in D PROVE amounts[e] \in Nat /\ amounts[e] <= shares[e]
    <2>1. CASE taken(e) > C
      <3>1. shares[e] * C \in Nat /\ shares[e] \in Nat /\ taken(e) \in Nat /\ taken(e) > 0
        BY <1>2, <1>3, <1>4, <2>1, Product
      <3>2. amounts[e] = (shares[e] * C) \div taken(e)
        BY <1>1, <2>1
      <3> HIDE DEF taken
      <3>3. amounts[e] \in Nat /\ amounts[e] * taken(e) <= shares[e] * C
        BY <3>1, <3>2, Quotient
      <3>4. shares[e] * C <= shares[e] * taken(e)
        BY <1>2, <2>1, <3>1, Monotone
      <3>5. amounts[e] * taken(e) <= shares[e] * taken(e)
        <4>1. amounts[e] * taken(e) \in Nat /\ shares[e] * taken(e) \in Nat
          BY <3>1, <3>3, Product
        <4> QED
          BY <3>1, <3>3, <3>4, <4>1
      <3> QED
        BY <3>1, <3>3, <3>5, Cancel
    <2>2. CASE ~(taken(e) > C)
      BY <1>1, <1>3, <2>2
    <2> QED
      BY <2>1, <2>2
  <1>6. SumFunctionOnSet(amounts, D) \in 0..b
    <2>1. SumFunctionOnSet(amounts, D) <= SumFunctionOnSet(shares, D)
      BY <1>3, <1>5, SumsAreMonotone
    <2>2. SumFunctionOnSet(amounts, D) \in Nat /\ SumFunctionOnSet(shares, D) \in Nat
      BY <1>3, <1>5, SumIsNat
    <2> QED
      BY <1>3, <2>1, <2>2
  <1>7. \A e \in D : amounts[e] \in 0..b
    <2> TAKE e \in D
    <2>1. amounts[e] <= SumFunctionOnSet(amounts, D)
      BY <1>5, SumBoundsElement
    <2> QED
      BY <1>5, <1>6, <2>1
  <1>8. ASSUME NEW x \in D, NEW y \in D, dom[x] = dom[y], s[x] <= s[y]
        PROVE  amounts[x] <= amounts[y]
    <2>1. shares[x] \in Nat /\ shares[y] \in Nat /\ shares[x] <= shares[y]
      BY <1>3, <1>8
    <2>2. taken(x) = taken(y) /\ taken(x) \in Nat
      BY <1>4, <1>8
    <2>3. CASE taken(x) > C
      <3>1. /\ amounts[x] = (shares[x] * C) \div taken(x)
            /\ amounts[y] = (shares[y] * C) \div taken(x)
        BY <1>1, <2>2, <2>3
      <3>2. shares[x] * C \in Nat /\ shares[y] * C \in Nat /\ shares[x] * C <= shares[y] * C
        BY <1>2, <2>1, Product, Monotone
      <3>3. taken(x) > 0
        BY <1>2, <2>2, <2>3
      <3> HIDE DEF taken
      <3> QED
        BY <2>2, <3>1, <3>2, <3>3, QuotientsAreMonotone
    <2>4. CASE ~(taken(x) > C)
      BY <1>1, <2>1, <2>2, <2>4
    <2> QED
      BY <2>3, <2>4
  <1>9. SumFunction(amounts) = SumFunctionOnSet(amounts, D)
    BY <1>1 DEF SumFunction
  <1> QED
    BY <1>1, <1>6, <1>7, <1>8, <1>9 DEF amounts

\* The peak of an allocation bounds what it computes, and fits where that does.
LEMMA AllocationPeakFacts ==
    ASSUME NEW b \in Nat, NEW s, IsFiniteSet(DOMAIN s), \A e \in DOMAIN s : s[e] \in Nat,
           NEW cap \in Nat \cup {NoCap}, NEW dom
    PROVE  LET peak    == AllocationPeak(b, s, dom, cap)
               shares  == ProRata(b, s, cap)
               over(e) == DomainTotal(shares, dom, dom[e]) > CapAmount(b)
           IN  /\ peak \in Nat /\ SumFunction(s) <= peak
               /\ SumFunction(s) # 0 /\ b # 0 =>
                     /\ b * PayoutCapShareBps <= peak
                     /\ \A e \in DOMAIN s : b * s[e] <= peak
                     /\ \A e \in DOMAIN s : over(e) => shares[e] * CapAmount(b) <= peak
               /\ \A m \in Nat :
                     /\ SumFunction(s) <= m
                     /\ SumFunction(s) # 0 /\ b # 0 =>
                           /\ b * PayoutCapShareBps <= m
                           /\ \A e \in DOMAIN s : b * s[e] <= m
                           /\ \A e \in DOMAIN s : over(e) => shares[e] * CapAmount(b) <= m
                     => peak <= m
  <1> DEFINE peak == AllocationPeak(b, s, dom, cap)
             shares == ProRata(b, s, cap)
             C == CapAmount(b)
             total == SumFunction(s)
             D == DOMAIN s
             O == {f \in D : DomainTotal(shares, dom, dom[f]) > C}
             dues == [e \in D |-> b * s[e]]
             scaled == [e \in D |-> shares[e] * C]
             part == b * PayoutCapShareBps
             S == {total, part} \cup {dues[e] : e \in D} \cup {scaled[e] : e \in O}
  <1>1. total \in Nat
    BY SumIsNat DEF SumFunction
  <1>2. C \in Nat /\ part \in Nat
    BY CapIsNat, Product
  <1>3. \A e \in D : shares[e] \in Nat
    BY ProRataFacts
  <1>4. \A e \in D : dues[e] \in Nat /\ scaled[e] \in Nat
    BY <1>2, <1>3, Product
  <1>5. peak = IF total = 0 \/ b = 0 THEN total ELSE Peak(S)
    <2>1. {b * s[e] : e \in D} = {dues[e] : e \in D}
      OBVIOUS
    <2>2. {shares[e] * C : e \in O} = {scaled[e] : e \in O}
      OBVIOUS
    <2> HIDE DEF dues, scaled
    <2>3. peak = IF total = 0 \/ b = 0 THEN total
                 ELSE Peak({total, part} \cup {b * s[e] : e \in D}
                           \cup {shares[e] * C : e \in O})
      BY DEF AllocationPeak
    <2> QED
      BY <2>1, <2>2, <2>3
  <1>6. IsFiniteSet(S) /\ S \subseteq Nat
    <2>1. IsFiniteSet(O)
      BY FS_Subset
    <2> HIDE DEF dues, scaled, O, total, part
    <2>2. IsFiniteSet({dues[e] : e \in D}) /\ IsFiniteSet({scaled[e] : e \in O})
      BY <2>1, FiniteImage
    <2>3. IsFiniteSet({total} \cup {part}) /\ {total, part} = {total} \cup {part}
      BY FS_Singleton, FS_Union
    <2>4. IsFiniteSet(S)
      BY <2>2, <2>3, FS_Union
    <2>5. O \subseteq D
      BY DEF O
    <2> QED
      BY <1>1, <1>2, <1>4, <2>4, <2>5
  <1>7. Peak(S) \in S \cup {0} /\ Peak(S) \in Nat /\ \A x \in S : x <= Peak(S)
    <2> HIDE DEF S
    <2> QED
      BY <1>6, PeakOfNats
  <1>8. /\ total \in S /\ part \in S
        /\ \A e \in D : dues[e] \in S
        /\ \A e \in O : scaled[e] \in S
    OBVIOUS
  <1>9. \A x \in S : \/ x = total \/ x = part \/ \E e \in D : x = dues[e]
                     \/ \E e \in O : x = scaled[e]
    <2> HIDE DEF dues, scaled, O, total, part
    <2> QED
      OBVIOUS
  <1>10. \A e \in D : /\ dues[e] = b * s[e] /\ scaled[e] = shares[e] * C
                      /\ e \in O <=> DomainTotal(shares, dom, dom[e]) > C
    OBVIOUS
  <1>11. O \subseteq D
    OBVIOUS
  <1> HIDE DEF S, dues, scaled, O, peak, total, shares, C
  <1>12. CASE total = 0 \/ b = 0
    <2>1. peak = total
      BY <1>5, <1>12
    <2>2. peak \in Nat /\ total <= peak
      BY <1>1, <2>1
    <2>3. ~(total # 0 /\ b # 0)
      BY <1>12
    <2>4. \A m \in Nat : total <= m => peak <= m
      BY <2>1
    <2> QED
      BY <2>2, <2>3, <2>4 DEF peak, total, shares, C
  <1>13. CASE ~(total = 0 \/ b = 0)
    <2>1. peak = Peak(S)
      BY <1>5, <1>13
    <2>2. peak \in Nat /\ total <= peak /\ part <= peak
      BY <1>7, <1>8, <2>1
    <2>3. \A e \in D : b * s[e] <= peak
      BY <1>7, <1>8, <1>10, <2>1
    <2>4. \A e \in D : DomainTotal(shares, dom, dom[e]) > C => shares[e] * C <= peak
      BY <1>7, <1>8, <1>10, <2>1
    <2>5. ASSUME NEW m \in Nat, total <= m, part <= m, \A e \in D : b * s[e] <= m,
                 \A e \in D : DomainTotal(shares, dom, dom[e]) > C => shares[e] * C <= m
          PROVE  peak <= m
      <3>1. \A x \in S : x <= m
        BY <1>9, <1>10, <1>11, <2>5
      <3> QED
        BY <1>7, <2>1, <3>1
    <2> QED
      BY <1>13, <2>2, <2>3, <2>4, <2>5 DEF peak, total, shares, C
  <1> QED
    BY <1>12, <1>13

-----------------------------------------------------------------------------
(* What an earner's settled prices are worth                               *)

\* What an entry gets, without the definitions' local names.
LEMMA ProRataUnfolds ==
    ASSUME NEW b, NEW s, NEW cap
    PROVE  /\ DOMAIN ProRata(b, s, cap) = DOMAIN s
           /\ ProRata(b, s, cap) = [e \in DOMAIN s |-> ProRata(b, s, cap)[e]]
           /\ \A e \in DOMAIN s :
                 ProRata(b, s, cap)[e] =
                    IF SumFunction(s) = 0 \/ b = 0 THEN 0
                    ELSE IF cap = NoCap THEN (b * s[e]) \div SumFunction(s)
                    ELSE Least((b * s[e]) \div SumFunction(s), cap)
  <1> DEFINE total == SumFunction(s)
  <1> HIDE DEF total
  <1>1. ProRata(b, s, cap) =
           [e \in DOMAIN s |-> IF total = 0 \/ b = 0 THEN 0
                               ELSE IF cap = NoCap THEN (b * s[e]) \div total
                               ELSE Least((b * s[e]) \div total, cap)]
    BY DEF ProRata, total
  <1> QED
    BY <1>1 DEF total

LEMMA AllocationUnfolds ==
    ASSUME NEW b, NEW s, NEW cap, NEW dom
    PROVE  /\ DOMAIN Allocation(b, s, dom, cap) = DOMAIN s
           /\ Allocation(b, s, dom, cap) = [e \in DOMAIN s |-> Allocation(b, s, dom, cap)[e]]
           /\ \A e \in DOMAIN s :
                 Allocation(b, s, dom, cap)[e] =
                    IF DomainTotal(ProRata(b, s, cap), dom, dom[e]) > CapAmount(b)
                    THEN (ProRata(b, s, cap)[e] * CapAmount(b))
                            \div DomainTotal(ProRata(b, s, cap), dom, dom[e])
                    ELSE ProRata(b, s, cap)[e]
  BY DEF Allocation

\* The early return: nothing to share out, or nothing to share it by.
LEMMA NothingToAllocate ==
    ASSUME NEW b \in Nat, NEW s, IsFiniteSet(DOMAIN s), NEW cap, NEW dom,
           SumFunction(s) = 0 \/ b = 0
    PROVE  /\ \A e \in DOMAIN s : Allocation(b, s, dom, cap)[e] = 0
           /\ AllocationPeak(b, s, dom, cap) = SumFunction(s)
  <1> DEFINE pro == ProRata(b, s, cap)
  <1>1. DOMAIN pro = DOMAIN s /\ \A e \in DOMAIN s : pro[e] = 0
    BY ProRataUnfolds
  <1>2. CapAmount(b) \in Nat
    BY CapIsNat
  <1> HIDE DEF pro
  <1>3. ASSUME NEW e \in DOMAIN s PROVE DomainTotal(pro, dom, dom[e]) = 0
    <2> DEFINE own == {x \in DOMAIN pro : dom[x] = dom[e]}
    <2>1. IsFiniteSet(own) /\ \A x \in own : pro[x] = 0
      <3>1. own \in SUBSET DOMAIN s
        BY <1>1
      <3>2. IsFiniteSet(own)
        BY <3>1, FS_Subset
      <3> QED
        BY <1>1, <3>1, <3>2
    <2>2. SumFunctionOnSet(pro, own) = 0
      <3> HIDE DEF own
      <3> QED
        BY <2>1, SumOfZeroes
    <2> QED
      BY <2>2 DEF DomainTotal
  <1>4. \A e \in DOMAIN s : Allocation(b, s, dom, cap)[e] = 0
    BY <1>1, <1>2, <1>3, AllocationUnfolds DEF pro
  <1>5. AllocationPeak(b, s, dom, cap) = SumFunction(s)
    BY DEF AllocationPeak
  <1> QED
    BY <1>4, <1>5

\* The settled prices of an earner, by the domains of its payers.
LEMMA TopPayer ==
    ASSUME NEW settled, IsFiniteSet(DOMAIN settled),
           \A d \in DOMAIN settled : settled[d] \in Nat
    PROVE  LET S == {settled[d] : d \in DOMAIN settled}
           IN  /\ Peak(S) \in S \cup {0} /\ Peak(S) \in Nat
               /\ \A d \in DOMAIN settled : settled[d] <= Peak(S)
  <1> DEFINE S == {settled[d] : d \in DOMAIN settled}
  <1>1. IsFiniteSet(S) /\ S \subseteq Nat
    BY FiniteImage
  <1> QED
    BY <1>1, PeakOfNats

\* The discount is part of the whole.
LEMMA DiscountFacts ==
    ASSUME NEW settled, IsFiniteSet(DOMAIN settled),
           \A d \in DOMAIN settled : settled[d] \in Nat
    PROVE  DiscountBps(settled) \in 0..Bps
  <1> DEFINE total == SumFunction(settled)
             top == Peak({settled[d] : d \in DOMAIN settled})
             share == (top * Bps) \div total
             span == TopPayerZeroBps - TopPayerFullBps
  <1>1. total \in Nat /\ top \in Nat
    BY SumIsNat, TopPayer DEF SumFunction
  <1>2. CASE total = 0
    BY <1>2 DEF DiscountBps
  <1>3. CASE total # 0
    <2>1. share \in Nat
      BY <1>1, <1>3, Product, Quotient
    <2>2. DiscountBps(settled) =
            IF share <= TopPayerFullBps THEN Bps
            ELSE IF share >= TopPayerZeroBps THEN 0
            ELSE ((TopPayerZeroBps - share) * Bps) \div span
      BY <1>3 DEF DiscountBps
    <2>3. CASE ~(share <= TopPayerFullBps) /\ ~(share >= TopPayerZeroBps)
      <3> DEFINE x == TopPayerZeroBps - share
                 q == (x * Bps) \div span
      <3> HIDE DEF share
      <3>1. x \in Nat /\ span \in Nat /\ span > 0 /\ x <= span /\ Bps \in Nat
        BY <2>1, <2>3
      <3> HIDE DEF x, span
      <3>2. x * Bps \in Nat /\ x * Bps <= Bps * span
        <4>1. x * Bps \in Nat /\ Bps * span \in Nat /\ Bps * x <= Bps * span
          BY <3>1, Product, Monotone
        <4>2. x * Bps = Bps * x
          BY <3>1
        <4> QED
          BY <4>1, <4>2
      <3>3. q \in Nat /\ q * span <= x * Bps
        BY <3>1, <3>2, Quotient
      <3>4. q * span \in Nat /\ Bps * span \in Nat
        BY <3>1, <3>3, Product
      <3>5. q * span <= Bps * span
        BY <3>2, <3>3, <3>4
      <3>6. q <= Bps
        <4> HIDE DEF q
        <4> QED
          BY <3>1, <3>3, <3>5, Cancel
      <3> QED
        BY <2>2, <2>3, <3>3, <3>6 DEF x, span
    <2> HIDE DEF share, span
    <2>4. CASE share <= TopPayerFullBps
      BY <2>2, <2>4
    <2>5. CASE share >= TopPayerZeroBps /\ ~(share <= TopPayerFullBps)
      BY <2>2, <2>5
    <2> QED
      BY <2>3, <2>4, <2>5
  <1> QED
    BY <1>2, <1>3

\* An earner's value is at most what it was settled for.
LEMMA EarnerValueFacts ==
    ASSUME NEW settled, IsFiniteSet(DOMAIN settled),
           \A d \in DOMAIN settled : settled[d] \in Nat
    PROVE  EarnerValue(settled) \in 0..SumFunction(settled)
  <1> DEFINE total == SumFunction(settled)
             q == (total * DiscountBps(settled)) \div Bps
  <1>1. total \in Nat /\ DiscountBps(settled) \in Nat /\ DiscountBps(settled) <= Bps
    BY SumIsNat, DiscountFacts DEF SumFunction
  <1> HIDE DEF total
  <1>2. total * DiscountBps(settled) \in Nat /\ total * DiscountBps(settled) <= total * Bps
    BY <1>1, Product, Monotone
  <1>3. q \in Nat /\ q * Bps <= total * DiscountBps(settled)
    BY <1>2, Quotient
  <1>4. q * Bps <= total * Bps
    BY <1>1, <1>2, <1>3, Product
  <1>5. q <= total
    <2> HIDE DEF q
    <2> QED
      BY <1>1, <1>3, <1>4, Cancel
  <1> QED
    BY <1>3, <1>5 DEF EarnerValue, total

\* Demand from inside one control domain is worth nothing.
LEMMA OneDomainIsWorthless ==
    ASSUME NEW settled, IsFiniteSet(DOMAIN settled),
           \A d \in DOMAIN settled : settled[d] \in Nat,
           \A d, e \in DOMAIN settled : d = e
    PROVE  EarnerValue(settled) = 0
  <1> DEFINE total == SumFunction(settled)
             top == Peak({settled[d] : d \in DOMAIN settled})
  <1>1. total \in Nat
    BY SumIsNat DEF SumFunction
  <1>2. CASE total = 0
    <2>1. DiscountBps(settled) \in Nat
      BY DiscountFacts
    <2>2. 0 * DiscountBps(settled) = 0 /\ 0 \div Bps = 0
      BY <2>1
    <2> QED
      BY <1>2, <2>2 DEF EarnerValue
  <1>3. CASE total > 0
    <2>1. DOMAIN settled # {}
      BY <1>3, SumOfNone DEF SumFunction
    <2>2. PICK d : DOMAIN settled = {d}
      BY <2>1
    <2>3. total = settled[d]
      BY <2>2, SumOfOne DEF SumFunction
    <2>4. {settled[e] : e \in DOMAIN settled} = {total}
      BY <2>2, <2>3
    <2>5. top \in {total, 0} /\ total <= top
      BY <2>2, <2>3, <2>4, TopPayer
    <2>6. top = total
      <3> HIDE DEF top, total
      <3> QED
        BY <1>1, <1>3, <2>5
    <2>7. (total * Bps) \div total = Bps
      BY <1>1, <1>3, ExactQuotient
    <2>8. Bps >= TopPayerZeroBps /\ ~(Bps <= TopPayerFullBps)
      OBVIOUS
    <2>9. DiscountBps(settled) = 0
      BY <1>3, <2>6, <2>7, <2>8 DEF DiscountBps
    <2>10. total * 0 = 0 /\ 0 \div Bps = 0
      BY <1>1
    <2> QED
      BY <2>9, <2>10 DEF EarnerValue
  <1> QED
    BY <1>1, <1>2, <1>3

-----------------------------------------------------------------------------
(* The organic value of an epoch                                           *)

\* An earner's organic units, those of them from one domain, and everyone's.
OrganicOf(us, earner) == {i \in DOMAIN us : IsOrganic(us[i]) /\ us[i].identity = earner}
OrganicFrom(us, earner, d) ==
    {i \in DOMAIN us : /\ IsOrganic(us[i])
                       /\ us[i].identity = earner
                       /\ d = DomainOf(us[i].payer)}
Organic(us) == {i \in DOMAIN us : IsOrganic(us[i])}

LEMMA SettledFacts ==
    ASSUME NEW us, IsFiniteSet(DOMAIN us), \A i \in DOMAIN us : us[i].price \in Nat,
           NEW earner
    PROVE  LET settled == SettledByPayer(us, earner)
           IN  /\ IsFiniteSet(DOMAIN settled)
               /\ \A d \in DOMAIN settled :
                     settled[d] \in Nat /\ OrganicFrom(us, earner, d) # {}
               /\ SumFunction(settled) = SumFunctionOnSet(Price(us), OrganicOf(us, earner))
  <1> DEFINE settled == SettledByPayer(us, earner)
             from(d) == OrganicFrom(us, earner, d)
             own == OrganicOf(us, earner)
             payer == [i \in DOMAIN us |-> DomainOf(us[i].payer)]
             D == {d \in {DomainOf(us[i].payer) : i \in DOMAIN us} : from(d) # {}}
  <1>1. settled = [d \in D |-> SumFunctionOnSet(Price(us), from(d))]
    <2>1. \A d : MapThenSumSet(LAMBDA i : us[i].price, from(d))
                    = SumFunctionOnSet(Price(us), from(d))
      <3> TAKE d
      <3>1. from(d) \in SUBSET DOMAIN us
        BY DEF OrganicFrom
      <3> QED
        BY <3>1, PriceSum
    <2> QED
      BY <2>1, Zenon DEF SettledByPayer, OrganicFrom
  <1>2. DOMAIN settled = D /\ \A d \in D : settled[d] = SumFunctionOnSet(Price(us), from(d))
    BY <1>1
  <1>3. IsFiniteSet(D)
    <2>1. {payer[i] : i \in DOMAIN us} = {DomainOf(us[i].payer) : i \in DOMAIN us}
      OBVIOUS
    <2>2. IsFiniteSet({payer[i] : i \in DOMAIN us})
      <3> HIDE DEF payer
      <3> QED
        BY FiniteImage
    <2>3. D \in SUBSET {DomainOf(us[i].payer) : i \in DOMAIN us}
      OBVIOUS
    <2> HIDE DEF D, payer
    <2> QED
      BY <2>1, <2>2, <2>3, FS_Subset
  <1>4. IsFiniteSet(own) /\ own \in SUBSET DOMAIN us
    BY FS_Subset DEF OrganicOf
  <1>5. \A i \in DOMAIN us : Price(us)[i] \in Nat
    BY DEF Price
  <1>6. ASSUME NEW d PROVE IsFiniteSet(from(d)) /\ SumFunctionOnSet(Price(us), from(d)) \in Nat
    <2>1. from(d) \in SUBSET DOMAIN us
      BY DEF OrganicFrom
    <2>2. IsFiniteSet(from(d)) /\ \A i \in from(d) : Price(us)[i] \in Nat
      BY <1>5, <2>1, FS_Subset
    <2> QED
      BY <2>2, SumIsNat
  <1>7. SumFunctionOnSet(settled, D) = SumFunctionOnSet(Price(us), own)
    <2> DEFINE group == [i \in own |-> DomainOf(us[i].payer)]
    <2>1. group \in [own -> D]
      BY DEF OrganicOf, OrganicFrom
    <2>2. \A d \in D : from(d) = GroupOf(group, d)
      BY DEF OrganicOf, OrganicFrom, GroupOf
    <2>3. \A d \in D : settled[d] = SumFunctionOnSet(Price(us), GroupOf(group, d))
      BY <1>2, <2>2
    <2>4. \A i \in own : Price(us)[i] \in Nat
      BY <1>4, <1>5
    <2> HIDE DEF group, settled, D, own
    <2> QED
      BY <1>3, <1>4, <2>1, <2>3, <2>4, SumByGroup
  <1> HIDE DEF D
  <1>8. SumFunction(settled) = SumFunctionOnSet(settled, D)
    BY <1>2 DEF SumFunction
  <1>9. \A d \in D : from(d) # {}
    BY DEF D
  <1> QED
    BY <1>2, <1>3, <1>6, <1>7, <1>8, <1>9

\* The organic units of some earners.
OrganicIn(us, W) == {i \in DOMAIN us : IsOrganic(us[i]) /\ us[i].identity \in W}

\* Organic value is at most what the organic units of the earners were settled
\* for that have a value.
LEMMA ValueOfEarners ==
    ASSUME NEW us, IsFiniteSet(DOMAIN us), \A i \in DOMAIN us : us[i].price \in Nat,
           NEW W,
           \A e \in OrganicEarners(us) : e \notin W => EarnerValue(SettledByPayer(us, e)) = 0
    PROVE  /\ OrganicSettledValue(us) \in Nat
           /\ SumFunctionOnSet(Price(us), OrganicIn(us, W)) \in Nat
           /\ OrganicSettledValue(us) <= SumFunctionOnSet(Price(us), OrganicIn(us, W))
  <1> DEFINE E == OrganicEarners(us)
             F == E \cap W
             worth == [e \in E |-> EarnerValue(SettledByPayer(us, e))]
             demand == [e \in E |-> SumFunctionOnSet(Price(us), OrganicOf(us, e))]
             who == [i \in OrganicIn(us, W) |-> us[i].identity]
             all == [i \in Organic(us) |-> us[i].identity]
  <1>1. OrganicSettledValue(us) = SumFunctionOnSet(worth, E)
    BY ZenonT(60) DEF OrganicSettledValue, MapThenSumSet, SumFunctionOnSet, FoldFunctionOnSet,
       MapThenFoldSet
  <1>2. IsFiniteSet(OrganicIn(us, W)) /\ \A i \in OrganicIn(us, W) : Price(us)[i] \in Nat
    <2>1. OrganicIn(us, W) \in SUBSET DOMAIN us /\ IsFiniteSet(OrganicIn(us, W))
      BY FS_Subset DEF OrganicIn
    <2> QED
      BY <2>1 DEF Price
  <1>3. IsFiniteSet(E)
    <2>1. E = {all[i] : i \in Organic(us)} /\ Organic(us) \in SUBSET DOMAIN us
      BY DEF OrganicEarners, Organic
    <2>2. IsFiniteSet(Organic(us))
      BY <2>1, FS_Subset
    <2> HIDE DEF all, E
    <2> QED
      BY <2>1, <2>2, FiniteImage
  <1>4. \A e \in E : worth[e] \in Nat /\ demand[e] \in Nat /\ worth[e] <= demand[e]
    <2> TAKE e \in E
    <2> DEFINE settled == SettledByPayer(us, e)
    <2>1. /\ IsFiniteSet(DOMAIN settled) /\ \A d \in DOMAIN settled : settled[d] \in Nat
          /\ SumFunction(settled) = demand[e]
      BY SettledFacts
    <2>2. SumFunction(settled) \in Nat
      <3> HIDE DEF settled
      <3> QED
        BY <2>1, SumIsNat DEF SumFunction
    <2>3. EarnerValue(settled) \in 0..SumFunction(settled)
      <3> HIDE DEF settled
      <3> QED
        BY <2>1, EarnerValueFacts
    <2> QED
      BY <2>1, <2>2, <2>3
  <1>5. F \in SUBSET E /\ IsFiniteSet(F)
    <2>1. F \in SUBSET E
      OBVIOUS
    <2> HIDE DEF E, F
    <2> QED
      BY <1>3, <2>1, FS_Subset
  <1>6. SumFunctionOnSet(demand, F) = SumFunctionOnSet(Price(us), OrganicIn(us, W))
    <2>1. who \in [OrganicIn(us, W) -> F]
      BY DEF OrganicEarners, OrganicIn
    <2>2. \A e \in F : OrganicOf(us, e) = GroupOf(who, e)
      BY DEF OrganicOf, OrganicIn, GroupOf
    <2>3. \A e \in F : demand[e] = SumFunctionOnSet(Price(us), GroupOf(who, e))
      BY <2>2
    <2> HIDE DEF who, demand, F
    <2> QED
      BY <1>2, <1>5, <2>1, <2>3, SumByGroup
  <1>7. \A e \in E : worth[e] = IF e \in F THEN worth[e] ELSE 0
    OBVIOUS
  <1> HIDE DEF worth, demand, E, F
  <1>8. SumFunctionOnSet(worth, E) = SumFunctionOnSet(worth, F)
    <2>1. \A e \in F : worth[e] \in Nat
      BY <1>4, <1>5
    <2> QED
      BY <1>3, <1>5, <1>7, <2>1, SumOfExtension
  <1>9. SumFunctionOnSet(worth, F) <= SumFunctionOnSet(demand, F)
    <2>1. \A e \in F : worth[e] \in Nat /\ demand[e] \in Nat /\ worth[e] <= demand[e]
      BY <1>4, <1>5
    <2> QED
      BY <1>5, <2>1, SumsAreMonotone
  <1>10. SumFunctionOnSet(worth, F) \in Nat /\ SumFunctionOnSet(demand, F) \in Nat
    BY <1>4, <1>5, SumIsNat
  <1> QED
    BY <1>1, <1>6, <1>8, <1>9, <1>10

\* Organic value is at most what the organic units were settled for.
LEMMA OrganicValueFacts ==
    ASSUME NEW us, IsFiniteSet(DOMAIN us), \A i \in DOMAIN us : us[i].price \in Nat
    PROVE  /\ OrganicSettledValue(us) \in Nat
           /\ SumFunctionOnSet(Price(us), Organic(us)) \in Nat
           /\ OrganicSettledValue(us) <= SumFunctionOnSet(Price(us), Organic(us))
  <1>1. OrganicIn(us, OrganicEarners(us)) = Organic(us)
    BY DEF OrganicIn, Organic, OrganicEarners
  <1> QED
    BY <1>1, ValueOfEarners

\* The peak of the organic value is at least the value.
LEMMA OrganicPeakFacts ==
    ASSUME NEW us, IsFiniteSet(DOMAIN us), \A i \in DOMAIN us : us[i].price \in Nat
    PROVE  /\ OrganicSettledValue(us) \in Nat /\ OrganicSettledPeak(us) \in Nat
           /\ OrganicSettledValue(us) <= OrganicSettledPeak(us)
  <1> DEFINE E == OrganicEarners(us)
             of == [e \in E |-> SettledByPayer(us, e)]
             all == {of[e] : e \in E}
             peak(s) == Peak({SumFunction(s), Peak({s[d] : d \in DOMAIN s}) * Bps,
                              SumFunction(s) * DiscountBps(s)})
             peaks == [s \in all |-> peak(s)]
             P == {peaks[s] : s \in all}
  <1>2. IsFiniteSet(E)
    <2> DEFINE who == [i \in Organic(us) |-> us[i].identity]
    <2>1. E = {who[i] : i \in Organic(us)}
      BY DEF OrganicEarners, Organic
    <2>2. Organic(us) \in SUBSET DOMAIN us /\ IsFiniteSet(Organic(us))
      BY FS_Subset DEF Organic
    <2> HIDE DEF who, E
    <2> QED
      BY <2>1, <2>2, FiniteImage
  <1>3. IsFiniteSet(all)
    <2> HIDE DEF of
    <2> QED
      BY <1>2, FiniteImage
  <1>4. ASSUME NEW s \in all PROVE peak(s) \in Nat
    <2>1. PICK e \in E : s = SettledByPayer(us, e)
      OBVIOUS
    <2>2. IsFiniteSet(DOMAIN s) /\ \A d \in DOMAIN s : s[d] \in Nat
      BY <2>1, SettledFacts
    <2>3. SumFunction(s) \in Nat /\ Peak({s[d] : d \in DOMAIN s}) \in Nat /\ DiscountBps(s) \in Nat
      BY <2>2, SumIsNat, TopPayer, DiscountFacts DEF SumFunction
    <2> DEFINE x == SumFunction(s)
               y == Peak({s[d] : d \in DOMAIN s}) * Bps
               z == SumFunction(s) * DiscountBps(s)
    <2>4. x \in Nat /\ y \in Nat /\ z \in Nat
      BY <2>3, Product
    <2> HIDE DEF x, y, z
    <2>5. IsFiniteSet({x, y, z}) /\ {x, y, z} \subseteq Nat
      <3>1. {x, y, z} = ({x} \cup {y}) \cup {z}
        OBVIOUS
      <3>2. IsFiniteSet({x} \cup {y}) /\ IsFiniteSet({z})
        BY FS_Singleton, FS_Union
      <3>3. IsFiniteSet(({x} \cup {y}) \cup {z})
        BY <3>2, FS_Union
      <3> QED
        BY <2>4, <3>1, <3>3
    <2>6. Peak({x, y, z}) \in Nat
      BY <2>5, PeakOfNats
    <2> QED
      BY <2>6 DEF x, y, z
  <1>5. IsFiniteSet(P) /\ P \subseteq Nat
    <2>1. P \subseteq Nat
      <3> HIDE DEF peak, all
      <3> QED
        BY <1>4
    <2> HIDE DEF peaks, all
    <2> QED
      BY <1>3, <2>1, FiniteImage
  <1>6. OrganicSettledPeak(us) = Peak(P \cup {OrganicSettledValue(us)})
    <2>1. all = {SettledByPayer(us, e) : e \in E}
      OBVIOUS
    <2> HIDE DEF all
    <2>2. P = {peak(s) : s \in all}
      OBVIOUS
    <2> HIDE DEF P
    <2> QED
      BY <2>1, <2>2, Zenon DEF OrganicSettledPeak
  <1>7. OrganicSettledValue(us) \in Nat
    BY OrganicValueFacts
  <1> HIDE DEF P
  <1>8. /\ IsFiniteSet(P \cup {OrganicSettledValue(us)})
        /\ P \cup {OrganicSettledValue(us)} \subseteq Nat
    BY <1>5, <1>7, FS_AddElement
  <1> QED
    BY <1>6, <1>7, <1>8, PeakOfNats

-----------------------------------------------------------------------------
(* Units, pool and budgets                                                  *)

\* A unit's score is a natural.
LEMMA UnitScoreIsNat ==
    ASSUME NEW unit, unit.value \in Nat, unit.price \in Nat, unit.evidence \in EvidenceLevel
    PROVE  UnitBase(unit) \in Nat /\ WorkUnitScore(unit) \in Nat
  <1>1. MultiplierPercent[unit.evidence] \in Nat
    <2>1. /\ 2 * Percent \in Nat
          /\ 12 * Percent \in Nat /\ 15 * Percent \in Nat /\ 17 * Percent \in Nat
      OBVIOUS
    <2>2. /\ (12 * Percent) \div 10 \in Nat /\ (15 * Percent) \div 10 \in Nat
          /\ (17 * Percent) \div 10 \in Nat
      BY <2>1, Quotient
    <2> QED
      BY <2>1, <2>2 DEF MultiplierPercent, EvidenceLevel
  <1>2. Least(unit.value, unit.price) \in Nat
    BY DEF Least
  <1>3. UnitBase(unit) \in Nat
    BY <1>1, <1>2, Product DEF UnitBase
  <1> QED
    BY <1>3, Quotient DEF WorkUnitScore

\* A share of v in basis points is at most their product.
LEMMA ApplyBpsFacts ==
    ASSUME NEW v \in Nat, NEW bps \in Nat
    PROVE  ApplyBps(v, bps) \in Nat /\ ApplyBps(v, bps) <= v * bps
  <1>1. v * bps \in Nat
    BY Product
  <1>2. ApplyBps(v, bps) \in Nat /\ ApplyBps(v, bps) * Bps <= v * bps
    BY <1>1, Quotient DEF ApplyBps
  <1>3. ApplyBps(v, bps) * 1 <= ApplyBps(v, bps) * Bps
    BY <1>2, Monotone
  <1> QED
    BY <1>1, <1>2, <1>3, Product

\* A share in basis points is at most the whole.
LEMMA ShareOfWhole ==
    ASSUME NEW v \in Nat, NEW bps \in Nat, bps <= Bps
    PROVE  ApplyBps(v, bps) \in 0..v
  <1>1. v * bps \in Nat /\ v * bps <= v * Bps /\ v * Bps \in Nat
    BY Product, Monotone
  <1>2. ApplyBps(v, bps) \in Nat /\ ApplyBps(v, bps) * Bps <= v * bps
    BY <1>1, Quotient DEF ApplyBps
  <1>3. ApplyBps(v, bps) * Bps <= v * Bps
    BY <1>1, <1>2, Product
  <1> QED
    BY <1>2, <1>3, Cancel

\* The pool is at most k percent of the organic value.
LEMMA PoolFacts ==
    ASSUME NEW cap \in Nat, NEW k \in Nat, NEW value \in Nat
    PROVE  /\ EpochPool(cap, k, value) \in Nat
           /\ EpochPool(cap, k, value) * Percent <= value * k
           /\ EpochPool(cap, k, value) <= value * k
           /\ value = 0 => EpochPool(cap, k, value) = 0
  <1> DEFINE q == (value * k) \div Percent
             pl == EpochPool(cap, k, value)
  <1>1. value * k \in Nat
    BY Product
  <1>2. q \in Nat /\ q * Percent <= value * k
    BY <1>1, Quotient
  <1>3. pl \in Nat /\ pl <= q
    <2> HIDE DEF q
    <2>1. pl = Least(cap, q)
      BY DEF EpochPool, q
    <2> QED
      BY <1>2, <2>1 DEF Least
  <1>4. value = 0 => q = 0
    OBVIOUS
  <1> HIDE DEF q, pl
  <1>5. pl * Percent <= value * k /\ pl <= value * k
    <2>1. pl * Percent <= q * Percent /\ pl * 1 <= pl * Percent
      BY <1>2, <1>3, Monotone
    <2>2. pl * Percent \in Nat /\ q * Percent \in Nat
      BY <1>2, <1>3, Product
    <2> QED
      BY <1>1, <1>2, <1>3, <2>1, <2>2
  <1>6. value = 0 => pl = 0
    BY <1>2, <1>3, <1>4
  <1> QED
    BY <1>3, <1>5, <1>6 DEF pl

\* Together the budgets are at most the pool and the floor, and organic work
\* keeps all but the challenge share.
LEMMA BudgetFacts ==
    ASSUME NEW pl \in Nat, NEW value \in Nat
    PROVE  /\ OrganicBudget(pl, value) \in Nat /\ ChallengeBudget(pl, value) \in Nat
           /\ OrganicBudget(pl, value) + ChallengeBudget(pl, value) <= pl + ColdStartFloor
           /\ OrganicBudget(pl, value) <= pl
           /\ OrganicBudget(pl, value) >= pl - PoolShare(pl)
           /\ ChallengeBudget(pl, value) <= Greatest(pl, ColdStartFloor)
  <1> DEFINE share == PoolShare(pl)
             cover == (value * OrganicMultiplePercent) \div Percent
  <1>1. share \in 0..pl
    BY ShareOfWhole DEF PoolShare
  <1>2. cover \in Nat
    BY Product, Quotient
  <1>3. ChallengeBudget(pl, value) = Greatest(Least(share, cover), ColdStartFloor)
    BY DEF ChallengeBudget
  <1>4. OrganicBudget(pl, value) = pl - Least(ChallengeBudget(pl, value), share)
    BY DEF OrganicBudget, Carve
  <1> HIDE DEF share, cover
  <1>5. ChallengeBudget(pl, value) \in Nat
        /\ ChallengeBudget(pl, value) <= Greatest(pl, ColdStartFloor)
    BY <1>1, <1>2, <1>3 DEF Greatest, Least
  <1>6. /\ OrganicBudget(pl, value) \in Nat
        /\ OrganicBudget(pl, value) <= pl
        /\ OrganicBudget(pl, value) >= pl - share
    BY <1>1, <1>4, <1>5 DEF Least
  <1>7. OrganicBudget(pl, value) + ChallengeBudget(pl, value) <= pl + ColdStartFloor
    BY <1>1, <1>2, <1>3, <1>4, <1>5 DEF Greatest, Least
  <1> QED
    BY <1>5, <1>6, <1>7 DEF share
=============================================================================
