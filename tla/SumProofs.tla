----------------------------- MODULE SumProofs -----------------------------
(***************************************************************************)
(* Sums over finite sets, as the books and the escrow build them with      *)
(* MapThenSumSet. The library states induction for an operator; here it is *)
(* stated for a set of sets, which the provers can instantiate, and with   *)
(* it what the sum of a function over a finite set is.                     *)
(***************************************************************************)
EXTENDS Integers, FiniteSetsExt, FiniteSetTheorems, WellFoundedInduction, TLAPS

----------------------------------------------------------------------------
(* Induction over the subsets of a finite set. *)

\* A set of subsets of a finite set has a smallest member.
LEMMA SmallestSubset ==
  ASSUME NEW S, IsFiniteSet(S), NEW Q \in SUBSET SUBSET S, Q # {}
  PROVE  \E t \in Q : \A u \in Q : u \subseteq t => u = t
<1>. DEFINE R == StrictSubsetOrdering(S)
<1>1. IsWellFoundedOn(R, SUBSET S)
  BY FS_StrictSubsetOrderingWellFounded, FS_FiniteSubsetsOfFinite
<1>2. \A t, u \in SUBSET S : u \subseteq t /\ u # t => <<u, t>> \in R
  BY DEF StrictSubsetOrdering
<1>. HIDE DEF R
<1>3. \E t \in Q : \A u \in Q : ~ (<<u, t>> \in R)
  BY <1>1, WFMin
<1> QED BY <1>2, <1>3

\* What holds of a set whenever it holds of its smaller subsets holds of all
\* the subsets of a finite set.
LEMMA SubsetInduction ==
  ASSUME NEW S, IsFiniteSet(S), NEW Q,
         \A t \in SUBSET S : (\A u \in SUBSET t : u # t => u \in Q) => t \in Q
  PROVE  SUBSET S \subseteq Q
<1>. DEFINE X == (SUBSET S) \ Q
<1>1. SUFFICES ASSUME X # {} PROVE FALSE OBVIOUS
<1>2. X \in SUBSET SUBSET S OBVIOUS
<1>. HIDE DEF X
<1>3. PICK t \in X : \A u \in X : u \subseteq t => u = t
  BY <1>1, <1>2, SmallestSubset
<1>. USE DEF X
<1>4. t \in SUBSET S /\ t \notin Q BY <1>3
<1>5. \A u \in SUBSET t : u # t => u \in Q
  BY <1>3, <1>4
<1> QED BY <1>4, <1>5

----------------------------------------------------------------------------
(* The sum of a function. *)

Sum(f, S) == MapThenSumSet(LAMBDA i : f[i], S)

\* The element the fold takes next.
Next1(s) == CHOOSE x \in s : TRUE

\* The recursion of the fold.
Adds(g, f, S) ==
  g = [s \in SUBSET S |-> IF s = {} THEN 0 ELSE f[Next1(s)] + g[s \ {Next1(s)}]]

Folded(f, S) == CHOOSE g : Adds(g, f, S)

LEMMA SumIsFold == ASSUME NEW f, NEW S PROVE Sum(f, S) = Folded(f, S)[S]
BY Zenon DEF Sum, MapThenSumSet, MapThenFoldSet, Folded, Adds, Next1

LEMMA NextIsMember == ASSUME NEW s, s # {} PROVE Next1(s) \in s
BY DEF Next1

LEMMA AddsAt ==
  ASSUME NEW f, NEW S, NEW g, Adds(g, f, S), NEW s \in SUBSET S
  PROVE  /\ s = {} => g[s] = 0
         /\ s # {} => g[s] = f[Next1(s)] + g[s \ {Next1(s)}]
<1>. DEFINE e(t) == IF t = {} THEN 0 ELSE f[Next1(t)] + g[t \ {Next1(t)}]
<1>1. g = [t \in SUBSET S |-> e(t)] BY DEF Adds
<1>. HIDE DEF e
<1>2. g[s] = e(s) BY <1>1
<1>3. g[s] = IF s = {} THEN 0 ELSE f[Next1(s)] + g[s \ {Next1(s)}]
  BY <1>2 DEF e
<1>. HIDE DEF Next1
<1> QED BY <1>3

\* Two functions with the recursion agree where both are defined.
LEMMA FoldsAgree ==
  ASSUME NEW f, NEW S, NEW T \in SUBSET S, IsFiniteSet(T), NEW g, NEW h, Adds(g, f, S), Adds(h, f, T)
  PROVE  \A s \in SUBSET T : g[s] = h[s]
<1>. DEFINE Q == {s \in SUBSET T : g[s] = h[s]}
<1>1. ASSUME NEW t \in SUBSET T, \A u \in SUBSET t : u # t => u \in Q PROVE t \in Q
  <2>1. CASE t = {}
    <3>1. g[t] = 0 BY <2>1, AddsAt
    <3>2. h[t] = 0 BY <2>1, AddsAt
    <3> QED BY <3>1, <3>2
  <2>2. CASE t # {}
    <3>. DEFINE u == t \ {Next1(t)}
    <3>1. Next1(t) \in t BY <2>2, NextIsMember
    <3>2. u \in Q BY <1>1, <3>1
    <3>3. g[u] = h[u] BY <3>2
    <3>4. g[t] = f[Next1(t)] + g[u] BY <2>2, AddsAt
    <3>5. h[t] = f[Next1(t)] + h[u] BY <2>2, AddsAt
    <3>. HIDE DEF u
    <3> QED BY <3>3, <3>4, <3>5
  <2> QED BY <2>1, <2>2
<1>. HIDE DEF Q
<1>2. SUBSET T \subseteq Q BY <1>1, SubsetInduction
<1> QED BY <1>2 DEF Q

\* There is such a function.
LEMMA FoldExists ==
  ASSUME NEW f, NEW S, IsFiniteSet(S)
  PROVE  \A t \in SUBSET S : Adds(Folded(f, t), f, t)
<1>. DEFINE Q == {t \in SUBSET S : Adds(Folded(f, t), f, t)}
<1>1. ASSUME NEW t \in SUBSET S, \A u \in SUBSET t : u # t => u \in Q PROVE t \in Q
  <2>. DEFINE H(u) == Folded(f, u)[u]
              g == [s \in SUBSET t |-> IF s = {} THEN 0 ELSE f[Next1(s)] + H(s \ {Next1(s)})]
  <2>1. ASSUME NEW s \in SUBSET t, s # t PROVE g[s] = H(s)
    <3>1. Adds(Folded(f, s), f, s) BY <1>1, <2>1
    <3>2. CASE s = {}
      <4>1. H(s) = 0 BY <3>1, <3>2, AddsAt
      <4>2. g[s] = 0 BY <3>2
      <4> QED BY <4>1, <4>2
    <3>3. CASE s # {}
      <4>. DEFINE u == s \ {Next1(s)}
      <4>1. Next1(s) \in s BY <3>3, NextIsMember
      <4>2. u \in SUBSET s /\ u \in SUBSET t /\ u # t BY <4>1
      <4>3. Adds(Folded(f, u), f, u) BY <1>1, <4>2
      <4>4. IsFiniteSet(u) BY <4>2, FS_Subset
      <4>5. Folded(f, s)[u] = H(u)
        <5>1. \A v \in SUBSET u : Folded(f, s)[v] = Folded(f, u)[v]
          BY <3>1, <4>2, <4>3, <4>4, FoldsAgree
        <5> QED BY <5>1
      <4>6. H(s) = f[Next1(s)] + Folded(f, s)[u] BY <3>1, <3>3, AddsAt
      <4>7. g[s] = f[Next1(s)] + H(u) BY <3>3
      <4> QED BY <4>5, <4>6, <4>7
    <3> QED BY <3>2, <3>3
  <2>2. \A s \in SUBSET t : s # {} => g[s \ {Next1(s)}] = H(s \ {Next1(s)})
    <3> SUFFICES ASSUME NEW s \in SUBSET t, s # {} PROVE g[s \ {Next1(s)}] = H(s \ {Next1(s)})
      OBVIOUS
    <3>1. Next1(s) \in s BY NextIsMember
    <3>2. s \ {Next1(s)} \in SUBSET t /\ s \ {Next1(s)} # t BY <3>1
    <3>. HIDE DEF g, H
    <3> QED BY <2>1, <3>2
  <2>3. Adds(g, f, t)
    <3>. DEFINE e(s) == IF s = {} THEN 0 ELSE f[Next1(s)] + H(s \ {Next1(s)})
                d(s) == IF s = {} THEN 0 ELSE f[Next1(s)] + g[s \ {Next1(s)}]
    <3>1. \A s \in SUBSET t : e(s) = d(s)
      <4>. HIDE DEF g, H
      <4> QED BY <2>2, Zenon
    <3>2. g = [s \in SUBSET t |-> e(s)] OBVIOUS
    <3>. HIDE DEF g, e, d
    <3>3. g = [s \in SUBSET t |-> d(s)] BY <3>1, <3>2
    <3> QED BY <3>3, Zenon DEF Adds, d
  <2>. HIDE DEF g
  <2>4. Adds(Folded(f, t), f, t) BY <2>3, Zenon DEF Folded
  <2> QED BY <2>4
<1>. HIDE DEF Q
<1>2. SUBSET S \subseteq Q BY <1>1, SubsetInduction
<1> QED BY <1>2 DEF Q

----------------------------------------------------------------------------
(* What a sum is. *)

\* The recursion of the sum itself.
LEMMA SumNext ==
  ASSUME NEW f, NEW S, IsFiniteSet(S)
  PROVE  /\ S = {} => Sum(f, S) = 0
         /\ S # {} => Sum(f, S) = f[Next1(S)] + Sum(f, S \ {Next1(S)})
<1>1. Adds(Folded(f, S), f, S) BY FoldExists
<1>2. CASE S = {}
  BY <1>1, <1>2, AddsAt, SumIsFold
<1>3. CASE S # {}
  <2>. DEFINE T == S \ {Next1(S)}
  <2>1. T \in SUBSET S /\ IsFiniteSet(T) BY FS_Subset
  <2>2. Adds(Folded(f, T), f, T) BY <2>1, FoldExists
  <2>3. \A s \in SUBSET T : Folded(f, S)[s] = Folded(f, T)[s]
    BY <1>1, <2>1, <2>2, FoldsAgree
  <2>4. Folded(f, S)[S] = f[Next1(S)] + Folded(f, S)[T]
    BY <1>1, <1>3, AddsAt
  <2>. HIDE DEF T
  <2>5. Folded(f, S)[T] = Sum(f, T) BY <2>3, SumIsFold
  <2>6. Sum(f, S) = Folded(f, S)[S] BY SumIsFold
  <2>7. Sum(f, S) = f[Next1(S)] + Sum(f, T) BY <2>4, <2>5, <2>6
  <2> QED BY <1>3, <2>7 DEF T
<1> QED BY <1>2, <1>3

\* A sum of integers is one.
LEMMA SumType ==
  ASSUME NEW f, NEW S, IsFiniteSet(S), \A i \in S : f[i] \in Int
  PROVE  \A t \in SUBSET S : Sum(f, t) \in Int
<1>. DEFINE Q == {t \in SUBSET S : Sum(f, t) \in Int}
<1>1. ASSUME NEW t \in SUBSET S, \A u \in SUBSET t : u # t => u \in Q PROVE t \in Q
  <2>1. IsFiniteSet(t) BY FS_Subset
  <2>2. CASE t = {}
    <3>1. Sum(f, t) = 0 BY <2>1, <2>2, SumNext
    <3> QED BY <3>1
  <2>3. CASE t # {}
    <3>1. Next1(t) \in t BY <2>3, NextIsMember
    <3>2. Sum(f, t \ {Next1(t)}) \in Int BY <1>1, <3>1
    <3>3. Sum(f, t) = f[Next1(t)] + Sum(f, t \ {Next1(t)}) BY <2>1, <2>3, SumNext
    <3> QED BY <3>1, <3>2, <3>3
  <2> QED BY <2>2, <2>3
<1>. HIDE DEF Q
<1>2. SUBSET S \subseteq Q BY <1>1, SubsetInduction
<1> QED BY <1>2 DEF Q

\* The order in which the fold takes the elements does not matter.
LEMMA SumTakesOut ==
  ASSUME NEW f, NEW S, IsFiniteSet(S), \A i \in S : f[i] \in Int
  PROVE  \A x \in S : Sum(f, S) = f[x] + Sum(f, S \ {x})
<1>. DEFINE Q == {t \in SUBSET S : \A x \in t : Sum(f, t) = f[x] + Sum(f, t \ {x})}
<1>1. ASSUME NEW t \in SUBSET S, \A u \in SUBSET t : u # t => u \in Q PROVE t \in Q
  <2> SUFFICES ASSUME NEW x \in t PROVE Sum(f, t) = f[x] + Sum(f, t \ {x})
    OBVIOUS
  <2>1. PICK y \in t : Sum(f, t) = f[y] + Sum(f, t \ {y})
    <3>1. IsFiniteSet(t) /\ t # {} BY FS_Subset
    <3> QED BY <3>1, SumNext, NextIsMember
  <2>2. CASE x = y BY <2>1, <2>2
  <2>3. CASE x # y
    <3>. DEFINE w == Sum(f, t \ {x, y})
    <3>1. Sum(f, t \ {y}) = f[x] + Sum(f, (t \ {y}) \ {x})
      <4>1. t \ {y} \in Q BY <1>1
      <4> QED BY <4>1, <2>3
    <3>2. Sum(f, t \ {x}) = f[y] + Sum(f, (t \ {x}) \ {y})
      <4>1. t \ {x} \in Q BY <1>1
      <4> QED BY <4>1, <2>3
    <3>3. (t \ {y}) \ {x} = t \ {x, y} /\ (t \ {x}) \ {y} = t \ {x, y} OBVIOUS
    <3>4. w \in Int
      <4>1. t \ {x, y} \in SUBSET S OBVIOUS
      <4> QED BY <4>1, SumType
    <3>5. Sum(f, t \ {y}) = f[x] + w /\ Sum(f, t \ {x}) = f[y] + w BY <3>1, <3>2, <3>3
    <3>. HIDE DEF w
    <3>6. f[x] \in Int /\ f[y] \in Int OBVIOUS
    <3> QED BY <2>1, <3>4, <3>5, <3>6
  <2> QED BY <2>2, <2>3
<1>. HIDE DEF Q
<1>2. SUBSET S \subseteq Q BY <1>1, SubsetInduction
<1> QED BY <1>2 DEF Q

\* One element more.
LEMMA SumAddsOne ==
  ASSUME NEW f, NEW S, IsFiniteSet(S), NEW x, x \notin S, \A i \in S \cup {x} : f[i] \in Int
  PROVE  Sum(f, S \cup {x}) = f[x] + Sum(f, S)
<1>1. IsFiniteSet(S \cup {x}) BY FS_AddElement
<1>2. x \in S \cup {x} /\ (S \cup {x}) \ {x} = S OBVIOUS
<1>3. Sum(f, S \cup {x}) = f[x] + Sum(f, (S \cup {x}) \ {x}) BY <1>1, <1>2, SumTakesOut
<1> QED BY <1>2, <1>3

\* A sum depends only on what is summed.
LEMMA SumSame ==
  ASSUME NEW f, NEW g, NEW S, IsFiniteSet(S), \A i \in S : f[i] = g[i]
  PROVE  \A t \in SUBSET S : Sum(f, t) = Sum(g, t)
<1>. DEFINE Q == {t \in SUBSET S : Sum(f, t) = Sum(g, t)}
<1>1. ASSUME NEW t \in SUBSET S, \A u \in SUBSET t : u # t => u \in Q PROVE t \in Q
  <2>1. IsFiniteSet(t) BY FS_Subset
  <2>2. CASE t = {} BY <2>1, <2>2, SumNext
  <2>3. CASE t # {}
    <3>1. Next1(t) \in t BY <2>3, NextIsMember
    <3>2. Sum(f, t \ {Next1(t)}) = Sum(g, t \ {Next1(t)}) BY <1>1, <3>1
    <3>3. Sum(f, t) = f[Next1(t)] + Sum(f, t \ {Next1(t)}) BY <2>1, <2>3, SumNext
    <3>4. Sum(g, t) = g[Next1(t)] + Sum(g, t \ {Next1(t)}) BY <2>1, <2>3, SumNext
    <3>5. f[Next1(t)] = g[Next1(t)] BY <3>1
    <3>6. Sum(f, t) = Sum(g, t) BY <3>2, <3>3, <3>4, <3>5
    <3> QED BY <3>6
  <2> QED BY <2>2, <2>3
<1>. HIDE DEF Q
<1>2. SUBSET S \subseteq Q BY <1>1, SubsetInduction
<1> QED BY <1>2 DEF Q

\* A sum over two sets without a common element.
LEMMA SumSplits ==
  ASSUME NEW f, NEW S, IsFiniteSet(S), \A i \in S : f[i] \in Int, NEW T \in SUBSET S
  PROVE  Sum(f, S) = Sum(f, T) + Sum(f, S \ T)
<1>. DEFINE Q == {t \in SUBSET S : Sum(f, S) = Sum(f, t) + Sum(f, S \ t)}
<1>1. ASSUME NEW t \in SUBSET S, \A u \in SUBSET t : u # t => u \in Q PROVE t \in Q
  <2>1. IsFiniteSet(t) /\ IsFiniteSet(S \ t) BY FS_Subset
  <2>2. CASE t = {}
    <3>1. Sum(f, t) = 0 BY <2>1, <2>2, SumNext
    <3>2. S \ t = S BY <2>2
    <3>3. Sum(f, S) \in Int BY SumType
    <3>4. Sum(f, S) = 0 + Sum(f, S) BY <3>3
    <3> QED BY <3>1, <3>2, <3>4
  <2>3. CASE t # {}
    <3>1. PICK x \in t : TRUE BY <2>3
    <3>. DEFINE u == t \ {x}
    <3>2. u \in Q BY <1>1
    <3>3. Sum(f, S) = Sum(f, u) + Sum(f, S \ u) BY <3>2
    <3>4. Sum(f, t) = f[x] + Sum(f, u) BY <2>1, SumTakesOut
    <3>5. Sum(f, S \ u) = f[x] + Sum(f, S \ t)
      <4>1. S \ u = (S \ t) \cup {x} /\ x \notin S \ t OBVIOUS
      <4>2. \A i \in (S \ t) \cup {x} : f[i] \in Int OBVIOUS
      <4>. HIDE DEF u
      <4> QED BY <2>1, <4>1, <4>2, SumAddsOne
    <3>6. Sum(f, u) \in Int /\ Sum(f, S \ t) \in Int /\ f[x] \in Int
      <4>1. u \in SUBSET S /\ S \ t \in SUBSET S OBVIOUS
      <4> QED BY <4>1, SumType
    <3>. HIDE DEF u
    <3>7. Sum(f, S) = Sum(f, t) + Sum(f, S \ t) BY <3>3, <3>4, <3>5, <3>6
    <3> QED BY <3>7
  <2> QED BY <2>2, <2>3
<1>. HIDE DEF Q
<1>2. SUBSET S \subseteq Q BY <1>1, SubsetInduction
<1> QED BY <1>2 DEF Q

\* A sum of naturals is one, and a part of it is no larger.
LEMMA SumOfNaturals ==
  ASSUME NEW f, NEW S, IsFiniteSet(S), \A i \in S : f[i] \in Nat
  PROVE  \A t \in SUBSET S : Sum(f, t) \in Nat /\ Sum(f, t) <= Sum(f, S)
<1>. DEFINE Q == {t \in SUBSET S : Sum(f, t) \in Nat}
<1>1. ASSUME NEW t \in SUBSET S, \A u \in SUBSET t : u # t => u \in Q PROVE t \in Q
  <2>1. IsFiniteSet(t) BY FS_Subset
  <2>2. CASE t = {}
    <3>1. Sum(f, t) = 0 BY <2>1, <2>2, SumNext
    <3> QED BY <3>1
  <2>3. CASE t # {}
    <3>1. Next1(t) \in t BY <2>3, NextIsMember
    <3>2. Sum(f, t \ {Next1(t)}) \in Nat BY <1>1, <3>1
    <3>3. Sum(f, t) = f[Next1(t)] + Sum(f, t \ {Next1(t)}) BY <2>1, <2>3, SumNext
    <3> QED BY <3>1, <3>2, <3>3
  <2> QED BY <2>2, <2>3
<1>. HIDE DEF Q
<1>2. SUBSET S \subseteq Q BY <1>1, SubsetInduction
<1>3. \A t \in SUBSET S : Sum(f, t) \in Nat BY <1>2 DEF Q
<1>4. ASSUME NEW t \in SUBSET S PROVE Sum(f, t) <= Sum(f, S)
  <2>1. Sum(f, S) = Sum(f, t) + Sum(f, S \ t) BY SumSplits
  <2>2. Sum(f, S) \in Nat /\ Sum(f, t) \in Nat /\ Sum(f, S \ t) \in Nat BY <1>3
  <2> QED BY <2>1, <2>2
<1> QED BY <1>3, <1>4

\* A sum over what a function without collisions makes of a set.
LEMMA SumRenamed ==
  ASSUME NEW f, NEW g, NEW h, NEW S, IsFiniteSet(S),
         \A i \in S : g[i] \in Int /\ f[h[i]] = g[i],
         \A i, j \in S : h[i] = h[j] => i = j
  PROVE  Sum(f, {h[i] : i \in S}) = Sum(g, S)
<1>. DEFINE Im(t) == {h[i] : i \in t}
            Q == {t \in SUBSET S : IsFiniteSet(Im(t)) /\ Sum(f, Im(t)) = Sum(g, t)}
<1>1. ASSUME NEW t \in SUBSET S, \A u \in SUBSET t : u # t => u \in Q PROVE t \in Q
  <2>1. IsFiniteSet(t) BY FS_Subset
  <2>2. CASE t = {}
    <3>1. Im(t) = {} BY <2>2
    <3>2. Sum(f, {}) = 0 /\ Sum(g, {}) = 0 BY FS_EmptySet, SumNext
    <3>3. Sum(f, Im(t)) = Sum(g, t) BY <2>2, <3>1, <3>2
    <3> QED BY <3>1, <3>3, FS_EmptySet
  <2>3. CASE t # {}
    <3>1. PICK x \in t : TRUE BY <2>3
    <3>. DEFINE u == t \ {x}
    <3>2. IsFiniteSet(Im(u)) /\ Sum(f, Im(u)) = Sum(g, u)
      <4>1. u \in Q BY <1>1
      <4> QED BY <4>1
    <3>3. IsFiniteSet(u) BY <2>1, FS_Subset
    <3>4. Im(t) = Im(u) \cup {h[x]} /\ h[x] \notin Im(u) OBVIOUS
    <3>5. \A y \in Im(u) \cup {h[x]} : f[y] \in Int OBVIOUS
    <3>6. t = u \cup {x} /\ x \notin u /\ \A i \in u \cup {x} : g[i] \in Int OBVIOUS
    <3>7. f[h[x]] = g[x] OBVIOUS
    <3>. HIDE DEF u, Im
    <3>8. Sum(f, Im(t)) = f[h[x]] + Sum(f, Im(u)) BY <3>2, <3>4, <3>5, SumAddsOne
    <3>9. Sum(g, t) = g[x] + Sum(g, u) BY <3>3, <3>6, SumAddsOne
    <3>10. IsFiniteSet(Im(t)) BY <3>2, <3>4, FS_AddElement
    <3>11. Sum(f, Im(t)) = Sum(g, t) BY <3>2, <3>7, <3>8, <3>9
    <3> QED BY <3>10, <3>11
  <2> QED BY <2>2, <2>3
<1>. HIDE DEF Q
<1>2. SUBSET S \subseteq Q BY <1>1, SubsetInduction
<1>3. S \in Q BY <1>2
<1> QED BY <1>3 DEF Q

=============================================================================
