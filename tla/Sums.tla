---------------------------------- MODULE Sums ----------------------------------
(***************************************************************************)
(* The folds of the community modules are defined by recursion over sets,  *)
(* and a recursive function is what CHOOSE picks among those that satisfy  *)
(* its equation.  The lemmas below show that there is one, and what the    *)
(* sums over finite sets of integers are that are such folds.  A statement *)
(* fails for some subset only if it fails for a smallest one, which takes  *)
(* the place of induction.                                                 *)
(***************************************************************************)
EXTENDS Integers, FiniteSets, FiniteSetsExt, FiniteSetTheorems, WellFoundedInduction, TLAPS

LEMMA SmallestSubset ==
  ASSUME NEW S, IsFiniteSet(S), NEW T, T \subseteq SUBSET S, T # {}
  PROVE  \E x \in T : \A y \in SUBSET x : y # x => y \notin T
<1>1. IsWellFoundedOn(StrictSubsetOrdering(S), SUBSET S)
  BY FS_StrictSubsetOrderingWellFounded, FS_FiniteSubsetsOfFinite
<1>2. PICK x \in T : \A y \in T : <<y, x>> \notin StrictSubsetOrdering(S)
  BY <1>1, WFMin
<1> QED  BY <1>2 DEF StrictSubsetOrdering

\* What holds of the empty set, and of a set once it holds of the set without the element
\* that was picked, holds.
LEMMA BySteps ==
  ASSUME NEW S, IsFiniteSet(S), NEW pick, \A s \in SUBSET S : s # {} => pick[s] \in s,
         NEW g, NEW V, g[{}] \in V,
         \A s \in SUBSET S : s # {} /\ g[s \ {pick[s]}] \in V => g[s] \in V
  PROVE  \A s \in SUBSET S : g[s] \in V
<1> DEFINE T == {s \in SUBSET S : g[s] \notin V}
<1> SUFFICES ASSUME T # {} PROVE FALSE
  OBVIOUS
<1>1. PICK x \in T : \A y \in SUBSET x : y # x => y \notin T
  <2>1. T \subseteq SUBSET S
    OBVIOUS
  <2> HIDE DEF T
  <2> QED  BY <2>1, SmallestSubset
<1>2. x \in SUBSET S /\ x # {} /\ pick[x] \in x
  OBVIOUS
<1>3. g[x \ {pick[x]}] \in V
  BY <1>1, <1>2
<1> QED  BY <1>2, <1>3

-----------------------------------------------------------------------------
(* Folds                                                                   *)

\* g is the fold over each subset of S, of which pick takes one element after the other.
IsFold(pick, step, base, g, S) ==
  g = [s \in SUBSET S |-> IF s = {} THEN base ELSE step[pick[s]][g[s \ {pick[s]}]]]

\* Two such functions agree where both are defined.
LEMMA FoldsAgree ==
  ASSUME NEW S, IsFiniteSet(S), NEW pick, \A s \in SUBSET S : s # {} => pick[s] \in s,
         NEW step, NEW base, NEW A \in SUBSET S, NEW B \in SUBSET S,
         NEW g, NEW h, IsFold(pick, step, base, g, A), IsFold(pick, step, base, h, B)
  PROVE  \A s \in SUBSET (A \cap B) : g[s] = h[s]
<1> DEFINE T == {s \in SUBSET (A \cap B) : g[s] # h[s]}
<1> SUFFICES ASSUME T # {} PROVE FALSE
  OBVIOUS
<1>1. PICK x \in T : \A y \in SUBSET x : y # x => y \notin T
  <2>1. T \subseteq SUBSET S
    OBVIOUS
  <2> HIDE DEF T
  <2> QED  BY <2>1, SmallestSubset
<1>2. x \in SUBSET A /\ x \in SUBSET B /\ g[x] # h[x]
  OBVIOUS
<1>3. x # {}
  BY <1>2 DEF IsFold
<1>4. pick[x] \in x
  BY <1>3
<1>5. g[x \ {pick[x]}] = h[x \ {pick[x]}]
  BY <1>1, <1>4
<1>6. /\ g[x] = step[pick[x]][g[x \ {pick[x]}]]
      /\ h[x] = step[pick[x]][h[x \ {pick[x]}]]
  BY <1>2, <1>3 DEF IsFold
<1> QED  BY <1>2, <1>5, <1>6

LEMMA FoldsExist ==
  ASSUME NEW S, IsFiniteSet(S), NEW pick, \A s \in SUBSET S : s # {} => pick[s] \in s,
         NEW step, NEW base
  PROVE  \E g : IsFold(pick, step, base, g, S)
<1> DEFINE Fold(g, s) == IsFold(pick, step, base, g, s)
           T == {s \in SUBSET S : ~\E g : Fold(g, s)}
<1> SUFFICES ASSUME T # {} PROVE FALSE
  OBVIOUS
<1>1. PICK x \in T : \A y \in SUBSET x : y # x => y \notin T
  <2>1. T \subseteq SUBSET S
    OBVIOUS
  <2> HIDE DEF T
  <2> QED  BY <2>1, SmallestSubset
<1> DEFINE G(s) == CHOOSE g : Fold(g, s)
           Rest(s) == s \ {pick[s]}
           val(s) == IF s = {} THEN base ELSE step[pick[s]][G(Rest(s))[Rest(s)]]
           g == [s \in SUBSET x |-> val(s)]
<1>2. \A s \in SUBSET x : s # x => Fold(G(s), s)
  BY <1>1
<1>3. \A s \in SUBSET x : s # {} => pick[s] \in s /\ Rest(s) \in SUBSET x /\ Rest(s) # x
  OBVIOUS
<1>4. ASSUME NEW s \in SUBSET x, s # x PROVE G(s)[s] = val(s)
  <2>1. CASE s = {}
    <3>1. Fold(G(s), s) /\ s \in SUBSET s
      BY <1>2, <1>4
    <3> HIDE DEF G
    <3> QED  BY <2>1, <3>1 DEF IsFold
  <2>2. CASE s # {}
    <3> DEFINE r == Rest(s)
    <3>1. Fold(G(s), s) /\ Fold(G(r), r)
      BY <1>2, <1>3, <1>4, <2>2
    <3>2. r \in SUBSET s
      OBVIOUS
    <3>3. G(s)[s] = step[pick[s]][G(s)[r]]
      <4> HIDE DEF G
      <4> QED  BY <3>1, <2>2 DEF IsFold
    <3>4. G(s)[r] = G(r)[r]
      <4>1. s \in SUBSET S /\ r \in SUBSET S /\ r \in SUBSET (s \cap r)
        OBVIOUS
      <4> HIDE DEF G, r
      <4> QED  BY <3>1, <4>1, FoldsAgree
    <3>5. val(s) = step[pick[s]][G(r)[r]]
      BY <2>2
    <3> HIDE DEF G, val, r
    <3> QED  BY <3>3, <3>4, <3>5
  <2> QED  BY <2>1, <2>2
<1>5. Fold(g, x)
  <2>1. \A s \in SUBSET x : s # {} => g[Rest(s)] = G(Rest(s))[Rest(s)]
    BY <1>3, <1>4
  <2>2. \A s \in SUBSET x : val(s) = IF s = {} THEN base ELSE step[pick[s]][g[Rest(s)]]
    <3> HIDE DEF g, G
    <3> QED  BY <2>1
  <2> HIDE DEF val
  <2> QED  BY <2>2 DEF IsFold
<1> QED  BY <1>5

-----------------------------------------------------------------------------
(* Sums                                                                    *)

AnyOf(s) == CHOOSE x \in s : TRUE

\* g is the sum of f over each subset of S.
IsSums(f, g, S) ==
  g = [s \in SUBSET S |-> IF s = {} THEN 0 ELSE f[AnyOf(s)] + g[s \ {AnyOf(s)}]]

LEMMA SumsExist ==
  ASSUME NEW S, IsFiniteSet(S), NEW f, \A x \in S : f[x] \in Int
  PROVE  \E g : IsSums(f, g, S)
<1> DEFINE pick == [s \in SUBSET S |-> AnyOf(s)]
           step == [x \in S |-> [v \in Int |-> f[x] + v]]
<1>1. \A s \in SUBSET S : s # {} => pick[s] \in s
  BY DEF AnyOf
<1>2. PICK g : IsFold(pick, step, 0, g, S)
  <2> HIDE DEF pick, step
  <2> QED  BY <1>1, FoldsExist
<1>3. \A s \in SUBSET S : g[s] \in Int
  <2>1. g[{}] \in Int
    BY <1>2 DEF IsFold
  <2>2. ASSUME NEW s \in SUBSET S, s # {}, g[s \ {pick[s]}] \in Int PROVE g[s] \in Int
    <3>1. g[s] = step[pick[s]][g[s \ {pick[s]}]] /\ pick[s] \in S
      BY <1>1, <1>2, <2>2 DEF IsFold
    <3>2. \A x \in S, v \in Int : step[x][v] = f[x] + v
      OBVIOUS
    <3>3. g[s] = f[pick[s]] + g[s \ {pick[s]}]
      <4> HIDE DEF pick, step
      <4> QED  BY <2>2, <3>1, <3>2
    <3> HIDE DEF pick, step
    <3> QED  BY <2>2, <3>1, <3>3
  <2> HIDE DEF pick, step
  <2> QED  BY <1>1, <2>1, <2>2, BySteps
<1>4. \A s \in SUBSET S :
        g[s] = IF s = {} THEN 0 ELSE f[AnyOf(s)] + g[s \ {AnyOf(s)}]
  <2> TAKE s \in SUBSET S
  <2>1. CASE s = {}
    BY <1>2, <2>1 DEF IsFold
  <2>2. CASE s # {}
    <3>1. g[s] = step[pick[s]][g[s \ {pick[s]}]] /\ pick[s] \in S /\ pick[s] = AnyOf(s)
      BY <1>1, <1>2, <2>2 DEF IsFold
    <3>2. g[s \ {pick[s]}] \in Int
      BY <1>3
    <3>3. \A x \in S, v \in Int : step[x][v] = f[x] + v
      OBVIOUS
    <3> HIDE DEF pick, step
    <3> QED  BY <2>2, <3>1, <3>2, <3>3
  <2> QED  BY <2>1, <2>2
<1>5. g = [s \in SUBSET S |-> g[s]]
  BY <1>2 DEF IsFold
<1> HIDE DEF pick, step
<1> QED  BY <1>4, <1>5 DEF IsSums

\* The sum of f over S.  What a module sums up is this for some f, by the definitions.
SumOver(f, S) == MapThenSumSet(LAMBDA x : f[x], S)

LEMMA SumOverIs ==
  ASSUME NEW S, IsFiniteSet(S), NEW f, \A x \in S : f[x] \in Int
  PROVE  \E g : IsSums(f, g, S) /\ SumOver(f, S) = g[S]
<1> DEFINE g == CHOOSE g : IsSums(f, g, S)
<1>1. IsSums(f, g, S)
  BY SumsExist
<1>2. SumOver(f, S) = g[S]
  BY DEF SumOver, MapThenSumSet, MapThenFoldSet, IsSums, AnyOf
<1> HIDE DEF g
<1> QED  BY <1>1, <1>2

\* Any function with that equation gives the sums.
LEMMA SumsAre ==
  ASSUME NEW S, IsFiniteSet(S), NEW f, \A x \in S : f[x] \in Int, NEW g, IsSums(f, g, S)
  PROVE  \A s \in SUBSET S : SumOver(f, s) = g[s] /\ g[s] \in Int
<1>1. ASSUME NEW A \in SUBSET S
      PROVE  \E h : IsSums(f, h, A) /\ SumOver(f, A) = h[A]
  BY FS_Subset, SumOverIs
<1>2. ASSUME NEW A \in SUBSET S, NEW h, IsSums(f, h, A)
      PROVE  \A s \in SUBSET A : g[s] = h[s]
  <2> DEFINE T == {s \in SUBSET A : g[s] # h[s]}
  <2> SUFFICES ASSUME T # {} PROVE FALSE
    OBVIOUS
  <2>1. PICK x \in T : \A y \in SUBSET x : y # x => y \notin T
    <3>1. T \subseteq SUBSET S
      OBVIOUS
    <3> HIDE DEF T
    <3> QED  BY <3>1, SmallestSubset
  <2>2. x \in SUBSET A /\ x \in SUBSET S /\ g[x] # h[x]
    OBVIOUS
  <2>3. x # {}
    BY <1>2, <2>2 DEF IsSums
  <2>4. AnyOf(x) \in x
    BY <2>3 DEF AnyOf
  <2>5. g[x \ {AnyOf(x)}] = h[x \ {AnyOf(x)}]
    BY <2>1, <2>4
  <2>6. /\ g[x] = f[AnyOf(x)] + g[x \ {AnyOf(x)}]
        /\ h[x] = f[AnyOf(x)] + h[x \ {AnyOf(x)}]
    BY <1>2, <2>2, <2>3 DEF IsSums
  <2> QED  BY <2>2, <2>5, <2>6
<1>3. ASSUME NEW A \in SUBSET S PROVE SumOver(f, A) = g[A]
  BY <1>1, <1>2
<1>4. \A s \in SUBSET S : g[s] \in Int
  <2> DEFINE pick == [s \in SUBSET S |-> AnyOf(s)]
  <2>1. \A s \in SUBSET S : s # {} => pick[s] \in s
    BY DEF AnyOf
  <2>2. g[{}] \in Int
    BY DEF IsSums
  <2>3. ASSUME NEW s \in SUBSET S, s # {}, g[s \ {pick[s]}] \in Int PROVE g[s] \in Int
    <3>1. g[s] = f[AnyOf(s)] + g[s \ {AnyOf(s)}] /\ AnyOf(s) \in S /\ pick[s] = AnyOf(s)
      BY <2>1, <2>3 DEF IsSums
    <3> HIDE DEF pick
    <3> QED  BY <2>3, <3>1
  <2> HIDE DEF pick
  <2> QED  BY <2>1, <2>2, <2>3, BySteps
<1> QED  BY <1>3, <1>4

\* The equation of the recursion, for SumOver itself.
LEMMA SumStep ==
  ASSUME NEW S, IsFiniteSet(S), NEW f, \A x \in S : f[x] \in Int
  PROVE  /\ SumOver(f, S) \in Int
         /\ SumOver(f, {}) = 0
         /\ S # {} => SumOver(f, S) = f[AnyOf(S)] + SumOver(f, S \ {AnyOf(S)})
<1>1. PICK g : IsSums(f, g, S)
  BY SumsExist
<1>2. \A s \in SUBSET S : SumOver(f, s) = g[s] /\ g[s] \in Int
  BY <1>1, SumsAre
<1>3. S # {} => g[S] = f[AnyOf(S)] + g[S \ {AnyOf(S)}]
  BY <1>1 DEF IsSums
<1>4. g[{}] = 0
  BY <1>1 DEF IsSums
<1> QED  BY <1>2, <1>3, <1>4

\* Whichever element is taken out first.
LEMMA SumWithout ==
  ASSUME NEW S, IsFiniteSet(S), NEW f, \A y \in S : f[y] \in Int, NEW x \in S
  PROVE  SumOver(f, S) = f[x] + SumOver(f, S \ {x})
<1> DEFINE Fine(s) == \A y \in s : SumOver(f, s) = f[y] + SumOver(f, s \ {y})
           T == {s \in SUBSET S : ~Fine(s)}
<1> SUFFICES ASSUME T # {} PROVE FALSE
  OBVIOUS
<1>1. PICK s \in T : \A r \in SUBSET s : r # s => r \notin T
  <2>1. T \subseteq SUBSET S
    OBVIOUS
  <2> HIDE DEF T
  <2> QED  BY <2>1, SmallestSubset
<1>2. s \in SUBSET S
  OBVIOUS
<1>3. PICK y \in s : SumOver(f, s) # f[y] + SumOver(f, s \ {y})
  OBVIOUS
<1> DEFINE a == AnyOf(s)
<1>4. a \in s
  BY <1>3 DEF AnyOf
<1>5. ASSUME NEW r \in SUBSET s PROVE SumOver(f, r) \in Int
  BY <1>2, FS_Subset, SumStep
<1>6. SumOver(f, s) = f[a] + SumOver(f, s \ {a})
  BY <1>2, <1>4, FS_Subset, SumStep
<1>7. a # y
  BY <1>3, <1>6
<1>8. Fine(s \ {a}) /\ Fine(s \ {y})
  BY <1>1, <1>2, <1>3, <1>4
<1>9. (s \ {a}) \ {y} = (s \ {y}) \ {a}
  OBVIOUS
<1>10. /\ SumOver(f, s \ {a}) = f[y] + SumOver(f, (s \ {a}) \ {y})
       /\ SumOver(f, s \ {y}) = f[a] + SumOver(f, (s \ {a}) \ {y})
  BY <1>4, <1>7, <1>8, <1>9
<1>11. f[a] \in Int /\ f[y] \in Int /\ SumOver(f, (s \ {a}) \ {y}) \in Int
  BY <1>2, <1>4, <1>5
<1> HIDE DEF a
<1> QED  BY <1>3, <1>6, <1>10, <1>11

\* Induction over the subsets of a finite set.
LEMMA ByOneMore ==
  ASSUME NEW S, IsFiniteSet(S), NEW T, {} \in T,
         \A s \in SUBSET S : \A x \in S : s \in T /\ x \notin s => s \cup {x} \in T
  PROVE  S \in T
<1> DEFINE F == {s \in SUBSET S : s \notin T}
<1> SUFFICES ASSUME F # {} PROVE FALSE
  OBVIOUS
<1>1. PICK s \in F : \A r \in SUBSET s : r # s => r \notin F
  <2>1. F \subseteq SUBSET S
    OBVIOUS
  <2> HIDE DEF F
  <2> QED  BY <2>1, SmallestSubset
<1>2. PICK x \in s : TRUE
  OBVIOUS
<1>3. s \ {x} \in SUBSET S /\ s \ {x} \in T
  BY <1>1
<1>4. (s \ {x}) \cup {x} = s
  OBVIOUS
<1> QED  BY <1>3, <1>4

LEMMA SumPlus ==
  ASSUME NEW S, IsFiniteSet(S), NEW f, \A y \in S : f[y] \in Int,
         NEW x, x \notin S, f[x] \in Int
  PROVE  SumOver(f, S \cup {x}) = SumOver(f, S) + f[x]
<1> DEFINE more == S \cup {x}
<1>1. IsFiniteSet(more) /\ more \ {x} = S /\ x \in more /\ \A y \in more : f[y] \in Int
  BY FS_AddElement
<1>2. SumOver(f, S) \in Int
  BY SumStep
<1>3. SumOver(f, more) = SumOver(f, S) + f[x]
  <2> HIDE DEF more
  <2>1. SumOver(f, more) = f[x] + SumOver(f, more \ {x})
    BY <1>1, SumWithout
  <2>2. SumOver(f, more \ {x}) = SumOver(f, S)
    BY <1>1, Zenon
  <2> QED  BY <1>2, <2>1, <2>2
<1> QED  BY <1>3

\* Sums of naturals are naturals.
LEMMA SumsAreNat ==
  ASSUME NEW S, IsFiniteSet(S), NEW f, \A x \in S : f[x] \in Nat
  PROVE  SumOver(f, S) \in Nat
<1> DEFINE T == {s \in SUBSET S : SumOver(f, s) \in Nat}
<1>1. {} \in T
  BY SumStep, FS_EmptySet
<1>2. ASSUME NEW s \in SUBSET S, NEW x \in S, s \in T, x \notin s PROVE s \cup {x} \in T
  <2>1. SumOver(f, s \cup {x}) = SumOver(f, s) + f[x]
    BY <1>2, FS_Subset, SumPlus
  <2> QED  BY <1>2, <2>1
<1>3. S \in T
  <2> HIDE DEF T
  <2> QED  BY <1>1, <1>2, ByOneMore
<1> QED  BY <1>3

LEMMA SumsAgree ==
  ASSUME NEW S, IsFiniteSet(S), NEW f, NEW h, \A x \in S : f[x] \in Int /\ f[x] = h[x]
  PROVE  SumOver(f, S) = SumOver(h, S)
<1> DEFINE T == {s \in SUBSET S : SumOver(f, s) = SumOver(h, s)}
<1>1. {} \in T
  BY SumStep, FS_EmptySet
<1>2. ASSUME NEW s \in SUBSET S, NEW x \in S, s \in T, x \notin s PROVE s \cup {x} \in T
  <2>1. IsFiniteSet(s) /\ \A y \in s \cup {x} : f[y] \in Int /\ h[y] \in Int /\ f[y] = h[y]
    BY FS_Subset
  <2>2. SumOver(f, s \cup {x}) = SumOver(f, s) + f[x]
    BY <1>2, <2>1, SumPlus
  <2>3. SumOver(h, s \cup {x}) = SumOver(h, s) + h[x]
    BY <1>2, <2>1, SumPlus
  <2> QED  BY <1>2, <2>1, <2>2, <2>3
<1>3. S \in T
  <2> HIDE DEF T
  <2> QED  BY <1>1, <1>2, ByOneMore
<1> QED  BY <1>3

LEMMA SumUnion ==
  ASSUME NEW A, NEW B, IsFiniteSet(A), IsFiniteSet(B), A \cap B = {},
         NEW f, \A x \in A \cup B : f[x] \in Int
  PROVE  SumOver(f, A \cup B) = SumOver(f, A) + SumOver(f, B)
<1> DEFINE T == {s \in SUBSET B : SumOver(f, A \cup s) = SumOver(f, A) + SumOver(f, s)}
<1>0. SumOver(f, A) \in Int
  BY SumStep
<1>1. {} \in T
  <2>1. SumOver(f, {}) = 0 /\ A \cup {} = A
    BY SumStep
  <2> QED  BY <1>0, <2>1
<1>2. ASSUME NEW s \in SUBSET B, NEW x \in B, s \in T, x \notin s PROVE s \cup {x} \in T
  <2>1. IsFiniteSet(s) /\ IsFiniteSet(A \cup s)
    BY FS_Subset, FS_Union
  <2>2. SumOver(f, s \cup {x}) = SumOver(f, s) + f[x]
    BY <1>2, <2>1, SumPlus
  <2>3. SumOver(f, (A \cup s) \cup {x}) = SumOver(f, A \cup s) + f[x]
    BY <1>2, <2>1, SumPlus
  <2>4. (A \cup s) \cup {x} = A \cup (s \cup {x})
    OBVIOUS
  <2>5. SumOver(f, s) \in Int /\ f[x] \in Int
    BY <2>1, SumStep
  <2>6. SumOver(f, A \cup s) = SumOver(f, A) + SumOver(f, s)
    BY <1>2
  <2>7. SumOver(f, A \cup (s \cup {x})) = SumOver(f, (A \cup s) \cup {x})
    BY <2>4
  <2>8. SumOver(f, A \cup (s \cup {x})) = SumOver(f, A) + SumOver(f, s \cup {x})
    BY <1>0, <2>2, <2>3, <2>5, <2>6, <2>7
  <2> QED  BY <2>8
<1>3. B \in T
  <2> HIDE DEF T
  <2> QED  BY <1>1, <1>2, ByOneMore
<1> QED  BY <1>3

\* The sum over the images of an injective function.
LEMMA SumImage ==
  ASSUME NEW S, IsFiniteSet(S), NEW b, \A x, y \in S : b[x] = b[y] => x = y,
         NEW f, NEW h, \A x \in S : f[x] \in Int /\ h[b[x]] = f[x]
  PROVE  SumOver(h, {b[x] : x \in S}) = SumOver(f, S)
<1> DEFINE Image(s) == {b[x] : x \in s}
           T == {s \in SUBSET S : SumOver(h, Image(s)) = SumOver(f, s)}
<1>1. {} \in T
  <2>1. Image({}) = {}
    OBVIOUS
  <2>2. SumOver(f, {}) = 0 /\ SumOver(h, {}) = 0
    BY SumStep, FS_EmptySet
  <2> QED  BY <2>1, <2>2
<1>2. ASSUME NEW s \in SUBSET S, NEW x \in S, s \in T, x \notin s PROVE s \cup {x} \in T
  <2>1. IsFiniteSet(s) /\ IsFiniteSet(Image(s))
    <3>1. IsFiniteSet(s)
      BY FS_Subset
    <3>2. [y \in s |-> b[y]] \in Surjection(s, Image(s))
      BY DEF Surjection
    <3> QED  BY <3>1, <3>2, FS_Surjection
  <2>2. SumOver(f, s \cup {x}) = SumOver(f, s) + f[x]
    BY <1>2, <2>1, SumPlus
  <2>3. b[x] \notin Image(s) /\ \A y \in Image(s) : h[y] \in Int
    BY <1>2
  <2>4. SumOver(h, Image(s) \cup {b[x]}) = SumOver(h, Image(s)) + h[b[x]]
    <3> HIDE DEF Image
    <3> QED  BY <2>1, <2>3, SumPlus
  <2>5. Image(s) \cup {b[x]} = Image(s \cup {x})
    OBVIOUS
  <2> QED  BY <1>2, <2>2, <2>4, <2>5
<1>3. S \in T
  <2> HIDE DEF T
  <2> QED  BY <1>1, <1>2, ByOneMore
<1> QED  BY <1>3

\* What adds nothing each adds nothing together.
LEMMA NothingAddsUp ==
  ASSUME NEW S, IsFiniteSet(S), NEW f, \A x \in S : f[x] = 0
  PROVE  SumOver(f, S) = 0
<1> DEFINE T == {s \in SUBSET S : SumOver(f, s) = 0}
<1>1. {} \in T
  BY FS_EmptySet, SumStep
<1>2. ASSUME NEW s \in SUBSET S, NEW x \in S, s \in T, x \notin s PROVE s \cup {x} \in T
  <2>1. IsFiniteSet(s) /\ f[x] = 0 /\ \A y \in s : f[y] \in Int
    BY FS_Subset
  <2>2. SumOver(f, s \cup {x}) = SumOver(f, s) + f[x]
    BY <1>2, <2>1, SumPlus
  <2>3. SumOver(f, s \cup {x}) = 0
    BY <1>2, <2>1, <2>2
  <2> QED  BY <2>3
<1>3. S \in T
  <2> HIDE DEF T
  <2> QED  BY <1>1, <1>2, ByOneMore
<1> QED  BY <1>3

\* A field of records, or of functions, added up.
SumOfField(m, field, S) == MapThenSumSet(LAMBDA p : m[p][field], S)

LEMMA FieldsAddUp ==
  ASSUME NEW S, IsFiniteSet(S), NEW m, NEW field, NEW f,
         \A p \in S : f[p] = m[p][field] /\ f[p] \in Int
  PROVE  SumOfField(m, field, S) = SumOver(f, S)
<1> DEFINE Sums(g) == g = [s \in SUBSET S |-> IF s = {} THEN 0
                                            ELSE m[AnyOf(s)][field] + g[s \ {AnyOf(s)}]]
           sum == CHOOSE g : Sums(g)
<1>1. SumOfField(m, field, S) = sum[S]
  BY DEF SumOfField, MapThenSumSet, MapThenFoldSet, AnyOf
<1>2. ASSUME NEW g PROVE Sums(g) <=> IsSums(f, g, S)
  <2>1. \A s \in SUBSET S : s # {} => f[AnyOf(s)] = m[AnyOf(s)][field]
    BY DEF AnyOf
  <2>2. [s \in SUBSET S |-> IF s = {} THEN 0 ELSE m[AnyOf(s)][field] + g[s \ {AnyOf(s)}]]
          = [s \in SUBSET S |-> IF s = {} THEN 0 ELSE f[AnyOf(s)] + g[s \ {AnyOf(s)}]]
    BY <2>1
  <2> QED  BY <2>2 DEF IsSums
<1>3. PICK g : IsSums(f, g, S)
  BY SumsExist
<1>4. Sums(sum)
  <2>1. Sums(g)
    BY <1>2, <1>3
  <2> QED  BY <2>1
<1> HIDE DEF sum, Sums
<1>5. IsSums(f, sum, S)
  BY <1>2, <1>4
<1> QED  BY <1>1, <1>5, SumsAre

\* What holds at 0 and one step after wherever it holds, holds up to the last.
LEMMA ByOneUp ==
  ASSUME NEW n \in Nat, NEW T, 0 \in T, \A k \in 0 .. n - 1 : k \in T => k + 1 \in T
  PROVE  \A k \in 0 .. n : k \in T
<1> DEFINE F == {k \in 0 .. n : k \notin T}
           S == {0 .. k : k \in F}
<1> SUFFICES ASSUME F # {} PROVE FALSE
  OBVIOUS
<1>1. IsFiniteSet(0 .. n)
  BY FS_Interval
<1>2. S \subseteq SUBSET (0 .. n) /\ S # {}
  OBVIOUS
<1>3. PICK s \in S : \A y \in SUBSET s : y # s => y \notin S
  <2> HIDE DEF S
  <2> QED  BY <1>1, <1>2, SmallestSubset
<1>4. PICK k \in F : s = 0 .. k
  OBVIOUS
<1>5. k # 0 /\ k \in 0 .. n /\ k \notin T
  OBVIOUS
<1>6. k - 1 \in 0 .. n - 1 /\ (k - 1) + 1 = k
  BY <1>5
<1>7. k - 1 \in F
  BY <1>5, <1>6
<1>8. 0 .. k - 1 \in S
  BY <1>7
<1>9. 0 .. k - 1 \in SUBSET s /\ 0 .. k - 1 # s
  <2>1. k \in 0 .. k /\ k \notin 0 .. k - 1
    BY <1>5
  <2> QED  BY <1>4, <1>5, <2>1
<1> HIDE DEF S
<1> QED  BY <1>3, <1>8, <1>9
=================================================================================
