----------------------------- MODULE SumTheorems -----------------------------
(***************************************************************************)
(* Facts about sums of a function over a finite set, as SumFunctionOnSet   *)
(* of the community modules computes them.  They need an induction over    *)
(* finite sets; it is had from the fact that a nonempty set of subsets of  *)
(* a finite set has a smallest one.                                        *)
(***************************************************************************)
EXTENDS Functions, FiniteSetTheorems, TLAPS

-----------------------------------------------------------------------------
(* Induction.                                                              *)

\* Among subsets of a finite set there is one of which no other is a subset.
LEMMA SmallestSubset ==
    ASSUME NEW S, IsFiniteSet(S), NEW T, T \subseteq SUBSET S, T # {}
    PROVE  \E s \in T : \A t \in T : t \subseteq s => t = s
  <1>1. FiniteSubsetsOf(S) = SUBSET S
    BY FS_FiniteSubsetsOfFinite
  <1>2. IsWellFoundedOn(StrictSubsetOrdering(S), SUBSET S)
    BY <1>1, FS_StrictSubsetOrderingWellFounded
  <1>3. PICK s \in T : \A t \in T : <<t, s>> \notin StrictSubsetOrdering(S)
    BY <1>2, WFMin
  <1>. QED
    BY <1>3 DEF StrictSubsetOrdering

-----------------------------------------------------------------------------
(* The recursive function that computes a sum.                             *)

Chosen(s) == CHOOSE x \in s : TRUE
Body(f, g, s) == IF s = {} THEN 0 ELSE f[Chosen(s)] + g[s \ {Chosen(s)}]
Summing(f, S, g) == g = [s \in SUBSET S |-> Body(f, g, s)]
Table(f, S) == CHOOSE g : Summing(f, S, g)

LEMMA SumIsTable ==
    ASSUME NEW f, NEW S
    PROVE  SumFunctionOnSet(f, S) = Table(f, S)[S]
  BY DEF SumFunctionOnSet, FoldFunctionOnSet, MapThenFoldSet, Table, Summing, Body, Chosen

LEMMA ChosenIn == ASSUME NEW s, s # {} PROVE Chosen(s) \in s
  BY DEF Chosen

\* Two such functions have the same values.
LEMMA SummingAgree ==
    ASSUME NEW f, NEW S, IsFiniteSet(S), NEW T \in SUBSET S, NEW g, NEW h,
           Summing(f, S, g), Summing(f, T, h)
    PROVE  \A s \in SUBSET T : g[s] = h[s]
  <1>. DEFINE B == {s \in SUBSET T : g[s] # h[s]}
  <1>. SUFFICES ASSUME B # {} PROVE FALSE
    OBVIOUS
  <1>1. PICK s \in B : \A t \in B : t \subseteq s => t = s
    <2>. B \subseteq SUBSET S
      OBVIOUS
    <2>. HIDE DEF B
    <2>. QED
      BY SmallestSubset
  <1>2. /\ s \subseteq T /\ g[s] # h[s]
        /\ g[s] = Body(f, g, s) /\ h[s] = Body(f, h, s)
    BY DEF Summing
  <1>3. s # {}
    BY <1>2 DEF Body
  <1>4. s \ {Chosen(s)} \subseteq T /\ s \ {Chosen(s)} # s
    BY <1>2, <1>3, ChosenIn
  <1>5. g[s \ {Chosen(s)}] = h[s \ {Chosen(s)}]
    BY <1>1, <1>4
  <1>. QED
    BY <1>2, <1>3, <1>5 DEF Body

\* It exists.
LEMMA SummingExists ==
    ASSUME NEW f, NEW S, IsFiniteSet(S)
    PROVE  \E g : Summing(f, S, g)
  <1>. DEFINE B == {s \in SUBSET S : \A g : ~Summing(f, s, g)}
  <1>. SUFFICES ASSUME B # {} PROVE FALSE
    OBVIOUS
  <1>1. PICK s \in B : \A t \in B : t \subseteq s => t = s
    <2>. B \subseteq SUBSET S
      OBVIOUS
    <2>. HIDE DEF B
    <2>. QED
      BY SmallestSubset
  <1>2. ASSUME NEW t \in SUBSET s, t # s
        PROVE  Summing(f, t, Table(f, t))
    <2>1. \E g : Summing(f, t, g)
      BY <1>1, <1>2
    <2>. QED
      BY <2>1 DEF Table
  <1>. DEFINE low(t) == IF t = {} THEN 0 ELSE f[Chosen(t)] + Table(f, t \ {Chosen(t)})[t \ {Chosen(t)}]
              g == [t \in SUBSET s |-> low(t)]
  <1>3. ASSUME NEW t \in SUBSET s, t # s
        PROVE  low(t) = Table(f, t)[t]
    <2>1. Table(f, t)[t] = Body(f, Table(f, t), t)
      BY <1>2, <1>3 DEF Summing
    <2>2. CASE t = {}
      BY <2>1, <2>2 DEF Body
    <2>3. CASE t # {}
      <3>. DEFINE u == t \ {Chosen(t)}
      <3>1. u \in SUBSET s /\ u # s /\ u \in SUBSET t
        BY <1>3, <2>3, ChosenIn
      <3>2. IsFiniteSet(t)
        BY FS_Subset
      <3>3. Summing(f, t, Table(f, t)) /\ Summing(f, u, Table(f, u))
        BY <1>2, <1>3, <3>1
      <3>4. Table(f, t)[u] = Table(f, u)[u]
        <4>. HIDE DEF u
        <4>. QED
          BY <3>1, <3>2, <3>3, SummingAgree
      <3>. QED
        BY <2>1, <2>3, <3>4 DEF Body
    <2>. QED
      BY <2>2, <2>3
  <1>4. ASSUME NEW t \in SUBSET s
        PROVE  g[t] = Body(f, g, t)
    <2>1. CASE t = {}
      BY <2>1 DEF Body
    <2>2. CASE t # {}
      <3>. DEFINE u == t \ {Chosen(t)}
      <3>1. u \in SUBSET s /\ u # s
        BY <2>2, ChosenIn
      <3>2. g[u] = Table(f, u)[u]
        BY <1>3, <3>1
      <3>3. g[t] = f[Chosen(t)] + Table(f, u)[u]
        BY <2>2
      <3>. QED
        BY <2>2, <3>2, <3>3 DEF Body
    <2>. QED
      BY <2>1, <2>2
  <1>5. Summing(f, s, g)
    BY <1>4 DEF Summing
  <1>. QED
    BY <1>5

-----------------------------------------------------------------------------
(* Sums.                                                                   *)

LEMMA SumEmpty == ASSUME NEW f PROVE SumFunctionOnSet(f, {}) = 0
  <1>1. Summing(f, {}, Table(f, {}))
    BY FS_EmptySet, SummingExists DEF Table
  <1>. QED
    BY <1>1, SumIsTable DEF Summing, Body

\* The sum takes out the element it chooses.
LEMMA SumChosen ==
    ASSUME NEW f, NEW S, IsFiniteSet(S), S # {}
    PROVE  SumFunctionOnSet(f, S) = f[Chosen(S)] + SumFunctionOnSet(f, S \ {Chosen(S)})
  <1>. DEFINE T == S \ {Chosen(S)}
  <1>1. Summing(f, S, Table(f, S))
    BY SummingExists DEF Table
  <1>2. Summing(f, T, Table(f, T))
    BY SummingExists, FS_RemoveElement DEF Table
  <1>3. Table(f, S)[T] = Table(f, T)[T]
    <2>. T \in SUBSET S
      OBVIOUS
    <2>. HIDE DEF T
    <2>. QED
      BY <1>1, <1>2, SummingAgree
  <1>4. Table(f, S)[S] = f[Chosen(S)] + Table(f, S)[T]
    BY <1>1 DEF Summing, Body
  <1>. QED
    BY <1>3, <1>4, SumIsTable

LEMMA SumInt ==
    ASSUME NEW f, NEW S, IsFiniteSet(S), \A x \in S : f[x] \in Int
    PROVE  SumFunctionOnSet(f, S) \in Int
  <1>. DEFINE B == {s \in SUBSET S : SumFunctionOnSet(f, s) \notin Int}
  <1>. SUFFICES ASSUME B # {} PROVE FALSE
    OBVIOUS
  <1>1. PICK s \in B : \A t \in B : t \subseteq s => t = s
    <2>. B \subseteq SUBSET S
      OBVIOUS
    <2>. HIDE DEF B
    <2>. QED
      BY SmallestSubset
  <1>2. s # {} /\ s \in SUBSET S /\ IsFiniteSet(s)
    <2>1. SumFunctionOnSet(f, {}) \in Int
      BY SumEmpty
    <2>2. s \in SUBSET S /\ SumFunctionOnSet(f, s) \notin Int
      OBVIOUS
    <2>. HIDE DEF B
    <2>. QED
      BY <2>1, <2>2, FS_Subset
  <1>3. Chosen(s) \in s
    BY <1>2, ChosenIn
  <1>4. SumFunctionOnSet(f, s \ {Chosen(s)}) \in Int /\ f[Chosen(s)] \in Int
    BY <1>1, <1>2, <1>3
  <1>5. SumFunctionOnSet(f, s) = f[Chosen(s)] + SumFunctionOnSet(f, s \ {Chosen(s)})
    BY <1>2, SumChosen
  <1>. QED
    BY <1>4, <1>5

\* Any element may be taken out of a sum.
LEMMA SumTakeOut ==
    ASSUME NEW f, NEW S, IsFiniteSet(S), \A x \in S : f[x] \in Int, NEW x \in S
    PROVE  SumFunctionOnSet(f, S) = f[x] + SumFunctionOnSet(f, S \ {x})
  <1>. DEFINE Bad(s) == \E y \in s : SumFunctionOnSet(f, s) # f[y] + SumFunctionOnSet(f, s \ {y})
              B == {s \in SUBSET S : Bad(s)}
  <1>. SUFFICES ASSUME B # {} PROVE FALSE
    OBVIOUS
  <1>1. PICK s \in B : \A t \in B : t \subseteq s => t = s
    <2>. B \subseteq SUBSET S
      OBVIOUS
    <2>. HIDE DEF B
    <2>. QED
      BY SmallestSubset
  <1>2. PICK y \in s : SumFunctionOnSet(f, s) # f[y] + SumFunctionOnSet(f, s \ {y})
    OBVIOUS
  <1>3. s \in SUBSET S /\ s # {} /\ IsFiniteSet(s)
    BY FS_Subset
  <1>. DEFINE c == Chosen(s)
  <1>4. c \in s /\ SumFunctionOnSet(f, s) = f[c] + SumFunctionOnSet(f, s \ {c})
    BY <1>3, ChosenIn, SumChosen
  <1>. HIDE DEF c
  <1>5. c # y
    BY <1>2, <1>4
  <1>6. ASSUME NEW t \in SUBSET s, t # s, NEW z \in t
        PROVE  SumFunctionOnSet(f, t) = f[z] + SumFunctionOnSet(f, t \ {z})
    BY <1>1, <1>3, <1>6
  <1>7. SumFunctionOnSet(f, s \ {c}) = f[y] + SumFunctionOnSet(f, (s \ {c}) \ {y})
    BY <1>4, <1>5, <1>6
  <1>8. SumFunctionOnSet(f, s \ {y}) = f[c] + SumFunctionOnSet(f, (s \ {y}) \ {c})
    BY <1>4, <1>5, <1>6
  <1>9. (s \ {c}) \ {y} = (s \ {y}) \ {c}
    OBVIOUS
  <1>10. SumFunctionOnSet(f, (s \ {c}) \ {y}) \in Int /\ f[c] \in Int /\ f[y] \in Int
    BY <1>3, <1>4, SumInt, FS_Subset
  <1>. QED
    BY <1>2, <1>4, <1>7, <1>8, <1>9, <1>10

\* Functions that agree on a set have the same sum over it.
LEMMA SumSame ==
    ASSUME NEW f, NEW g, NEW S, IsFiniteSet(S), \A x \in S : f[x] = g[x]
    PROVE  SumFunctionOnSet(f, S) = SumFunctionOnSet(g, S)
  <1>. DEFINE B == {s \in SUBSET S : SumFunctionOnSet(f, s) # SumFunctionOnSet(g, s)}
  <1>. SUFFICES ASSUME B # {} PROVE FALSE
    OBVIOUS
  <1>1. PICK s \in B : \A t \in B : t \subseteq s => t = s
    <2>. B \subseteq SUBSET S
      OBVIOUS
    <2>. HIDE DEF B
    <2>. QED
      BY SmallestSubset
  <1>2. s # {} /\ s \in SUBSET S /\ IsFiniteSet(s)
    BY SumEmpty, FS_Subset
  <1>3. Chosen(s) \in s
    BY <1>2, ChosenIn
  <1>4. SumFunctionOnSet(f, s \ {Chosen(s)}) = SumFunctionOnSet(g, s \ {Chosen(s)})
    BY <1>1, <1>2, <1>3
  <1>. QED
    BY <1>2, <1>3, <1>4, SumChosen

\* A sum changes by what one of its terms changes.
LEMMA SumUpdate ==
    ASSUME NEW f, NEW g, NEW S, IsFiniteSet(S), NEW x \in S,
           \A y \in S : f[y] \in Int /\ g[y] \in Int,
           \A y \in S \ {x} : g[y] = f[y]
    PROVE  SumFunctionOnSet(g, S) = SumFunctionOnSet(f, S) + g[x] - f[x]
  <1>1. SumFunctionOnSet(f, S) = f[x] + SumFunctionOnSet(f, S \ {x}) /\ SumFunctionOnSet(g, S) = g[x] + SumFunctionOnSet(g, S \ {x})
    BY SumTakeOut
  <1>2. IsFiniteSet(S \ {x})
    BY FS_RemoveElement
  <1>3. SumFunctionOnSet(f, S \ {x}) = SumFunctionOnSet(g, S \ {x}) /\ SumFunctionOnSet(f, S \ {x}) \in Int
    BY <1>2, SumSame, SumInt
  <1>. QED
    BY <1>1, <1>3
LEMMA SumZero ==
    ASSUME NEW f, NEW S, IsFiniteSet(S), \A x \in S : f[x] = 0
    PROVE  SumFunctionOnSet(f, S) = 0
  <1>. DEFINE B == {s \in SUBSET S : SumFunctionOnSet(f, s) # 0}
  <1>. SUFFICES ASSUME B # {} PROVE FALSE
    OBVIOUS
  <1>1. PICK s \in B : \A t \in B : t \subseteq s => t = s
    <2>. B \subseteq SUBSET S
      OBVIOUS
    <2>. HIDE DEF B
    <2>. QED
      BY SmallestSubset
  <1>2. s # {} /\ s \in SUBSET S /\ IsFiniteSet(s)
    BY SumEmpty, FS_Subset
  <1>3. Chosen(s) \in s
    BY <1>2, ChosenIn
  <1>4. SumFunctionOnSet(f, s \ {Chosen(s)}) = 0
    BY <1>1, <1>2, <1>3
  <1>. QED
    BY <1>2, <1>3, <1>4, SumChosen
LEMMA SumNat ==
    ASSUME NEW f, NEW S, IsFiniteSet(S), \A x \in S : f[x] \in Nat
    PROVE  SumFunctionOnSet(f, S) \in Nat
  <1>. DEFINE B == {s \in SUBSET S : SumFunctionOnSet(f, s) \notin Nat}
  <1>. SUFFICES ASSUME B # {} PROVE FALSE
    OBVIOUS
  <1>1. PICK s \in B : \A t \in B : t \subseteq s => t = s
    <2>. B \subseteq SUBSET S
      OBVIOUS
    <2>. HIDE DEF B
    <2>. QED
      BY SmallestSubset
  <1>2. s # {} /\ s \in SUBSET S /\ IsFiniteSet(s)
    <2>1. SumFunctionOnSet(f, {}) \in Nat
      BY SumEmpty
    <2>2. s \in SUBSET S /\ SumFunctionOnSet(f, s) \notin Nat
      OBVIOUS
    <2>. HIDE DEF B
    <2>. QED
      BY <2>1, <2>2, FS_Subset
  <1>3. Chosen(s) \in s
    BY <1>2, ChosenIn
  <1>4. SumFunctionOnSet(f, s \ {Chosen(s)}) \in Nat /\ f[Chosen(s)] \in Nat
    BY <1>1, <1>2, <1>3
  <1>5. SumFunctionOnSet(f, s) = f[Chosen(s)] + SumFunctionOnSet(f, s \ {Chosen(s)})
    BY <1>2, SumChosen
  <1>. QED
    BY <1>4, <1>5

\* No term exceeds a sum of natural numbers.
LEMMA SumTerm ==
    ASSUME NEW f, NEW S, IsFiniteSet(S), \A x \in S : f[x] \in Nat, NEW x \in S
    PROVE  f[x] <= SumFunctionOnSet(f, S)
  <1>1. SumFunctionOnSet(f, S) = f[x] + SumFunctionOnSet(f, S \ {x})
    BY SumTakeOut
  <1>2. SumFunctionOnSet(f, S \ {x}) \in Nat
    BY SumNat, FS_RemoveElement
  <1>. QED
    BY <1>1, <1>2

\* A sum with one term that is not zero.
LEMMA SumSingle ==
    ASSUME NEW f, NEW S, IsFiniteSet(S), \A x \in S : f[x] \in Int, NEW x \in S,
           \A y \in S \ {x} : f[y] = 0
    PROVE  SumFunctionOnSet(f, S) = f[x]
  <1>1. SumFunctionOnSet(f, S) = f[x] + SumFunctionOnSet(f, S \ {x})
    BY SumTakeOut
  <1>2. SumFunctionOnSet(f, S \ {x}) = 0
    BY SumZero, FS_RemoveElement
  <1>. QED
    BY <1>1, <1>2
=============================================================================
