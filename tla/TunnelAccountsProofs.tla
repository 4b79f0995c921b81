------------------------ MODULE TunnelAccountsProofs ------------------------
(***************************************************************************)
(* For any number of connections, processes and quotas: an account of      *)
(* SSH, Xray, V2Ray or hysteria keeps its types; after calls that ran one  *)
(* at a time it is admitted as its flags say; and it is billed at most     *)
(* what the tunnel carried.                                                *)
(*                                                                         *)
(* A call is a script of commands, so an invariant is about what the       *)
(* scripts under way will still write.  Scripts are compared by the set of *)
(* their commands (Elems), which is enough because the commands that       *)
(* decide come last (Script).  Sums over connections are proved from their *)
(* recurrence, by induction over the subsets of a finite set: the smallest *)
(* subset that fails has no smaller one that does.                         *)
(***************************************************************************)
EXTENDS TunnelAccounts, SequenceTheorems, FiniteSetTheorems, WellFoundedInduction, TLAPS

-----------------------------------------------------------------------------
\* Induction over the subsets of a finite set.

LEMMA Minimal ==
  ASSUME NEW R, NEW S, IsWellFoundedOn(R, S), NEW N, N \subseteq S, N # {}
  PROVE  \E n \in N : \A k \in N : ~(<<k, n>> \in R)
BY WFMin

\* A set of numbers has a least one.
LEMMA Least ==
  ASSUME NEW N \in SUBSET Nat, N # {}
  PROVE  \E n \in N : \A k \in N : n <= k
<1>1. IsWellFoundedOn(OpToRel(<, Nat), Nat)
  BY NatLessThanWellFounded
<1>2. N \subseteq Nat
  OBVIOUS
<1>3. \E n \in N : \A k \in N : ~(<<k, n>> \in OpToRel(<, Nat))
  BY <1>1, <1>2, Minimal
<1>4. PICK n \in N : \A k \in N : ~(k < n)
  BY <1>3 DEF OpToRel
<1> QED BY <1>4

\* Induction over the subsets of a finite set.
LEMMA SubsetInduction ==
  ASSUME NEW S, IsFiniteSet(S), NEW Good,
         \A s \in SUBSET S : (\A t \in SUBSET s : t # s => t \in Good) => s \in Good
  PROVE  \A s \in SUBSET S : s \in Good
<1> DEFINE Bad == (SUBSET S) \ Good
           N == {Cardinality(s) : s \in Bad}
<1> SUFFICES ASSUME Bad # {} PROVE FALSE
  OBVIOUS
<1>1. \A s \in SUBSET S : IsFiniteSet(s) /\ Cardinality(s) \in Nat
  BY FS_Subset, FS_CardinalityType
<1>2. N \in SUBSET Nat /\ N # {}
  BY <1>1
<1>3. PICK n \in N : \A k \in N : n <= k
  <2> HIDE DEF N
  <2> QED BY <1>2, Least
<1>4. PICK s \in Bad : n = Cardinality(s)
  BY <1>3
<1>5. ASSUME NEW t \in SUBSET s, t # s PROVE t \in Good
  <2>1. t \in SUBSET S /\ Cardinality(t) \in Nat /\ Cardinality(s) \in Nat
    BY <1>1
  <2>2. Cardinality(t) < Cardinality(s)
    BY <1>1, <1>5, FS_Subset
  <2>3. Cardinality(t) \notin N
    BY <1>2, <1>3, <1>4, <2>1, <2>2
  <2> QED BY <2>1, <2>3
<1>6. s \in SUBSET S /\ s \notin Good
  BY <1>4
<1> QED BY <1>5, <1>6

-----------------------------------------------------------------------------
\* Sums.
Pick(s) == CHOOSE x \in s : TRUE
Graph(g, F, S) ==
  g = [s \in SUBSET S |-> IF s = {} THEN 0 ELSE g[s \ {Pick(s)}] + F[Pick(s)]]
Sum(F, S) == (CHOOSE g : Graph(g, F, S))[S]

\* The element a sum takes next is one of its set.
LEMMA Picked == ASSUME NEW s, s # {} PROVE Pick(s) \in s
BY DEF Pick

\* The recurrence of a sum has one solution,
LEMMA GraphUnique ==
  ASSUME NEW S, IsFiniteSet(S), NEW F, NEW g, NEW h, Graph(g, F, S), Graph(h, F, S)
  PROVE  g[S] = h[S]
<1> DEFINE Good == {s \in SUBSET S : g[s] = h[s]}
<1>1. ASSUME NEW s \in SUBSET S, \A t \in SUBSET s : t # s => t \in Good PROVE s \in Good
  <2>1. CASE s = {}
    BY <2>1 DEF Graph
  <2>2. CASE s # {}
    <3>1. s \ {Pick(s)} \in Good
      BY <1>1, <2>2, Picked
    <3>2. g[s] = g[s \ {Pick(s)}] + F[Pick(s)] /\ h[s] = h[s \ {Pick(s)}] + F[Pick(s)]
      BY <2>2 DEF Graph
    <3> QED BY <3>1, <3>2
  <2> QED BY <2>1, <2>2
<1>2. \A s \in SUBSET S : s \in Good
  <2> HIDE DEF Good
  <2> QED BY <1>1, SubsetInduction
<1> QED BY <1>2

\* it holds for the subsets of a set on which it holds,
LEMMA GraphPart ==
  ASSUME NEW S, NEW T \in SUBSET S, NEW F, NEW g, Graph(g, F, S)
  PROVE  Graph([s \in SUBSET T |-> g[s]], F, T)
<1> DEFINE r == [s \in SUBSET T |-> g[s]]
<1>1. ASSUME NEW s \in SUBSET T PROVE r[s] = IF s = {} THEN 0 ELSE r[s \ {Pick(s)}] + F[Pick(s)]
  <2>1. s \in SUBSET S /\ s \ {Pick(s)} \in SUBSET T
    OBVIOUS
  <2>2. g[s] = IF s = {} THEN 0 ELSE g[s \ {Pick(s)}] + F[Pick(s)]
    BY <2>1 DEF Graph
  <2> QED BY <2>1, <2>2
<1>2. r = [s \in SUBSET T |-> IF s = {} THEN 0 ELSE r[s \ {Pick(s)}] + F[Pick(s)]]
  BY <1>1
<1> QED BY <1>2 DEF Graph

\* so that a sum is the value of any solution,
LEMMA SumIs ==
  ASSUME NEW S, IsFiniteSet(S), NEW F, NEW g, Graph(g, F, S)
  PROVE  Sum(F, S) = g[S]
<1>1. Graph(CHOOSE h : Graph(h, F, S), F, S)
  OBVIOUS
<1> QED BY <1>1, GraphUnique DEF Sum

\* over the subsets of its set too,
LEMMA SumPart ==
  ASSUME NEW S, IsFiniteSet(S), NEW T \in SUBSET S, NEW F, NEW g, Graph(g, F, S)
  PROVE  Sum(F, T) = g[T]
<1>1. Graph([s \in SUBSET T |-> g[s]], F, T)
  BY GraphPart
<1>2. IsFiniteSet(T)
  BY FS_Subset
<1>3. Sum(F, T) = [s \in SUBSET T |-> g[s]][T]
  BY <1>1, <1>2, SumIs
<1> QED BY <1>3

\* and a finite set has a solution.
LEMMA GraphExists ==
  ASSUME NEW S, IsFiniteSet(S), NEW F
  PROVE  \E g : Graph(g, F, S)
<1> DEFINE Good == {s \in SUBSET S : \E g : Graph(g, F, s)}
<1>1. ASSUME NEW s \in SUBSET S, \A t \in SUBSET s : t # s => t \in Good PROVE s \in Good
  <2> DEFINE v == IF s = {} THEN 0 ELSE Sum(F, s \ {Pick(s)}) + F[Pick(s)]
             h == [t \in SUBSET s |-> IF t = s THEN v ELSE Sum(F, t)]
  <2>0. \A t \in SUBSET s : IsFiniteSet(t)
    BY FS_Subset
  <2>1. ASSUME NEW t \in SUBSET s, t # s
        PROVE  Sum(F, t) = IF t = {} THEN 0 ELSE Sum(F, t \ {Pick(t)}) + F[Pick(t)]
    <3>1. PICK g : Graph(g, F, t)
      BY <1>1, <2>1
    <3>2. Sum(F, t) = g[t]
      BY <2>0, <3>1, SumIs
    <3>3. g[t] = IF t = {} THEN 0 ELSE g[t \ {Pick(t)}] + F[Pick(t)]
      BY <3>1 DEF Graph
    <3>4. Sum(F, t \ {Pick(t)}) = g[t \ {Pick(t)}]
      <4>1. t \ {Pick(t)} \in SUBSET t
        OBVIOUS
      <4> QED BY <2>0, <3>1, <4>1, SumPart
    <3> QED BY <3>2, <3>3, <3>4
  <2>2. ASSUME NEW t \in SUBSET s PROVE h[t] = IF t = {} THEN 0 ELSE h[t \ {Pick(t)}] + F[Pick(t)]
    <3>1. t # {} => t \ {Pick(t)} \in SUBSET s /\ t \ {Pick(t)} # s
      BY Picked
    <3>2. CASE t = s
      BY <3>1, <3>2
    <3>3. CASE t # s
      BY <2>1, <3>1, <3>3
    <3> QED BY <3>2, <3>3
  <2>3. h = [t \in SUBSET s |-> IF t = {} THEN 0 ELSE h[t \ {Pick(t)}] + F[Pick(t)]]
    BY <2>2
  <2>4. Graph(h, F, s)
    <3> HIDE DEF h
    <3> QED BY <2>3 DEF Graph
  <2>5. \E g : Graph(g, F, s)
    <3> HIDE DEF h
    <3> QED BY <2>4
  <2> QED BY <2>5
<1>2. \A s \in SUBSET S : s \in Good
  <2> HIDE DEF Good
  <2> QED BY <1>1, SubsetInduction
<1> QED BY <1>2

\* The recurrence of a sum.
LEMMA SumStep ==
  ASSUME NEW S, IsFiniteSet(S), NEW F
  PROVE  Sum(F, S) = IF S = {} THEN 0 ELSE Sum(F, S \ {Pick(S)}) + F[Pick(S)]
<1>1. PICK g : Graph(g, F, S)
  BY GraphExists
<1>2. Sum(F, S) = g[S]
  BY <1>1, SumIs
<1>3. g[S] = IF S = {} THEN 0 ELSE g[S \ {Pick(S)}] + F[Pick(S)]
  BY <1>1 DEF Graph
<1>4. Sum(F, S \ {Pick(S)}) = g[S \ {Pick(S)}]
  <2>1. S \ {Pick(S)} \in SUBSET S
    OBVIOUS
  <2> QED BY <1>1, <2>1, SumPart
<1> QED BY <1>2, <1>3, <1>4

\* A sum of numbers is a number.
LEMMA SumNat ==
  ASSUME NEW S, IsFiniteSet(S), NEW F, \A x \in S : F[x] \in Nat
  PROVE  \A s \in SUBSET S : Sum(F, s) \in Nat
<1> DEFINE Good == {s \in SUBSET S : Sum(F, s) \in Nat}
<1>1. ASSUME NEW s \in SUBSET S, \A t \in SUBSET s : t # s => t \in Good PROVE s \in Good
  <2>1. IsFiniteSet(s)
    BY FS_Subset
  <2>2. s # {} => s \ {Pick(s)} \in Good /\ Pick(s) \in S
    BY <1>1, Picked
  <2>3. CASE s = {}
    <3>1. Sum(F, s) = 0
      BY <2>1, <2>3, SumStep
    <3> QED BY <3>1
  <2>4. CASE s # {}
    <3>1. Sum(F, s \ {Pick(s)}) \in Nat /\ F[Pick(s)] \in Nat
      BY <2>2, <2>4
    <3>2. Sum(F, s) = Sum(F, s \ {Pick(s)}) + F[Pick(s)]
      BY <2>1, <2>4, SumStep
    <3> QED BY <3>1, <3>2
  <2> QED BY <2>3, <2>4
<1>2. \A s \in SUBSET S : s \in Good
  <2> HIDE DEF Good
  <2> QED BY <1>1, SubsetInduction
<1> QED BY <1>2

\* Any element of the set may be the one added last.
LEMMA SumAdd ==
  ASSUME NEW S, IsFiniteSet(S), NEW F, \A x \in S : F[x] \in Nat
  PROVE  \A s \in SUBSET S : \A x \in s : Sum(F, s) = Sum(F, s \ {x}) + F[x]
<1> DEFINE Good == {s \in SUBSET S : \A x \in s : Sum(F, s) = Sum(F, s \ {x}) + F[x]}
<1>0. \A s \in SUBSET S : Sum(F, s) \in Nat /\ IsFiniteSet(s)
  BY SumNat, FS_Subset
<1>1. ASSUME NEW s \in SUBSET S, \A t \in SUBSET s : t # s => t \in Good PROVE s \in Good
  <2> SUFFICES ASSUME NEW x \in s PROVE Sum(F, s) = Sum(F, s \ {x}) + F[x]
    OBVIOUS
  <2>1. PICK y \in s : Sum(F, s) = Sum(F, s \ {y}) + F[y]
    BY <1>0, SumStep, Picked
  <2>2. CASE x = y
    BY <2>1, <2>2
  <2>3. CASE x # y
    <3>1. s \ {x} \in Good /\ s \ {y} \in Good
      BY <1>1
    <3>2. Sum(F, s \ {y}) = Sum(F, (s \ {y}) \ {x}) + F[x]
      BY <2>3, <3>1
    <3>3. Sum(F, s \ {x}) = Sum(F, (s \ {x}) \ {y}) + F[y]
      BY <2>3, <3>1
    <3>4. (s \ {y}) \ {x} = (s \ {x}) \ {y} /\ (s \ {x}) \ {y} \in SUBSET S
      OBVIOUS
    <3>5. Sum(F, (s \ {x}) \ {y}) \in Nat /\ F[x] \in Nat /\ F[y] \in Nat
      BY <1>0, <3>4
    <3> HIDE DEF Good
    <3> QED BY <2>1, <3>2, <3>3, <3>4, <3>5
  <2> QED BY <2>2, <2>3
<1>2. \A s \in SUBSET S : s \in Good
  <2> HIDE DEF Good
  <2> QED BY <1>1, SubsetInduction
<1> QED BY <1>2

\* Sums of functions that add up, element by element.
LEMMA SumPlus ==
  ASSUME NEW S, IsFiniteSet(S), NEW F, NEW G, NEW H,
         \A x \in S : F[x] \in Nat /\ G[x] \in Nat /\ H[x] \in Nat
  PROVE  /\ (\A x \in S : H[x] <= F[x] + G[x]) => Sum(H, S) <= Sum(F, S) + Sum(G, S)
         /\ (\A x \in S : F[x] + G[x] <= H[x]) => Sum(F, S) + Sum(G, S) <= Sum(H, S)
<1> DEFINE Upper == {s \in SUBSET S : Sum(H, s) <= Sum(F, s) + Sum(G, s)}
           Lower == {s \in SUBSET S : Sum(F, s) + Sum(G, s) <= Sum(H, s)}
<1>0. \A s \in SUBSET S : /\ IsFiniteSet(s) /\ Sum(F, s) \in Nat /\ Sum(G, s) \in Nat /\ Sum(H, s) \in Nat
  BY SumNat, FS_Subset
<1>1. ASSUME NEW s \in SUBSET S, s # {}
      PROVE  \E x \in s : /\ s \ {x} \in SUBSET s /\ s \ {x} # s
                          /\ Sum(F, s) = Sum(F, s \ {x}) + F[x]
                          /\ Sum(G, s) = Sum(G, s \ {x}) + G[x]
                          /\ Sum(H, s) = Sum(H, s \ {x}) + H[x]
  <2>1. Pick(s) \in s /\ s \ {Pick(s)} \in SUBSET s /\ s \ {Pick(s)} # s
    BY <1>1, Picked
  <2> QED BY <1>0, <1>1, <2>1, SumStep
<1>2. Sum(F, {}) = 0 /\ Sum(G, {}) = 0 /\ Sum(H, {}) = 0
  BY <1>0, SumStep
<1>3. ASSUME \A x \in S : H[x] <= F[x] + G[x] PROVE Sum(H, S) <= Sum(F, S) + Sum(G, S)
  <2>1. ASSUME NEW s \in SUBSET S, \A t \in SUBSET s : t # s => t \in Upper PROVE s \in Upper
    <3>1. CASE s = {}
      BY <1>2, <3>1
    <3>2. CASE s # {}
      <4>1. PICK x \in s : /\ s \ {x} \in SUBSET s /\ s \ {x} # s
                           /\ Sum(F, s) = Sum(F, s \ {x}) + F[x]
                           /\ Sum(G, s) = Sum(G, s \ {x}) + G[x]
                           /\ Sum(H, s) = Sum(H, s \ {x}) + H[x]
        BY <1>1, <3>2
      <4>2. /\ Sum(H, s \ {x}) <= Sum(F, s \ {x}) + Sum(G, s \ {x})
            /\ Sum(H, s \ {x}) \in Nat /\ Sum(F, s \ {x}) \in Nat /\ Sum(G, s \ {x}) \in Nat
            /\ H[x] <= F[x] + G[x] /\ F[x] \in Nat /\ G[x] \in Nat /\ H[x] \in Nat
        BY <1>0, <1>3, <2>1, <4>1
      <4>3. Sum(H, s) <= Sum(F, s) + Sum(G, s)
        BY <4>1, <4>2
      <4> QED BY <4>3
    <3> QED BY <3>1, <3>2
  <2>2. \A s \in SUBSET S : s \in Upper
    <3> HIDE DEF Upper
    <3> QED BY <2>1, SubsetInduction
  <2> QED BY <2>2
<1>4. ASSUME \A x \in S : F[x] + G[x] <= H[x] PROVE Sum(F, S) + Sum(G, S) <= Sum(H, S)
  <2>1. ASSUME NEW s \in SUBSET S, \A t \in SUBSET s : t # s => t \in Lower PROVE s \in Lower
    <3>1. CASE s = {}
      BY <1>2, <3>1
    <3>2. CASE s # {}
      <4>1. PICK x \in s : /\ s \ {x} \in SUBSET s /\ s \ {x} # s
                           /\ Sum(F, s) = Sum(F, s \ {x}) + F[x]
                           /\ Sum(G, s) = Sum(G, s \ {x}) + G[x]
                           /\ Sum(H, s) = Sum(H, s \ {x}) + H[x]
        BY <1>1, <3>2
      <4>2. /\ Sum(F, s \ {x}) + Sum(G, s \ {x}) <= Sum(H, s \ {x})
            /\ Sum(H, s \ {x}) \in Nat /\ Sum(F, s \ {x}) \in Nat /\ Sum(G, s \ {x}) \in Nat
            /\ F[x] + G[x] <= H[x] /\ F[x] \in Nat /\ G[x] \in Nat /\ H[x] \in Nat
        BY <1>0, <1>4, <2>1, <4>1
      <4>3. Sum(F, s) + Sum(G, s) <= Sum(H, s)
        BY <4>1, <4>2
      <4> QED BY <4>3
    <3> QED BY <3>1, <3>2
  <2>2. \A s \in SUBSET S : s \in Lower
    <3> HIDE DEF Lower
    <3> QED BY <2>1, SubsetInduction
  <2> QED BY <2>2
<1> QED BY <1>3, <1>4

\* Elements that count 0 may be left out.
LEMMA SumOver ==
  ASSUME NEW S, IsFiniteSet(S), NEW T \in SUBSET S, NEW F, NEW G,
         \A x \in T : F[x] \in Nat /\ G[x] = F[x], \A x \in S \ T : G[x] = 0
  PROVE  Sum(G, S) = Sum(F, T)
<1> DEFINE Good == {s \in SUBSET S : Sum(G, s) = Sum(F, s \cap T)}
<1>0. \A s \in SUBSET S : IsFiniteSet(s) /\ IsFiniteSet(s \cap T) /\ s \cap T \in SUBSET T
  BY FS_Subset
<1>1. ASSUME NEW s \in SUBSET S, \A t \in SUBSET s : t # s => t \in Good PROVE s \in Good
  <2>1. CASE s = {}
    <3>1. s \cap T = {} /\ IsFiniteSet({})
      BY <2>1, <1>0
    <3> QED BY <2>1, <3>1, SumStep
  <2>2. CASE s # {}
    <3>1. PICK x \in s : Sum(G, s) = Sum(G, s \ {x}) + G[x]
      BY <1>0, <2>2, SumStep, Picked
    <3>2. Sum(G, s \ {x}) = Sum(F, (s \ {x}) \cap T)
      BY <1>1
    <3>3. CASE x \in T
      <4>1. (s \ {x}) \cap T = (s \cap T) \ {x} /\ x \in s \cap T
        BY <3>3
      <4>2. IsFiniteSet(T) /\ s \cap T \in SUBSET T
        BY <1>0, FS_Subset
      <4>3. Sum(F, s \cap T) = Sum(F, (s \cap T) \ {x}) + F[x]
        BY <4>1, <4>2, SumAdd
      <4> HIDE DEF Good
      <4>4. Sum(G, s) = Sum(F, s \cap T)
        BY <3>1, <3>2, <3>3, <4>1, <4>3
      <4> QED BY <4>4 DEF Good
    <3>4. CASE x \notin T
      <4>1. (s \ {x}) \cap T = s \cap T /\ G[x] = 0
        BY <3>4
      <4>2. Sum(F, s \cap T) \in Nat
        <5>1. IsFiniteSet(T) /\ s \cap T \in SUBSET T
          BY <1>0, FS_Subset
        <5> QED BY <5>1, SumNat
      <4>3. Sum(G, s \ {x}) = Sum(F, s \cap T)
        BY <3>2, <4>1
      <4>4. Sum(G, s) = Sum(F, s \cap T)
        <5> HIDE DEF Good
        <5> QED BY <3>1, <4>1, <4>2, <4>3
      <4> QED BY <4>4
    <3> QED BY <3>3, <3>4
  <2> QED BY <2>1, <2>2
<1>2. \A s \in SUBSET S : s \in Good
  <2> HIDE DEF Good
  <2> QED BY <1>1, SubsetInduction
<1>3. S \cap T = T
  OBVIOUS
<1> QED BY <1>2, <1>3

\* One element that counts 1.
LEMMA SumOne ==
  ASSUME NEW S, IsFiniteSet(S), NEW c \in S
  PROVE  Sum([x \in S |-> IF x = c THEN 1 ELSE 0], S) = 1
<1> DEFINE G == [x \in S |-> IF x = c THEN 1 ELSE 0]
<1>1. Sum(G, S) = Sum(G, {c})
  <2>1. {c} \in SUBSET S /\ \A x \in {c} : G[x] \in Nat
    OBVIOUS
  <2>2. \A x \in S \ {c} : G[x] = 0
    OBVIOUS
  <2> HIDE DEF G
  <2> QED BY <2>1, <2>2, SumOver
<1>2. IsFiniteSet({c}) /\ IsFiniteSet({}) /\ {c} \ {c} = {} /\ {c} \in SUBSET {c} /\ c \in {c}
  BY FS_Singleton, FS_EmptySet
<1>3. G[c] = 1 /\ \A x \in {c} : G[x] \in Nat
  OBVIOUS
<1>4. Sum(G, {c}) = Sum(G, {c} \ {c}) + G[c]
  <2> HIDE DEF G
  <2> QED BY <1>2, <1>3, SumAdd
<1>5. Sum(G, {}) = 0
  BY <1>2, SumStep
<1> QED BY <1>1, <1>2, <1>3, <1>4, <1>5

\* The sums of the tracker are such sums.
LEMMA TotalSeed ==
  ASSUME NEW S, IsFiniteSet(S)
  PROVE  Total(Seed, S) = Sum([c \in S |-> Seed(c)], S)
<1> DEFINE F == [c \in S |-> Seed(c)]
           P(g) == g = [s \in SUBSET S |-> IF s = {} THEN 0 ELSE g[s \ {Pick(s)}] + Seed(Pick(s))]
<1>1. Total(Seed, S) = (CHOOSE g : P(g))[S]
  BY DEF Total, FoldSet, MapThenFoldSet, Pick
<1>2. \A g : P(g) <=> Graph(g, F, S)
  <2>1. \A s \in SUBSET S : s # {} => Seed(Pick(s)) = F[Pick(s)]
    BY Picked
  <2>2. [s \in SUBSET S |-> IF s = {} THEN 0 ELSE 0] = [s \in SUBSET S |-> 0]
    OBVIOUS
  <2>3. ASSUME NEW g PROVE [s \in SUBSET S |-> IF s = {} THEN 0 ELSE g[s \ {Pick(s)}] + Seed(Pick(s))]
                           = [s \in SUBSET S |-> IF s = {} THEN 0 ELSE g[s \ {Pick(s)}] + F[Pick(s)]]
    <3> HIDE DEF F
    <3> QED BY <2>1
  <2> QED BY <2>3 DEF Graph
<1>3. \E g : P(g)
  <2> HIDE DEF P, F
  <2> QED BY <1>2, GraphExists
<1>4. P(CHOOSE g : P(g))
  <2> HIDE DEF P
  <2> QED BY <1>3
<1>5. Graph(CHOOSE g : P(g), F, S)
  BY <1>2, <1>4
<1> HIDE DEF P, F
<1> QED BY <1>1, <1>5, SumIs DEF F

\* The live counters (get_ssh_traffic) are such a sum,
LEMMA TotalCounted ==
  ASSUME NEW S, IsFiniteSet(S)
  PROVE  Total(Counted, S) = Sum([c \in S |-> Counted(c)], S)
<1> DEFINE F == [c \in S |-> Counted(c)]
           P(g) == g = [s \in SUBSET S |-> IF s = {} THEN 0 ELSE g[s \ {Pick(s)}] + Counted(Pick(s))]
<1>1. Total(Counted, S) = (CHOOSE g : P(g))[S]
  BY DEF Total, FoldSet, MapThenFoldSet, Pick
<1>2. \A g : P(g) <=> Graph(g, F, S)
  <2>1. \A s \in SUBSET S : s # {} => Counted(Pick(s)) = F[Pick(s)]
    BY Picked
  <2>2. [s \in SUBSET S |-> IF s = {} THEN 0 ELSE 0] = [s \in SUBSET S |-> 0]
    OBVIOUS
  <2>3. ASSUME NEW g PROVE [s \in SUBSET S |-> IF s = {} THEN 0 ELSE g[s \ {Pick(s)}] + Counted(Pick(s))]
                           = [s \in SUBSET S |-> IF s = {} THEN 0 ELSE g[s \ {Pick(s)}] + F[Pick(s)]]
    <3> HIDE DEF F
    <3> QED BY <2>1
  <2> QED BY <2>3 DEF Graph
<1>3. \E g : P(g)
  <2> HIDE DEF P, F
  <2> QED BY <1>2, GraphExists
<1>4. P(CHOOSE g : P(g))
  <2> HIDE DEF P
  <2> QED BY <1>3
<1>5. Graph(CHOOSE g : P(g), F, S)
  BY <1>2, <1>4
<1> HIDE DEF P, F
<1> QED BY <1>1, <1>5, SumIs DEF F

\* and so is what a flush bills.
LEMMA TotalGrown ==
  ASSUME NEW S, IsFiniteSet(S)
  PROVE  Total(Grown, S) = Sum([c \in S |-> Grown(c)], S)
<1> DEFINE F == [c \in S |-> Grown(c)]
           P(g) == g = [s \in SUBSET S |-> IF s = {} THEN 0 ELSE g[s \ {Pick(s)}] + Grown(Pick(s))]
<1>1. Total(Grown, S) = (CHOOSE g : P(g))[S]
  BY DEF Total, FoldSet, MapThenFoldSet, Pick
<1>2. \A g : P(g) <=> Graph(g, F, S)
  <2>1. \A s \in SUBSET S : s # {} => Grown(Pick(s)) = F[Pick(s)]
    BY Picked
  <2>2. [s \in SUBSET S |-> IF s = {} THEN 0 ELSE 0] = [s \in SUBSET S |-> 0]
    OBVIOUS
  <2>3. ASSUME NEW g PROVE [s \in SUBSET S |-> IF s = {} THEN 0 ELSE g[s \ {Pick(s)}] + Grown(Pick(s))]
                           = [s \in SUBSET S |-> IF s = {} THEN 0 ELSE g[s \ {Pick(s)}] + F[Pick(s)]]
    <3> HIDE DEF F
    <3> QED BY <2>1
  <2> QED BY <2>3 DEF Graph
<1>3. \E g : P(g)
  <2> HIDE DEF P, F
  <2> QED BY <1>2, GraphExists
<1>4. P(CHOOSE g : P(g))
  <2> HIDE DEF P
  <2> QED BY <1>3
<1>5. Graph(CHOOSE g : P(g), F, S)
  BY <1>2, <1>4
<1> HIDE DEF P, F
<1> QED BY <1>1, <1>5, SumIs DEF F

-----------------------------------------------------------------------------
\* Types.

Flags == {"locked", "quota_hit", "exp_lock"}
Uses == {"judge", "free", "shown"}             \* what a measured total is for
\* The commands that decide what follows them: always the last of a script.
Stages == {"tally", "grow", "first"}           \* the rest of a measure
Ends == {"collect", "install", "measure", "lock", "rewrite", "renewed", "requoted"} \cup Stages \cup Uses

Steps ==
  {<<"set", f, n>> : f \in {"used", "last", "quota"}, n \in Nat}
  \cup {<<"set", f, b>> : f \in Flags, b \in BOOLEAN}
  \cup {<<c, b>> : c \in {"passwd", "install"}, b \in BOOLEAN}
  \cup {<<c>> : c \in {"collect", "kill", "rewrite", "renewed", "requoted", "unlink"}}
  \cup {<<"measure", c, q>> : c \in Uses, q \in Nat}
  \cup {<<k, c, q, r>> : k \in {"tally", "first"}, c \in Uses, q \in Nat, r \in Nat}
  \cup {<<"grow", c, q, r, u>> : c \in Uses, q \in Nat, r \in Nat, u \in Nat}
  \cup {<<c, q, n>> : c \in Uses, q \in Nat, n \in Nat}
  \cup {<<"lock", c>> : c \in {"quota_hit", "exp_lock"}}
  \cup {<<"write_meta", q>> : q \in Nat}

Elems(s) == {s[i] : i \in 1..Len(s)}
Plain(s) == s \in Seq(Steps) /\ \A e \in Elems(s) : e[1] \notin Ends
Script(s) == s \in Seq(Steps) /\ \A i \in 1..Len(s) : s[i][1] \in Ends => i = Len(s)

Table(f) == \E D \in SUBSET Conns : f \in [D -> Nat]
Metas == [here : BOOLEAN, quota : Nat, past : BOOLEAN, used : Nat, last : Nat,
          locked : BOOLEAN, quota_hit : BOOLEAN, exp_lock : BOOLEAN]
AccountOK ==
  /\ proto \in Protos /\ meta \in Metas /\ admitted \in BOOLEAN /\ raw \in Nat
  /\ carried \in Nat /\ slips \in Nat /\ sole \in SUBSET Procs /\ calls \in Nat /\ clean \in BOOLEAN
SshOK ==
  /\ conn \in [Conns -> [is : {"none", "open", "closed"}, sent : Nat]] /\ Table(count)
  /\ \E b \in BOOLEAN : \E t : Table(t) /\ file = [torn |-> b, last |-> t]
  /\ \E a \in {"off", "poll", "timers", "rebuild", "save"} : \E t :
       Table(t) /\ trk = [at |-> a, last |-> t] /\ (proto # "ssh" => a = "off")
TodoOK == todo \in [Procs -> Seq(Steps)] /\ \A p \in Procs : Script(todo[p])
TypeOK == AccountOK /\ SshOK /\ TodoOK

-----------------------------------------------------------------------------
\* Scripts.

LEMMA ElemsOf ==
  /\ Elems(<<>>) = {}
  /\ \A a : Elems(<<a>>) = {a}
  /\ \A a, b : Elems(<<a, b>>) = {a, b}
  /\ \A a, b, c : Elems(<<a, b, c>>) = {a, b, c}
<1>1. /\ Elems(<<>>) = {}
      /\ \A a : Elems(<<a>>) = {a}
  BY DEF Elems
<1>2. \A a, b : Elems(<<a, b>>) = {a, b}
  <2> SUFFICES ASSUME NEW a, NEW b PROVE Elems(<<a, b>>) = {a, b}
    OBVIOUS
  <2>1. Len(<<a, b>>) = 2 /\ <<a, b>>[1] = a /\ <<a, b>>[2] = b /\ 1..2 = {1, 2}
    OBVIOUS
  <2> QED BY <2>1 DEF Elems
<1>3. \A a, b, c : Elems(<<a, b, c>>) = {a, b, c}
  <2> SUFFICES ASSUME NEW a, NEW b, NEW c PROVE Elems(<<a, b, c>>) = {a, b, c}
    OBVIOUS
  <2>1. Len(<<a, b, c>>) = 3 /\ <<a, b, c>>[1] = a /\ <<a, b, c>>[2] = b /\ <<a, b, c>>[3] = c
        /\ 1..3 = {1, 2, 3}
    OBVIOUS
  <2> QED BY <2>1 DEF Elems
<1> QED BY <1>1, <1>2, <1>3

\* The commands of two scripts, one after the other.
LEMMA ElemsConcat ==
  ASSUME NEW s \in Seq(Steps), NEW t \in Seq(Steps)
  PROVE  s \o t \in Seq(Steps) /\ Elems(s \o t) = Elems(s) \cup Elems(t)
<1> DEFINE m == Len(s)  n == Len(t)
<1>1. s \o t \in Seq(Steps) /\ Len(s \o t) = m + n /\ m \in Nat /\ n \in Nat
  BY ConcatProperties, LenProperties
<1>2. \A i \in 1..m : (s \o t)[i] = s[i]
  BY ConcatProperties
<1>3. \A i \in 1..n : (s \o t)[m + i] = t[i]
  BY ConcatProperties
<1>4. \A i \in 1..(m + n) : i \in 1..m \/ (i - m \in 1..n /\ i = m + (i - m))
  BY <1>1
<1>5. \A i \in 1..m : i \in 1..(m + n)
  BY <1>1
<1>6. \A i \in 1..n : m + i \in 1..(m + n)
  BY <1>1
<1>7. Elems(s \o t) = {(s \o t)[i] : i \in 1..(m + n)}
      /\ Elems(s) = {s[i] : i \in 1..m} /\ Elems(t) = {t[i] : i \in 1..n}
  BY <1>1 DEF Elems
<1> HIDE DEF m, n
<1>8. ASSUME NEW x \in Elems(s \o t) PROVE x \in Elems(s) \cup Elems(t)
  <2>1. PICK i \in 1..(m + n) : x = (s \o t)[i]
    BY <1>7
  <2>2. CASE i \in 1..m
    BY <1>2, <1>7, <2>1, <2>2
  <2>3. CASE i - m \in 1..n /\ i = m + (i - m)
    BY <1>3, <1>7, <2>1, <2>3
  <2> QED BY <1>4, <2>2, <2>3
<1>9. \A x \in Elems(s) : x \in Elems(s \o t)
  BY <1>2, <1>5, <1>7
<1>10. \A x \in Elems(t) : x \in Elems(s \o t)
  BY <1>3, <1>6, <1>7
<1> QED BY <1>1, <1>8, <1>9, <1>10

\* What is left of a script after its first command, position by position,
LEMMA TailOf ==
  ASSUME NEW s \in Seq(Steps), s # <<>>
  PROVE  \E n \in Nat \ {0}, t \in Seq(Steps) :
           /\ t = Tail(s) /\ Len(s) = n /\ Len(t) = n - 1 /\ Head(s) = s[1] /\ s[1] \in Steps
           /\ \A i \in 1..(n - 1) : t[i] = s[i + 1]
<1>1. Tail(s) \in Seq(Steps) /\ Len(Tail(s)) = Len(s) - 1 /\ Head(s) = s[1]
  BY HeadTailProperties
<1>2. Len(s) \in Nat \ {0}
  BY LenProperties, EmptySeq
<1>3. \A i \in 1..(Len(s) - 1) : Tail(s)[i] = s[i + 1]
  BY HeadTailProperties
<1>4. s[1] \in Steps
  BY <1>2, ElementOfSeq
<1> QED BY <1>1, <1>2, <1>3, <1>4, Zenon

\* and as a set.
LEMMA ElemsTail ==
  ASSUME NEW s \in Seq(Steps), s # <<>>
  PROVE  /\ Head(s) \in Steps /\ Tail(s) \in Seq(Steps)
         /\ Elems(s) = {Head(s)} \cup Elems(Tail(s))
<1>1. PICK n \in Nat \ {0}, t \in Seq(Steps) :
        /\ t = Tail(s) /\ Len(s) = n /\ Len(t) = n - 1 /\ Head(s) = s[1] /\ s[1] \in Steps
        /\ \A i \in 1..(n - 1) : t[i] = s[i + 1]
  BY TailOf
<1>2. Len(s) = n /\ Len(t) = n - 1 /\ \A i \in 1..(n - 1) : t[i] = s[i + 1]
  BY <1>1
<1>3. \A i \in 1..n : i = 1 \/ (i - 1 \in 1..(n - 1) /\ i = (i - 1) + 1)
  BY <1>1
<1>4. \A i \in 1..(n - 1) : i + 1 \in 1..n
  BY <1>1
<1>5. Elems(s) = {s[1]} \cup Elems(t)
  <2>1. Elems(t) = {t[i] : i \in 1..(n - 1)} /\ Elems(s) = {s[i] : i \in 1..n} /\ 1 \in 1..n
    BY <1>2 DEF Elems
  <2>2. ASSUME NEW x \in Elems(s) PROVE x = s[1] \/ x \in Elems(t)
    <3>1. PICK i \in 1..n : x = s[i]
      BY <2>1
    <3> QED BY <2>1, <3>1, <1>2, <1>3
  <2>3. ASSUME NEW x \in Elems(t) PROVE x \in Elems(s)
    <3>1. PICK i \in 1..(n - 1) : x = t[i]
      BY <2>1
    <3> QED BY <2>1, <3>1, <1>2, <1>4
  <2>4. s[1] \in Elems(s)
    BY <2>1
  <2> QED BY <2>2, <2>3, <2>4
<1> QED BY <1>1, <1>5, Zenon

\* The rest of a script is a script, and nothing follows a command that decides.
LEMMA ScriptTail ==
  ASSUME NEW s, Script(s), s # <<>>
  PROVE  Script(Tail(s)) /\ (Head(s)[1] \in Ends => Tail(s) = <<>>)
<1>0. s \in Seq(Steps) /\ \A i \in 1..Len(s) : s[i][1] \in Ends => i = Len(s)
  BY DEF Script
<1>1. PICK n \in Nat \ {0}, t \in Seq(Steps) :
        /\ t = Tail(s) /\ Len(s) = n /\ Len(t) = n - 1 /\ Head(s) = s[1] /\ s[1] \in Steps
        /\ \A i \in 1..(n - 1) : t[i] = s[i + 1]
  BY <1>0, TailOf
<1>2. \A i \in 1..(n - 1) : i + 1 \in 1..n /\ i \in Int
  BY <1>1
<1>3. \A i \in 1..(n - 1) : t[i][1] \in Ends => i = n - 1
  <2> SUFFICES ASSUME NEW i \in 1..(n - 1), t[i][1] \in Ends PROVE i = n - 1
    OBVIOUS
  <2>1. i + 1 \in 1..Len(s) /\ s[i + 1][1] \in Ends
    BY <1>1, <1>2
  <2>2. i + 1 = n
    BY <1>0, <1>1, <2>1, Zenon
  <2> QED BY <1>2, <2>2
<1>4. Script(t)
  BY <1>1, <1>3 DEF Script
<1>5. Head(s)[1] \in Ends => n = 1
  BY <1>0, <1>1
<1>6. n = 1 => t = <<>>
  BY <1>1, EmptySeq
<1> QED BY <1>1, <1>4, <1>5, <1>6, Zenon

\* Commands that decide nothing may be put one after the other;
LEMMA PlainConcat ==
  ASSUME NEW s, NEW t, Plain(s), Plain(t)
  PROVE  Plain(s \o t)
BY ElemsConcat DEF Plain

\* they are a script,
LEMMA PlainScript ==
  ASSUME NEW s, Plain(s)
  PROVE  Script(s)
BY DEF Plain, Script, Elems

\* and go before any script.
LEMMA ScriptConcat ==
  ASSUME NEW s, NEW t, Plain(s), Script(t)
  PROVE  Script(s \o t)
<1> DEFINE m == Len(s)  n == Len(t)
<1>0. s \in Seq(Steps) /\ t \in Seq(Steps)
  BY DEF Plain, Script
<1>1. s \o t \in Seq(Steps) /\ Len(s \o t) = m + n /\ m \in Nat /\ n \in Nat
  BY <1>0, ConcatProperties, LenProperties
<1>2. \A i \in 1..m : (s \o t)[i] = s[i] /\ s[i][1] \notin Ends
  BY <1>0, ConcatProperties DEF Plain, Elems
<1>3. \A i \in 1..n : (s \o t)[m + i] = t[i] /\ (t[i][1] \in Ends => i = n)
  BY <1>0, ConcatProperties DEF Script
<1>4. ASSUME NEW i \in 1..(m + n), (s \o t)[i][1] \in Ends PROVE i = m + n
  <2>1. i \notin 1..m
    BY <1>2, <1>4
  <2>2. i - m \in 1..n /\ m + (i - m) = i
    BY <1>1, <2>1
  <2>3. i - m = n
    BY <1>3, <1>4, <2>2
  <2> QED BY <1>1, <2>3
<1> HIDE DEF m, n
<1> QED BY <1>1, <1>4 DEF Script

\* Scripts of one command, of none, of two and of three.
LEMMA OneStep ==
  ASSUME NEW e \in Steps
  PROVE  /\ Script(<<e>>)
         /\ e[1] \notin Ends => Plain(<<e>>)
<1>1. <<e>> \in Seq(Steps) /\ Len(<<e>>) = 1 /\ <<e>>[1] = e
  OBVIOUS
<1> QED BY <1>1, ElemsOf DEF Script, Plain

LEMMA NoSteps == Plain(<<>>) /\ Script(<<>>)
<1>1. <<>> \in Seq(Steps)
  OBVIOUS
<1>2. Plain(<<>>)
  BY <1>1, ElemsOf DEF Plain
<1> QED BY <1>2, PlainScript

LEMMA TwoSteps ==
  ASSUME NEW a \in Steps, NEW b \in Steps, a[1] \notin Ends
  PROVE  /\ Script(<<a, b>>)
         /\ b[1] \notin Ends => Plain(<<a, b>>)
<1>1. <<a, b>> \in Seq(Steps) /\ Len(<<a, b>>) = 2 /\ <<a, b>>[1] = a /\ <<a, b>>[2] = b
  OBVIOUS
<1>2. \A i \in 1..2 : i = 1 \/ i = 2
  OBVIOUS
<1> QED BY <1>1, <1>2, ElemsOf DEF Script, Plain

LEMMA ThreeSteps ==
  ASSUME NEW a \in Steps, NEW b \in Steps, NEW c \in Steps,
         a[1] \notin Ends, b[1] \notin Ends
  PROVE  /\ Script(<<a, b, c>>)
         /\ c[1] \notin Ends => Plain(<<a, b, c>>)
<1>1. /\ <<a, b, c>> \in Seq(Steps) /\ Len(<<a, b, c>>) = 3
      /\ <<a, b, c>>[1] = a /\ <<a, b, c>>[2] = b /\ <<a, b, c>>[3] = c
  OBVIOUS
<1>2. \A i \in 1..3 : i = 1 \/ i = 2 \/ i = 3
  OBVIOUS
<1> QED BY <1>1, <1>2, ElemsOf DEF Script, Plain

\* A part of a script that decides nothing, before the rest of it.
LEMMA Parts ==
  ASSUME NEW s, NEW t, Plain(s)
  PROVE  /\ Plain(t) => Plain(s \o t) /\ Script(s \o t)
         /\ Script(t) => Script(s \o t)
         /\ Script(t) => Elems(s \o t) = Elems(s) \cup Elems(t)
<1>1. Plain(t) => Script(t)
  BY PlainScript
<1>2. Script(t) => Elems(s \o t) = Elems(s) \cup Elems(t)
  BY ElemsConcat DEF Plain, Script
<1> QED BY <1>1, <1>2, PlainConcat, ScriptConcat

-----------------------------------------------------------------------------
\* The commands.

LEMMA KnownSteps ==
  /\ \A f \in {"used", "last", "quota"}, n \in Nat : Set(f, n) \in Steps /\ Set(f, n)[1] \notin Ends
  /\ \A f \in Flags, b \in BOOLEAN : Set(f, b) \in Steps /\ Set(f, b)[1] \notin Ends
  /\ \A b \in BOOLEAN : <<"passwd", b>> \in Steps /\ <<"install", b>> \in Steps
  /\ {<<"collect">>, <<"kill">>, <<"rewrite">>, <<"renewed">>, <<"requoted">>, <<"unlink">>} \subseteq Steps
  /\ \A c \in Uses, q \in Nat : <<"measure", c, q>> \in Steps /\ \A n \in Nat : <<c, q, n>> \in Steps
  /\ \A c \in Uses, q \in Nat, r \in Nat :
       /\ <<"tally", c, q, r>> \in Steps /\ <<"first", c, q, r>> \in Steps
       /\ \A u \in Nat : <<"grow", c, q, r, u>> \in Steps
  /\ <<"lock", "quota_hit">> \in Steps /\ <<"lock", "exp_lock">> \in Steps
  /\ \A q \in Nat : <<"write_meta", q>> \in Steps
BY DEF Steps, Set, Ends, Stages, Uses

\* The name of a command tells what it carries.
LEMMA StepKinds ==
  ASSUME NEW e \in Steps
  PROVE  /\ e[1] = "set" =>
              \/ \E f \in {"used", "last", "quota"}, n \in Nat : e = <<"set", f, n>>
              \/ \E f \in Flags, b \in BOOLEAN : e = <<"set", f, b>>
         /\ e[1] \in {"passwd", "install"} => \E b \in BOOLEAN : e = <<e[1], b>>
         /\ e[1] = "measure" => \E c \in Uses, q \in Nat : e = <<"measure", c, q>>
         /\ e[1] \in {"tally", "first"} => \E c \in Uses, q \in Nat, r \in Nat : e = <<e[1], c, q, r>>
         /\ e[1] = "grow" => \E c \in Uses, q \in Nat, r \in Nat, u \in Nat : e = <<"grow", c, q, r, u>>
         /\ e[1] \in Uses => \E q \in Nat, n \in Nat : e = <<e[1], q, n>>
         /\ e[1] = "lock" => \E c \in {"quota_hit", "exp_lock"} : e = <<"lock", c>>
         /\ e[1] = "write_meta" => \E q \in Nat : e = <<"write_meta", q>>
BY DEF Steps, Uses

\* passwd -l or -u, for SSH only,
LEMMA ShutSteps ==
  ASSUME NEW b \in BOOLEAN
  PROVE  Plain(Shut(b)) /\ Elems(Shut(b)) = IF proto = "ssh" THEN {<<"passwd", ~b>>} ELSE {}
<1>1. <<"passwd", ~b>> \in Steps /\ <<"passwd", ~b>>[1] \notin Ends
  BY KnownSteps DEF Ends, Stages, Uses
<1> QED BY <1>1, OneStep, NoSteps, ElemsOf DEF Shut

\* and a new configuration for the others.
LEMMA RebuildSteps ==
  Script(Rebuild) /\ Elems(Rebuild) = IF proto = "ssh" THEN {} ELSE {<<"collect">>}
<1>1. <<"collect">> \in Steps
  BY KnownSteps
<1> QED BY <1>1, OneStep, NoSteps, ElemsOf DEF Rebuild

\* The end of the sessions.
LEMMA KillSteps == Plain(<<<<"kill">>>>) /\ Elems(<<<<"kill">>>>) = {<<"kill">>}
<1>1. <<"kill">> \in Steps /\ <<"kill">>[1] \notin Ends
  BY KnownSteps DEF Ends, Stages, Uses
<1> QED BY <1>1, OneStep, ElemsOf

\* Two writes of flags.
LEMMA FlagSteps ==
  ASSUME NEW f \in Flags, NEW b \in BOOLEAN
  PROVE  /\ Plain(<<Set(f, b)>>) /\ Elems(<<Set(f, b)>>) = {Set(f, b)}
         /\ \A g \in Flags, c \in BOOLEAN :
              Plain(<<Set(f, b), Set(g, c)>>) /\ Elems(<<Set(f, b), Set(g, c)>>) = {Set(f, b), Set(g, c)}
<1>1. Plain(<<Set(f, b)>>)
  BY KnownSteps, OneStep
<1>2. ASSUME NEW g \in Flags, NEW c \in BOOLEAN PROVE Plain(<<Set(f, b), Set(g, c)>>)
  BY KnownSteps, TwoSteps
<1> QED BY <1>1, <1>2, ElemsOf

\* What quota_enforce writes to lock an account,
LEMMA LockForSteps ==
  ASSUME proto \in Protos, NEW why \in {"quota_hit", "exp_lock"}
  PROVE  /\ Script(LockFor(why))
         /\ proto = "ssh" =>
              /\ {Set("locked", TRUE), <<"passwd", FALSE>>} \subseteq Elems(LockFor(why))
              /\ Elems(LockFor(why)) \subseteq
                   {Set("quota_hit", TRUE), Set("locked", TRUE), Set("exp_lock", TRUE),
                    <<"passwd", FALSE>>, <<"kill">>}
         /\ proto # "ssh" =>
              /\ <<"collect">> \in Elems(LockFor(why))
              /\ Elems(LockFor(why)) \subseteq
                   {Set("quota_hit", TRUE), Set("locked", TRUE), Set("exp_lock", TRUE), <<"collect">>}
<1> DEFINE A == <<Set("quota_hit", TRUE), Set("locked", TRUE)>>
           B == <<Set("locked", TRUE), Set("quota_hit", TRUE)>>
           C == <<Set("locked", TRUE), Set("exp_lock", TRUE)>>
<1>1. /\ Plain(A) /\ Elems(A) = {Set("quota_hit", TRUE), Set("locked", TRUE)}
      /\ Plain(B) /\ Elems(B) = {Set("quota_hit", TRUE), Set("locked", TRUE)}
      /\ Plain(C) /\ Elems(C) = {Set("exp_lock", TRUE), Set("locked", TRUE)}
  BY FlagSteps DEF Flags
<1>2. /\ Plain(Shut(TRUE))
      /\ Elems(Shut(TRUE)) = IF proto = "ssh" THEN {<<"passwd", FALSE>>} ELSE {}
  BY ShutSteps
<1>3. \/ proto = "ssh" /\ why = "quota_hit" /\ LockFor(why) = A \o Shut(TRUE) \o <<<<"kill">>>>
      \/ proto = "ssh" /\ LockFor(why) = C \o Shut(TRUE) \o Rebuild
      \/ proto # "ssh" /\ LockFor(why) = B \o Rebuild
      \/ proto # "ssh" /\ LockFor(why) = A \o Rebuild
      \/ proto # "ssh" /\ LockFor(why) = C \o Shut(TRUE) \o Rebuild
  BY ProtosAssumption DEF LockFor, Metered
<1> HIDE DEF A, B, C
<1>4. /\ Plain(A \o Shut(TRUE)) /\ Elems(A \o Shut(TRUE)) = Elems(A) \cup Elems(Shut(TRUE))
      /\ Plain(C \o Shut(TRUE)) /\ Elems(C \o Shut(TRUE)) = Elems(C) \cup Elems(Shut(TRUE))
  BY <1>1, <1>2, Parts, PlainScript
<1>5. /\ Script(A \o Rebuild) /\ Elems(A \o Rebuild) = Elems(A) \cup Elems(Rebuild)
      /\ Script(B \o Rebuild) /\ Elems(B \o Rebuild) = Elems(B) \cup Elems(Rebuild)
      /\ Script(C \o Shut(TRUE) \o Rebuild)
      /\ Elems(C \o Shut(TRUE) \o Rebuild) = Elems(C \o Shut(TRUE)) \cup Elems(Rebuild)
  <2> DEFINE S == C \o Shut(TRUE)
  <2>1. Plain(S)
    BY <1>4
  <2> HIDE DEF S
  <2>2. /\ Script(S \o Rebuild)
        /\ Elems(S \o Rebuild) = Elems(S) \cup Elems(Rebuild)
    BY <2>1, RebuildSteps, Parts
  <2>3. /\ Script(A \o Rebuild) /\ Elems(A \o Rebuild) = Elems(A) \cup Elems(Rebuild)
        /\ Script(B \o Rebuild) /\ Elems(B \o Rebuild) = Elems(B) \cup Elems(Rebuild)
    BY <1>1, RebuildSteps, Parts
  <2> QED BY <2>2, <2>3 DEF S
<1>6. /\ Script(A \o Shut(TRUE) \o <<<<"kill">>>>)
      /\ Elems(A \o Shut(TRUE) \o <<<<"kill">>>>) = Elems(A \o Shut(TRUE)) \cup {<<"kill">>}
  <2> DEFINE S == A \o Shut(TRUE)  K == <<<<"kill">>>>
  <2>1. Plain(S) /\ Plain(K) /\ Elems(K) = {<<"kill">>}
    BY <1>4, KillSteps
  <2> HIDE DEF S, K
  <2>2. Script(K)
    BY <2>1, PlainScript
  <2>3. Script(S \o K) /\ Elems(S \o K) = Elems(S) \cup {<<"kill">>}
    BY <2>1, <2>2, Parts
  <2> QED BY <2>3 DEF S, K
<1> QED BY <1>1, <1>2, <1>3, <1>4, <1>5, <1>6, RebuildSteps

\* and to let one in again.
LEMMA ReleaseSteps ==
  ASSUME proto \in Protos
  PROVE  /\ Script(Release)
         /\ proto = "ssh" =>
              Elems(Release) = {Set("quota_hit", FALSE), <<"passwd", TRUE>>, Set("locked", FALSE)}
         /\ proto # "ssh" =>
              Elems(Release) = {Set("quota_hit", FALSE), Set("locked", FALSE), <<"collect">>}
<1> DEFINE A == <<Set("quota_hit", FALSE)>>
           B == <<Set("locked", FALSE)>>
           C == <<Set("locked", FALSE), Set("quota_hit", FALSE)>>
           D == <<Set("quota_hit", FALSE), Set("locked", FALSE)>>
<1>1. /\ Plain(A) /\ Elems(A) = {Set("quota_hit", FALSE)}
      /\ Plain(B) /\ Elems(B) = {Set("locked", FALSE)}
      /\ Plain(C) /\ Elems(C) = {Set("quota_hit", FALSE), Set("locked", FALSE)}
      /\ Plain(D) /\ Elems(D) = {Set("quota_hit", FALSE), Set("locked", FALSE)}
  BY FlagSteps DEF Flags
<1>2. /\ Plain(Shut(FALSE))
      /\ Elems(Shut(FALSE)) = IF proto = "ssh" THEN {<<"passwd", TRUE>>} ELSE {}
  BY ShutSteps
<1>3. Release = IF proto = "ssh" THEN A \o Shut(FALSE) \o B
                ELSE IF proto \in Metered THEN C \o Rebuild ELSE D \o Rebuild
  BY DEF Release
<1> HIDE DEF A, B, C, D
<1>4. /\ Script(A \o Shut(FALSE) \o B)
      /\ Elems(A \o Shut(FALSE) \o B) = Elems(A) \cup Elems(Shut(FALSE)) \cup Elems(B)
  <2>1. Plain(A \o Shut(FALSE)) /\ Elems(A \o Shut(FALSE)) = Elems(A) \cup Elems(Shut(FALSE))
    BY <1>1, <1>2, Parts, PlainScript
  <2> DEFINE S == A \o Shut(FALSE)
  <2>2. Plain(S) /\ Script(B)
    BY <1>1, <2>1, PlainScript
  <2> HIDE DEF S
  <2>3. Script(S \o B) /\ Elems(S \o B) = Elems(S) \cup Elems(B)
    BY <2>2, Parts
  <2> QED BY <2>1, <2>3 DEF S
<1>5. /\ Script(C \o Rebuild) /\ Elems(C \o Rebuild) = Elems(C) \cup Elems(Rebuild)
      /\ Script(D \o Rebuild) /\ Elems(D \o Rebuild) = Elems(D) \cup Elems(Rebuild)
  BY <1>1, RebuildSteps, Parts
<1> QED BY <1>1, <1>2, <1>3, <1>4, <1>5, RebuildSteps

\* The end of an SSH renewal.
LEMMA ExpiryUnlockSteps ==
  /\ Plain(ExpiryUnlock)
  /\ proto = "ssh" =>
       Elems(ExpiryUnlock) = {<<"passwd", TRUE>>, Set("locked", FALSE), Set("exp_lock", FALSE)}
<1> DEFINE A == <<Set("locked", FALSE), Set("exp_lock", FALSE)>>
<1>1. Plain(A) /\ Elems(A) = {Set("locked", FALSE), Set("exp_lock", FALSE)}
  BY FlagSteps DEF Flags
<1>2. /\ Plain(Shut(FALSE))
      /\ Elems(Shut(FALSE)) = IF proto = "ssh" THEN {<<"passwd", TRUE>>} ELSE {}
  BY ShutSteps
<1>3. ExpiryUnlock = Shut(FALSE) \o A
  BY DEF ExpiryUnlock
<1> HIDE DEF A
<1>4. Plain(Shut(FALSE) \o A) /\ Elems(Shut(FALSE) \o A) = Elems(Shut(FALSE)) \cup Elems(A)
  BY <1>1, <1>2, Parts, PlainScript
<1> QED BY <1>1, <1>2, <1>3, <1>4

\* The lock of the SSH tracker.
LEMMA TrackerLockSteps ==
  /\ Plain(TrackerLock)
  /\ proto = "ssh" =>
       Elems(TrackerLock) =
         {Set("quota_hit", TRUE), <<"passwd", FALSE>>, Set("locked", TRUE), <<"kill">>}
<1> DEFINE A == <<Set("quota_hit", TRUE)>>
           B == <<Set("locked", TRUE), <<"kill">>>>
<1>1. Plain(A) /\ Elems(A) = {Set("quota_hit", TRUE)}
  BY FlagSteps DEF Flags
<1>2. /\ Plain(Shut(TRUE))
      /\ Elems(Shut(TRUE)) = IF proto = "ssh" THEN {<<"passwd", FALSE>>} ELSE {}
  BY ShutSteps
<1>3. Plain(B) /\ Elems(B) = {Set("locked", TRUE), <<"kill">>}
  <2>1. /\ Set("locked", TRUE) \in Steps /\ Set("locked", TRUE)[1] \notin Ends
        /\ <<"kill">> \in Steps /\ <<"kill">>[1] \notin Ends
    BY KnownSteps DEF Flags, Ends, Stages, Uses
  <2> QED BY <2>1, TwoSteps, ElemsOf
<1>4. TrackerLock = A \o Shut(TRUE) \o B
  BY DEF TrackerLock
<1> HIDE DEF A, B
<1>5. Plain(A \o Shut(TRUE)) /\ Elems(A \o Shut(TRUE)) = Elems(A) \cup Elems(Shut(TRUE))
  BY <1>1, <1>2, Parts, PlainScript
<1>6. /\ Plain(A \o Shut(TRUE) \o B)
      /\ Elems(A \o Shut(TRUE) \o B) = Elems(A \o Shut(TRUE)) \cup Elems(B)
  BY <1>3, <1>5, Parts, PlainScript
<1> QED BY <1>1, <1>2, <1>3, <1>4, <1>5, <1>6

-----------------------------------------------------------------------------
\* The scripts of the calls and of their decisions, as the actions write them.

KeptScript ==
  (IF proto \in Metered THEN <<>> ELSE Kept("used", 0))
    \o Kept("quota_hit", FALSE) \o Kept("locked", FALSE) \o Kept("exp_lock", FALSE)
    \o <<<<"renewed">>>>
RenewedScript ==
  CASE proto = "ssh" /\ meta.exp_lock -> ExpiryUnlock
    [] proto \in Metered /\ meta.locked /\ (meta.exp_lock \/ meta.quota_hit) ->
         <<Set("exp_lock", FALSE), Set("quota_hit", FALSE), Set("locked", FALSE)>> \o Rebuild
    [] proto = "hysteria" /\ meta.locked /\ meta.exp_lock ->
         <<Set("exp_lock", FALSE), Set("locked", FALSE)>> \o Rebuild
    [] OTHER -> Rebuild
RequotedScript ==
  (IF ~meta.quota_hit THEN <<>>
   ELSE <<Set("quota_hit", FALSE)>> \o Shut(FALSE) \o <<Set("locked", FALSE)>>) \o Rebuild
LockCall == Shut(TRUE) \o <<Set("locked", TRUE)>> \o IF proto = "vmess" THEN <<>> ELSE Rebuild
UnlockCall == Shut(FALSE) \o <<Set("locked", FALSE)>> \o IF proto = "vmess" THEN <<>> ELSE Rebuild
ExpiryCall == Shut(TRUE) \o <<Set("locked", TRUE), Set("exp_lock", TRUE)>>
PasswordCall ==
  IF proto = "ssh" THEN <<<<"passwd", TRUE>>>> ELSE IF proto = "vmess" THEN <<>> ELSE Rebuild
DeleteCall == <<<<"unlink">>>> \o (IF proto = "ssh" THEN Shut(TRUE) ELSE Rebuild)
CreateCall(q) == Shut(FALSE) \o <<<<"write_meta", q>>>> \o Rebuild

\* A field that renew_user puts back,
LEMMA KeptSteps ==
  ASSUME meta \in Metas
  PROVE  /\ Plain(Kept("used", 0))
         /\ Elems(Kept("used", 0)) = IF meta.used = 0 THEN {} ELSE {Set("used", meta.used)}
         /\ \A f \in Flags : Plain(Kept(f, FALSE)) /\
              Elems(Kept(f, FALSE)) = IF meta[f] THEN {Set(f, TRUE)} ELSE {}
<1>1. meta.used \in Nat /\ \A f \in Flags : meta[f] \in BOOLEAN
  BY DEF Metas, Flags
<1>2. Set("used", meta.used) \in Steps /\ Set("used", meta.used)[1] \notin Ends
  BY <1>1, KnownSteps
<1>3. /\ Plain(Kept("used", 0))
      /\ Elems(Kept("used", 0)) = IF meta.used = 0 THEN {} ELSE {Set("used", meta.used)}
  BY <1>2, OneStep, NoSteps, ElemsOf DEF Kept
<1>4. ASSUME NEW f \in Flags
      PROVE  Plain(Kept(f, FALSE)) /\ Elems(Kept(f, FALSE)) = IF meta[f] THEN {Set(f, TRUE)} ELSE {}
  <2>1. Plain(<<Set(f, TRUE)>>) /\ Elems(<<Set(f, TRUE)>>) = {Set(f, TRUE)}
    BY FlagSteps
  <2>2. Kept(f, FALSE) = IF meta[f] THEN <<Set(f, TRUE)>> ELSE <<>>
    BY <1>1 DEF Kept
  <2> QED BY <2>1, <2>2, NoSteps, ElemsOf
<1> QED BY <1>3, <1>4

\* and all it puts back.
LEMMA KeptScriptSteps ==
  ASSUME meta \in Metas
  PROVE  /\ Script(KeptScript)
         /\ Elems(KeptScript) =
              (IF proto \in Metered \/ meta.used = 0 THEN {} ELSE {Set("used", meta.used)})
              \cup {Set(f, TRUE) : f \in {g \in Flags : meta[g]}} \cup {<<"renewed">>}
<1> DEFINE A == IF proto \in Metered THEN <<>> ELSE Kept("used", 0)
           B == Kept("quota_hit", FALSE)
           C == Kept("locked", FALSE)
           D == Kept("exp_lock", FALSE)
           E == <<<<"renewed">>>>
<1>1. /\ Plain(A)
      /\ Elems(A) = IF proto \in Metered \/ meta.used = 0 THEN {} ELSE {Set("used", meta.used)}
  BY KeptSteps, NoSteps, ElemsOf
<1>2. /\ Plain(B) /\ Elems(B) = IF meta.quota_hit THEN {Set("quota_hit", TRUE)} ELSE {}
      /\ Plain(C) /\ Elems(C) = IF meta.locked THEN {Set("locked", TRUE)} ELSE {}
      /\ Plain(D) /\ Elems(D) = IF meta.exp_lock THEN {Set("exp_lock", TRUE)} ELSE {}
  BY KeptSteps DEF Flags
<1>3. Script(E) /\ Elems(E) = {<<"renewed">>}
  BY KnownSteps, OneStep, ElemsOf
<1>4. KeptScript = A \o B \o C \o D \o E
  BY DEF KeptScript
<1> HIDE DEF A, B, C, D, E
<1>5. Plain(A \o B) /\ Elems(A \o B) = Elems(A) \cup Elems(B)
  BY <1>1, <1>2, Parts, PlainScript
<1>6. Plain(A \o B \o C) /\ Elems(A \o B \o C) = Elems(A) \cup Elems(B) \cup Elems(C)
  <2> DEFINE S == A \o B
  <2>1. Plain(S) /\ Plain(C) /\ Script(C)
    BY <1>2, <1>5, PlainScript
  <2> HIDE DEF S
  <2>2. Plain(S \o C) /\ Elems(S \o C) = Elems(S) \cup Elems(C)
    BY <2>1, Parts
  <2> QED BY <1>5, <2>2 DEF S
<1>7. /\ Plain(A \o B \o C \o D)
      /\ Elems(A \o B \o C \o D) = Elems(A) \cup Elems(B) \cup Elems(C) \cup Elems(D)
  <2> DEFINE S == A \o B \o C
  <2>1. Plain(S) /\ Plain(D) /\ Script(D)
    BY <1>2, <1>6, PlainScript
  <2> HIDE DEF S
  <2>2. Plain(S \o D) /\ Elems(S \o D) = Elems(S) \cup Elems(D)
    BY <2>1, Parts
  <2> QED BY <1>6, <2>2 DEF S
<1>8. /\ Script(A \o B \o C \o D \o E)
      /\ Elems(A \o B \o C \o D \o E) = Elems(A) \cup Elems(B) \cup Elems(C) \cup Elems(D) \cup Elems(E)
  BY <1>3, <1>7, Parts
<1>9. {Set(f, TRUE) : f \in {g \in Flags : meta[g]}} = Elems(B) \cup Elems(C) \cup Elems(D)
  BY <1>2 DEF Flags
<1> QED BY <1>1, <1>3, <1>4, <1>8, <1>9

\* The end of renew_user: the locks it lifts.
LEMMA RenewedScriptSteps ==
  /\ Script(RenewedScript)
  /\ proto = "ssh" =>
       Elems(RenewedScript) =
         IF meta.exp_lock THEN {<<"passwd", TRUE>>, Set("locked", FALSE), Set("exp_lock", FALSE)} ELSE {}
  /\ proto # "ssh" =>
       /\ <<"collect">> \in Elems(RenewedScript)
       /\ Elems(RenewedScript) \subseteq
            {Set("exp_lock", FALSE), Set("quota_hit", FALSE), Set("locked", FALSE), <<"collect">>}
<1> DEFINE A == <<Set("exp_lock", FALSE), Set("quota_hit", FALSE), Set("locked", FALSE)>>
           B == <<Set("exp_lock", FALSE), Set("locked", FALSE)>>
<1>1. Plain(A) /\ Elems(A) = {Set("exp_lock", FALSE), Set("quota_hit", FALSE), Set("locked", FALSE)}
  BY KnownSteps, ThreeSteps, ElemsOf DEF Flags
<1>2. Plain(B) /\ Elems(B) = {Set("exp_lock", FALSE), Set("locked", FALSE)}
  BY FlagSteps DEF Flags
<1>3. \/ proto = "ssh" /\ meta.exp_lock /\ RenewedScript = ExpiryUnlock
      \/ proto # "ssh" /\ RenewedScript = A \o Rebuild
      \/ proto # "ssh" /\ RenewedScript = B \o Rebuild
      \/ (proto = "ssh" => ~meta.exp_lock) /\ RenewedScript = Rebuild
  BY DEF RenewedScript, Metered
<1> HIDE DEF A, B
<1>4. /\ Script(A \o Rebuild) /\ Elems(A \o Rebuild) = Elems(A) \cup Elems(Rebuild)
      /\ Script(B \o Rebuild) /\ Elems(B \o Rebuild) = Elems(B) \cup Elems(Rebuild)
  BY <1>1, <1>2, RebuildSteps, Parts
<1> QED BY <1>1, <1>2, <1>3, <1>4, RebuildSteps, ExpiryUnlockSteps, PlainScript

\* The end of set_user_quota: the lock of a quota is lifted.
LEMMA RequotedScriptSteps ==
  /\ Script(RequotedScript)
  /\ proto = "ssh" =>
       Elems(RequotedScript) =
         IF meta.quota_hit THEN {Set("quota_hit", FALSE), <<"passwd", TRUE>>, Set("locked", FALSE)} ELSE {}
  /\ proto # "ssh" =>
       /\ <<"collect">> \in Elems(RequotedScript)
       /\ Elems(RequotedScript) \subseteq {Set("quota_hit", FALSE), Set("locked", FALSE), <<"collect">>}
<1> DEFINE A == <<Set("quota_hit", FALSE)>>
           B == <<Set("locked", FALSE)>>
           C == IF ~meta.quota_hit THEN <<>> ELSE A \o Shut(FALSE) \o B
<1>1. /\ Plain(A) /\ Elems(A) = {Set("quota_hit", FALSE)}
      /\ Plain(B) /\ Elems(B) = {Set("locked", FALSE)}
  BY FlagSteps DEF Flags
<1>2. /\ Plain(Shut(FALSE))
      /\ Elems(Shut(FALSE)) = IF proto = "ssh" THEN {<<"passwd", TRUE>>} ELSE {}
  BY ShutSteps
<1>3. RequotedScript = C \o Rebuild
  BY DEF RequotedScript
<1> HIDE DEF A, B
<1>4. /\ Plain(C)
      /\ Elems(C) = IF meta.quota_hit THEN Elems(A) \cup Elems(Shut(FALSE)) \cup Elems(B) ELSE {}
  <2>1. Plain(A \o Shut(FALSE)) /\ Elems(A \o Shut(FALSE)) = Elems(A) \cup Elems(Shut(FALSE))
    BY <1>1, <1>2, Parts, PlainScript
  <2>2. /\ Plain(A \o Shut(FALSE) \o B)
        /\ Elems(A \o Shut(FALSE) \o B) = Elems(A \o Shut(FALSE)) \cup Elems(B)
    BY <1>1, <2>1, Parts, PlainScript
  <2> QED BY <2>1, <2>2, NoSteps, ElemsOf
<1> HIDE DEF C
<1>5. Script(C \o Rebuild) /\ Elems(C \o Rebuild) = Elems(C) \cup Elems(Rebuild)
  BY <1>4, RebuildSteps, Parts
<1> QED BY <1>1, <1>2, <1>3, <1>4, <1>5, RebuildSteps

\* The calls of the panel that do not measure.
LEMMA CallSteps ==
  /\ Script(LockCall) /\ Script(UnlockCall) /\ Script(ExpiryCall) /\ Script(PasswordCall)
  /\ Script(DeleteCall) /\ \A q \in Nat : Script(CreateCall(q))
  /\ proto = "ssh" =>
       /\ Elems(LockCall) = {<<"passwd", FALSE>>, Set("locked", TRUE)}
       /\ Elems(UnlockCall) = {<<"passwd", TRUE>>, Set("locked", FALSE)}
       /\ Elems(ExpiryCall) = {<<"passwd", FALSE>>, Set("locked", TRUE), Set("exp_lock", TRUE)}
       /\ Elems(PasswordCall) = {<<"passwd", TRUE>>}
       /\ Elems(DeleteCall) = {<<"unlink">>, <<"passwd", FALSE>>}
       /\ \A q \in Nat : Elems(CreateCall(q)) = {<<"passwd", TRUE>>, <<"write_meta", q>>}
  /\ LET last == IF proto = "vmess" THEN {} ELSE {<<"collect">>} IN
     proto # "ssh" =>
       /\ Elems(LockCall) = {Set("locked", TRUE)} \cup last
       /\ Elems(UnlockCall) = {Set("locked", FALSE)} \cup last
       /\ Elems(PasswordCall) = last
       /\ Elems(DeleteCall) = {<<"unlink">>, <<"collect">>}
       /\ \A q \in Nat : Elems(CreateCall(q)) = {<<"write_meta", q>>, <<"collect">>}
<1> DEFINE R == IF proto = "vmess" THEN <<>> ELSE Rebuild
           L == <<Set("locked", TRUE)>>
           U == <<Set("locked", FALSE)>>
           X == <<Set("locked", TRUE), Set("exp_lock", TRUE)>>
           D == <<<<"unlink">>>>
           W(q) == <<<<"write_meta", q>>>>
<1>1. /\ Script(R)
      /\ Elems(R) = IF proto \in {"ssh", "vmess"} THEN {} ELSE {<<"collect">>}
  BY RebuildSteps, NoSteps, ElemsOf
<1>2. /\ Plain(L) /\ Elems(L) = {Set("locked", TRUE)} /\ Plain(U) /\ Elems(U) = {Set("locked", FALSE)}
      /\ Plain(X) /\ Elems(X) = {Set("locked", TRUE), Set("exp_lock", TRUE)}
  BY FlagSteps DEF Flags
<1>3. \A b \in BOOLEAN : /\ Plain(Shut(b))
                         /\ Elems(Shut(b)) = IF proto = "ssh" THEN {<<"passwd", ~b>>} ELSE {}
  BY ShutSteps
<1>4. Plain(D) /\ Elems(D) = {<<"unlink">>}
  BY KnownSteps, OneStep, ElemsOf DEF Ends, Stages, Uses
<1>5. \A q \in Nat : Plain(W(q)) /\ Elems(W(q)) = {<<"write_meta", q>>}
  BY KnownSteps, OneStep, ElemsOf DEF Ends, Stages, Uses
<1>6. /\ Script(<<<<"passwd", TRUE>>>>) /\ Elems(<<<<"passwd", TRUE>>>>) = {<<"passwd", TRUE>>}
  BY KnownSteps, OneStep, ElemsOf
<1>7. /\ LockCall = Shut(TRUE) \o L \o R /\ UnlockCall = Shut(FALSE) \o U \o R
      /\ ExpiryCall = Shut(TRUE) \o X /\ DeleteCall = D \o (IF proto = "ssh" THEN Shut(TRUE) ELSE Rebuild)
      /\ PasswordCall = (IF proto = "ssh" THEN <<<<"passwd", TRUE>>>> ELSE R)
      /\ \A q \in Nat : CreateCall(q) = Shut(FALSE) \o W(q) \o Rebuild
  BY DEF LockCall, UnlockCall, ExpiryCall, DeleteCall, PasswordCall, CreateCall
<1> HIDE DEF R, L, U, X, D, W
<1>8. /\ Plain(Shut(TRUE) \o L) /\ Elems(Shut(TRUE) \o L) = Elems(Shut(TRUE)) \cup Elems(L)
      /\ Plain(Shut(FALSE) \o U) /\ Elems(Shut(FALSE) \o U) = Elems(Shut(FALSE)) \cup Elems(U)
      /\ Plain(Shut(TRUE) \o X) /\ Elems(Shut(TRUE) \o X) = Elems(Shut(TRUE)) \cup Elems(X)
  BY <1>2, <1>3, Parts, PlainScript
<1>9. \A q \in Nat : /\ Plain(Shut(FALSE) \o W(q))
                     /\ Elems(Shut(FALSE) \o W(q)) = Elems(Shut(FALSE)) \cup Elems(W(q))
  BY <1>3, <1>5, Parts, PlainScript
<1>10. /\ Script(LockCall) /\ Elems(LockCall) = Elems(Shut(TRUE) \o L) \cup Elems(R)
       /\ Script(UnlockCall) /\ Elems(UnlockCall) = Elems(Shut(FALSE) \o U) \cup Elems(R)
  BY <1>1, <1>7, <1>8, Parts
<1>11. /\ Script(ExpiryCall)
       /\ proto = "ssh" => Elems(ExpiryCall) = {<<"passwd", FALSE>>, Set("locked", TRUE), Set("exp_lock", TRUE)}
  BY <1>2, <1>3, <1>7, <1>8, PlainScript
<1>12. /\ Script(PasswordCall)
       /\ Elems(PasswordCall) = IF proto = "ssh" THEN {<<"passwd", TRUE>>} ELSE Elems(R)
  BY <1>1, <1>6, <1>7
<1>13. /\ Script(DeleteCall)
       /\ Elems(DeleteCall) = Elems(D) \cup IF proto = "ssh" THEN Elems(Shut(TRUE)) ELSE Elems(Rebuild)
  BY <1>3, <1>4, <1>7, RebuildSteps, Parts, PlainScript
<1>14. \A q \in Nat : /\ Script(CreateCall(q))
                      /\ Elems(CreateCall(q)) = Elems(Shut(FALSE) \o W(q)) \cup Elems(Rebuild)
  BY <1>7, <1>9, RebuildSteps, Parts
<1>15. /\ proto = "ssh" => Elems(Shut(TRUE)) = {<<"passwd", FALSE>>} /\ Elems(Shut(FALSE)) = {<<"passwd", TRUE>>}
       /\ proto # "ssh" => Elems(Shut(TRUE)) = {} /\ Elems(Shut(FALSE)) = {}
  BY <1>3
<1>16. /\ proto = "ssh" => Elems(Rebuild) = {} /\ Elems(R) = {}
       /\ proto # "ssh" => Elems(Rebuild) = {<<"collect">>} /\ Elems(R) = IF proto = "vmess" THEN {} ELSE {<<"collect">>}
  BY <1>1, RebuildSteps
<1>17. ASSUME proto = "ssh"
       PROVE  /\ Elems(LockCall) = {<<"passwd", FALSE>>, Set("locked", TRUE)}
              /\ Elems(UnlockCall) = {<<"passwd", TRUE>>, Set("locked", FALSE)}
              /\ Elems(DeleteCall) = {<<"unlink">>, <<"passwd", FALSE>>}
              /\ \A q \in Nat : Elems(CreateCall(q)) = {<<"passwd", TRUE>>, <<"write_meta", q>>}
  <2>1. Elems(LockCall) = {<<"passwd", FALSE>>, Set("locked", TRUE)}
    BY <1>2, <1>8, <1>10, <1>15, <1>16, <1>17
  <2>2. Elems(UnlockCall) = {<<"passwd", TRUE>>, Set("locked", FALSE)}
    BY <1>2, <1>8, <1>10, <1>15, <1>16, <1>17
  <2>3. Elems(DeleteCall) = {<<"unlink">>, <<"passwd", FALSE>>}
    BY <1>4, <1>13, <1>15, <1>17
  <2>4. \A q \in Nat : Elems(CreateCall(q)) = {<<"passwd", TRUE>>, <<"write_meta", q>>}
    BY <1>5, <1>9, <1>14, <1>15, <1>16, <1>17
  <2> QED BY <2>1, <2>2, <2>3, <2>4
<1>18. ASSUME proto # "ssh"
       PROVE  LET last == IF proto = "vmess" THEN {} ELSE {<<"collect">>} IN
              /\ Elems(LockCall) = {Set("locked", TRUE)} \cup last
              /\ Elems(UnlockCall) = {Set("locked", FALSE)} \cup last
              /\ Elems(PasswordCall) = last
              /\ Elems(DeleteCall) = {<<"unlink">>, <<"collect">>}
              /\ \A q \in Nat : Elems(CreateCall(q)) = {<<"write_meta", q>>, <<"collect">>}
  <2>1. Elems(LockCall) = {Set("locked", TRUE)} \cup Elems(R)
    BY <1>2, <1>8, <1>10, <1>15, <1>18
  <2>2. Elems(UnlockCall) = {Set("locked", FALSE)} \cup Elems(R)
    BY <1>2, <1>8, <1>10, <1>15, <1>18
  <2>3. Elems(DeleteCall) = {<<"unlink">>, <<"collect">>}
    BY <1>4, <1>13, <1>16, <1>18
  <2>4. \A q \in Nat : Elems(CreateCall(q)) = {<<"write_meta", q>>, <<"collect">>}
    BY <1>5, <1>9, <1>14, <1>15, <1>16, <1>18
  <2>5. Elems(PasswordCall) = Elems(R) /\ Elems(R) = IF proto = "vmess" THEN {} ELSE {<<"collect">>}
    BY <1>12, <1>16, <1>18
  <2> QED BY <2>1, <2>2, <2>3, <2>4, <2>5
<1> QED BY <1>10, <1>11, <1>12, <1>13, <1>14, <1>17, <1>18
-----------------------------------------------------------------------------
\* One process takes a step: its script is replaced by s.

Replaced(p, s) == todo' = [todo EXCEPT ![p] = s]

\* The other scripts stay.
LEMMA TodoKept ==
  ASSUME TodoOK, NEW p \in Procs, NEW s, Script(s), Replaced(p, s)
  PROVE  TodoOK' /\ todo'[p] = s /\ \A q \in Procs \ {p} : todo'[q] = todo[q]
<1>1. todo \in [Procs -> Seq(Steps)] /\ s \in Seq(Steps) /\ todo' = [todo EXCEPT ![p] = s]
  BY DEF TodoOK, Script, Replaced
<1>2. todo' \in [Procs -> Seq(Steps)] /\ todo'[p] = s /\ \A q \in Procs \ {p} : todo'[q] = todo[q]
  BY <1>1
<1>3. \A q \in Procs : Script(todo'[q])
  BY <1>2 DEF TodoOK
<1> QED BY <1>2, <1>3 DEF TodoOK

\* A command that goes is the first of its script, and the rest is a script.
LEMMA Runs ==
  ASSUME TodoOK, NEW p \in Procs, NEW k, Goes(p, k)
  PROVE  \E e \in Steps : \E t :
           /\ e = Head(todo[p]) /\ e[1] = k /\ t = Tail(todo[p]) /\ Script(t)
           /\ Elems(todo[p]) = {e} \cup Elems(t) /\ todo[p] # <<>>
           /\ Then(p, <<>>) => Replaced(p, t)
           /\ k \in Ends => t = <<>> /\ \A s : Script(s) /\ Then(p, s) => Replaced(p, s)
<1>1. todo[p] \in Seq(Steps) /\ Script(todo[p]) /\ todo[p] # <<>> /\ Head(todo[p])[1] = k
  BY DEF TodoOK, Goes, Idle
<1> DEFINE e == Head(todo[p])  t == Tail(todo[p])
<1>2. e \in Steps /\ t \in Seq(Steps) /\ Elems(todo[p]) = {e} \cup Elems(t)
  BY <1>1, ElemsTail
<1>3. Script(t) /\ (e[1] \in Ends => t = <<>>)
  BY <1>1, ScriptTail
<1>4. Then(p, <<>>) => Replaced(p, t)
  <2>1. <<>> \o t = t
    BY <1>2, ConcatEmptySeq
  <2>2. todo \in [Procs -> Seq(Steps)]
    BY DEF TodoOK
  <2>3. [todo EXCEPT ![p] = <<>> \o Tail(@)] = [todo EXCEPT ![p] = t]
    BY <2>1
  <2> QED BY <2>3 DEF Then, Replaced
<1>5. ASSUME k \in Ends, NEW s, Script(s), Then(p, s) PROVE Replaced(p, s)
  <2>1. t = <<>>
    BY <1>1, <1>3, <1>5
  <2>2. s \o <<>> = s
    BY <1>5, ConcatEmptySeq DEF Script
  <2>3. [todo EXCEPT ![p] = s \o Tail(@)] = [todo EXCEPT ![p] = s]
    BY <2>1, <2>2
  <2> QED BY <1>5, <2>3 DEF Then, Replaced
<1>6. k \in Ends => t = <<>> /\ \A s : Script(s) /\ Then(p, s) => Replaced(p, s)
  BY <1>1, <1>3, <1>5
<1> HIDE DEF e, t
<1>7. e = Head(todo[p]) /\ t = Tail(todo[p])
  BY DEF e, t
<1> QED BY <1>1, <1>2, <1>3, <1>4, <1>6, <1>7, Zenon

-----------------------------------------------------------------------------
\* What is measured is a number.

LEMMA CountNat ==
  ASSUME SshOK
  PROVE  /\ DOMAIN count \in SUBSET Conns /\ \A c \in Conns : Counted(c) \in Nat
         /\ DOMAIN file.last \in SUBSET Conns /\ IsFiniteSet(DOMAIN file.last)
         /\ DOMAIN trk.last \in SUBSET Conns /\ IsFiniteSet(DOMAIN trk.last)
         /\ \A c \in DOMAIN trk.last : trk.last[c] \in Nat /\ Grown(c) \in Nat
<1>1. DOMAIN count \in SUBSET Conns /\ \A c \in DOMAIN count : count[c] \in Nat
  BY DEF SshOK, Table
<1>2. \A c \in Conns : Counted(c) \in Nat
  BY <1>1 DEF Counted
<1>3. DOMAIN file.last \in SUBSET Conns
  BY DEF SshOK, Table
<1>4. DOMAIN trk.last \in SUBSET Conns /\ \A c \in DOMAIN trk.last : trk.last[c] \in Nat
  BY DEF SshOK, Table
<1>5. \A c \in DOMAIN trk.last : Grown(c) \in Nat
  BY <1>2, <1>4 DEF Grown
<1> QED BY <1>1, <1>2, <1>3, <1>4, <1>5, ConnsAssumption, FS_Subset

\* get_ssh_traffic: the total and the live counters.
LEMMA TrafficNat ==
  ASSUME AccountOK, SshOK
  PROVE  Live \in Nat /\ Traffic \in Nat
<1> DEFINE S == DOMAIN file.last  F == [c \in S |-> Counted(c)]
<1>1. S \in SUBSET Conns /\ IsFiniteSet(S) /\ \A c \in Conns : Counted(c) \in Nat
  BY CountNat
<1>2. \A c \in S : F[c] \in Nat
  BY <1>1
<1>3. Sum(F, S) \in Nat
  <2> HIDE DEF F, S
  <2> QED BY <1>1, <1>2, SumNat
<1>4. Total(Counted, S) = Sum(F, S)
  <2> HIDE DEF S
  <2> QED BY <1>1, TotalCounted
<1>5. meta.used \in Nat
  BY DEF AccountOK, Metas
<1> QED BY <1>3, <1>4, <1>5 DEF Live, Traffic

\* What a flush bills is a number, and the sum of what each counter grew by.
LEMMA GrownNat ==
  ASSUME SshOK
  PROVE  /\ Total(Grown, DOMAIN trk.last) \in Nat
         /\ Total(Grown, DOMAIN trk.last) = Sum([c \in DOMAIN trk.last |-> Grown(c)], DOMAIN trk.last)
<1> DEFINE S == DOMAIN trk.last  F == [c \in S |-> Grown(c)]
<1>1. IsFiniteSet(S) /\ \A c \in S : Grown(c) \in Nat
  BY CountNat
<1>2. \A c \in S : F[c] \in Nat
  BY <1>1
<1>3. Sum(F, S) \in Nat
  <2> HIDE DEF F, S
  <2> QED BY <1>1, <1>2, SumNat
<1>4. Total(Grown, S) = Sum(F, S)
  <2> HIDE DEF S
  <2> QED BY <1>1, TotalGrown
<1> QED BY <1>3, <1>4

\* What a poll bills is a number, and the sum of what ss reports.
LEMMA SeedNat ==
  ASSUME SshOK, NEW S \in SUBSET Conns
  PROVE  /\ IsFiniteSet(S) /\ \A c \in Conns : Seed(c) \in Nat
         /\ Total(Seed, S) \in Nat /\ Total(Seed, S) = Sum([c \in S |-> Seed(c)], S)
<1> DEFINE F == [c \in S |-> Seed(c)]
<1>1. IsFiniteSet(S) /\ \A c \in Conns : Seed(c) \in Nat
  BY ConnsAssumption, FS_Subset DEF SshOK, Seed
<1>2. \A c \in S : F[c] \in Nat
  BY <1>1
<1>3. Sum(F, S) \in Nat
  <2> HIDE DEF F
  <2> QED BY <1>1, <1>2, SumNat
<1>4. Total(Seed, S) = Sum(F, S)
  BY <1>1, TotalSeed
<1> QED BY <1>1, <1>3, <1>4

-----------------------------------------------------------------------------
\* What the deciding commands replace their script by.

\* The one command of a script that decides.
LEMMA Alone ==
  ASSUME TodoOK, NEW p \in Procs, NEW k \in Ends, Goes(p, k)
  PROVE  \E e \in Steps :
           /\ e = Head(todo[p]) /\ e[1] = k /\ Elems(todo[p]) = {e} /\ todo[p] # <<>>
           /\ \A s : Script(s) /\ Then(p, s) => Replaced(p, s)
<1>1. PICK e \in Steps : \E t :
        /\ e = Head(todo[p]) /\ e[1] = k /\ t = Tail(todo[p]) /\ Script(t)
        /\ Elems(todo[p]) = {e} \cup Elems(t) /\ todo[p] # <<>>
        /\ Then(p, <<>>) => Replaced(p, t)
        /\ k \in Ends => t = <<>> /\ \A s : Script(s) /\ Then(p, s) => Replaced(p, s)
  BY Runs, Zenon
<1>2. PICK t :
        /\ e = Head(todo[p]) /\ e[1] = k /\ t = Tail(todo[p]) /\ Script(t)
        /\ Elems(todo[p]) = {e} \cup Elems(t) /\ todo[p] # <<>>
        /\ Then(p, <<>>) => Replaced(p, t)
        /\ k \in Ends => t = <<>> /\ \A s : Script(s) /\ Then(p, s) => Replaced(p, s)
  BY <1>1, Zenon
<1>3. t = <<>> /\ Elems(<<>>) = {}
  BY <1>2, ElemsOf, Zenon
<1>4. Elems(todo[p]) = {e}
  BY <1>2, <1>3
<1> QED BY <1>2, <1>4, Zenon

\* Whom to admit is read, and the installation follows.
LEMMA CollectDoes ==
  ASSUME TypeOK, NEW p \in Procs, Collect(p)
  PROVE  /\ Elems(todo[p]) = {<<"collect">>} /\ todo[p] # <<>>
         /\ \E s : Script(s) /\ Replaced(p, s) /\ s = <<<<"install", Active>>>>
<1>1. Goes(p, "collect") /\ "collect" \in Ends /\ TodoOK
  BY DEF Collect, Ends, Stages, Uses, TypeOK
<1>2. PICK e \in Steps :
        /\ e = Head(todo[p]) /\ e[1] = "collect" /\ Elems(todo[p]) = {e} /\ todo[p] # <<>>
        /\ \A s : Script(s) /\ Then(p, s) => Replaced(p, s)
  BY <1>1, Alone, Zenon
<1>3. e[1] = "collect" /\ e \in Steps
  BY <1>2, Zenon
<1>4. e = <<"collect">>
  BY <1>3 DEF Steps, Uses
<1>5. Active \in BOOLEAN
  BY DEF TypeOK, AccountOK, Metas, Active
<1>6. Script(<<<<"install", Active>>>>)
  BY <1>5, KnownSteps, OneStep
<1>7. Then(p, <<<<"install", Active>>>>)
  BY DEF Collect
<1> QED BY <1>2, <1>4, <1>6, <1>7, Zenon

\* The commands rewrite, renewed and requoted.
LEMMA RenewalDoes ==
  ASSUME TypeOK, NEW p \in Procs, NEW k \in {"rewrite", "renewed", "requoted"}, NEW s, Script(s),
         Goes(p, k), Then(p, s)
  PROVE  Elems(todo[p]) = {<<k>>} /\ todo[p] # <<>> /\ Replaced(p, s)
<1>1. k \in Ends /\ TodoOK
  BY DEF Ends, Stages, Uses, TypeOK
<1>2. PICK e \in Steps :
        /\ e = Head(todo[p]) /\ e[1] = k /\ Elems(todo[p]) = {e} /\ todo[p] # <<>>
        /\ \A z : Script(z) /\ Then(p, z) => Replaced(p, z)
  BY <1>1, Alone, Zenon
<1>3. e[1] = k /\ e \in Steps
  BY <1>2, Zenon
<1>4. e = <<k>>
  BY <1>3 DEF Steps, Uses
<1> QED BY <1>2, <1>4, Zenon

\* A command put before a script.
LEMMA TailOfOne ==
  ASSUME NEW a \in Steps, NEW t \in Seq(Steps)
  PROVE  <<a>> \o t # <<>> /\ Tail(<<a>> \o t) = t
<1> DEFINE s == <<a>> \o t  n == Len(t)
<1>1. <<a>> \in Seq(Steps) /\ Len(<<a>>) = 1 /\ n \in Nat
  BY LenProperties
<1>2. s \in Seq(Steps) /\ Len(s) = 1 + n /\ \A i \in 1..n : s[1 + i] = t[i]
  BY <1>1, ConcatProperties
<1> HIDE DEF s
<1>3. s # <<>>
  BY <1>1, <1>2
<1>4. PICK m \in Nat \ {0}, u \in Seq(Steps) :
        /\ u = Tail(s) /\ Len(s) = m /\ Len(u) = m - 1 /\ Head(s) = s[1] /\ s[1] \in Steps
        /\ \A i \in 1..(m - 1) : u[i] = s[i + 1]
  BY <1>2, <1>3, TailOf
<1>5. Len(u) = n /\ Len(s) = m /\ m = 1 + n
  BY <1>1, <1>2, <1>4
<1>6. \A i \in 1..n : u[i] = t[i]
  <2> SUFFICES ASSUME NEW i \in 1..n PROVE u[i] = t[i]
    OBVIOUS
  <2>1. i \in 1..(m - 1) /\ i + 1 = 1 + i
    BY <1>1, <1>5
  <2> QED BY <1>2, <1>4, <2>1
<1>7. u = t
  BY <1>1, <1>5, <1>6, SeqEqual
<1> QED BY <1>3, <1>4, <1>7, Zenon DEF s

\* A measure begins with the query;
LEMMA MeasureDoes ==
  ASSUME TypeOK, NEW p \in Procs, Measure(p)
  PROVE  \E r \in {raw, 0}, c \in Uses, q \in Nat : \E s :
           /\ Elems(todo[p]) = {<<"measure", c, q>>} /\ todo[p] # <<>>
           /\ Script(s) /\ Replaced(p, s) /\ Elems(s) = {<<"tally", c, q, r>>}
           /\ sole' = IF r = raw /\ (\A z \in Procs \ {p} : ~Measuring(z)) THEN {p} ELSE {}
<1>1. Goes(p, "measure") /\ "measure" \in Ends /\ TodoOK
  BY DEF Measure, Ends, Stages, Uses, TypeOK
<1>2. PICK e \in Steps :
        /\ e = Head(todo[p]) /\ e[1] = "measure" /\ Elems(todo[p]) = {e} /\ todo[p] # <<>>
        /\ \A s : Script(s) /\ Then(p, s) => Replaced(p, s)
  BY <1>1, Alone, Zenon
<1>3. e[1] = "measure" /\ e \in Steps
  BY <1>2, Zenon
<1>4. PICK c \in Uses, q \in Nat : e = <<"measure", c, q>>
  BY <1>3, StepKinds
<1>5. PICK r \in {raw, 0} :
        /\ sole' = IF r = raw /\ (\A z \in Procs \ {p} : ~Measuring(z)) THEN {p} ELSE {}
        /\ Then(p, <<<<"tally", Head(todo[p])[2], Head(todo[p])[3], r>>>>)
  BY Zenon DEF Measure
<1>6. r \in Nat
  BY DEF TypeOK, AccountOK
<1>7. <<"tally", c, q, r>> \in Steps
  BY <1>6, KnownSteps
<1>8. PICK s : s = <<<<"tally", c, q, r>>>>
  OBVIOUS
<1>9. Script(s) /\ Elems(s) = {<<"tally", c, q, r>>}
  BY <1>7, <1>8, OneStep, ElemsOf
<1>10. Then(p, s)
  <2>1. Head(todo[p])[2] = c /\ Head(todo[p])[3] = q
    BY <1>2, <1>4
  <2> QED BY <1>5, <1>8, <2>1
<1> QED BY <1>2, <1>4, <1>5, <1>9, <1>10, Zenon

\* the total is read next, if there is an account,
LEMMA TallyDoes ==
  ASSUME TypeOK, NEW p \in Procs, Tally(p)
  PROVE  \E c \in Uses, q \in Nat, r \in Nat : \E s :
           /\ Elems(todo[p]) = {<<"tally", c, q, r>>} /\ todo[p] # <<>>
           /\ Script(s) /\ Replaced(p, s)
           /\ Elems(s) = IF meta.here THEN {<<"grow", c, q, r, meta.used>>} ELSE {<<c, q, r>>}
<1>1. Goes(p, "tally") /\ "tally" \in Ends /\ TodoOK
  BY DEF Tally, Ends, Stages, TypeOK
<1>2. PICK e \in Steps :
        /\ e = Head(todo[p]) /\ e[1] = "tally" /\ Elems(todo[p]) = {e} /\ todo[p] # <<>>
        /\ \A s : Script(s) /\ Then(p, s) => Replaced(p, s)
  BY <1>1, Alone, Zenon
<1>3. e[1] = "tally" /\ e \in Steps
  BY <1>2, Zenon
<1>4. PICK c \in Uses, q \in Nat, r \in Nat : e = <<"tally", c, q, r>>
  BY <1>3, StepKinds
<1>5. PICK s : s = IF meta.here THEN <<<<"grow", c, q, r, meta.used>>>> ELSE <<<<c, q, r>>>>
  OBVIOUS
<1>6. Then(p, s)
  <2>1. Head(todo[p])[2] = c /\ Head(todo[p])[3] = q /\ Head(todo[p])[4] = r
    BY <1>2, <1>4
  <2> QED BY <1>5, <2>1 DEF Tally
<1>7. meta.used \in Nat
  BY DEF TypeOK, AccountOK, Metas
<1>8. <<"grow", c, q, r, meta.used>> \in Steps /\ <<c, q, r>> \in Steps
  BY <1>7, KnownSteps
<1>9. Script(s) /\ Elems(s) = IF meta.here THEN {<<"grow", c, q, r, meta.used>>} ELSE {<<c, q, r>>}
  BY <1>5, <1>8, OneStep, ElemsOf
<1> QED BY <1>2, <1>4, <1>6, <1>9, Zenon

\* then the last value: the total and the counter are written before the decision,
LEMMA GrowDoes ==
  ASSUME TypeOK, NEW p \in Procs, Grow(p)
  PROVE  \E c \in Uses, q \in Nat, r \in Nat, u \in Nat, d \in Steps : \E s :
           /\ Elems(todo[p]) = {<<"grow", c, q, r, u>>} /\ todo[p] # <<>>
           /\ Script(s) /\ Replaced(p, s) /\ Growth(r) \in Nat
           /\ Elems(s) = (IF Growth(r) > 0 THEN {Set("used", u + Growth(r))} ELSE {}) \cup {Set("last", r), d}
           /\ d = <<"first", c, q, r>> \/ \E n \in Nat : d = <<c, q, n>>
           /\ slips' = IF p \in sole THEN slips ELSE slips + 1
<1>1. Goes(p, "grow") /\ "grow" \in Ends /\ TodoOK
  BY DEF Grow, Ends, Stages, TypeOK
<1>2. PICK e \in Steps :
        /\ e = Head(todo[p]) /\ e[1] = "grow" /\ Elems(todo[p]) = {e} /\ todo[p] # <<>>
        /\ \A s : Script(s) /\ Then(p, s) => Replaced(p, s)
  BY <1>1, Alone, Zenon
<1>3. e[1] = "grow" /\ e \in Steps
  BY <1>2, Zenon
<1>4. PICK c \in Uses, q \in Nat, r \in Nat, u \in Nat : e = <<"grow", c, q, r, u>>
  BY <1>3, StepKinds
<1>5. PICK n : n = u + Growth(r)
  OBVIOUS
<1>6. PICK d : d = IF n = 0 /\ r > 0 THEN <<"first", c, q, r>> ELSE <<c, q, n>>
  OBVIOUS
<1>7. meta.last \in Nat /\ Growth(r) \in Nat /\ n \in Nat
  BY <1>5 DEF TypeOK, AccountOK, Metas, Growth
<1> DEFINE A == IF Growth(r) > 0 THEN <<Set("used", n)>> ELSE <<>>
           B == <<Set("last", r), d>>
<1>8. Then(p, A \o B)
  <2>1. Head(todo[p])[2] = c /\ Head(todo[p])[3] = q /\ Head(todo[p])[4] = r /\ Head(todo[p])[5] = u
    BY <1>2, <1>4
  <2> QED BY <1>5, <1>6, <2>1 DEF Grow
<1>9. d \in Steps /\ (d = <<"first", c, q, r>> \/ \E m \in Nat : d = <<c, q, m>>)
  <2>1. <<"first", c, q, r>> \in Steps /\ <<c, q, n>> \in Steps
    BY <1>7, KnownSteps
  <2> QED BY <1>6, <1>7, <2>1
<1>10. Plain(A) /\ Elems(A) = IF Growth(r) > 0 THEN {Set("used", n)} ELSE {}
  <2>1. Set("used", n) \in Steps /\ Set("used", n)[1] \notin Ends
    BY <1>7, KnownSteps
  <2> QED BY <2>1, OneStep, NoSteps, ElemsOf
<1>11. Script(B) /\ Elems(B) = {Set("last", r), d}
  <2>1. Set("last", r) \in Steps /\ Set("last", r)[1] \notin Ends
    BY KnownSteps
  <2> QED BY <1>9, <2>1, TwoSteps, ElemsOf
<1> HIDE DEF A, B
<1>12. Script(A \o B) /\ Elems(A \o B) = Elems(A) \cup Elems(B)
  BY <1>10, <1>11, Parts
<1>13. PICK s : s = A \o B
  OBVIOUS
<1>14. /\ Script(s) /\ Then(p, s)
       /\ Elems(s) = (IF Growth(r) > 0 THEN {Set("used", u + Growth(r))} ELSE {}) \cup {Set("last", r), d}
  BY <1>5, <1>8, <1>10, <1>11, <1>12, <1>13
<1>15. slips' = IF p \in sole THEN slips ELSE slips + 1
  BY DEF Grow
<1> QED BY <1>2, <1>4, <1>7, <1>9, <1>14, <1>15, Zenon

\* and a counter without a total is written as the total.
LEMMA FirstDoes ==
  ASSUME TypeOK, NEW p \in Procs, First(p)
  PROVE  \E c \in Uses, q \in Nat, r \in Nat : \E s :
           /\ Elems(todo[p]) = {<<"first", c, q, r>>} /\ todo[p] # <<>>
           /\ Script(s) /\ Replaced(p, s)
           /\ Elems(s) = (IF meta.used = 0 THEN {Set("used", r)} ELSE {}) \cup {<<c, q, r>>}
<1>1. Goes(p, "first") /\ "first" \in Ends /\ TodoOK
  BY DEF First, Ends, Stages, TypeOK
<1>2. PICK e \in Steps :
        /\ e = Head(todo[p]) /\ e[1] = "first" /\ Elems(todo[p]) = {e} /\ todo[p] # <<>>
        /\ \A s : Script(s) /\ Then(p, s) => Replaced(p, s)
  BY <1>1, Alone, Zenon
<1>3. e[1] = "first" /\ e \in Steps
  BY <1>2, Zenon
<1>4. PICK c \in Uses, q \in Nat, r \in Nat : e = <<"first", c, q, r>>
  BY <1>3, StepKinds
<1> DEFINE A == IF meta.used = 0 THEN <<Set("used", r)>> ELSE <<>>
           B == <<<<c, q, r>>>>
<1>5. Then(p, A \o B)
  <2>1. Head(todo[p])[2] = c /\ Head(todo[p])[3] = q /\ Head(todo[p])[4] = r
    BY <1>2, <1>4
  <2> QED BY <2>1 DEF First
<1>6. Plain(A) /\ Elems(A) = IF meta.used = 0 THEN {Set("used", r)} ELSE {}
  <2>1. Set("used", r) \in Steps /\ Set("used", r)[1] \notin Ends
    BY KnownSteps
  <2> QED BY <2>1, OneStep, NoSteps, ElemsOf
<1>7. Script(B) /\ Elems(B) = {<<c, q, r>>}
  <2>1. <<c, q, r>> \in Steps
    BY KnownSteps
  <2> QED BY <2>1, OneStep, ElemsOf
<1> HIDE DEF A, B
<1>8. Script(A \o B) /\ Elems(A \o B) = Elems(A) \cup Elems(B)
  BY <1>6, <1>7, Parts
<1>9. PICK s : s = A \o B
  OBVIOUS
<1>10. /\ Script(s) /\ Then(p, s)
       /\ Elems(s) = (IF meta.used = 0 THEN {Set("used", r)} ELSE {}) \cup {<<c, q, r>>}
  BY <1>5, <1>6, <1>7, <1>8, <1>9
<1> QED BY <1>2, <1>4, <1>10, Zenon

\* An account over its quota is to be locked, a held one measured again or judged.
LEMMA JudgeDoes ==
  ASSUME TypeOK, NEW p \in Procs, Judge(p)
  PROVE  \E q \in Nat, n \in Nat : \E s :
           /\ Elems(todo[p]) = {<<"judge", q, n>>} /\ todo[p] # <<>>
           /\ Script(s) /\ Replaced(p, s)
           /\ \/ Elems(s) = {} \/ Elems(s) = {<<"lock", "quota_hit">>}
              \/ proto \in Metered /\ Elems(s) = {<<"measure", "free", q>>}
              \/ \E m \in Nat : Elems(s) = {<<"free", q, m>>}
<1>1. Goes(p, "judge") /\ "judge" \in Ends /\ TodoOK /\ AccountOK /\ SshOK
  BY DEF Judge, Ends, Stages, Uses, TypeOK
<1>2. PICK e \in Steps :
        /\ e = Head(todo[p]) /\ e[1] = "judge" /\ Elems(todo[p]) = {e} /\ todo[p] # <<>>
        /\ \A s : Script(s) /\ Then(p, s) => Replaced(p, s)
  BY <1>1, Alone, Zenon
<1>3. e[1] = "judge" /\ e \in Steps
  BY <1>2, Zenon
<1>4. PICK q \in Nat, n \in Nat : e = <<"judge", q, n>>
  BY <1>3, StepKinds DEF Uses
<1>5. Head(todo[p])[2] = q /\ Head(todo[p])[3] = n
  BY <1>2, <1>4
<1> DEFINE s == IF Over(q, n) THEN <<<<"lock", "quota_hit">>>>
                ELSE IF ~Held THEN <<>>
                ELSE IF proto \in Metered /\ q > 0 THEN <<<<"measure", "free", q>>>>
                ELSE <<<<"free", q, Traffic>>>>
<1>6. Then(p, s)
  BY <1>5 DEF Judge
<1>7. Traffic \in Nat
  BY <1>1, TrafficNat
<1>8. /\ Script(<<>>) /\ Elems(<<>>) = {}
      /\ Script(<<<<"lock", "quota_hit">>>>) /\ Elems(<<<<"lock", "quota_hit">>>>) = {<<"lock", "quota_hit">>}
      /\ Script(<<<<"measure", "free", q>>>>) /\ Elems(<<<<"measure", "free", q>>>>) = {<<"measure", "free", q>>}
      /\ Script(<<<<"free", q, Traffic>>>>) /\ Elems(<<<<"free", q, Traffic>>>>) = {<<"free", q, Traffic>>}
  <2>1. /\ <<"lock", "quota_hit">> \in Steps /\ <<"measure", "free", q>> \in Steps
        /\ <<"free", q, Traffic>> \in Steps
    BY <1>7, KnownSteps DEF Uses
  <2> QED BY <2>1, OneStep, NoSteps, ElemsOf, Zenon
<1>9. /\ Script(s)
      /\ \/ Elems(s) = {} \/ Elems(s) = {<<"lock", "quota_hit">>}
         \/ proto \in Metered /\ Elems(s) = {<<"measure", "free", q>>}
         \/ \E m \in Nat : Elems(s) = {<<"free", q, m>>}
  BY <1>7, <1>8
<1> HIDE DEF s
<1>10. Elems(todo[p]) = {<<"judge", q, n>>} /\ todo[p] # <<>> /\ Script(s) /\ Replaced(p, s)
  BY <1>2, <1>4, <1>6, <1>9, Zenon
<1>11. \E z : /\ Elems(todo[p]) = {<<"judge", q, n>>} /\ todo[p] # <<>>
              /\ Script(z) /\ Replaced(p, z)
              /\ \/ Elems(z) = {} \/ Elems(z) = {<<"lock", "quota_hit">>}
                 \/ proto \in Metered /\ Elems(z) = {<<"measure", "free", q>>}
                 \/ \E m \in Nat : Elems(z) = {<<"free", q, m>>}
  BY <1>9, <1>10
<1> QED BY <1>11, Zenon

\* An account is locked once.
LEMMA LockDoes ==
  ASSUME TypeOK, NEW p \in Procs, Lock(p)
  PROVE  \E why \in {"quota_hit", "exp_lock"} : \E s :
           /\ Elems(todo[p]) = {<<"lock", why>>} /\ todo[p] # <<>>
           /\ Script(s) /\ Replaced(p, s)
           /\ s = IF meta.locked THEN <<>> ELSE LockFor(why)
<1>1. Goes(p, "lock") /\ "lock" \in Ends /\ TodoOK /\ proto \in Protos
  BY DEF Lock, Ends, Stages, Uses, TypeOK, AccountOK
<1>2. PICK e \in Steps :
        /\ e = Head(todo[p]) /\ e[1] = "lock" /\ Elems(todo[p]) = {e} /\ todo[p] # <<>>
        /\ \A s : Script(s) /\ Then(p, s) => Replaced(p, s)
  BY <1>1, Alone, Zenon
<1>3. e[1] = "lock" /\ e \in Steps
  BY <1>2, Zenon
<1>4. PICK why \in {"quota_hit", "exp_lock"} : e = <<"lock", why>>
  BY <1>3, StepKinds
<1>5. Head(todo[p])[2] = why
  BY <1>2, <1>4
<1> DEFINE s == IF meta.locked THEN <<>> ELSE LockFor(why)
<1>6. Then(p, s)
  BY <1>5 DEF Lock
<1>7. Script(s)
  BY <1>1, NoSteps, LockForSteps
<1>8. s = IF meta.locked THEN <<>> ELSE LockFor(why)
  OBVIOUS
<1> HIDE DEF s
<1> QED BY <1>2, <1>4, <1>6, <1>7, <1>8, Zenon

\* An account below its quota is let in.
LEMMA FreeDoes ==
  ASSUME TypeOK, NEW p \in Procs, Free(p)
  PROVE  \E q \in Nat, n \in Nat : \E s :
           /\ Elems(todo[p]) = {<<"free", q, n>>} /\ todo[p] # <<>>
           /\ Script(s) /\ Replaced(p, s) /\ (s = <<>> \/ s = Release)
<1>1. Goes(p, "free") /\ "free" \in Ends /\ TodoOK /\ proto \in Protos
  BY DEF Free, Ends, Stages, Uses, TypeOK, AccountOK
<1>2. PICK e \in Steps :
        /\ e = Head(todo[p]) /\ e[1] = "free" /\ Elems(todo[p]) = {e} /\ todo[p] # <<>>
        /\ \A s : Script(s) /\ Then(p, s) => Replaced(p, s)
  BY <1>1, Alone, Zenon
<1>3. e[1] = "free" /\ e \in Steps
  BY <1>2, Zenon
<1>4. PICK q \in Nat, n \in Nat : e = <<"free", q, n>>
  BY <1>3, StepKinds DEF Uses
<1>5. Then(p, <<>>) \/ Then(p, Release)
  BY DEF Free
<1>6. Script(<<>>) /\ Script(Release)
  BY <1>1, NoSteps, ReleaseSteps
<1>7. ASSUME NEW s, s = <<>> \/ s = Release, Then(p, s)
      PROVE  \E z : Script(z) /\ Replaced(p, z) /\ (z = <<>> \/ z = Release)
  <2>1. Script(s)
    BY <1>6, <1>7
  <2> QED BY <1>2, <1>7, <2>1, Zenon
<1>8. \E z : Script(z) /\ Replaced(p, z) /\ (z = <<>> \/ z = Release)
  BY <1>5, <1>7, Zenon
<1> QED BY <1>2, <1>4, <1>8, Zenon

-----------------------------------------------------------------------------
\* The calls that begin.

Begun(p, s) ==
  /\ Idle(p) /\ Script(s) /\ Replaced(p, s) /\ clean' = (clean /\ AtRest)
  /\ proto' = proto /\ meta' = meta /\ admitted' = admitted /\ raw' = raw
  /\ conn' = conn /\ count' = count /\ file' = file /\ trk' = trk
  /\ carried' = carried /\ slips' = slips /\ sole' = sole /\ calls' \in {calls, calls + 1}

\* --quota-enforce begins with a lock, a measure or a judgement,
LEMMA EnforceDoes ==
  ASSUME TypeOK, NEW p \in Procs, Enforce(p)
  PROVE  \E s : /\ Begun(p, s) /\ meta.here /\ p \in Crons
                /\ \/ Elems(s) = {<<"lock", "exp_lock">>}
                   \/ proto \in Metered /\ \E q \in Nat : Elems(s) = {<<"measure", "judge", q>>}
                   \/ \E q \in Nat, n \in Nat : Elems(s) = {<<"judge", q, n>>}
<1> DEFINE s == IF meta.past THEN <<<<"lock", "exp_lock">>>>
                ELSE IF proto \in Metered /\ meta.quota > 0 THEN <<<<"measure", "judge", meta.quota>>>>
                ELSE <<<<"judge", meta.quota, Traffic>>>>
<1>1. meta.quota \in Nat /\ Traffic \in Nat
  BY TrafficNat DEF TypeOK, AccountOK, Metas
<1>2. /\ Script(<<<<"lock", "exp_lock">>>>) /\ Elems(<<<<"lock", "exp_lock">>>>) = {<<"lock", "exp_lock">>}
      /\ \A q \in Nat : /\ Script(<<<<"measure", "judge", q>>>>)
                        /\ Elems(<<<<"measure", "judge", q>>>>) = {<<"measure", "judge", q>>}
      /\ \A q \in Nat, n \in Nat : /\ Script(<<<<"judge", q, n>>>>)
                                   /\ Elems(<<<<"judge", q, n>>>>) = {<<"judge", q, n>>}
  <2>1. /\ <<"lock", "exp_lock">> \in Steps
        /\ \A q \in Nat : <<"measure", "judge", q>> \in Steps /\ \A n \in Nat : <<"judge", q, n>> \in Steps
    BY KnownSteps DEF Uses
  <2> QED BY <2>1, OneStep, ElemsOf, Zenon
<1>3. /\ Script(s)
      /\ \/ Elems(s) = {<<"lock", "exp_lock">>}
         \/ proto \in Metered /\ \E q \in Nat : Elems(s) = {<<"measure", "judge", q>>}
         \/ \E q \in Nat, n \in Nat : Elems(s) = {<<"judge", q, n>>}
  BY <1>1, <1>2
<1>4. Enter(p, s)
  BY DEF Enforce
<1> HIDE DEF s
<1>5. Begun(p, s) /\ meta.here /\ p \in Crons
  BY <1>3, <1>4 DEF Enforce, Enter, Begun, Replaced, AtRest, ssh
<1> QED BY <1>3, <1>5

\* the SSH timer with a lock,
LEMMA ExpiryDoes ==
  ASSUME TypeOK, NEW p \in Procs, ExpiryEnforce(p)
  PROVE  Begun(p, ExpiryCall) /\ meta.here /\ proto = "ssh"
<1>1. Script(ExpiryCall)
  BY CallSteps
<1>2. Enter(p, ExpiryCall)
  BY DEF ExpiryEnforce, ExpiryCall
<1> QED BY <1>1, <1>2 DEF ExpiryEnforce, Enter, Begun, Replaced, AtRest, ssh

\* a call of the panel with its script,
LEMMA CallBegins ==
  ASSUME TypeOK, NEW p \in Procs, NEW s, Script(s), Call(p, s)
  PROVE  Begun(p, s) /\ p \in Admins
BY DEF Call, Enter, Begun, Replaced, AtRest, ssh

\* one of these.
LEMMA PanelDoes ==
  ASSUME TypeOK, NEW p \in Procs, Panel(p)
  PROVE  \E s :
    /\ Begun(p, s) /\ p \in Admins
    /\ \/ meta.here /\ ~meta.locked /\ s = LockCall
       \/ meta.here /\ meta.locked /\ s = UnlockCall
       \/ meta.here /\ Elems(s) = {<<"rewrite">>}
       \/ meta.here /\ proto \in Metered /\ Elems(s) = {<<"measure", "shown", 0>>}
       \/ meta.here /\ \E q \in Nat : Elems(s) = {Set("quota", q), <<"requoted">>}
       \/ meta.here /\ s = PasswordCall
       \/ meta.here /\ s = DeleteCall
       \/ ~meta.here /\ (proto = "ssh" => ~admitted) /\ \E q \in Nat : s = CreateCall(q)
<1>1. ASSUME LockUser(p) PROVE Begun(p, LockCall) /\ p \in Admins /\ meta.here /\ ~meta.locked
  BY <1>1, CallSteps, CallBegins DEF LockUser, LockCall
<1>2. ASSUME UnlockUser(p) PROVE Begun(p, UnlockCall) /\ p \in Admins /\ meta.here /\ meta.locked
  BY <1>2, CallSteps, CallBegins DEF UnlockUser, UnlockCall
<1>3. ASSUME RenewUser(p)
      PROVE  \E s : Begun(p, s) /\ p \in Admins /\ meta.here /\ Elems(s) = {<<"rewrite">>}
  <2>1. <<"rewrite">> \in Steps
    BY KnownSteps
  <2>2. Script(<<<<"rewrite">>>>) /\ Elems(<<<<"rewrite">>>>) = {<<"rewrite">>}
    BY <2>1, OneStep, ElemsOf, Zenon
  <2> QED BY <1>3, <2>2, CallBegins, Zenon DEF RenewUser
<1>4. ASSUME ListUsers(p)
      PROVE  \E s : /\ Begun(p, s) /\ p \in Admins /\ meta.here /\ proto \in Metered
                    /\ Elems(s) = {<<"measure", "shown", 0>>}
  <2>1. <<"measure", "shown", 0>> \in Steps
    BY KnownSteps DEF Uses
  <2>2. /\ Script(<<<<"measure", "shown", 0>>>>)
        /\ Elems(<<<<"measure", "shown", 0>>>>) = {<<"measure", "shown", 0>>}
    BY <2>1, OneStep, ElemsOf, Zenon
  <2> QED BY <1>4, <2>2, CallBegins, Zenon DEF ListUsers
<1>5. ASSUME SetUserQuota(p)
      PROVE  \E s : /\ Begun(p, s) /\ p \in Admins /\ meta.here
                    /\ \E q \in Nat : Elems(s) = {Set("quota", q), <<"requoted">>}
  <2>1. PICK q \in Quotas : Call(p, <<Set("quota", q), <<"requoted">>>>)
    BY <1>5, Zenon DEF SetUserQuota
  <2>2. q \in Nat
    BY QuotasAssumption
  <2>3. Set("quota", q) \in Steps /\ Set("quota", q)[1] \notin Ends /\ <<"requoted">> \in Steps
    BY <2>2, KnownSteps
  <2>4. /\ Script(<<Set("quota", q), <<"requoted">>>>)
        /\ Elems(<<Set("quota", q), <<"requoted">>>>) = {Set("quota", q), <<"requoted">>}
    BY <2>3, TwoSteps, ElemsOf, Zenon
  <2> QED BY <1>5, <2>1, <2>2, <2>4, CallBegins, Zenon DEF SetUserQuota
<1>6. ASSUME ChangePassword(p) PROVE Begun(p, PasswordCall) /\ p \in Admins /\ meta.here
  BY <1>6, CallSteps, CallBegins DEF ChangePassword, PasswordCall
<1>7. ASSUME DeleteUser(p) PROVE Begun(p, DeleteCall) /\ p \in Admins /\ meta.here
  BY <1>7, CallSteps, CallBegins DEF DeleteUser, DeleteCall
<1>8. ASSUME CreateUser(p)
      PROVE  \E s : /\ Begun(p, s) /\ p \in Admins /\ ~meta.here /\ (proto = "ssh" => ~admitted)
                    /\ \E q \in Nat : s = CreateCall(q)
  <2>1. PICK q \in Quotas : Call(p, CreateCall(q))
    BY <1>8 DEF CreateUser, CreateCall
  <2>2. q \in Nat
    BY QuotasAssumption
  <2>3. Begun(p, CreateCall(q)) /\ p \in Admins
    BY <2>1, <2>2, CallSteps, CallBegins
  <2> QED BY <1>8, <2>2, <2>3, Zenon DEF CreateUser
<1> QED BY <1>1, <1>2, <1>3, <1>4, <1>5, <1>6, <1>7, <1>8, Zenon DEF Panel

-----------------------------------------------------------------------------
\* Types.

LEMMA NewMetas == \A q \in Nat : NewMeta(q) \in Metas /\ [NewMeta(q) EXCEPT !.here = FALSE] \in Metas
BY DEF NewMeta, Metas

\* A command that is carried out leaves the rest of its script.
LEMMA SetFieldDoes ==
  ASSUME TypeOK, NEW p \in Procs, SetField(p)
  PROVE  \E e \in Steps : \E t :
           /\ Script(t) /\ Replaced(p, t) /\ Elems(todo[p]) = {e} \cup Elems(t) /\ todo[p] # <<>>
           /\ t = Tail(todo[p])
           /\ \/ \E f \in {"used", "last", "quota"}, n \in Nat :
                   e = Set(f, n) /\ meta' = IF meta.here THEN [meta EXCEPT ![f] = n] ELSE meta
              \/ \E f \in Flags, b \in BOOLEAN :
                   e = Set(f, b) /\ meta' = IF meta.here THEN [meta EXCEPT ![f] = b] ELSE meta
<1>1. Goes(p, "set") /\ TodoOK /\ Then(p, <<>>)
  BY DEF SetField, TypeOK
<1>2. PICK e \in Steps : \E t :
        /\ e = Head(todo[p]) /\ e[1] = "set" /\ t = Tail(todo[p]) /\ Script(t)
        /\ Elems(todo[p]) = {e} \cup Elems(t) /\ todo[p] # <<>>
        /\ Then(p, <<>>) => Replaced(p, t)
        /\ "set" \in Ends => t = <<>> /\ \A s : Script(s) /\ Then(p, s) => Replaced(p, s)
  BY <1>1, Runs, Zenon
<1>3. e \in Steps /\ e[1] = "set" /\ e = Head(todo[p])
  BY <1>2, Zenon
<1>4. meta' = IF meta.here THEN [meta EXCEPT ![e[2]] = e[3]] ELSE meta
  BY <1>3 DEF SetField
<1>5. \/ \E f \in {"used", "last", "quota"}, n \in Nat :
           e = Set(f, n) /\ meta' = IF meta.here THEN [meta EXCEPT ![f] = n] ELSE meta
      \/ \E f \in Flags, b \in BOOLEAN :
           e = Set(f, b) /\ meta' = IF meta.here THEN [meta EXCEPT ![f] = b] ELSE meta
  <2>1. ASSUME NEW f, NEW v, e = <<"set", f, v>>
        PROVE  e = Set(f, v) /\ meta' = IF meta.here THEN [meta EXCEPT ![f] = v] ELSE meta
    BY <1>4, <2>1 DEF Set
  <2> QED BY <1>3, <2>1, StepKinds
<1> QED BY <1>1, <1>2, <1>5, Zenon

\* _meta_set leaves a meta file.
LEMMA SetFieldType ==
  ASSUME TypeOK, NEW p \in Procs, SetField(p)
  PROVE  meta' \in Metas
<1>1. \/ \E f \in {"used", "last", "quota"}, n \in Nat :
           meta' = IF meta.here THEN [meta EXCEPT ![f] = n] ELSE meta
      \/ \E f \in Flags, b \in BOOLEAN :
           meta' = IF meta.here THEN [meta EXCEPT ![f] = b] ELSE meta
  BY SetFieldDoes, Zenon
<1>2. meta \in Metas
  BY DEF TypeOK, AccountOK
<1>3. ASSUME NEW f \in {"used", "last", "quota"}, NEW n \in Nat PROVE [meta EXCEPT ![f] = n] \in Metas
  <2>1. CASE f = "used"
    BY <1>2, <2>1 DEF Metas
  <2>2. CASE f = "last"
    BY <1>2, <2>2 DEF Metas
  <2>3. CASE f = "quota"
    BY <1>2, <2>3 DEF Metas
  <2> QED BY <2>1, <2>2, <2>3
<1>4. ASSUME NEW f \in Flags, NEW b \in BOOLEAN PROVE [meta EXCEPT ![f] = b] \in Metas
  <2>1. CASE f = "locked"
    BY <1>2, <2>1 DEF Metas
  <2>2. CASE f = "quota_hit"
    BY <1>2, <2>2 DEF Metas
  <2>3. CASE f = "exp_lock"
    BY <1>2, <2>3 DEF Metas
  <2> QED BY <2>1, <2>2, <2>3 DEF Flags
<1> QED BY <1>1, <1>2, <1>3, <1>4

\* The commands that carry one value, or none.
LEMMA CommandDoes ==
  ASSUME TypeOK, NEW p \in Procs, NEW k \in {"passwd", "install", "kill", "unlink", "write_meta", "shown"},
         Goes(p, k), Then(p, <<>>)
  PROVE  \E e \in Steps : \E t :
           /\ Script(t) /\ Replaced(p, t) /\ Elems(todo[p]) = {e} \cup Elems(t) /\ todo[p] # <<>>
           /\ e = Head(todo[p]) /\ e[1] = k /\ t = Tail(todo[p])
           /\ k \in Ends => t = <<>>
           /\ k \in {"passwd", "install"} => e[2] \in BOOLEAN /\ e = <<k, e[2]>>
           /\ k = "write_meta" => e[2] \in Nat /\ e = <<k, e[2]>>
           /\ k \in {"kill", "unlink"} => e = <<k>>
<1>1. TodoOK
  BY DEF TypeOK
<1>2. PICK e \in Steps : \E t :
        /\ e = Head(todo[p]) /\ e[1] = k /\ t = Tail(todo[p]) /\ Script(t)
        /\ Elems(todo[p]) = {e} \cup Elems(t) /\ todo[p] # <<>>
        /\ Then(p, <<>>) => Replaced(p, t)
        /\ k \in Ends => t = <<>> /\ \A s : Script(s) /\ Then(p, s) => Replaced(p, s)
  BY <1>1, Runs, Zenon
<1>3. e \in Steps /\ e[1] = k
  BY <1>2, Zenon
<1>4. /\ k \in {"passwd", "install"} => e[2] \in BOOLEAN /\ e = <<k, e[2]>>
      /\ k = "write_meta" => e[2] \in Nat /\ e = <<k, e[2]>>
  BY <1>3, StepKinds
<1>5. k \in {"kill", "unlink"} => e = <<k>>
  BY <1>3 DEF Steps, Uses
<1> QED BY <1>2, <1>4, <1>5, Zenon

\* The same in short: what is left is the tail.
LEMMA CommandLeaves ==
  ASSUME TypeOK, NEW p \in Procs, NEW k \in {"passwd", "install", "kill", "unlink", "write_meta", "shown"},
         Goes(p, k), Then(p, <<>>)
  PROVE  \E e \in Steps : \E t :
           /\ Script(t) /\ Replaced(p, t) /\ Elems(todo[p]) = {e} \cup Elems(t) /\ todo[p] # <<>>
           /\ e[1] = k /\ t = Tail(todo[p])
<1>1. PICK e \in Steps : \E t :
        /\ Script(t) /\ Replaced(p, t) /\ Elems(todo[p]) = {e} \cup Elems(t) /\ todo[p] # <<>>
        /\ e = Head(todo[p]) /\ e[1] = k /\ t = Tail(todo[p])
        /\ k \in Ends => t = <<>>
        /\ k \in {"passwd", "install"} => e[2] \in BOOLEAN /\ e = <<k, e[2]>>
        /\ k = "write_meta" => e[2] \in Nat /\ e = <<k, e[2]>>
        /\ k \in {"kill", "unlink"} => e = <<k>>
  BY CommandDoes, Zenon
<1>2. PICK t :
        /\ Script(t) /\ Replaced(p, t) /\ Elems(todo[p]) = {e} \cup Elems(t) /\ todo[p] # <<>>
        /\ e[1] = k /\ t = Tail(todo[p])
  BY <1>1
<1> QED BY <1>2

\* The types are kept by each command,
LEMMA CommandTypes ==
  ASSUME TypeOK, NEW p \in Procs, Command(p)
  PROVE  TypeOK'
<1>0. AccountOK /\ SshOK /\ TodoOK
  BY DEF TypeOK
<1>1. ASSUME NEW s, Script(s), Replaced(p, s) PROVE TodoOK'
  BY <1>0, <1>1, TodoKept
<1>2. ASSUME UNCHANGED <<proto, ssh>> PROVE SshOK'
  BY <1>0, <1>2 DEF SshOK, Table, ssh
<1>3. ASSUME SetField(p) PROVE TypeOK'
  <2>1. AccountOK'
    BY <1>0, <1>3, SetFieldType DEF SetField, AccountOK
  <2>2. \E s : Script(s) /\ Replaced(p, s)
    BY <1>3, SetFieldDoes, Zenon
  <2>3. UNCHANGED <<proto, ssh>>
    BY <1>3 DEF SetField
  <2> QED BY <1>1, <1>2, <2>1, <2>2, <2>3 DEF TypeOK
<1>4. ASSUME NEW k \in {"passwd", "install", "kill", "unlink", "write_meta", "shown"}, Goes(p, k), Then(p, <<>>)
      PROVE  /\ TodoOK'
             /\ k \in {"passwd", "install"} => Head(todo[p])[2] \in BOOLEAN
             /\ k = "write_meta" => Head(todo[p])[2] \in Nat
  BY <1>1, <1>4, CommandDoes, Zenon
<1>5. ASSUME Passwd(p) PROVE TypeOK'
  BY <1>0, <1>2, <1>4, <1>5 DEF Passwd, AccountOK, TypeOK
<1>6. ASSUME Install(p) PROVE TypeOK'
  BY <1>0, <1>2, <1>4, <1>6 DEF Install, AccountOK, TypeOK
<1>7. ASSUME KillConns(p) PROVE TypeOK'
  <2>1. TodoOK' /\ AccountOK'
    BY <1>0, <1>4, <1>7 DEF KillConns, AccountOK
  <2>2. conn' \in [Conns -> [is : {"none", "open", "closed"}, sent : Nat]]
    BY <1>0, <1>7 DEF KillConns, SshOK
  <2>3. UNCHANGED <<proto, count, file, trk>>
    BY <1>7 DEF KillConns
  <2> QED BY <1>0, <2>1, <2>2, <2>3 DEF SshOK, Table, TypeOK
<1>22. ReplacedUnder => slips' \in Nat
  BY <1>0 DEF ReplacedUnder, AccountOK
<1>8. ASSUME Unlink(p) PROVE TypeOK'
  <2>1. slips' \in Nat /\ meta' \in Metas
    BY <1>8, <1>22, NewMetas DEF Unlink
  <2> QED BY <1>0, <1>2, <1>4, <1>8, <2>1 DEF Unlink, AccountOK, TypeOK
<1>9. ASSUME WriteMeta(p) PROVE TypeOK'
  <2>1. slips' \in Nat /\ meta' \in Metas
    BY <1>4, <1>9, <1>22, NewMetas DEF WriteMeta
  <2> QED BY <1>0, <1>2, <1>4, <1>9, <2>1 DEF WriteMeta, AccountOK, TypeOK
<1>10. ASSUME Shown(p) PROVE TypeOK'
  BY <1>0, <1>2, <1>4, <1>10 DEF Shown, AccountOK, TypeOK
<1>11. ASSUME Collect(p) PROVE TypeOK'
  <2>1. \E s : Script(s) /\ Replaced(p, s)
    BY <1>11, CollectDoes, Zenon
  <2> QED BY <1>0, <1>1, <1>2, <1>11, <2>1 DEF Collect, AccountOK, TypeOK
<1>12. ASSUME Measure(p) PROVE TypeOK'
  <2>1. \E s : Script(s) /\ Replaced(p, s)
    BY <1>12, MeasureDoes, Zenon
  <2>2. sole' \in SUBSET Procs
    BY <1>12 DEF Measure
  <2> QED BY <1>0, <1>1, <1>2, <1>12, <2>1, <2>2 DEF Measure, AccountOK, TypeOK
<1>19. ASSUME Tally(p) PROVE TypeOK'
  <2>1. \E s : Script(s) /\ Replaced(p, s)
    BY <1>19, TallyDoes, Zenon
  <2> QED BY <1>0, <1>1, <1>2, <1>19, <2>1 DEF Tally, AccountOK, TypeOK
<1>20. ASSUME Grow(p) PROVE TypeOK'
  <2>1. \E s : Script(s) /\ Replaced(p, s)
    BY <1>20, GrowDoes, Zenon
  <2>2. slips' \in Nat
    BY <1>0, <1>20 DEF Grow, AccountOK
  <2> QED BY <1>0, <1>1, <1>2, <1>20, <2>1, <2>2 DEF Grow, AccountOK, TypeOK
<1>21. ASSUME First(p) PROVE TypeOK'
  <2>1. \E s : Script(s) /\ Replaced(p, s)
    BY <1>21, FirstDoes, Zenon
  <2> QED BY <1>0, <1>1, <1>2, <1>21, <2>1 DEF First, AccountOK, TypeOK
<1>13. ASSUME Judge(p) PROVE TypeOK'
  <2>1. \E s : Script(s) /\ Replaced(p, s)
    BY <1>13, JudgeDoes, Zenon
  <2> QED BY <1>0, <1>1, <1>2, <1>13, <2>1 DEF Judge, AccountOK, TypeOK
<1>14. ASSUME Lock(p) PROVE TypeOK'
  <2>1. \E s : Script(s) /\ Replaced(p, s)
    BY <1>14, LockDoes, Zenon
  <2> QED BY <1>0, <1>1, <1>2, <1>14, <2>1 DEF Lock, AccountOK, TypeOK
<1>15. ASSUME Free(p) PROVE TypeOK'
  <2>1. \E s : Script(s) /\ Replaced(p, s)
    BY <1>15, FreeDoes, Zenon
  <2> QED BY <1>0, <1>1, <1>2, <1>15, <2>1 DEF Free, AccountOK, TypeOK
<1>16. ASSUME Rewrite(p) PROVE TypeOK'
  <2>1. Script(KeptScript)
    BY <1>0, KeptScriptSteps DEF AccountOK
  <2>2. Replaced(p, KeptScript)
    BY <1>16, <2>1, RenewalDoes DEF Rewrite, KeptScript
  <2>3. NewMeta(meta.quota) \in Metas /\ slips' \in Nat
    BY <1>0, <1>16, <1>22, NewMetas DEF AccountOK, Metas, Rewrite
  <2> QED BY <1>0, <1>1, <1>2, <1>16, <2>1, <2>2, <2>3 DEF Rewrite, AccountOK, TypeOK
<1>17. ASSUME Renewed(p) PROVE TypeOK'
  <2>1. Script(RenewedScript)
    BY RenewedScriptSteps
  <2>2. Replaced(p, RenewedScript)
    BY <1>17, <2>1, RenewalDoes DEF Renewed, RenewedScript
  <2> QED BY <1>0, <1>1, <1>2, <1>17, <2>1, <2>2 DEF Renewed, AccountOK, TypeOK
<1>18. ASSUME Requoted(p) PROVE TypeOK'
  <2>1. Script(RequotedScript)
    BY RequotedScriptSteps
  <2>2. Replaced(p, RequotedScript)
    BY <1>18, <2>1, RenewalDoes DEF Requoted, RequotedScript
  <2> QED BY <1>0, <1>1, <1>2, <1>18, <2>1, <2>2 DEF Requoted, AccountOK, TypeOK
<1> QED BY <1>3, <1>5, <1>6, <1>7, <1>8, <1>9, <1>10, <1>11, <1>12, <1>13, <1>14, <1>15, <1>16, <1>17, <1>18, <1>19, <1>20, <1>21, Zenon
        DEF Command

\* by the beginning of a call,
LEMMA BegunTypes ==
  ASSUME TypeOK, NEW p \in Procs, NEW s, Begun(p, s)
  PROVE  TypeOK'
<1>1. TodoOK'
  BY TodoKept DEF Begun, TypeOK
<1>2. AccountOK'
  BY DEF Begun, TypeOK, AccountOK
<1>3. SshOK'
  BY DEF Begun, TypeOK, SshOK, Table
<1> QED BY <1>1, <1>2, <1>3 DEF TypeOK

\* The update of a record field.
LEMMA TornFile ==
  \A b, t, d : [[torn |-> b, last |-> t] EXCEPT !.torn = d] = [torn |-> d, last |-> t]
OBVIOUS

\* The state of the tracker, field by field.
LEMMA TrackerFields ==
  ASSUME SshOK
  PROVE  /\ file.torn \in BOOLEAN /\ Table(file.last) /\ Table(trk.last) /\ Table(NoConns)
         /\ trk.at \in {"off", "poll", "timers", "rebuild", "save"} /\ (proto # "ssh" => trk.at = "off")
         /\ [file EXCEPT !.torn = TRUE] = [torn |-> TRUE, last |-> file.last]
         /\ [trk EXCEPT !.at = "poll"] = [at |-> "poll", last |-> trk.last]
<1>1. Table(NoConns)
  <2>1. NoConns \in [{} -> Nat] /\ {} \in SUBSET Conns
    BY DEF NoConns
  <2> QED BY <2>1 DEF Table
<1>2. PICK b \in BOOLEAN : \E t : Table(t) /\ file = [torn |-> b, last |-> t]
  BY DEF SshOK
<1>3. PICK t : Table(t) /\ file = [torn |-> b, last |-> t]
  BY <1>2
<1>4. PICK a \in {"off", "poll", "timers", "rebuild", "save"} : \E u :
        Table(u) /\ trk = [at |-> a, last |-> u] /\ (proto # "ssh" => a = "off")
  BY DEF SshOK
<1>5. PICK u : Table(u) /\ trk = [at |-> a, last |-> u] /\ (proto # "ssh" => a = "off")
  BY <1>4
<1>6. /\ file.torn \in BOOLEAN /\ Table(file.last)
      /\ [file EXCEPT !.torn = TRUE] = [torn |-> TRUE, last |-> file.last]
  <2>1. file.torn \in BOOLEAN /\ file.last = t
    BY <1>3
  <2>2. [file EXCEPT !.torn = TRUE] = [torn |-> TRUE, last |-> t]
    BY <1>3, TornFile, Zenon
  <2> QED BY <1>3, <2>1, <2>2, Zenon
<1>7. /\ trk.at \in {"off", "poll", "timers", "rebuild", "save"} /\ (proto # "ssh" => trk.at = "off")
      /\ Table(trk.last) /\ [trk EXCEPT !.at = "poll"] = [at |-> "poll", last |-> trk.last]
  <2>1. trk.at = a /\ trk.last = u
    BY <1>5
  <2>2. [trk EXCEPT !.at = "poll"] = [at |-> "poll", last |-> u]
    BY <1>5
  <2> QED BY <1>5, <2>1, <2>2
<1> QED BY <1>1, <1>6, <1>7

\* Only an SSH account has a tracker at work.
LEMMA TrackerIsSsh ==
  ASSUME SshOK, trk.at # "off" \/ (\E label \in {"poll", "timers", "rebuild", "save"} : TrackAt(label))
  PROVE  proto = "ssh"
BY TrackerFields DEF TrackAt

\* by the start of the tracker,
LEMMA TrackStartTypes ==
  ASSUME TypeOK, TrackStart
  PROVE  TypeOK'
<1>1. AccountOK /\ SshOK /\ TodoOK
  BY DEF TypeOK
<1>2. Table(file.last) /\ Table(NoConns)
  BY <1>1, TrackerFields
<1> DEFINE t == IF file.torn THEN NoConns ELSE file.last
<1>3. trk' = [at |-> "poll", last |-> t] /\ proto' = "ssh" /\ Table(t)
  BY <1>2 DEF TrackStart, Tracking
<1> HIDE DEF t
<1>4. SshOK'
  BY <1>1, <1>3 DEF SshOK, Table, TrackStart
<1>5. AccountOK' /\ TodoOK'
  BY <1>1 DEF TrackStart, Tracking, AccountOK, TodoOK
<1> QED BY <1>4, <1>5 DEF TypeOK

\* by its poll of the journal,
LEMMA PollTypes ==
  ASSUME TypeOK, Poll
  PROVE  TypeOK'
<1>1. AccountOK /\ SshOK /\ TodoOK
  BY DEF TypeOK
<1>2. PICK new \in SUBSET {c \in Conns \ DOMAIN trk.last : conn[c].is # "none" /\ meta.here} :
        /\ meta' = [meta EXCEPT !.used = @ + Total(Seed, new)]
        /\ trk' = [at |-> "timers", last |-> [c \in DOMAIN trk.last \cup new |->
                                              IF c \in new THEN 0 ELSE trk.last[c]]]
        /\ count' = [c \in DOMAIN count \cup new |-> IF c \in new THEN 0 ELSE count[c]]
  BY DEF Poll
<1>3. new \in SUBSET Conns
  OBVIOUS
<1>4. Total(Seed, new) \in Nat
  BY <1>1, <1>3, SeedNat
<1>5. meta' \in Metas
  BY <1>1, <1>2, <1>4 DEF AccountOK, Metas
<1>6. proto = "ssh"
  BY <1>1, TrackerIsSsh DEF Poll
<1> DEFINE t == [c \in DOMAIN trk.last \cup new |-> IF c \in new THEN 0 ELSE trk.last[c]]
           u == [c \in DOMAIN count \cup new |-> IF c \in new THEN 0 ELSE count[c]]
<1>7. Table(t)
  <2>1. PICK D \in SUBSET Conns : trk.last \in [D -> Nat]
    BY <1>1, TrackerFields DEF Table
  <2>2. t \in [D \cup new -> Nat] /\ D \cup new \in SUBSET Conns
    BY <1>3, <2>1
  <2> QED BY <2>2 DEF Table
<1>8. Table(u)
  <2>1. PICK D \in SUBSET Conns : count \in [D -> Nat]
    BY <1>1 DEF SshOK, Table
  <2>2. u \in [D \cup new -> Nat] /\ D \cup new \in SUBSET Conns
    BY <1>3, <2>1
  <2> QED BY <2>2 DEF Table
<1>9. trk' = [at |-> "timers", last |-> t] /\ count' = u /\ conn' = conn /\ file' = file /\ proto' = proto
  BY <1>2 DEF Poll, Tracking
<1> HIDE DEF t, u
<1>10. Table(count)'
  BY <1>8, <1>9 DEF Table
<1>11. SshOK'
  BY <1>1, <1>6, <1>7, <1>9, <1>10 DEF SshOK, Table
<1>12. AccountOK' /\ TodoOK'
  BY <1>1, <1>5 DEF Poll, Tracking, AccountOK, TodoOK
<1> QED BY <1>11, <1>12 DEF TypeOK

\* by a flush,
LEMMA FlushTypes ==
  ASSUME TypeOK, Flush
  PROVE  TypeOK'
<1>1. AccountOK /\ SshOK /\ TodoOK
  BY DEF TypeOK
<1>2. Total(Grown, DOMAIN trk.last) \in Nat
  BY <1>1, GrownNat
<1>3. meta' \in Metas /\ clean' \in BOOLEAN
  BY <1>1, <1>2 DEF Flush, AccountOK, Metas
<1>4. proto = "ssh"
  BY <1>1, TrackerIsSsh DEF Flush
<1> DEFINE t == [c \in Followed |-> Remembered(c)]
<1>5. Table(t)
  <2>1. Followed \in SUBSET DOMAIN trk.last /\ DOMAIN trk.last \in SUBSET Conns
    BY <1>1, CountNat DEF Followed
  <2>2. \A c \in Followed : Remembered(c) \in Nat
    BY <1>1, <2>1, CountNat DEF Remembered
  <2>3. t \in [Followed -> Nat] /\ Followed \in SUBSET Conns
    BY <2>1, <2>2
  <2> QED BY <2>3 DEF Table
<1>6. trk' = [at |-> "rebuild", last |-> t] /\ UNCHANGED <<conn, count, file, proto>>
  BY DEF Flush
<1> HIDE DEF t
<1>7. SshOK'
  BY <1>1, <1>4, <1>5, <1>6 DEF SshOK, Table
<1>8. AccountOK'
  BY <1>1, <1>3 DEF Flush, AccountOK
<1>9. TodoOK'
  <2>1. todo' = todo \/ Replaced("tracker", TrackerLock)
    BY DEF Flush, Replaced
  <2>2. Script(TrackerLock) /\ "tracker" \in Procs
    BY TrackerLockSteps, PlainScript DEF Procs
  <2>3. Replaced("tracker", TrackerLock) => TodoOK'
    BY <1>1, <2>2, TodoKept
  <2>4. todo' = todo => TodoOK'
    BY <1>1 DEF TodoOK
  <2> QED BY <2>1, <2>3, <2>4
<1> QED BY <1>7, <1>8, <1>9 DEF TypeOK

\* by a new table and by the saving of the state,
LEMMA TableTypes ==
  ASSUME TypeOK, RebuildTable \/ Save
  PROVE  TypeOK'
<1>1. AccountOK /\ SshOK /\ TodoOK
  BY DEF TypeOK
<1>2. proto = "ssh" /\ proto' = proto
  BY <1>1, TrackerIsSsh DEF RebuildTable, Save, Tracking
<1>3. AccountOK' /\ TodoOK'
  BY <1>1 DEF RebuildTable, Save, Tracking, AccountOK, TodoOK
<1>4. ASSUME RebuildTable PROVE SshOK'
  <2> DEFINE t == [c \in DOMAIN trk.last |-> 0]
  <2>1. Table(t)
    <3>1. DOMAIN trk.last \in SUBSET Conns /\ t \in [DOMAIN trk.last -> Nat]
      BY <1>1, CountNat
    <3> QED BY <3>1 DEF Table
  <2>2. trk' = [at |-> "save", last |-> t] /\ count' = t /\ conn' = conn /\ file' = file
    BY <1>4 DEF RebuildTable
  <2> HIDE DEF t
  <2>3. Table(count)'
    BY <2>1, <2>2 DEF Table
  <2> QED BY <1>1, <1>2, <2>1, <2>2, <2>3 DEF SshOK, Table
<1>5. ASSUME Save PROVE SshOK'
  <2>1. PICK t : Table(t) /\ t = trk.last
    BY <1>1, TrackerFields
  <2>2. Table(NoConns)
    BY <1>1, TrackerFields
  <2>3. trk' = [at |-> "off", last |-> NoConns] \/ trk' = [at |-> "poll", last |-> t]
    BY <1>1, <1>5, <2>1, TrackerFields DEF Save, Off
  <2>4. file' = [torn |-> FALSE, last |-> t] /\ conn' = conn /\ count' = count
    BY <1>5, <2>1 DEF Save
  <2>5. \E b \in BOOLEAN : \E u : Table(u) /\ file' = [torn |-> b, last |-> u]
    BY <2>1, <2>4
  <2>6. \E a \in {"off", "poll", "timers", "rebuild", "save"} : \E u :
          Table(u) /\ trk' = [at |-> a, last |-> u]
    BY <2>1, <2>2, <2>3
  <2> QED BY <1>1, <1>2, <2>4, <2>5, <2>6 DEF SshOK, Table
<1> QED BY <1>3, <1>4, <1>5 DEF TypeOK

\* by crashes,
LEMMA CrashTypes ==
  ASSUME TypeOK, TrackCrash \/ Reboot
  PROVE  TypeOK'
<1>1. AccountOK /\ SshOK /\ TodoOK
  BY DEF TypeOK
<1>2. Table(NoConns) /\ trk' = [at |-> "off", last |-> NoConns]
  BY <1>1, TrackerFields DEF TrackCrash, Reboot, Off
<1>3. AccountOK'
  <2>1. ASSUME TrackCrash PROVE AccountOK'
    BY <1>1, <2>1 DEF TrackCrash, AccountOK
  <2>2. ASSUME Reboot PROVE AccountOK'
    BY <1>1, <2>2 DEF Reboot, AccountOK
  <2> QED BY <2>1, <2>2
<1>4. Script(<<>>) /\ <<>> \in Seq(Steps)
  BY NoSteps DEF Script
<1>5. ASSUME TrackCrash PROVE SshOK' /\ TodoOK'
  <2>1. Replaced("tracker", <<>>) /\ "tracker" \in Procs
    BY <1>5 DEF TrackCrash, Replaced, Procs
  <2>2. TodoOK'
    BY <1>1, <1>4, <2>1, TodoKept
  <2>3. \E b \in BOOLEAN : \E u : Table(u) /\ file' = [torn |-> b, last |-> u]
    <3>1. \E b \in BOOLEAN : \E u : Table(u) /\ file = [torn |-> b, last |-> u]
      BY <1>1 DEF SshOK
    <3>2. Table(file.last) /\ [file EXCEPT !.torn = TRUE] = [torn |-> TRUE, last |-> file.last]
      BY <1>1, TrackerFields
    <3>3. file' = file \/ file' = [file EXCEPT !.torn = TRUE]
      BY <1>5 DEF TrackCrash
    <3> QED BY <3>1, <3>2, <3>3
  <2>4. conn' = conn /\ count' = count /\ proto' = proto
    BY <1>5 DEF TrackCrash
  <2> QED BY <1>1, <1>2, <2>2, <2>3, <2>4 DEF SshOK, Table
<1>6. ASSUME Reboot PROVE SshOK' /\ TodoOK'
  <2>1. TodoOK'
    BY <1>4, <1>6 DEF Reboot, TodoOK
  <2>2. conn' \in [Conns -> [is : {"none", "open", "closed"}, sent : Nat]]
    BY <1>1, <1>6 DEF Reboot, SshOK
  <2>3. count' = NoConns /\ file' = file /\ proto' = proto
    BY <1>6 DEF Reboot
  <2>4. Table(count)'
    BY <1>2, <2>3 DEF Table
  <2> QED BY <1>1, <1>2, <2>1, <2>2, <2>3, <2>4 DEF SshOK, Table
<1> QED BY <1>3, <1>5, <1>6 DEF TypeOK

\* and by the users and the services.
LEMMA TrafficTypes ==
  ASSUME TypeOK,
         Carry \/ Restart \/ Expire \/ \E c \in Conns : Login(c) \/ Close(c) \/ CarrySsh(c)
  PROVE  TypeOK'
<1>1. AccountOK /\ SshOK /\ TodoOK
  BY DEF TypeOK
<1>2. ASSUME Carry \/ Restart \/ Expire PROVE TypeOK'
  <2>1. AccountOK'
    <3>1. ASSUME Expire PROVE meta' \in Metas
      BY <1>1, <3>1 DEF Expire, AccountOK, Metas
    <3> QED BY <1>1, <1>2, <3>1 DEF Carry, Restart, Expire, AccountOK
  <2>2. UNCHANGED <<proto, conn, count, file, trk, todo>>
    BY <1>2 DEF Carry, Restart, Expire, ssh
  <2> QED BY <1>1, <2>1, <2>2 DEF SshOK, Table, TodoOK, TypeOK
<1>3. ASSUME NEW c \in Conns, Login(c) \/ Close(c) \/ CarrySsh(c) PROVE TypeOK'
  <2>1. AccountOK'
    BY <1>1, <1>3 DEF Login, Close, CarrySsh, Tracking, AccountOK
  <2>2. UNCHANGED <<proto, file, trk, todo>>
    BY <1>3 DEF Login, Close, CarrySsh, Tracking
  <2>3. conn' \in [Conns -> [is : {"none", "open", "closed"}, sent : Nat]]
    BY <1>1, <1>3 DEF Login, Close, CarrySsh, SshOK
  <2>4. Table(count)'
    <3>1. PICK D \in SUBSET Conns : count \in [D -> Nat]
      BY <1>1 DEF SshOK, Table
    <3>2. count' \in [D -> Nat]
      BY <1>3, <3>1 DEF Login, Close, CarrySsh
    <3> QED BY <3>2 DEF Table
  <2> QED BY <1>1, <2>1, <2>2, <2>3, <2>4 DEF SshOK, Table, TodoOK, TypeOK
<1> QED BY <1>2, <1>3

\* The types hold at first,
LEMMA InitTypes == Init => TypeOK
<1> SUFFICES ASSUME Init PROVE TypeOK
  OBVIOUS
<1>1. PICK q \in Quotas : meta = NewMeta(q)
  BY DEF Init
<1>2. AccountOK
  BY <1>1, QuotasAssumption, NewMetas DEF Init, AccountOK
<1>3. NoConns \in [{} -> Nat] /\ Table(NoConns)
  <2>1. NoConns \in [{} -> Nat] /\ {} \in SUBSET Conns
    BY DEF NoConns
  <2> QED BY <2>1 DEF Table
<1>4. conn \in [Conns -> [is : {"none", "open", "closed"}, sent : Nat]] /\ count = NoConns
  BY DEF Init
<1>5. file = [torn |-> FALSE, last |-> NoConns] /\ trk = [at |-> "off", last |-> NoConns]
  BY DEF Init, Fresh, Off
<1>6. SshOK
  BY <1>3, <1>4, <1>5 DEF SshOK, Table
<1>7. TodoOK
  BY NoSteps DEF Init, TodoOK, Script
<1> QED BY <1>2, <1>6, <1>7 DEF TypeOK

\* and every step keeps them.
LEMMA NextTypes == TypeOK /\ [Next]_vars => TypeOK'
<1> SUFFICES ASSUME TypeOK, [Next]_vars PROVE TypeOK'
  OBVIOUS
<1>1. CASE UNCHANGED vars
  BY <1>1 DEF vars, TypeOK, AccountOK, SshOK, TodoOK, Table
<1>2. ASSUME NEW p \in Procs, Command(p) \/ Enforce(p) \/ ExpiryEnforce(p) \/ Panel(p) PROVE TypeOK'
  <2>1. \/ Command(p) \/ \E s : Begun(p, s)
    BY <1>2, EnforceDoes, ExpiryDoes, PanelDoes, Zenon
  <2> QED BY <2>1, CommandTypes, BegunTypes
<1>3. ASSUME Tracker PROVE TypeOK'
  BY <1>3, TrackStartTypes, PollTypes, FlushTypes, TableTypes DEF Tracker
<1>4. ASSUME Environment PROVE TypeOK'
  BY <1>4, CrashTypes, TrafficTypes DEF Environment
<1> QED BY <1>1, <1>2, <1>3, <1>4, Zenon DEF Next

\* TypeOK always holds: every script is made of known commands, and one that decides
\* is the last; every counter and total is a number, whatever calls of the panel,
\* rounds of cron, steps of the tracker and crashes interleave.
THEOREM Types == Spec => []TypeOK
BY InitTypes, NextTypes, PTL DEF Spec

-----------------------------------------------------------------------------
\* SettledAsDecided.  While no two calls overlap, one process at most is at work,
\* and what its script leaves to do brings the tunnel to what the flags say.

Decisions == {"judge", "lock", "free", "rewrite", "renewed", "requoted"}
Only(E, kinds) == \A e \in E : e[1] \in kinds

\* SSH: the script itself shuts out and lets in.
WillLock(E) == Set("locked", TRUE) \in E \/ (meta.locked /\ Set("locked", FALSE) \notin E)
WillAdmit(E) == <<"passwd", TRUE>> \in E \/ (admitted /\ <<"passwd", FALSE>> \notin E)
SshPlan(E) ==
  /\ Set("locked", TRUE) \in E => Set("locked", FALSE) \notin E
  /\ <<"passwd", TRUE>> \in E => <<"passwd", FALSE>> \notin E
  /\ \/ meta.here /\ (WillLock(E) \/ WillAdmit(E)) /\ Only(E, {"set", "passwd", "kill"} \cup Decisions)
     \/ ~meta.here /\ ~WillAdmit(E) /\ Only(E, {"passwd"})
     \/ (\E e \in E : e[1] = "unlink") /\ ~WillAdmit(E) /\ Only(E, {"unlink", "passwd"})
     \/ (\E e \in E : e[1] = "write_meta") /\ WillAdmit(E) /\ Only(E, {"write_meta", "passwd"})

\* The others: the configuration made last agrees with the flags, or one that will
\* is still to be made.
Agrees(b) == (b => meta.here /\ ~meta.locked) /\ (Active => b)
Making == {"collect", "rewrite", "renewed", "requoted"}
Deciding == {"measure", "tally", "grow", "first", "judge", "free", "lock", "shown"}
OtherPlan(E) ==
  \/ \E e \in E : e[1] \in Making
  \/ Agrees(admitted) /\ \A e \in E : e[1] \in Deciding \/ (e[1] = "set" /\ e[2] \in {"used", "last"})
  \/ \E b \in BOOLEAN : E = {<<"install", b>>} /\ Agrees(b)

Plan(E) == IF proto = "ssh" THEN SshPlan(E) ELSE OtherPlan(E)
Settling ==
  clean /\ proto # "vmess" =>
    \E p \in Procs : (\A q \in Procs \ {p} : Idle(q)) /\ Plan(Elems(todo[p]))

\* While no two calls overlap, the process at work is the one whose script counts;
LEMMA SettlingAt ==
  ASSUME Settling, clean, proto # "vmess", NEW p \in Procs, ~Idle(p)
  PROVE  (\A q \in Procs \ {p} : Idle(q)) /\ Plan(Elems(todo[p]))
<1>1. PICK z \in Procs : (\A q \in Procs \ {z} : Idle(q)) /\ Plan(Elems(todo[z]))
  BY DEF Settling
<1>2. z = p
  BY <1>1
<1> QED BY <1>1, <1>2

\* at rest nothing is left to do.
LEMMA SettlingRest ==
  ASSUME Settling, clean, proto # "vmess", AtRest
  PROVE  Plan({})
<1>1. PICK z \in Procs : Plan(Elems(todo[z]))
  BY DEF Settling
<1>2. todo[z] = <<>>
  BY DEF AtRest, Idle
<1> QED BY <1>1, <1>2, ElemsOf

\* A step after which the new script leads to what the flags say.
LEMMA SettledBy ==
  ASSUME TodoOK, NEW p \in Procs, NEW s, Script(s), Replaced(p, s),
         clean' /\ proto' # "vmess" => (\A q \in Procs \ {p} : Idle(q)) /\ Plan(Elems(s))'
  PROVE  Settling'
<1>1. todo'[p] = s /\ \A q \in Procs \ {p} : todo'[q] = todo[q]
  BY TodoKept
<1> SUFFICES ASSUME clean', proto' # "vmess"
             PROVE  (\A q \in Procs \ {p} : Idle(q)') /\ Plan(Elems(todo[p]))'
  BY DEF Settling
<1>2. \A q \in Procs \ {p} : Idle(q)'
  BY <1>1 DEF Idle
<1>3. Plan(Elems(todo[p]))'
  BY <1>1 DEF Plan
<1> QED BY <1>2, <1>3

\* At rest, the plan says what is to be shown.
LEMMA SettlingShown == TypeOK /\ Settling => SettledAsDecided
<1> SUFFICES ASSUME TypeOK, Settling, clean, AtRest, proto # "vmess"
             PROVE  /\ admitted => meta.here /\ (meta.locked => proto = "ssh")
                    /\ meta.here /\ ~meta.locked /\ ~meta.past => admitted
  BY DEF SettledAsDecided
<1>1. Plan({})
  BY SettlingRest
<1>2. CASE proto = "ssh"
  BY <1>1, <1>2 DEF Plan, SshPlan, WillLock, WillAdmit
<1>3. CASE proto # "ssh"
  BY <1>1, <1>3 DEF Plan, OtherPlan, Agrees, Active
<1> QED BY <1>2, <1>3

\* A new account is admitted.
LEMMA InitSettling == Init => Settling
<1> SUFFICES ASSUME Init PROVE Settling
  OBVIOUS
<1>1. meta.here /\ ~meta.locked /\ admitted
  BY DEF Init, NewMeta
<1>2. SshPlan({})
  BY <1>1 DEF SshPlan, WillAdmit, Only
<1>3. OtherPlan({})
  BY <1>1 DEF OtherPlan, Agrees
<1>4. Plan({})
  BY <1>2, <1>3 DEF Plan
<1>5. \A q \in Procs : todo[q] = <<>>
  BY DEF Init
<1>6. \A q \in Procs : Idle(q) /\ Elems(todo[q]) = {}
  BY <1>5, ElemsOf DEF Idle
<1>7. "tracker" \in Procs
  BY DEF Procs
<1> QED BY <1>4, <1>6, <1>7 DEF Settling

\* What the plan rests on is left alone.
LEMMA PlanKept ==
  ASSUME proto' = proto, admitted' = admitted, meta'.here = meta.here, meta'.locked = meta.locked,
         Active' => Active, NEW E, Plan(E)
  PROVE  Plan(E)'
<1>1. ASSUME NEW b, Agrees(b) PROVE Agrees(b)'
  BY <1>1 DEF Agrees
<1>2. CASE proto = "ssh"
  BY <1>2 DEF Plan, SshPlan, WillLock, WillAdmit
<1>3. CASE proto # "ssh"
  BY <1>1, <1>3 DEF Plan, OtherPlan
<1> QED BY <1>2, <1>3

\* A flag that is written was part of the plan.
LEMMA SetFieldPlan ==
  ASSUME TypeOK, NEW p \in Procs, SetField(p), Plan(Elems(todo[p])), proto # "vmess", NEW t, NEW e,
         Elems(todo[p]) = {e} \cup Elems(t),
         \/ \E f \in {"used", "last", "quota"}, n \in Nat :
              e = Set(f, n) /\ meta' = IF meta.here THEN [meta EXCEPT ![f] = n] ELSE meta
         \/ \E f \in Flags, b \in BOOLEAN :
              e = Set(f, b) /\ meta' = IF meta.here THEN [meta EXCEPT ![f] = b] ELSE meta
  PROVE  Plan(Elems(t))'
<1> DEFINE E == Elems(todo[p])  T == Elems(t)
<1>1. E = {e} \cup T /\ e[1] = "set" /\ e \in E /\ T \subseteq E
  BY DEF Set
<1>2. meta \in Metas /\ proto' = proto /\ admitted' = admitted
  BY DEF TypeOK, AccountOK, SetField
<1>3. /\ meta'.here = meta.here /\ meta'.past = meta.past
      /\ \/ meta'.locked = meta.locked /\ (meta.here => \A b \in BOOLEAN : e # Set("locked", b))
         \/ meta.here /\ \E b \in BOOLEAN : e = Set("locked", b) /\ meta'.locked = b
  <2>1. ASSUME NEW f \in {"used", "last", "quota"}, NEW n \in Nat, e = Set(f, n),
               meta' = IF meta.here THEN [meta EXCEPT ![f] = n] ELSE meta
        PROVE  /\ meta'.here = meta.here /\ meta'.past = meta.past /\ meta'.locked = meta.locked
               /\ \A b \in BOOLEAN : e # Set("locked", b)
    BY <1>2, <2>1 DEF Metas, Set
  <2>2. ASSUME NEW f \in Flags, NEW b \in BOOLEAN, e = Set(f, b), f # "locked",
               meta' = IF meta.here THEN [meta EXCEPT ![f] = b] ELSE meta
        PROVE  /\ meta'.here = meta.here /\ meta'.past = meta.past /\ meta'.locked = meta.locked
               /\ \A c \in BOOLEAN : e # Set("locked", c)
    BY <1>2, <2>2 DEF Metas, Set, Flags
  <2>3. ASSUME NEW b \in BOOLEAN, e = Set("locked", b),
               meta' = IF meta.here THEN [meta EXCEPT !["locked"] = b] ELSE meta
        PROVE  /\ meta'.here = meta.here /\ meta'.past = meta.past
               /\ meta'.locked = IF meta.here THEN b ELSE meta.locked
    BY <1>2, <2>3 DEF Metas
  <2> QED BY <2>1, <2>2, <2>3
<1>4. CASE proto = "ssh"
  <2>1. SshPlan(E)
    BY <1>4 DEF Plan
  <2>2. meta.here /\ (WillLock(E) \/ WillAdmit(E)) /\ Only(E, {"set", "passwd", "kill"} \cup Decisions)
    BY <1>1, <2>1 DEF SshPlan, Only
  <2>3. /\ Set("locked", TRUE) \in T => Set("locked", FALSE) \notin T
        /\ <<"passwd", TRUE>> \in T => <<"passwd", FALSE>> \notin T
        /\ Only(T, {"set", "passwd", "kill"} \cup Decisions)
    BY <1>1, <2>1, <2>2 DEF SshPlan, Only
  <2>4. \A b \in BOOLEAN : <<"passwd", b>> \in E <=> <<"passwd", b>> \in T
    BY <1>1
  <2>5. WillAdmit(E) => WillAdmit(T)'
    BY <1>2, <2>4 DEF WillAdmit
  <2>6. WillLock(E) => WillLock(T)'
    <3>1. CASE meta'.locked = meta.locked /\ \A b \in BOOLEAN : e # Set("locked", b)
      BY <1>1, <3>1 DEF WillLock
    <3>2. CASE e = Set("locked", TRUE) /\ meta'.locked = TRUE
      BY <1>1, <2>1, <3>2 DEF WillLock, SshPlan
    <3>3. CASE e = Set("locked", FALSE) /\ meta'.locked = FALSE
      BY <1>1, <2>1, <3>3 DEF WillLock, SshPlan
    <3> QED BY <1>3, <2>2, <3>1, <3>2, <3>3
  <2>7. SshPlan(T)'
    BY <1>3, <2>2, <2>3, <2>5, <2>6 DEF SshPlan
  <2> QED BY <1>2, <1>4, <2>7 DEF Plan
<1>5. CASE proto # "ssh"
  <2>1. OtherPlan(E)
    BY <1>5 DEF Plan
  <2>2. OtherPlan(T)'
    <3>1. CASE \E x \in E : x[1] \in Making
      <4>1. e[1] \notin Making
        BY <1>1 DEF Making
      <4>2. \E x \in T : x[1] \in Making
        BY <1>1, <3>1, <4>1
      <4> QED BY <4>2 DEF OtherPlan
    <3>2. CASE Agrees(admitted) /\ \A x \in E : x[1] \in Deciding \/ (x[1] = "set" /\ x[2] \in {"used", "last"})
      <4>1. e[2] \in {"used", "last"}
        BY <1>1, <3>2 DEF Deciding
      <4>2. meta'.locked = meta.locked
        BY <1>3, <4>1 DEF Set
      <4>3. Agrees(admitted)'
        BY <1>2, <1>3, <3>2, <4>2 DEF Agrees, Active
      <4>4. \A x \in T : x[1] \in Deciding \/ (x[1] = "set" /\ x[2] \in {"used", "last"})
        BY <1>1, <3>2
      <4> QED BY <4>3, <4>4 DEF OtherPlan
    <3>3. ASSUME NEW b, E = {<<"install", b>>} PROVE FALSE
      BY <1>1, <3>3
    <3> QED BY <2>1, <3>1, <3>2, <3>3 DEF OtherPlan
  <2> QED BY <1>2, <1>5, <2>2 DEF Plan
<1> QED BY <1>4, <1>5

\* The same of the other commands that are carried out.
LEMMA CommandPlan ==
  ASSUME TypeOK, proto # "vmess", NEW p \in Procs,
         NEW k \in {"passwd", "install", "kill", "unlink", "write_meta", "shown"},
         NEW e, NEW t, Elems(todo[p]) = {e} \cup Elems(t), e[1] = k, Plan(Elems(todo[p])),
         k \in Ends => t = <<>>,
         k \in {"passwd", "install"} => e[2] \in BOOLEAN /\ e = <<k, e[2]>>,
         k \in {"kill", "unlink"} => e = <<k>>,
         proto' = proto,
         k \in {"passwd", "install"} => admitted' = e[2],
         k \notin {"passwd", "install"} => admitted' = admitted,
         k = "unlink" => ~meta'.here,
         k = "write_meta" => meta'.here,
         k \notin {"unlink", "write_meta"} => meta' = meta
  PROVE  Plan(Elems(t))'
<1> DEFINE E == Elems(todo[p])  T == Elems(t)
<1>1. E = {e} \cup T /\ e \in E /\ T \subseteq E
  OBVIOUS
<1>2. k \in Ends => T = {}
  BY ElemsOf
<1>3. CASE proto = "ssh"
  <2>1. SshPlan(E)
    BY <1>3 DEF Plan
  <2>2. /\ Set("locked", TRUE) \in T => Set("locked", FALSE) \notin T
        /\ <<"passwd", TRUE>> \in T => <<"passwd", FALSE>> \notin T
        /\ \A kinds : Only(E, kinds) => Only(T, kinds)
    BY <1>1, <2>1 DEF SshPlan, Only
  <2>3. k \in {"passwd", "kill", "unlink", "write_meta"}
    BY <1>1, <2>1 DEF SshPlan, Only, Decisions
  <2>4. WillAdmit(E) <=> WillAdmit(T)'
    <3>1. CASE k = "passwd"
      <4>1. e = <<"passwd", e[2]>> /\ e[2] \in BOOLEAN /\ admitted' = e[2]
        BY <3>1
      <4>2. CASE e[2] = TRUE
        <5>1. WillAdmit(E)
          BY <1>1, <4>1, <4>2 DEF WillAdmit
        <5>2. <<"passwd", FALSE>> \notin T
          BY <1>1, <2>1, <4>1, <4>2 DEF SshPlan
        <5> QED BY <4>1, <4>2, <5>1, <5>2 DEF WillAdmit
      <4>3. CASE e[2] = FALSE
        <5>1. <<"passwd", FALSE>> \in E /\ <<"passwd", TRUE>> \notin E /\ <<"passwd", TRUE>> \notin T
          BY <1>1, <2>1, <4>1, <4>3 DEF SshPlan
        <5> QED BY <4>1, <4>3, <5>1 DEF WillAdmit
      <4> QED BY <4>1, <4>2, <4>3
    <3>2. CASE k # "passwd"
      <4>1. \A b \in BOOLEAN : <<"passwd", b>> \in E <=> <<"passwd", b>> \in T
        BY <1>1, <3>2
      <4>2. admitted' = admitted /\ admitted \in BOOLEAN
        BY <2>3, <3>2 DEF TypeOK, AccountOK
      <4> HIDE DEF E, T
      <4> QED BY <4>1, <4>2, Zenon DEF WillAdmit
    <3> QED BY <3>1, <3>2
  <2>5. CASE k \in {"passwd", "kill"}
    <3>1. \A b \in BOOLEAN : Set("locked", b) \in E <=> Set("locked", b) \in T
      BY <1>1, <2>5 DEF Set
    <3>2. meta' = meta
      BY <2>5
    <3>3. WillLock(E) => WillLock(T)'
      BY <3>1, <3>2 DEF WillLock
    <3>4. \A x \in E : x[1] \in {"unlink", "write_meta"} => x \in T
      BY <1>1, <2>5
    <3>5. SshPlan(T)'
      <4>1. CASE meta.here /\ (WillLock(E) \/ WillAdmit(E)) /\ Only(E, {"set", "passwd", "kill"} \cup Decisions)
        BY <2>2, <2>4, <3>2, <3>3, <4>1 DEF SshPlan
      <4>2. CASE ~meta.here /\ ~WillAdmit(E) /\ Only(E, {"passwd"})
        BY <2>2, <2>4, <3>2, <4>2 DEF SshPlan
      <4>3. CASE (\E x \in E : x[1] = "unlink") /\ ~WillAdmit(E) /\ Only(E, {"unlink", "passwd"})
        <5>1. \E x \in T : x[1] = "unlink"
          BY <3>4, <4>3
        <5> QED BY <2>2, <2>4, <4>3, <5>1 DEF SshPlan
      <4>4. CASE (\E x \in E : x[1] = "write_meta") /\ WillAdmit(E) /\ Only(E, {"write_meta", "passwd"})
        <5>1. \E x \in T : x[1] = "write_meta"
          BY <3>4, <4>4
        <5> QED BY <2>2, <2>4, <4>4, <5>1 DEF SshPlan
      <4> QED BY <2>1, <4>1, <4>2, <4>3, <4>4 DEF SshPlan
    <3> QED BY <1>3, <3>5 DEF Plan
  <2>6. CASE k = "unlink"
    <3>1. ~WillAdmit(E) /\ Only(E, {"unlink", "passwd"})
      BY <1>1, <2>1, <2>6 DEF SshPlan, Only, Decisions
    <3>2. ~WillAdmit(T)' /\ Only(T, {"unlink", "passwd"}) /\ ~meta'.here
      BY <2>2, <2>4, <2>6, <3>1
    <3>3. (\E x \in T : x[1] = "unlink") \/ Only(T, {"passwd"})
      BY <3>2 DEF Only
    <3>4. SshPlan(T)'
      BY <2>2, <3>2, <3>3 DEF SshPlan
    <3> QED BY <1>3, <3>4 DEF Plan
  <2>7. CASE k = "write_meta"
    <3>1. WillAdmit(E) /\ Only(E, {"write_meta", "passwd"})
      BY <1>1, <2>1, <2>7 DEF SshPlan, Only, Decisions
    <3>2. WillAdmit(T)' /\ Only(T, {"write_meta", "passwd"}) /\ meta'.here
      BY <2>2, <2>4, <2>7, <3>1
    <3>3. (\E x \in T : x[1] = "write_meta") \/ Only(T, {"set", "passwd", "kill"} \cup Decisions)
      BY <3>2 DEF Only
    <3>4. SshPlan(T)'
      BY <2>2, <3>2, <3>3 DEF SshPlan
    <3> QED BY <1>3, <3>4 DEF Plan
  <2> QED BY <2>3, <2>5, <2>6, <2>7
<1>4. CASE proto # "ssh"
  <2>1. OtherPlan(E)
    BY <1>4 DEF Plan
  <2>2. OtherPlan(T)'
    <3>1. CASE \E x \in E : x[1] \in Making
      <4>1. e[1] \notin Making
        BY DEF Making
      <4>2. \E x \in T : x[1] \in Making
        BY <1>1, <3>1, <4>1
      <4> QED BY <4>2 DEF OtherPlan
    <3>2. CASE Agrees(admitted) /\ \A x \in E : x[1] \in Deciding \/ (x[1] = "set" /\ x[2] \in {"used", "last"})
      <4>1. k = "shown"
        BY <1>1, <3>2 DEF Deciding
      <4>2. T = {} /\ meta' = meta /\ admitted' = admitted
        BY <1>2, <4>1 DEF Ends, Stages, Uses
      <4> QED BY <3>2, <4>2 DEF OtherPlan, Agrees, Active
    <3>3. ASSUME NEW b \in BOOLEAN, E = {<<"install", b>>}, Agrees(b) PROVE OtherPlan(T)'
      <4>1. e = <<"install", b>>
        BY <1>1, <3>3
      <4>2. k = "install" /\ e[2] = b
        BY <4>1
      <4>3. T = {} /\ meta' = meta /\ admitted' = b
        BY <1>2, <4>2 DEF Ends, Stages, Uses
      <4> QED BY <3>3, <4>3 DEF OtherPlan, Agrees, Active
    <3> QED BY <2>1, <3>1, <3>2, <3>3 DEF OtherPlan
  <2> QED BY <1>4, <2>2 DEF Plan
<1> QED BY <1>3, <1>4

\* The names of three commands.
LEMMA Kinds ==
  (\A f, v : Set(f, v)[1] = "set") /\ (\A v : <<"passwd", v>>[1] = "passwd") /\ <<"kill">>[1] = "kill"
BY DEF Set

\* What a decision is taken on, and the scripts decided on.
LEMMA DecisionPlan ==
  ASSUME proto # "vmess", NEW e, Plan({e}), e[1] \in Decisions \cup Deciding
  PROVE  /\ proto = "ssh" => meta.here /\ (meta.locked \/ admitted) /\ e[1] \in Decisions
         /\ proto # "ssh" /\ e[1] \in Deciding => Agrees(admitted)
<1>1. CASE proto = "ssh"
  <2>1. SshPlan({e}) /\ e[1] \in Decisions
    BY <1>1 DEF Plan, SshPlan, Only, Decisions, Deciding
  <2>2. meta.here /\ (WillLock({e}) \/ WillAdmit({e}))
    BY <2>1 DEF SshPlan, Only, Decisions
  <2>3. \A b \in BOOLEAN : <<"passwd", b>> \notin {e} /\ Set("locked", b) \notin {e}
    BY <2>1 DEF Set, Decisions
  <2>4. meta.locked \/ admitted
    BY <2>2, <2>3 DEF WillLock, WillAdmit
  <2> QED BY <1>1, <2>1, <2>2, <2>4
<1>2. CASE proto # "ssh" /\ e[1] \in Deciding
  <2>1. OtherPlan({e})
    BY <1>2 DEF Plan
  <2>2. ASSUME NEW b, {e} = {<<"install", b>>} PROVE FALSE
    <3>1. e = <<"install", b>>
      BY <2>2
    <3> QED BY <1>2, <3>1 DEF Deciding
  <2>3. e[1] \notin Making
    BY <1>2 DEF Making, Deciding
  <2> QED BY <1>2, <2>1, <2>2, <2>3 DEF OtherPlan
<1> QED BY <1>1, <1>2

\* A script of SSH that locks or admits,
LEMMA SshPlanned ==
  ASSUME proto = "ssh", meta.here, NEW E, Only(E, {"set", "passwd", "kill"} \cup Decisions),
         Set("locked", TRUE) \in E => Set("locked", FALSE) \notin E,
         <<"passwd", TRUE>> \in E => <<"passwd", FALSE>> \notin E,
         WillLock(E) \/ WillAdmit(E)
  PROVE  Plan(E)
BY DEF Plan, SshPlan

\* for the others one that ends in a new configuration,
LEMMA MakingPlanned ==
  ASSUME proto # "ssh", NEW E, \E e \in E : e[1] \in Making
  PROVE  Plan(E)
BY DEF Plan, OtherPlan

\* and one that only decides.
LEMMA DecidingPlanned ==
  ASSUME proto # "ssh", Agrees(admitted), NEW E,
         \A e \in E : e[1] \in Deciding \/ (e[1] = "set" /\ e[2] \in {"used", "last"})
  PROVE  Plan(E)
BY DEF Plan, OtherPlan

\* Nothing is left, or one decision.
LEMMA RestPlanned ==
  ASSUME proto = "ssh" => meta.here /\ (meta.locked \/ admitted),
         proto # "ssh" => Agrees(admitted)
  PROVE  /\ Plan({})
         /\ \A e : e[1] \in Decisions \cap Deciding => Plan({e})
         /\ proto # "ssh" => \A e : e[1] \in Deciding => Plan({e})
<1>1. CASE proto = "ssh"
  <2>1. ASSUME NEW E, Only(E, Decisions) PROVE Plan(E)
    <3>1. \A b \in BOOLEAN : <<"passwd", b>> \notin E /\ Set("locked", b) \notin E
      BY <2>1 DEF Set, Decisions, Only
    <3>2. WillLock(E) \/ WillAdmit(E)
      BY <1>1, <3>1 DEF WillLock, WillAdmit
    <3>3. Only(E, {"set", "passwd", "kill"} \cup Decisions)
      BY <2>1 DEF Only
    <3> QED BY <1>1, <3>1, <3>2, <3>3, SshPlanned
  <2> QED BY <1>1, <2>1 DEF Only
<1>2. CASE proto # "ssh"
  BY <1>2, DecidingPlanned
<1> QED BY <1>1, <1>2

\* The scripts of quota_enforce that lock
LEMMA LockForPlanned ==
  ASSUME proto \in Protos, NEW why \in {"quota_hit", "exp_lock"}, proto = "ssh" => meta.here
  PROVE  Plan(Elems(LockFor(why)))
<1> DEFINE E == Elems(LockFor(why))
<1>1. CASE proto = "ssh"
  <2>1. /\ Set("locked", TRUE) \in E /\ <<"passwd", FALSE>> \in E
        /\ E \subseteq {Set("quota_hit", TRUE), Set("locked", TRUE), Set("exp_lock", TRUE),
                        <<"passwd", FALSE>>, <<"kill">>}
    BY <1>1, LockForSteps
  <2> HIDE DEF E
  <2>2. Set("locked", FALSE) \notin E /\ <<"passwd", TRUE>> \notin E
    BY <2>1 DEF Set
  <2>3. Only(E, {"set", "passwd", "kill"} \cup Decisions)
    <3>1. ASSUME NEW x \in E PROVE x[1] \in {"set", "passwd", "kill"}
      <4>1. \/ x = Set("quota_hit", TRUE) \/ x = Set("locked", TRUE) \/ x = Set("exp_lock", TRUE)
            \/ x = <<"passwd", FALSE>> \/ x = <<"kill">>
        BY <2>1
      <4>2. x[1] = "set" \/ x[1] = "passwd" \/ x[1] = "kill"
        BY <4>1, Kinds, Zenon
      <4> QED BY <4>2
    <3> QED BY <3>1 DEF Only
  <2>4. WillLock(E)
    BY <2>1 DEF WillLock
  <2>5. Plan(E)
    BY <1>1, <2>2, <2>3, <2>4, SshPlanned
  <2> QED BY <2>5 DEF E
<1>2. CASE proto # "ssh"
  <2>1. <<"collect">> \in E
    BY <1>2, LockForSteps
  <2> QED BY <1>2, <2>1, MakingPlanned DEF Making
<1> QED BY <1>1, <1>2

\* Letting in: the password works, and the flag says so.
LEMMA AdmitPlanned ==
  ASSUME proto = "ssh", meta.here, NEW E, <<"passwd", TRUE>> \in E,
         E \subseteq {<<"passwd", TRUE>>} \cup {Set(f, FALSE) : f \in Flags}
  PROVE  Plan(E)
<1>1. Set("locked", TRUE) \notin E /\ <<"passwd", FALSE>> \notin E
  BY DEF Set
<1>2. Only(E, {"set", "passwd", "kill"} \cup Decisions)
  <2>1. ASSUME NEW x \in E PROVE x[1] \in {"set", "passwd", "kill"}
    <3>1. x = <<"passwd", TRUE>> \/ \E f \in Flags : x = Set(f, FALSE)
      OBVIOUS
    <3>2. x[1] = "set" \/ x[1] = "passwd" \/ x[1] = "kill"
      BY <3>1, Kinds, Zenon
    <3> QED BY <3>2
  <2> QED BY <2>1 DEF Only
<1>3. WillAdmit(E)
  BY DEF WillAdmit
<1> QED BY <1>1, <1>2, <1>3, SshPlanned

\* Shutting out: the password does not work, and the flag says so.
LEMMA ShutPlanned ==
  ASSUME proto = "ssh", meta.here, NEW E, Set("locked", TRUE) \in E,
         E \subseteq {<<"passwd", FALSE>>, <<"kill">>} \cup {Set(f, TRUE) : f \in Flags}
  PROVE  Plan(E)
<1>1. Set("locked", FALSE) \notin E /\ <<"passwd", TRUE>> \notin E
  BY DEF Set
<1>2. Only(E, {"set", "passwd", "kill"} \cup Decisions)
  <2>1. ASSUME NEW x \in E PROVE x[1] \in {"set", "passwd", "kill"}
    <3>1. x \in {<<"passwd", FALSE>>, <<"kill">>} \/ x \in {Set(f, TRUE) : f \in Flags}
      BY <2>1
    <3>2. CASE x \in {Set(f, TRUE) : f \in Flags}
      <4>1. PICK f \in Flags : x = Set(f, TRUE)
        BY <3>2
      <4> QED BY <4>1, Kinds
    <3>3. CASE x = <<"passwd", FALSE>>
      BY <3>3
    <3>4. CASE x = <<"kill">>
      BY <3>4
    <3> QED BY <3>1, <3>2, <3>3, <3>4
  <2> QED BY <2>1 DEF Only
<1>3. WillLock(E)
  BY DEF WillLock
<1> QED BY <1>1, <1>2, <1>3, SshPlanned

\* The one that lets in again,
LEMMA ReleasePlanned ==
  ASSUME proto \in Protos, proto = "ssh" => meta.here
  PROVE  Plan(Elems(Release))
<1>1. CASE proto = "ssh"
  <2>1. Elems(Release) = {Set("quota_hit", FALSE), <<"passwd", TRUE>>, Set("locked", FALSE)}
    BY <1>1, ReleaseSteps
  <2>2. Elems(Release) \subseteq {<<"passwd", TRUE>>} \cup {Set(f, FALSE) : f \in Flags}
    BY <2>1 DEF Flags
  <2> QED BY <1>1, <2>1, <2>2, AdmitPlanned
<1>2. CASE proto # "ssh"
  <2>1. <<"collect">> \in Elems(Release)
    BY <1>2, ReleaseSteps
  <2> QED BY <1>2, <2>1, MakingPlanned DEF Making
<1> QED BY <1>1, <1>2

\* those that end a renewal and a change of quota,
LEMMA RenewedPlanned ==
  ASSUME proto = "ssh" => meta.here /\ (meta.locked \/ admitted)
  PROVE  Plan(Elems(RenewedScript)) /\ Plan(Elems(RequotedScript))
<1>1. CASE proto = "ssh"
  <2>1. Plan({})
    BY <1>1, RestPlanned
  <2>2. ASSUME meta.exp_lock PROVE Plan(Elems(RenewedScript))
    <3>1. Elems(RenewedScript) = {<<"passwd", TRUE>>, Set("locked", FALSE), Set("exp_lock", FALSE)}
      BY <1>1, <2>2, RenewedScriptSteps
    <3>2. Elems(RenewedScript) \subseteq {<<"passwd", TRUE>>} \cup {Set(f, FALSE) : f \in Flags}
      BY <3>1 DEF Flags
    <3> QED BY <1>1, <3>1, <3>2, AdmitPlanned
  <2>3. ASSUME meta.quota_hit PROVE Plan(Elems(RequotedScript))
    <3>1. Elems(RequotedScript) = {Set("quota_hit", FALSE), <<"passwd", TRUE>>, Set("locked", FALSE)}
      BY <1>1, <2>3, RequotedScriptSteps
    <3>2. Elems(RequotedScript) \subseteq {<<"passwd", TRUE>>} \cup {Set(f, FALSE) : f \in Flags}
      BY <3>1 DEF Flags
    <3> QED BY <1>1, <3>1, <3>2, AdmitPlanned
  <2>4. /\ ~meta.exp_lock => Elems(RenewedScript) = {}
        /\ ~meta.quota_hit => Elems(RequotedScript) = {}
    BY <1>1, RenewedScriptSteps, RequotedScriptSteps
  <2> QED BY <2>1, <2>2, <2>3, <2>4
<1>2. CASE proto # "ssh"
  <2>1. <<"collect">> \in Elems(RenewedScript) /\ <<"collect">> \in Elems(RequotedScript)
    BY <1>2, RenewedScriptSteps, RequotedScriptSteps
  <2> QED BY <1>2, <2>1, MakingPlanned DEF Making
<1> QED BY <1>1, <1>2

\* and the renewal itself, of which the flags are put back.
LEMMA RewritePlan ==
  ASSUME TypeOK, proto # "vmess", Plan({<<"rewrite">>}), proto' = proto, admitted' = admitted,
         meta' = NewMeta(meta.quota), NEW s, s = KeptScript
  PROVE  Plan(Elems(s))'
<1> DEFINE K == Elems(s)
<1>1. K = (IF proto \in Metered \/ meta.used = 0 THEN {} ELSE {Set("used", meta.used)})
          \cup {Set(f, TRUE) : f \in {g \in Flags : meta[g]}} \cup {<<"renewed">>}
  BY KeptScriptSteps DEF TypeOK, AccountOK
<1> HIDE DEF K
<1>2. \A x \in K : x[1] = "set" \/ x[1] = "renewed"
  <2>1. <<"renewed">>[1] = "renewed"
    OBVIOUS
  <2> QED BY <1>1, <2>1, Kinds
<1>3. ASSUME NEW x \in K
      PROVE  \/ x = Set("used", meta.used) \/ x = <<"renewed">>
             \/ \E f \in Flags : meta[f] /\ x = Set(f, TRUE)
  BY <1>1, <1>3
<1>4. meta'.here /\ ~meta'.locked
  BY DEF NewMeta
<1>5. CASE proto = "ssh"
  <2>1. meta.here /\ (meta.locked \/ admitted)
    BY <1>5, DecisionPlan DEF Decisions
  <2>2. /\ \A b \in BOOLEAN : <<"passwd", b>> \notin K
        /\ Set("locked", FALSE) \notin K
        /\ meta.locked => Set("locked", TRUE) \in K
    <3>1. \A b \in BOOLEAN : <<"passwd", b>> \notin K
      BY <1>2, Kinds
    <3>2. Set("locked", FALSE) \notin K
      <4>1. Set("locked", FALSE) # <<"renewed">> /\ Set("locked", FALSE) # Set("used", meta.used)
        BY DEF Set
      <4>2. \A f \in Flags : Set("locked", FALSE) # Set(f, TRUE)
        BY DEF Set
      <4> QED BY <1>3, <4>1, <4>2
    <3>3. meta.locked => Set("locked", TRUE) \in K
      BY <1>1 DEF Flags
    <3> QED BY <3>1, <3>2, <3>3
  <2>3. Only(K, {"set", "passwd", "kill"} \cup Decisions)
    BY <1>2 DEF Only, Decisions
  <2>4. WillLock(K)' \/ WillAdmit(K)'
    BY <2>1, <2>2 DEF WillLock, WillAdmit
  <2>5. SshPlan(K)'
    BY <1>4, <2>2, <2>3, <2>4 DEF SshPlan
  <2> QED BY <1>5, <2>5 DEF Plan, K
<1>6. CASE proto # "ssh"
  <2>1. \E x \in K : x[1] \in Making
    <3>1. <<"renewed">> \in K
      BY <1>1
    <3>2. <<"renewed">>[1] \in Making
      BY DEF Making
    <3> QED BY <3>1, <3>2
  <2> QED BY <1>6, <2>1 DEF Plan, OtherPlan, K
<1> QED BY <1>5, <1>6

\* A command goes on with the plan.
LEMMA CommandSettling ==
  ASSUME TypeOK, Settling, NEW p \in Procs, Command(p)
  PROVE  Settling'
<1>0. TodoOK /\ AccountOK /\ proto \in Protos
  BY DEF TypeOK, AccountOK
<1>1. clean' = clean /\ proto' = proto
  BY DEF Command, SetField, Passwd, Collect, Install, KillConns, Measure, Tally, Grow, First, Judge, Lock, Free,
         Rewrite, Renewed, Requoted, Unlink, WriteMeta, Shown
<1>2. ASSUME NEW s, Script(s), Replaced(p, s), todo[p] # <<>>,
             proto # "vmess" /\ Plan(Elems(todo[p])) => Plan(Elems(s))'
      PROVE  Settling'
  <2>1. ASSUME clean, proto # "vmess"
        PROVE  (\A q \in Procs \ {p} : Idle(q)) /\ Plan(Elems(s))'
    <3>1. ~Idle(p)
      BY <1>2 DEF Idle
    <3>2. (\A q \in Procs \ {p} : Idle(q)) /\ Plan(Elems(todo[p]))
      BY <2>1, <3>1, SettlingAt
    <3> QED BY <1>2, <2>1, <3>2, Zenon
  <2> QED BY <1>0, <1>1, <1>2, <2>1, SettledBy
\* Decisions change nothing but the script.
<1>3. ASSUME NEW s, Script(s), Replaced(p, s), todo[p] # <<>>, meta' = meta, admitted' = admitted,
             proto # "vmess" /\ Plan(Elems(todo[p])) => Plan(Elems(s))
      PROVE  Settling'
  <2>1. Active' => Active
    BY <1>3 DEF Active
  <2>2. proto # "vmess" /\ Plan(Elems(todo[p])) => Plan(Elems(s))'
    BY <1>1, <1>3, <2>1, PlanKept
  <2> QED BY <1>2, <1>3, <2>2
<1>4. ASSUME SetField(p) PROVE Settling'
  <2>1. PICK e \in Steps : \E t :
           /\ Script(t) /\ Replaced(p, t) /\ Elems(todo[p]) = {e} \cup Elems(t) /\ todo[p] # <<>>
           /\ t = Tail(todo[p])
           /\ \/ \E f \in {"used", "last", "quota"}, n \in Nat :
                   e = Set(f, n) /\ meta' = IF meta.here THEN [meta EXCEPT ![f] = n] ELSE meta
              \/ \E f \in Flags, b \in BOOLEAN :
                   e = Set(f, b) /\ meta' = IF meta.here THEN [meta EXCEPT ![f] = b] ELSE meta
    BY <1>4, SetFieldDoes, Zenon
  <2>2. PICK t :
           /\ Script(t) /\ Replaced(p, t) /\ Elems(todo[p]) = {e} \cup Elems(t) /\ todo[p] # <<>>
           /\ t = Tail(todo[p])
           /\ \/ \E f \in {"used", "last", "quota"}, n \in Nat :
                   e = Set(f, n) /\ meta' = IF meta.here THEN [meta EXCEPT ![f] = n] ELSE meta
              \/ \E f \in Flags, b \in BOOLEAN :
                   e = Set(f, b) /\ meta' = IF meta.here THEN [meta EXCEPT ![f] = b] ELSE meta
    BY <2>1, Zenon
  <2>3. proto # "vmess" /\ Plan(Elems(todo[p])) => Plan(Elems(t))'
    BY <1>4, <2>2, SetFieldPlan
  <2> QED BY <1>2, <2>2, <2>3, Zenon
<1>5. ASSUME NEW k \in {"passwd", "install", "kill", "unlink", "write_meta", "shown"},
             Goes(p, k), Then(p, <<>>),
             k \in {"passwd", "install"} => admitted' = Head(todo[p])[2],
             k \notin {"passwd", "install"} => admitted' = admitted,
             k = "unlink" => ~meta'.here, k = "write_meta" => meta'.here,
             k \notin {"unlink", "write_meta"} => meta' = meta
      PROVE  Settling'
  <2>0. Goes(p, k) /\ Then(p, <<>>)
    BY <1>5
  <2>1. PICK e \in Steps : \E t :
           /\ Script(t) /\ Replaced(p, t) /\ Elems(todo[p]) = {e} \cup Elems(t) /\ todo[p] # <<>>
           /\ e = Head(todo[p]) /\ e[1] = k /\ t = Tail(todo[p])
           /\ k \in Ends => t = <<>>
           /\ k \in {"passwd", "install"} => e[2] \in BOOLEAN /\ e = <<k, e[2]>>
           /\ k = "write_meta" => e[2] \in Nat /\ e = <<k, e[2]>>
           /\ k \in {"kill", "unlink"} => e = <<k>>
    BY <2>0, CommandDoes, Zenon
  <2>2. PICK t :
           /\ Script(t) /\ Replaced(p, t) /\ Elems(todo[p]) = {e} \cup Elems(t) /\ todo[p] # <<>>
           /\ e = Head(todo[p]) /\ e[1] = k /\ t = Tail(todo[p])
           /\ k \in Ends => t = <<>>
           /\ k \in {"passwd", "install"} => e[2] \in BOOLEAN /\ e = <<k, e[2]>>
           /\ k = "write_meta" => e[2] \in Nat /\ e = <<k, e[2]>>
           /\ k \in {"kill", "unlink"} => e = <<k>>
    BY <2>1, Zenon
  <2>3. k \in {"passwd", "install"} => admitted' = e[2]
    BY <1>5, <2>2, Zenon
  <2>4. ASSUME proto # "vmess", Plan(Elems(todo[p])) PROVE Plan(Elems(t))'
    BY <1>1, <1>5, <2>2, <2>3, <2>4, CommandPlan, Zenon
  <2> QED BY <1>2, <2>2, <2>4, Zenon
<1>6. ASSUME Passwd(p) \/ Install(p) \/ KillConns(p) \/ Unlink(p) \/ WriteMeta(p) \/ Shown(p)
      PROVE  Settling'
  <2>1. ASSUME Passwd(p) PROVE Settling'
    BY <1>5, <2>1 DEF Passwd
  <2>2. ASSUME Install(p) PROVE Settling'
    BY <1>5, <2>2 DEF Install
  <2>3. ASSUME KillConns(p) PROVE Settling'
    BY <1>5, <2>3 DEF KillConns
  <2>4. ASSUME Unlink(p) PROVE Settling'
    <3>1. ~meta'.here
      BY <2>4 DEF Unlink, NewMeta
    <3> QED BY <1>5, <2>4, <3>1 DEF Unlink
  <2>5. ASSUME WriteMeta(p) PROVE Settling'
    <3>1. meta'.here
      BY <2>5 DEF WriteMeta, NewMeta
    <3> QED BY <1>5, <2>5, <3>1 DEF WriteMeta
  <2>6. ASSUME Shown(p) PROVE Settling'
    BY <1>5, <2>6 DEF Shown
  <2> QED BY <1>6, <2>1, <2>2, <2>3, <2>4, <2>5, <2>6
<1>7. ASSUME Collect(p) PROVE Settling'
  <2>1. PICK s : Script(s) /\ Replaced(p, s) /\ s = <<<<"install", Active>>>>
    BY <1>7, CollectDoes, Zenon
  <2>2. Elems(todo[p]) = {<<"collect">>} /\ todo[p] # <<>>
    BY <1>7, CollectDoes, Zenon
  <2>3. ASSUME proto # "vmess", Plan(Elems(todo[p])) PROVE Plan(Elems(s))
    <3>1. proto # "ssh"
      BY <2>2, <2>3 DEF Plan, SshPlan, Only, Decisions
    <3>2. Active \in BOOLEAN /\ Agrees(Active)
      BY <1>0 DEF AccountOK, Metas, Active, Agrees
    <3>3. Elems(s) = {<<"install", Active>>}
      BY <2>1, ElemsOf, Zenon
    <3> QED BY <3>1, <3>2, <3>3 DEF Plan, OtherPlan
  <2>4. meta' = meta /\ admitted' = admitted
    BY <1>7 DEF Collect
  <2> QED BY <1>3, <2>1, <2>2, <2>3, <2>4, Zenon
\* The stages of a measure.
<1>8. ASSUME Measure(p) \/ Tally(p) \/ Grow(p) \/ First(p) PROVE Settling'
  <2>0. meta' = meta /\ admitted' = admitted
    BY <1>8 DEF Measure, Tally, Grow, First
  <2>1. ASSUME NEW e, Elems(todo[p]) = {e}, todo[p] # <<>>, e[1] \in Deciding, e[1] \notin Decisions,
               NEW s, Script(s), Replaced(p, s),
               \A x \in Elems(s) : x[1] \in Deciding \/ (x[1] = "set" /\ x[2] \in {"used", "last"})
        PROVE  Settling'
    <3>1. ASSUME proto # "vmess", Plan(Elems(todo[p])) PROVE Plan(Elems(s))
      <4>1. e[1] \in Deciding /\ e[1] \notin Decisions
        BY <2>1
      <4>2. proto # "ssh" /\ Agrees(admitted)
        BY <2>1, <3>1, <4>1, DecisionPlan
      <4> QED BY <2>1, <4>2, DecidingPlanned
    <3> QED BY <1>3, <2>0, <2>1, <3>1, Zenon
  <2>2. ASSUME Measure(p) PROVE Settling'
    <3>1. PICK r \in {raw, 0}, c \in Uses, q \in Nat : \E s :
            /\ Elems(todo[p]) = {<<"measure", c, q>>} /\ todo[p] # <<>>
            /\ Script(s) /\ Replaced(p, s) /\ Elems(s) = {<<"tally", c, q, r>>}
      BY <2>2, MeasureDoes
    <3>2. <<"measure", c, q>>[1] \in Deciding /\ <<"measure", c, q>>[1] \notin Decisions /\ <<"tally", c, q, r>>[1] \in Deciding
      BY DEF Deciding, Decisions
    <3> QED BY <2>1, <3>1, <3>2
  <2>3. ASSUME Tally(p) PROVE Settling'
    <3>1. PICK c \in Uses, q \in Nat, r \in Nat : \E s :
            /\ Elems(todo[p]) = {<<"tally", c, q, r>>} /\ todo[p] # <<>>
            /\ Script(s) /\ Replaced(p, s)
            /\ Elems(s) = IF meta.here THEN {<<"grow", c, q, r, meta.used>>} ELSE {<<c, q, r>>}
      BY <2>3, TallyDoes, Zenon
    <3>2. /\ <<"tally", c, q, r>>[1] \in Deciding /\ <<"tally", c, q, r>>[1] \notin Decisions
          /\ <<"grow", c, q, r, meta.used>>[1] \in Deciding /\ <<c, q, r>>[1] \in Deciding
      BY DEF Deciding, Decisions, Uses
    <3> QED BY <2>1, <3>1, <3>2
  <2>4. ASSUME Grow(p) PROVE Settling'
    <3>1. PICK c \in Uses, q \in Nat, r \in Nat, u \in Nat, d \in Steps : \E s :
            /\ Elems(todo[p]) = {<<"grow", c, q, r, u>>} /\ todo[p] # <<>>
            /\ Script(s) /\ Replaced(p, s) /\ Growth(r) \in Nat
            /\ Elems(s) = (IF Growth(r) > 0 THEN {Set("used", u + Growth(r))} ELSE {}) \cup {Set("last", r), d}
            /\ d = <<"first", c, q, r>> \/ \E n \in Nat : d = <<c, q, n>>
            /\ slips' = IF p \in sole THEN slips ELSE slips + 1
      BY <2>4, GrowDoes, Zenon
    <3>2. /\ <<"grow", c, q, r, u>>[1] \in Deciding /\ <<"grow", c, q, r, u>>[1] \notin Decisions
          /\ d[1] \in Deciding
      BY <3>1 DEF Deciding, Decisions, Uses
    <3>3. PICK s :
            /\ Elems(todo[p]) = {<<"grow", c, q, r, u>>} /\ todo[p] # <<>> /\ Script(s) /\ Replaced(p, s)
            /\ Elems(s) = (IF Growth(r) > 0 THEN {Set("used", u + Growth(r))} ELSE {}) \cup {Set("last", r), d}
      BY <3>1
    <3>4. ASSUME NEW x \in Elems(s) PROVE x[1] \in Deciding \/ (x[1] = "set" /\ x[2] \in {"used", "last"})
      <4>1. x = Set("used", u + Growth(r)) \/ x = Set("last", r) \/ x = d
        BY <3>3, <3>4
      <4> QED BY <3>2, <4>1 DEF Set
    <3> QED BY <2>1, <3>2, <3>3, <3>4
  <2>5. ASSUME First(p) PROVE Settling'
    <3>1. PICK c \in Uses, q \in Nat, r \in Nat : \E s :
            /\ Elems(todo[p]) = {<<"first", c, q, r>>} /\ todo[p] # <<>>
            /\ Script(s) /\ Replaced(p, s)
            /\ Elems(s) = (IF meta.used = 0 THEN {Set("used", r)} ELSE {}) \cup {<<c, q, r>>}
      BY <2>5, FirstDoes, Zenon
    <3>2. /\ <<"first", c, q, r>>[1] \in Deciding /\ <<"first", c, q, r>>[1] \notin Decisions
          /\ <<c, q, r>>[1] \in Deciding
      BY DEF Deciding, Decisions, Uses
    <3>3. PICK s :
            /\ Elems(todo[p]) = {<<"first", c, q, r>>} /\ todo[p] # <<>> /\ Script(s) /\ Replaced(p, s)
            /\ Elems(s) = (IF meta.used = 0 THEN {Set("used", r)} ELSE {}) \cup {<<c, q, r>>}
      BY <3>1
    <3>4. ASSUME NEW x \in Elems(s) PROVE x[1] \in Deciding \/ (x[1] = "set" /\ x[2] \in {"used", "last"})
      <4>1. x = Set("used", r) \/ x = <<c, q, r>>
        BY <3>3, <3>4
      <4> QED BY <3>2, <4>1 DEF Set
    <3> QED BY <2>1, <3>2, <3>3, <3>4
  <2> QED BY <1>8, <2>2, <2>3, <2>4, <2>5
<1>9. ASSUME NEW e, Elems(todo[p]) = {e}, e[1] \in Decisions, proto # "vmess", Plan(Elems(todo[p]))
      PROVE  /\ proto = "ssh" => meta.here /\ (meta.locked \/ admitted)
             /\ proto # "ssh" /\ e[1] \in Deciding => Agrees(admitted)
  BY <1>9, DecisionPlan
<1>10. ASSUME Judge(p) PROVE Settling'
  <2>1. PICK q \in Nat, n \in Nat : \E s :
           /\ Elems(todo[p]) = {<<"judge", q, n>>} /\ todo[p] # <<>>
           /\ Script(s) /\ Replaced(p, s)
           /\ \/ Elems(s) = {} \/ Elems(s) = {<<"lock", "quota_hit">>}
              \/ proto \in Metered /\ Elems(s) = {<<"measure", "free", q>>}
              \/ \E m \in Nat : Elems(s) = {<<"free", q, m>>}
    BY <1>10, JudgeDoes, Zenon
  <2>2. PICK s :
           /\ Elems(todo[p]) = {<<"judge", q, n>>} /\ todo[p] # <<>>
           /\ Script(s) /\ Replaced(p, s)
           /\ \/ Elems(s) = {} \/ Elems(s) = {<<"lock", "quota_hit">>}
              \/ proto \in Metered /\ Elems(s) = {<<"measure", "free", q>>}
              \/ \E m \in Nat : Elems(s) = {<<"free", q, m>>}
    BY <2>1, Zenon
  <2>3. ASSUME proto # "vmess", Plan(Elems(todo[p])) PROVE Plan(Elems(s))
    <3>1. /\ proto = "ssh" => meta.here /\ (meta.locked \/ admitted)
          /\ proto # "ssh" => Agrees(admitted)
      <4>1. <<"judge", q, n>>[1] \in Decisions /\ <<"judge", q, n>>[1] \in Deciding
        BY DEF Decisions, Deciding
      <4> QED BY <1>9, <2>2, <2>3, <4>1
    <3>2. /\ Plan({})
          /\ \A e : e[1] \in Decisions \cap Deciding => Plan({e})
          /\ proto # "ssh" => \A e : e[1] \in Deciding => Plan({e})
      BY <3>1, RestPlanned
    <3>3. /\ <<"lock", "quota_hit">>[1] \in Decisions \cap Deciding
          /\ \A m : <<"free", q, m>>[1] \in Decisions \cap Deciding
          /\ <<"measure", "free", q>>[1] \in Deciding /\ (proto \in Metered => proto # "ssh")
      BY DEF Decisions, Deciding, Metered
    <3> QED BY <2>2, <3>2, <3>3
  <2>4. meta' = meta /\ admitted' = admitted
    BY <1>10 DEF Judge
  <2> QED BY <1>3, <2>2, <2>3, <2>4, Zenon
<1>11. ASSUME Lock(p) PROVE Settling'
  <2>1. PICK why \in {"quota_hit", "exp_lock"} : \E s :
           /\ Elems(todo[p]) = {<<"lock", why>>} /\ todo[p] # <<>>
           /\ Script(s) /\ Replaced(p, s)
           /\ s = IF meta.locked THEN <<>> ELSE LockFor(why)
    BY <1>11, LockDoes, Zenon
  <2>2. PICK s :
           /\ Elems(todo[p]) = {<<"lock", why>>} /\ todo[p] # <<>>
           /\ Script(s) /\ Replaced(p, s)
           /\ s = IF meta.locked THEN <<>> ELSE LockFor(why)
    BY <2>1, Zenon
  <2>3. ASSUME proto # "vmess", Plan(Elems(todo[p])) PROVE Plan(Elems(s))
    <3>1. /\ proto = "ssh" => meta.here /\ (meta.locked \/ admitted)
          /\ proto # "ssh" => Agrees(admitted)
      <4>1. <<"lock", why>>[1] \in Decisions /\ <<"lock", why>>[1] \in Deciding
        BY DEF Decisions, Deciding
      <4> QED BY <1>9, <2>2, <2>3, <4>1
    <3>2. Plan(Elems(<<>>))
      BY <3>1, RestPlanned, ElemsOf
    <3>3. Plan(Elems(LockFor(why)))
      BY <1>0, <3>1, LockForPlanned
    <3> QED BY <2>2, <3>2, <3>3
  <2>4. meta' = meta /\ admitted' = admitted
    BY <1>11 DEF Lock
  <2> QED BY <1>3, <2>2, <2>3, <2>4, Zenon
<1>12. ASSUME Free(p) PROVE Settling'
  <2>1. PICK q \in Nat, n \in Nat : \E s :
           /\ Elems(todo[p]) = {<<"free", q, n>>} /\ todo[p] # <<>>
           /\ Script(s) /\ Replaced(p, s) /\ (s = <<>> \/ s = Release)
    BY <1>12, FreeDoes, Zenon
  <2>2. PICK s :
           /\ Elems(todo[p]) = {<<"free", q, n>>} /\ todo[p] # <<>>
           /\ Script(s) /\ Replaced(p, s) /\ (s = <<>> \/ s = Release)
    BY <2>1, Zenon
  <2>3. ASSUME proto # "vmess", Plan(Elems(todo[p])) PROVE Plan(Elems(s))
    <3>1. /\ proto = "ssh" => meta.here /\ (meta.locked \/ admitted)
          /\ proto # "ssh" => Agrees(admitted)
      <4>1. <<"free", q, n>>[1] \in Decisions /\ <<"free", q, n>>[1] \in Deciding
        BY DEF Decisions, Deciding
      <4> QED BY <1>9, <2>2, <2>3, <4>1
    <3>2. Plan(Elems(<<>>))
      BY <3>1, RestPlanned, ElemsOf
    <3>3. Plan(Elems(Release))
      BY <1>0, <3>1, ReleasePlanned
    <3> QED BY <2>2, <3>2, <3>3
  <2>4. meta' = meta /\ admitted' = admitted
    BY <1>12 DEF Free
  <2> QED BY <1>3, <2>2, <2>3, <2>4, Zenon
<1>13. ASSUME Rewrite(p) PROVE Settling'
  <2>1. Script(KeptScript)
    BY <1>0, KeptScriptSteps DEF AccountOK
  <2>2. Elems(todo[p]) = {<<"rewrite">>} /\ todo[p] # <<>> /\ Replaced(p, KeptScript)
    BY <1>13, <2>1, RenewalDoes DEF Rewrite, KeptScript
  <2>3. PICK s : s = KeptScript /\ Script(s) /\ Replaced(p, s)
    BY <2>1, <2>2
  <2>4. proto # "vmess" /\ Plan(Elems(todo[p])) => Plan(Elems(s))'
    BY <1>1, <1>13, <2>2, <2>3, RewritePlan DEF Rewrite
  <2> QED BY <1>2, <2>2, <2>3, <2>4, Zenon
<1>14. ASSUME NEW k \in {"renewed", "requoted"}, NEW s, Goes(p, k), Then(p, s), meta' = meta, admitted' = admitted,
              (k = "renewed" /\ s = RenewedScript) \/ (k = "requoted" /\ s = RequotedScript)
       PROVE  Settling'
  <2>1. Script(s)
    BY <1>14, RenewedScriptSteps, RequotedScriptSteps
  <2>2. Elems(todo[p]) = {<<k>>} /\ todo[p] # <<>> /\ Replaced(p, s)
    BY <1>14, <2>1, RenewalDoes
  <2>3. ASSUME proto # "vmess", Plan(Elems(todo[p])) PROVE Plan(Elems(s))
    <3>1. proto = "ssh" => meta.here /\ (meta.locked \/ admitted)
      BY <1>9, <2>2, <2>3 DEF Decisions
    <3> QED BY <1>14, <3>1, RenewedPlanned
  <2> QED BY <1>3, <1>14, <2>1, <2>2, <2>3, Zenon
<1>15. ASSUME Renewed(p) PROVE Settling'
  <2>1. Goes(p, "renewed") /\ Then(p, RenewedScript) /\ meta' = meta /\ admitted' = admitted
    BY <1>15 DEF Renewed, RenewedScript
  <2> QED BY <1>14, <2>1
<1>16. ASSUME Requoted(p) PROVE Settling'
  <2>1. Goes(p, "requoted") /\ Then(p, RequotedScript) /\ meta' = meta /\ admitted' = admitted
    BY <1>16 DEF Requoted, RequotedScript
  <2> QED BY <1>14, <2>1
<1> QED BY <1>4, <1>6, <1>7, <1>8, <1>10, <1>11, <1>12, <1>13, <1>15, <1>16, Zenon DEF Command

\* A call that begins.
LEMMA BegunSettling ==
  ASSUME TypeOK, Settling, NEW p \in Procs, NEW s, Begun(p, s),
         proto # "vmess" /\ Plan({}) => Plan(Elems(s))
  PROVE  Settling'
<1>0. TodoOK /\ Script(s) /\ Replaced(p, s)
  BY DEF TypeOK, Begun
<1>1. ASSUME clean', proto' # "vmess" PROVE (\A q \in Procs \ {p} : Idle(q)) /\ Plan(Elems(s))'
  <2>1. clean /\ AtRest /\ proto # "vmess"
    BY <1>1 DEF Begun
  <2>2. Plan(Elems(s))
    BY <2>1, SettlingRest
  <2>3. /\ proto' = proto /\ admitted' = admitted /\ meta'.here = meta.here /\ meta'.locked = meta.locked
        /\ Active' => Active
    BY DEF Begun, Active
  <2>4. Plan(Elems(s))'
    BY <2>2, <2>3, PlanKept
  <2> QED BY <2>1, <2>4 DEF AtRest
<1> QED BY <1>0, <1>1, SettledBy

\* What holds when nothing is left to do.
LEMMA RestMeans ==
  ASSUME Plan({})
  PROVE  /\ proto = "ssh" /\ meta.here => meta.locked \/ admitted
         /\ proto # "ssh" => Agrees(admitted)
<1>1. ASSUME proto = "ssh", meta.here PROVE meta.locked \/ admitted
  BY <1>1 DEF Plan, SshPlan, WillLock, WillAdmit
<1>2. ASSUME proto # "ssh" PROVE Agrees(admitted)
  BY <1>2 DEF Plan, OtherPlan
<1> QED BY <1>1, <1>2

\* quota_enforce and the SSH timer begin.
LEMMA CronSettling ==
  ASSUME TypeOK, Settling, NEW p \in Procs, Enforce(p) \/ ExpiryEnforce(p)
  PROVE  Settling'
<1>1. ASSUME Enforce(p) PROVE Settling'
  <2>1. PICK s : /\ Begun(p, s) /\ meta.here /\ p \in Crons
                 /\ \/ Elems(s) = {<<"lock", "exp_lock">>}
                    \/ proto \in Metered /\ \E q \in Nat : Elems(s) = {<<"measure", "judge", q>>}
                    \/ \E q \in Nat, n \in Nat : Elems(s) = {<<"judge", q, n>>}
    BY <1>1, EnforceDoes, Zenon
  <2>2. ASSUME proto # "vmess", Plan({}) PROVE Plan(Elems(s))
    <3>1. /\ proto = "ssh" => meta.here /\ (meta.locked \/ admitted)
          /\ proto # "ssh" => Agrees(admitted)
      BY <2>1, <2>2, RestMeans
    <3>2. /\ \A e : e[1] \in Decisions \cap Deciding => Plan({e})
          /\ proto # "ssh" => \A e : e[1] \in Deciding => Plan({e})
      BY <3>1, RestPlanned
    <3>3. /\ <<"lock", "exp_lock">>[1] \in Decisions \cap Deciding
          /\ \A q, n : <<"judge", q, n>>[1] \in Decisions \cap Deciding
          /\ \A q : <<"measure", "judge", q>>[1] \in Deciding
          /\ proto \in Metered => proto # "ssh"
      BY DEF Decisions, Deciding, Metered
    <3> QED BY <2>1, <3>2, <3>3
  <2> QED BY <2>1, <2>2, BegunSettling, Zenon
<1>2. ASSUME ExpiryEnforce(p) PROVE Settling'
  <2>1. Begun(p, ExpiryCall) /\ meta.here /\ proto = "ssh"
    BY <1>2, ExpiryDoes
  <2>2. Elems(ExpiryCall) = {<<"passwd", FALSE>>, Set("locked", TRUE), Set("exp_lock", TRUE)}
    BY <2>1, CallSteps, Zenon
  <2>3. Elems(ExpiryCall) \subseteq {<<"passwd", FALSE>>, <<"kill">>} \cup {Set(f, TRUE) : f \in Flags}
    BY <2>2 DEF Flags
  <2>4. Plan(Elems(ExpiryCall))
    BY <2>1, <2>2, <2>3, ShutPlanned
  <2> QED BY <2>1, <2>4, BegunSettling
<1> QED BY <1>1, <1>2

\* The calls of the panel begin.
LEMMA PanelSettling ==
  ASSUME TypeOK, Settling, NEW p \in Procs, Panel(p)
  PROVE  Settling'
<1>1. PICK s :
    /\ Begun(p, s) /\ p \in Admins
    /\ \/ meta.here /\ ~meta.locked /\ s = LockCall
       \/ meta.here /\ meta.locked /\ s = UnlockCall
       \/ meta.here /\ Elems(s) = {<<"rewrite">>}
       \/ meta.here /\ proto \in Metered /\ Elems(s) = {<<"measure", "shown", 0>>}
       \/ meta.here /\ \E q \in Nat : Elems(s) = {Set("quota", q), <<"requoted">>}
       \/ meta.here /\ s = PasswordCall
       \/ meta.here /\ s = DeleteCall
       \/ ~meta.here /\ (proto = "ssh" => ~admitted) /\ \E q \in Nat : s = CreateCall(q)
  BY PanelDoes, Zenon
<1> SUFFICES ASSUME proto # "vmess", Plan({}) PROVE Plan(Elems(s))
  BY <1>1, BegunSettling, Zenon
<1>2. CASE proto = "ssh"
  <2>0. meta.here => meta.locked \/ admitted
    BY <1>2, RestMeans
  <2>1. ASSUME meta.here, s = LockCall PROVE Plan(Elems(s))
    <3>1. Elems(s) = {<<"passwd", FALSE>>, Set("locked", TRUE)}
      BY <1>2, <2>1, CallSteps, Zenon
    <3>2. Elems(s) \subseteq {<<"passwd", FALSE>>, <<"kill">>} \cup {Set(f, TRUE) : f \in Flags}
      BY <3>1 DEF Flags
    <3> QED BY <1>2, <2>1, <3>1, <3>2, ShutPlanned
  <2>2. ASSUME meta.here, s = UnlockCall \/ s = PasswordCall PROVE Plan(Elems(s))
    <3>1. Elems(s) = {<<"passwd", TRUE>>, Set("locked", FALSE)} \/ Elems(s) = {<<"passwd", TRUE>>}
      BY <1>2, <2>2, CallSteps, Zenon
    <3>2. Elems(s) \subseteq {<<"passwd", TRUE>>} \cup {Set(f, FALSE) : f \in Flags}
      BY <3>1 DEF Flags
    <3> QED BY <1>2, <2>2, <3>1, <3>2, AdmitPlanned
  <2>3. ASSUME meta.here, \/ Elems(s) = {<<"rewrite">>}
                          \/ \E q \in Nat : Elems(s) = {Set("quota", q), <<"requoted">>}
        PROVE  Plan(Elems(s))
    <3>1. /\ \A b \in BOOLEAN : <<"passwd", b>> \notin Elems(s) /\ Set("locked", b) \notin Elems(s)
          /\ Only(Elems(s), {"set", "passwd", "kill"} \cup Decisions)
      <4>1. \A q : /\ \A b \in BOOLEAN : /\ <<"passwd", b>> # Set("quota", q) /\ <<"passwd", b>> # <<"requoted">>
                                         /\ <<"passwd", b>> # <<"rewrite">> /\ Set("locked", b) # Set("quota", q)
                                         /\ Set("locked", b) # <<"requoted">> /\ Set("locked", b) # <<"rewrite">>
                   /\ Set("quota", q)[1] = "set" /\ <<"requoted">>[1] = "requoted" /\ <<"rewrite">>[1] = "rewrite"
        BY DEF Set
      <4> QED BY <2>3, <4>1 DEF Only, Decisions
    <3>2. WillLock(Elems(s)) \/ WillAdmit(Elems(s))
      BY <2>0, <2>3, <3>1 DEF WillLock, WillAdmit
    <3> QED BY <1>2, <2>3, <3>1, <3>2, SshPlanned
  <2>4. ASSUME s = DeleteCall PROVE Plan(Elems(s))
    <3>1. Elems(s) = {<<"unlink">>, <<"passwd", FALSE>>}
      BY <1>2, <2>4, CallSteps, Zenon
    <3>2. /\ \A b \in BOOLEAN : Set("locked", b) \notin Elems(s)
          /\ <<"passwd", TRUE>> \notin Elems(s) /\ <<"passwd", FALSE>> \in Elems(s)
          /\ <<"unlink">> \in Elems(s) /\ <<"unlink">>[1] = "unlink"
          /\ Only(Elems(s), {"unlink", "passwd"})
      <4>1. /\ \A b \in BOOLEAN : Set("locked", b) # <<"unlink">> /\ Set("locked", b) # <<"passwd", FALSE>>
            /\ <<"passwd", TRUE>> # <<"unlink">> /\ <<"passwd", TRUE>> # <<"passwd", FALSE>>
            /\ <<"unlink">>[1] = "unlink" /\ <<"passwd", FALSE>>[1] = "passwd"
        BY DEF Set
      <4> QED BY <3>1, <4>1 DEF Only
    <3>3. ~WillAdmit(Elems(s))
      BY <3>2 DEF WillAdmit
    <3>4. SshPlan(Elems(s))
      BY <3>2, <3>3 DEF SshPlan
    <3> QED BY <1>2, <3>4 DEF Plan
  <2>5. ASSUME NEW q \in Nat, s = CreateCall(q) PROVE Plan(Elems(s))
    <3>1. Elems(s) = {<<"passwd", TRUE>>, <<"write_meta", q>>}
      BY <1>2, <2>5, CallSteps, Zenon
    <3>2. /\ \A b \in BOOLEAN : Set("locked", b) \notin Elems(s)
          /\ <<"passwd", FALSE>> \notin Elems(s) /\ <<"passwd", TRUE>> \in Elems(s)
          /\ <<"write_meta", q>> \in Elems(s) /\ <<"write_meta", q>>[1] = "write_meta"
          /\ Only(Elems(s), {"write_meta", "passwd"})
      <4>1. /\ \A b \in BOOLEAN : Set("locked", b) # <<"write_meta", q>> /\ Set("locked", b) # <<"passwd", TRUE>>
            /\ <<"passwd", FALSE>> # <<"write_meta", q>> /\ <<"passwd", FALSE>> # <<"passwd", TRUE>>
            /\ <<"write_meta", q>>[1] = "write_meta" /\ <<"passwd", TRUE>>[1] = "passwd"
        BY DEF Set
      <4> QED BY <3>1, <4>1 DEF Only
    <3>3. WillAdmit(Elems(s))
      BY <3>2 DEF WillAdmit
    <3>4. SshPlan(Elems(s))
      BY <3>2, <3>3 DEF SshPlan
    <3> QED BY <1>2, <3>4 DEF Plan
  <2> QED BY <1>1, <1>2, <2>1, <2>2, <2>3, <2>4, <2>5 DEF Metered
<1>3. CASE proto # "ssh"
  <2>0. Agrees(admitted)
    BY <1>3, RestMeans
  <2>1. ASSUME <<"collect">> \in Elems(s) \/ <<"rewrite">> \in Elems(s) \/ <<"requoted">> \in Elems(s)
        PROVE  Plan(Elems(s))
    <3>1. <<"collect">>[1] \in Making /\ <<"rewrite">>[1] \in Making /\ <<"requoted">>[1] \in Making
      BY DEF Making
    <3> QED BY <1>3, <2>1, <3>1, MakingPlanned
  <2>2. ASSUME Elems(s) = {<<"measure", "shown", 0>>} PROVE Plan(Elems(s))
    <3>1. <<"measure", "shown", 0>>[1] \in Deciding
      BY DEF Deciding
    <3> QED BY <1>3, <2>0, <2>2, <3>1, DecidingPlanned
  <2>3. /\ <<"collect">> \in Elems(LockCall) /\ <<"collect">> \in Elems(UnlockCall)
        /\ <<"collect">> \in Elems(PasswordCall) /\ <<"collect">> \in Elems(DeleteCall)
        /\ \A q \in Nat : <<"collect">> \in Elems(CreateCall(q))
    BY <1>3, CallSteps
  <2> QED BY <1>1, <2>1, <2>2, <2>3
<1> QED BY <1>2, <1>3

\* The tracker and the environment.
LEMMA KeptSettling ==
  ASSUME Settling, proto' = proto, admitted' = admitted, meta'.here = meta.here, meta'.locked = meta.locked,
         Active' => Active, todo' = todo, clean' = clean
  PROVE  Settling'
<1> SUFFICES ASSUME clean, proto # "vmess"
             PROVE  \E p \in Procs : (\A q \in Procs \ {p} : Idle(q)') /\ Plan(Elems(todo[p]))'
  BY DEF Settling
<1>1. PICK p \in Procs : (\A q \in Procs \ {p} : Idle(q)) /\ Plan(Elems(todo[p]))
  BY DEF Settling
<1>2. PICK s : s = todo[p]
  OBVIOUS
<1>3. Plan(Elems(s))'
  BY <1>1, <1>2, PlanKept
<1>4. Plan(Elems(todo[p]))'
  BY <1>2, <1>3 DEF Plan
<1> QED BY <1>1, <1>4 DEF Idle

\* The tracker changes no flag, and its lock is a script like the others.
LEMMA TrackerSettling ==
  ASSUME TypeOK, Settling, Tracker
  PROVE  Settling'
<1>0. meta \in Metas
  BY DEF TypeOK, AccountOK
<1>1. ASSUME TrackStart \/ Poll \/ RebuildTable \/ Save PROVE Settling'
  <2>1. proto' = proto /\ admitted' = admitted /\ todo' = todo /\ clean' = clean
    BY <1>1 DEF TrackStart, Poll, RebuildTable, Save, Tracking
  <2>2. meta'.here = meta.here /\ meta'.locked = meta.locked /\ meta'.past = meta.past
    BY <1>0, <1>1 DEF TrackStart, Poll, RebuildTable, Save, Metas
  <2>3. Active' => Active
    BY <2>2 DEF Active
  <2> QED BY <2>1, <2>2, <2>3, KeptSettling
<1>2. ASSUME Flush PROVE Settling'
  <2>1. proto' = proto /\ admitted' = admitted /\ proto = "ssh"
    BY <1>2, TrackerIsSsh DEF Flush, TypeOK
  <2>2. meta'.here = meta.here /\ meta'.locked = meta.locked /\ meta'.past = meta.past
    BY <1>0, <1>2 DEF Flush, Metas
  <2>3. Active' => Active
    BY <2>2 DEF Active
  <2>4. \/ todo' = todo /\ clean' = clean
        \/ Replaced("tracker", TrackerLock) /\ clean' = (clean /\ AtRest) /\ meta.here
    <3> DEFINE hit == /\ meta.here
                      /\ Over(meta.quota, meta.used + (IF meta.here THEN Total(Grown, DOMAIN trk.last) ELSE 0) + Live)
                      /\ ~meta.locked
    <3>1. /\ todo' = IF hit THEN [todo EXCEPT !["tracker"] = TrackerLock] ELSE todo
          /\ clean' = (clean /\ (hit => AtRest)) /\ (hit => meta.here) /\ clean \in BOOLEAN
      BY <1>2 DEF Flush, AtRest, TypeOK, AccountOK
    <3> HIDE DEF hit
    <3>2. CASE hit
      BY <3>1, <3>2, Zenon DEF Replaced
    <3>3. CASE ~hit
      <4>1. todo' = todo
        BY <3>1, <3>3
      <4>2. clean' = clean
        BY <3>1, <3>3
      <4> QED BY <4>1, <4>2
    <3> QED BY <3>2, <3>3
  <2>5. ASSUME Replaced("tracker", TrackerLock), clean' = (clean /\ AtRest), meta.here PROVE Settling'
    <3>1. "tracker" \in Procs /\ Script(TrackerLock) /\ TodoOK
      BY TrackerLockSteps, PlainScript DEF Procs, TypeOK
    <3>2. PICK s : s = TrackerLock
      OBVIOUS
    <3>3. Elems(s) = {Set("quota_hit", TRUE), <<"passwd", FALSE>>, Set("locked", TRUE), <<"kill">>}
      BY <2>1, <3>2, TrackerLockSteps
    <3>4. Elems(s) \subseteq {<<"passwd", FALSE>>, <<"kill">>} \cup {Set(f, TRUE) : f \in Flags}
      BY <3>3 DEF Flags
    <3>5. Plan(Elems(s))
      BY <2>1, <2>5, <3>3, <3>4, ShutPlanned
    <3>6. Plan(Elems(s))'
      BY <2>1, <2>2, <2>3, <3>5, PlanKept
    <3>7. clean' => \A q \in Procs \ {"tracker"} : Idle(q)
      BY <2>5 DEF AtRest
    <3> QED BY <2>5, <3>1, <3>2, <3>6, <3>7, SettledBy
  <2> QED BY <2>1, <2>2, <2>3, <2>4, <2>5, KeptSettling
<1> QED BY <1>1, <1>2 DEF Tracker

\* Traffic and expiry change no decision; a crash during a call ends what is promised.
LEMMA EnvironmentSettling ==
  ASSUME TypeOK, Settling, Environment
  PROVE  Settling'
<1>0. meta \in Metas /\ TodoOK
  BY DEF TypeOK, AccountOK
<1>1. ASSUME Carry \/ Restart \/ Expire \/ \E c \in Conns : Login(c) \/ Close(c) \/ CarrySsh(c)
      PROVE  Settling'
  <2>1. proto' = proto /\ admitted' = admitted /\ todo' = todo /\ clean' = clean
    BY <1>1 DEF Carry, Restart, Expire, Login, Close, CarrySsh, Tracking
  <2>2. /\ meta'.here = meta.here /\ meta'.locked = meta.locked
        /\ meta'.past = meta.past \/ meta'.past
    BY <1>0, <1>1 DEF Carry, Restart, Expire, Login, Close, CarrySsh, Metas
  <2>3. Active' => Active
    BY <2>2 DEF Active
  <2> QED BY <2>1, <2>2, <2>3, KeptSettling
<1>2. ASSUME TrackCrash PROVE Settling'
  <2>1. Replaced("tracker", <<>>) /\ "tracker" \in Procs /\ Script(<<>>)
    BY <1>2, NoSteps DEF TrackCrash, Replaced, Procs
  <2>2. proto' = proto /\ meta' = meta /\ admitted' = admitted /\ clean' = (clean /\ Idle("tracker"))
    BY <1>2 DEF TrackCrash
  <2>3. CASE Idle("tracker")
    <3>1. todo' = todo
      BY <1>0, <1>2, <2>3 DEF TrackCrash, Idle, TodoOK
    <3>2. clean' = clean
      BY <2>2, <2>3 DEF TypeOK, AccountOK
    <3>3. Active' => Active
      BY <2>2 DEF Active
    <3> QED BY <2>2, <3>1, <3>2, <3>3, KeptSettling
  <2>4. CASE ~Idle("tracker")
    BY <2>2, <2>4 DEF Settling
  <2> QED BY <2>3, <2>4
<1>3. ASSUME Reboot PROVE Settling'
  <2>1. proto' = proto /\ meta' = meta /\ admitted' = admitted /\ clean' = (clean /\ AtRest)
    BY <1>3 DEF Reboot, AtRest
  <2>2. CASE AtRest
    <3>1. todo' = todo
      BY <1>0, <1>3, <2>2 DEF Reboot, AtRest, Idle, TodoOK
    <3>2. clean' = clean
      BY <2>1, <2>2 DEF TypeOK, AccountOK
    <3>3. Active' => Active
      BY <2>1 DEF Active
    <3> QED BY <2>1, <3>1, <3>2, <3>3, KeptSettling
  <2>3. CASE ~AtRest
    BY <2>1, <2>3 DEF Settling
  <2> QED BY <2>2, <2>3
<1> QED BY <1>1, <1>2, <1>3 DEF Environment

\* Every step keeps it.
LEMMA NextSettling == TypeOK /\ Settling /\ [Next]_vars => Settling'
<1> SUFFICES ASSUME TypeOK, Settling, [Next]_vars PROVE Settling'
  OBVIOUS
<1>1. CASE UNCHANGED vars
  <2>1. Active' => Active
    BY <1>1 DEF vars, Active
  <2> QED BY <1>1, <2>1, KeptSettling DEF vars
<1>2. ASSUME NEW p \in Procs, Command(p) \/ Enforce(p) \/ ExpiryEnforce(p) \/ Panel(p) PROVE Settling'
  BY <1>2, CommandSettling, CronSettling, PanelSettling
<1> QED BY <1>1, <1>2, TrackerSettling, EnvironmentSettling, Zenon DEF Next

\* SettledAsDecided, always: after calls of the panel, of cron and of the tracker that
\* ran one at a time and to their end, an SSH, V2Ray or hysteria account that is neither
\* locked nor expired is admitted, and no deleted one is, nor, but for SSH, a locked one.
THEOREM Settles == Spec => []SettledAsDecided
BY Types, InitSettling, NextSettling, SettlingShown, PTL DEF Spec

-----------------------------------------------------------------------------
\* BilledAtMostCarried.

\* What may have been billed.
Bill == (1 + slips) * carried

\* The bound, when more is carried and after one more slip.
LEMMA Bills ==
  ASSUME NEW s \in Nat, NEW c \in Nat
  PROVE  /\ (1 + s) * c \in Nat /\ c <= (1 + s) * c
         /\ (1 + (s + 1)) * c = (1 + s) * c + c
         /\ (1 + s) * c + 1 <= (1 + s) * (c + 1)
<1>1. s * c \in Nat /\ (1 + s) * c = c + s * c
  OBVIOUS
<1>2. (1 + (s + 1)) * c = (1 + s) * c + c
  OBVIOUS
<1>3. (1 + s) * (c + 1) = (1 + s) * c + (1 + s)
  OBVIOUS
<1>4. (1 + s) * c \in Nat
  BY <1>1
<1> DEFINE b == (1 + s) * c  d == (1 + s) * (c + 1)
<1>5. b + 1 <= d
  <2>1. d = b + (1 + s) /\ b \in Nat
    BY <1>3, <1>4
  <2> HIDE DEF b, d
  <2> QED BY <2>1
<1> QED BY <1>1, <1>2, <1>4, <1>5

\* Scripts that neither measure nor replace the meta file.
Mild(E) == \A e \in E : e[1] \in {"passwd", "kill", "collect"} \/ (e[1] = "set" /\ e[2] \in Flags)

\* Flags, passwords, sessions and configurations are mild.
LEMMA MildParts ==
  /\ \A f \in Flags : \A v : Mild({Set(f, v)})
  /\ \A v : Mild({<<"passwd", v>>})
  /\ Mild({<<"kill">>}) /\ Mild({<<"collect">>}) /\ Mild({})
  /\ \A E, F : Mild(E) /\ Mild(F) => Mild(E \cup F)
  /\ \A E, F : Mild(E) /\ F \in SUBSET E => Mild(F)
<1>2. \A f, v : Set(f, v)[1] = "set" /\ Set(f, v)[2] = f
  BY DEF Set
<1>3. \A v : <<"passwd", v>>[1] = "passwd"
  OBVIOUS
<1>4. <<"kill">>[1] = "kill" /\ <<"collect">>[1] = "collect"
  OBVIOUS
<1> QED BY <1>2, <1>3, <1>4 DEF Mild

-----------------------------------------------------------------------------
\* The invariant.

\* A total or a counter that some process has still to write.
Pending(f, n) == \E p \in Procs : Set(f, n) \in Elems(todo[p])
UsedMay(u) == u = meta.used \/ Pending("used", u)
LastMay(l) == Pending("last", l) \/ (l = meta.last /\ \A n \in Nat : ~Pending("last", n))
\* What the next measure adds if it starts from l.
GrowthFrom(l) == IF raw >= l THEN raw - l ELSE raw

\* A total that a measure started from, or the counter that it takes for one.
From(e, u) == (e[1] = "grow" /\ e[5] = u) \/ (e[1] = "first" /\ e[4] = u)
Basis(u) == \E p \in Procs : \E e \in Elems(todo[p]) : From(e, u)
TotalMay(u) == UsedMay(u) \/ Basis(u)
\* A counter that was answered and not yet compared with the last one.
Asked(e, r) == e[1] \in {"tally", "grow"} /\ e[4] = r
Reading(p, r) == \E e \in Elems(todo[p]) : Asked(e, r)

\* Only the panel replaces the meta file; a total is written by a measure, or by the
\* renewal of an SSH account.
Replacing == {"unlink", "rewrite", "write_meta"}
Field(e) == e[1] \in Stages \/ (e[1] = "set" /\ e[2] \in {"used", "last"})
Decent(p, s) ==
  /\ \A e \in Elems(s) :
       /\ e[1] \in {"measure"} \cup Stages => proto \in Metered
       /\ e[1] \in Replacing => p \in Admins
       /\ e[1] \in {"tally", "grow"} => Elems(s) = {e}
  /\ \A e \in Elems(s) : Field(e) =>
       IF proto = "ssh" THEN p \in Admins /\ \A d \in Elems(s) : d[1] \notin Replacing
       ELSE proto \in Metered
AllDecent == \A p \in Procs : Decent(p, todo[p])

\* Whatever is written next, the growth that the next measure adds is not
\* billed yet; nor is what a measure that runs alone is about to add.
Meter == proto # "ssh" =>
  /\ raw <= carried
  /\ (meta.here /\ proto \in Metered) \/ meta.used = 0
  /\ \A u \in Nat : TotalMay(u) => u <= Bill
  /\ meta.here => \A u \in Nat, l \in Nat : TotalMay(u) /\ LastMay(l) => u + GrowthFrom(l) <= Bill
  /\ \A p \in Procs, r \in Nat : Reading(p, r) =>
       /\ r + GrowthFrom(r) <= carried
       /\ p \in sole => \A u \in Nat : TotalMay(u) => u + Growth(r) + GrowthFrom(r) <= Bill
  /\ \A p \in sole : \A q \in Procs \ {p} : ~Measuring(q)

\* SSH: the counters that the tracker knows or will read back, what it has still to
\* bill of a connection, and what the connections have sent.
Known == IF trk.at # "off" THEN trk.last ELSE IF file.torn THEN NoConns ELSE file.last
Owed(c) ==
  IF c \in DOMAIN Known THEN IF Counted(c) > Known[c] THEN Counted(c) - Known[c] ELSE 0 ELSE Seed(c)
Owing == [c \in Conns |-> Owed(c)]
Sent == [c \in Conns |-> conn[c].sent]
Track == proto = "ssh" =>
  /\ carried = Sum(Sent, Conns)
  /\ \A c \in Conns : Counted(c) <= conn[c].sent /\ (conn[c].is = "none" => conn[c].sent = 0)
  /\ \A u \in Nat : UsedMay(u) => u + Sum(Owing, Conns) <= Bill /\ (meta.here \/ u = 0)

Billing == AllDecent /\ Meter /\ Track

-----------------------------------------------------------------------------
\* The bound is a number, and at least what was carried.
LEMMA BillNat ==
  ASSUME TypeOK
  PROVE  Bill \in Nat /\ carried <= Bill /\ carried \in Nat /\ slips \in Nat
<1>1. slips \in Nat /\ carried \in Nat
  BY DEF TypeOK, AccountOK
<1> QED BY <1>1, Bills DEF Bill

\* The fields of the meta file that count.
LEMMA MetaNat ==
  ASSUME TypeOK
  PROVE  meta.used \in Nat /\ meta.last \in Nat /\ raw \in Nat /\ meta.here \in BOOLEAN
BY DEF TypeOK, AccountOK, Metas

\* What a measure adds is at most the counter.
LEMMA GrowthLess ==
  ASSUME NEW l \in Nat, raw \in Nat
  PROVE  GrowthFrom(l) \in Nat /\ GrowthFrom(l) <= raw /\ (l = raw => GrowthFrom(l) = 0)
BY DEF GrowthFrom

\* What a measure finds is at most the counter.
LEMMA FoundLess ==
  ASSUME TypeOK, NEW r \in Nat
  PROVE  Growth(r) \in Nat /\ Growth(r) <= r
BY MetaNat DEF Growth

\* Two writes are the same when they write the same value to the same field.
LEMMA SetIs ==
  /\ \A f, v, g, w : Set(f, v) = Set(g, w) <=> f = g /\ v = w
  /\ \A f, v : Set(f, v)[1] = "set" /\ Set(f, v)[2] = f /\ Set(f, v)[3] = v
BY DEF Set

\* A process measures while its script has a stage of a measure or a total to write.
MeasuringMeans ==
  \A p \in Procs : Measuring(p) <=> proto \in Metered /\ \E e \in Elems(todo[p]) : Field(e)
LEMMA MeasuringIs == MeasuringMeans
<1> SUFFICES ASSUME NEW p \in Procs
             PROVE  Measuring(p) <=> proto \in Metered /\ \E e \in Elems(todo[p]) : Field(e)
  BY DEF MeasuringMeans
<1>1. (\E e \in Elems(todo[p]) : Field(e)) <=> \E i \in 1..Len(todo[p]) : Field(todo[p][i])
  BY DEF Elems
<1> QED BY <1>1 DEF Measuring, Field, Stages
LEMMA MeasuringStays == MeasuringMeans'
BY MeasuringIs, PTL

\* A script that writes no total.
Calm(p, E) ==
  \A e \in E : ~Field(e) /\ (e[1] = "measure" => proto \in Metered) /\ (e[1] \in Replacing => p \in Admins)

\* A script that writes no total is decent.
LEMMA CalmDecent ==
  ASSUME NEW p, NEW s, Calm(p, Elems(s))
  PROVE  Decent(p, s)
<1>1. \A e \in Elems(s) : e[1] \notin Stages /\ e[1] \notin {"tally", "grow"}
  BY DEF Calm, Field, Stages
<1> QED BY <1>1 DEF Calm, Decent

\* The scripts that write no total.
LEMMA CalmKinds ==
  /\ \A p, E : Mild(E) => Calm(p, E)
  /\ \A p : /\ Calm(p, {}) /\ \A w : Calm(p, {<<"lock", w>>})
            /\ \A b : Calm(p, {<<"install", b>>})
            /\ \A c \in Uses : \A q, n : Calm(p, {<<c, q, n>>})
            /\ proto \in Metered => \A c, q : Calm(p, {<<"measure", c, q>>})
            /\ \A q : Calm(p, {Set("quota", q), <<"requoted">>})
            /\ Calm(p, {<<"collect">>})
            /\ p \in Admins => Calm(p, {<<"rewrite">>})
<1>1. ASSUME NEW p, NEW E, Mild(E) PROVE Calm(p, E)
  <2>1. \A e \in E : e[1] # "measure" /\ e[1] \notin Replacing
    BY <1>1 DEF Mild, Replacing
  <2>2. \A e \in E : ~Field(e)
    BY <1>1 DEF Mild, Field, Flags, Stages
  <2> QED BY <2>1, <2>2 DEF Calm
<1>2. ASSUME NEW p, NEW e,
             e[1] \in {"lock", "install", "collect", "requoted"} \cup Uses
               \/ (e[1] = "set" /\ e[2] = "quota")
               \/ (e[1] = "measure" /\ proto \in Metered)
               \/ (e[1] = "rewrite" /\ p \in Admins)
      PROVE  ~Field(e) /\ (e[1] = "measure" => proto \in Metered) /\ (e[1] \in Replacing => p \in Admins)
  BY <1>2 DEF Field, Replacing, Uses, Stages
<1>3. ASSUME NEW p
      PROVE  /\ Calm(p, {}) /\ \A w : Calm(p, {<<"lock", w>>})
             /\ \A b : Calm(p, {<<"install", b>>})
             /\ \A c \in Uses : \A q, n : Calm(p, {<<c, q, n>>})
             /\ proto \in Metered => \A c, q : Calm(p, {<<"measure", c, q>>})
             /\ \A q : Calm(p, {Set("quota", q), <<"requoted">>})
             /\ Calm(p, {<<"collect">>})
             /\ p \in Admins => Calm(p, {<<"rewrite">>})
  <2>2. ASSUME NEW e,
               e[1] \in {"lock", "install", "collect", "requoted"} \cup Uses
                 \/ (e[1] = "set" /\ e[2] = "quota")
                 \/ (e[1] = "measure" /\ proto \in Metered)
                 \/ (e[1] = "rewrite" /\ p \in Admins)
        PROVE  Calm(p, {e})
    BY <1>2, <2>2 DEF Calm
  <2>3. \A E, F : Calm(p, E) /\ Calm(p, F) => Calm(p, E \cup F)
    BY DEF Calm
  <2>4. /\ Calm(p, {}) /\ \A w : Calm(p, {<<"lock", w>>})
        /\ \A b : Calm(p, {<<"install", b>>})
        /\ \A c \in Uses : \A q, n : Calm(p, {<<c, q, n>>})
        /\ proto \in Metered => \A c, q : Calm(p, {<<"measure", c, q>>})
        /\ Calm(p, {<<"collect">>})
        /\ p \in Admins => Calm(p, {<<"rewrite">>})
    <3>1. Calm(p, {})
      BY DEF Calm
    <3>2. ASSUME NEW w, NEW e, e = <<"lock", w>> \/ e = <<"install", w>> PROVE Calm(p, {e})
      <4>1. e[1] \in {"lock", "install"}
        BY <3>2
      <4> QED BY <2>2, <4>1
    <3>3. ASSUME NEW c \in Uses, NEW q, NEW n, NEW e, e = <<c, q, n>> PROVE Calm(p, {e})
      <4>1. e[1] \in Uses
        BY <3>3
      <4> QED BY <2>2, <4>1
    <3>4. ASSUME proto \in Metered, NEW c, NEW q, NEW e, e = <<"measure", c, q>> PROVE Calm(p, {e})
      <4>1. e[1] = "measure"
        BY <3>4
      <4> QED BY <2>2, <3>4, <4>1
    <3>5. ASSUME NEW e, e = <<"collect">> \/ (e = <<"rewrite">> /\ p \in Admins) PROVE Calm(p, {e})
      <4>1. e[1] = "collect" \/ (e[1] = "rewrite" /\ p \in Admins)
        BY <3>5
      <4> QED BY <2>2, <4>1
    <3> QED BY <3>1, <3>2, <3>3, <3>4, <3>5, Zenon
  <2>5. ASSUME NEW q PROVE Calm(p, {Set("quota", q), <<"requoted">>})
    <3>1. ASSUME NEW e, e = Set("quota", q) \/ e = <<"requoted">> PROVE Calm(p, {e})
      <4>1. e[1] = "requoted" \/ (e[1] = "set" /\ e[2] = "quota")
        BY <3>1, SetIs
      <4> QED BY <2>2, <4>1
    <3>2. {Set("quota", q), <<"requoted">>} = {Set("quota", q)} \cup {<<"requoted">>}
      OBVIOUS
    <3>3. Calm(p, {Set("quota", q)}) /\ Calm(p, {<<"requoted">>})
      BY <3>1, Zenon
    <3>4. Calm(p, {Set("quota", q)} \cup {<<"requoted">>})
      BY <2>3, <3>3, Zenon
    <3> QED BY <3>2, <3>4, Zenon
  <2> QED BY <2>4, <2>5
<1> QED BY <1>1, <1>3

\* The scripts of flags, passwords and configurations.
LEMMA MildScripts ==
  ASSUME proto \in Protos
  PROVE  /\ \A why \in {"quota_hit", "exp_lock"} : Mild(Elems(LockFor(why)))
         /\ Mild(Elems(Release)) /\ Mild(Elems(RenewedScript)) /\ Mild(Elems(RequotedScript))
         /\ proto = "ssh" => Mild(Elems(TrackerLock)) /\ Mild(Elems(ExpiryCall))
         /\ Mild(Elems(LockCall)) /\ Mild(Elems(UnlockCall)) /\ Mild(Elems(PasswordCall))
<1> DEFINE M == {Set("locked", TRUE), Set("quota_hit", TRUE), Set("exp_lock", TRUE), Set("locked", FALSE),
                 Set("quota_hit", FALSE), Set("exp_lock", FALSE), <<"passwd", TRUE>>, <<"passwd", FALSE>>,
                 <<"kill">>, <<"collect">>}
<1>1. \A e \in M : Mild({e})
  BY MildParts, Zenon DEF Flags
<1>2. \A E \in SUBSET M : Mild(E)
  <2> HIDE DEF M
  <2> QED BY <1>1 DEF Mild
<1>3. /\ Set("locked", TRUE) \in M /\ Set("quota_hit", TRUE) \in M /\ Set("exp_lock", TRUE) \in M
      /\ Set("locked", FALSE) \in M /\ Set("quota_hit", FALSE) \in M /\ Set("exp_lock", FALSE) \in M
      /\ <<"passwd", TRUE>> \in M /\ <<"passwd", FALSE>> \in M /\ <<"kill">> \in M /\ <<"collect">> \in M
  BY Zenon
<1> HIDE DEF M
<1>4. \A why \in {"quota_hit", "exp_lock"} : Elems(LockFor(why)) \in SUBSET M
  BY <1>3, LockForSteps
<1>5. Elems(Release) \in SUBSET M
  <2>1. CASE proto = "ssh"
    BY <1>3, <2>1, ReleaseSteps
  <2>2. CASE proto # "ssh"
    BY <1>3, <2>2, ReleaseSteps
  <2> QED BY <2>1, <2>2
<1>6. Elems(RenewedScript) \in SUBSET M
  BY <1>3, RenewedScriptSteps
<1>7. Elems(RequotedScript) \in SUBSET M
  <2>1. CASE proto = "ssh"
    BY <1>3, <2>1, RequotedScriptSteps
  <2>2. CASE proto # "ssh"
    BY <1>3, <2>2, RequotedScriptSteps
  <2> QED BY <2>1, <2>2
<1>8. proto = "ssh" => Elems(TrackerLock) \in SUBSET M
  BY <1>3, TrackerLockSteps
<1>9. proto = "ssh" => /\ Elems(ExpiryCall) \in SUBSET M /\ Elems(LockCall) \in SUBSET M
                       /\ Elems(UnlockCall) \in SUBSET M /\ Elems(PasswordCall) \in SUBSET M
  BY <1>3, CallSteps
<1>10. proto # "ssh" => /\ Elems(LockCall) \in SUBSET M
                        /\ Elems(UnlockCall) \in SUBSET M /\ Elems(PasswordCall) \in SUBSET M
  BY <1>3, CallSteps
<1> QED BY <1>2, <1>4, <1>5, <1>6, <1>7, <1>8, <1>9, <1>10

-----------------------------------------------------------------------------
\* Sums that grow or shrink.

LEMMA SumLess ==
  ASSUME NEW S, IsFiniteSet(S), NEW F, NEW H,
         \A x \in S : F[x] \in Nat /\ H[x] \in Nat /\ F[x] <= H[x]
  PROVE  Sum(F, S) \in Nat /\ Sum(H, S) \in Nat /\ Sum(F, S) <= Sum(H, S)
<1> DEFINE Z == [x \in S |-> 0]
<1>1. S \in SUBSET S /\ \A x \in S : Z[x] = 0
  OBVIOUS
<1> HIDE DEF Z
<1>2. Sum(F, S) \in Nat /\ Sum(H, S) \in Nat /\ Sum(Z, S) \in Nat
  <2>1. (\A x \in S : F[x] \in Nat) /\ (\A x \in S : H[x] \in Nat) /\ (\A x \in S : Z[x] \in Nat)
    BY <1>1
  <2> QED BY <1>1, <2>1, SumNat
<1>3. \A x \in S : F[x] \in Nat /\ Z[x] \in Nat /\ H[x] \in Nat
  BY <1>1
<1>4. \A x \in S : F[x] + Z[x] <= H[x]
  BY <1>1
<1>5. Sum(F, S) + Sum(Z, S) <= Sum(H, S)
  BY <1>3, <1>4, SumPlus
<1> QED BY <1>2, <1>5

\* A sum out of which a part is taken.
LEMMA SumWith ==
  ASSUME NEW S, IsFiniteSet(S), NEW T \in SUBSET S, NEW F, NEW G, NEW H,
         \A x \in S : F[x] \in Nat /\ H[x] \in Nat /\ F[x] <= H[x],
         \A x \in T : G[x] \in Nat /\ F[x] + G[x] <= H[x]
  PROVE  Sum(F, S) + Sum(G, T) <= Sum(H, S)
<1> DEFINE Z == [x \in S |-> IF x \in T THEN G[x] ELSE 0]
<1>1. (\A x \in T : G[x] \in Nat /\ Z[x] = G[x]) /\ \A x \in S \ T : Z[x] = 0
  OBVIOUS
<1> HIDE DEF Z
<1>2. Sum(Z, S) = Sum(G, T)
  BY <1>1, SumOver
<1>3. \A x \in S : F[x] \in Nat /\ Z[x] \in Nat /\ H[x] \in Nat
  BY <1>1
<1>4. \A x \in S : F[x] + Z[x] <= H[x]
  BY <1>1
<1>5. Sum(F, S) + Sum(Z, S) <= Sum(H, S)
  BY <1>3, <1>4, SumPlus
<1> QED BY <1>2, <1>5

\* A sum of which one element grows by one.
LEMMA SumMore ==
  ASSUME NEW S, IsFiniteSet(S), NEW c \in S, NEW F, NEW H,
         \A x \in S : F[x] \in Nat /\ H[x] \in Nat,
         \A x \in S : x # c => H[x] <= F[x], H[c] <= F[c] + 1
  PROVE  /\ Sum(H, S) <= Sum(F, S) + 1
         /\ (\A x \in S : x # c => H[x] = F[x]) /\ H[c] = F[c] + 1 => Sum(H, S) = Sum(F, S) + 1
<1> DEFINE Z == [x \in S |-> IF x = c THEN 1 ELSE 0]
<1>1. (\A x \in S : x # c => Z[x] = 0) /\ Z[c] = 1
  OBVIOUS
<1>2. Sum(Z, S) = 1
  BY SumOne
<1> HIDE DEF Z
<1>3. \A x \in S : F[x] \in Nat /\ Z[x] \in Nat /\ H[x] \in Nat
  BY <1>1
<1>4. \A x \in S : H[x] <= F[x] + Z[x]
  BY <1>1
<1>5. Sum(H, S) <= Sum(F, S) + Sum(Z, S)
  BY <1>3, <1>4, SumPlus
<1>6. ASSUME \A x \in S : x # c => H[x] = F[x], H[c] = F[c] + 1 PROVE Sum(F, S) + Sum(Z, S) <= Sum(H, S)
  <2>1. \A x \in S : F[x] + Z[x] <= H[x]
    BY <1>1, <1>6
  <2> QED BY <1>3, <2>1, SumPlus
<1>7. Sum(F, S) \in Nat /\ Sum(H, S) \in Nat
  <2>1. (\A x \in S : F[x] \in Nat) /\ (\A x \in S : H[x] \in Nat) /\ S \in SUBSET S
    OBVIOUS
  <2> QED BY <2>1, SumNat
<1> QED BY <1>2, <1>5, <1>6, <1>7

-----------------------------------------------------------------------------
\* What is owed, and what was sent.

LEMMA KnownIs ==
  ASSUME SshOK
  PROVE  /\ DOMAIN Known \in SUBSET Conns /\ \A c \in DOMAIN Known : Known[c] \in Nat
         /\ \A c \in Conns : /\ Owed(c) \in Nat /\ conn[c].sent \in Nat
                             /\ Counted(c) <= conn[c].sent => Owed(c) <= conn[c].sent
<1>1. Table(trk.last) /\ Table(file.last) /\ Table(NoConns)
  BY TrackerFields
<1>2. Table(Known)
  BY <1>1 DEF Known
<1>3. DOMAIN Known \in SUBSET Conns /\ \A c \in DOMAIN Known : Known[c] \in Nat
  BY <1>2 DEF Table
<1>4. \A c \in Conns : Counted(c) \in Nat /\ conn[c].sent \in Nat
  BY CountNat DEF SshOK
<1> QED BY <1>3, <1>4 DEF Owed, Seed

\* The same, before and after a step.
Debts == \A c \in Conns : /\ Owed(c) \in Nat /\ conn[c].sent \in Nat
                          /\ Counted(c) <= conn[c].sent => Owed(c) <= conn[c].sent
\* They are numbers, and no more than was sent.
LEMMA DebtsAre == SshOK => Debts
BY KnownIs DEF Debts
LEMMA DebtsStay == SshOK' => Debts'
BY DebtsAre, PTL

\* So are their sums.
LEMMA SumsAre ==
  ASSUME TypeOK, \A c \in Conns : Counted(c) <= conn[c].sent
  PROVE  Sum(Owing, Conns) \in Nat /\ Sum(Sent, Conns) \in Nat /\ Sum(Owing, Conns) <= Sum(Sent, Conns)
<1>1. \A c \in Conns : Owed(c) \in Nat /\ conn[c].sent \in Nat /\ Owed(c) <= conn[c].sent
  BY KnownIs DEF TypeOK
<1>2. \A c \in Conns : Owing[c] \in Nat /\ Sent[c] \in Nat /\ Owing[c] <= Sent[c]
  BY <1>1 DEF Owing, Sent
<1> QED BY <1>2, ConnsAssumption, SumLess

\* The new debts are known one by one.
LEMMA SumsNext ==
  ASSUME TypeOK, Track, proto = "ssh", NEW o, o = Owing', NEW s, s = Sent',
         \A c \in Conns : o[c] \in Nat /\ s[c] \in Nat /\ o[c] <= s[c]
  PROVE  /\ Sum(o, Conns) \in Nat /\ Sum(s, Conns) \in Nat /\ Sum(o, Conns) <= Sum(s, Conns)
         /\ (\A c \in Conns : o[c] <= Owed(c)) => Sum(o, Conns) <= Sum(Owing, Conns)
         /\ (\A c \in Conns : s[c] = conn[c].sent) => Sum(s, Conns) = carried
<1>1. Sum(o, Conns) \in Nat /\ Sum(s, Conns) \in Nat /\ Sum(o, Conns) <= Sum(s, Conns)
  BY ConnsAssumption, SumLess
<1>2. ASSUME \A c \in Conns : o[c] <= Owed(c) PROVE Sum(o, Conns) <= Sum(Owing, Conns)
  <2>1. \A c \in Conns : o[c] \in Nat /\ Owing[c] \in Nat /\ o[c] <= Owing[c]
    BY <1>2, KnownIs DEF Owing, TypeOK
  <2> QED BY <2>1, ConnsAssumption, SumLess
<1>3. ASSUME \A c \in Conns : s[c] = conn[c].sent PROVE Sum(s, Conns) = carried
  <2>1. s = Sent
    BY <1>3 DEF Sent
  <2> QED BY <2>1 DEF Track
<1> QED BY <1>1, <1>2, <1>3

-----------------------------------------------------------------------------
\* When the invariant is kept.

LEMMA TrackKept ==
  ASSUME TypeOK, TypeOK', Track, proto = "ssh", proto' = proto, carried' = carried, slips' = slips,
         \A c \in Conns : /\ conn'[c].sent = conn[c].sent /\ (conn'[c].is = "none" => conn[c].is = "none")
                          /\ Counted(c)' <= conn[c].sent /\ Owed(c)' <= Owed(c),
         \A u \in Nat : UsedMay(u)' => (u = 0 \/ UsedMay(u)) /\ (meta'.here \/ u = 0)
  PROVE  Track'
<1>1. PICK o : o = Owing'
  OBVIOUS
<1>2. PICK s : s = Sent'
  OBVIOUS
<1>3. Debts' /\ Debts
  BY DebtsAre, DebtsStay DEF TypeOK
<1>4. \A c \in Conns : /\ o[c] \in Nat /\ s[c] \in Nat /\ o[c] <= s[c]
                       /\ o[c] <= Owed(c) /\ s[c] = conn[c].sent
  <2>1. \A c \in Conns : o[c] = Owed(c)'
    BY <1>1 DEF Owing
  <2>2. \A c \in Conns : s[c] = conn'[c].sent
    BY <1>2 DEF Sent
  <2>3. \A c \in Conns : /\ Owed(c)' \in Nat /\ conn'[c].sent \in Nat
                         /\ Counted(c)' <= conn'[c].sent => Owed(c)' <= conn'[c].sent
    BY <1>3 DEF Debts
  <2> QED BY <2>1, <2>2, <2>3
<1>5. /\ Sum(o, Conns) \in Nat /\ Sum(o, Conns) <= Sum(s, Conns)
      /\ Sum(o, Conns) <= Sum(Owing, Conns) /\ Sum(s, Conns) = carried
  BY <1>1, <1>2, <1>4, SumsNext
<1>6. \A c \in Conns : Counted(c) <= conn[c].sent /\ (conn[c].is = "none" => conn[c].sent = 0)
  BY DEF Track
<1>7. Sum(Owing, Conns) \in Nat
  BY <1>6, SumsAre
<1>8. Bill' = Bill /\ Bill \in Nat /\ carried <= Bill
  BY BillNat DEF Bill
<1>9. carried \in Nat
  BY BillNat
<1>10. ASSUME NEW u \in Nat, UsedMay(u)' PROVE u + Sum(o, Conns) <= Bill /\ (meta'.here \/ u = 0)
  <2>1. u = 0 \/ (UsedMay(u) /\ u + Sum(Owing, Conns) <= Bill)
    BY <1>10 DEF Track
  <2> QED BY <1>5, <1>7, <1>8, <1>9, <1>10, <2>1
<1>11. \A c \in Conns : Counted(c)' <= conn'[c].sent /\ (conn'[c].is = "none" => conn'[c].sent = 0)
  BY <1>6
<1>12. carried' = Sum(s, Conns)
  BY <1>5
<1> QED BY <1>1, <1>2, <1>8, <1>10, <1>11, <1>12 DEF Track

\* What a counter grew by does not rise with time, but for what is carried.
LEMMA GrowthDrops ==
  ASSUME TypeOK, raw' \in {raw, 0}, NEW l \in Nat
  PROVE  /\ GrowthFrom(l) \in Nat /\ GrowthFrom(l) <= raw
         /\ GrowthFrom(l)' \in Nat /\ GrowthFrom(l)' <= GrowthFrom(l)
<1>1. raw \in Nat /\ GrowthFrom(l) \in Nat /\ GrowthFrom(l) <= raw
  BY MetaNat, GrowthLess
<1>2. CASE raw' = raw
  <2>1. GrowthFrom(l)' = GrowthFrom(l)
    BY <1>2 DEF GrowthFrom
  <2> QED BY <1>1, <2>1
<1>3. CASE raw' = 0
  <2>1. GrowthFrom(l)' = 0
    BY <1>3 DEF GrowthFrom
  <2> QED BY <1>1, <2>1
<1> QED BY <1>2, <1>3

\* A step after which nothing new may be written, and from no other counter.
NoMore ==
  /\ (meta'.here /\ proto \in Metered) \/ meta'.used = 0
  /\ \A u \in Nat : TotalMay(u)' => u = 0 \/ TotalMay(u)
  /\ meta'.here => \A u \in Nat, l \in Nat :
       TotalMay(u)' /\ LastMay(l)' => u = 0 \/ (meta.here /\ TotalMay(u) /\ LastMay(l))
  /\ \A p \in Procs, r \in Nat : Reading(p, r)' => Reading(p, r) /\ (p \in sole => meta'.last = meta.last)
  /\ \A p \in Procs : Measuring(p)' => Measuring(p)

\* A tunnel with a traffic API: nothing new may be written, and the counter is the same or lost.
LEMMA MeterKept ==
  ASSUME TypeOK, TypeOK', Meter, proto # "ssh", proto' = proto, sole' = sole,
         carried <= carried', Bill <= Bill', raw' \in {raw, 0}, NoMore
  PROVE  Meter'
<1>1. Bill \in Nat /\ carried \in Nat /\ carried <= Bill /\ raw \in Nat /\ raw <= carried
  BY BillNat, MetaNat DEF Meter
<1>2. raw' <= carried' /\ carried' \in Nat /\ Bill' \in Nat
  <2>1. carried' \in Nat /\ slips' \in Nat
    BY DEF TypeOK, AccountOK
  <2>2. Bill' \in Nat
    BY <2>1, Bills DEF Bill
  <2> QED BY <1>1, <2>1, <2>2
<1>3. (meta'.here /\ proto' \in Metered) \/ meta'.used = 0
  BY DEF NoMore, Metered
<1>4. ASSUME NEW u \in Nat, TotalMay(u)' PROVE u <= Bill'
  <2>1. u = 0 \/ u <= Bill
    BY <1>4 DEF NoMore, Meter
  <2> QED BY <1>1, <1>2, <2>1
<1>5. ASSUME meta'.here, NEW u \in Nat, NEW l \in Nat, TotalMay(u)', LastMay(l)'
      PROVE  u + GrowthFrom(l)' <= Bill'
  <2>1. u = 0 \/ u + GrowthFrom(l) <= Bill
    BY <1>5 DEF NoMore, Meter
  <2>2. /\ GrowthFrom(l) \in Nat /\ GrowthFrom(l) <= raw
        /\ GrowthFrom(l)' \in Nat /\ GrowthFrom(l)' <= GrowthFrom(l)
    BY GrowthDrops
  <2> QED BY <1>1, <1>2, <2>1, <2>2
<1>6. ASSUME NEW p \in Procs, NEW r \in Nat, Reading(p, r)'
      PROVE  /\ r + GrowthFrom(r)' <= carried'
             /\ p \in sole' => \A u \in Nat : TotalMay(u)' => u + Growth(r)' + GrowthFrom(r)' <= Bill'
  <2>1. Reading(p, r) /\ (p \in sole => meta'.last = meta.last)
    BY <1>6 DEF NoMore
  <2>2. /\ GrowthFrom(r) \in Nat /\ GrowthFrom(r)' \in Nat /\ GrowthFrom(r)' <= GrowthFrom(r)
        /\ Growth(r) \in Nat
    BY GrowthDrops, FoundLess
  <2>3. r + GrowthFrom(r) <= carried
    BY <2>1 DEF Meter
  <2>4. ASSUME p \in sole', NEW u \in Nat, TotalMay(u)' PROVE u + Growth(r)' + GrowthFrom(r)' <= Bill'
    <3>1. Growth(r)' = Growth(r)
      BY <2>1, <2>4 DEF Growth
    <3>2. TotalMay(meta.used) /\ meta.used \in Nat
      BY MetaNat DEF TotalMay, UsedMay
    <3>3. \A v \in Nat : TotalMay(v) => v + Growth(r) + GrowthFrom(r) <= Bill
      BY <2>1, <2>4 DEF Meter
    <3>4. u = 0 \/ TotalMay(u)
      BY <2>4 DEF NoMore
    <3>5. u + Growth(r) + GrowthFrom(r) <= Bill
      BY <2>2, <3>2, <3>3, <3>4, <1>1
    <3> QED BY <1>1, <1>2, <2>2, <3>1, <3>5
  <2> QED BY <1>1, <1>2, <2>2, <2>3, <2>4
<1>7. \A p \in sole' : \A q \in Procs \ {p} : ~Measuring(q)'
  BY DEF NoMore, Meter
<1> QED BY <1>2, <1>3, <1>4, <1>5, <1>6, <1>7 DEF Meter

\* A slip: what was carried may be billed once more, whatever the last value is.
LEMMA MeterSlipped ==
  ASSUME TypeOK, TypeOK', Meter, proto # "ssh", proto' = proto, sole' = sole,
         carried' = carried, slips' = slips + 1, raw' \in {raw, 0},
         (meta'.here /\ proto \in Metered) \/ meta'.used = 0,
         \A u \in Nat : TotalMay(u)' => u = 0 \/ TotalMay(u),
         \A p \in Procs, r \in Nat : Reading(p, r)' => Reading(p, r),
         \A p \in Procs : Measuring(p)' => Measuring(p)
  PROVE  Meter'
<1>1. Bill \in Nat /\ carried \in Nat /\ carried <= Bill /\ raw \in Nat /\ raw <= carried
  BY BillNat, MetaNat DEF Meter
<1>2. Bill' = Bill + carried /\ raw' <= carried'
  <2>1. slips \in Nat
    BY BillNat
  <2>2. Bill' = Bill + carried
    BY <1>1, <2>1, Bills DEF Bill
  <2> QED BY <1>1, <2>2
<1>3. (meta'.here /\ proto' \in Metered) \/ meta'.used = 0
  BY DEF Metered
<1>4. ASSUME NEW u \in Nat, TotalMay(u)' PROVE u <= Bill
  BY <1>1, <1>4 DEF Meter
<1>5. ASSUME NEW u \in Nat, NEW l \in Nat, TotalMay(u)' PROVE u + GrowthFrom(l)' <= Bill'
  <2>1. u <= Bill
    BY <1>4, <1>5
  <2>2. /\ GrowthFrom(l) \in Nat /\ GrowthFrom(l) <= raw
        /\ GrowthFrom(l)' \in Nat /\ GrowthFrom(l)' <= GrowthFrom(l)
    BY GrowthDrops
  <2> QED BY <1>1, <1>2, <2>1, <2>2
<1>6. ASSUME NEW p \in Procs, NEW r \in Nat, Reading(p, r)'
      PROVE  /\ r + GrowthFrom(r)' <= carried'
             /\ \A u \in Nat : TotalMay(u)' => u + Growth(r)' + GrowthFrom(r)' <= Bill'
  <2>1. r + GrowthFrom(r) <= carried
    BY <1>6 DEF Meter
  <2>2. GrowthFrom(r) \in Nat /\ GrowthFrom(r)' \in Nat /\ GrowthFrom(r)' <= GrowthFrom(r)
    BY GrowthDrops
  <2>3. Growth(r)' \in Nat /\ Growth(r)' <= r
    <3>1. meta'.last \in Nat
      BY DEF TypeOK, AccountOK, Metas
    <3> QED BY <3>1 DEF Growth
  <2>4. ASSUME NEW u \in Nat, TotalMay(u)' PROVE u + Growth(r)' + GrowthFrom(r)' <= Bill'
    <3>1. u <= Bill
      BY <1>4, <2>4
    <3> QED BY <1>1, <1>2, <2>1, <2>2, <2>3, <3>1
  <2> QED BY <1>1, <2>1, <2>2, <2>4
<1>7. \A p \in sole' : \A q \in Procs \ {p} : ~Measuring(q)'
  BY DEF Meter
<1>8. \A u \in Nat : TotalMay(u)' => u <= Bill'
  BY <1>1, <1>2, <1>4
<1> QED BY <1>2, <1>3, <1>5, <1>6, <1>7, <1>8 DEF Meter

\* What is pending after one script is replaced.
LEMMA PendingNext ==
  ASSUME TodoOK, NEW p \in Procs, NEW s, Script(s), Replaced(p, s), NEW f, NEW n
  PROVE  /\ Pending(f, n)' => Set(f, n) \in Elems(s) \/ Pending(f, n)
         /\ Pending(f, n) => Pending(f, n)' \/ Set(f, n) \in Elems(todo[p])
         /\ Set(f, n) \in Elems(s) => Pending(f, n)'
<1>1. todo'[p] = s /\ \A q \in Procs \ {p} : todo'[q] = todo[q]
  BY TodoKept
<1>2. Set(f, n)' = Set(f, n)
  BY DEF Set
<1>3. \A q \in Procs \ {p} : Elems(todo[q])' = Elems(todo[q])
  BY <1>1 DEF Elems
<1>4. Elems(todo[p])' = Elems(s)
  BY <1>1 DEF Elems
<1>5. Pending(f, n)' <=> \E q \in Procs : Set(f, n) \in Elems(todo[q])'
  BY <1>2 DEF Pending
<1> QED BY <1>3, <1>4, <1>5 DEF Pending

\* One script is replaced by a decent one.
LEMMA DecentNext ==
  ASSUME TodoOK, AllDecent, proto' = proto, NEW p \in Procs, NEW s, Script(s), Replaced(p, s), Decent(p, s)
  PROVE  AllDecent'
<1>1. todo'[p] = s /\ \A q \in Procs \ {p} : todo'[q] = todo[q]
  BY TodoKept
<1>2. \A q \in Procs : \E t : t = todo'[q] /\ Decent(q, t)
  BY <1>1 DEF AllDecent
<1>3. ASSUME NEW q, NEW t, Decent(q, t), t = todo'[q] PROVE Decent(q, todo[q])'
  BY <1>3 DEF Decent
<1> QED BY <1>2, <1>3 DEF AllDecent

\* The scripts after one is replaced,
LEMMA ElemsNext ==
  ASSUME TodoOK, NEW p \in Procs, NEW s, Script(s), Replaced(p, s)
  PROVE  /\ Elems(todo[p])' = Elems(s)
         /\ \A q \in Procs \ {p} : Elems(todo[q])' = Elems(todo[q])
<1>1. todo'[p] = s /\ \A q \in Procs \ {p} : todo'[q] = todo[q]
  BY TodoKept
<1> QED BY <1>1 DEF Elems

\* and the measures under way.
LEMMA BusyNext ==
  ASSUME TodoOK, proto' = proto, NEW p \in Procs, NEW s, Script(s), Replaced(p, s)
  PROVE  /\ \A u : Basis(u)' => Basis(u) \/ \E e \in Elems(s) : From(e, u)
         /\ \A q \in Procs \ {p} : \A r : Reading(q, r)' <=> Reading(q, r)
         /\ \A r : Reading(p, r)' <=> \E e \in Elems(s) : Asked(e, r)
         /\ \A q \in Procs \ {p} : Measuring(q)' <=> Measuring(q)
         /\ Measuring(p)' <=> proto \in Metered /\ \E e \in Elems(s) : Field(e)
<1>1. /\ Elems(todo[p])' = Elems(s)
      /\ \A q \in Procs \ {p} : Elems(todo[q])' = Elems(todo[q])
  BY ElemsNext
<1>2. \A u : Basis(u)' <=> \E q \in Procs : \E e \in Elems(todo[q])' : From(e, u)
  BY DEF Basis, From
<1>3. \A u : Basis(u)' => Basis(u) \/ \E e \in Elems(s) : From(e, u)
  BY <1>1, <1>2 DEF Basis
<1>4. \A q \in Procs : \A r : Reading(q, r)' <=> \E e \in Elems(todo[q])' : Asked(e, r)
  BY DEF Reading, Asked
<1>5. /\ \A q \in Procs \ {p} : \A r : Reading(q, r)' <=> Reading(q, r)
      /\ \A r : Reading(p, r)' <=> \E e \in Elems(s) : Asked(e, r)
  BY <1>1, <1>4 DEF Reading
<1>6. \A q \in Procs : Measuring(q)' <=> proto \in Metered /\ \E e \in Elems(todo[q])' : Field(e)
  BY MeasuringStays DEF MeasuringMeans, Metered, Field, Stages
<1>7. /\ \A q \in Procs \ {p} : Measuring(q)' <=> Measuring(q)
      /\ Measuring(p)' <=> proto \in Metered /\ \E e \in Elems(s) : Field(e)
  BY <1>1, <1>6, MeasuringIs DEF MeasuringMeans
<1> QED BY <1>3, <1>5, <1>7

\* A total that is pending, or on which a measure is based, is part of one.
LEMMA Unmeasured ==
  ASSUME \A q \in Procs : ~Measuring(q), AllDecent, proto # "ssh"
  PROVE  /\ \A q \in Procs : \A e \in Elems(todo[q]) : ~Field(e)
         /\ \A f \in {"used", "last"} : \A n : ~Pending(f, n)
         /\ \A u : ~Basis(u)
         /\ \A q \in Procs : \A r : ~Reading(q, r)
<1>1. ASSUME NEW q \in Procs, NEW e \in Elems(todo[q]), Field(e) PROVE FALSE
  <2>1. proto \in Metered
    BY <1>1 DEF AllDecent, Decent
  <2> QED BY <1>1, <2>1, MeasuringIs DEF MeasuringMeans
<1>2. ASSUME NEW f \in {"used", "last"}, NEW n PROVE ~Pending(f, n)
  <2>1. Field(Set(f, n))
    BY SetIs DEF Field
  <2> QED BY <1>1, <2>1 DEF Pending
<1>3. ASSUME NEW u PROVE ~Basis(u)
  <2>1. \A e : From(e, u) => Field(e)
    BY DEF From, Field, Stages
  <2> QED BY <1>1, <2>1 DEF Basis
<1>4. ASSUME NEW q \in Procs, NEW r PROVE ~Reading(q, r)
  <2>1. \A e : Asked(e, r) => Field(e)
    BY DEF Asked, Field, Stages
  <2> QED BY <1>1, <2>1 DEF Reading
<1> QED BY <1>1, <1>2, <1>3, <1>4

\* A step after which the scripts have no stage and no total that they had not before.
Fewer == \A p \in Procs : \A e \in Elems(todo[p])' : Field(e) => e \in Elems(todo[p])
\* No measure is further than it was.
LEMMA FewerMay ==
  ASSUME Fewer, proto' = proto
  PROVE  /\ \A f \in {"used", "last"} : \A n : Pending(f, n)' => Pending(f, n)
         /\ \A u : Basis(u)' => Basis(u)
         /\ \A p \in Procs : \A r : Reading(p, r)' => Reading(p, r)
         /\ \A p \in Procs : Measuring(p)' => Measuring(p)
<1>1. ASSUME NEW f \in {"used", "last"}, NEW n, Pending(f, n)' PROVE Pending(f, n)
  <2>1. PICK q \in Procs : Set(f, n) \in Elems(todo[q])'
    BY <1>1 DEF Pending, Set
  <2>2. Field(Set(f, n))
    BY SetIs DEF Field
  <2> QED BY <2>1, <2>2 DEF Fewer, Pending
<1>2. ASSUME NEW u, Basis(u)' PROVE Basis(u)
  <2>1. PICK q \in Procs : \E e \in Elems(todo[q])' : From(e, u)
    BY <1>2 DEF Basis, From
  <2>2. \A e : From(e, u) => Field(e)
    BY DEF From, Field, Stages
  <2> QED BY <2>1, <2>2 DEF Fewer, Basis
<1>3. ASSUME NEW p \in Procs, NEW r, Reading(p, r)' PROVE Reading(p, r)
  <2>1. \E e \in Elems(todo[p])' : Asked(e, r)
    BY <1>3 DEF Reading, Asked
  <2>2. \A e : Asked(e, r) => Field(e)
    BY DEF Asked, Field, Stages
  <2> QED BY <2>1, <2>2 DEF Fewer, Reading
<1>4. ASSUME NEW p \in Procs, Measuring(p)' PROVE Measuring(p)
  <2>1. proto \in Metered /\ \E e \in Elems(todo[p])' : Field(e)
    BY <1>4, MeasuringStays DEF MeasuringMeans, Metered, Field, Stages
  <2> QED BY <2>1, MeasuringIs DEF Fewer, MeasuringMeans
<1> QED BY <1>1, <1>2, <1>3, <1>4

\* Nothing new is written when the meta file keeps what counts.
LEMMA Unmoved ==
  ASSUME TypeOK, Meter, proto # "ssh", proto' = proto, Fewer,
         meta'.here = meta.here, meta'.used = meta.used, meta'.last = meta.last,
         \A n \in Nat : (UsedMay(n)' => UsedMay(n)) /\ (LastMay(n)' => LastMay(n))
  PROVE  NoMore
<1>1. /\ \A u : Basis(u)' => Basis(u)
      /\ \A p \in Procs : \A r : Reading(p, r)' => Reading(p, r)
      /\ \A p \in Procs : Measuring(p)' => Measuring(p)
  BY FewerMay
<1>2. \A u \in Nat : TotalMay(u)' => TotalMay(u)
  BY <1>1 DEF TotalMay
<1>3. (meta'.here /\ proto \in Metered) \/ meta'.used = 0
  BY DEF Meter
<1> QED BY <1>1, <1>2, <1>3 DEF NoMore

\* A step that neither begins nor ends the writing of a total.
Same(E, F) == \A e : Field(e) => (e \in E <=> e \in F)
\* What may be written next is the same.
LEMMA MaySame ==
  ASSUME TodoOK, NEW p \in Procs, NEW s, Script(s), Replaced(p, s), Same(Elems(s), Elems(todo[p])),
         meta'.used = meta.used, meta'.last = meta.last
  PROVE  Fewer /\ \A n \in Nat : (UsedMay(n)' => UsedMay(n)) /\ (LastMay(n)' => LastMay(n))
<1>1. \A f \in {"used", "last"}, n \in Nat : Pending(f, n)' <=> Pending(f, n)
  <2> SUFFICES ASSUME NEW f \in {"used", "last"}, NEW n \in Nat PROVE Pending(f, n)' <=> Pending(f, n)
    OBVIOUS
  <2>0. Field(Set(f, n))
    BY SetIs DEF Field
  <2>1. Set(f, n) \in Elems(s) <=> Set(f, n) \in Elems(todo[p])
    BY <2>0 DEF Same
  <2>2. Set(f, n) \in Elems(todo[p]) => Pending(f, n)
    BY DEF Pending
  <2> QED BY <2>1, <2>2, PendingNext
<1>2. \A n \in Nat : (Pending("used", n)' <=> Pending("used", n)) /\ (Pending("last", n)' <=> Pending("last", n))
  BY <1>1
<1>3. Fewer
  <2>1. /\ Elems(todo[p])' = Elems(s)
        /\ \A q \in Procs \ {p} : Elems(todo[q])' = Elems(todo[q])
    BY ElemsNext
  <2> QED BY <2>1 DEF Fewer, Same
<1> QED BY <1>2, <1>3 DEF UsedMay, LastMay

\* Two scripts that write no total.
LEMMA CalmSame ==
  ASSUME NEW p, NEW q, NEW E, NEW F, Calm(p, E), Calm(q, F)
  PROVE  Same(E, F)
BY DEF Calm, Same

\* A command that has been carried out.
LEMMA DecentTail ==
  ASSUME NEW p, NEW s, Decent(p, s), NEW t, Elems(t) \subseteq Elems(s)
  PROVE  Decent(p, t)
BY DEF Decent

-----------------------------------------------------------------------------
\* Steps that leave the totals alone.

Elsewhere ==
  /\ proto' = proto /\ carried' = carried /\ sole' = sole /\ raw' \in {raw, 0}
  /\ count' = count /\ file' = file /\ trk' = trk
  /\ \A c \in Conns : conn'[c].sent = conn[c].sent /\ (conn'[c].is = "none" => conn[c].is = "none")
                      /\ (conn'[c].is = "open" => conn[c].is = "open")
Alike == Elsewhere /\ slips' = slips

\* Nobody owes more after such a step.
LEMMA AlikeDebts ==
  ASSUME TypeOK, Alike
  PROVE  \A c \in Conns : Counted(c)' = Counted(c) /\ Owed(c)' <= Owed(c)
<1>1. Known' = Known /\ \A c \in Conns : Counted(c)' = Counted(c)
  BY DEF Alike, Elsewhere, Known, Counted
<1>2. \A c \in Conns : conn[c].sent \in Nat /\ Counted(c) \in Nat
  BY KnownIs, CountNat DEF TypeOK
<1>3. \A c \in DOMAIN Known : Known[c] \in Nat
  BY KnownIs DEF TypeOK
<1>4. \A c \in Conns : Seed(c) \in Nat /\ Seed(c)' \in Nat /\ Seed(c)' <= Seed(c)
  BY <1>2 DEF Seed, Alike, Elsewhere
<1>5. ASSUME NEW c \in Conns PROVE Owed(c)' <= Owed(c)
  <2>1. CASE c \in DOMAIN Known
    <3>1. Owed(c)' = Owed(c) /\ Owed(c) \in Nat
      BY <1>1, <1>2, <1>3, <2>1 DEF Owed
    <3> QED BY <3>1
  <2>2. CASE c \notin DOMAIN Known
    <3>1. Owed(c)' = Seed(c)' /\ Owed(c) = Seed(c)
      BY <1>1, <2>2 DEF Owed
    <3> QED BY <1>4, <3>1
  <2> QED BY <2>1, <2>2
<1> QED BY <1>1, <1>5

\* The scripts and the meta file change, and what may be written does not grow.
LEMMA Settled ==
  ASSUME TypeOK, TypeOK', Billing, AllDecent', Alike,
         proto # "ssh" => NoMore,
         proto = "ssh" =>
           \A u \in Nat : UsedMay(u)' => (u = 0 \/ UsedMay(u)) /\ (meta'.here \/ u = 0)
  PROVE  Billing'
<1>1. Meter'
  <2>1. CASE proto = "ssh"
    BY <2>1 DEF Alike, Elsewhere, Meter
  <2>2. CASE proto # "ssh"
    <3>1. Bill' = Bill /\ Bill \in Nat /\ carried' = carried /\ carried \in Nat
      BY BillNat DEF Alike, Elsewhere, Bill
    <3>2. Bill <= Bill' /\ carried <= carried' /\ proto' = proto /\ raw' \in {raw, 0} /\ sole' = sole
      BY <3>1 DEF Alike, Elsewhere
    <3>3. Meter
      BY DEF Billing
    <3> QED BY <2>2, <3>2, <3>3, MeterKept
  <2> QED BY <2>1, <2>2
<1>2. Track'
  <2>1. CASE proto = "ssh"
    <3>1. \A c \in Conns : Counted(c)' = Counted(c) /\ Owed(c)' <= Owed(c)
      BY AlikeDebts
    <3>2. \A c \in Conns : Counted(c) <= conn[c].sent
      BY <2>1 DEF Billing, Track
    <3>3. \A c \in Conns : /\ conn'[c].sent = conn[c].sent /\ (conn'[c].is = "none" => conn[c].is = "none")
                           /\ Counted(c)' <= conn[c].sent /\ Owed(c)' <= Owed(c)
      BY <3>1, <3>2 DEF Alike, Elsewhere
    <3>4. Track /\ proto' = proto /\ carried' = carried /\ slips' = slips
      BY DEF Billing, Alike, Elsewhere
    <3> QED BY <2>1, <3>3, <3>4, TrackKept
  <2>2. CASE proto # "ssh"
    BY <2>2 DEF Alike, Elsewhere, Track
  <2> QED BY <2>1, <2>2
<1> QED BY <1>1, <1>2 DEF Billing

\* The scripts write the same totals, to the same meta file.
LEMMA Still ==
  ASSUME TypeOK, TypeOK', Billing, AllDecent', Alike, Fewer,
         meta'.used = meta.used, meta'.last = meta.last, meta'.here = meta.here,
         \A n \in Nat : (UsedMay(n)' => UsedMay(n)) /\ (LastMay(n)' => LastMay(n))
  PROVE  Billing'
<1>1. proto # "ssh" => NoMore
  <2>1. Meter /\ proto' = proto
    BY DEF Billing, Alike, Elsewhere
  <2> QED BY <2>1, Unmoved
<1>2. proto = "ssh" => \A u \in Nat : UsedMay(u)' => (u = 0 \/ UsedMay(u)) /\ (meta'.here \/ u = 0)
  BY DEF Billing, Track
<1> QED BY <1>1, <1>2, Settled

\* A script is replaced by one that writes the same totals.
LEMMA Quiet ==
  ASSUME TypeOK, TypeOK', Billing, NEW p \in Procs, NEW s, Script(s), Replaced(p, s), Decent(p, s),
         Same(Elems(s), Elems(todo[p])), Alike,
         meta'.used = meta.used, meta'.last = meta.last, meta'.here = meta.here
  PROVE  Billing'
<1>1. TodoOK /\ AllDecent /\ proto' = proto
  BY DEF TypeOK, Billing, Alike, Elsewhere
<1>2. AllDecent'
  BY <1>1, DecentNext
<1>3. Fewer /\ \A n \in Nat : (UsedMay(n)' => UsedMay(n)) /\ (LastMay(n)' => LastMay(n))
  BY <1>1, MaySame
<1> QED BY <1>2, <1>3, Still

\* A command that was carried out and wrote no total.
LEMMA Carried ==
  ASSUME TypeOK, TypeOK', Billing, NEW p \in Procs, NEW e, NEW t, t = Tail(todo[p]), Script(t),
         Replaced(p, t), Elems(todo[p]) = {e} \cup Elems(t), todo[p] # <<>>, ~Field(e), Alike,
         meta'.used = meta.used, meta'.last = meta.last, meta'.here = meta.here
  PROVE  Billing'
<1>1. Decent(p, todo[p])
  BY DEF Billing, AllDecent
<1>2. Decent(p, t)
  BY <1>1, DecentTail
<1>3. Same(Elems(t), Elems(todo[p]))
  BY DEF Same
<1> QED BY <1>2, <1>3, Quiet

\* A decision, and the beginning of a call.
LEMMA Decided ==
  ASSUME TypeOK, TypeOK', Billing, NEW p \in Procs, NEW s, Script(s), Replaced(p, s),
         Calm(p, Elems(s)), Calm(p, Elems(todo[p])), Alike, meta' = meta
  PROVE  Billing'
BY CalmDecent, CalmSame, Quiet

-----------------------------------------------------------------------------
\* The commands that write no total.

LEMMA PlainBilled ==
  ASSUME TypeOK, TypeOK', Billing, NEW p \in Procs,
         Passwd(p) \/ Install(p) \/ KillConns(p) \/ Shown(p)
  PROVE  Billing'
<1>1. PICK k \in {"passwd", "install", "kill", "shown"} : Goes(p, k) /\ Then(p, <<>>)
  BY DEF Passwd, Install, KillConns, Shown
<1>2. PICK e \in Steps : \E t :
        /\ Script(t) /\ Replaced(p, t) /\ Elems(todo[p]) = {e} \cup Elems(t) /\ todo[p] # <<>>
        /\ e[1] = k /\ t = Tail(todo[p])
  <2>1. k \in {"passwd", "install", "kill", "unlink", "write_meta", "shown"} /\ Goes(p, k) /\ Then(p, <<>>)
    BY <1>1
  <2> QED BY <2>1, CommandLeaves, Zenon
<1>3. PICK t : /\ Script(t) /\ Replaced(p, t) /\ Elems(todo[p]) = {e} \cup Elems(t) /\ todo[p] # <<>>
               /\ e[1] = k /\ t = Tail(todo[p])
  BY <1>2, Zenon
<1>4. ~Field(e)
  BY <1>3 DEF Field, Stages
<1>5. Alike /\ meta' = meta
  <2>1. ASSUME KillConns(p) PROVE Alike /\ meta' = meta
    <3>1. \A c \in Conns : conn'[c].sent = conn[c].sent /\ (conn'[c].is = "none" => conn[c].is = "none")
                           /\ (conn'[c].is = "open" => conn[c].is = "open")
      BY <2>1 DEF KillConns, TypeOK, SshOK
    <3>2. raw' = raw /\ UNCHANGED <<proto, carried, slips, sole, count, file, trk, meta>>
      BY <2>1 DEF KillConns
    <3> QED BY <3>1, <3>2 DEF Alike, Elsewhere
  <2>2. ASSUME Passwd(p) \/ Install(p) \/ Shown(p) PROVE Alike /\ meta' = meta
    <3>1. raw' \in {raw, 0} /\ UNCHANGED <<proto, carried, slips, sole, ssh, meta>>
      BY <2>2 DEF Passwd, Install, Shown
    <3> QED BY <3>1 DEF Alike, Elsewhere, ssh
  <2> QED BY <2>1, <2>2
<1>6. meta'.used = meta.used /\ meta'.last = meta.last /\ meta'.here = meta.here
  BY <1>5
<1> QED BY <1>3, <1>4, <1>5, <1>6, Carried, Zenon

\* A field is written: a total and its counter are written together, or only flags.
LEMMA SetBilled ==
  ASSUME TypeOK, TypeOK', Billing, NEW p \in Procs, SetField(p)
  PROVE  Billing'
<1>1. PICK e \in Steps : \E t :
        /\ Script(t) /\ Replaced(p, t) /\ Elems(todo[p]) = {e} \cup Elems(t) /\ todo[p] # <<>>
        /\ t = Tail(todo[p])
        /\ \/ \E f \in {"used", "last", "quota"}, n \in Nat :
                e = Set(f, n) /\ meta' = IF meta.here THEN [meta EXCEPT ![f] = n] ELSE meta
           \/ \E f \in Flags, b \in BOOLEAN :
                e = Set(f, b) /\ meta' = IF meta.here THEN [meta EXCEPT ![f] = b] ELSE meta
  BY SetFieldDoes, Zenon
<1>2. PICK t :
        /\ Script(t) /\ Replaced(p, t) /\ Elems(todo[p]) = {e} \cup Elems(t) /\ todo[p] # <<>>
        /\ t = Tail(todo[p])
        /\ \/ \E f \in {"used", "last", "quota"}, n \in Nat :
                e = Set(f, n) /\ meta' = IF meta.here THEN [meta EXCEPT ![f] = n] ELSE meta
           \/ \E f \in Flags, b \in BOOLEAN :
                e = Set(f, b) /\ meta' = IF meta.here THEN [meta EXCEPT ![f] = b] ELSE meta
  BY <1>1, Zenon
<1>3. Alike /\ meta \in Metas /\ TodoOK /\ proto' = proto
  BY DEF SetField, ssh, Alike, Elsewhere, TypeOK, AccountOK
<1>4. Decent(p, t) /\ AllDecent'
  <2>1. Decent(p, todo[p]) /\ AllDecent
    BY DEF Billing, AllDecent
  <2>2. Elems(t) \subseteq Elems(todo[p])
    BY <1>2
  <2>3. Decent(p, t)
    BY <2>1, <2>2, DecentTail
  <2> QED BY <1>2, <1>3, <2>1, <2>3, DecentNext, Zenon
<1>5. ASSUME ~Field(e), meta'.used = meta.used, meta'.last = meta.last, meta'.here = meta.here PROVE Billing'
  BY <1>2, <1>3, <1>5, Carried, Zenon
<1>6. ASSUME NEW f \in {"quota"} \cup Flags, NEW v, e = Set(f, v),
             meta' = IF meta.here THEN [meta EXCEPT ![f] = v] ELSE meta
      PROVE  Billing'
  <2>1. meta'.used = meta.used /\ meta'.last = meta.last /\ meta'.here = meta.here
    BY <1>3, <1>6 DEF Metas, Flags
  <2>2. ~Field(e)
    BY <1>6, SetIs DEF Field, Flags, Stages
  <2> QED BY <1>5, <2>1, <2>2
\* The script had what is left of it before.
<1>9. Fewer
  <2>1. /\ Elems(todo[p])' = Elems(t)
        /\ \A q \in Procs \ {p} : Elems(todo[q])' = Elems(todo[q])
    BY <1>2, <1>3, ElemsNext
  <2>2. Elems(t) \subseteq Elems(todo[p])
    BY <1>2
  <2> QED BY <2>1, <2>2 DEF Fewer
<1>10. /\ \A f \in {"used", "last"} : \A n : Pending(f, n)' => Pending(f, n)
       /\ \A u : Basis(u)' => Basis(u)
       /\ \A q \in Procs : \A r : Reading(q, r)' => Reading(q, r)
       /\ \A q \in Procs : Measuring(q)' => Measuring(q)
  BY <1>3, <1>9, FewerMay
\* The total is written before the counter.
<1>7. ASSUME NEW n \in Nat, e = Set("used", n), meta' = IF meta.here THEN [meta EXCEPT !.used = n] ELSE meta
      PROVE  Billing'
  <2>1. /\ meta'.last = meta.last /\ meta'.here = meta.here
        /\ (meta.here => meta'.used = n) /\ (~meta.here => meta'.used = meta.used)
    BY <1>3, <1>7 DEF Metas
  <2>2. UsedMay(n) /\ UsedMay(meta.used)
    <3>1. Set("used", n) \in Elems(todo[p])
      BY <1>2, <1>7
    <3> QED BY <3>1 DEF UsedMay, Pending
  <2>3. \A u \in Nat : UsedMay(u)' => UsedMay(u)
    BY <1>10, <2>1, <2>2 DEF UsedMay
  <2>4. \A l \in Nat : LastMay(l)' => LastMay(l)
    <3>1. \A l \in Nat : Pending("last", l)' <=> Pending("last", l)
      <4> SUFFICES ASSUME NEW l \in Nat PROVE Pending("last", l)' <=> Pending("last", l)
        OBVIOUS
      <4>1. Set("last", l) \in Elems(t) <=> Set("last", l) \in Elems(todo[p])
        BY <1>2, <1>7, SetIs
      <4>2. Set("last", l) \in Elems(todo[p]) => Pending("last", l)
        BY DEF Pending
      <4>3. Set("last", l) \in Elems(t) => Pending("last", l)'
        BY <1>2, <1>3, PendingNext
      <4>4. Pending("last", l)' => Set("last", l) \in Elems(t) \/ Pending("last", l)
        BY <1>2, <1>3, PendingNext
      <4>5. Pending("last", l) => Pending("last", l)' \/ Set("last", l) \in Elems(todo[p])
        BY <1>2, <1>3, PendingNext
      <4> QED BY <4>1, <4>2, <4>3, <4>4, <4>5
    <3> QED BY <2>1, <3>1 DEF LastMay
  <2>5. (meta'.here /\ proto \in Metered) \/ meta'.used = 0 \/ proto = "ssh"
    <3>1. Field(e) /\ e \in Elems(todo[p])
      BY <1>2, <1>7, SetIs DEF Field
    <3>2. proto # "ssh" => proto \in Metered
      BY <3>1 DEF Billing, AllDecent, Decent
    <3> QED BY <2>1, <3>2 DEF Billing, Meter
  <2>6. proto = "ssh" => \A u \in Nat : UsedMay(u)' => (u = 0 \/ UsedMay(u)) /\ (meta'.here \/ u = 0)
    BY <2>1, <2>3 DEF Billing, Track
  <2>7. proto # "ssh" => NoMore
    <3>1. \A u \in Nat : TotalMay(u)' => TotalMay(u)
      BY <1>10, <2>3 DEF TotalMay
    <3> QED BY <1>10, <2>1, <2>4, <2>5, <3>1 DEF NoMore
  <2> QED BY <1>3, <1>4, <2>6, <2>7, Settled
\* The counter: the next measure starts from it.
<1>8. ASSUME NEW n \in Nat, e = Set("last", n), meta' = IF meta.here THEN [meta EXCEPT !.last = n] ELSE meta
      PROVE  Billing'
  <2>1. /\ meta'.used = meta.used /\ meta'.here = meta.here
        /\ meta.here => meta'.last = n
    BY <1>3, <1>8 DEF Metas
  <2>2. \A u \in Nat : UsedMay(u)' => UsedMay(u)
    BY <1>10, <2>1 DEF UsedMay
  <2>3. Set("last", n) \in Elems(todo[p]) /\ Set("last", n)[1] = "set" /\ Field(Set("last", n))
    BY <1>2, <1>8, SetIs DEF Field
  <2>4. meta.here => \A l \in Nat : LastMay(l)' => LastMay(l)
    <3>1. LastMay(n)
      BY <2>3 DEF LastMay, Pending
    <3> QED BY <1>10, <2>1, <3>1 DEF LastMay
\* A measure that runs alone has compared its counter already.
  <2>5. ASSUME proto # "ssh", NEW q \in Procs, NEW r \in Nat, Reading(q, r), q \in sole PROVE FALSE
    <3>1. Measuring(p)
      <4>1. proto \in Metered
        BY <2>3, <2>5 DEF Billing, AllDecent, Decent
      <4> QED BY <2>3, <4>1, MeasuringIs DEF MeasuringMeans
    <3>2. q = p
      BY <2>5, <3>1 DEF Billing, Meter
    <3>3. PICK d \in Elems(todo[p]) : d[1] \in {"tally", "grow"}
      BY <2>5, <3>2 DEF Reading, Asked
    <3>4. Elems(todo[p]) = {d}
      BY <3>3 DEF Billing, AllDecent, Decent
    <3> QED BY <2>3, <3>3, <3>4
  <2>6. proto = "ssh" => \A u \in Nat : UsedMay(u)' => (u = 0 \/ UsedMay(u)) /\ (meta'.here \/ u = 0)
    BY <2>1, <2>2 DEF Billing, Track
  <2>7. proto # "ssh" => NoMore
    <3>1. \A u \in Nat : TotalMay(u)' => TotalMay(u)
      BY <1>10, <2>2 DEF TotalMay
    <3>2. proto # "ssh" => (meta'.here /\ proto \in Metered) \/ meta'.used = 0
      BY <2>1 DEF Billing, Meter
    <3> QED BY <1>10, <2>1, <2>4, <2>5, <3>1, <3>2 DEF NoMore
  <2> QED BY <1>3, <1>4, <2>6, <2>7, Settled
<1> QED BY <1>2, <1>6, <1>7, <1>8, Zenon

-----------------------------------------------------------------------------
\* Decisions, and the beginning of a call.

LEMMA DecisionBilled ==
  ASSUME TypeOK, TypeOK', Billing, NEW p \in Procs,
         Collect(p) \/ Judge(p) \/ Lock(p) \/ Free(p) \/ Renewed(p) \/ Requoted(p)
  PROVE  Billing'
<1>1. Alike /\ meta' = meta
  BY DEF Collect, Judge, Lock, Free, Renewed, Requoted, ssh, Alike, Elsewhere
<1>2. proto \in Protos
  BY DEF TypeOK, AccountOK
<1>3. ASSUME NEW s, Script(s), Replaced(p, s), NEW E, E = Elems(todo[p]), NEW F, F = Elems(s),
             Calm(p, E), Calm(p, F)
      PROVE  Billing'
  BY <1>1, <1>3, Decided
<1>4. ASSUME Collect(p) PROVE Billing'
  <2>1. Elems(todo[p]) = {<<"collect">>}
    BY <1>4, CollectDoes, Zenon
  <2>2. PICK s : Script(s) /\ Replaced(p, s) /\ s = <<<<"install", Active>>>>
    BY <1>4, CollectDoes, Zenon
  <2>3. Elems(s) = {<<"install", Active>>}
    BY <2>2, ElemsOf
  <2> QED BY <1>3, <2>1, <2>2, <2>3, CalmKinds, Zenon
<1>5. ASSUME Judge(p) PROVE Billing'
  <2>1. PICK q \in Nat, n \in Nat : \E s :
          /\ Elems(todo[p]) = {<<"judge", q, n>>} /\ todo[p] # <<>>
          /\ Script(s) /\ Replaced(p, s)
          /\ \/ Elems(s) = {} \/ Elems(s) = {<<"lock", "quota_hit">>}
             \/ proto \in Metered /\ Elems(s) = {<<"measure", "free", q>>}
             \/ \E m \in Nat : Elems(s) = {<<"free", q, m>>}
    BY <1>5, JudgeDoes
  <2>2. PICK s :
          /\ Elems(todo[p]) = {<<"judge", q, n>>} /\ todo[p] # <<>>
          /\ Script(s) /\ Replaced(p, s)
          /\ \/ Elems(s) = {} \/ Elems(s) = {<<"lock", "quota_hit">>}
             \/ proto \in Metered /\ Elems(s) = {<<"measure", "free", q>>}
             \/ \E m \in Nat : Elems(s) = {<<"free", q, m>>}
    BY <2>1
  <2>3. "judge" \in Uses /\ "free" \in Uses
    BY DEF Uses
  <2>4. /\ Calm(p, {<<"judge", q, n>>}) /\ Calm(p, {}) /\ Calm(p, {<<"lock", "quota_hit">>})
        /\ \A m : Calm(p, {<<"free", q, m>>})
        /\ proto \in Metered => Calm(p, {<<"measure", "free", q>>})
    BY <2>3, CalmKinds, Zenon
  <2>5. Calm(p, Elems(todo[p])) /\ Calm(p, Elems(s))
    BY <2>2, <2>4, Zenon
  <2> QED BY <1>3, <2>2, <2>5, Zenon
<1>6. ASSUME Lock(p) PROVE Billing'
  <2>1. PICK why \in {"quota_hit", "exp_lock"} : \E s :
          /\ Elems(todo[p]) = {<<"lock", why>>} /\ todo[p] # <<>>
          /\ Script(s) /\ Replaced(p, s) /\ s = IF meta.locked THEN <<>> ELSE LockFor(why)
    BY <1>6, LockDoes, Zenon
  <2>2. PICK s : /\ Elems(todo[p]) = {<<"lock", why>>} /\ todo[p] # <<>>
                 /\ Script(s) /\ Replaced(p, s) /\ s = IF meta.locked THEN <<>> ELSE LockFor(why)
    BY <2>1, Zenon
  <2>3. Elems(s) = {} \/ Mild(Elems(s))
    BY <1>2, <2>2, ElemsOf, MildScripts
  <2>4. Calm(p, Elems(s))
    <3>1. CASE Elems(s) = {}
      <4>1. Calm(p, {})
        BY CalmKinds, Zenon
      <4> QED BY <3>1, <4>1, Zenon
    <3>2. CASE Mild(Elems(s))
      BY <3>2, CalmKinds, Zenon
    <3> QED BY <2>3, <3>1, <3>2
  <2>5. Calm(p, Elems(todo[p]))
    <3>1. Calm(p, {<<"lock", why>>})
      BY CalmKinds, Zenon
    <3> QED BY <2>2, <3>1, Zenon
  <2> QED BY <1>3, <2>2, <2>4, <2>5, Zenon
<1>7. ASSUME Free(p) PROVE Billing'
  <2>1. PICK q \in Nat, n \in Nat : \E s :
          /\ Elems(todo[p]) = {<<"free", q, n>>} /\ todo[p] # <<>>
          /\ Script(s) /\ Replaced(p, s) /\ (s = <<>> \/ s = Release)
    BY <1>7, FreeDoes
  <2>2. PICK s : /\ Elems(todo[p]) = {<<"free", q, n>>} /\ todo[p] # <<>>
                 /\ Script(s) /\ Replaced(p, s) /\ (s = <<>> \/ s = Release)
    BY <2>1
  <2>3. "free" \in Uses /\ (Elems(s) = {} \/ Mild(Elems(s)))
    BY <1>2, <2>2, ElemsOf, MildScripts DEF Uses
  <2>4. Calm(p, {<<"free", q, n>>}) /\ Calm(p, {}) /\ (Mild(Elems(s)) => Calm(p, Elems(s)))
    BY <2>3, CalmKinds, Zenon
  <2>5. Calm(p, Elems(todo[p])) /\ Calm(p, Elems(s))
    BY <2>2, <2>3, <2>4, Zenon
  <2> QED BY <1>3, <2>2, <2>5, Zenon
<1>8. ASSUME NEW k \in {"renewed", "requoted"}, NEW s, Script(s), Mild(Elems(s)), Goes(p, k), Then(p, s)
      PROVE  Billing'
  <2>1. Elems(todo[p]) = {<<k>>} /\ todo[p] # <<>> /\ Replaced(p, s)
    BY <1>8, RenewalDoes
  <2>2. <<k>> \notin {} /\ ~Field(<<k>>)
    BY DEF Field, Stages
  <2>3. Calm(p, Elems(todo[p]))
    BY <2>1, <2>2 DEF Calm, Replacing
  <2>4. Calm(p, Elems(s))
    BY <1>8, CalmKinds, Zenon
  <2> QED BY <1>3, <1>8, <2>1, <2>3, <2>4, Zenon
<1>9. Renewed(p) => Goes(p, "renewed") /\ Then(p, RenewedScript)
  BY DEF Renewed, RenewedScript
<1>10. Requoted(p) => Goes(p, "requoted") /\ Then(p, RequotedScript)
  BY DEF Requoted, RequotedScript
<1>11. /\ Script(RenewedScript) /\ Mild(Elems(RenewedScript))
       /\ Script(RequotedScript) /\ Mild(Elems(RequotedScript))
  BY <1>2, RenewedScriptSteps, RequotedScriptSteps, MildScripts, Zenon
<1>12. Renewed(p) => Billing'
  BY <1>8, <1>9, <1>11, Zenon
<1>13. Requoted(p) => Billing'
  BY <1>8, <1>10, <1>11, Zenon
<1> QED BY <1>4, <1>5, <1>6, <1>7, <1>12, <1>13, Zenon

\* A call begins: its script writes no total.
LEMMA BegunBilled ==
  ASSUME TypeOK, TypeOK', Billing, NEW p \in Procs, NEW s, Begun(p, s), Calm(p, Elems(s))
  PROVE  Billing'
<1>1. todo[p] = <<>> /\ Script(s) /\ Replaced(p, s) /\ meta' = meta /\ Alike
  BY DEF Begun, Idle, Alike, Elsewhere
<1>2. Calm(p, Elems(todo[p]))
  BY <1>1, ElemsOf DEF Calm
<1> QED BY <1>1, <1>2, Decided

\* The calls of cron and of the panel.
LEMMA CallsBilled ==
  ASSUME TypeOK, TypeOK', Billing, NEW p \in Procs, Enforce(p) \/ ExpiryEnforce(p) \/ Panel(p)
  PROVE  Billing'
<1>1. proto \in Protos /\ "judge" \in Uses
  BY DEF TypeOK, AccountOK, Uses
<1>2. ASSUME Enforce(p) PROVE Billing'
  <2>1. PICK s : /\ Begun(p, s)
                 /\ \/ Elems(s) = {<<"lock", "exp_lock">>}
                    \/ proto \in Metered /\ \E q \in Nat : Elems(s) = {<<"measure", "judge", q>>}
                    \/ \E q \in Nat, n \in Nat : Elems(s) = {<<"judge", q, n>>}
    BY <1>2, EnforceDoes
  <2>2. /\ Calm(p, {<<"lock", "exp_lock">>}) /\ \A q, n : Calm(p, {<<"judge", q, n>>})
        /\ proto \in Metered => \A q : Calm(p, {<<"measure", "judge", q>>})
    BY <1>1, CalmKinds, Zenon
  <2>3. Calm(p, Elems(s))
    BY <2>1, <2>2, Zenon
  <2> QED BY <2>1, <2>3, BegunBilled
<1>3. ASSUME ExpiryEnforce(p) PROVE Billing'
  <2>1. Begun(p, ExpiryCall) /\ proto = "ssh"
    BY <1>3, ExpiryDoes
  <2>2. Calm(p, Elems(ExpiryCall))
    BY <1>1, <2>1, MildScripts, CalmKinds, Zenon
  <2> QED BY <2>1, <2>2, BegunBilled
<1>4. ASSUME Panel(p) PROVE Billing'
  <2>1. PICK s :
    /\ Begun(p, s) /\ p \in Admins
    /\ \/ meta.here /\ ~meta.locked /\ s = LockCall
       \/ meta.here /\ meta.locked /\ s = UnlockCall
       \/ meta.here /\ Elems(s) = {<<"rewrite">>}
       \/ meta.here /\ proto \in Metered /\ Elems(s) = {<<"measure", "shown", 0>>}
       \/ meta.here /\ \E q \in Nat : Elems(s) = {Set("quota", q), <<"requoted">>}
       \/ meta.here /\ s = PasswordCall
       \/ meta.here /\ s = DeleteCall
       \/ ~meta.here /\ (proto = "ssh" => ~admitted) /\ \E q \in Nat : s = CreateCall(q)
    BY <1>4, PanelDoes
  <2>2. ASSUME s = LockCall \/ s = UnlockCall \/ s = PasswordCall PROVE Calm(p, Elems(s))
    BY <1>1, <2>2, MildScripts, CalmKinds, Zenon
  <2>3. ASSUME Elems(s) = {<<"rewrite">>} \/ (proto \in Metered /\ Elems(s) = {<<"measure", "shown", 0>>})
                 \/ \E q \in Nat : Elems(s) = {Set("quota", q), <<"requoted">>}
        PROVE  Calm(p, Elems(s))
    <3>1. /\ Calm(p, {<<"rewrite">>}) /\ \A q : Calm(p, {Set("quota", q), <<"requoted">>})
          /\ proto \in Metered => Calm(p, {<<"measure", "shown", 0>>})
      BY <2>1, CalmKinds, Zenon
    <3> QED BY <2>3, <3>1, Zenon
  <2>4. ASSUME NEW E, \A e \in E : e[1] \in {"unlink", "write_meta", "passwd", "collect"}
        PROVE  Calm(p, E)
    BY <2>1, <2>4 DEF Calm, Field, Replacing, Stages
  <2>6. ASSUME s = DeleteCall PROVE Calm(p, Elems(s))
    <3>1. Elems(s) \in {{<<"unlink">>, <<"passwd", FALSE>>}, {<<"unlink">>, <<"collect">>}}
      BY <2>6, CallSteps
    <3>2. ASSUME NEW e \in Elems(s) PROVE e[1] \in {"unlink", "write_meta", "passwd", "collect"}
      <4>1. e = <<"unlink">> \/ e = <<"collect">> \/ \E x : e = <<"passwd", x>> \/ e = <<"write_meta", x>>
        BY <3>1, Zenon
      <4> QED BY <4>1
    <3> QED BY <2>4, <3>2
  <2>7. ASSUME NEW q \in Nat, s = CreateCall(q) PROVE Calm(p, Elems(s))
    <3>1. Elems(s) \in {{<<"passwd", TRUE>>, <<"write_meta", q>>}, {<<"write_meta", q>>, <<"collect">>}}
      BY <2>7, CallSteps
    <3>2. ASSUME NEW e \in Elems(s) PROVE e[1] \in {"unlink", "write_meta", "passwd", "collect"}
      <4>1. e = <<"unlink">> \/ e = <<"collect">> \/ \E x : e = <<"passwd", x>> \/ e = <<"write_meta", x>>
        BY <3>1, Zenon
      <4> QED BY <4>1
    <3> QED BY <2>4, <3>2
  <2>8. Calm(p, Elems(s))
    BY <2>1, <2>2, <2>3, <2>6, <2>7, Zenon
  <2> QED BY <2>1, <2>8, BegunBilled
<1> QED BY <1>2, <1>3, <1>4

-----------------------------------------------------------------------------
\* The commands that write the meta file anew.

\* The meta file starts over, and what was used with it, except what is put back:
\* under a measure that is a slip.
LEMMA Wiped ==
  ASSUME TypeOK, TypeOK', Billing, NEW p \in Procs, NEW s, Script(s), Replaced(p, s), Decent(p, s),
         Elsewhere, ReplacedUnder, meta'.used = 0,
         \A e \in Elems(s) : Field(e) => e \in Elems(todo[p]) \/ (proto = "ssh" /\ e = Set("used", meta.used)),
         proto = "ssh" => meta'.here \/ \A u \in Nat : ~Pending("used", u)'
  PROVE  Billing'
<1>1. TodoOK /\ AllDecent /\ Meter /\ Track /\ proto' = proto
  BY DEF TypeOK, Billing, Elsewhere
<1>2. AllDecent'
  BY <1>1, DecentNext
<1>3. /\ Elems(todo[p])' = Elems(s)
      /\ \A q \in Procs \ {p} : Elems(todo[q])' = Elems(todo[q])
  BY <1>1, ElemsNext
<1>4. CASE proto = "ssh"
  <2>1. \A q : ~Measuring(q)
    BY <1>4 DEF Measuring, Metered
  <2>2. Alike
    BY <2>1 DEF ReplacedUnder, Alike
  <2>3. ASSUME NEW u \in Nat, UsedMay(u)' PROVE (u = 0 \/ UsedMay(u)) /\ (meta'.here \/ u = 0)
    <3>1. CASE Pending("used", u)'
      <4>1. Set("used", u) \in Elems(s) \/ Pending("used", u)
        BY <1>1, <3>1, PendingNext
      <4>2. Set("used", u) \in Elems(s) => Set("used", u) \in Elems(todo[p]) \/ u = meta.used
        <5>1. Field(Set("used", u))
          BY SetIs DEF Field
        <5> QED BY <5>1, SetIs
      <4> QED BY <1>4, <3>1, <4>1, <4>2 DEF UsedMay, Pending
    <3>2. CASE u = meta'.used
      BY <3>2
    <3> QED BY <2>3, <3>1, <3>2 DEF UsedMay
  <2> QED BY <1>2, <1>4, <2>2, <2>3, Settled
<1>5. CASE proto # "ssh"
  <2>1. Fewer
    BY <1>3, <1>5 DEF Fewer
  <2>2. /\ \A f \in {"used", "last"} : \A n : Pending(f, n)' => Pending(f, n)
        /\ \A u : Basis(u)' => Basis(u)
        /\ \A q \in Procs : \A r : Reading(q, r)' => Reading(q, r)
        /\ \A q \in Procs : Measuring(q)' => Measuring(q)
    BY <1>1, <2>1, FewerMay
  <2>3. \A u \in Nat : TotalMay(u)' => u = 0 \/ TotalMay(u)
    BY <2>2 DEF TotalMay, UsedMay
  <2>4. (meta'.here /\ proto \in Metered) \/ meta'.used = 0
    OBVIOUS
  <2>5. CASE \E q \in Procs : Measuring(q)
    <3>1. slips' = slips + 1
      BY <2>5 DEF ReplacedUnder
    <3>2. sole' = sole /\ carried' = carried /\ raw' \in {raw, 0}
      BY DEF Elsewhere
    <3>3. Meter'
      BY <1>1, <1>5, <2>2, <2>3, <2>4, <3>1, <3>2, MeterSlipped
    <3> QED BY <1>1, <1>2, <1>5, <3>3 DEF Billing, Track
  <2>6. CASE \A q \in Procs : ~Measuring(q)
    <3>1. slips' = slips
      BY <2>6 DEF ReplacedUnder
    <3>2. Alike
      BY <3>1 DEF Alike
    <3>3. /\ \A f \in {"used", "last"} : \A n : ~Pending(f, n)
          /\ \A u : ~Basis(u)
          /\ \A q \in Procs : \A r : ~Reading(q, r)
      BY <1>1, <1>5, <2>6, Unmeasured
    <3>4. \A u \in Nat : TotalMay(u)' => u = 0
      BY <2>2, <3>3 DEF TotalMay, UsedMay
    <3>5. NoMore
      BY <2>2, <2>4, <3>3, <3>4 DEF NoMore
    <3> QED BY <1>2, <1>5, <3>2, <3>5, Settled
  <2> QED BY <2>5, <2>6
<1> QED BY <1>4, <1>5

\* renew_user replaces the meta file of an SSH account and then puts its total back.
\* In between, a second administrator may delete and create the account, and the old
\* total is billed to the new one; hence one menu of install2.py at a time.
OneAdmin == "ssh" \in Protos => \A a, b \in Admins : a = b

\* Deletion and creation. An SSH total that a renewal has still to put back would be
\* added to an account created meanwhile: with one administrator nothing is.
LEMMA UnlinkBilled ==
  ASSUME TypeOK, TypeOK', Billing, NEW p \in Procs, Unlink(p) \/ WriteMeta(p), OneAdmin
  PROVE  Billing'
<1>1. PICK k \in {"unlink", "write_meta"} :
        /\ Goes(p, k) /\ Then(p, <<>>)
        /\ (k = "unlink" => Unlink(p)) /\ (k = "write_meta" => WriteMeta(p))
  BY DEF Unlink, WriteMeta
<1>2. PICK e \in Steps : \E t :
        /\ Script(t) /\ Replaced(p, t) /\ Elems(todo[p]) = {e} \cup Elems(t) /\ todo[p] # <<>>
        /\ e[1] = k /\ t = Tail(todo[p])
  <2>1. k \in {"passwd", "install", "kill", "unlink", "write_meta", "shown"} /\ Goes(p, k) /\ Then(p, <<>>)
    BY <1>1
  <2> QED BY <2>1, CommandLeaves, Zenon
<1>3. PICK t : /\ Script(t) /\ Replaced(p, t) /\ Elems(todo[p]) = {e} \cup Elems(t) /\ todo[p] # <<>>
               /\ e[1] = k /\ t = Tail(todo[p])
  BY <1>2, Zenon
<1>4. Decent(p, todo[p]) /\ AllDecent /\ TodoOK /\ proto \in Protos
  BY DEF TypeOK, TodoOK, Billing, AllDecent, AccountOK
<1>5. Decent(p, t)
  <2>1. Elems(t) \subseteq Elems(todo[p])
    BY <1>3
  <2> QED BY <1>4, <2>1, DecentTail
<1>6. Elsewhere /\ ReplacedUnder /\ meta'.used = 0 /\ (k = "write_meta" => meta'.here)
  <2>1. ASSUME Unlink(p) PROVE Elsewhere /\ ReplacedUnder /\ meta'.used = 0
    BY <2>1 DEF Unlink, ssh, Elsewhere, NewMeta
  <2>2. ASSUME WriteMeta(p) PROVE Elsewhere /\ ReplacedUnder /\ meta'.used = 0 /\ meta'.here
    BY <2>2 DEF WriteMeta, ssh, Elsewhere, NewMeta
  <2> QED BY <1>1, <2>1, <2>2
<1>7. \A d \in Elems(t) : Field(d) => d \in Elems(todo[p]) \/ (proto = "ssh" /\ d = Set("used", meta.used))
  BY <1>3
<1>8. ASSUME proto = "ssh", k = "unlink", NEW u \in Nat, Pending("used", u)' PROVE FALSE
  <2>1. AllDecent' /\ proto' = "ssh"
    BY <1>3, <1>4, <1>5, <1>6, <1>8, DecentNext DEF Elsewhere
  <2>2. PICK q \in Procs : Set("used", u) \in Elems(todo[q])'
    BY <1>8 DEF Pending, Set
  <2>3. q \in Admins
    <3>1. Field(Set("used", u))
      BY SetIs DEF Field
    <3>2. \A d \in Elems(todo[q])' : Field(d) => q \in Admins
      BY <2>1 DEF AllDecent, Decent
    <3> QED BY <2>2, <3>1, <3>2
  <2>4. e \in Elems(todo[p]) /\ e[1] \in Replacing
    BY <1>3, <1>8 DEF Replacing
  <2>5. p \in Admins
    BY <1>4, <2>4 DEF Decent
  <2>6. q = p
    BY <1>4, <1>8, <2>3, <2>5 DEF OneAdmin
  <2>7. Elems(todo[p])' = Elems(t)
    <3>1. todo'[p] = t
      BY <1>3, <1>4, TodoKept
    <3> QED BY <3>1 DEF Elems
  <2>8. Set("used", u) \in Elems(todo[p]) /\ Field(Set("used", u))
    BY <1>3, <2>2, <2>6, <2>7, SetIs DEF Field
  <2>9. e[1] \notin Replacing
    BY <1>4, <1>8, <2>4, <2>8 DEF Decent
  <2> QED BY <2>4, <2>9
<1>9. proto = "ssh" => meta'.here \/ \A u \in Nat : ~Pending("used", u)'
  BY <1>6, <1>8
<1> QED BY <1>3, <1>5, <1>6, <1>7, <1>9, Wiped

\* The total of an SSH account is put back after the meta file was replaced.
LEMMA RewriteBilled ==
  ASSUME TypeOK, TypeOK', Billing, NEW p \in Procs, Rewrite(p)
  PROVE  Billing'
<1>1. meta \in Metas /\ meta.used \in Nat
  BY DEF TypeOK, AccountOK, Metas
<1>2. PICK s : s = KeptScript
  OBVIOUS
<1>3. Script(s) /\ Elems(s) =
        (IF proto \in Metered \/ meta.used = 0 THEN {} ELSE {Set("used", meta.used)})
        \cup {Set(f, TRUE) : f \in {g \in Flags : meta[g]}} \cup {<<"renewed">>}
  BY <1>1, <1>2, KeptScriptSteps
<1>4. Elems(todo[p]) = {<<"rewrite">>} /\ todo[p] # <<>> /\ Replaced(p, s)
  <2>1. Goes(p, "rewrite") /\ Then(p, s)
    BY <1>2 DEF Rewrite, KeptScript
  <2> QED BY <1>3, <2>1, RenewalDoes
<1>5. Elsewhere /\ ReplacedUnder /\ meta'.used = 0 /\ meta'.here
  BY DEF Rewrite, ssh, Elsewhere, NewMeta
<1>6. p \in Admins
  <2>1. <<"rewrite">> \in Elems(todo[p]) /\ <<"rewrite">>[1] = "rewrite" /\ Decent(p, todo[p])
    BY <1>4 DEF Billing, AllDecent
  <2> QED BY <2>1 DEF Decent, Replacing
<1>7. \A e \in Elems(s) : e[1] = "set" \/ e[1] = "renewed"
  <2> SUFFICES ASSUME NEW e \in Elems(s) PROVE e[1] = "set" \/ e[1] = "renewed"
    OBVIOUS
  <2>1. e = <<"renewed">> \/ \E f, v : e = Set(f, v)
    BY <1>3, Zenon
  <2> QED BY <2>1, SetIs
<1>8. ASSUME NEW e \in Elems(s), Field(e)
      PROVE  proto \notin Metered /\ meta.used # 0 /\ e = Set("used", meta.used)
  <2>1. e # <<"renewed">>
    <3>1. <<"renewed">>[1] = "renewed"
      OBVIOUS
    <3>2. ~Field(<<"renewed">>)
      BY <3>1 DEF Field, Stages
    <3> QED BY <1>8, <3>2, Zenon
  <2>2. \A g \in Flags : e # Set(g, TRUE)
    <3>1. \A g : Set(g, TRUE)[1] = "set" /\ Set(g, TRUE)[2] = g
      BY SetIs
    <3>2. \A g \in Flags : ~Field(Set(g, TRUE))
      BY <3>1 DEF Field, Flags, Stages
    <3> QED BY <1>8, <3>2
  <2>3. e \in (IF proto \in Metered \/ meta.used = 0 THEN {} ELSE {Set("used", meta.used)})
    BY <1>3, <1>8, <2>1, <2>2, Zenon
  <2> QED BY <2>3
<1>9. proto # "ssh" => proto \in Metered \/ meta.used = 0
  BY DEF Billing, Meter
<1>10. Decent(p, s)
  <2>1. \A e \in Elems(s) : /\ e[1] \notin {"measure"} \cup Stages /\ e[1] \notin Replacing
                            /\ e[1] \notin {"tally", "grow"}
    BY <1>7 DEF Replacing, Stages
  <2>2. \A e \in Elems(s) : Field(e) => proto = "ssh"
    BY <1>8, <1>9
  <2> QED BY <1>6, <2>1, <2>2 DEF Decent
<1>11. \A e \in Elems(s) : Field(e) => e \in Elems(todo[p]) \/ (proto = "ssh" /\ e = Set("used", meta.used))
  BY <1>8, <1>9
<1>12. proto = "ssh" => meta'.here \/ \A u \in Nat : ~Pending("used", u)'
  BY <1>5
<1> QED BY <1>3, <1>4, <1>5, <1>10, <1>11, <1>12, Wiped

-----------------------------------------------------------------------------
\* A measure: alone and answered, it moves the growth into the total; else it
\* bills at most what was carried once more, and that is a slip.

\* The stages are those of a tunnel with a traffic API.
LEMMA StageIs ==
  ASSUME Billing, NEW p \in Procs, NEW e \in Elems(todo[p]), e[1] \in {"measure"} \cup Stages
  PROVE  proto \in Metered /\ proto # "ssh" /\ (e[1] \in Stages => Measuring(p))
<1>1. proto \in Metered
  BY DEF Billing, AllDecent, Decent
<1>2. e[1] \in Stages => Measuring(p)
  BY <1>1, MeasuringIs DEF MeasuringMeans, Field
<1> QED BY <1>1, <1>2 DEF Metered

\* One stage follows another, and the account stays.
LEMMA StageBilled ==
  ASSUME TypeOK, TypeOK', Billing, proto # "ssh", UNCHANGED <<proto, meta, raw, carried>>,
         NEW p \in Procs, NEW s, Script(s), Replaced(p, s), Decent(p, s), Meter'
  PROVE  Billing'
<1>1. AllDecent'
  BY DecentNext DEF TypeOK, Billing
<1>2. Track'
  BY DEF Track
<1> QED BY <1>1, <1>2 DEF Billing

\* A single command that decides is decent, and so is what it decides on.
LEMMA OneDecent ==
  ASSUME proto \in Metered, NEW p, NEW s, NEW e, Elems(s) = {e}, e[1] \notin Replacing
  PROVE  Decent(p, s)
BY DEF Decent, Metered

\* The query: the counter is read.
LEMMA MeasureBilled ==
  ASSUME TypeOK, TypeOK', Billing, NEW p \in Procs, Measure(p)
  PROVE  Billing'
<1>1. PICK r \in {raw, 0}, c \in Uses, q \in Nat : \E s :
        /\ Elems(todo[p]) = {<<"measure", c, q>>} /\ todo[p] # <<>>
        /\ Script(s) /\ Replaced(p, s) /\ Elems(s) = {<<"tally", c, q, r>>}
        /\ sole' = IF r = raw /\ (\A z \in Procs \ {p} : ~Measuring(z)) THEN {p} ELSE {}
  BY MeasureDoes
<1>2. PICK s :
        /\ Elems(todo[p]) = {<<"measure", c, q>>} /\ todo[p] # <<>>
        /\ Script(s) /\ Replaced(p, s) /\ Elems(s) = {<<"tally", c, q, r>>}
        /\ sole' = IF r = raw /\ (\A z \in Procs \ {p} : ~Measuring(z)) THEN {p} ELSE {}
  BY <1>1
<1>3. UNCHANGED <<proto, meta, raw, carried, slips>> /\ TodoOK /\ AllDecent /\ Meter
  BY DEF Measure, TypeOK, Billing
<1>4. proto \in Metered /\ proto # "ssh"
  <2>1. <<"measure", c, q>> \in Elems(todo[p]) /\ <<"measure", c, q>>[1] = "measure"
    BY <1>2
  <2> QED BY <2>1, StageIs
<1>5. /\ raw \in Nat /\ r \in Nat /\ raw <= carried /\ r <= raw /\ carried \in Nat /\ carried <= Bill
      /\ Bill \in Nat /\ Bill' = Bill /\ meta.used \in Nat /\ meta.last \in Nat
  BY <1>3, <1>4, MetaNat, BillNat DEF Meter, Bill
<1>6. Decent(p, s)
  <2>1. <<"tally", c, q, r>>[1] \notin Replacing
    BY DEF Replacing
  <2> QED BY <1>2, <1>4, <2>1, OneDecent
\* Nothing more is to be written.
<1>7. \A e \in Elems(s) : \A f, n : e # Set(f, n) /\ ~From(e, n)
  <2>1. \A e \in Elems(s) : e[1] = "tally"
    BY <1>2
  <2> QED BY <2>1, SetIs DEF From
<1>8. \A f \in {"used", "last"} : \A n : Pending(f, n)' <=> Pending(f, n)
  <2>1. \A f, n : Set(f, n) \notin Elems(todo[p])
    <3>1. \A e \in Elems(todo[p]) : e[1] = "measure"
      BY <1>2
    <3> QED BY <3>1, SetIs
  <2> QED BY <1>2, <1>3, <1>7, <2>1, PendingNext
<1>9. /\ \A u : Basis(u)' => Basis(u)
      /\ \A z \in Procs \ {p} : \A k : Reading(z, k)' <=> Reading(z, k)
      /\ \A k : Reading(p, k)' => k = r
      /\ \A z \in Procs \ {p} : Measuring(z)' <=> Measuring(z)
  <2>1. \A e \in Elems(s) : e[4] = r
    BY <1>2
  <2> QED BY <1>2, <1>3, <1>7, <2>1, BusyNext DEF Asked
<1>10. \A n \in Nat : (TotalMay(n)' => TotalMay(n)) /\ (LastMay(n)' => LastMay(n))
  BY <1>3, <1>8, <1>9 DEF TotalMay, UsedMay, LastMay
<1>11. \A l \in Nat : GrowthFrom(l)' = GrowthFrom(l) /\ Growth(l)' = Growth(l)
  BY <1>3 DEF GrowthFrom, Growth
\* The counter was not carried before.
<1>12. r + GrowthFrom(r) <= carried
  <2>1. CASE r = raw
    BY <1>5, <2>1, GrowthLess
  <2>2. CASE r = 0
    BY <1>5, <2>2, GrowthLess
  <2> QED BY <2>1, <2>2
\* Alone, and answered.
<1>13. ASSUME p \in sole', NEW u \in Nat, TotalMay(u) PROVE u + Growth(r) + GrowthFrom(r) <= Bill
  <2>1. r = raw /\ \A z \in Procs \ {p} : ~Measuring(z)
    BY <1>2, <1>13
  <2>2. ~Measuring(p)
    <3>1. \A e \in Elems(todo[p]) : e[1] = "measure"
      BY <1>2
    <3>2. \A e \in Elems(todo[p]) : ~Field(e)
      BY <3>1 DEF Field, Stages
    <3> QED BY <3>2, MeasuringIs DEF MeasuringMeans
  <2>3. (\A f \in {"used", "last"} : \A n : ~Pending(f, n)) /\ \A n : ~Basis(n)
    BY <1>3, <1>4, <2>1, <2>2, Unmeasured
  <2>4. u = meta.used /\ LastMay(meta.last)
    BY <1>13, <2>3 DEF TotalMay, UsedMay, LastMay
  <2>5. GrowthFrom(r) = 0 /\ Growth(r) = GrowthFrom(meta.last) /\ Growth(r) \in Nat /\ Growth(r) <= r
    BY <1>5, <2>1, GrowthLess, FoundLess DEF Growth, GrowthFrom
  <2>6. CASE meta.here
    <3>1. u + GrowthFrom(meta.last) <= Bill
      BY <1>3, <1>4, <1>5, <1>13, <2>4, <2>6 DEF Meter
    <3> QED BY <2>5, <3>1
  <2>7. CASE ~meta.here
    <3>1. u = 0
      BY <1>3, <1>4, <2>4, <2>7 DEF Meter
    <3> QED BY <1>5, <2>5, <3>1
  <2> QED BY <2>6, <2>7
<1>14. ASSUME NEW z \in Procs, NEW k \in Nat, Reading(z, k)'
       PROVE  /\ k + GrowthFrom(k) <= carried
              /\ z \in sole' => \A u \in Nat : TotalMay(u) => u + Growth(k) + GrowthFrom(k) <= Bill
  <2>1. CASE z = p
    <3>1. k = r
      BY <1>9, <1>14, <2>1
    <3> QED BY <1>12, <1>13, <2>1, <3>1
  <2>2. CASE z # p
    <3>1. z \notin sole'
      BY <1>2, <2>2
    <3> QED BY <1>3, <1>4, <1>9, <1>14, <2>2, <3>1 DEF Meter
  <2> QED BY <2>1, <2>2
<1>15. \A y \in sole' : \A z \in Procs \ {y} : ~Measuring(z)'
  BY <1>2, <1>9
<1>16. /\ \A u \in Nat : TotalMay(u)' => u <= Bill'
       /\ meta'.here => \A u \in Nat, l \in Nat : TotalMay(u)' /\ LastMay(l)' => u + GrowthFrom(l)' <= Bill'
  BY <1>3, <1>4, <1>5, <1>10, <1>11 DEF Meter
<1>17. \A z \in Procs, k \in Nat : Reading(z, k)' =>
         /\ k + GrowthFrom(k)' <= carried'
         /\ z \in sole' => \A u \in Nat : TotalMay(u)' => u + Growth(k)' + GrowthFrom(k)' <= Bill'
  BY <1>3, <1>5, <1>10, <1>11, <1>14
<1>18. raw' <= carried' /\ ((meta'.here /\ proto' \in Metered) \/ meta'.used = 0)
  BY <1>3, <1>4, <1>5 DEF Meter, Metered
<1>19. Meter'
  BY <1>15, <1>16, <1>17, <1>18 DEF Meter
<1> QED BY <1>2, <1>3, <1>4, <1>6, <1>19, StageBilled

\* The total is read: it may be written again, with a growth.
LEMMA TallyBilled ==
  ASSUME TypeOK, TypeOK', Billing, NEW p \in Procs, Tally(p)
  PROVE  Billing'
<1>1. PICK c \in Uses, q \in Nat, r \in Nat : \E s :
        /\ Elems(todo[p]) = {<<"tally", c, q, r>>} /\ todo[p] # <<>>
        /\ Script(s) /\ Replaced(p, s)
        /\ Elems(s) = IF meta.here THEN {<<"grow", c, q, r, meta.used>>} ELSE {<<c, q, r>>}
  BY TallyDoes
<1>2. PICK s :
        /\ Elems(todo[p]) = {<<"tally", c, q, r>>} /\ todo[p] # <<>>
        /\ Script(s) /\ Replaced(p, s)
        /\ Elems(s) = IF meta.here THEN {<<"grow", c, q, r, meta.used>>} ELSE {<<c, q, r>>}
  BY <1>1
<1>3. UNCHANGED <<proto, meta, raw, carried, slips, sole>> /\ TodoOK /\ AllDecent /\ Meter
  BY DEF Tally, TypeOK, Billing
<1>4. PICK e : Elems(s) = {e} /\ (e = <<"grow", c, q, r, meta.used>> \/ e = <<c, q, r>>)
  BY <1>2
<1>5. /\ e[1] \in {"grow"} \cup Uses
      /\ e[1] = "grow" => e[4] = r /\ e[5] = meta.used
  BY <1>4 DEF Uses
<1>6. proto \in Metered /\ proto # "ssh" /\ Measuring(p) /\ Reading(p, r)
  <2>1. <<"tally", c, q, r>> \in Elems(todo[p]) /\ <<"tally", c, q, r>>[1] = "tally" /\ <<"tally", c, q, r>>[4] = r
    BY <1>2
  <2>2. <<"tally", c, q, r>>[1] \in Stages
    BY <2>1 DEF Stages
  <2> QED BY <2>1, <2>2, StageIs DEF Reading, Asked
<1>7. Decent(p, s)
  <2>1. e[1] \notin Replacing
    BY <1>5 DEF Uses, Replacing
  <2> QED BY <1>4, <1>6, <2>1, OneDecent
<1>8. \A f \in {"used", "last"} : \A n : Pending(f, n)' <=> Pending(f, n)
  <2>1. \A f, n : Set(f, n) \notin Elems(todo[p])
    <3>1. \A d \in Elems(todo[p]) : d[1] = "tally"
      BY <1>2
    <3> QED BY <3>1, SetIs
  <2>2. \A f, n : Set(f, n) \notin Elems(s)
    BY <1>4, <1>5, SetIs DEF Uses
  <2> QED BY <1>2, <1>3, <2>1, <2>2, PendingNext
<1>9. /\ \A u : Basis(u)' => Basis(u) \/ u = meta.used
      /\ \A z \in Procs : \A k : Reading(z, k)' => Reading(z, k)
      /\ \A z \in Procs : Measuring(z)' => Measuring(z)
  <2>1. \A u : From(e, u) => u = meta.used
    BY <1>5 DEF From, Uses
  <2>2. \A k : Asked(e, k) => k = r
    BY <1>5 DEF Asked, Uses
  <2> QED BY <1>2, <1>3, <1>4, <1>6, <2>1, <2>2, BusyNext
<1>10. \A n \in Nat : (TotalMay(n)' => TotalMay(n)) /\ (LastMay(n)' => LastMay(n))
  BY <1>3, <1>8, <1>9 DEF TotalMay, UsedMay, LastMay
<1>11. NoMore
  BY <1>3, <1>6, <1>9, <1>10 DEF NoMore, Meter
<1>12. Meter'
  <2>1. Bill' = Bill /\ Bill \in Nat /\ carried' = carried /\ carried \in Nat
    BY <1>3, BillNat DEF Bill
  <2> QED BY <1>3, <1>6, <1>11, <2>1, MeterKept
<1> QED BY <1>2, <1>3, <1>6, <1>7, <1>12, StageBilled

\* The last value is read, and the total and the counter are to be written.
LEMMA GrowBilled ==
  ASSUME TypeOK, TypeOK', Billing, NEW p \in Procs, Grow(p)
  PROVE  Billing'
<1>1. PICK c \in Uses, q \in Nat, r \in Nat, v \in Nat, d \in Steps : \E s :
        /\ Elems(todo[p]) = {<<"grow", c, q, r, v>>} /\ todo[p] # <<>>
        /\ Script(s) /\ Replaced(p, s) /\ Growth(r) \in Nat
        /\ Elems(s) = (IF Growth(r) > 0 THEN {Set("used", v + Growth(r))} ELSE {}) \cup {Set("last", r), d}
        /\ d = <<"first", c, q, r>> \/ \E n \in Nat : d = <<c, q, n>>
        /\ slips' = IF p \in sole THEN slips ELSE slips + 1
  BY GrowDoes
<1>2. PICK s :
        /\ Elems(todo[p]) = {<<"grow", c, q, r, v>>} /\ todo[p] # <<>>
        /\ Script(s) /\ Replaced(p, s) /\ Growth(r) \in Nat
        /\ Elems(s) = (IF Growth(r) > 0 THEN {Set("used", v + Growth(r))} ELSE {}) \cup {Set("last", r), d}
        /\ d = <<"first", c, q, r>> \/ \E n \in Nat : d = <<c, q, n>>
        /\ slips' = IF p \in sole THEN slips ELSE slips + 1
  BY <1>1
<1> DEFINE g == Growth(r)
<1>3. UNCHANGED <<proto, meta, raw, carried, sole>> /\ TodoOK /\ AllDecent /\ Meter
  BY DEF Grow, TypeOK, Billing
<1>4. proto \in Metered /\ proto # "ssh" /\ Measuring(p) /\ Reading(p, r) /\ TotalMay(v)
  <2>1. /\ <<"grow", c, q, r, v>> \in Elems(todo[p]) /\ <<"grow", c, q, r, v>>[1] = "grow"
        /\ <<"grow", c, q, r, v>>[4] = r /\ <<"grow", c, q, r, v>>[5] = v
    BY <1>2
  <2>2. <<"grow", c, q, r, v>>[1] \in Stages
    BY <2>1 DEF Stages
  <2> QED BY <2>1, <2>2, StageIs DEF Reading, Asked, TotalMay, Basis, From
<1>5. /\ d[1] \in {"first"} \cup Uses /\ (d[1] = "first" => d[4] = r)
      /\ \A e \in Elems(s) : e = Set("used", v + g) \/ e = Set("last", r) \/ e = d
      /\ Set("last", r) \in Elems(s)
  BY <1>2 DEF Uses
<1>6. /\ raw \in Nat /\ raw <= carried /\ carried \in Nat /\ Bill \in Nat /\ slips \in Nat /\ carried <= Bill
      /\ g \in Nat /\ g <= r /\ meta.used \in Nat
  BY <1>3, <1>4, MetaNat, BillNat, FoundLess DEF Meter
<1> HIDE DEF g
<1>7. Decent(p, s)
  <2>1. \A e \in Elems(s) : e[1] \notin Replacing /\ e[1] \notin {"tally", "grow"}
    BY <1>5, SetIs DEF Replacing, Uses
  <2> QED BY <1>4, <2>1 DEF Decent
<1>8. /\ \A u : Pending("used", u)' => u = v + g \/ Pending("used", u)
      /\ \A l : Pending("last", l)' => l = r \/ Pending("last", l)
      /\ Pending("last", r)'
  <2>1. \A f, n : Set(f, n) # d
    BY <1>5, SetIs DEF Uses
  <2>2. \A u : Set("used", u) \in Elems(s) => u = v + g
    BY <1>5, <2>1, SetIs
  <2>3. \A l : Set("last", l) \in Elems(s) => l = r
    BY <1>5, <2>1, SetIs
  <2> QED BY <1>2, <1>3, <1>5, <2>2, <2>3, PendingNext
<1>9. /\ \A u : Basis(u)' => Basis(u) \/ u = r
      /\ \A z \in Procs : \A k : Reading(z, k)' => z # p /\ Reading(z, k)
      /\ \A z \in Procs : Measuring(z)' => Measuring(z)
  <2>1. \A e \in Elems(s) : \A u : From(e, u) => u = r
    BY <1>5, SetIs DEF From, Uses
  <2>2. \A e \in Elems(s) : \A k : ~Asked(e, k)
    BY <1>5, SetIs DEF Asked, Uses
  <2> QED BY <1>2, <1>3, <1>4, <2>1, <2>2, BusyNext
<1>10. \A u \in Nat : TotalMay(u)' => TotalMay(u) \/ u = v + g \/ u = r
  BY <1>3, <1>8, <1>9 DEF TotalMay, UsedMay
<1>11. \A l \in Nat : LastMay(l)' => l = r \/ Pending("last", l)
  BY <1>8 DEF LastMay
<1>12. \A l \in Nat : /\ GrowthFrom(l)' = GrowthFrom(l) /\ GrowthFrom(l) \in Nat /\ GrowthFrom(l) <= raw
                      /\ Growth(l)' = Growth(l)
  BY <1>3, <1>6, GrowthLess DEF GrowthFrom, Growth
<1>13. r + GrowthFrom(r) <= carried
  BY <1>3, <1>4 DEF Meter
<1>14. \A u \in Nat : TotalMay(u) => u <= Bill
  BY <1>3, <1>4 DEF Meter
<1>15. \A y \in sole : y = p
  <2>1. \A y \in sole : y \in Procs
    BY DEF TypeOK, AccountOK
  <2>2. \A y \in sole : \A z \in Procs \ {y} : ~Measuring(z)
    BY <1>3, <1>4 DEF Meter
  <2> QED BY <1>4, <2>1, <2>2
\* What follows is a matter of the bounds.
<1>16. ASSUME \A u \in Nat : TotalMay(u)' => u <= Bill',
              meta'.here => \A u \in Nat, l \in Nat : TotalMay(u)' /\ LastMay(l)' => u + GrowthFrom(l) <= Bill'
       PROVE  Meter'
  <2>1. /\ \A u \in Nat : TotalMay(u)' => u <= Bill'
        /\ meta'.here => \A u \in Nat, l \in Nat : TotalMay(u)' /\ LastMay(l)' => u + GrowthFrom(l)' <= Bill'
    BY <1>12, <1>16
  <2>2. ASSUME NEW z \in Procs, NEW k \in Nat, Reading(z, k)'
        PROVE  k + GrowthFrom(k)' <= carried' /\ z \notin sole'
    <3>1. z # p /\ Reading(z, k)
      BY <1>9, <2>2
    <3>2. k + GrowthFrom(k) <= carried
      BY <1>3, <1>4, <3>1 DEF Meter
    <3> QED BY <1>3, <1>12, <1>15, <3>1, <3>2
  <2>3. \A y \in sole' : \A z \in Procs \ {y} : ~Measuring(z)'
    BY <1>3, <1>4, <1>9 DEF Meter
  <2>4. raw' <= carried' /\ ((meta'.here /\ proto' \in Metered) \/ meta'.used = 0)
    BY <1>3, <1>4, <1>6 DEF Meter, Metered
  <2> QED BY <2>1, <2>2, <2>3, <2>4 DEF Meter
\* Alone and answered, it adds what is not billed yet.
<1>17. ASSUME p \in sole PROVE Meter'
  <2>1. Bill' = Bill
    BY <1>2, <1>3, <1>17 DEF Bill
  <2>2. \A u \in Nat : TotalMay(u) => u + g + GrowthFrom(r) <= Bill
    BY <1>3, <1>4, <1>17 DEF Meter, g
  <2>3. ASSUME NEW u \in Nat, TotalMay(u)' PROVE u + GrowthFrom(r) <= Bill
    <3>1. CASE TotalMay(u)
      BY <1>6, <1>12, <2>2, <3>1
    <3>2. CASE u = v + g
      <4>1. v + g + GrowthFrom(r) <= Bill
        BY <1>4, <2>2
      <4> QED BY <3>2, <4>1
    <3>3. CASE u = r
      BY <1>6, <1>12, <1>13, <3>3
    <3> QED BY <1>10, <2>3, <3>1, <3>2, <3>3
  <2>4. \A l \in Nat : LastMay(l)' => l = r
    <3>1. ASSUME NEW l \in Nat, Pending("last", l) PROVE FALSE
      <4>1. PICK z \in Procs : Set("last", l) \in Elems(todo[z])
        BY <3>1 DEF Pending
      <4>2. z # p
        <5>1. \A e \in Elems(todo[p]) : e[1] = "grow"
          BY <1>2
        <5> QED BY <4>1, <5>1, SetIs
      <4>3. Field(Set("last", l))
        BY SetIs DEF Field
      <4>4. Measuring(z)
        BY <1>4, <4>1, <4>3, MeasuringIs DEF MeasuringMeans
      <4> QED BY <1>3, <1>4, <1>17, <4>2, <4>4 DEF Meter
    <3> QED BY <1>11, <3>1
  <2>5. \A u \in Nat : TotalMay(u)' => u <= Bill'
    BY <1>6, <1>12, <2>1, <2>3
  <2>6. \A u \in Nat, l \in Nat : TotalMay(u)' /\ LastMay(l)' => u + GrowthFrom(l) <= Bill'
    BY <2>1, <2>3, <2>4
  <2> QED BY <1>16, <2>5, <2>6
\* Otherwise what it adds may be billed already: a slip.
<1>18. ASSUME p \notin sole PROVE Meter'
  <2>1. Bill' = Bill + carried
    BY <1>2, <1>3, <1>6, <1>18, Bills DEF Bill
  <2>2. v <= Bill /\ g <= carried
    <3>1. r <= carried
      BY <1>6, <1>12, <1>13
    <3> QED BY <1>4, <1>6, <1>14, <3>1
  <2>3. ASSUME NEW u \in Nat, TotalMay(u)' PROVE u <= Bill'
    <3>1. TotalMay(u) \/ u = v + g \/ u = r
      BY <1>10, <2>3
    <3>2. TotalMay(u) => u <= Bill
      BY <1>14
    <3>3. r <= carried
      BY <1>6, <1>12, <1>13
    <3> QED BY <1>6, <2>1, <2>2, <3>1, <3>2, <3>3
  <2>4. ASSUME meta'.here, NEW u \in Nat, NEW l \in Nat, TotalMay(u)', LastMay(l)'
        PROVE  u + GrowthFrom(l) <= Bill'
    <3>1. GrowthFrom(l) \in Nat /\ GrowthFrom(l) <= raw /\ GrowthFrom(r) \in Nat
      BY <1>12
    <3>2. CASE TotalMay(u)
      <4>1. u <= Bill
        BY <1>14, <3>2
      <4> QED BY <1>6, <2>1, <3>1, <4>1
    <3>3. CASE u = r
      <4>1. r <= Bill
        BY <1>6, <1>12, <1>13
      <4> QED BY <1>6, <2>1, <3>1, <3>3, <4>1
    <3>4. CASE u = v + g
      <4>1. CASE l = r
        <5>1. g + GrowthFrom(r) <= carried
          BY <1>6, <1>13, <3>1
        <5> QED BY <1>6, <2>1, <2>2, <3>1, <3>4, <4>1, <5>1
      <4>2. CASE Pending("last", l)
        <5>1. meta.here /\ LastMay(l)
          BY <1>3, <2>4, <4>2 DEF LastMay
        <5>2. v + GrowthFrom(l) <= Bill
          BY <1>3, <1>4, <5>1 DEF Meter
        <5> QED BY <1>6, <2>1, <2>2, <3>1, <3>4, <5>2
      <4> QED BY <1>11, <2>4, <4>1, <4>2
    <3> QED BY <1>10, <2>4, <3>2, <3>3, <3>4
  <2> QED BY <1>16, <2>3, <2>4
<1>19. Meter'
  BY <1>17, <1>18
<1> QED BY <1>2, <1>3, <1>4, <1>7, <1>19, StageBilled

\* A counter without a total is to be written as the total.
LEMMA FirstBilled ==
  ASSUME TypeOK, TypeOK', Billing, NEW p \in Procs, First(p)
  PROVE  Billing'
<1>1. PICK c \in Uses, q \in Nat, r \in Nat : \E s :
        /\ Elems(todo[p]) = {<<"first", c, q, r>>} /\ todo[p] # <<>>
        /\ Script(s) /\ Replaced(p, s)
        /\ Elems(s) = (IF meta.used = 0 THEN {Set("used", r)} ELSE {}) \cup {<<c, q, r>>}
  BY FirstDoes
<1>2. PICK s :
        /\ Elems(todo[p]) = {<<"first", c, q, r>>} /\ todo[p] # <<>>
        /\ Script(s) /\ Replaced(p, s)
        /\ Elems(s) = (IF meta.used = 0 THEN {Set("used", r)} ELSE {}) \cup {<<c, q, r>>}
  BY <1>1
<1>3. UNCHANGED <<proto, meta, raw, carried, slips, sole>> /\ TodoOK /\ AllDecent /\ Meter
  BY DEF First, TypeOK, Billing
<1>4. <<c, q, r>>[1] \in Uses /\ \A e \in Elems(s) : e = Set("used", r) \/ e = <<c, q, r>>
  BY <1>2
<1>5. proto \in Metered /\ proto # "ssh" /\ Measuring(p) /\ Basis(r)
  <2>1. <<"first", c, q, r>> \in Elems(todo[p]) /\ <<"first", c, q, r>>[1] = "first" /\ <<"first", c, q, r>>[4] = r
    BY <1>2
  <2>2. <<"first", c, q, r>>[1] \in Stages
    BY <2>1 DEF Stages
  <2> QED BY <2>1, <2>2, StageIs DEF Basis, From
<1>6. \A e \in Elems(s) : e[1] \in {"set"} \cup Uses
  BY <1>4, SetIs
<1>7. Decent(p, s)
  <2>1. \A e \in Elems(s) : e[1] \notin Replacing /\ e[1] \notin {"tally", "grow"}
    BY <1>6 DEF Replacing, Uses
  <2> QED BY <1>5, <2>1 DEF Decent
<1>8. /\ \A u : Pending("used", u)' => u = r \/ Pending("used", u)
      /\ \A l : Pending("last", l)' <=> Pending("last", l)
  <2>1. \A f, n : Set(f, n) # <<c, q, r>>
    BY <1>4, SetIs DEF Uses
  <2>2. \A u : Set("used", u) \in Elems(s) => u = r
    BY <1>4, <2>1, SetIs
  <2>3. \A l : Set("last", l) \notin Elems(s)
    BY <1>4, <2>1, SetIs
  <2>4. \A l : Set("last", l) \notin Elems(todo[p])
    <3>1. \A e \in Elems(todo[p]) : e[1] = "first"
      BY <1>2
    <3> QED BY <3>1, SetIs
  <2> QED BY <1>2, <1>3, <2>2, <2>3, <2>4, PendingNext
<1>9. /\ \A u : Basis(u)' => Basis(u)
      /\ \A z \in Procs : \A k : Reading(z, k)' => Reading(z, k)
      /\ \A z \in Procs : Measuring(z)' => Measuring(z)
  <2>1. \A e \in Elems(s) : \A u : ~From(e, u) /\ ~Asked(e, u)
    BY <1>6 DEF From, Asked, Uses
  <2> QED BY <1>2, <1>3, <1>5, <2>1, BusyNext
<1>10. \A n \in Nat : (TotalMay(n)' => TotalMay(n)) /\ (LastMay(n)' => LastMay(n))
  BY <1>3, <1>5, <1>8, <1>9 DEF TotalMay, UsedMay, LastMay
<1>11. NoMore
  BY <1>3, <1>5, <1>9, <1>10 DEF NoMore, Meter
<1>12. Meter'
  <2>1. Bill' = Bill /\ Bill \in Nat /\ carried' = carried /\ carried \in Nat
    BY <1>3, BillNat DEF Bill
  <2> QED BY <1>3, <1>5, <1>11, <2>1, MeterKept
<1> QED BY <1>2, <1>3, <1>5, <1>7, <1>12, StageBilled

\* Every command keeps it.
LEMMA CommandBilled ==
  ASSUME TypeOK, TypeOK', Billing, NEW p \in Procs, Command(p), OneAdmin
  PROVE  Billing'
BY PlainBilled, SetBilled, DecisionBilled, UnlinkBilled, RewriteBilled, MeasureBilled, TallyBilled,
   GrowBilled, FirstBilled DEF Command

-----------------------------------------------------------------------------
\* The tracker.

\* The connections carry nothing meanwhile: what is still owed fits in the bill.
LEMMA TrackNext ==
  ASSUME TypeOK, TypeOK', Track, proto = "ssh", UNCHANGED <<proto, carried, slips, conn>>,
         \A c \in Conns : Counted(c)' <= conn[c].sent, NEW o, o = Owing',
         \A u \in Nat : UsedMay(u)' => u + Sum(o, Conns) <= Bill /\ (meta'.here \/ u = 0)
  PROVE  Track'
<1>1. PICK s : s = Sent'
  OBVIOUS
<1>2. s = Sent
  BY <1>1 DEF Sent
<1>3. Bill' = Bill
  BY DEF Bill
<1>4. \A c \in Conns : Counted(c)' <= conn'[c].sent /\ (conn'[c].is = "none" => conn'[c].sent = 0)
  BY DEF Track
<1>5. carried' = Sum(s, Conns)
  BY <1>2 DEF Track
<1> QED BY <1>1, <1>3, <1>4, <1>5 DEF Track

\* The start of the tracker and the saving of its state change no debt.
LEMMA StartBilled ==
  ASSUME TypeOK, TypeOK', Billing, TrackStart \/ Save
  PROVE  Track'
<1>1. proto = "ssh" /\ SshOK
  BY TrackerIsSsh DEF TrackStart, Save, TypeOK
<1>2. /\ UNCHANGED <<proto, carried, slips, conn, count, todo, meta>> /\ Track
  BY DEF TrackStart, Save, Tracking, Billing
<1>3. Known' = Known
  <2>1. [trk EXCEPT !.at = "poll"] = [at |-> "poll", last |-> trk.last]
    BY <1>1, TrackerFields
  <2>2. ASSUME TrackStart PROVE Known' = Known
    BY <2>2 DEF TrackStart, Known
  <2>3. ASSUME Save PROVE Known' = Known
    <3>1. trk.at # "off" /\ file' = [torn |-> FALSE, last |-> trk.last]
      BY <2>3 DEF Save, TrackAt
    <3>2. trk' = [at |-> "off", last |-> NoConns] \/ trk' = [at |-> "poll", last |-> trk.last]
      BY <2>1, <2>3 DEF Save, Off
    <3> QED BY <3>1, <3>2 DEF Known
  <2> QED BY <2>2, <2>3
<1>4. \A c \in Conns : Counted(c)' = Counted(c) /\ Owed(c)' = Owed(c)
  BY <1>2, <1>3 DEF Counted, Owed, Seed
<1>5. \A c \in Conns : Owed(c) \in Nat /\ Counted(c) <= conn[c].sent
  BY <1>1, <1>2, KnownIs DEF Track
<1>6. \A c \in Conns : /\ conn'[c].sent = conn[c].sent /\ (conn'[c].is = "none" => conn[c].is = "none")
                       /\ Counted(c)' <= conn[c].sent /\ Owed(c)' <= Owed(c)
  BY <1>2, <1>4, <1>5
<1>7. \A u \in Nat : UsedMay(u)' => (u = 0 \/ UsedMay(u)) /\ (meta'.here \/ u = 0)
  <2>1. \A u \in Nat : UsedMay(u)' => UsedMay(u)
    BY <1>2 DEF UsedMay, Pending, Set, Elems
  <2> QED BY <1>1, <1>2, <2>1 DEF Track
<1> QED BY <1>1, <1>2, <1>6, <1>7, TrackKept

\* A connection found in the journal is billed what ss says it carried, and owes nothing more.
LEMMA PollBilled ==
  ASSUME TypeOK, TypeOK', Billing, Poll
  PROVE  Track'
<1>1. SshOK /\ trk.at = "poll" /\ meta \in Metas
  BY DEF Poll, TrackAt, TypeOK, AccountOK
<1>2. proto = "ssh"
  BY <1>1, TrackerIsSsh
<1>3. PICK new \in SUBSET {c \in Conns \ DOMAIN trk.last : conn[c].is # "none" /\ meta.here} :
        /\ meta' = [meta EXCEPT !.used = @ + Total(Seed, new)]
        /\ trk' = [at |-> "timers", last |-> [c \in DOMAIN trk.last \cup new |->
                                              IF c \in new THEN 0 ELSE trk.last[c]]]
        /\ count' = [c \in DOMAIN count \cup new |-> IF c \in new THEN 0 ELSE count[c]]
  BY DEF Poll
<1>4. UNCHANGED <<proto, carried, slips, conn, file, todo>> /\ Track
  BY DEF Poll, Tracking, Billing
<1> DEFINE G == [c \in new |-> Seed(c)]  d == Sum(G, new)
<1>5. new \in SUBSET Conns /\ d \in Nat /\ Total(Seed, new) = d /\ \A c \in Conns : Seed(c) \in Nat
  BY <1>1, <1>3, SeedNat
<1>6. /\ \A c \in Conns : Counted(c) \in Nat /\ Counted(c) <= conn[c].sent /\ conn[c].sent \in Nat
      /\ \A c \in Conns : Owed(c) \in Nat
  BY <1>1, <1>2, <1>4, KnownIs, CountNat DEF Track
<1>7. \A c \in Conns : Counted(c)' = IF c \in new THEN 0 ELSE Counted(c)
  BY <1>3, <1>5 DEF Counted
<1>8. Known = trk.last /\ Known' = [c \in DOMAIN trk.last \cup new |-> IF c \in new THEN 0 ELSE trk.last[c]]
  BY <1>1, <1>3 DEF Known
<1>9. \A c \in Conns : Owed(c)' = IF c \in new THEN 0 ELSE Owed(c)
  <2> SUFFICES ASSUME NEW c \in Conns PROVE Owed(c)' = IF c \in new THEN 0 ELSE Owed(c)
    OBVIOUS
  <2>1. CASE c \in new
    <3>1. Known'[c] = 0 /\ Counted(c)' = 0 /\ c \in DOMAIN Known'
      BY <1>7, <1>8, <2>1
    <3> QED BY <2>1, <3>1 DEF Owed
  <2>2. CASE c \notin new
    <3>1. (c \in DOMAIN Known' <=> c \in DOMAIN Known) /\ (c \in DOMAIN Known => Known'[c] = Known[c])
      BY <1>8, <2>2
    <3>2. Counted(c)' = Counted(c) /\ Seed(c)' = Seed(c)
      BY <1>4, <1>7, <2>2 DEF Seed
    <3> QED BY <2>2, <3>1, <3>2 DEF Owed
  <2> QED BY <2>1, <2>2
<1>10. \A c \in new : Owed(c) = Seed(c) /\ G[c] = Seed(c)
  BY <1>3, <1>8 DEF Owed
<1>11. PICK o : o = Owing'
  OBVIOUS
<1>12. \A c \in Conns : o[c] = (IF c \in new THEN 0 ELSE Owed(c)) /\ Owing[c] = Owed(c)
  BY <1>9, <1>11 DEF Owing
<1> HIDE DEF G
<1>13. Sum(o, Conns) + d <= Sum(Owing, Conns)
  <2>1. \A c \in Conns : o[c] \in Nat /\ Owing[c] \in Nat /\ o[c] <= Owing[c]
    BY <1>6, <1>12
  <2>2. \A c \in new : G[c] \in Nat /\ o[c] + G[c] <= Owing[c]
    BY <1>5, <1>10, <1>12
  <2> QED BY <1>5, <2>1, <2>2, ConnsAssumption, SumWith
<1>14. Sum(o, Conns) \in Nat
  <2>1. \A c \in Conns : o[c] \in Nat
    BY <1>6, <1>12
  <2> QED BY <2>1, ConnsAssumption, SumNat
<1>15. Sum(Owing, Conns) \in Nat
  BY <1>6, SumsAre
<1> HIDE DEF d
<1>16. ~meta.here => d = 0
  <2>1. ~meta.here => new = {}
    BY <1>3
  <2>2. IsFiniteSet({})
    BY FS_EmptySet
  <2> QED BY <2>1, <2>2, SumStep DEF d
<1>17. meta'.used = meta.used + d /\ meta'.here = meta.here /\ meta.used \in Nat
  BY <1>1, <1>3, <1>5 DEF Metas
<1>18. \A u \in Nat : UsedMay(u)' => u = meta.used + d \/ UsedMay(u)
  BY <1>4, <1>17 DEF UsedMay, Pending, Set, Elems
<1>19. Bill \in Nat /\ UsedMay(meta.used)
  BY BillNat DEF UsedMay
<1>20. ASSUME NEW u \in Nat, UsedMay(u)' PROVE u + Sum(o, Conns) <= Bill /\ (meta'.here \/ u = 0)
  <2>1. CASE UsedMay(u)
    <3>1. u + Sum(Owing, Conns) <= Bill /\ (meta.here \/ u = 0)
      BY <1>2, <1>4, <2>1 DEF Track
    <3> QED BY <1>5, <1>13, <1>14, <1>15, <1>17, <1>19, <3>1
  <2>2. CASE u = meta.used + d
    <3>1. meta.used + Sum(Owing, Conns) <= Bill /\ (meta.here \/ meta.used = 0)
      BY <1>2, <1>4, <1>17, <1>19 DEF Track
    <3> QED BY <1>5, <1>13, <1>14, <1>15, <1>16, <1>17, <1>19, <2>2, <3>1
  <2> QED BY <1>18, <1>20, <2>1, <2>2
<1>21. \A c \in Conns : Counted(c)' <= conn[c].sent
  BY <1>6, <1>7
<1> QED BY <1>2, <1>4, <1>11, <1>20, <1>21, TrackNext

\* A flush bills what the counters grew by, and remembers them.
LEMMA FlushBilled ==
  ASSUME TypeOK, TypeOK', Billing, Flush
  PROVE  Track'
<1>1. SshOK /\ trk.at = "timers" /\ meta \in Metas
  BY DEF Flush, TrackAt, TypeOK, AccountOK
<1>2. proto = "ssh"
  BY <1>1, TrackerIsSsh
<1> DEFINE D == DOMAIN trk.last  G == [c \in D |-> Grown(c)]  d == Sum(G, D)
<1>3. UNCHANGED <<proto, carried, slips, conn, count, file>> /\ Track
  BY DEF Flush, Billing
<1>4. /\ D \in SUBSET Conns /\ d \in Nat /\ Total(Grown, D) = d
      /\ \A c \in D : trk.last[c] \in Nat /\ Grown(c) \in Nat
  BY <1>1, GrownNat, CountNat
<1>5. /\ \A c \in Conns : Counted(c) \in Nat /\ Counted(c) <= conn[c].sent /\ conn[c].sent \in Nat
      /\ \A c \in Conns : Owed(c) \in Nat
  BY <1>1, <1>2, <1>3, KnownIs, CountNat DEF Track
<1>6. Known = trk.last /\ Known' = [c \in Followed |-> Remembered(c)]
  BY <1>1 DEF Known, Flush
<1>7. \A c \in Conns : Counted(c)' = Counted(c) /\ Seed(c)' = Seed(c)
  BY <1>3 DEF Counted, Seed
<1>8. ASSUME NEW c \in Conns
      PROVE  /\ c \notin D => Owed(c)' = Owed(c)
             /\ c \in D => Owed(c) = Grown(c)
             /\ c \in D /\ meta.here => Owed(c)' = 0
  <2>1. ASSUME c \notin D PROVE Owed(c)' = Owed(c)
    <3>1. c \notin DOMAIN Known /\ c \notin Followed /\ DOMAIN Known' = Followed
      <4>1. c \notin D /\ Followed \subseteq D
        BY <2>1 DEF Followed
      <4>2. DOMAIN Known' = Followed /\ DOMAIN Known = D
        BY <1>6
      <4> QED BY <4>1, <4>2
    <3> QED BY <1>7, <3>1 DEF Owed
  <2>2. ASSUME c \in D PROVE Owed(c) = Grown(c)
    BY <1>6, <2>2 DEF Owed, Grown
  <2>3. ASSUME c \in Followed PROVE Owed(c)' = 0
    <3>1. c \in D /\ Known'[c] = trk.last[c] + Grown(c) /\ c \in DOMAIN Known'
      BY <1>6, <2>3 DEF Followed, Remembered
    <3>2. Counted(c) <= trk.last[c] + Grown(c)
      <4>1. trk.last[c] \in Nat /\ Counted(c) \in Nat
        BY <1>4, <1>5, <3>1
      <4> QED BY <4>1 DEF Grown
    <3> QED BY <1>4, <1>5, <1>7, <3>1, <3>2 DEF Owed
  <2>4. ASSUME c \in D, meta.here, c \notin Followed PROVE Owed(c)' = 0
    <3>1. Seed(c) = 0 /\ c \notin DOMAIN Known'
      BY <1>6, <2>4 DEF Followed, Seed
    <3> QED BY <1>7, <3>1 DEF Owed
  <2> QED BY <2>1, <2>2, <2>3, <2>4
<1>9. PICK o : o = Owing'
  OBVIOUS
<1>10. \A c \in Conns : o[c] = Owed(c)' /\ Owing[c] = Owed(c) /\ o[c] \in Nat /\ o[c] <= conn[c].sent
  <2>1. Debts'
    BY DebtsStay DEF TypeOK
  <2>2. \A c \in Conns : Owed(c)' \in Nat /\ Owed(c)' <= conn[c].sent
    BY <1>3, <1>5, <1>7, <2>1 DEF Debts
  <2> QED BY <1>9, <2>2 DEF Owing
<1>11. Sum(o, Conns) \in Nat /\ Sum(Owing, Conns) \in Nat /\ Sum(o, Conns) <= carried
  <2>1. PICK s : s = Sent'
    OBVIOUS
  <2>2. \A c \in Conns : s[c] = conn[c].sent
    BY <1>3, <2>1 DEF Sent
  <2>3. \A c \in Conns : o[c] \in Nat /\ s[c] \in Nat /\ o[c] <= s[c]
    BY <1>5, <1>10, <2>2
  <2>4. Sum(o, Conns) \in Nat /\ Sum(o, Conns) <= Sum(s, Conns) /\ Sum(s, Conns) = carried
    BY <1>2, <1>3, <1>9, <2>1, <2>2, <2>3, SumsNext
  <2> QED BY <1>5, <2>4, SumsAre
<1>12. \A c \in D : G[c] = Grown(c)
  OBVIOUS
<1> HIDE DEF G
<1>13. ASSUME meta.here PROVE Sum(o, Conns) + d <= Sum(Owing, Conns)
  <2>1. \A c \in Conns : o[c] \in Nat /\ Owing[c] \in Nat /\ o[c] <= Owing[c]
    BY <1>5, <1>8, <1>10, <1>13
  <2>2. \A c \in D : G[c] \in Nat /\ o[c] + G[c] <= Owing[c]
    BY <1>4, <1>8, <1>10, <1>12, <1>13
  <2> QED BY <1>4, <2>1, <2>2, ConnsAssumption, SumWith
<1> HIDE DEF d, D
<1>14. /\ meta'.used = meta.used + (IF meta.here THEN d ELSE 0) /\ meta'.here = meta.here
       /\ meta.used \in Nat
  BY <1>1, <1>4 DEF Metas, Flush, D
<1>15. \A u \in Nat : Pending("used", u)' => Pending("used", u)
  <2>1. CASE todo' = todo
    BY <2>1 DEF Pending, Set, Elems
  <2>2. CASE todo' # todo
    <3>1. PICK s : s = TrackerLock
      OBVIOUS
    <3>2. Replaced("tracker", s) /\ Script(s) /\ "tracker" \in Procs /\ TodoOK
      BY <2>2, <3>1, TrackerLockSteps, PlainScript DEF Flush, Replaced, Procs, TypeOK
    <3>3. \A u \in Nat : Set("used", u) \notin Elems(s)
      <4>1. Calm("tracker", Elems(s))
        BY <1>2, <3>1, MildScripts, CalmKinds DEF TypeOK, AccountOK
      <4>2. \A u : Field(Set("used", u))
        BY SetIs DEF Field
      <4> QED BY <4>1, <4>2 DEF Calm
    <3> QED BY <3>2, <3>3, PendingNext
  <2> QED BY <2>1, <2>2
<1>16. \A u \in Nat : UsedMay(u)' => u = meta.used + (IF meta.here THEN d ELSE 0) \/ UsedMay(u)
  BY <1>14, <1>15 DEF UsedMay
<1>17. Bill \in Nat /\ carried <= Bill /\ carried \in Nat /\ UsedMay(meta.used)
  BY BillNat DEF UsedMay
<1>18. \A u \in Nat : UsedMay(u) => u + Sum(Owing, Conns) <= Bill /\ (meta.here \/ u = 0)
  BY <1>2, <1>3 DEF Track
<1>19. ASSUME NEW u \in Nat, UsedMay(u)' PROVE u + Sum(o, Conns) <= Bill /\ (meta'.here \/ u = 0)
  <2>1. CASE meta.here /\ UsedMay(u)
    BY <1>4, <1>11, <1>13, <1>14, <1>17, <1>18, <2>1
  <2>2. CASE meta.here /\ u = meta.used + d
    BY <1>4, <1>11, <1>13, <1>14, <1>17, <1>18, <2>2
  <2>3. CASE ~meta.here
    <3>1. u = 0
      BY <1>14, <1>16, <1>17, <1>18, <1>19, <2>3
    <3> QED BY <1>11, <1>17, <3>1
  <2> QED BY <1>16, <1>19, <2>1, <2>2, <2>3
<1>20. \A c \in Conns : Counted(c)' <= conn[c].sent
  BY <1>5, <1>7
<1> QED BY <1>2, <1>3, <1>9, <1>19, <1>20, TrackNext

\* A new table loses what was not flushed: less is owed.
LEMMA RebuildBilled ==
  ASSUME TypeOK, TypeOK', Billing, RebuildTable
  PROVE  Track'
<1>1. SshOK /\ trk.at \in {"timers", "rebuild"}
  BY DEF RebuildTable, TrackAt, TypeOK
<1>2. proto = "ssh"
  BY <1>1, TrackerIsSsh
<1>3. UNCHANGED <<proto, carried, slips, conn, file, todo, meta>> /\ Track
  BY DEF RebuildTable, Tracking, Billing
<1>4. count' = [c \in DOMAIN trk.last |-> 0] /\ Known = trk.last /\ Known' = [c \in DOMAIN trk.last |-> 0]
  BY <1>1 DEF RebuildTable, Known
<1>5. \A c \in Conns : Owed(c) \in Nat /\ conn[c].sent \in Nat
  BY DebtsAre DEF TypeOK, Debts
<1>6. ASSUME NEW c \in Conns PROVE Counted(c)' = 0 /\ Owed(c)' <= Owed(c)
  <2>1. Counted(c)' = 0
    BY <1>4 DEF Counted
  <2>2. CASE c \in DOMAIN trk.last
    <3>1. Owed(c)' = 0
      BY <1>4, <2>1, <2>2 DEF Owed
    <3> QED BY <1>5, <2>1, <3>1
  <2>3. CASE c \notin DOMAIN trk.last
    <3>1. Owed(c)' = Owed(c)
      BY <1>3, <1>4, <2>3 DEF Owed, Seed
    <3> QED BY <1>5, <2>1, <3>1
  <2> QED BY <2>2, <2>3
<1>7. \A c \in Conns : /\ conn'[c].sent = conn[c].sent /\ (conn'[c].is = "none" => conn[c].is = "none")
                       /\ Counted(c)' <= conn[c].sent /\ Owed(c)' <= Owed(c)
  BY <1>3, <1>5, <1>6
<1>8. \A u \in Nat : UsedMay(u)' => (u = 0 \/ UsedMay(u)) /\ (meta'.here \/ u = 0)
  <2>1. \A u \in Nat : UsedMay(u)' => UsedMay(u)
    BY <1>3 DEF UsedMay, Pending, Set, Elems
  <2> QED BY <1>2, <1>3, <2>1 DEF Track
<1> QED BY <1>2, <1>3, <1>7, <1>8, TrackKept

\* The tracker keeps it: no total is written by its script.
LEMMA TrackerBilled ==
  ASSUME TypeOK, TypeOK', Billing, Tracker
  PROVE  Billing'
<1>1. Track'
  BY StartBilled, PollBilled, FlushBilled, RebuildBilled DEF Tracker
<1>2. proto = "ssh" /\ proto' = proto
  <2>1. ASSUME Poll \/ Flush \/ RebuildTable \/ Save PROVE proto = "ssh"
    <3>1. trk.at # "off"
      BY <2>1 DEF Poll, Flush, RebuildTable, Save, TrackAt
    <3> QED BY <3>1, TrackerIsSsh DEF TypeOK
  <2> QED BY <2>1 DEF Tracker, TrackStart, Poll, Flush, RebuildTable, Save, Tracking
<1>3. AllDecent'
  <2>1. CASE todo' = todo
    <3>1. \A q \in Procs : Decent(q, todo[q])
      BY DEF Billing, AllDecent
    <3>2. ASSUME NEW q \in Procs PROVE Decent(q, todo[q])'
      BY <1>2, <2>1, <3>1 DEF Decent
    <3> QED BY <3>2 DEF AllDecent
  <2>2. CASE todo' # todo
    <3>1. PICK s : s = TrackerLock
      OBVIOUS
    <3>2. Replaced("tracker", s)
      BY <2>2, <3>1 DEF Tracker, TrackStart, Poll, Flush, RebuildTable, Save, Replaced
    <3>3. Script(s) /\ "tracker" \in Procs /\ TodoOK /\ AllDecent
      BY <3>1, TrackerLockSteps, PlainScript DEF Procs, TypeOK, Billing
    <3>4. Calm("tracker", Elems(s))
      BY <1>2, <3>1, MildScripts, CalmKinds DEF TypeOK, AccountOK
    <3> QED BY <1>2, <3>2, <3>3, <3>4, CalmDecent, DecentNext
  <2> QED BY <2>1, <2>2
<1> QED BY <1>1, <1>2, <1>3 DEF Billing, Meter

-----------------------------------------------------------------------------
\* The users, the services and the machine.

\* The scripts rest.
LEMMA Paused ==
  ASSUME AllDecent, UNCHANGED <<todo, proto>>, meta'.used = meta.used, meta'.last = meta.last
  PROVE  /\ AllDecent' /\ Fewer
         /\ \A n \in Nat : (UsedMay(n)' => UsedMay(n)) /\ (LastMay(n)' => LastMay(n))
<1>1. AllDecent'
  <2>1. todo' = todo /\ proto' = proto
    OBVIOUS
  <2>2. \A p \in Procs : Decent(p, todo[p])
    BY DEF AllDecent
  <2>3. ASSUME NEW p \in Procs PROVE Decent(p, todo[p])'
    BY <2>1, <2>2 DEF Decent
  <2> QED BY <2>3 DEF AllDecent
<1>2. \A f, n : Pending(f, n)' <=> Pending(f, n)
  BY DEF Pending, Set, Elems
<1>3. Fewer
  BY DEF Fewer, Elems
<1> QED BY <1>1, <1>2, <1>3 DEF UsedMay, LastMay

\* Expiry, the restart of a service and the end of a connection.
LEMMA RestBilled ==
  ASSUME TypeOK, TypeOK', Billing, Expire \/ Restart \/ \E c \in Conns : Close(c)
  PROVE  Billing'
<1>1. meta \in Metas /\ conn \in [Conns -> [is : {"none", "open", "closed"}, sent : Nat]] /\ AllDecent
  BY DEF TypeOK, AccountOK, SshOK, Billing
<1>2. UNCHANGED <<todo, proto>> /\ meta'.used = meta.used /\ meta'.last = meta.last /\ meta'.here = meta.here
  BY <1>1 DEF Expire, Restart, Close, Tracking, Metas
<1>3. Alike
  <2>1. ASSUME Expire \/ Restart PROVE Alike
    BY <1>1, <2>1 DEF Expire, Restart, ssh, Alike, Elsewhere
  <2>2. ASSUME NEW c \in Conns, Close(c) PROVE Alike
    BY <1>1, <2>2 DEF Close, Tracking, Alike, Elsewhere
  <2> QED BY <2>1, <2>2
<1>4. AllDecent' /\ Fewer /\ \A n \in Nat : (UsedMay(n)' => UsedMay(n)) /\ (LastMay(n)' => LastMay(n))
  BY <1>1, <1>2, Paused
<1> QED BY <1>2, <1>3, <1>4, Still

\* A connection that opens has carried nothing.
LEMMA LoginBilled ==
  ASSUME TypeOK, TypeOK', Billing, NEW d \in Conns, Login(d)
  PROVE  Billing'
<1>1. /\ proto = "ssh" /\ UNCHANGED <<proto, carried, slips, count, file, trk, todo, meta>>
      /\ SshOK /\ AllDecent /\ Track
  BY DEF Login, Tracking, TypeOK, Billing
<1>2. \A c \in Conns : /\ conn'[c].sent = conn[c].sent /\ (conn'[c].is = "none" => conn[c].is = "none")
                       /\ (conn'[c].is = conn[c].is \/ conn[c].sent = 0)
  BY <1>1 DEF Login, SshOK, Track
<1>3. \A c \in Conns : Owed(c) \in Nat /\ conn[c].sent \in Nat /\ Counted(c) <= conn[c].sent
  BY <1>1, DebtsAre DEF Debts, Track
<1>4. \A c \in Conns : Counted(c)' = Counted(c) /\ Owed(c)' = Owed(c)
  <2>1. \A c \in Conns : Seed(c)' = Seed(c)
    BY <1>2 DEF Seed
  <2>2. Known' = Known /\ \A c \in Conns : Counted(c)' = Counted(c)
    BY <1>1 DEF Known, Counted
  <2> QED BY <2>1, <2>2 DEF Owed
<1>5. AllDecent' /\ \A u \in Nat : UsedMay(u)' => UsedMay(u)
  BY <1>1, Paused
<1>6. \A u \in Nat : UsedMay(u)' => (u = 0 \/ UsedMay(u)) /\ (meta'.here \/ u = 0)
  BY <1>1, <1>5 DEF Track
<1>7. \A c \in Conns : /\ conn'[c].sent = conn[c].sent /\ (conn'[c].is = "none" => conn[c].is = "none")
                       /\ Counted(c)' <= conn[c].sent /\ Owed(c)' <= Owed(c)
  BY <1>2, <1>3, <1>4
<1>8. Track'
  BY <1>1, <1>6, <1>7, TrackKept
<1> QED BY <1>1, <1>5, <1>8 DEF Billing, Meter

\* After a crash everything carried may be billed once more.
LEMMA SlipBilled ==
  ASSUME TypeOK, TypeOK', Track, proto = "ssh", UNCHANGED <<proto, carried, meta>>, slips' = slips + 1,
         \A c \in Conns : /\ conn'[c].sent = conn[c].sent /\ (conn'[c].is = "none" => conn[c].is = "none")
                          /\ Counted(c)' <= conn[c].sent,
         \A u \in Nat : UsedMay(u)' => UsedMay(u)
  PROVE  Track'
<1>1. PICK o : o = Owing'
  OBVIOUS
<1>2. PICK s : s = Sent'
  OBVIOUS
<1>3. Debts'
  BY DebtsStay DEF TypeOK
<1>4. \A c \in Conns : o[c] \in Nat /\ s[c] \in Nat /\ o[c] <= s[c] /\ s[c] = conn[c].sent
  <2>1. \A c \in Conns : o[c] = Owed(c)' /\ s[c] = conn'[c].sent
    BY <1>1, <1>2 DEF Owing, Sent
  <2> QED BY <1>3, <2>1 DEF Debts
<1>5. Sum(o, Conns) \in Nat /\ Sum(o, Conns) <= Sum(s, Conns) /\ Sum(s, Conns) = carried
  BY <1>1, <1>2, <1>4, SumsNext
<1>6. Bill' = Bill + carried /\ Bill \in Nat /\ carried \in Nat
  BY BillNat, Bills DEF Bill
<1>7. Sum(Owing, Conns) \in Nat
  BY SumsAre DEF Track
<1>8. ASSUME NEW u \in Nat, UsedMay(u)' PROVE u + Sum(o, Conns) <= Bill' /\ (meta'.here \/ u = 0)
  <2>1. u + Sum(Owing, Conns) <= Bill /\ (meta.here \/ u = 0)
    BY <1>8 DEF Track
  <2> QED BY <1>5, <1>6, <1>7, <2>1
<1>9. \A c \in Conns : Counted(c)' <= conn'[c].sent /\ (conn'[c].is = "none" => conn'[c].sent = 0)
  BY DEF Track
<1>10. carried' = Sum(s, Conns)
  BY <1>5
<1> QED BY <1>1, <1>2, <1>8, <1>9, <1>10 DEF Track

\* A crash of the tracker, which comes back with its last state or with none.
LEMMA CrashBilled ==
  ASSUME TypeOK, TypeOK', Billing, TrackCrash
  PROVE  Billing'
<1>1. proto = "ssh" /\ SshOK /\ TodoOK
  BY TrackerIsSsh DEF TrackCrash, TypeOK
<1>2. /\ Replaced("tracker", <<>>) /\ "tracker" \in Procs /\ Script(<<>>)
      /\ AllDecent /\ Track /\ UNCHANGED <<proto, meta, conn, count, carried>> /\ slips' = slips + 1
  BY NoSteps DEF TrackCrash, Replaced, Procs, Billing
<1>3. Elems(<<>>) = {}
  BY ElemsOf
<1>4. Decent("tracker", <<>>)
  BY <1>2, <1>3, CalmKinds, CalmDecent
<1>5. AllDecent'
  BY <1>1, <1>2, <1>4, DecentNext
<1>6. \A u \in Nat : Pending("used", u)' => Pending("used", u)
  BY <1>1, <1>2, <1>3, PendingNext
<1>7. \A u \in Nat : UsedMay(u)' => UsedMay(u)
  BY <1>2, <1>6 DEF UsedMay
<1>8. \A c \in Conns : /\ conn'[c].sent = conn[c].sent /\ (conn'[c].is = "none" => conn[c].is = "none")
                       /\ Counted(c)' <= conn[c].sent
  BY <1>1, <1>2 DEF Track, Counted
<1>9. Track'
  BY <1>1, <1>2, <1>7, <1>8, SlipBilled
<1> QED BY <1>1, <1>2, <1>5, <1>9 DEF Billing, Meter

\* A reboot: every script and every counter is lost, and the state file stays.
LEMMA RebootBilled ==
  ASSUME TypeOK, TypeOK', Billing, Reboot
  PROVE  Billing'
<1>1. /\ UNCHANGED <<proto, meta, carried, sole>> /\ slips' = slips + 1 /\ raw' = 0 /\ count' = NoConns
      /\ AllDecent /\ Track /\ Meter
      /\ conn \in [Conns -> [is : {"none", "open", "closed"}, sent : Nat]]
  BY DEF Reboot, Billing, TypeOK, SshOK
<1>2. \A p \in Procs : Elems(todo[p])' = {} /\ todo'[p] = <<>>
  BY ElemsOf DEF Reboot, Elems
<1>3. AllDecent'
  BY <1>2 DEF AllDecent, Decent
<1>4. \A f, n : ~Pending(f, n)'
  BY <1>2 DEF Pending
<1>5. \A u \in Nat : UsedMay(u)' => UsedMay(u)
  BY <1>1, <1>4 DEF UsedMay
<1>6. Meter'
  <2>1. CASE proto = "ssh"
    BY <1>1, <2>1 DEF Meter
  <2>2. CASE proto # "ssh"
    <3>1. Fewer
      BY <1>2 DEF Fewer
    <3>2. /\ \A u : Basis(u)' => Basis(u)
          /\ \A p \in Procs : \A r : Reading(p, r)' => Reading(p, r)
          /\ \A p \in Procs : Measuring(p)' => Measuring(p)
      BY <1>1, <3>1, FewerMay
    <3>3. \A u \in Nat : TotalMay(u)' => u = 0 \/ TotalMay(u)
      BY <1>5, <3>2 DEF TotalMay
    <3>4. (meta'.here /\ proto \in Metered) \/ meta'.used = 0
      BY <1>1, <2>2 DEF Meter
    <3>5. \A p \in Procs, r \in Nat : Reading(p, r)' => Reading(p, r)
      BY <3>2
    <3>6. proto' = proto /\ sole' = sole /\ carried' = carried /\ slips' = slips + 1 /\ raw' \in {raw, 0}
      BY <1>1
    <3> QED BY <1>1, <2>2, <3>2, <3>3, <3>4, <3>5, <3>6, MeterSlipped
  <2> QED BY <2>1, <2>2
<1>7. Track'
  <2> SUFFICES ASSUME proto = "ssh" PROVE Track'
    BY <1>1 DEF Track
  <2>1. \A c \in Conns : /\ conn'[c].sent = conn[c].sent /\ (conn'[c].is = "none" => conn[c].is = "none")
                         /\ conn[c].sent \in Nat
    BY <1>1 DEF Reboot
  <2>2. \A c \in Conns : Counted(c)' = 0
    BY <1>1 DEF Counted, NoConns
  <2> QED BY <1>1, <1>5, <2>1, <2>2, SlipBilled
<1> QED BY <1>3, <1>6, <1>7 DEF Billing

\* One unit more is carried: at most one more is owed, and one more may be billed.
LEMMA SshCarried ==
  ASSUME TypeOK, TypeOK', Billing, NEW d \in Conns, CarrySsh(d)
  PROVE  Billing'
<1>1. /\ UNCHANGED <<proto, meta, slips, todo, file, trk, raw, sole>> /\ carried' = carried + 1
      /\ AllDecent /\ Track /\ Meter /\ SshOK
  BY DEF CarrySsh, Billing, TypeOK
<1>2. AllDecent' /\ Fewer /\ \A n \in Nat : (UsedMay(n)' => UsedMay(n)) /\ (LastMay(n)' => LastMay(n))
  BY <1>1, Paused
<1>3. Bill \in Nat /\ Bill' \in Nat /\ Bill + 1 <= Bill' /\ carried \in Nat
  <2>1. slips \in Nat /\ carried \in Nat /\ carried + 1 \in Nat
    BY DEF TypeOK, AccountOK
  <2>2. (1 + slips) * carried + 1 <= (1 + slips) * (carried + 1)
    BY <2>1, Bills
  <2>3. (1 + slips) * carried \in Nat /\ (1 + slips) * (carried + 1) \in Nat
    BY <2>1, Bills
  <2> QED BY <1>1, <2>1, <2>2, <2>3 DEF Bill
<1>4. Meter'
  <2>1. CASE proto = "ssh"
    BY <1>1, <2>1 DEF Meter
  <2>2. CASE proto # "ssh"
    <3>1. carried <= carried' /\ Bill <= Bill' /\ raw' \in {raw, 0} /\ sole' = sole /\ proto' = proto
      BY <1>1, <1>3
    <3>2. NoMore
      BY <1>1, <1>2, <2>2, Unmoved
    <3> QED BY <1>1, <2>2, <3>1, <3>2, MeterKept
  <2> QED BY <2>1, <2>2
<1>5. Track'
  <2> SUFFICES ASSUME proto = "ssh" PROVE Track'
    BY <1>1 DEF Track
  <2>1. /\ conn[d].is = "open" /\ conn' = [conn EXCEPT ![d].sent = @ + 1]
        /\ count' = IF d \in DOMAIN count THEN [count EXCEPT ![d] = @ + 1] ELSE count
    BY DEF CarrySsh
  <2>2. conn \in [Conns -> [is : {"none", "open", "closed"}, sent : Nat]]
    BY <1>1 DEF SshOK
  <2>3. \A c \in Conns : /\ conn'[c].is = conn[c].is
                         /\ conn'[c].sent = IF c = d THEN conn[c].sent + 1 ELSE conn[c].sent
    BY <2>1, <2>2
  <2>4. \A c \in Conns : Counted(c) \in Nat /\ Counted(c) <= conn[c].sent /\ Owed(c) \in Nat
    BY <1>1, CountNat, KnownIs DEF Track
  <2>5. \A c \in Conns : Counted(c)' = IF c = d /\ d \in DOMAIN count THEN Counted(c) + 1 ELSE Counted(c)
    BY <2>1 DEF Counted
  <2>6. Known' = Known /\ \A c \in DOMAIN Known : Known[c] \in Nat
    BY <1>1, KnownIs DEF Known
  <2>7. \A c \in Conns : c # d => Owed(c)' = Owed(c)
    <3> SUFFICES ASSUME NEW c \in Conns, c # d PROVE Owed(c)' = Owed(c)
      OBVIOUS
    <3>1. Counted(c)' = Counted(c) /\ Seed(c)' = Seed(c)
      BY <2>3, <2>5 DEF Seed
    <3> QED BY <2>6, <3>1 DEF Owed
  <2>8. Owed(d)' <= Owed(d) + 1
    <3>1. CASE d \in DOMAIN Known
      <4>1. Known[d] \in Nat /\ Counted(d) \in Nat /\ Counted(d)' \in {Counted(d), Counted(d) + 1}
        BY <2>4, <2>5, <2>6, <3>1
      <4>2. /\ Owed(d)' = IF Counted(d)' > Known[d] THEN Counted(d)' - Known[d] ELSE 0
            /\ Owed(d) = IF Counted(d) > Known[d] THEN Counted(d) - Known[d] ELSE 0
        BY <2>6, <3>1 DEF Owed
      <4> QED BY <4>1, <4>2
    <3>2. CASE d \notin DOMAIN Known
      <4>1. Owed(d)' = Seed(d)' /\ Owed(d) = Seed(d)
        BY <2>6, <3>2 DEF Owed
      <4>2. Seed(d) = conn[d].sent /\ Seed(d)' = conn[d].sent + 1 /\ conn[d].sent \in Nat
        BY <2>1, <2>2, <2>3 DEF Seed
      <4> QED BY <4>1, <4>2
    <3> QED BY <3>1, <3>2
  <2>9. PICK o : o = Owing'
    OBVIOUS
  <2>10. PICK s : s = Sent'
    OBVIOUS
  <2>11. \A c \in Conns : o[c] = Owed(c)' /\ s[c] = conn'[c].sent /\ Owing[c] = Owed(c) /\ Sent[c] = conn[c].sent
    BY <2>9, <2>10 DEF Owing, Sent
  <2>12. \A c \in Conns : o[c] \in Nat /\ s[c] \in Nat /\ Owing[c] \in Nat /\ Sent[c] \in Nat
    <3>1. Debts'
      BY DebtsStay DEF TypeOK
    <3> QED BY <2>2, <2>4, <2>11, <3>1 DEF Debts
  <2>13. Sum(o, Conns) <= Sum(Owing, Conns) + 1
    <3>1. (\A x \in Conns : x # d => o[x] <= Owing[x]) /\ o[d] <= Owing[d] + 1
      BY <2>4, <2>7, <2>8, <2>11
    <3>2. \A x \in Conns : Owing[x] \in Nat /\ o[x] \in Nat
      BY <2>12
    <3> HIDE DEF Owing
    <3> QED BY <3>1, <3>2, ConnsAssumption, SumMore
  <2>14. Sum(s, Conns) = carried + 1
    <3>1. (\A x \in Conns : x # d => s[x] = Sent[x]) /\ s[d] = Sent[d] + 1
      BY <2>3, <2>11
    <3>2. \A x \in Conns : Sent[x] \in Nat /\ s[x] \in Nat
      BY <2>12
    <3>3. (\A x \in Conns : x # d => s[x] <= Sent[x]) /\ s[d] <= Sent[d] + 1
      BY <3>1, <3>2
    <3>4. Sum(s, Conns) = Sum(Sent, Conns) + 1
      BY <3>1, <3>2, <3>3, ConnsAssumption, SumMore
    <3> QED BY <1>1, <3>4 DEF Track
  <2>15. Sum(o, Conns) \in Nat /\ Sum(Owing, Conns) \in Nat
    <3>1. Sum(o, Conns) \in Nat
      <4>1. \A x \in Conns : o[x] \in Nat
        BY <2>12
      <4> QED BY <4>1, ConnsAssumption, SumNat
    <3> QED BY <2>4, <3>1, SumsAre
  <2>16. ASSUME NEW u \in Nat, UsedMay(u)' PROVE u + Sum(o, Conns) <= Bill' /\ (meta'.here \/ u = 0)
    <3>1. u + Sum(Owing, Conns) <= Bill /\ (meta.here \/ u = 0)
      BY <1>1, <1>2, <2>16 DEF Track
    <3> QED BY <1>1, <1>3, <2>13, <2>15, <3>1
  <2>17. \A c \in Conns : Counted(c)' <= conn'[c].sent /\ (conn'[c].is = "none" => conn'[c].sent = 0)
    <3>1. \A c \in Conns : conn[c].is = "none" => conn[c].sent = 0 /\ c # d
      BY <1>1, <2>1 DEF Track
    <3> QED BY <2>2, <2>3, <2>4, <2>5, <3>1
  <2>18. carried' = Sum(s, Conns)
    BY <1>1, <2>14
  <2> QED BY <1>1, <2>9, <2>10, <2>16, <2>17, <2>18 DEF Track
<1> QED BY <1>2, <1>4, <1>5 DEF Billing

\* The same for a tunnel with one counter, of which the growth is billed later.
LEMMA CarryBilled ==
  ASSUME TypeOK, TypeOK', Billing, Carry
  PROVE  Billing'
<1>1. /\ UNCHANGED <<proto, meta, slips, todo, sole>> /\ carried' = carried + 1 /\ raw' = raw + 1
      /\ proto # "ssh" /\ AllDecent /\ Meter
  BY DEF Carry, Billing
<1>2. /\ AllDecent' /\ Fewer
      /\ \A n \in Nat : (UsedMay(n)' => UsedMay(n)) /\ (LastMay(n)' => LastMay(n))
  BY <1>1, Paused
<1>3. Bill \in Nat /\ Bill' \in Nat /\ Bill + 1 <= Bill' /\ carried \in Nat
  <2>1. slips \in Nat /\ carried \in Nat /\ carried + 1 \in Nat
    BY DEF TypeOK, AccountOK
  <2>2. (1 + slips) * carried + 1 <= (1 + slips) * (carried + 1)
    BY <2>1, Bills
  <2>3. (1 + slips) * carried \in Nat /\ (1 + slips) * (carried + 1) \in Nat
    BY <2>1, Bills
  <2> QED BY <1>1, <2>1, <2>2, <2>3 DEF Bill
<1>4. raw \in Nat /\ raw <= carried
  BY <1>1, MetaNat DEF Meter
<1>5. /\ \A u \in Nat : TotalMay(u)' => TotalMay(u)
      /\ \A p \in Procs : \A r : Reading(p, r)' => Reading(p, r)
      /\ \A p \in Procs : Measuring(p)' => Measuring(p)
  BY <1>1, <1>2, FewerMay DEF TotalMay
<1>6. ASSUME NEW l \in Nat
      PROVE  GrowthFrom(l)' <= GrowthFrom(l) + 1 /\ GrowthFrom(l)' \in Nat /\ GrowthFrom(l) \in Nat
  BY <1>1, <1>4 DEF GrowthFrom
<1>7. ASSUME NEW u \in Nat, TotalMay(u)' PROVE u <= Bill'
  <2>1. u <= Bill
    BY <1>1, <1>5, <1>7 DEF Meter
  <2> QED BY <1>3, <2>1
<1>8. ASSUME meta'.here, NEW u \in Nat, NEW l \in Nat, TotalMay(u)', LastMay(l)'
      PROVE  u + GrowthFrom(l)' <= Bill'
  <2>1. u + GrowthFrom(l) <= Bill
    BY <1>1, <1>2, <1>5, <1>8 DEF Meter
  <2> QED BY <1>3, <1>6, <2>1
<1>9. ASSUME NEW p \in Procs, NEW r \in Nat, Reading(p, r)'
      PROVE  /\ r + GrowthFrom(r)' <= carried'
             /\ p \in sole' => \A u \in Nat : TotalMay(u)' => u + Growth(r)' + GrowthFrom(r)' <= Bill'
  <2>1. Reading(p, r)
    BY <1>5, <1>9
  <2>2. r + GrowthFrom(r) <= carried
    BY <1>1, <2>1 DEF Meter
  <2>3. ASSUME p \in sole', NEW u \in Nat, TotalMay(u)' PROVE u + Growth(r)' + GrowthFrom(r)' <= Bill'
    <3>1. Growth(r)' = Growth(r) /\ Growth(r) \in Nat
      BY <1>1, FoundLess DEF Growth
    <3>2. u + Growth(r) + GrowthFrom(r) <= Bill
      BY <1>1, <1>5, <2>1, <2>3 DEF Meter
    <3> QED BY <1>3, <1>6, <3>1, <3>2
  <2> QED BY <1>1, <1>3, <1>6, <2>2, <2>3
<1>10. \A p \in sole' : \A q \in Procs \ {p} : ~Measuring(q)'
  BY <1>1, <1>5 DEF Meter
<1>11. raw' <= carried'
  BY <1>1, <1>3, <1>4
<1>12. (meta'.here /\ proto' \in Metered) \/ meta'.used = 0
  BY <1>1 DEF Meter, Metered
<1>13. Meter'
  BY <1>7, <1>8, <1>9, <1>10, <1>11, <1>12 DEF Meter
<1> QED BY <1>1, <1>2, <1>13 DEF Billing, Track

\* A new account owes nothing.
LEMMA InitBilled == Init => Billing
<1> SUFFICES ASSUME Init PROVE Billing
  OBVIOUS
<1>0. TypeOK
  BY InitTypes
<1>1. \A p \in Procs : Elems(todo[p]) = {} /\ todo[p] = <<>>
  BY ElemsOf DEF Init
<1>2. AllDecent
  BY <1>1 DEF AllDecent, Decent
<1>3. \A f, n : ~Pending(f, n)
  BY <1>1 DEF Pending
<1>4. meta.used = 0 /\ meta.last = 0 /\ meta.here
  BY DEF Init, NewMeta
<1>5. \A u \in Nat : UsedMay(u) => u = 0
  BY <1>3, <1>4 DEF UsedMay
<1>6. raw = 0 /\ carried = 0 /\ Bill \in Nat
  BY <1>0, BillNat DEF Init
<1>7. Meter
  <2>1. \A l \in Nat : GrowthFrom(l) = 0
    BY <1>6 DEF GrowthFrom
  <2>2. (\A u : ~Basis(u)) /\ \A p \in Procs : \A r : ~Reading(p, r)
    BY <1>1 DEF Basis, Reading
  <2>3. \A u \in Nat : TotalMay(u) => u = 0
    BY <1>5, <2>2 DEF TotalMay
  <2>4. sole = {}
    BY DEF Init
  <2> QED BY <1>4, <1>6, <2>1, <2>2, <2>3, <2>4 DEF Meter
<1>8. Track
  <2>1. \A c \in Conns : Counted(c) = 0 /\ conn[c].sent = 0
    BY DEF Init, Counted, NoConns
  <2>2. \A c \in Conns : Counted(c) <= conn[c].sent
    BY <2>1
  <2>3. Sum(Owing, Conns) \in Nat /\ Sum(Owing, Conns) <= Sum(Sent, Conns)
    BY <1>0, <2>2, SumsAre
  <2>4. Sum(Sent, Conns) = 0
    <3>1. \A x \in Conns \ {} : Sent[x] = 0
      BY <2>1 DEF Sent
    <3>2. Sum(Sent, Conns) = Sum(Sent, {})
      <4> HIDE DEF Sent
      <4> QED BY <3>1, ConnsAssumption, SumOver
    <3> QED BY <3>2, FS_EmptySet, SumStep
  <2>5. \A u \in Nat : UsedMay(u) => u + Sum(Owing, Conns) <= Bill
    BY <1>5, <1>6, <2>3, <2>4
  <2> QED BY <1>4, <1>6, <2>1, <2>2, <2>4, <2>5 DEF Track
<1> QED BY <1>2, <1>7, <1>8 DEF Billing

\* Every step keeps it.
LEMMA NextBilled == OneAdmin /\ TypeOK /\ TypeOK' /\ Billing /\ [Next]_vars => Billing'
<1> SUFFICES ASSUME OneAdmin, TypeOK, TypeOK', Billing, [Next]_vars PROVE Billing'
  OBVIOUS
<1>1. CASE UNCHANGED vars
  <2>1. AllDecent' /\ Fewer /\ \A n \in Nat : (UsedMay(n)' => UsedMay(n)) /\ (LastMay(n)' => LastMay(n))
    BY <1>1, Paused DEF vars, Billing
  <2>2. Alike /\ meta' = meta
    BY <1>1 DEF vars, ssh, Alike, Elsewhere
  <2> QED BY <2>1, <2>2, Still
<1>2. ASSUME NEW p \in Procs, Command(p) \/ Enforce(p) \/ ExpiryEnforce(p) \/ Panel(p) PROVE Billing'
  BY <1>2, CommandBilled, CallsBilled
<1>3. ASSUME Environment PROVE Billing'
  BY <1>3, RestBilled, LoginBilled, CrashBilled, RebootBilled, SshCarried, CarryBilled DEF Environment
<1> QED BY <1>1, <1>2, <1>3, TrackerBilled, Zenon DEF Next

\* What is owed is never negative: the total is below the bound.
LEMMA BillingShown == TypeOK /\ Billing => BilledAtMostCarried
<1> SUFFICES ASSUME TypeOK, Billing PROVE BilledAtMostCarried
  OBVIOUS
<1>1. meta.used \in Nat /\ UsedMay(meta.used) /\ Bill \in Nat
  BY MetaNat, BillNat DEF UsedMay
<1>2. CASE proto = "ssh"
  <2>1. Sum(Owing, Conns) \in Nat /\ meta.used + Sum(Owing, Conns) <= Bill
    BY <1>1, <1>2, SumsAre DEF Billing, Track
  <2> QED BY <1>1, <2>1 DEF BilledAtMostCarried, Bill
<1>3. CASE proto # "ssh"
  <2>1. TotalMay(meta.used)
    BY <1>1 DEF TotalMay
  <2>2. meta.used <= Bill
    BY <1>1, <1>3, <2>1 DEF Billing, Meter
  <2> QED BY <2>2 DEF BilledAtMostCarried, Bill
<1> QED BY <1>2, <1>3

\* BilledAtMostCarried, always, for any number of connections, rounds of cron and
\* processes, if one administrator at a time works on SSH accounts: what a user is
\* billed is at most what the tunnel carried, once more for every crash, every measure that
\* failed or that another overlapped, and every account replaced under a measure.
THEOREM BilledOnce == OneAdmin => (Spec => []BilledAtMostCarried)
<1> SUFFICES ASSUME OneAdmin PROVE Spec => []BilledAtMostCarried
  OBVIOUS
<1>1. TypeOK /\ TypeOK' /\ Billing /\ [Next]_vars => Billing'
  BY NextBilled
<1>2. Spec => []Billing
  BY <1>1, Types, InitBilled, PTL DEF Spec
<1> QED BY <1>2, Types, BillingShown, PTL
=============================================================================
