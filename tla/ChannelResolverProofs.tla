------------------------ MODULE ChannelResolverProofs ------------------------
(***************************************************************************)
(* The adjacency pass, for any list of items with any limits, and the      *)
(* channel that runs it, for any timetable, rotations and lists.           *)
(***************************************************************************)
EXTENDS ChannelResolver, FiniteSetTheorems, WellFoundedInduction, TLAPS

\* Induction over the subsets of a finite set, for a set of them.
LEMMA FiniteInduction ==
    ASSUME NEW S, IsFiniteSet(S), NEW C,
           \A T \in SUBSET S : (\A x \in T : T \ {x} \in C) => T \in C
    PROVE  S \in C
<1> DEFINE Bad == {T \in SUBSET S : T \notin C}
<1> SUFFICES ASSUME Bad # {} PROVE FALSE
  OBVIOUS
<1>1. Bad \subseteq FiniteSubsetsOf(S)
  BY FS_Subset DEF FiniteSubsetsOf
<1>2. PICK T \in Bad : \A U \in Bad : ~(<<U, T>> \in StrictSubsetOrdering(S))
  <2>1. IsWellFoundedOn(StrictSubsetOrdering(S), FiniteSubsetsOf(S))
    BY FS_StrictSubsetOrderingWellFounded
  <2> QED BY <1>1, <2>1, WFMin
<1>3. PICK x \in T : T \ {x} \notin C
  BY <1>2
<1>4. T \ {x} \in Bad /\ T \ {x} \in SUBSET S /\ T \in SUBSET S /\ T \ {x} # T /\ T \ {x} \subseteq T
  BY <1>2, <1>3
<1>5. <<T \ {x}, T>> \in StrictSubsetOrdering(S)
  BY <1>4 DEF StrictSubsetOrdering
<1> QED BY <1>2, <1>4, <1>5

-----------------------------------------------------------------------------
(* Sums *)

ATerm(S)      == CHOOSE x \in S : TRUE
Part(g, f, s) == IF s = {} THEN 0 ELSE f[ATerm(s)] + g[s \ {ATerm(s)}]
IsSum(g, f, S) == g = [s \in SUBSET S |-> Part(g, f, s)]

LEMMA SumIs ==
    ASSUME NEW f, NEW S
    PROVE  SumFunctionOnSet(f, S) = (CHOOSE g : IsSum(g, f, S))[S]
BY Zenon DEF SumFunctionOnSet, FoldFunctionOnSet, MapThenFoldSet, IsSum, Part, ATerm

LEMMA ATermIn ==
    ASSUME NEW S, S # {}
    PROVE  ATerm(S) \in S
BY DEF ATerm

LEMMA OneSum ==
    ASSUME NEW f, NEW S, IsFiniteSet(S), NEW T, NEW g, NEW h, IsSum(g, f, S), IsSum(h, f, T), S \subseteq T
    PROVE  g[S] = h[S]
<1> DEFINE C == {s \in SUBSET S : g[s] = h[s]}
<1>1. ASSUME NEW s \in SUBSET S, \A x \in s : s \ {x} \in C PROVE s \in C
  <2>1. g[s] = Part(g, f, s) /\ h[s] = Part(h, f, s)
    BY DEF IsSum
  <2>2. CASE s = {}
    BY <2>1, <2>2 DEF Part
  <2>3. CASE s # {}
    <3>1. s \ {ATerm(s)} \in C
      BY <1>1, <2>3, ATermIn
    <3> QED BY <2>1, <2>3, <3>1 DEF Part
  <2> QED BY <2>2, <2>3
<1>2. S \in C
  <2> HIDE DEF C
  <2> QED BY <1>1, FiniteInduction
<1> QED BY <1>2

LEMMA SumExists ==
    ASSUME NEW f, NEW S, IsFiniteSet(S)
    PROVE  \E g : IsSum(g, f, S)
<1> DEFINE C == {T \in SUBSET S : \E g : IsSum(g, f, T)}
<1>1. ASSUME NEW T \in SUBSET S, \A x \in T : T \ {x} \in C PROVE T \in C
  <2> DEFINE a == ATerm(T)
  <2>1. CASE T = {}
    <3> DEFINE g == [s \in SUBSET T |-> 0]
    <3>1. \A s \in SUBSET T : Part(g, f, s) = 0
      BY <2>1 DEF Part
    <3>2. IsSum(g, f, T)
      BY <3>1 DEF IsSum
    <3> QED BY <3>2
  <2>2. CASE T # {}
    <3>1. \A x \in T : \E h : IsSum(h, f, T \ {x})
      BY <1>1
    <3> DEFINE H(x) == CHOOSE h : IsSum(h, f, T \ {x})
    <3>2. \A x \in T : IsSum(H(x), f, T \ {x})
      BY <3>1
    <3> DEFINE Out(s) == CHOOSE x \in T : x \notin s
               low(s) == H(Out(s))[s]
               g == [s \in SUBSET T |-> IF s = T THEN f[a] + low(T \ {a}) ELSE low(s)]
    <3>3. \A s \in SUBSET T : s # T => Out(s) \in T /\ Out(s) \notin s
      OBVIOUS
    <3>4. IsFiniteSet(T)
      BY FS_Subset
    <3>5. ASSUME NEW s \in SUBSET T, s # T PROVE low(s) = Part(g, f, s)
      <4>1. Out(s) \in T /\ s \subseteq T \ {Out(s)}
        BY <3>3, <3>5
      <4>2. IsSum(H(Out(s)), f, T \ {Out(s)})
        BY <3>2, <4>1
      <4>3. low(s) = Part(H(Out(s)), f, s)
        <5> HIDE DEF H, Out
        <5> QED BY <4>1, <4>2 DEF IsSum
      <4>4. CASE s = {}
        BY <4>3, <4>4 DEF Part
      <4>5. CASE s # {}
        <5> DEFINE r == s \ {ATerm(s)}
        <5>1. r \in SUBSET T /\ r # T /\ r \subseteq T \ {Out(s)} /\ r \subseteq s
          BY <3>5, <4>1, <4>5, ATermIn
        <5>2. g[r] = low(r)
          BY <5>1
        <5>3. Out(r) \in T /\ r \subseteq T \ {Out(r)}
          BY <3>3, <5>1
        <5>4. IsSum(H(Out(r)), f, T \ {Out(r)})
          BY <3>2, <5>3
        <5>5. H(Out(r))[r] = H(Out(s))[r]
          <6> HIDE DEF H, Out, r
          <6>1. IsFiniteSet(r)
            BY <3>4, <5>1, FS_Subset
          <6>2. IsSum([t \in SUBSET r |-> H(Out(r))[t]], f, r)
            <7> DEFINE k == [t \in SUBSET r |-> H(Out(r))[t]]
            <7>1. ASSUME NEW t \in SUBSET r PROVE k[t] = Part(k, f, t)
              <8>1. H(Out(r))[t] = Part(H(Out(r)), f, t)
                BY <5>3, <5>4 DEF IsSum
              <8>2. t # {} => t \ {ATerm(t)} \in SUBSET r
                OBVIOUS
              <8> QED BY <8>1, <8>2 DEF Part
            <7>2. k = [t \in SUBSET r |-> k[t]]
              OBVIOUS
            <7>3. k = [t \in SUBSET r |-> Part(k, f, t)]
              <8> HIDE DEF k
              <8> QED BY <7>1, <7>2
            <7> QED BY <7>3 DEF IsSum
          <6>3. [t \in SUBSET r |-> H(Out(r))[t]][r] = H(Out(r))[r]
            OBVIOUS
          <6>4. [t \in SUBSET r |-> H(Out(r))[t]][r] = H(Out(r))[r]
                /\ [t \in SUBSET r |-> H(Out(r))[t]][r] = H(Out(s))[r]
            BY <4>2, <5>1, <5>3, <5>4, <6>1, <6>2, <6>3, OneSum
          <6> QED BY <6>4
        <5>6. Part(g, f, s) = f[ATerm(s)] + g[r] /\ Part(H(Out(s)), f, s) = f[ATerm(s)] + H(Out(s))[r]
          BY <4>5 DEF Part
        <5> HIDE DEF g, H, Out, r
        <5> QED BY <4>3, <5>2, <5>5, <5>6
      <4> QED BY <4>4, <4>5
    <3>6. g[T] = Part(g, f, T)
      <4>1. T \ {a} \in SUBSET T /\ T \ {a} # T
        BY <2>2, ATermIn
      <4>2. g[T \ {a}] = low(T \ {a}) /\ g[T] = f[a] + low(T \ {a})
        BY <4>1
      <4> HIDE DEF g, H, Out
      <4> QED BY <2>2, <4>2 DEF Part
    <3>7. \A s \in SUBSET T : g[s] = Part(g, f, s)
      <4> TAKE s \in SUBSET T
      <4>1. CASE s = T
        BY <3>6, <4>1
      <4>2. CASE s # T
        <5>1. g[s] = low(s)
          BY <4>2
        <5> HIDE DEF g, H, Out
        <5> QED BY <3>5, <4>2, <5>1
      <4> QED BY <4>1, <4>2
    <3>8. g = [s \in SUBSET T |-> g[s]]
      OBVIOUS
    <3>9. IsSum(g, f, T)
      <4> HIDE DEF g
      <4> QED BY <3>7, <3>8 DEF IsSum
    <3> QED BY <3>9
  <2> QED BY <2>1, <2>2
<1>2. S \in C
  <2> HIDE DEF C
  <2> QED BY <1>1, FiniteInduction
<1> QED BY <1>2

LEMMA SumUnfolds ==
    ASSUME NEW f, NEW S, IsFiniteSet(S)
    PROVE  SumFunctionOnSet(f, S) = IF S = {} THEN 0 ELSE f[ATerm(S)] + SumFunctionOnSet(f, S \ {ATerm(S)})
<1> DEFINE g == CHOOSE g : IsSum(g, f, S)
           R == S \ {ATerm(S)}
           h == CHOOSE h : IsSum(h, f, R)
<1>1. IsSum(g, f, S) /\ SumFunctionOnSet(f, S) = g[S]
  BY SumExists, SumIs
<1>2. IsFiniteSet(R) /\ R \subseteq S
  BY FS_Subset
<1>3. IsSum(h, f, R) /\ SumFunctionOnSet(f, R) = h[R]
  BY <1>2, SumExists, SumIs
<1>4. h[R] = g[R]
  <2> HIDE DEF g, h, R
  <2> QED BY <1>1, <1>2, <1>3, OneSum
<1>5. g[S] = Part(g, f, S)
  <2> HIDE DEF g
  <2> QED BY <1>1 DEF IsSum
<1>6. g[S] = IF S = {} THEN 0 ELSE f[ATerm(S)] + g[R]
  BY <1>5 DEF Part
<1> HIDE DEF g, h
<1> QED BY <1>1, <1>3, <1>4, <1>6

LEMMA SumType ==
    ASSUME NEW f, NEW S, IsFiniteSet(S), \A x \in S : f[x] \in Nat
    PROVE  SumFunctionOnSet(f, S) \in Nat
<1> DEFINE C == {T \in SUBSET S : SumFunctionOnSet(f, T) \in Nat}
<1>1. ASSUME NEW T \in SUBSET S, \A x \in T : T \ {x} \in C PROVE T \in C
  <2>1. IsFiniteSet(T)
    BY FS_Subset
  <2>2. CASE T = {}
    <3>1. SumFunctionOnSet(f, T) = 0
      BY <2>1, <2>2, SumUnfolds
    <3> QED BY <3>1
  <2>3. CASE T # {}
    <3>1. ATerm(T) \in T /\ T \ {ATerm(T)} \in C
      BY <1>1, <2>3, ATermIn
    <3>2. SumFunctionOnSet(f, T) = f[ATerm(T)] + SumFunctionOnSet(f, T \ {ATerm(T)})
      BY <2>1, <2>3, SumUnfolds
    <3> QED BY <3>1, <3>2
  <2> QED BY <2>2, <2>3
<1>2. S \in C
  <2> HIDE DEF C
  <2> QED BY <1>1, FiniteInduction
<1> QED BY <1>2

\* A sum is any of its terms and the sum of the others.
LEMMA SumOf ==
    ASSUME NEW f, NEW S, IsFiniteSet(S), \A x \in S : f[x] \in Nat, NEW x \in S
    PROVE  SumFunctionOnSet(f, S) = f[x] + SumFunctionOnSet(f, S \ {x})
<1> DEFINE sum(T) == SumFunctionOnSet(f, T)
           C == {T \in SUBSET S : \A y \in T : sum(T) = f[y] + sum(T \ {y})}
<1>0. \A T \in SUBSET S : IsFiniteSet(T) /\ sum(T) \in Nat
  BY FS_Subset, SumType
<1>1. ASSUME NEW T \in SUBSET S, \A y \in T : T \ {y} \in C PROVE T \in C
  <2> SUFFICES ASSUME NEW y \in T PROVE sum(T) = f[y] + sum(T \ {y})
    OBVIOUS
  <2> DEFINE a == ATerm(T)
  <2>1. a \in T /\ sum(T) = f[a] + sum(T \ {a})
    BY <1>0, ATermIn, SumUnfolds
  <2>2. CASE a = y
    BY <2>1, <2>2
  <2>3. CASE a # y
    <3>1. sum(T \ {a}) = f[y] + sum((T \ {a}) \ {y})
      <4>1. T \ {a} \in C /\ y \in T \ {a}
        BY <1>1, <2>1, <2>3
      <4> QED BY <4>1
    <3>2. sum(T \ {y}) = f[a] + sum((T \ {y}) \ {a})
      <4>1. T \ {y} \in C /\ a \in T \ {y}
        BY <1>1, <2>1, <2>3
      <4> QED BY <4>1
    <3>3. (T \ {y}) \ {a} = (T \ {a}) \ {y}
      OBVIOUS
    <3>4. f[y] \in Nat /\ f[a] \in Nat /\ sum((T \ {a}) \ {y}) \in Nat
      BY <1>0, <2>1
    <3> HIDE DEF sum, a
    <3> QED BY <2>1, <3>1, <3>2, <3>3, <3>4
  <2> QED BY <2>2, <2>3
<1>2. S \in C
  <2> HIDE DEF C
  <2> QED BY <1>1, FiniteInduction
<1> QED BY <1>2

LEMMA SumGrows ==
    ASSUME NEW f, NEW S, IsFiniteSet(S), \A x \in S : f[x] \in Nat, NEW R \in SUBSET S
    PROVE  SumFunctionOnSet(f, R) <= SumFunctionOnSet(f, S)
<1> DEFINE sum(T) == SumFunctionOnSet(f, T)
           C == {T \in SUBSET S : R \subseteq T => sum(R) <= sum(T)}
<1>0. \A T \in SUBSET S : IsFiniteSet(T) /\ sum(T) \in Nat
  BY FS_Subset, SumType
<1>1. ASSUME NEW T \in SUBSET S, \A y \in T : T \ {y} \in C PROVE T \in C
  <2> SUFFICES ASSUME R \subseteq T PROVE sum(R) <= sum(T)
    OBVIOUS
  <2>1. CASE R = T
    BY <1>0, <2>1
  <2>2. CASE R # T
    <3>1. PICK y \in T : y \notin R
      BY <2>2
    <3>2. T \ {y} \in C /\ R \subseteq T \ {y} /\ T \ {y} \in SUBSET S
      BY <1>1, <3>1
    <3>3. sum(R) <= sum(T \ {y})
      BY <3>2
    <3>4. sum(T) = f[y] + sum(T \ {y})
      BY <1>0, SumOf
    <3>5. f[y] \in Nat /\ sum(T \ {y}) \in Nat /\ sum(R) \in Nat
      BY <1>0, <3>2
    <3> HIDE DEF sum
    <3> QED BY <3>3, <3>4, <3>5
  <2> QED BY <2>1, <2>2
<1>2. S \in C
  <2> HIDE DEF C
  <2> QED BY <1>1, FiniteInduction
<1> QED BY <1>2

\* Counting by rows: the pairs <<i, a>> with a in the row of i.
PairsOf(A, S) == {p \in S \X UNION {A[i] : i \in S} : p[2] \in A[p[1]]}

LEMMA RowOf ==
    ASSUME NEW A, IsFiniteSet(A), NEW i
    PROVE  IsFiniteSet({i} \X A) /\ Cardinality({i} \X A) = Cardinality(A)
<1>1. IsFiniteSet({i}) /\ Cardinality({i}) = 1 /\ Cardinality(A) \in Nat
  BY FS_Singleton, FS_CardinalityType
<1>2. Cardinality({i} \X A) = 1 * Cardinality(A)
  BY <1>1, FS_Product
<1> QED BY <1>1, <1>2, FS_Product

LEMMA CountByRows ==
    ASSUME NEW S, IsFiniteSet(S), NEW A, \A i \in S : IsFiniteSet(A[i]),
           NEW f, \A i \in S : f[i] = Cardinality(A[i])
    PROVE  /\ IsFiniteSet(PairsOf(A, S))
           /\ SumFunctionOnSet(f, S) = Cardinality(PairsOf(A, S))
<1> DEFINE sum(T) == SumFunctionOnSet(f, T)
           C == {T \in SUBSET S : IsFiniteSet(PairsOf(A, T)) /\ sum(T) = Cardinality(PairsOf(A, T))}
<1>0. \A i \in S : f[i] \in Nat
  BY FS_CardinalityType
<1>1. ASSUME NEW T \in SUBSET S, \A y \in T : T \ {y} \in C PROVE T \in C
  <2>0. IsFiniteSet(T)
    BY FS_Subset
  <2>1. CASE T = {}
    <3>1. PairsOf(A, T) = {} /\ sum(T) = 0
      BY <2>0, <2>1, SumUnfolds DEF PairsOf
    <3> QED BY <3>1, FS_EmptySet
  <2>2. CASE T # {}
    <3>1. PICK y \in T : TRUE
      BY <2>2
    <3> DEFINE Column == {y} \X A[y]
               Rest == PairsOf(A, T \ {y})
    <3>2. IsFiniteSet(Rest) /\ sum(T \ {y}) = Cardinality(Rest)
      <4>1. T \ {y} \in C
        BY <1>1
      <4> QED BY <4>1
    <3>3. IsFiniteSet(Column) /\ Cardinality(Column) = f[y]
      BY RowOf
    <3>4. PairsOf(A, T) = Rest \cup Column /\ Rest \cap Column = {}
      BY DEF PairsOf
    <3>5. sum(T) = f[y] + sum(T \ {y})
      BY <1>0, <2>0, SumOf
    <3>6. /\ IsFiniteSet(Rest \cup Column)
          /\ Cardinality(Rest \cup Column) = Cardinality(Rest) + Cardinality(Column) - Cardinality(Rest \cap Column)
      BY <3>2, <3>3, FS_Union
    <3>7. Cardinality(Rest \cap Column) = 0
      BY <3>4, FS_EmptySet
    <3>8. Cardinality(Rest) \in Nat /\ Cardinality(Column) \in Nat
      BY <3>2, <3>3, FS_CardinalityType
    <3>9. IsFiniteSet(PairsOf(A, T)) /\ sum(T) = Cardinality(PairsOf(A, T))
      <4> HIDE DEF Column, Rest, sum
      <4> QED BY <3>2, <3>3, <3>4, <3>5, <3>6, <3>7, <3>8
    <3> QED BY <3>9
  <2> QED BY <2>1, <2>2
<1>2. S \in C
  <2> HIDE DEF C
  <2> QED BY <1>1, FiniteInduction
<1> QED BY <1>2

-----------------------------------------------------------------------------
(* Greatest and least *)

LEMMA GreatestOf ==
    ASSUME NEW S, IsFiniteSet(S), S \subseteq Nat, S # {}
    PROVE  Max(S) \in S /\ \A x \in S : x <= Max(S)
<1> DEFINE C == {T \in SUBSET S : T # {} => \E m \in T : \A x \in T : x <= m}
<1>1. ASSUME NEW T \in SUBSET S, \A y \in T : T \ {y} \in C PROVE T \in C
  <2> SUFFICES ASSUME T # {} PROVE \E m \in T : \A x \in T : x <= m
    OBVIOUS
  <2>1. PICK y \in T : TRUE
    OBVIOUS
  <2>2. CASE T \ {y} = {}
    BY <2>1, <2>2
  <2>3. CASE T \ {y} # {}
    <3>1. T \ {y} \in C
      BY <1>1
    <3>2. PICK m \in T \ {y} : \A x \in T \ {y} : x <= m
      BY <2>3, <3>1
    <3>3. m \in Nat /\ y \in Nat
      BY <3>2
    <3>4. CASE y <= m
      BY <3>2, <3>4
    <3>5. CASE m <= y
      <4>1. \A x \in T : x <= y
        <5> TAKE x \in T
        <5>1. x \in Nat /\ (x = y \/ x <= m)
          BY <3>2
        <5> QED BY <3>3, <3>5, <5>1
      <4> QED BY <2>1, <4>1
    <3> QED BY <3>3, <3>4, <3>5
  <2> QED BY <2>2, <2>3
<1>2. S \in C
  <2> HIDE DEF C
  <2> QED BY <1>1, FiniteInduction
<1>3. PICK m \in S : \A x \in S : x <= m
  BY <1>2
<1>4. \A x \in S : m >= x
  BY <1>3
<1> QED BY <1>3, <1>4 DEF Max

LEMMA LeastOf ==
    ASSUME NEW S, S \subseteq Nat, S # {}
    PROVE  Min(S) \in S /\ \A x \in S : Min(S) <= x
<1> DEFINE R == OpToRel(<, Nat)
<1>1. IsWellFoundedOn(R, Nat)
  BY NatLessThanWellFounded DEF OpToRel
<1>2. PICK m \in S : \A x \in S : ~(<<x, m>> \in R)
  <2> HIDE DEF R
  <2> QED BY <1>1, WFMin
<1>3. \A x \in S : m <= x
  <2> TAKE x \in S
  <2>1. x \in Nat /\ m \in Nat /\ ~(x < m)
    BY <1>2 DEF OpToRel
  <2> QED BY <2>1
<1> HIDE DEF R
<1> QED BY <1>2, <1>3, Zenon DEF Min

-----------------------------------------------------------------------------
(* Reach *)

NatReach(r) == r.positions \in Nat /\ r.duration \in Nat
Reaches(r, item) == /\ item.repeat <= r.positions /\ item.separate <= r.positions
                    /\ item.within <= r.duration

LEMMA ReachOf ==
    ASSUME NEW a \in Item
    PROVE  NatReach(Reach(a)) /\ Reaches(Reach(a), a)
<1>1. a.repeat \in Nat /\ a.separate \in Nat /\ a.within \in Nat
  BY DEF Item
<1> DEFINE S == {a.repeat, a.separate}
<1>2. Max(S) \in S /\ \A x \in S : x <= Max(S)
  <2>1. IsFiniteSet({a.repeat}) /\ S = {a.repeat} \cup {a.separate}
    BY FS_Singleton
  <2>2. IsFiniteSet(S)
    <3> HIDE DEF S
    <3> QED BY <2>1, FS_AddElement
  <2>3. S \subseteq Nat /\ S # {}
    BY <1>1
  <2> HIDE DEF S
  <2> QED BY <2>2, <2>3, GreatestOf
<1>3. Reach(a) = [positions |-> Max(S), duration |-> a.within]
  BY DEF Reach
<1> QED BY <1>1, <1>2, <1>3 DEF NatReach, Reaches

LEMMA EmittedOf ==
    ASSUME NEW a \in Item
    PROVE  /\ Emitted(a) \in Item /\ Emitted(a).repeat = 0 /\ Emitted(a).within = 0 /\ Emitted(a).separate = 0
           /\ \A r : NatReach(r) => Reaches(r, Emitted(a))
<1> DEFINE e == [id |-> a.id, group |-> a.group, duration |-> a.duration, repeat |-> 0, within |-> 0, separate |-> 0]
<1> DEFINE b == [a EXCEPT !.repeat = 0]
           c == [b EXCEPT !.within = 0]
<1>1. Emitted(a) = e
  <2>1. b = [id |-> a.id, group |-> a.group, duration |-> a.duration, repeat |-> 0, within |-> a.within,
             separate |-> a.separate]
    BY DEF Item
  <2>2. c = [id |-> a.id, group |-> a.group, duration |-> a.duration, repeat |-> 0, within |-> 0,
             separate |-> a.separate]
    <3> HIDE DEF b
    <3> QED BY <2>1
  <2>3. Emitted(a) = [c EXCEPT !.separate = 0]
    BY DEF Emitted
  <2> HIDE DEF c
  <2> QED BY <2>2, <2>3
<1>2. e \in Item /\ e.repeat = 0 /\ e.within = 0 /\ e.separate = 0
  BY DEF Item
<1>3. \A r : NatReach(r) => Reaches(r, e)
  BY DEF NatReach, Reaches
<1> QED BY <1>1, <1>2, <1>3

LEMMA WidestOf ==
    ASSUME NEW list \in Seq(Item)
    PROVE  /\ NatReach(Widest(list))
           /\ \A i \in DOMAIN list : Reaches(Widest(list), list[i])
<1> DEFINE pos(i) == Reach(list[i]).positions
           dur(i) == Reach(list[i]).duration
           S == {pos(i) : i \in DOMAIN list}
           T == {dur(i) : i \in DOMAIN list}
<1>1. \A i \in DOMAIN list : /\ list[i] \in Item
                              /\ pos(i) \in Nat /\ dur(i) \in Nat
                              /\ list[i].repeat <= pos(i) /\ list[i].separate <= pos(i)
                              /\ list[i].within <= dur(i)
                              /\ list[i].repeat \in Nat /\ list[i].separate \in Nat /\ list[i].within \in Nat
  <2> TAKE i \in DOMAIN list
  <2>1. list[i] \in Item
    OBVIOUS
  <2> QED BY <2>1, ReachOf DEF NatReach, Reaches, Item
<1>2. IsFiniteSet(DOMAIN list)
  BY FS_Interval
<1>3. IsFiniteSet(S) /\ IsFiniteSet(T)
  <2>1. [i \in DOMAIN list |-> pos(i)] \in Surjection(DOMAIN list, S)
    BY DEF Surjection
  <2>2. [i \in DOMAIN list |-> dur(i)] \in Surjection(DOMAIN list, T)
    BY DEF Surjection
  <2> HIDE DEF S, T, pos, dur
  <2> QED BY <1>2, <2>1, <2>2, FS_Surjection
<1>4. \A U : IsFiniteSet(U) /\ U \subseteq Nat =>
          Max({0} \cup U) \in Nat /\ \A x \in U : x <= Max({0} \cup U)
  <2> TAKE U
  <2> HAVE IsFiniteSet(U) /\ U \subseteq Nat
  <2>1. {0} \cup U = U \cup {0}
    OBVIOUS
  <2>2. IsFiniteSet({0} \cup U)
    BY <2>1, FS_AddElement
  <2>3. {0} \cup U \subseteq Nat /\ {0} \cup U # {}
    OBVIOUS
  <2>4. Max({0} \cup U) \in {0} \cup U /\ \A x \in {0} \cup U : x <= Max({0} \cup U)
    BY <2>2, <2>3, GreatestOf
  <2> QED BY <2>3, <2>4
<1>5. S \subseteq Nat /\ T \subseteq Nat
  BY <1>1
<1>6. Widest(list) = [positions |-> Max({0} \cup S), duration |-> Max({0} \cup T)]
  BY DEF Widest
<1>10. Widest(list).positions = Max({0} \cup S) /\ Widest(list).duration = Max({0} \cup T)
  BY <1>6
<1>7. \A i \in DOMAIN list : pos(i) \in S /\ dur(i) \in T
  OBVIOUS
<1>8. NatReach(Widest(list))
  <2> HIDE DEF S, T, pos, dur
  <2> QED BY <1>3, <1>4, <1>5, <1>10 DEF NatReach
<1>9. ASSUME NEW i \in DOMAIN list PROVE Reaches(Widest(list), list[i])
  <2>1. pos(i) <= Widest(list).positions /\ dur(i) <= Widest(list).duration
    <3> HIDE DEF S, T, pos, dur
    <3> QED BY <1>3, <1>4, <1>5, <1>10, <1>7
  <2>2. Widest(list).positions \in Nat /\ Widest(list).duration \in Nat
    BY <1>8 DEF NatReach
  <2>3. /\ pos(i) \in Nat /\ dur(i) \in Nat
        /\ list[i].repeat <= pos(i) /\ list[i].separate <= pos(i) /\ list[i].within <= dur(i)
        /\ list[i].repeat \in Nat /\ list[i].separate \in Nat /\ list[i].within \in Nat
    BY <1>1
  <2>4. \A x, y, z \in Nat : x <= y /\ y <= z => x <= z
    OBVIOUS
  <2> HIDE DEF pos, dur
  <2> QED BY <2>1, <2>2, <2>3, <2>4, Zenon DEF Reaches
<1> QED BY <1>8, <1>9

-----------------------------------------------------------------------------
(* Distances *)

LEMMA Elapses ==
    ASSUME NEW line \in Seq(Item), NEW i \in Nat \ {0}, NEW j \in Nat, j <= Len(line) + 1
    PROVE  /\ Distance(line, i, j).positions = j - i
           /\ Distance(line, i, j).elapsed \in Nat
           /\ \A a, b \in Nat : i <= a /\ b <= j => Distance(line, a, b).elapsed <= Distance(line, i, j).elapsed
<1> DEFINE f == [k \in DOMAIN line |-> line[k].duration]
<1>1. \A a, b : Distance(line, a, b) = [positions |-> b - a, elapsed |-> SumFunctionOnSet(f, a..(b - 1))]
  BY DEF Distance
<1>2. \A k \in i..(j - 1) : f[k] \in Nat
  <2> TAKE k \in i..(j - 1)
  <2>1. k \in DOMAIN line
    OBVIOUS
  <2>2. line[k] \in Item
    BY <2>1
  <2> QED BY <2>1, <2>2 DEF Item
<1>3. IsFiniteSet(i..(j - 1))
  BY FS_Interval
<1> HIDE DEF f
<1>4. SumFunctionOnSet(f, i..(j - 1)) \in Nat
  BY <1>2, <1>3, SumType
<1>5. ASSUME NEW a \in Nat, NEW b \in Nat, i <= a, b <= j
      PROVE  SumFunctionOnSet(f, a..(b - 1)) <= SumFunctionOnSet(f, i..(j - 1))
  <2>1. a..(b - 1) \in SUBSET (i..(j - 1))
    BY <1>5
  <2> QED BY <1>2, <1>3, <2>1, SumGrows
<1> QED BY <1>1, <1>4, <1>5

LEMMA StillWithin ==
    ASSUME NEW d, NEW e, NEW reach, NatReach(reach), d.positions \in Int, d.elapsed \in Nat,
           e.positions \in Int, e.elapsed \in Nat, e.positions <= d.positions, e.elapsed <= d.elapsed,
           ~AxesExhausted(d, reach)
    PROVE  ~AxesExhausted(e, reach)
BY DEF NatReach, AxesExhausted

\* What stands between two items within reach is within reach of either.
LEMMA WithinBetween ==
    ASSUME NEW line \in Seq(Item), NEW reach, NatReach(reach),
           NEW i \in DOMAIN line, NEW j \in Nat, j <= Len(line) + 1, Within(line, i, j, reach),
           NEW a \in Nat, NEW b \in Nat, i <= a, b <= j
    PROVE  Within(line, a, b, reach)
<1>0. i \in Nat \ {0} /\ a \in Nat \ {0}
  OBVIOUS
<1>1. /\ Distance(line, i, j).positions = j - i
      /\ Distance(line, i, j).elapsed \in Nat
      /\ Distance(line, a, b).elapsed <= Distance(line, i, j).elapsed
  BY <1>0, Elapses
<1>2. Distance(line, a, b).positions = b - a /\ Distance(line, a, b).elapsed \in Nat
  <2>1. b <= Len(line) + 1
    OBVIOUS
  <2> QED BY <1>0, <2>1, Elapses
<1>3. ~AxesExhausted(Distance(line, i, j), reach)
  BY DEF Within
<1>4. ~AxesExhausted(Distance(line, a, b), reach)
  <2>1. b - a <= j - i /\ b - a \in Int /\ j - i \in Int
    BY <1>0
  <2>2. /\ Distance(line, i, j).positions \in Int /\ Distance(line, a, b).positions \in Int
        /\ Distance(line, a, b).positions <= Distance(line, i, j).positions
    BY <1>1, <1>2, <2>1
  <2> QED BY <1>1, <1>2, <1>3, <2>2, StillWithin
<1> QED BY <1>4 DEF Within

\* Two items that conflict are within any reach that covers the limits of both.
LEMMA ConflictsAreNear ==
    ASSUME NEW a \in Item, NEW b \in Item, NEW reach, NatReach(reach), Reaches(reach, a), Reaches(reach, b),
           NEW d, d.positions \in Nat \ {0}, d.elapsed \in Nat, Conflict(a, b, d)
    PROVE  ~AxesExhausted(d, reach)
<1>1. /\ a.repeat \in Nat /\ a.within \in Nat /\ a.separate \in Nat
      /\ b.repeat \in Nat /\ b.within \in Nat /\ b.separate \in Nat
  BY DEF Item
<1>2. CASE GapConflict(a, d) \/ GapConflict(b, d)
  BY <1>1, <1>2 DEF GapConflict, AxesExhausted, NatReach, Reaches
<1>3. CASE d.positions <= Max({a.separate, b.separate})
  <2> DEFINE S == {a.separate, b.separate}
  <2>1. Max(S) \in S
    <3>1. IsFiniteSet({a.separate}) /\ S = {a.separate} \cup {b.separate}
      BY FS_Singleton
    <3>2. IsFiniteSet(S)
      <4> HIDE DEF S
      <4> QED BY <3>1, FS_AddElement
    <3>3. S \subseteq Nat /\ S # {}
      BY <1>1
    <3> HIDE DEF S
    <3> QED BY <3>2, <3>3, GreatestOf
  <2>2. d.positions <= reach.positions
    <3>1. Max(S) = a.separate \/ Max(S) = b.separate
      BY <2>1
    <3> QED BY <1>1, <1>3, <3>1 DEF Reaches, NatReach
  <2> QED BY <2>2 DEF AxesExhausted, NatReach
<1> QED BY <1>2, <1>3 DEF Conflict

-----------------------------------------------------------------------------
(* The line of an order, and its conflicts *)

LEMMA LineOf ==
    ASSUME NEW aired \in Seq(Item), NEW list \in Seq(Item), NEW ord \in Seq(DOMAIN list)
    PROVE  /\ Line(aired, list, ord) \in Seq(Item)
           /\ Len(Line(aired, list, ord)) = Len(aired) + Len(ord)
           /\ \A k \in 1..Len(aired) : Line(aired, list, ord)[k] = Emitted(aired[k])
           /\ \A k \in (Len(aired) + 1)..(Len(aired) + Len(ord)) :
                  /\ ord[k - Len(aired)] \in DOMAIN list
                  /\ Line(aired, list, ord)[k] = list[ord[k - Len(aired)]]
<1> DEFINE a == [k \in DOMAIN aired |-> Emitted(aired[k])]
           o == [k \in DOMAIN ord |-> list[ord[k]]]
<1>1. a \in Seq(Item) /\ Len(a) = Len(aired) /\ \A k \in 1..Len(aired) : a[k] = Emitted(aired[k])
  <2>1. \A k \in 1..Len(aired) : Emitted(aired[k]) \in Item
    BY EmittedOf
  <2>2. DOMAIN aired = 1..Len(aired) /\ Len(aired) \in Nat
    OBVIOUS
  <2>3. a \in [1..Len(aired) -> Item]
    BY <2>1, <2>2
  <2> QED BY <2>2, <2>3
<1>2. o \in Seq(Item) /\ Len(o) = Len(ord) /\ \A k \in 1..Len(ord) : ord[k] \in DOMAIN list /\ o[k] = list[ord[k]]
  OBVIOUS
<1>3. Line(aired, list, ord) = a \o o
  BY DEF Line
<1> HIDE DEF a, o
<1>4. a \o o \in Seq(Item) /\ Len(a \o o) = Len(a) + Len(o)
  <2>1. \A s, t \in Seq(Item) : s \o t \in Seq(Item) /\ Len(s \o t) = Len(s) + Len(t)
    OBVIOUS
  <2> QED BY <1>1, <1>2, <2>1
<1>5. Len(aired) \in Nat /\ Len(ord) \in Nat
  OBVIOUS
<1>6. \A k \in 1..Len(aired) : (a \o o)[k] = a[k]
  BY <1>1, <1>2, <1>5
<1>7. \A k \in (Len(aired) + 1)..(Len(aired) + Len(ord)) :
          k - Len(aired) \in 1..Len(ord) /\ (a \o o)[k] = o[k - Len(aired)]
  BY <1>1, <1>2, <1>5
<1> QED BY <1>1, <1>2, <1>3, <1>4, <1>6, <1>7

\* What has aired has no limits, and the limits of the list are within its widest reach.
LEMMA LimitsOf ==
    ASSUME NEW aired \in Seq(Item), NEW list \in Seq(Item), NEW ord \in Seq(DOMAIN list)
    PROVE  /\ \A k \in 1..Len(aired) : \A r : NatReach(r) => Reaches(r, Line(aired, list, ord)[k])
           /\ \A k \in DOMAIN Line(aired, list, ord) : Reaches(Widest(list), Line(aired, list, ord)[k])
<1>1. \A k \in 1..Len(aired) : \A r : NatReach(r) => Reaches(r, Line(aired, list, ord)[k])
  <2> TAKE k \in 1..Len(aired)
  <2>1. aired[k] \in Item /\ Line(aired, list, ord)[k] = Emitted(aired[k])
    BY LineOf
  <2> QED BY <2>1, EmittedOf
<1>2. NatReach(Widest(list)) /\ \A i \in DOMAIN list : Reaches(Widest(list), list[i])
  BY WidestOf
<1>3. ASSUME NEW k \in DOMAIN Line(aired, list, ord) PROVE Reaches(Widest(list), Line(aired, list, ord)[k])
  <2>1. k \in 1..(Len(aired) + Len(ord))
    BY LineOf
  <2>2. CASE k <= Len(aired)
    BY <1>1, <1>2, <2>1, <2>2
  <2>3. CASE k > Len(aired)
    <3>1. k \in (Len(aired) + 1)..(Len(aired) + Len(ord))
      BY <2>1, <2>3
    <3> QED BY <1>2, <3>1, LineOf
  <2> QED BY <2>1, <2>2, <2>3
<1> QED BY <1>1, <1>3

\* Two items that conflict are within reach, and so is everything between them.
LEMMA ClashesAreNear ==
    ASSUME NEW line \in Seq(Item), NEW reach, NatReach(reach), NEW i \in DOMAIN line, NEW j \in DOMAIN line, i < j,
           Reaches(reach, line[i]), Reaches(reach, line[j]), Clash(line, i, j)
    PROVE  /\ \A q \in (i + 1)..j : Within(line, i, q, reach)
           /\ \A q \in i..(j - 1) : Within(line, q, j, reach)
<1>0. i \in Nat \ {0} /\ j \in Nat /\ j <= Len(line) + 1 /\ line[i] \in Item /\ line[j] \in Item
  OBVIOUS
<1>1. Distance(line, i, j).positions = j - i /\ Distance(line, i, j).elapsed \in Nat
  BY <1>0, Elapses
<1>2. Distance(line, i, j).positions \in Nat \ {0}
  BY <1>0, <1>1
<1>3. ~AxesExhausted(Distance(line, i, j), reach)
  BY <1>0, <1>1, <1>2, ConflictsAreNear DEF Clash
<1>4. Within(line, i, j, reach)
  BY <1>3 DEF Within
<1>5. ASSUME NEW q \in (i + 1)..j PROVE Within(line, i, q, reach)
  <2>1. i \in Nat /\ q \in Nat /\ i <= i /\ q <= j
    BY <1>0
  <2> QED BY <1>0, <1>4, <2>1, WithinBetween
<1>6. ASSUME NEW q \in i..(j - 1) PROVE Within(line, q, j, reach)
  <2>1. q \in Nat /\ j \in Nat /\ i <= q /\ j <= j
    BY <1>0
  <2> QED BY <1>0, <1>4, <2>1, WithinBetween
<1> QED BY <1>5, <1>6

\* The pairs that conflict: both in the list, or one in what has aired.
Clashes(aired, list, ord) ==
    LET line == Line(aired, list, ord)
    IN  {p \in (DOMAIN line) \X (DOMAIN line) : p[1] < p[2] /\ Len(aired) < p[2] /\ Clash(line, p[1], p[2])}

\* The two walks find them all.
LEMMA WalksLoseNone ==
    ASSUME NEW aired \in Seq(Item), NEW list \in Seq(Item), NEW ord \in Seq(DOMAIN list),
           NEW i \in (Len(aired) + 1)..(Len(aired) + Len(ord))
    PROVE  LET P == Len(aired)
               line == Line(aired, list, ord)
           IN  /\ {j \in (i + 1)..Len(line) : /\ \A q \in (i + 1)..j : Within(line, i, q, Widest(list))
                                              /\ Clash(line, i, j)}
                    = {j \in (i + 1)..Len(line) : Clash(line, i, j)}
               /\ SeamClashes(P, line, i) = {k \in 1..P : Clash(line, k, i)}
<1> DEFINE P == Len(aired)
           line == Line(aired, list, ord)
<1>1. /\ line \in Seq(Item) /\ Len(line) = P + Len(ord) /\ i \in DOMAIN line
      /\ P \in Nat /\ NatReach(Widest(list))
      /\ \A k \in 1..P : k \in DOMAIN line /\ \A r : NatReach(r) => Reaches(r, line[k])
      /\ \A k \in DOMAIN line : line[k] \in Item /\ Reaches(Widest(list), line[k])
  <2>1. line \in Seq(Item) /\ Len(line) = P + Len(ord) /\ P \in Nat /\ Len(ord) \in Nat
    <3>1. line \in Seq(Item) /\ Len(line) = P + Len(ord)
      BY LineOf, Zenon
    <3>2. P \in Nat /\ Len(ord) \in Nat
      OBVIOUS
    <3> QED BY <3>1, <3>2
  <2>2. \A k \in 1..P : \A r : NatReach(r) => Reaches(r, line[k])
    BY LimitsOf
  <2>3. \A k \in DOMAIN line : Reaches(Widest(list), line[k])
    BY LimitsOf
  <2>4. NatReach(Widest(list))
    BY WidestOf
  <2> HIDE DEF line
  <2> QED BY <2>1, <2>2, <2>3, <2>4
<1> HIDE DEF line
<1>2. ASSUME NEW j \in (i + 1)..Len(line), Clash(line, i, j)
      PROVE  \A q \in (i + 1)..j : Within(line, i, q, Widest(list))
  <2>1. j \in DOMAIN line /\ i < j
    BY <1>1
  <2> QED BY <1>1, <1>2, <2>1, ClashesAreNear
<1>3. ASSUME NEW k \in 1..P, Clash(line, k, i)
      PROVE  \A q \in k..P : Within(line, q, i, Reach(line[i]))
  <2>1. NatReach(Reach(line[i])) /\ Reaches(Reach(line[i]), line[i]) /\ Reaches(Reach(line[i]), line[k])
    BY <1>1, ReachOf
  <2>2. k \in DOMAIN line /\ k < i /\ \A q \in k..P : q \in k..(i - 1)
    BY <1>1
  <2> QED BY <1>1, <1>3, <2>1, <2>2, ClashesAreNear
<1> QED BY <1>2, <1>3 DEF SeamClashes, line

\* Pairs kept at one of their places, the later ones ahead of it and the earlier ones across the
\* seam, are as many as the pairs themselves.
LEMMA EitherWay ==
  ASSUME NEW P \in Nat, NEW N \in Nat, NEW Near, NEW A,
         \A x \in (P + 1)..N : A[x] = {y \in (x + 1)..N : <<x, y>> \in Near}
                                        \cup {y \in 1..P : <<y, x>> \in Near}
  PROVE  ExistsBijection(PairsOf(A, (P + 1)..N),
                         {c \in (1..N) \X (1..N) : c[1] < c[2] /\ P < c[2] /\ c \in Near})
<1> DEFINE S == (P + 1)..N
           Pi == PairsOf(A, S)
           Kl == {c \in (1..N) \X (1..N) : c[1] < c[2] /\ P < c[2] /\ c \in Near}
           b == [p \in Pi |-> IF p[1] < p[2] THEN p ELSE <<p[2], p[1]>>]
<1>1. \A p \in Pi : \E x, y : p = <<x, y>>
  BY DEF PairsOf
<1>2. \A x, y : <<x, y>> \in Pi <=> x \in S /\ y \in A[x]
  <2> HIDE DEF S, Pi
  <2> SUFFICES ASSUME NEW x, NEW y
               PROVE  <<x, y>> \in Pi <=> x \in S /\ y \in A[x]
    BY Zenon
  <2>1. x \in S /\ y \in A[x] => y \in UNION {A[i] : i \in S}
    BY Zenon
  <2>2. <<x, y>> \in S \X UNION {A[i] : i \in S} <=> x \in S /\ y \in UNION {A[i] : i \in S}
    BY Zenon
  <2>3. <<x, y>>[1] = x /\ <<x, y>>[2] = y
    BY Zenon
  <2>4. <<x, y>> \in Pi <=> /\ <<x, y>> \in S \X UNION {A[i] : i \in S}
                            /\ <<x, y>>[2] \in A[<<x, y>>[1]]
    BY Zenon DEF PairsOf, Pi
  <2> QED BY <2>1, <2>2, <2>3, <2>4, Zenon
<1>3. \A x, y : <<x, y>> \in Kl <=>
          x \in 1..N /\ y \in 1..N /\ x < y /\ P < y /\ <<x, y>> \in Near
  BY Zenon
<1>4. \A c \in Kl : \E x, y : c = <<x, y>>
  OBVIOUS
<1>5. \A x, y : <<x, y>> \in Pi => b[<<x, y>>] = IF x < y THEN <<x, y>> ELSE <<y, x>>
  OBVIOUS
<1>6. DOMAIN b = Pi /\ b = [p \in Pi |-> b[p]]
  OBVIOUS
<1> HIDE DEF Pi, Kl, b
<1>7. ASSUME NEW x, NEW y, <<x, y>> \in Pi
      PROVE  /\ x \in S /\ x \in 1..N /\ y \in 1..N
             /\ x < y => <<x, y>> \in Near
             /\ ~(x < y) => <<y, x>> \in Near /\ y \in 1..P /\ y < x
  <2>1. x \in S /\ y \in A[x]
    BY <1>2, <1>7, Zenon
  <2>2. A[x] = {z \in (x + 1)..N : <<x, z>> \in Near} \cup {z \in 1..P : <<z, x>> \in Near}
    BY <2>1, Zenon
  <2>3. \/ y \in (x + 1)..N /\ <<x, y>> \in Near
        \/ y \in 1..P /\ <<y, x>> \in Near
    BY <2>1, <2>2, Zenon
  <2>4. x \in Nat /\ P < x /\ x <= N
    BY <2>1
  <2>5. CASE y \in (x + 1)..N /\ <<x, y>> \in Near
    BY <2>1, <2>4, <2>5
  <2>6. CASE y \in 1..P /\ <<y, x>> \in Near
    BY <2>1, <2>4, <2>6
  <2> QED BY <2>3, <2>5, <2>6
<1>8. \A p \in Pi : b[p] \in Kl
  <2> TAKE p \in Pi
  <2>1. PICK x, y : p = <<x, y>>
    BY <1>1
  <2>2. <<x, y>> \in Pi
    BY <2>1
  <2>3. /\ x \in S /\ x \in 1..N /\ y \in 1..N
        /\ x < y => <<x, y>> \in Near
        /\ ~(x < y) => <<y, x>> \in Near /\ y \in 1..P /\ y < x
    BY <1>7, <2>2, Zenon
  <2>4. P < x
    BY <2>3
  <2>5. CASE x < y
    <3>1. P < y
      BY <2>3, <2>4, <2>5
    <3>2. <<x, y>> \in Kl
      BY <1>3, <2>3, <2>5, <3>1, Zenon
    <3> QED BY <1>5, <2>1, <2>2, <2>5, <3>2, Zenon
  <2>6. CASE ~(x < y)
    <3>1. <<y, x>> \in Kl
      BY <1>3, <2>3, <2>4, <2>6, Zenon
    <3> QED BY <1>5, <2>1, <2>2, <2>6, <3>1, Zenon
  <2> QED BY <2>5, <2>6
<1>9. \A p, q \in Pi : b[p] = b[q] => p = q
  <2> SUFFICES ASSUME NEW p \in Pi, NEW q \in Pi, b[p] = b[q]
               PROVE  p = q
    OBVIOUS
  <2>1. PICK x, y : p = <<x, y>>
    BY <1>1
  <2>2. PICK u, v : q = <<u, v>>
    BY <1>1
  <2>3. <<x, y>> \in Pi /\ <<u, v>> \in Pi
    BY <2>1, <2>2
  <2>4. x \in S /\ y \in 1..N /\ (~(x < y) => y \in 1..P)
    BY <1>7, <2>3, Zenon
  <2>5. u \in S /\ v \in 1..N /\ (~(u < v) => v \in 1..P)
    BY <1>7, <2>3, Zenon
  <2>6. (IF x < y THEN <<x, y>> ELSE <<y, x>>) = (IF u < v THEN <<u, v>> ELSE <<v, u>>)
    BY <1>5, <2>1, <2>2, <2>3, Zenon
  <2>7. x = u /\ y = v
    BY <2>4, <2>5, <2>6
  <2> QED BY <2>1, <2>2, <2>7
<1>10. \A c \in Kl : \E p \in Pi : b[p] = c
  <2> TAKE c \in Kl
  <2>1. PICK x, y : c = <<x, y>>
    BY <1>4
  <2>2. x \in 1..N /\ y \in 1..N /\ x < y /\ P < y /\ <<x, y>> \in Near
    BY <1>3, <2>1, Zenon
  <2>3. CASE P < x
    <3>1. x \in S /\ y \in (x + 1)..N
      BY <2>2, <2>3
    <3>2. y \in A[x]
      BY <2>2, <3>1, Zenon
    <3>3. <<x, y>> \in Pi
      BY <1>2, <3>1, <3>2, Zenon
    <3> QED BY <1>5, <2>1, <2>2, <3>3, Zenon
  <2>4. CASE ~(P < x)
    <3>1. y \in S /\ x \in 1..P /\ ~(y < x)
      BY <2>2, <2>4
    <3>2. x \in A[y]
      BY <2>2, <3>1, Zenon
    <3>3. <<y, x>> \in Pi
      BY <1>2, <3>1, <3>2, Zenon
    <3> QED BY <1>5, <2>1, <2>2, <3>1, <3>3, Zenon
  <2> QED BY <2>3, <2>4
<1>11. b \in [Pi -> Kl]
  <2>1. b = [p \in Pi |-> b[p]]
    BY <1>6
  <2> QED BY <1>8, <2>1, Zenon
<1>12. b \in Bijection(Pi, Kl)
  <2>1. b \in Injection(Pi, Kl)
    BY <1>6, <1>9, <1>11, Zenon DEF Injection, IsInjective
  <2>2. b \in Surjection(Pi, Kl)
    BY <1>10, <1>11, Zenon DEF Surjection
  <2> QED BY <2>1, <2>2, Zenon DEF Bijection
<1>13. ExistsBijection(Pi, Kl)
  BY <1>12, Zenon DEF ExistsBijection
<1> QED BY <1>13 DEF Pi, Kl

\* The count of an order is the number of its pairs that conflict (violation_count, axes_exhausted).
THEOREM Counts_EveryConflict ==
    ASSUME NEW aired \in Seq(Item), NEW list \in Seq(Item), NEW ord \in Seq(DOMAIN list)
    PROVE  /\ IsFiniteSet(Clashes(aired, list, ord))
           /\ ViolationCount(aired, list, ord) = Cardinality(Clashes(aired, list, ord))
<1> DEFINE P == Len(aired)
           line == Line(aired, list, ord)
           N == Len(line)
           S == (P + 1)..N
           Late(i) == {j \in (i + 1)..N : Clash(line, i, j)}
           Early(i) == {k \in 1..P : Clash(line, k, i)}
           Walked(i) == {j \in (i + 1)..N : /\ \A q \in (i + 1)..j : Within(line, i, q, Widest(list))
                                            /\ Clash(line, i, j)}
           f == [i \in S |-> Cardinality(Walked(i)) + Cardinality(SeamClashes(P, line, i))]
           A == [i \in S |-> Late(i) \cup Early(i)]
<1>1. P \in Nat /\ N \in Nat /\ N = P + Len(ord) /\ DOMAIN line = 1..N
  <2>1. line \in Seq(Item) /\ Len(line) = P + Len(ord)
    BY LineOf
  <2> HIDE DEF line
  <2> QED BY <2>1
<1>2. ViolationCount(aired, list, ord) = SumFunctionOnSet(f, S)
  <2>1. ViolationCount(aired, list, ord) = SumFunction(f)
    BY DEF ViolationCount
  <2>2. DOMAIN f = S
    OBVIOUS
  <2> HIDE DEF f, S
  <2> QED BY <2>1, <2>2 DEF SumFunction
<1>3. \A i \in S : Walked(i) = Late(i) /\ SeamClashes(P, line, i) = Early(i)
  <2> TAKE i \in S
  <2>1. i \in (Len(aired) + 1)..(Len(aired) + Len(ord))
    <3> HIDE DEF line
    <3> QED BY <1>1
  <2>2. {j \in (i + 1)..Len(Line(aired, list, ord)) :
              /\ \A q \in (i + 1)..j : Within(Line(aired, list, ord), i, q, Widest(list))
              /\ Clash(Line(aired, list, ord), i, j)}
            = {j \in (i + 1)..Len(Line(aired, list, ord)) : Clash(Line(aired, list, ord), i, j)}
    BY <2>1, WalksLoseNone
  <2>3. SeamClashes(P, line, i) = Early(i)
    BY <2>1, WalksLoseNone
  <2> QED BY <2>2, <2>3
<1>4. IsFiniteSet(S) /\ \A i \in S : /\ IsFiniteSet(Late(i)) /\ IsFiniteSet(Early(i))
                                      /\ Late(i) \cap Early(i) = {}
  <2>1. \A i \in S : IsFiniteSet((i + 1)..N) /\ IsFiniteSet(1..P)
    BY <1>1, FS_Interval
  <2>2. \A i \in S : Late(i) \in SUBSET ((i + 1)..N) /\ Early(i) \in SUBSET (1..P)
    OBVIOUS
  <2>3. \A i \in S : Late(i) \cap Early(i) = {}
    BY <1>1
  <2>4. IsFiniteSet(S)
    BY <1>1, FS_Interval
  <2> HIDE DEF Late, Early, S
  <2> QED BY <2>1, <2>2, <2>3, <2>4, FS_Subset
<1>5. \A i \in S : IsFiniteSet(A[i]) /\ f[i] = Cardinality(A[i])
  <2> TAKE i \in S
  <2>1. A[i] = Late(i) \cup Early(i)
    OBVIOUS
  <2>2. f[i] = Cardinality(Late(i)) + Cardinality(Early(i))
    <3>1. f[i] = Cardinality(Walked(i)) + Cardinality(SeamClashes(P, line, i))
      OBVIOUS
    <3> HIDE DEF f, Walked, Late, Early, S
    <3> QED BY <1>3, <3>1
  <2>3. /\ IsFiniteSet(Late(i)) /\ IsFiniteSet(Early(i)) /\ Late(i) \cap Early(i) = {}
        /\ Cardinality(Late(i)) \in Nat /\ Cardinality(Early(i)) \in Nat
    BY <1>4, FS_CardinalityType
  <2> HIDE DEF A, f, Late, Early
  <2>4. /\ IsFiniteSet(Late(i) \cup Early(i))
        /\ Cardinality(Late(i) \cup Early(i)) = Cardinality(Late(i)) + Cardinality(Early(i)) - Cardinality({})
    BY <2>3, FS_Union
  <2> QED BY <2>1, <2>2, <2>3, <2>4, FS_EmptySet
<1>6. /\ IsFiniteSet(PairsOf(A, S))
      /\ SumFunctionOnSet(f, S) = Cardinality(PairsOf(A, S))
  <2> HIDE DEF A, f, S
  <2> QED BY <1>4, <1>5, CountByRows
<1> DEFINE Near == {c \in (1..N) \X (1..N) : Clash(line, c[1], c[2])}
           Kl == {c \in (1..N) \X (1..N) : c[1] < c[2] /\ P < c[2] /\ c \in Near}
<1>7. Clashes(aired, list, ord) = Kl
  <2>1. Clashes(aired, list, ord) = {p \in (DOMAIN line) \X (DOMAIN line) : p[1] < p[2] /\ P < p[2] /\ Clash(line, p[1], p[2])}
    BY DEF Clashes
  <2> HIDE DEF line
  <2>2. \A c \in (1..N) \X (1..N) : c \in Near <=> Clash(line, c[1], c[2])
    BY Zenon
  <2> HIDE DEF Near
  <2> QED BY <1>1, <2>1, <2>2
<1>8. \A x \in S : A[x] = {y \in (x + 1)..N : <<x, y>> \in Near} \cup {y \in 1..P : <<y, x>> \in Near}
  <2> TAKE x \in S
  <2>1. A[x] = Late(x) \cup Early(x)
    OBVIOUS
  <2>2. x \in Nat /\ P < x /\ x <= N /\ x \in 1..N /\ (x + 1)..N \subseteq 1..N /\ 1..P \subseteq 1..N
    <3> HIDE DEF line
    <3> QED BY <1>1
  <2>3. \A u, v \in 1..N : <<u, v>> \in Near <=> Clash(line, u, v)
    <3> HIDE DEF line
    <3> QED BY Zenon
  <2>4. Late(x) = {y \in (x + 1)..N : <<x, y>> \in Near}
    <3> HIDE DEF line, Near
    <3> QED BY <2>2, <2>3, Zenon
  <2>5. Early(x) = {y \in 1..P : <<y, x>> \in Near}
    <3> HIDE DEF line, Near
    <3> QED BY <2>2, <2>3, Zenon
  <2> HIDE DEF A, Late, Early
  <2> QED BY <2>1, <2>4, <2>5, Zenon
<1>9. ExistsBijection(PairsOf(A, S), Kl)
  <2> HIDE DEF A, Near, line
  <2> QED BY <1>1, <1>8, EitherWay, Zenon
<1> HIDE DEF A, S, f, Kl
<1> QED BY <1>2, <1>6, <1>7, <1>9, FS_Bijection

-----------------------------------------------------------------------------
(* Every step keeps the order a re-ordering *)

Once(ord) == \A m, n \in DOMAIN ord : ord[m] = ord[n] => m = n
Placing(ord) == {ord[m] : m \in DOMAIN ord}

\* A swap moves two items and keeps the others.
LEMMA SwapMoves ==
    ASSUME NEW D, NEW ord \in Seq(D), NEW i \in DOMAIN ord, NEW j \in DOMAIN ord,
           Once(ord)
    PROVE  /\ Swap(ord, i, j) \in Seq(D) /\ Once(Swap(ord, i, j))
           /\ Placing(Swap(ord, i, j)) = Placing(ord)
<1> DEFINE s == Swap(ord, i, j)
<1>1. DOMAIN s = DOMAIN ord /\ \A m \in DOMAIN ord : s[m] = IF m = j THEN ord[i] ELSE IF m = i THEN ord[j] ELSE ord[m]
  BY DEF Swap
<1>2. s \in Seq(D)
  <2>1. DOMAIN ord = 1..Len(ord) /\ Len(ord) \in Nat /\ \A m \in DOMAIN ord : ord[m] \in D
    OBVIOUS
  <2>2. s = [m \in 1..Len(ord) |-> s[m]]
    BY <2>1 DEF Swap
  <2> HIDE DEF s
  <2>3. \A m \in 1..Len(ord) : s[m] \in D
    BY <1>1, <2>1
  <2> QED BY <2>1, <2>2, <2>3
<1> HIDE DEF s
<1>3. \A m, n \in DOMAIN ord : s[m] = s[n] => m = n
  BY <1>1 DEF Once
<1>4. ASSUME NEW m \in DOMAIN ord PROVE /\ \E n \in DOMAIN ord : s[n] = ord[m]
                                        /\ \E n \in DOMAIN ord : ord[n] = s[m]
  BY <1>1
<1>5. {s[m] : m \in DOMAIN ord} = {ord[m] : m \in DOMAIN ord}
  <2>1. \A x : x \in {s[m] : m \in DOMAIN ord} <=> \E m \in DOMAIN ord : s[m] = x
    BY Zenon
  <2>2. \A x : x \in {ord[m] : m \in DOMAIN ord} <=> \E m \in DOMAIN ord : ord[m] = x
    BY Zenon
  <2>3. \A x : (\E m \in DOMAIN ord : s[m] = x) <=> (\E m \in DOMAIN ord : ord[m] = x)
    BY <1>4, Zenon
  <2> QED BY <2>1, <2>2, <2>3, Zenon
<1> QED BY <1>1, <1>2, <1>3, <1>5 DEF s, Once, Placing

\* The first of the swaps is one of them.
LEMMA FirstSwapOf ==
    ASSUME NEW N \in Nat, NEW swaps, swaps \subseteq (1..N) \X (1..N), swaps # {}
    PROVE  FirstSwap(swaps) \in swaps
<1> DEFINE S == {s[1] : s \in swaps}
           m == Min(S)
           T == {s[2] : s \in {t \in swaps : t[1] = m}}
           n == Min(T)
<1>1. \A s \in swaps : s[1] \in Nat /\ s[2] \in Nat /\ s = <<s[1], s[2]>>
  OBVIOUS
<1>2. m \in S /\ \A x \in S : m <= x
  <2>1. S \subseteq Nat /\ S # {}
    BY <1>1
  <2> HIDE DEF S
  <2> QED BY <2>1, LeastOf
<1>3. PICK t \in swaps : t[1] = m
  BY <1>2
<1>4. n \in T /\ \A x \in T : n <= x
  <2>1. T \subseteq Nat /\ T # {}
    <3> HIDE DEF m
    <3> QED BY <1>1, <1>3
  <2> HIDE DEF T
  <2> QED BY <2>1, LeastOf
<1>5. PICK s \in swaps : s[1] = m /\ s[2] = n
  BY <1>4
<1> HIDE DEF m, n
<1>6. ASSUME NEW u \in swaps PROVE s[1] < u[1] \/ (s[1] = u[1] /\ s[2] <= u[2])
  <2>1. m <= u[1] /\ (u[1] = m => n <= u[2])
    BY <1>2, <1>4
  <2> QED BY <1>1, <1>5, <2>1
<1>7. \E v \in swaps : \A u \in swaps : v[1] < u[1] \/ (v[1] = u[1] /\ v[2] <= u[2])
  BY <1>6
<1> QED BY <1>7, Zenon DEF FirstSwap

\* The repair swaps two places of the order.
LEMMA HelpingOf ==
    ASSUME NEW aired, NEW list, NEW D, NEW ord \in Seq(D), NEW best,
           Improvements(aired, list, ord, best) # {}
    PROVE  LET s == FirstSwap(Improvements(aired, list, ord, best))
           IN  s[1] \in DOMAIN ord /\ s[2] \in DOMAIN ord
<1> DEFINE I == Improvements(aired, list, ord, best)
<1>1. I \subseteq (DOMAIN ord) \X (DOMAIN ord)
  BY DEF Improvements, ViolatingPositions
<1>2. DOMAIN ord = 1..Len(ord) /\ Len(ord) \in Nat
  OBVIOUS
<1> HIDE DEF I
<1>3. FirstSwap(I) \in I
  BY <1>1, <1>2, FirstSwapOf DEF I
<1> QED BY <1>1, <1>3 DEF I

LEMMA PickOfOne ==
    ASSUME NEW aired, NEW list, NEW ord, NEW left, left \subseteq Nat, left # {}
    PROVE  PickOf(aired, list, ord, left) \in left
<1> DEFINE fitting == {c \in left : ~Violates(aired, list, ord, c)}
           S == IF fitting # {} THEN fitting ELSE left
<1>1. S \subseteq left /\ S # {}
  OBVIOUS
<1>2. PickOf(aired, list, ord, left) = Min(S)
  BY DEF PickOf
<1> HIDE DEF S
<1> QED BY <1>1, <1>2, LeastOf

-----------------------------------------------------------------------------
(* The pass *)

\* Without a limit nothing conflicts: the list is left as it came.
LEMMA NoLimitsNoClash ==
    ASSUME NEW aired \in Seq(Item), NEW list \in Seq(Item), NEW ord \in Seq(DOMAIN list),
           IsUnconstrained(Widest(list))
    PROVE  Clashes(aired, list, ord) = {}
<1> DEFINE line == Line(aired, list, ord)
           reach == Widest(list)
<1>1. line \in Seq(Item) /\ NatReach(reach) /\ \A k \in DOMAIN line : Reaches(reach, line[k])
  BY LineOf, LimitsOf, WidestOf
<1>2. ASSUME NEW i \in DOMAIN line, NEW j \in DOMAIN line, i < j, Clash(line, i, j) PROVE FALSE
  <2>1. \A q \in (i + 1)..j : Within(line, i, q, reach)
    <3> HIDE DEF line, reach
    <3> QED BY <1>1, <1>2, ClashesAreNear
  <2>2. i \in Nat /\ j \in Nat /\ j \in (i + 1)..j
    <3> HIDE DEF line, reach
    <3> QED BY <1>1, <1>2
  <2>3. ~AxesExhausted(Distance(line, i, j), reach)
    BY <2>1, <2>2 DEF Within
  <2>4. Distance(line, i, j).positions = j - i
    BY DEF Distance
  <2> QED BY <2>2, <2>3, <2>4 DEF AxesExhausted, IsUnconstrained
<1>3. Clashes(aired, list, ord)
        = {p \in (DOMAIN line) \X (DOMAIN line) : p[1] < p[2] /\ Len(aired) < p[2] /\ Clash(line, p[1], p[2])}
  BY DEF Clashes
<1> HIDE DEF line
<1> QED BY <1>2, <1>3

\* While the repair works the count is that of the order it has.
Counted ==
    /\ phase = "placing" => unresolved = 0
    /\ phase = "repairing" => unresolved = Count(order)

PassInv == Rearranges /\ Counted /\ ReportsEveryConflict

LEMMA CountedAtEnd ==
    ASSUME Rearranges, phase \in {"repairing", "done"}, unresolved = Count(order)
    PROVE  ReportsEveryConflict
<1>1. preceding \in Seq(Item) /\ items \in Seq(Item) /\ order \in Seq(DOMAIN items)
  BY DEF Rearranges, GivenItems
<1>2. Count(order) = Cardinality(Clashes(preceding, items, order))
  BY <1>1, Counts_EveryConflict DEF Count
<1> QED BY <1>2 DEF ReportsEveryConflict, Clashes

LEMMA IdleCounts ==
    ASSUME IdlePass
    PROVE  PassInv
<1>1. <<>> \in Seq(Item) /\ <<>> \in Seq(DOMAIN items) /\ DOMAIN items = {} /\ DOMAIN order = {}
  BY DEF IdlePass
<1>2. Rearranges
  BY <1>1 DEF IdlePass, Rearranges, GivenItems
<1> QED BY <1>2 DEF IdlePass, PassInv, Counted, ReportsEveryConflict

LEMMA BeginCounts ==
    ASSUME NEW list \in Seq(Item), NEW aired \in Seq(Item), Begin(list, aired)
    PROVE  PassInv'
<1>1. <<>> \in Seq(DOMAIN list) /\ DOMAIN <<>> = {}
  OBVIOUS
<1>2. Rearranges'
  BY <1>1 DEF Begin, Rearranges, GivenItems
<1> QED BY <1>2 DEF Begin, PassInv, Counted, ReportsEveryConflict

LEMMA FinishCounts ==
    ASSUME Finish
    PROVE  PassInv'
<1>1. <<>> \in Seq(Item) /\ <<>> \in Seq(DOMAIN items') /\ DOMAIN items' = {} /\ DOMAIN order' = {}
  BY DEF Finish
<1>2. Rearranges'
  BY <1>1 DEF Finish, Rearranges, GivenItems
<1> QED BY <1>2 DEF Finish, PassInv, Counted, ReportsEveryConflict

LEMMA LeaveCounts ==
    ASSUME PassInv, LeaveAsIs
    PROVE  PassInv'
<1>1. /\ phase = "placing" /\ IsUnconstrained(Widest(items)) /\ unresolved = 0
      /\ order' = AsItCame /\ pending' = {} /\ phase' = "done"
      /\ items' = items /\ preceding' = preceding /\ unresolved' = unresolved
      /\ preceding \in Seq(Item) /\ items \in Seq(Item)
  BY DEF LeaveAsIs, PassInv, Rearranges, GivenItems, Counted, inputs
<1>2. /\ AsItCame \in Seq(DOMAIN items) /\ DOMAIN AsItCame = DOMAIN items
      /\ \A i \in DOMAIN items : AsItCame[i] = i
  BY <1>1 DEF AsItCame
<1>3. {AsItCame[i] : i \in DOMAIN AsItCame} = DOMAIN items
  BY <1>2
<1>4. Rearranges'
  BY <1>1, <1>2, <1>3 DEF Rearranges, GivenItems
<1>5. Clashes(preceding, items, AsItCame) = {}
  BY <1>1, <1>2, NoLimitsNoClash
<1>6. unresolved' = Cardinality(Clashes(preceding', items', order'))
  BY <1>1, <1>5, FS_EmptySet
<1>7. ReportsEveryConflict'
  BY <1>6 DEF ReportsEveryConflict, Clashes
<1> QED BY <1>1, <1>4, <1>7 DEF PassInv, Counted

LEMMA PlaceCounts ==
    ASSUME PassInv, Place
    PROVE  PassInv'
<1> DEFINE c == PickOf(preceding, items, order, pending)
<1>1. /\ phase = "placing" /\ pending # {} /\ unresolved = 0
      /\ order' = Append(order, c) /\ pending' = pending \ {c} /\ phase' = "placing"
      /\ items' = items /\ preceding' = preceding /\ unresolved' = unresolved
  BY DEF Place, PassInv, Counted, inputs
<1>2. /\ GivenItems /\ pending \subseteq DOMAIN items /\ DOMAIN items \subseteq Nat /\ order \in Seq(DOMAIN items)
      /\ \A i, j \in DOMAIN order : order[i] = order[j] => i = j
      /\ {order[i] : i \in DOMAIN order} = DOMAIN items \ pending
  <2>1. items \in Seq(Item) => DOMAIN items \subseteq Nat
    OBVIOUS
  <2> QED BY <2>1 DEF PassInv, Rearranges, GivenItems
<1>3. c \in pending
  <2>1. pending \subseteq Nat
    BY <1>2
  <2> QED BY <1>1, <2>1, PickOfOne
<1> HIDE DEF c
<1> DEFINE n == Len(order) + 1
<1>4. /\ order' \in Seq(DOMAIN items) /\ DOMAIN order' = DOMAIN order \cup {n} /\ n \notin DOMAIN order
      /\ order'[n] = c /\ \A i \in DOMAIN order : order'[i] = order[i]
  BY <1>1, <1>2, <1>3
<1> HIDE DEF n
<1>5. \A i \in DOMAIN order : order[i] \notin pending
  BY <1>2
<1>6. \A i, j \in DOMAIN order' : order'[i] = order'[j] => i = j
  BY <1>2, <1>3, <1>4, <1>5, Zenon
<1>7. {order'[i] : i \in DOMAIN order'} = {order[i] : i \in DOMAIN order} \cup {c}
  <2>1. \A x : x \in {order'[i] : i \in DOMAIN order'} <=> \E i \in DOMAIN order' : order'[i] = x
    BY Zenon
  <2>2. \A x : x \in {order[i] : i \in DOMAIN order} <=> \E i \in DOMAIN order : order[i] = x
    BY Zenon
  <2>3. \A x : (\E i \in DOMAIN order' : order'[i] = x) <=> (\E i \in DOMAIN order : order[i] = x) \/ x = c
    BY <1>4, Zenon
  <2> QED BY <2>1, <2>2, <2>3, Zenon
<1>8. {order'[i] : i \in DOMAIN order'} = DOMAIN items \ pending'
  BY <1>1, <1>2, <1>3, <1>7
<1>9. Rearranges'
  BY <1>1, <1>2, <1>4, <1>6, <1>8 DEF Rearranges, GivenItems
<1> QED BY <1>1, <1>9 DEF PassInv, Counted, ReportsEveryConflict

LEMMA PlacedCounts ==
    ASSUME PassInv, Placed
    PROVE  PassInv'
<1>1. /\ pending = {} /\ phase' = "repairing" /\ unresolved' = Count(order) /\ pending' = pending
      /\ items' = items /\ preceding' = preceding /\ order' = order
  BY DEF Placed, inputs
<1>2. Rearranges'
  BY <1>1 DEF PassInv, Rearranges, GivenItems
<1> QED BY <1>1, <1>2 DEF PassInv, Counted, Count, ReportsEveryConflict

LEMMA ImproveCounts ==
    ASSUME PassInv, Improve
    PROVE  PassInv'
<1> DEFINE s == FirstSwap(Helping)
<1>1. /\ phase = "repairing" /\ Helping # {} /\ phase' = phase /\ pending' = pending
      /\ order' = Swap(order, s[1], s[2]) /\ unresolved' = Count(Swap(order, s[1], s[2]))
      /\ items' = items /\ preceding' = preceding
  BY DEF Improve, inputs
<1>2. /\ GivenItems /\ pending = {} /\ order \in Seq(DOMAIN items) /\ Once(order)
      /\ Placing(order) = DOMAIN items \ pending
  BY <1>1 DEF PassInv, Rearranges, Once, Placing
<1>3. s[1] \in DOMAIN order /\ s[2] \in DOMAIN order
  BY <1>1, <1>2, HelpingOf DEF Helping
<1> HIDE DEF s
<1>4. order' \in Seq(DOMAIN items) /\ Once(order') /\ Placing(order') = Placing(order)
  BY <1>1, <1>2, <1>3, SwapMoves
<1>5. Rearranges'
  BY <1>1, <1>2, <1>4 DEF Rearranges, GivenItems, Once, Placing
<1> QED BY <1>1, <1>5 DEF PassInv, Counted, Count, ReportsEveryConflict

LEMMA SettleCounts ==
    ASSUME PassInv, Settle
    PROVE  PassInv'
<1>1. /\ phase = "repairing" /\ phase' = "done" /\ pending' = pending /\ order' = order
      /\ items' = items /\ preceding' = preceding /\ unresolved' = unresolved
  BY DEF Settle, inputs
<1>2. Rearranges /\ unresolved = Count(order)
  BY <1>1 DEF PassInv, Counted
<1>3. Rearranges'
  BY <1>1, <1>2 DEF Rearranges, GivenItems
<1>4. unresolved = Cardinality(Clashes(preceding, items, order))
  BY <1>2, Counts_EveryConflict DEF Count, Rearranges, GivenItems
<1>5. ReportsEveryConflict'
  BY <1>1, <1>4 DEF ReportsEveryConflict, Clashes
<1> QED BY <1>1, <1>3, <1>5 DEF PassInv, Counted

LEMMA StepCounts ==
    ASSUME PassInv, [PassNext]_pass
    PROVE  PassInv'
<1>1. CASE UNCHANGED pass
  BY <1>1 DEF pass, PassInv, Rearranges, GivenItems, Counted, Count, ReportsEveryConflict
<1>2. CASE \E list, aired \in Seq(Item) : Begin(list, aired)
  BY <1>2, BeginCounts
<1>3. CASE Reorder
  BY <1>3, LeaveCounts, PlaceCounts, PlacedCounts, ImproveCounts, SettleCounts DEF Reorder
<1> QED BY <1>1, <1>2, <1>3, FinishCounts DEF PassNext

\* The pass only re-orders: no item is lost or placed twice, by the greedy pass or by the
\* repair, for any list (order_constrained, repair).
THEOREM Pass_Rearranges == PassSpec => []Rearranges
<1>1. PassSpec => []PassInv
  BY IdleCounts, StepCounts, PTL DEF PassSpec
<1>2. PassInv => Rearranges
  BY DEF PassInv
<1> QED BY <1>1, <1>2, PTL

\* What the pass reports is the number of pairs that conflict, for any list with any limits
\* after anything that aired (violation_count, axes_exhausted).
THEOREM Reports_EveryConflict == PassSpec => []ReportsEveryConflict
<1>1. PassSpec => []PassInv
  BY IdleCounts, StepCounts, PTL DEF PassSpec
<1>2. PassInv => ReportsEveryConflict
  BY DEF PassInv
<1> QED BY <1>1, <1>2, PTL

-----------------------------------------------------------------------------
(* Steps, one after another *)

\* What holds of zero and of each next number holds up to n.
LEMMA UpTo ==
    ASSUME NEW n \in Nat, NEW C, 0 \in C, \A m \in 1..n : m - 1 \in C => m \in C
    PROVE  \A m \in 0..n : m \in C
<1> DEFINE Bad == {m \in 0..n : m \notin C}
<1> SUFFICES ASSUME Bad # {} PROVE FALSE
  OBVIOUS
<1> DEFINE m == Min(Bad)
<1>1. m \in Bad /\ \A x \in Bad : m <= x
  <2>1. Bad \subseteq Nat
    OBVIOUS
  <2> HIDE DEF Bad
  <2> QED BY <2>1, LeastOf
<1> HIDE DEF m
<1>2. m \in 1..n
  BY <1>1
<1>3. m - 1 \in 0..n /\ ~(m <= m - 1)
  BY <1>2
<1>4. m - 1 \in C
  BY <1>1, <1>3
<1> QED BY <1>1, <1>2, <1>4

\* A recursion over the first numbers has a value for each.
Repeats(g, x, s, V, n) ==
    /\ g = [k \in 0..n |-> g[k]] /\ g[0] = x
    /\ \A k \in 1..n : g[k] = s[<<k, g[k - 1]>>]
    /\ \A k \in 0..n : g[k] \in V

\* There is one whenever every step from a value in V leads to a value in V.
LEMMA Repeating ==
    ASSUME NEW n \in Nat, NEW V, NEW x \in V, NEW s, \A k \in 1..n : \A v \in V : s[<<k, v>>] \in V
    PROVE  \E g : Repeats(g, x, s, V, n)
<1> DEFINE Up(g, m) == Repeats(g, x, s, V, m)
           C == {m \in 0..n : \E g : Up(g, m)}
<1>1. 0 \in C
  <2> DEFINE g == [k \in 0..0 |-> x]
  <2>1. g[0] = x /\ g = [k \in 0..0 |-> g[k]]
    OBVIOUS
  <2> HIDE DEF g
  <2>2. (\A k \in 0..0 : k = 0) /\ (\A k \in 1..0 : FALSE)
    OBVIOUS
  <2>3. Up(g, 0)
    BY <2>1, <2>2 DEF Repeats
  <2> QED BY <2>3
<1>2. ASSUME NEW m \in 1..n, m - 1 \in C PROVE m \in C
  <2>1. PICK f : Up(f, m - 1)
    BY <1>2
  <2> DEFINE g == [k \in 0..m |-> IF k = m THEN s[<<m, f[m - 1]>>] ELSE f[k]]
  <2>2. /\ m \in Nat /\ m # 0 /\ m - 1 \in 0..(m - 1) /\ 0 \in 0..m /\ m \in 0..m
        /\ \A k \in 0..m : k # m => k \in 0..(m - 1)
        /\ \A k \in 1..m : k - 1 \in 0..m /\ k - 1 # m /\ k \in 0..m
        /\ \A k \in 1..m : k # m => k \in 1..(m - 1)
    OBVIOUS
  <2>3. g = [k \in 0..m |-> g[k]]
    OBVIOUS
  <2>4. \A k \in 0..m : g[k] = IF k = m THEN s[<<m, f[m - 1]>>] ELSE f[k]
    OBVIOUS
  <2> HIDE DEF g
  <2>5. g[0] = x
    BY <2>1, <2>2, <2>4 DEF Repeats
  <2>6. f[m - 1] \in V
    BY <2>1, <2>2 DEF Repeats
  <2>7. \A k \in 1..m : g[k] = s[<<k, g[k - 1]>>]
    <3> TAKE k \in 1..m
    <3>1. g[k - 1] = f[k - 1]
      BY <2>2, <2>4
    <3>2. CASE k = m
      BY <2>2, <2>4, <3>1, <3>2
    <3>3. CASE k # m
      BY <2>1, <2>2, <2>4, <3>1, <3>3 DEF Repeats
    <3> QED BY <3>2, <3>3
  <2>8. \A k \in 0..m : g[k] \in V
    <3> TAKE k \in 0..m
    <3>1. CASE k = m
      BY <2>4, <2>6, <3>1
    <3>2. CASE k # m
      BY <2>1, <2>2, <2>4, <3>2 DEF Repeats
    <3> QED BY <3>1, <3>2
  <2>9. Up(g, m)
    BY <2>3, <2>5, <2>7, <2>8 DEF Repeats
  <2> HIDE DEF Up
  <2> QED BY <2>9
<1> HIDE DEF C
<1>3. \A m \in 0..n : m \in C
  BY <1>1, <1>2, UpTo
<1>4. n \in C
  BY <1>3
<1> QED BY <1>4 DEF C

-----------------------------------------------------------------------------
(* Sequences *)

\* A swap keeps what a sequence has.
LEMMA SwapKeeps ==
    ASSUME NEW D, NEW l \in Seq(D), NEW i \in DOMAIN l, NEW j \in DOMAIN l
    PROVE  /\ Swap(l, i, j) \in Seq(D) /\ Len(Swap(l, i, j)) = Len(l)
           /\ ToSet(Swap(l, i, j)) = ToSet(l)
<1> DEFINE s == Swap(l, i, j)
<1>1. DOMAIN s = DOMAIN l /\ \A m \in DOMAIN l : s[m] = IF m = j THEN l[i] ELSE IF m = i THEN l[j] ELSE l[m]
  BY DEF Swap
<1>2. s \in Seq(D) /\ Len(s) = Len(l)
  <2>1. DOMAIN l = 1..Len(l) /\ Len(l) \in Nat /\ \A m \in DOMAIN l : l[m] \in D
    OBVIOUS
  <2>2. s = [m \in 1..Len(l) |-> s[m]]
    BY <2>1 DEF Swap
  <2> HIDE DEF s
  <2>3. \A m \in 1..Len(l) : s[m] \in D
    BY <1>1, <2>1
  <2>4. s \in [1..Len(l) -> D]
    BY <2>2, <2>3
  <2> QED BY <2>1, <2>4
<1> HIDE DEF s
<1>4. ASSUME NEW m \in DOMAIN l PROVE /\ \E n \in DOMAIN l : s[n] = l[m]
                                      /\ \E n \in DOMAIN l : l[n] = s[m]
  BY <1>1
<1>5. ToSet(s) = ToSet(l)
  <2>1. \A x : x \in ToSet(s) <=> \E m \in DOMAIN l : s[m] = x
    BY <1>1, Zenon DEF ToSet
  <2>2. \A x : x \in ToSet(l) <=> \E m \in DOMAIN l : l[m] = x
    BY Zenon DEF ToSet
  <2>3. \A x : (\E m \in DOMAIN l : s[m] = x) <=> (\E m \in DOMAIN l : l[m] = x)
    BY <1>4, Zenon
  <2> QED BY <2>1, <2>2, <2>3, Zenon
<1> QED BY <1>2, <1>5 DEF s

\* A remainder picks a place.
LEMMA ModIn ==
    ASSUME NEW a \in Nat, NEW b \in Nat \ {0}, NEW n \in Nat, b <= n
    PROVE  (a % b) + 1 \in 1..n
<1>1. a % b \in 0..(b - 1)
  OBVIOUS
<1> QED BY <1>1

\* mix_seed of two numbers is a number.
MixesNumbers == \A a \in Nat, b \in Int : Mix(a, b) \in Nat

\* A shuffle is the list in another order.
LEMMA ShuffledKeeps ==
    ASSUME MixesNumbers, NEW D, NEW list \in Seq(D), NEW seed \in Nat
    PROVE  /\ Shuffled(list, seed) \in Seq(D) /\ Len(Shuffled(list, seed)) = Len(list)
           /\ ToSet(Shuffled(list, seed)) = ToSet(list)
<1> DEFINE n == Len(list)
           V == {l \in Seq(D) : Len(l) = n /\ ToSet(l) = ToSet(list)}
           Step(k, l) == Swap(l, n - k + 1, (Mix(seed, n - k) % (n - k + 1)) + 1)
           s == [p \in (1..n) \X V |-> Step(p[1], p[2])]
           F(g) == [k \in 0..n |-> IF k = 0 THEN list ELSE Step(k, g[k - 1])]
           h == CHOOSE g : g = F(g)
<1>1. Shuffled(list, seed) = h[n]
  BY DEF Shuffled
<1>2. n \in Nat /\ list \in V
  OBVIOUS
<1>3. ASSUME NEW k \in 1..n, NEW l \in V PROVE Step(k, l) \in V
  <2>1. n - k \in Int /\ n - k + 1 \in Nat \ {0} /\ n - k + 1 \in 1..n
    OBVIOUS
  <2>2. Mix(seed, n - k) \in Nat
    BY <2>1 DEF MixesNumbers
  <2>3. DOMAIN l = 1..n /\ l \in Seq(D) /\ Len(l) = n /\ ToSet(l) = ToSet(list)
    OBVIOUS
  <2> HIDE DEF n
  <2>4. (Mix(seed, n - k) % (n - k + 1)) + 1 \in 1..n
    BY <1>2, <2>1, <2>2, ModIn
  <2> DEFINE i == n - k + 1
             j == (Mix(seed, n - k) % (n - k + 1)) + 1
  <2>5. i \in DOMAIN l /\ j \in DOMAIN l
    BY <2>1, <2>3, <2>4
  <2> HIDE DEF i, j
  <2>6. Swap(l, i, j) \in V
    BY <2>3, <2>5, SwapKeeps
  <2> QED BY <2>6 DEF i, j
<1> HIDE DEF V, n, Step
<1>4. \A k \in 1..n : \A v \in V : s[<<k, v>>] = Step(k, v)
  OBVIOUS
<1> HIDE DEF s
<1>5. \A k \in 1..n : \A v \in V : s[<<k, v>>] \in V
  BY <1>3, <1>4, Zenon
<1>6. PICK g : Repeats(g, list, s, V, n)
  BY <1>2, <1>5, Repeating
<1>7. \A k \in 0..n : k # 0 => k \in 1..n /\ k - 1 \in 0..n
  BY <1>2
<1>8. \A k \in 0..n : g[k] = IF k = 0 THEN list ELSE Step(k, g[k - 1])
  BY <1>4, <1>6, <1>7 DEF Repeats
<1>9. g = F(g)
  BY <1>6, <1>8 DEF Repeats
<1>10. h = F(h)
  <2> HIDE DEF F
  <2> QED BY <1>9
<1> HIDE DEF h
<1> DEFINE C == {k \in 0..n : h[k] \in V}
<1>11. 0 \in C
  BY <1>2, <1>10
<1>12. ASSUME NEW k \in 1..n, k - 1 \in C PROVE k \in C
  <2>1. k \in 0..n /\ k # 0
    BY <1>2
  <2>2. h[k] = Step(k, h[k - 1])
    BY <1>10, <2>1
  <2> QED BY <1>3, <1>12, <2>1, <2>2
<1> HIDE DEF C
<1>13. \A k \in 0..n : k \in C
  BY <1>2, <1>11, <1>12, UpTo
<1>14. h[n] \in V
  BY <1>2, <1>13 DEF C
<1> QED BY <1>1, <1>14 DEF V, n

\* What is kept of a sequence are members of it.
LEMMA KeptIn ==
    ASSUME NEW D, NEW seq \in Seq(D), NEW some
    PROVE  Kept(seq, some) \in Seq(D)
<1> DEFINE n == Len(seq)
           V == Seq(D)
           Step(k, l) == IF seq[k] \in some THEN Append(l, seq[k]) ELSE l
           s == [p \in (1..n) \X V |-> Step(p[1], p[2])]
           F(g) == [k \in 0..n |-> IF k = 0 THEN <<>> ELSE IF seq[k] \in some THEN Append(g[k - 1], seq[k]) ELSE g[k - 1]]
           h == CHOOSE g : g = F(g)
<1>1. Kept(seq, some) = h[n]
  BY DEF Kept
<1>2. n \in Nat /\ <<>> \in V
  OBVIOUS
<1>3. ASSUME NEW k \in 1..n, NEW l \in V PROVE Step(k, l) \in V
  OBVIOUS
<1>4. \A g, k : F(g) = [i \in 0..n |-> IF i = 0 THEN <<>> ELSE Step(i, g[i - 1])]
  OBVIOUS
<1> HIDE DEF V, n, Step, F
<1>5. \A k \in 1..n : \A v \in V : s[<<k, v>>] = Step(k, v)
  OBVIOUS
<1> HIDE DEF s
<1>6. \A k \in 1..n : \A v \in V : s[<<k, v>>] \in V
  BY <1>3, <1>5, Zenon
<1>7. PICK g : Repeats(g, <<>>, s, V, n)
  BY <1>2, <1>6, Repeating
<1>8. \A k \in 0..n : k # 0 => k \in 1..n /\ k - 1 \in 0..n
  BY <1>2
<1>9. \A k \in 0..n : g[k] = IF k = 0 THEN <<>> ELSE Step(k, g[k - 1])
  BY <1>5, <1>7, <1>8 DEF Repeats
<1>10. g = F(g)
  <2>1. g = [k \in 0..n |-> g[k]]
    BY <1>7, Zenon DEF Repeats
  <2>2. F(g) = [k \in 0..n |-> IF k = 0 THEN <<>> ELSE Step(k, g[k - 1])]
    BY <1>4
  <2> QED BY <1>9, <2>1, <2>2
<1>11. h = F(h)
  BY <1>10
<1> HIDE DEF h
<1> DEFINE C == {k \in 0..n : h[k] \in V}
<1>12. \A k \in 0..n : h[k] = IF k = 0 THEN <<>> ELSE Step(k, h[k - 1])
  BY <1>4, <1>11
<1>13. 0 \in C
  BY <1>2, <1>12
<1>14. ASSUME NEW k \in 1..n, k - 1 \in C PROVE k \in C
  BY <1>3, <1>8, <1>12, <1>14
<1> HIDE DEF C
<1>15. \A k \in 0..n : k \in C
  BY <1>2, <1>13, <1>14, UpTo
<1>16. h[n] \in V
  BY <1>2, <1>15 DEF C
<1> QED BY <1>1, <1>16 DEF V

-----------------------------------------------------------------------------
(* Lists *)

\* There is a seed at any time.
LEMMA SeedIn ==
    ASSUME NEW t \in Int
    PROVE  SeedAt(t) \in Nat
<1>1. Period \in Nat \ {0} /\ Seeds \in Seq(Nat) /\ Len(Seeds) \in Nat \ {0}
  BY ResolverAssumption
<1>2. t \div Period \in Int
  BY <1>1
<1>3. (t \div Period) % Len(Seeds) \in 0..(Len(Seeds) - 1)
  BY <1>1, <1>2
<1>4. ((t \div Period) % Len(Seeds)) + 1 \in 1..Len(Seeds)
  BY <1>1, <1>3
<1> QED BY <1>1, <1>4 DEF SeedAt

\* A block has its entries in some order.
LEMMA ArrangedIn ==
    ASSUME MixesNumbers, NEW block, block.entries \in Playlist, NEW seed \in Nat
    PROVE  Arranged(block, seed) \in Playlist
<1>1. block.entries \in Seq(Item) /\ Len(block.entries) # 0
  BY DEF Playlist
<1>2. /\ Shuffled(block.entries, seed) \in Seq(Item)
      /\ Len(Shuffled(block.entries, seed)) = Len(block.entries)
  BY <1>1, ShuffledKeeps
<1>3. Shuffled(block.entries, seed) # <<>>
  BY <1>1, <1>2
<1> QED BY <1>1, <1>2, <1>3 DEF Arranged, Playlist

IsList(slot) == slot = AnyTime \/ (slot \in Slots /\ ~IsRotation(slot))

\* Every list a channel can name has items of it, and at least one.
LEMMA ListIn ==
    ASSUME MixesNumbers, Valid(channel), NEW seed \in Nat, NEW slot, IsList(slot)
    PROVE  List(slot, seed) \in Playlist
<1>1. CASE slot # AnyTime
  <2>1. slot \in Slots /\ channel.slots[slot] \in EntrySlot
    BY <1>1 DEF IsList, IsRotation, Valid, ValidRotation, Slots
  <2>2. channel.slots[slot].entries \in Playlist
    BY <2>1 DEF EntrySlot
  <2> QED BY <1>1, <2>2, ArrangedIn DEF List
<1>2. CASE slot = AnyTime
  <2> DEFINE n == Len(channel.blocks)
             V == Seq(Item)
             Own(k) == Arranged(channel.blocks[k], seed)
             Step(k, l) == l \o Own(k)
             s == [p \in (1..n) \X V |-> Step(p[1], p[2])]
             F(g) == [k \in 0..n |-> IF k = 0 THEN <<>> ELSE g[k - 1] \o Arranged(channel.blocks[k], seed)]
             h == CHOOSE g : g = F(g)
  <2>1. List(slot, seed) = h[n]
    BY <1>2 DEF List
  <2>2. n \in Nat /\ n # 0 /\ <<>> \in V
    BY DEF Valid
  <2>3. ASSUME NEW k \in 1..n PROVE Own(k) \in Playlist
    <3>1. channel.blocks \in Seq(EntryBlock) /\ k \in 1..Len(channel.blocks)
      BY DEF Valid
    <3>2. channel.blocks[k] \in EntryBlock
      BY <3>1
    <3>3. channel.blocks[k].entries \in Playlist
      BY <3>2 DEF EntryBlock
    <3> QED BY <3>3, ArrangedIn
  <2> HIDE DEF Own
  <2>4. ASSUME NEW k \in 1..n, NEW l \in V PROVE Step(k, l) \in Playlist
    <3>1. Own(k) \in Seq(Item) /\ Own(k) # <<>>
      BY <2>3 DEF Playlist
    <3>2. Len(l \o Own(k)) = Len(l) + Len(Own(k)) /\ Len(Own(k)) \in Nat /\ Len(Own(k)) # 0 /\ Len(l) \in Nat
      BY <3>1
    <3> QED BY <3>1, <3>2 DEF Playlist
  <2>5. \A g : F(g) = [i \in 0..n |-> IF i = 0 THEN <<>> ELSE Step(i, g[i - 1])]
    BY DEF Own
  <2>6. Playlist \subseteq V
    BY DEF Playlist
  <2> HIDE DEF V, n, Step, F
  <2>7. \A k \in 1..n : \A v \in V : s[<<k, v>>] = Step(k, v)
    OBVIOUS
  <2> HIDE DEF s
  <2>8. \A k \in 1..n : \A v \in V : s[<<k, v>>] \in V
    BY <2>4, <2>6, <2>7, Zenon
  <2>9. PICK g : Repeats(g, <<>>, s, V, n)
    BY <2>2, <2>8, Repeating
  <2>10. \A k \in 0..n : k # 0 => k \in 1..n /\ k - 1 \in 0..n
    BY <2>2
  <2>11. \A k \in 0..n : g[k] = IF k = 0 THEN <<>> ELSE Step(k, g[k - 1])
    BY <2>7, <2>9, <2>10 DEF Repeats
  <2>12. g = F(g)
    BY <2>5, <2>9, <2>11 DEF Repeats
  <2>13. h = F(h)
    BY <2>12
  <2> HIDE DEF h
  <2> DEFINE C == {k \in 0..n : h[k] \in V}
  <2>14. \A k \in 0..n : h[k] = IF k = 0 THEN <<>> ELSE Step(k, h[k - 1])
    BY <2>5, <2>13
  <2>15. 0 \in C
    BY <2>2, <2>14
  <2>16. ASSUME NEW k \in 1..n, k - 1 \in C PROVE k \in C
    BY <2>4, <2>6, <2>10, <2>14, <2>16
  <2>17. \A k \in 0..n : k \in C
    <3> HIDE DEF C
    <3> QED BY <2>2, <2>15, <2>16, UpTo
  <2>18. n \in 1..n /\ n \in 0..n /\ n - 1 \in 0..n
    BY <2>2
  <2>19. h[n] \in Playlist
    BY <2>4, <2>14, <2>17, <2>18
  <2> QED BY <2>1, <2>19
<1> QED BY <1>1, <1>2

-----------------------------------------------------------------------------
(* The calendar *)

\* Products keep their order.
LEMMA Multiples ==
    ASSUME NEW a \in Int, NEW b \in Int, NEW c \in Nat, a <= b
    PROVE  a * c <= b * c
OBVIOUS

\* Division and its remainder.
LEMMA Divided ==
    ASSUME NEW t \in Nat, NEW c \in Nat \ {0}
    PROVE  /\ t \div c \in Nat /\ t % c \in Nat /\ t % c < c
           /\ t = (t \div c) * c + (t % c)
OBVIOUS

\* When the placement of a range that began on a day ends.
EndOf(range, day) == day * DayLen + range.end + (IF range.end < range.start THEN DayLen ELSE 0)

IsHours(range) == range.start \in 0..DayLen /\ range.end \in 0..DayLen

\* The days whose placement covers an instant, by its day and minute or by where they begin
\* and end: the same.
LEMMA DaysOf ==
    ASSUME NEW t \in Nat, NEW schedule, NEW range, IsHours(range), NEW day \in Int
    PROVE  day \in StartDays(schedule, range, t)
              <=> MatchesDay(schedule, day) /\ day * DayLen + range.start <= t /\ t < EndOf(range, day)
<1> DEFINE q == t \div DayLen
           r == t % DayLen
           s == range.start
           e == range.end
           L == DayLen
<1>1. L \in Nat \ {0}
  BY ResolverAssumption
<1>2. q \in Nat /\ r \in Nat /\ r < L /\ t = q * L + r
  BY <1>1, Divided
<1>3. s \in Nat /\ e \in Nat /\ s <= L /\ e <= L
  BY <1>1 DEF IsHours
<1>4. day \in StartDays(schedule, range, t)
         <=> IF e < s THEN \/ r >= s /\ MatchesDay(schedule, q) /\ day = q
                           \/ r < e /\ MatchesDay(schedule, q - 1) /\ day = q - 1
             ELSE r >= s /\ r < e /\ MatchesDay(schedule, q) /\ day = q
  BY DEF StartDays
<1>5. EndOf(range, day) = day * L + e + (IF e < s THEN L ELSE 0)
  BY DEF EndOf
<1> HIDE DEF q, r, s, e, L
<1>6. /\ (q + 1) * L = q * L + L /\ (q - 1) * L = q * L - L /\ (q - 2) * L = q * L - L - L
      /\ q * L \in Int /\ day * L \in Int
  BY <1>1, <1>2
<1>7. CASE day >= q + 1
  <2>1. (q + 1) * L <= day * L
    BY <1>1, <1>2, <1>7, Multiples
  <2>2. ~(day * L + s <= t)
    BY <1>1, <1>2, <1>3, <1>6, <2>1
  <2>3. day # q /\ day # q - 1
    BY <1>2, <1>7
  <2> QED BY <1>4, <2>2, <2>3 DEF s, L
<1>8. CASE day <= q - 2
  <2>1. day * L <= (q - 2) * L
    BY <1>1, <1>2, <1>8, Multiples
  <2>2. ~(t < EndOf(range, day))
    BY <1>1, <1>2, <1>3, <1>5, <1>6, <2>1
  <2>3. day # q /\ day # q - 1
    BY <1>2, <1>8
  <2> QED BY <1>4, <2>2, <2>3
<1>9. CASE day = q
  <2>1. day # q - 1
    BY <1>2, <1>9
  <2>2. day * L + s <= t <=> r >= s
    BY <1>2, <1>3, <1>6, <1>9
  <2>3. t < EndOf(range, day) <=> IF e < s THEN TRUE ELSE r < e
    BY <1>1, <1>2, <1>3, <1>5, <1>6, <1>9
  <2> QED BY <1>4, <1>9, <2>1, <2>2, <2>3 DEF s, L
<1>10. CASE day = q - 1
  <2>1. day # q
    BY <1>2, <1>10
  <2>2. day * L + s <= t
    BY <1>1, <1>2, <1>3, <1>6, <1>10
  <2>3. t < EndOf(range, day) <=> e < s /\ r < e
    BY <1>1, <1>2, <1>3, <1>5, <1>6, <1>10
  <2> QED BY <1>4, <1>10, <2>1, <2>2, <2>3 DEF s, L
<1>11. day >= q + 1 \/ day <= q - 2 \/ day = q \/ day = q - 1
  BY <1>2
<1> QED BY <1>7, <1>8, <1>9, <1>10, <1>11

\* A range began on one day at most, the day before at the earliest.
LEMMA DaysIn ==
    ASSUME NEW t \in Nat, NEW schedule, NEW range, IsHours(range)
    PROVE  /\ StartDays(schedule, range, t) \subseteq (-1)..(t \div DayLen)
           /\ \A c, d \in StartDays(schedule, range, t) : c = d
<1>1. t \div DayLen \in Nat /\ t % DayLen \in Nat
  BY ResolverAssumption, Divided
<1>2. range.start \in Nat /\ range.end \in Nat
  BY ResolverAssumption DEF IsHours
<1> DEFINE q == t \div DayLen
           r == t % DayLen
<1>3. q \in (-1)..q /\ q - 1 \in (-1)..q
  BY <1>1
<1>4. \A d \in StartDays(schedule, range, t) :
         IF range.end < range.start THEN (r >= range.start /\ d = q) \/ (r < range.end /\ d = q - 1) ELSE d = q
  BY DEF StartDays
<1> HIDE DEF q, r
<1>5. \A d \in StartDays(schedule, range, t) : d = q \/ d = q - 1
  BY <1>4
<1>6. ~(r >= range.start /\ r < range.end /\ range.end < range.start)
  BY <1>1, <1>2 DEF r
<1> QED BY <1>3, <1>4, <1>5, <1>6 DEF q

Timetable(h) == channel.schedules[h[1]]
Hour(h) == channel.schedules[h[1]].hours[h[2]]
Claim(h, day) == [of |-> h, slot |-> Hour(h).slot, start |-> day * DayLen + Hour(h).start, finish |-> EndOf(Hour(h), day)]
Ranges == UNION {{k} \X DOMAIN channel.schedules[k].hours : k \in DOMAIN channel.schedules}

\* What validation says of the hours of a timetable.
LEMMA RangesOf ==
    ASSUME Valid(channel), NEW h \in Ranges
    PROVE  /\ h = <<h[1], h[2]>> /\ h[1] \in DOMAIN channel.schedules /\ h[2] \in DOMAIN Timetable(h).hours
           /\ h[1] \in Nat /\ h[2] \in Nat /\ IsHours(Hour(h)) /\ Hour(h).slot \in Slots
<1> DEFINE All == [dates: SUBSET Nat, weekdays: SUBSET (0..(WeekLen - 1)), hours: Seq(Hours(Slots))]
<1>1. channel.schedules \in Seq(All)
  BY DEF Valid, Slots
<1>2. PICK k \in DOMAIN channel.schedules : h \in {k} \X DOMAIN channel.schedules[k].hours
  BY DEF Ranges
<1>3. h = <<h[1], h[2]>> /\ h[1] = k /\ h[2] \in DOMAIN channel.schedules[k].hours
  BY <1>2
<1>4. k \in Nat /\ channel.schedules[k] \in All
  <2> HIDE DEF All
  <2> QED BY <1>1, <1>2
<1>5. channel.schedules[k].hours \in Seq(Hours(Slots))
  BY <1>4
<1>6. h[2] \in Nat /\ channel.schedules[k].hours[h[2]] \in Hours(Slots)
  BY <1>3, <1>5
<1>7. Hour(h) \in Hours(Slots)
  BY <1>3, <1>6 DEF Hour
<1> QED BY <1>2, <1>3, <1>4, <1>6, <1>7 DEF Hours, IsHours, Timetable

\* The hits are among the ranges there are.
LEMMA HitsOf ==
    ASSUME NEW t
    PROVE  Hits(t) = {h \in Ranges : StartDays(Timetable(h), Hour(h), t) # {}}
BY DEF Hits, Ranges, Timetable, Hour

\* What claims an instant is what hits it.
LEMMA ClaimsOf ==
    ASSUME Valid(channel), NEW t \in Nat
    PROVE  /\ \A h \in Hits(t) : \A day \in StartDays(Timetable(h), Hour(h), t) : Claim(h, day) \in Claims(t)
           /\ \A c \in Claims(t) : \E h \in Hits(t) : \E day \in StartDays(Timetable(h), Hour(h), t) : c = Claim(h, day)
<1> DEFINE Days(k) == {d \in (-1)..(t \div DayLen) : MatchesDay(channel.schedules[k], d)}
           Set(k) == {Claim(<<k, i>>, day) : i \in DOMAIN channel.schedules[k].hours, day \in Days(k)}
<1>1. \A k, i : Hour(<<k, i>>) = channel.schedules[k].hours[i] /\ Timetable(<<k, i>>) = channel.schedules[k]
  BY DEF Hour, Timetable
<1>2. Claims(t) = {c \in UNION {Set(k) : k \in DOMAIN channel.schedules} : c.start <= t /\ t < c.finish}
  BY DEF Claims, Claim, EndOf, Hour
<1>3. ASSUME NEW h \in Ranges, NEW day \in StartDays(Timetable(h), Hour(h), t)
      PROVE  Claim(h, day) \in Claims(t)
  <2>1. /\ h = <<h[1], h[2]>> /\ h[1] \in DOMAIN channel.schedules
        /\ h[2] \in DOMAIN channel.schedules[h[1]].hours /\ IsHours(Hour(h))
    BY RangesOf DEF Timetable
  <2>2. day \in (-1)..(t \div DayLen)
    BY <2>1, DaysIn
  <2>3. t \div DayLen \in Nat
    BY ResolverAssumption, Divided
  <2>4. day \in Int
    BY <2>2, <2>3
  <2>5. /\ MatchesDay(Timetable(h), day) /\ day * DayLen + Hour(h).start <= t /\ t < EndOf(Hour(h), day)
    BY <2>1, <2>4, DaysOf
  <2>6. day \in Days(h[1])
    BY <2>2, <2>5 DEF Timetable
  <2>7. Claim(h, day) \in Set(h[1])
    <3> HIDE DEF Days
    <3> QED BY <2>1, <2>6
  <2>8. Claim(h, day).start <= t /\ t < Claim(h, day).finish
    BY <2>5 DEF Claim
  <2> HIDE DEF Set
  <2> QED BY <1>2, <2>1, <2>7, <2>8
<1>4. ASSUME NEW c \in Claims(t)
      PROVE  \E h \in Ranges : \E day \in StartDays(Timetable(h), Hour(h), t) : c = Claim(h, day)
  <2>1. PICK k \in DOMAIN channel.schedules : c \in Set(k) /\ c.start <= t /\ t < c.finish
    <3> HIDE DEF Set
    <3> QED BY <1>2
  <2>2. PICK i \in DOMAIN channel.schedules[k].hours, day \in Days(k) : c = Claim(<<k, i>>, day)
    <3> HIDE DEF Days
    <3> QED BY <2>1
  <2> DEFINE h == <<k, i>>
  <2>3. h \in Ranges
    BY DEF Ranges
  <2>4. day \in Int /\ MatchesDay(Timetable(h), day)
    <3>1. t \div DayLen \in Nat
      BY ResolverAssumption, Divided
    <3> QED BY <3>1 DEF Timetable
  <2>5. day * DayLen + Hour(h).start <= t /\ t < EndOf(Hour(h), day)
    BY <2>1, <2>2 DEF Claim
  <2>6. IsHours(Hour(h))
    BY <2>3, RangesOf
  <2> HIDE DEF h
  <2>7. day \in StartDays(Timetable(h), Hour(h), t)
    BY <2>4, <2>5, <2>6, DaysOf
  <2> QED BY <2>2, <2>3, <2>7 DEF h
<1> QED BY <1>3, <1>4, HitsOf
-----------------------------------------------------------------------------
(* The range that is on *)

\* One of any ranges is above the rest.
LEMMA TopOf ==
    ASSUME Valid(channel), NEW H, H # {}, H \subseteq Ranges
    PROVE  \E h \in H : \A g \in H : Above(h, g)
<1> DEFINE Low(h) == 2 - Rank(Timetable(h))
           A == {Low(h) : h \in H}
           G == {h \in H : Low(h) = Min(A)}
           B == {h[1] : h \in G}
           F == {h \in G : h[1] = Min(B)}
           C == {h[2] : h \in F}
<1>1. \A h \in H : h[1] \in Nat /\ h[2] \in Nat
  BY RangesOf
<1>2. \A s : Rank(s) \in 0..2 /\ 2 - Rank(s) \in Nat
  BY DEF Rank
<1>3. Min(A) \in A /\ \A x \in A : Min(A) <= x
  <2>1. A \subseteq Nat /\ A # {}
    BY <1>2
  <2> HIDE DEF A
  <2> QED BY <2>1, LeastOf
<1>4. G # {} /\ G \subseteq H
  BY <1>3
<1>5. Min(B) \in B /\ \A x \in B : Min(B) <= x
  <2>1. B \subseteq Nat /\ B # {}
    <3> HIDE DEF G
    <3> QED BY <1>1, <1>4
  <2> HIDE DEF B
  <2> QED BY <2>1, LeastOf
<1>6. F # {} /\ F \subseteq G
  <2> HIDE DEF G
  <2> QED BY <1>5
<1>7. Min(C) \in C /\ \A x \in C : Min(C) <= x
  <2>1. C \subseteq Nat /\ C # {}
    <3> HIDE DEF F, G
    <3> QED BY <1>1, <1>4, <1>6
  <2> HIDE DEF C
  <2> QED BY <2>1, LeastOf
<1>8. PICK h \in F : h[2] = Min(C)
  <2> HIDE DEF F
  <2> QED BY <1>7
<1>9. h \in H /\ h \in G
  <2> HIDE DEF F, G
  <2> QED BY <1>4, <1>6, <1>8
<1>10. ASSUME NEW g \in H PROVE Above(h, g)
  <2>1. Low(h) <= Low(g)
    <3>1. Low(h) = Min(A) /\ Low(g) \in A
      BY <1>9
    <3> HIDE DEF A, Low
    <3> QED BY <1>3, <3>1
  <2>2. Rank(Timetable(h)) >= Rank(Timetable(g))
    <3>1. Rank(Timetable(h)) \in 0..2 /\ Rank(Timetable(g)) \in 0..2
      BY <1>2
    <3> QED BY <2>1, <3>1
  <2>3. CASE g \notin G
    <3>1. Low(g) # Low(h)
      BY <1>9, <2>3
    <3>2. Rank(Timetable(h)) # Rank(Timetable(g))
      BY <3>1
    <3>3. Rank(Timetable(h)) > Rank(Timetable(g))
      <4>1. Rank(Timetable(h)) \in 0..2 /\ Rank(Timetable(g)) \in 0..2
        BY <1>2
      <4> QED BY <2>2, <3>2, <4>1
    <3> QED BY <3>3 DEF Above, Timetable
  <2>4. CASE g \in G
    <3>1. Rank(Timetable(h)) = Rank(Timetable(g))
      <4>1. Low(g) = Low(h)
        BY <1>9, <2>4
      <4>2. Rank(Timetable(h)) \in 0..2 /\ Rank(Timetable(g)) \in 0..2
        BY <1>2
      <4> QED BY <4>1, <4>2
    <3>2. h[1] <= g[1] /\ (g \notin F => h[1] # g[1])
      <4>1. h[1] = Min(B) /\ g[1] \in B
        BY <1>8, <2>4
      <4>2. g \notin F => g[1] # Min(B)
        BY <2>4
      <4> HIDE DEF B
      <4> QED BY <1>5, <4>1, <4>2
    <3>3. g \in F => h[2] <= g[2]
      <4>1. g \in F => g[2] \in C
        OBVIOUS
      <4> HIDE DEF C, F
      <4> QED BY <1>7, <1>8, <4>1
    <3>4. h[1] \in Nat /\ g[1] \in Nat /\ h[2] \in Nat /\ g[2] \in Nat
      BY <1>1, <1>9
    <3>5. h[1] < g[1] \/ (h[1] = g[1] /\ h[2] <= g[2])
      <4> HIDE DEF F
      <4> QED BY <3>2, <3>3, <3>4
    <3> QED BY <3>1, <3>5 DEF Above, Timetable
  <2> QED BY <2>3, <2>4
<1> QED BY <1>9, <1>10

\* The topmost of the placements that cover t, by its own day and hours.
ByPlacements(t) ==
    IF Claims(t) = {} THEN OnAir(t).slot = AnyTime /\ OnAir(t).placement = {}
    ELSE \E c \in Claims(t) :
            /\ c.slot = OnAir(t).slot /\ c.slot \in Slots
            /\ OnAir(t).placement = IF IsRotation(c.slot) THEN {c.start} ELSE {}
            /\ c.start \in Int
            /\ \A d \in Claims(t) : Above(c.of, d.of)

\* What is on the air at any instant is the topmost of the placements that cover it, over
\* midnight too: none means the any-time list (OnAir, hit_at, on_air).
THEOREM OnAir_ByPlacements ==
    ASSUME Valid(channel), NEW t \in Nat
    PROVE  ByPlacements(t)
<1>1. Hits(t) \subseteq Ranges
  BY HitsOf
<1>2. CASE Hits(t) = {}
  <2>1. Claims(t) = {}
    BY <1>2, ClaimsOf
  <2> QED BY <1>2, <2>1 DEF OnAir, ByPlacements
<1>3. CASE Hits(t) # {}
  <2> DEFINE h == CHOOSE h \in Hits(t) : \A g \in Hits(t) : Above(h, g)
             Days == StartDays(Timetable(h), Hour(h), t)
  <2>1. h \in Hits(t) /\ \A g \in Hits(t) : Above(h, g)
    BY <1>1, <1>3, TopOf
  <2>2. OnAir(t) = [slot |-> Hour(h).slot,
                    placement |-> IF IsRotation(Hour(h).slot) THEN {day * DayLen + Hour(h).start : day \in Days} ELSE {}]
    <3> HIDE DEF h
    <3>1. OnAir(t) =
             LET schedule == channel.schedules[h[1]]
                 range == schedule.hours[h[2]]
             IN  [slot      |-> range.slot,
                  placement |-> IF IsRotation(range.slot)
                                THEN {day * DayLen + range.start : day \in StartDays(schedule, range, t)}
                                ELSE {}]
      BY <1>3, Zenon DEF OnAir, h
    <3> QED BY <3>1, Zenon DEF Hour, Timetable
  <2> HIDE DEF h
  <2>3. h \in Ranges /\ Days # {} /\ IsHours(Hour(h)) /\ Hour(h).slot \in Slots
    BY <1>1, <2>1, HitsOf, RangesOf
  <2>4. PICK day \in Days : TRUE
    BY <2>3
  <2>5. Days = {day} /\ day \in (-1)..(t \div DayLen)
    BY <2>3, <2>4, DaysIn
  <2>6. t \div DayLen \in Nat /\ DayLen \in Nat
    BY ResolverAssumption, Divided
  <2> DEFINE c == Claim(h, day)
  <2>7. c \in Claims(t)
    BY <2>1, <2>4, ClaimsOf
  <2>8. c.of = h /\ c.slot = Hour(h).slot /\ c.start = day * DayLen + Hour(h).start
    BY DEF Claim
  <2> HIDE DEF c, Days
  <2>9. c.start \in Int
    BY <2>3, <2>5, <2>6, <2>8 DEF IsHours
  <2>10. \A d \in Claims(t) : Above(c.of, d.of)
    <3> TAKE d \in Claims(t)
    <3>1. PICK g \in Hits(t) : \E e \in StartDays(Timetable(g), Hour(g), t) : d = Claim(g, e)
      BY ClaimsOf
    <3>2. d.of = g
      BY <3>1 DEF Claim
    <3> QED BY <2>1, <2>8, <3>2
  <2>11. {x * DayLen + Hour(h).start : x \in Days} = {c.start}
    BY <2>5, <2>8
  <2>12. c.slot = OnAir(t).slot /\ c.slot \in Slots
    BY <2>2, <2>3, <2>8
  <2>13. OnAir(t).placement = IF IsRotation(c.slot) THEN {c.start} ELSE {}
    BY <2>2, <2>8, <2>11
  <2> QED BY <2>7, <2>9, <2>10, <2>12, <2>13 DEF ByPlacements
<1> QED BY <1>2, <1>3

-----------------------------------------------------------------------------
(* How long a generation may run *)

\* The quotient is the only number between its multiples.
LEMMA QuotientOf ==
    ASSUME NEW t \in Nat, NEW c \in Nat \ {0}, NEW q \in Nat, q * c <= t, t < (q + 1) * c
    PROVE  t \div c = q
<1>1. c * q <= t /\ t < c * (q + 1)
  OBVIOUS
<1> QED BY <1>1

\* The slot that is on at the start of a generation, and its seed, last to its end.
LEMMA FillOf ==
    ASSUME NEW from \in Nat, now \in Nat, from < now + Window
    PROVE  /\ Fill(from) \in Nat \ {0}
           /\ \A t \in Nat : from <= t /\ t < from + Fill(from) =>
                 OnAir(t) = OnAir(from) /\ (LaysSeededList => SeedAt(t) = SeedAt(from))
<1> DEFINE U == {now + Window} \cup (IF LaysSeededList THEN {NextRollover(from)} ELSE {})
           until == Min(U)
           S == {until} \cup Changes(from, until)
           stop == Min(S)
<1>1. Window \in Nat /\ Period \in Nat \ {0}
  BY ResolverAssumption
<1> DEFINE q == from \div Period
<1>2. q \in Nat /\ from = q * Period + (from % Period) /\ from % Period \in Nat /\ from % Period < Period
  BY <1>1, Divided
<1>3. NextRollover(from) = (q + 1) * Period
  BY DEF NextRollover
<1> HIDE DEF q
<1>4. (q + 1) * Period = q * Period + Period /\ q * Period \in Nat
  BY <1>1, <1>2
<1>5. NextRollover(from) \in Nat /\ from < NextRollover(from)
  BY <1>1, <1>2, <1>3, <1>4
<1>6. U \subseteq Nat /\ U # {} /\ \A x \in U : from < x
  BY <1>1, <1>5
<1>7. until \in Nat /\ from < until /\ (LaysSeededList => until <= NextRollover(from))
  <2>1. LaysSeededList => NextRollover(from) \in U
    OBVIOUS
  <2> HIDE DEF U
  <2> QED BY <1>6, <2>1, LeastOf
<1>8. Fill(from) = stop - from
  BY DEF Fill
<1> HIDE DEF until
<1>9. Changes(from, until) \subseteq Nat /\ \A x \in Changes(from, until) : from < x
  BY <1>7 DEF Changes
<1>10. stop \in Nat /\ from < stop /\ stop <= until /\ \A x \in Changes(from, until) : stop <= x
  <2>1. S \subseteq Nat /\ S # {} /\ until \in S /\ \A x \in S : from < x
    BY <1>7, <1>9
  <2>2. Changes(from, until) \subseteq S
    OBVIOUS
  <2> HIDE DEF S
  <2> QED BY <2>1, <2>2, LeastOf
<1> HIDE DEF stop
<1>11. ASSUME NEW t \in Nat, from <= t, t < stop
       PROVE  OnAir(t) = OnAir(from) /\ (LaysSeededList => SeedAt(t) = SeedAt(from))
  <2>1. OnAir(t) = OnAir(from)
    <3>1. CASE t = from
      BY <3>1
    <3>2. CASE t # from
      <4>1. t \in (from + 1)..(until - 1)
        BY <1>7, <1>10, <1>11, <3>2
      <4>2. t \notin Changes(from, until)
        BY <1>10, <1>11
      <4> QED BY <4>1, <4>2 DEF Changes
    <3> QED BY <3>1, <3>2
  <2>2. ASSUME LaysSeededList PROVE SeedAt(t) = SeedAt(from)
    <3>1. q * Period <= t /\ t < (q + 1) * Period
      BY <1>1, <1>2, <1>3, <1>4, <1>7, <1>10, <1>11, <2>2
    <3>2. t \div Period = q
      BY <1>1, <1>2, <3>1, QuotientOf
    <3> QED BY <3>2 DEF SeedAt, q
  <2> QED BY <2>1, <2>2
<1>12. Fill(from) \in Nat \ {0} /\ from + Fill(from) = stop
  BY <1>8, <1>10
<1> QED BY <1>11, <1>12

-----------------------------------------------------------------------------
(* Lists cut to the time *)

\* Functions that agree on a set have one sum over it.
LEMMA SumSame ==
    ASSUME NEW f, NEW g, NEW S, IsFiniteSet(S), \A x \in S : f[x] = g[x]
    PROVE  SumFunctionOnSet(f, S) = SumFunctionOnSet(g, S)
<1> DEFINE C == {T \in SUBSET S : SumFunctionOnSet(f, T) = SumFunctionOnSet(g, T)}
<1>1. ASSUME NEW T \in SUBSET S, \A x \in T : T \ {x} \in C PROVE T \in C
  <2>1. IsFiniteSet(T)
    BY FS_Subset
  <2>2. CASE T = {}
    <3>1. SumFunctionOnSet(f, T) = 0 /\ SumFunctionOnSet(g, T) = 0
      BY <2>1, <2>2, SumUnfolds
    <3> QED BY <3>1
  <2>3. CASE T # {}
    <3>1. ATerm(T) \in T
      BY <2>3, ATermIn
    <3>2. T \ {ATerm(T)} \in C
      BY <1>1, <3>1
    <3>3. /\ SumFunctionOnSet(f, T) = f[ATerm(T)] + SumFunctionOnSet(f, T \ {ATerm(T)})
          /\ SumFunctionOnSet(g, T) = g[ATerm(T)] + SumFunctionOnSet(g, T \ {ATerm(T)})
      BY <2>1, <2>3, SumUnfolds
    <3> QED BY <3>1, <3>2, <3>3
  <2> QED BY <2>2, <2>3
<1>2. S \in C
  <2> HIDE DEF C
  <2> QED BY <1>1, FiniteInduction
<1> QED BY <1>2

\* Running times start from zero and grow.
LEMMA RuntimeOf ==
    ASSUME NEW list \in Seq(Item), NEW k \in 0..Len(list)
    PROVE  /\ Runtime(list, k) \in Nat /\ (k = 0 => Runtime(list, k) = 0)
           /\ \A j \in 0..k : Runtime(list, j) <= Runtime(list, k)
<1> DEFINE f == [i \in DOMAIN list |-> list[i].duration]
<1>1. \A i \in DOMAIN list : f[i] \in Nat
  <2>1. \A i \in DOMAIN list : list[i] \in Item
    OBVIOUS
  <2> QED BY <2>1 DEF Item
<1>2. 1..k \subseteq DOMAIN list /\ IsFiniteSet(1..k)
  BY FS_Interval
<1>3. \A j \in 0..k : 1..j \subseteq 1..k
  OBVIOUS
<1>4. \A j : Runtime(list, j) = SumFunctionOnSet(f, 1..j)
  BY DEF Runtime
<1> HIDE DEF f
<1>5. SumFunctionOnSet(f, 1..k) \in Nat
  BY <1>1, <1>2, SumType
<1>6. \A j \in 0..k : SumFunctionOnSet(f, 1..j) <= SumFunctionOnSet(f, 1..k)
  BY <1>1, <1>2, <1>3, SumGrows
<1>7. k = 0 => SumFunctionOnSet(f, 1..k) = 0
  <2>1. k = 0 => 1..k = {}
    OBVIOUS
  <2> QED BY <1>2, <2>1, SumUnfolds
<1> QED BY <1>4, <1>5, <1>6, <1>7

\* A list that is cut short runs as long as it did up to the cut.
LEMMA RuntimeSame ==
    ASSUME NEW list \in Seq(Item), NEW cut \in 0..Len(list), NEW k \in 0..cut
    PROVE  Runtime(SubSeq(list, 1, cut), k) = Runtime(list, k)
<1> DEFINE r == SubSeq(list, 1, cut)
           f == [i \in DOMAIN list |-> list[i].duration]
           g == [i \in DOMAIN r |-> r[i].duration]
<1>1. DOMAIN r = 1..cut /\ \A i \in 1..cut : r[i] = list[i]
  OBVIOUS
<1>2. 1..k \subseteq 1..cut /\ 1..k \subseteq DOMAIN list /\ IsFiniteSet(1..k)
  BY FS_Interval
<1>3. Runtime(r, k) = SumFunctionOnSet(g, 1..k) /\ Runtime(list, k) = SumFunctionOnSet(f, 1..k)
  BY DEF Runtime
<1> HIDE DEF r
<1>4. \A i \in 1..k : g[i] = f[i]
  BY <1>1, <1>2
<1> HIDE DEF f, g
<1> QED BY <1>2, <1>3, <1>4, SumSame DEF r

\* All the items but the last leave some of the time.
LEMMA CoveringOf ==
    ASSUME NEW list \in Playlist, NEW fill \in Nat \ {0}
    PROVE  /\ ItemsCovering(list, fill) \in 1..Len(list)
           /\ \A k \in 0..(ItemsCovering(list, fill) - 1) : Runtime(list, k) < fill
<1> DEFINE S == {Len(list)} \cup {k \in DOMAIN list : Runtime(list, k) >= fill}
           n == ItemsCovering(list, fill)
<1>1. list \in Seq(Item) /\ Len(list) \in Nat \ {0} /\ DOMAIN list = 1..Len(list)
  BY DEF Playlist
<1>2. n = Min(S)
  BY DEF ItemsCovering
<1>3. S \subseteq 1..Len(list) /\ S \subseteq Nat /\ S # {}
  BY <1>1
<1>4. n \in S /\ \A k \in S : n <= k
  <2> HIDE DEF S
  <2> QED BY <1>2, <1>3, LeastOf
<1>5. n \in 1..Len(list)
  BY <1>3, <1>4
<1> HIDE DEF n
<1>6. ASSUME NEW k \in 0..(n - 1) PROVE Runtime(list, k) < fill
  <2>1. k \in 0..Len(list) /\ k < n
    BY <1>1, <1>5
  <2>2. Runtime(list, k) \in Nat /\ (k = 0 => Runtime(list, k) = 0)
    BY <1>1, <2>1, RuntimeOf
  <2>3. CASE k = 0
    BY <2>2, <2>3
  <2>4. CASE k # 0
    <3>1. k \notin S
      <4> HIDE DEF S
      <4>1. ~(n <= k)
        BY <1>1, <1>5, <2>1
      <4> QED BY <1>4, <4>1
    <3>2. k \in DOMAIN list
      BY <1>1, <2>1, <2>4
    <3> QED BY <2>2, <3>1, <3>2
  <2> QED BY <2>3, <2>4
<1> QED BY <1>5, <1>6 DEF n

\* A list that starts at its position is the whole list.
LEMMA SeatedIn ==
    ASSUME NEW list \in Playlist, NEW start \in 0..(Len(list) - 1)
    PROVE  Seated(list, start) \in Playlist /\ Len(Seated(list, start)) = Len(list)
<1>1. list \in Seq(Item) /\ Len(list) \in Nat \ {0}
  BY DEF Playlist
<1>2. /\ SubSeq(list, start + 1, Len(list)) \in Seq(Item) /\ Len(SubSeq(list, start + 1, Len(list))) = Len(list) - start
      /\ SubSeq(list, 1, start) \in Seq(Item) /\ Len(SubSeq(list, 1, start)) = start
  BY <1>1
<1> DEFINE a == SubSeq(list, start + 1, Len(list))
           b == SubSeq(list, 1, start)
<1>3. Seated(list, start) = a \o b
  BY DEF Seated
<1> HIDE DEF a, b
<1>4. a \in Seq(Item) /\ b \in Seq(Item) /\ Len(a) = Len(list) - start /\ Len(b) = start
  BY <1>2 DEF a, b
<1>5. a \o b \in Seq(Item) /\ Len(a \o b) = Len(list)
  <2>1. a \o b \in Seq(Item) /\ Len(a \o b) = Len(a) + Len(b)
    BY <1>4
  <2> QED BY <1>1, <1>4, <2>1
<1>6. a \o b # <<>>
  BY <1>1, <1>5
<1> QED BY <1>3, <1>5, <1>6 DEF Playlist

-----------------------------------------------------------------------------
(* Rotations *)

\* The members of a sequence.
LEMMA MemberOf ==
    ASSUME NEW s, NEW x
    PROVE  x \in ToSet(s) <=> \E i \in DOMAIN s : s[i] = x
BY Zenon DEF ToSet

\* The first member visited is one of them.
LEMMA FirstOfIn ==
    ASSUME NEW D, NEW visits \in Seq(D), NEW members, NEW m \in members, m \in ToSet(visits)
    PROVE  FirstOf(visits, members) \in members
<1> DEFINE S == {i \in DOMAIN visits : visits[i] \in members}
<1>1. S \subseteq Nat
  OBVIOUS
<1>2. S # {}
  BY MemberOf
<1>3. Min(S) \in S
  <2> HIDE DEF S
  <2> QED BY <1>1, <1>2, LeastOf
<1> QED BY <1>3 DEF FirstOf

\* A last draw has a place, or none.
LEMMA LastDrawIn ==
    ASSUME NEW D, NEW recent \in Seq(D), NEW m
    PROVE  LastDraw(recent, m) \in Nat
<1> DEFINE S == {0} \cup {k \in DOMAIN recent : recent[k].member = m}
<1>1. S \subseteq 0..Len(recent) /\ S # {}
  OBVIOUS
<1>2. S \subseteq Nat /\ IsFiniteSet(S)
  <2>1. Len(recent) \in Nat /\ IsFiniteSet(0..Len(recent))
    BY FS_Interval
  <2> HIDE DEF S
  <2>2. IsFiniteSet(S)
    BY <1>1, <2>1, FS_Subset
  <2>3. S \subseteq Nat
    BY <1>1, <2>1
  <2> QED BY <2>2, <2>3
<1>3. Max(S) \in S
  <2> HIDE DEF S
  <2> QED BY <1>1, <1>2, GreatestOf
<1> QED BY <1>2, <1>3 DEF LastDraw

\* The member drawn longest ago is one of them.
LEMMA LeastRecentIn ==
    ASSUME NEW D, NEW recent \in Seq(D), NEW E, NEW visits \in Seq(E), NEW members, members # {}, members \subseteq ToSet(visits)
    PROVE  LeastRecent(recent, visits, members) \in members
<1> DEFINE Age(m) == LastDraw(recent, m)
           A == {Age(m) : m \in members}
           S == {m \in members : \A other \in members : Age(m) <= Age(other)}
<1>1. A \subseteq Nat /\ A # {}
  BY LastDrawIn
<1>2. Min(A) \in A /\ \A x \in A : Min(A) <= x
  <2> HIDE DEF A
  <2> QED BY <1>1, LeastOf
<1>3. PICK m \in members : Age(m) = Min(A)
  BY <1>2
<1>4. m \in S
  <2>1. \A other \in members : Age(other) \in A
    OBVIOUS
  <2> HIDE DEF A, Age
  <2> QED BY <1>2, <1>3, <2>1
<1>5. LeastRecent(recent, visits, members) = FirstOf(visits, S)
  BY DEF LeastRecent
<1>6. S \subseteq members
  OBVIOUS
<1> HIDE DEF S
<1>7. m \in ToSet(visits)
  BY <1>3
<1>8. FirstOf(visits, S) \in S
  BY <1>4, <1>7, FirstOfIn
<1> QED BY <1>5, <1>6, <1>8

\* Either way of picking picks a member.
LEMMA FirstOrLeastIn ==
    ASSUME NEW D, NEW recent \in Seq(D), NEW E, NEW visits \in Seq(E), NEW members, members # {}, members \subseteq ToSet(visits),
           NEW fitting, fitting \subseteq members
    PROVE  FirstOrLeast(fitting, recent, visits, members) \in members
<1>1. CASE fitting = {}
  BY <1>1, LeastRecentIn DEF FirstOrLeast
<1>2. CASE fitting # {}
  <2>1. PICK m : m \in fitting
    BY <1>2
  <2>2. FirstOf(visits, fitting) \in fitting
    BY <2>1, FirstOfIn
  <2> QED BY <1>2, <2>2 DEF FirstOrLeast
<1> QED BY <1>1, <1>2

DrawRecord == [member: Slots, at: Int]
RotationState == [recent: Seq(DrawRecord), drawn: SUBSET Slots, cycle: Nat]

\* A turn of a round-robin rotation names one of its members.
LEMMA RoundRobinIn ==
    ASSUME MixesNumbers, NEW rotation, ValidRotation(rotation, Slots), NEW state \in RotationState,
           NEW at \in Int, NEW base \in Nat
    PROVE  LET drawn == RoundRobin(rotation, state, at, base)
           IN  drawn.member \in ToSet(rotation.members) /\ drawn.drawn \in SUBSET Slots /\ drawn.cycle \in Nat
<1> DEFINE through == ToSet(rotation.members) \subseteq state.drawn
           cycle == state.cycle + (IF through THEN 1 ELSE 0)
           drawn == IF through THEN {} ELSE state.drawn
           visits == IF rotation.random THEN Shuffled(rotation.members, Mix(base, cycle)) ELSE rotation.members
           remaining == ToSet(visits) \ drawn
           fitting == {m \in remaining : IsEligible(state.recent, rotation.gap, m, at)}
           pick == FirstOrLeast(fitting, state.recent, visits, remaining)
<1>1. RoundRobin(rotation, state, at, base) = [member |-> pick, drawn |-> drawn \cup {pick}, cycle |-> cycle]
  BY Zenon DEF RoundRobin
<1>2. /\ rotation.members \in Seq(Slots) /\ rotation.members # <<>>
      /\ state.recent \in Seq(DrawRecord) /\ state.drawn \in SUBSET Slots /\ state.cycle \in Nat
  BY DEF ValidRotation, RotationState
<1>3. cycle \in Nat
  BY <1>2
<1> HIDE DEF cycle
<1>4. Mix(base, cycle) \in Nat
  BY <1>3 DEF MixesNumbers
<1>5. visits \in Seq(Slots) /\ ToSet(visits) = ToSet(rotation.members)
  BY <1>2, <1>4, ShuffledKeeps
<1>6. \A m \in ToSet(rotation.members) : m \in Slots
  BY <1>2 DEF ToSet
<1>7. ToSet(rotation.members) # {}
  <2>1. 1 \in DOMAIN rotation.members
    BY <1>2
  <2> QED BY <2>1 DEF ToSet
<1>8. remaining # {} /\ drawn \in SUBSET Slots
  BY <1>2, <1>5, <1>7
<1> HIDE DEF through, drawn, visits
<1>9. remaining \subseteq ToSet(visits) /\ fitting \subseteq remaining
  OBVIOUS
<1> HIDE DEF fitting
<1>10. pick \in remaining
  <2> HIDE DEF remaining
  <2> QED BY <1>2, <1>5, <1>8, <1>9, FirstOrLeastIn
<1> HIDE DEF pick
<1>11. pick \in ToSet(rotation.members) /\ pick \in Slots
  BY <1>5, <1>6, <1>9, <1>10
<1> QED BY <1>1, <1>3, <1>8, <1>11

\* A draw by weight names one of the members.
LEMMA ByWeightIn ==
    ASSUME MixesNumbers, NEW rotation, ValidRotation(rotation, Slots), NEW state \in RotationState,
           NEW at \in Int, NEW base \in Nat
    PROVE  LET drawn == ByWeight(rotation, state, at, base)
           IN  drawn.member \in ToSet(rotation.members) /\ drawn.drawn \in SUBSET Slots /\ drawn.cycle \in Nat
<1> DEFINE members == rotation.members
           fitting == {i \in DOMAIN members : IsEligible(state.recent, rotation.gap, members[i], at)}
           f == [i \in DOMAIN members |-> rotation.weight[members[i]]]
           Weight(some) == SumFunctionOnSet(f, some)
           roll == Mix(base, at) % Weight(fitting)
           Over == {i \in fitting : roll < Weight({j \in fitting : j <= i})}
           pick == IF fitting = {} THEN LeastRecent(state.recent, members, ToSet(members)) ELSE members[Min(Over)]
<1>1. ByWeight(rotation, state, at, base) = [member |-> pick, drawn |-> state.drawn, cycle |-> state.cycle]
  BY Zenon DEF ByWeight
<1>2. /\ members \in Seq(Slots) /\ members # <<>> /\ \A m \in ToSet(members) : rotation.weight[m] \in Nat \ {0}
      /\ state.recent \in Seq(DrawRecord) /\ state.drawn \in SUBSET Slots /\ state.cycle \in Nat
  BY DEF ValidRotation, RotationState
<1>3. DOMAIN members = 1..Len(members) /\ Len(members) \in Nat /\ \A i \in DOMAIN members : members[i] \in ToSet(members)
  BY <1>2 DEF ToSet
<1>4. \A i \in DOMAIN members : f[i] \in Nat \ {0}
  BY <1>2, <1>3
<1>5. CASE fitting = {}
  <2>1. ToSet(members) # {}
    BY <1>2, <1>3
  <2>2. pick \in ToSet(members)
    <3>1. pick = LeastRecent(state.recent, members, ToSet(members))
      BY <1>5
    <3> HIDE DEF pick, members
    <3>2. LeastRecent(state.recent, members, ToSet(members)) \in ToSet(members)
      BY <1>2, <2>1, LeastRecentIn
    <3> QED BY <3>1, <3>2
  <2> HIDE DEF pick
  <2> QED BY <1>1, <1>2, <2>2
<1>6. CASE fitting # {}
  <2>1. fitting \subseteq DOMAIN members /\ fitting \subseteq Nat /\ IsFiniteSet(fitting)
    <3>1. IsFiniteSet(DOMAIN members)
      BY <1>3, FS_Interval
    <3>2. fitting \subseteq DOMAIN members
      OBVIOUS
    <3> HIDE DEF fitting, f, members
    <3>3. IsFiniteSet(fitting)
      BY <3>1, <3>2, FS_Subset
    <3>4. fitting \subseteq Nat
      BY <1>3, <3>2
    <3> QED BY <3>2, <3>3, <3>4
  <2> HIDE DEF fitting, f
  <2>2. PICK i \in fitting : TRUE
    BY <1>6
  <2>3. Weight(fitting) \in Nat \ {0}
    <3>1. \A x \in fitting : f[x] \in Nat
      BY <1>4, <2>1
    <3>2. Weight(fitting) = f[i] + Weight(fitting \ {i})
      BY <2>1, <2>2, <3>1, SumOf
    <3>3. Weight(fitting \ {i}) \in Nat
      <4>1. IsFiniteSet(fitting \ {i})
        BY <2>1, FS_Subset
      <4> QED BY <3>1, <4>1, SumType
    <3>4. f[i] \in Nat \ {0}
      BY <1>4, <2>1, <2>2
    <3> QED BY <3>2, <3>3, <3>4
  <2>4. Mix(base, at) \in Nat
    BY DEF MixesNumbers
  <2>5. roll \in Nat /\ roll < Weight(fitting)
    <3> HIDE DEF Weight
    <3>1. roll \in 0..(Weight(fitting) - 1)
      BY <2>3, <2>4
    <3> HIDE DEF roll
    <3> QED BY <2>3, <3>1
  <2> HIDE DEF roll
  <2>6. Max(fitting) \in fitting /\ \A x \in fitting : x <= Max(fitting)
    BY <1>6, <2>1, GreatestOf
  <2>7. {j \in fitting : j <= Max(fitting)} = fitting
    BY <2>6
  <2>8. Max(fitting) \in Over
    BY <2>5, <2>6, <2>7
  <2>9. Over \subseteq fitting
    OBVIOUS
  <2> HIDE DEF Over
  <2>10. Min(Over) \in fitting
    <3>1. Over \subseteq Nat /\ Over # {}
      BY <2>1, <2>8, <2>9
    <3> QED BY <2>9, <3>1, LeastOf
  <2>11. pick \in ToSet(members)
    BY <1>3, <1>6, <2>1, <2>10
  <2> HIDE DEF pick
  <2> QED BY <1>1, <1>2, <2>11
<1> QED BY <1>5, <1>6

\* Trimming keeps draws.
LEMMA TrimmedIn ==
    ASSUME NEW D, NEW recent \in Seq(D), NEW gap, NEW at
    PROVE  Trimmed(recent, gap, at) \in Seq(D)
<1> DEFINE surplus == Len(recent) - RecentCap
           beyond == IF gap.duration > 0
                     THEN {k \in 0..surplus : \A j \in 1..k : recent[j].at < at - gap.duration}
                     ELSE 0..(Len(recent) - Max({RecentCap, gap.positions}))
           S == {0} \cup (beyond \cap (0..surplus))
           gone == Max(S)
<1>1. Trimmed(recent, gap, at) = SubSeq(recent, gone + 1, Len(recent))
  BY Zenon DEF Trimmed
<1> HIDE DEF beyond
<1>2. Len(recent) \in Nat /\ surplus \in Int /\ surplus <= Len(recent)
  BY ResolverAssumption
<1>3. S \subseteq 0..Len(recent) /\ 0 \in S
  BY <1>2
<1>4. IsFiniteSet(0..Len(recent))
  BY <1>2, FS_Interval
<1>5. gone \in Nat
  <2> HIDE DEF S
  <2>2. IsFiniteSet(S)
    BY <1>3, <1>4, FS_Subset
  <2>3. S \subseteq Nat /\ S # {}
    BY <1>2, <1>3
  <2>4. gone \in S
    BY <2>2, <2>3, GreatestOf
  <2> QED BY <2>3, <2>4
<1> HIDE DEF gone
<1>6. SubSeq(recent, gone + 1, Len(recent)) \in Seq(D)
  BY <1>5
<1> QED BY <1>1, <1>6

\* One more draw.
LEMMA OneMore ==
    ASSUME NEW D, NEW s \in Seq(D), NEW d \in D
    PROVE  /\ Append(s, d) \in Seq(D) /\ Append(s, d) # <<>>
           /\ Append(s, d)[1] = IF s = <<>> THEN d ELSE s[1]
<1>1. Append(s, d) \in Seq(D) /\ Len(Append(s, d)) = Len(s) + 1 /\ Len(s) \in Nat
  OBVIOUS
<1>2. Append(s, d) # <<>>
  BY <1>1
<1>3. Append(s, d)[1] = IF s = <<>> THEN d ELSE s[1]
  OBVIOUS
<1> QED BY <1>1, <1>2, <1>3

\* A draw as the ledger has it.
DrawStep == [rotation: Rotations, member: Slots]

\* A chain that starts at the slot the schedule placed.
ChainFrom(slot) ==
    {c \in [slot: Slots \cup {AnyTime}, draws: Seq(DrawStep), rotations: [Rotations -> RotationState]] :
        IF c.draws = <<>> THEN c.slot = slot ELSE c.draws[1].rotation = slot}

\* A draw names one of the members of the rotation.
LEMMA DrawIn ==
    ASSUME MixesNumbers, Valid(channel), NEW at \in Int, NEW slot, NEW chain \in ChainFrom(slot), IsRotation(chain.slot)
    PROVE  /\ Draw(at, chain) \in ChainFrom(slot)
           /\ Draw(at, chain).slot \in ToSet(channel.slots[chain.slot].members)
<1> DEFINE name == chain.slot
           rotation == channel.slots[name]
           state == chain.rotations[name]
           known == Already(state, rotation, at)
           base == Mix(SeedAt(at), rotation.salt)
           drawn == IF rotation.select = "random" THEN ByWeight(rotation, state, at, base)
                                                  ELSE RoundRobin(rotation, state, at, base)
           recent == Append(state.recent, [member |-> drawn.member, at |-> at])
           member == IF known # {} THEN state.recent[Min(known)].member ELSE drawn.member
           after == [recent |-> Trimmed(recent, rotation.gap, at), drawn |-> drawn.drawn, cycle |-> drawn.cycle]
           rotations == IF known # {} THEN chain.rotations ELSE [chain.rotations EXCEPT ![name] = after]
           draws == Append(chain.draws, [rotation |-> name, member |-> member])
<1>1. Draw(at, chain) = [slot |-> member, draws |-> draws, rotations |-> rotations]
  BY Zenon DEF Draw
<1>2. /\ chain.draws \in Seq(DrawStep) /\ chain.rotations \in [Rotations -> RotationState]
      /\ IF chain.draws = <<>> THEN name = slot ELSE chain.draws[1].rotation = slot
  BY DEF ChainFrom
<1>3. name \in Rotations /\ name \in Slots /\ ValidRotation(rotation, Slots)
  BY DEF IsRotation, Rotations, Valid, EntrySlot, Slots
<1>4. state \in RotationState
  BY <1>2, <1>3
<1>5. rotation.salt \in Nat /\ SeedAt(at) \in Nat
  BY <1>3, SeedIn DEF ValidRotation
<1>6. base \in Nat
  BY <1>5 DEF MixesNumbers
<1>7. ToSet(rotation.members) \subseteq Slots
  BY <1>3 DEF ValidRotation, ToSet
<1> HIDE DEF base, state, rotation
<1>8. drawn.member \in ToSet(rotation.members) /\ drawn.drawn \in SUBSET Slots /\ drawn.cycle \in Nat
  BY <1>3, <1>4, <1>6, RoundRobinIn, ByWeightIn
<1> HIDE DEF drawn
<1>9. known # {} => member \in ToSet(rotation.members)
  <2> SUFFICES ASSUME known # {} PROVE member \in ToSet(rotation.members)
    OBVIOUS
  <2>1. state.recent \in Seq(DrawRecord)
    BY <1>4 DEF RotationState
  <2>2. known \subseteq DOMAIN state.recent /\ \A k \in known : state.recent[k].member \in ToSet(rotation.members)
    BY DEF Already
  <2>3. known \subseteq Nat
    BY <2>1, <2>2
  <2> HIDE DEF known
  <2>4. Min(known) \in known
    BY <2>3, LeastOf
  <2> QED BY <2>2, <2>4
<1>10. member \in ToSet(rotation.members) /\ member \in Slots
  BY <1>7, <1>8, <1>9
<1>11. rotations \in [Rotations -> RotationState]
  <2>1. recent \in Seq(DrawRecord)
    <3>1. state.recent \in Seq(DrawRecord)
      BY <1>4 DEF RotationState
    <3>2. [member |-> drawn.member, at |-> at] \in DrawRecord
      BY <1>7, <1>8 DEF DrawRecord
    <3> QED BY <3>1, <3>2
  <2> HIDE DEF recent
  <2>2. Trimmed(recent, rotation.gap, at) \in Seq(DrawRecord)
    BY <2>1, TrimmedIn
  <2>3. after \in RotationState
    BY <1>8, <2>2 DEF RotationState
  <2> HIDE DEF after
  <2> QED BY <1>2, <2>3
<1> HIDE DEF member, rotations, known
<1>12. draws \in Seq(DrawStep) /\ draws # <<>> /\ draws[1].rotation = slot
  <2> DEFINE d == [rotation |-> name, member |-> member]
  <2>1. d \in DrawStep /\ d.rotation = name
    BY <1>3, <1>10 DEF DrawStep
  <2> HIDE DEF d
  <2>2. /\ Append(chain.draws, d) \in Seq(DrawStep) /\ Append(chain.draws, d) # <<>>
        /\ Append(chain.draws, d)[1] = IF chain.draws = <<>> THEN d ELSE chain.draws[1]
    BY <1>2, <2>1, OneMore
  <2> QED BY <1>2, <2>1, <2>2 DEF d
<1> HIDE DEF draws, name
<1>13. Draw(at, chain) \in ChainFrom(slot) /\ Draw(at, chain).slot = member
  BY <1>1, <1>10, <1>11, <1>12 DEF ChainFrom
<1> QED BY <1>10, <1>13 DEF rotation, name

\* The draws end at a list: a rotation is never among its own members, however far down.
LEMMA DrawnIn ==
    ASSUME MixesNumbers, Valid(channel), NEW on, on.slot \in Slots \cup {AnyTime},
           IsRotation(on.slot) => \E p \in Int : on.placement = {p},
           NEW rotations \in [Rotations -> RotationState]
    PROVE  Drawn(on, rotations) \in ChainFrom(on.slot) /\ IsList(Drawn(on, rotations).slot)
<1> DEFINE n == Cardinality(Rotations)
           V == ChainFrom(on.slot)
           x == [slot |-> on.slot, draws |-> <<>>, rotations |-> rotations]
           Step(k, c) == IF IsRotation(c.slot) THEN Draw(Min(on.placement), c) ELSE c
           s == [p \in (1..n) \X V |-> Step(p[1], p[2])]
           F(g) == [k \in 0..n |-> IF k = 0 THEN [slot |-> on.slot, draws |-> <<>>, rotations |-> rotations]
                                   ELSE IF IsRotation(g[k - 1].slot) THEN Draw(Min(on.placement), g[k - 1])
                                   ELSE g[k - 1]]
           h == CHOOSE g : g = F(g)
<1>1. Drawn(on, rotations) = h[n]
  BY DEF Drawn
<1>2. IsFiniteSet(Rotations) /\ n \in Nat
  <2>1. IsFiniteSet(Slots)
    BY DEF Valid, Slots
  <2>2. Rotations \subseteq Slots
    BY DEF Rotations
  <2>3. IsFiniteSet(Rotations)
    BY <2>1, <2>2, FS_Subset
  <2> QED BY <2>3, FS_CardinalityType
<1>3. x \in V
  BY DEF ChainFrom
<1>4. ASSUME NEW c \in V, IsRotation(c.slot)
      PROVE  Draw(Min(on.placement), c) \in V /\ Draw(Min(on.placement), c).slot \in ToSet(channel.slots[c.slot].members)
  <2>1. IsRotation(on.slot)
    <3>1. /\ c.draws \in Seq(DrawStep)
          /\ IF c.draws = <<>> THEN c.slot = on.slot ELSE c.draws[1].rotation = on.slot
      BY DEF ChainFrom
    <3>2. CASE c.draws # <<>>
      <4>1. c.draws[1] \in DrawStep
        BY <3>1, <3>2
      <4> QED BY <3>1, <3>2, <4>1 DEF DrawStep, Rotations
    <3> QED BY <1>4, <3>1, <3>2
  <2>2. PICK p \in Int : on.placement = {p}
    BY <2>1
  <2>3. Min(on.placement) = p
    BY <2>2 DEF Min
  <2> QED BY <1>4, <2>3, DrawIn
<1>5. \A g : F(g) = [k \in 0..n |-> IF k = 0 THEN x ELSE Step(k, g[k - 1])]
  BY Zenon
<1>6. \A k : \A c \in V : Step(k, c) \in V
  BY <1>4
<1> HIDE DEF n, V, x, F
<1>7. \A k \in 1..n : \A v \in V : s[<<k, v>>] = Step(k, v)
  <2> HIDE DEF Step
  <2> QED OBVIOUS
<1> HIDE DEF s
<1>8. \A k \in 1..n : \A v \in V : s[<<k, v>>] \in V
  <2> HIDE DEF Step
  <2> SUFFICES ASSUME NEW k \in 1..n, NEW v \in V PROVE s[<<k, v>>] \in V
    BY Zenon
  <2>1. s[<<k, v>>] = Step(k, v)
    BY <1>7
  <2>2. Step(k, v) \in V
    BY <1>6
  <2> QED BY <2>1, <2>2
<1>9. PICK g : Repeats(g, x, s, V, n)
  BY <1>2, <1>3, <1>8, Repeating
<1>10. \A k \in 0..n : k # 0 => k \in 1..n /\ k - 1 \in 0..n
  BY <1>2
<1>11. \A k \in 0..n : g[k] = IF k = 0 THEN x ELSE Step(k, g[k - 1])
  <2> HIDE DEF Step
  <2> QED BY <1>7, <1>9, <1>10 DEF Repeats
<1>12. g = F(g)
  <2> HIDE DEF Step
  <2> QED BY <1>5, <1>9, <1>11 DEF Repeats
<1>13. h = F(h)
  BY <1>12
<1> HIDE DEF h
<1>14. \A k \in 0..n : h[k] = IF k = 0 THEN x ELSE Step(k, h[k - 1])
  <2> HIDE DEF Step
  <2> QED BY <1>5, <1>13
<1> DEFINE C == {k \in 0..n : h[k] \in V}
<1>15. \A k \in 0..n : k \in C
  <2>1. 0 \in C
    BY <1>2, <1>3, <1>14
  <2>2. ASSUME NEW k \in 1..n, k - 1 \in C PROVE k \in C
    <3> HIDE DEF Step
    <3> QED BY <1>6, <1>10, <1>14, <2>2
  <2> HIDE DEF C
  <2> QED BY <1>2, <2>1, <2>2, UpTo
<1>16. PICK height \in [Rotations -> 1..n] :
          \A r \in Rotations : \A m \in ToSet(channel.slots[r].members) \cap Rotations : height[m] < height[r]
  <2>1. Rotations = {r \in DOMAIN channel.slots : channel.slots[r].kind = "rotation"}
    BY DEF Rotations, IsRotation, Slots
  <2> QED BY <2>1 DEF Valid, ValidRotations, n
<1> DEFINE D == {k \in 0..n : IsRotation(h[k].slot) => height[h[k].slot] <= n - k}
<1>17. \A k \in 0..n : k \in D
  <2>0. \A r : IsRotation(r) => r \in Rotations
    BY DEF IsRotation, Rotations
  <2>1. 0 \in D
    <3>1. h[0] = x
      BY <1>2, <1>14
    <3>2. IsRotation(h[0].slot) => height[h[0].slot] \in 1..n
      BY <2>0
    <3> QED BY <1>2, <3>2
  <2>2. ASSUME NEW k \in 1..n, k - 1 \in D PROVE k \in D
    <3> SUFFICES ASSUME IsRotation(h[k].slot) PROVE height[h[k].slot] <= n - k
      BY <1>10
    <3>1. h[k - 1] \in V /\ h[k] = Step(k, h[k - 1])
      BY <1>10, <1>14, <1>15
    <3>2. IsRotation(h[k - 1].slot)
      BY <3>1
    <3>3. h[k].slot \in ToSet(channel.slots[h[k - 1].slot].members)
      BY <1>4, <3>1, <3>2
    <3>4. height[h[k].slot] < height[h[k - 1].slot]
      BY <1>16, <2>0, <3>2, <3>3
    <3>5. height[h[k - 1].slot] <= n - (k - 1)
      BY <2>2, <3>2
    <3>6. height[h[k].slot] \in Int /\ height[h[k - 1].slot] \in Int
      BY <2>0, <3>2
    <3> HIDE DEF Step
    <3> QED BY <1>2, <3>4, <3>5, <3>6
  <2> HIDE DEF D
  <2> QED BY <1>2, <2>1, <2>2, UpTo
<1>18. h[n] \in V /\ ~IsRotation(h[n].slot)
  <2>1. n \in 0..n
    BY <1>2
  <2>2. h[n] \in V /\ (IsRotation(h[n].slot) => height[h[n].slot] <= n - n)
    BY <1>15, <1>17, <2>1
  <2>3. IsRotation(h[n].slot) => height[h[n].slot] \in 1..n
    BY DEF IsRotation, Rotations
  <2> QED BY <1>2, <2>2, <2>3
<1>19. IsList(h[n].slot)
  BY <1>18 DEF IsList, ChainFrom, V
<1> QED BY <1>1, <1>18, <1>19 DEF V

-----------------------------------------------------------------------------
(* The state a rewind restores *)

Positions == UNION {[S -> Nat] : S \in SUBSET Slots}
ResumeState == [position: Nat, slots: Positions, rotations: [Rotations -> RotationState]]
CheckpointRecord == [start: Nat, state: ResumeState]

LayingOK ==
    /\ laying.from \in Nat /\ laying.start \in Nat /\ laying.total \in Nat \ {0}
    /\ IsList(laying.slot)
    /\ laying.draws \in Seq(DrawStep) /\ laying.rotations \in [Rotations -> RotationState]
    /\ Scheduled(laying) = OnAir(laying.from).slot
    /\ laying.placement = OnAir(laying.from).placement

\* The state behind what aired can be resumed.
LEMMA AfterIn ==
    ASSUME LayingOK, resume \in ResumeState, NEW aired \in Nat
    PROVE  After(aired) \in ResumeState
<1> DEFINE position == (laying.start + aired) % laying.total
           drawn == [resume EXCEPT !.rotations = laying.rotations]
           slots == SeatedAt(laying.slot, position)
<1>1. position \in Nat
  <2>1. laying.start + aired \in Nat /\ laying.total \in Nat \ {0}
    BY DEF LayingOK
  <2> QED BY <2>1
<1> HIDE DEF position
<1>2. drawn \in ResumeState
  BY DEF LayingOK, ResumeState
<1> HIDE DEF drawn
<1>3. CASE laying.slot = AnyTime
  <2>1. After(aired) = [drawn EXCEPT !.position = position]
    BY <1>3 DEF After, drawn, position
  <2> QED BY <1>1, <1>2, <2>1 DEF ResumeState
<1>4. CASE laying.slot # AnyTime
  <2>1. After(aired) = [drawn EXCEPT !.slots = slots]
    BY <1>4 DEF After, drawn, position
  <2>2. PICK S \in SUBSET Slots : resume.slots \in [S -> Nat]
    BY DEF ResumeState, Positions
  <2>3. laying.slot \in Slots
    BY <1>4 DEF LayingOK, IsList
  <2>4. slots \in [S \cup {laying.slot} -> Nat]
    BY <1>1, <2>2 DEF SeatedAt
  <2>5. slots \in Positions
    <3>1. S \cup {laying.slot} \in SUBSET Slots
      BY <2>3
    <3> HIDE DEF slots
    <3> QED BY <2>4, <3>1, Zenon DEF Positions
  <2> HIDE DEF slots
  <2> QED BY <1>2, <2>1, <2>5 DEF ResumeState
<1> QED BY <1>3, <1>4

\* The state entering an item can be resumed.
LEMMA EnteringIn ==
    ASSUME LayingOK, resume \in ResumeState, NEW n \in Nat, order \in Seq(1..n), NEW k \in 1..Len(order)
    PROVE  Entering(k) \in ResumeState
<1> DEFINE S == {0} \cup {order[j] : j \in 1..(k - 1)}
<1>1. \A j \in 1..(k - 1) : order[j] \in 1..n
  OBVIOUS
<1>2. S \subseteq 0..n /\ S # {}
  BY <1>1
<1>3. S \subseteq Nat /\ IsFiniteSet(S)
  <2> HIDE DEF S
  <2>1. IsFiniteSet(0..n)
    BY FS_Interval
  <2>2. IsFiniteSet(S)
    BY <1>2, <2>1, FS_Subset
  <2>3. S \subseteq Nat
    BY <1>2
  <2> QED BY <2>2, <2>3
<1>4. Max(S) \in Nat
  <2> HIDE DEF S
  <2> QED BY <1>2, <1>3, GreatestOf
<1>5. Entering(k) = After(Max(S))
  BY DEF Entering
<1> HIDE DEF S
<1> QED BY <1>4, <1>5, AfterIn

\* One more state to rewind to.
LEMMA CheckpointIn ==
    ASSUME NEW D, NEW trail \in Seq(D), NEW start, NEW state, [start |-> start, state |-> state] \in D
    PROVE  CheckpointAt(trail, start, state) \in Seq(D)
<1>1. Append(trail, [start |-> start, state |-> state]) \in Seq(D)
  OBVIOUS
<1>2. CheckpointAt(trail, start, state) \in {trail, Append(trail, [start |-> start, state |-> state])}
  BY Zenon DEF CheckpointAt
<1> QED BY <1>1, <1>2

\* The states to rewind to can be resumed.
LEMMA TrailIn ==
    ASSUME LayingOK, resume \in ResumeState, NEW m \in Nat, order \in Seq(1..m), checkpoints \in Seq(CheckpointRecord),
           \A k \in 1..Len(order) : StartOf(k) \in Nat
    PROVE  Trail \in Seq(CheckpointRecord)
<1> DEFINE n == Len(order)
           V == Seq(CheckpointRecord)
           Step(k, l) == CheckpointAt(l, StartOf(k), Entering(k))
           s == [p \in (1..n) \X V |-> Step(p[1], p[2])]
           F(g) == [k \in 0..n |-> IF k = 0 THEN checkpoints ELSE CheckpointAt(g[k - 1], StartOf(k), Entering(k))]
           h == CHOOSE g : g = F(g)
<1>1. Trail = h[n]
  BY DEF Trail
<1>2. n \in Nat /\ checkpoints \in V
  OBVIOUS
<1>3. ASSUME NEW k \in 1..n, NEW l \in V PROVE Step(k, l) \in V
  <2>1. Entering(k) \in ResumeState /\ StartOf(k) \in Nat
    BY EnteringIn
  <2>2. [start |-> StartOf(k), state |-> Entering(k)] \in CheckpointRecord
    BY <2>1 DEF CheckpointRecord
  <2> QED BY <2>2, CheckpointIn
<1>4. \A g : F(g) = [i \in 0..n |-> IF i = 0 THEN checkpoints ELSE Step(i, g[i - 1])]
  OBVIOUS
<1> HIDE DEF V, n, Step, F
<1>5. \A k \in 1..n : \A v \in V : s[<<k, v>>] = Step(k, v)
  OBVIOUS
<1> HIDE DEF s
<1>6. \A k \in 1..n : \A v \in V : s[<<k, v>>] \in V
  BY <1>3, <1>5, Zenon
<1>7. PICK g : Repeats(g, checkpoints, s, V, n)
  BY <1>2, <1>6, Repeating
<1>8. \A k \in 0..n : k # 0 => k \in 1..n /\ k - 1 \in 0..n
  BY <1>2
<1>9. \A k \in 0..n : g[k] = IF k = 0 THEN checkpoints ELSE Step(k, g[k - 1])
  BY <1>5, <1>7, <1>8 DEF Repeats
<1>10. g = F(g)
  BY <1>4, <1>7, <1>9 DEF Repeats
<1>11. h = F(h)
  BY <1>10
<1> HIDE DEF h
<1> DEFINE C == {k \in 0..n : h[k] \in V}
<1>12. \A k \in 0..n : h[k] = IF k = 0 THEN checkpoints ELSE Step(k, h[k - 1])
  BY <1>4, <1>11
<1>13. 0 \in C
  BY <1>2, <1>12
<1>14. ASSUME NEW k \in 1..n, k - 1 \in C PROVE k \in C
  <2>1. h[k - 1] \in V /\ h[k] = Step(k, h[k - 1])
    BY <1>8, <1>12, <1>14
  <2>2. h[k] \in V
    BY <1>3, <2>1
  <2> QED BY <1>8, <2>2
<1> HIDE DEF C
<1>15. \A k \in 0..n : k \in C
  BY <1>2, <1>13, <1>14, UpTo
<1>16. h[n] \in V
  BY <1>2, <1>15 DEF C
<1> QED BY <1>1, <1>16 DEF V

\* A rotation that forgets draws is one all the same.
LEMMA ForgottenIn ==
    ASSUME NEW state \in RotationState, NEW cut
    PROVE  Forgotten(state, cut) \in RotationState
<1> DEFINE n == Len(state.recent)
           C == {0} \cup {k \in DOMAIN state.recent : state.recent[k].at < cut}
           kept == SubSeq(state.recent, 1, Max(C))
           gone == {state.recent[k].member : k \in (Len(kept) + 1)..Len(state.recent)}
<1>1. state.recent \in Seq(DrawRecord) /\ state.drawn \in SUBSET Slots
  BY DEF RotationState
<1>2. Max(C) \in 0..n
  <2>1. C \subseteq 0..n /\ C # {} /\ n \in Nat
    BY <1>1
  <2> HIDE DEF C, n
  <2>2. IsFiniteSet(0..n)
    BY <2>1, FS_Interval
  <2>3. IsFiniteSet(C)
    BY <2>1, <2>2, FS_Subset
  <2>4. C \subseteq Nat
    BY <2>1
  <2> QED BY <2>1, <2>3, <2>4, GreatestOf
<1>3. Forgotten(state, cut) = [state EXCEPT !.recent = kept, !.drawn = @ \ gone]
  BY Zenon DEF Forgotten
<1> HIDE DEF C
<1>4. kept \in Seq(DrawRecord)
  BY <1>1, <1>2
<1> HIDE DEF kept, gone
<1>5. state.drawn \ gone \in SUBSET Slots
  BY <1>1
<1> QED BY <1>3, <1>4, <1>5 DEF RotationState

-----------------------------------------------------------------------------
(* What a channel may be doing *)

\* A generation as the calendar and the rotations place it.
Layings ==
    {l \in [slot: Slots \cup {AnyTime}, draws: Seq(DrawStep), placement: SUBSET Int,
            rotations: [Rotations -> RotationState], from: Nat, start: Nat, total: Nat \ {0}] :
        IsList(l.slot) /\ Scheduled(l) = OnAir(l.from).slot /\ l.placement = OnAir(l.from).placement}

\* Its list, cut to the time its slot and its seed are on.
Cut(l) ==
    {list \in Seq(Item) :
        \A n \in DOMAIN list :
            LET t == l.from + Runtime(list, n - 1)
            IN  OnAir(t) = OnAir(l.from) /\ (LaysSeededList => SeedAt(t) = SeedAt(l.from))}

\* What an item that aired says of itself, and that it aired in time.
LedgerRow == [start: Nat, finish: Nat, item: Item, slot: Slots \cup {AnyTime}, draws: Seq(DrawStep),
              placement: SUBSET Int, from: Nat, seat: Nat, total: Nat, offset: Nat, bound: BOOLEAN]

AirsInTime(row) ==
    LET claims == Claims(row.start)
    IN  /\ IF claims = {} THEN Scheduled(row) = AnyTime
           ELSE \E c \in claims :
                   /\ c.slot = Scheduled(row) /\ (row.placement = {} \/ row.placement = {c.start})
                   /\ \A d \in claims : Above(c.of, d.of)
        /\ LaysSeededList => SeedAt(row.start) = SeedAt(row.from)

Airing == {row \in LedgerRow : ~row.bound => AirsInTime(row)}

\* The calendar is that of the channel, which stays.
LEMMA OnAirSame == ASSUME channel' = channel, NEW t PROVE OnAir(t)' = OnAir(t)
BY DEF OnAir, Hits, Above, IsRotation, Slots

LEMMA ListsSame ==
    ASSUME channel' = channel
    PROVE  /\ Slots' = Slots /\ Rotations' = Rotations /\ (LaysSeededList' <=> LaysSeededList)
           /\ \A s : (IsList(s)' <=> IsList(s)) /\ (IsRotation(s)' <=> IsRotation(s))
BY DEF Slots, Rotations, LaysSeededList, IsList, IsRotation

LEMMA ClaimsSame ==
    ASSUME channel' = channel, NEW t
    PROVE  Claims(t)' = Claims(t) /\ \A g, h : Above(g, h)' <=> Above(g, h)
BY DEF Claims, Above

LEMMA RecordsSame ==
    ASSUME channel' = channel
    PROVE  /\ DrawRecord' = DrawRecord /\ DrawStep' = DrawStep /\ RotationState' = RotationState
           /\ ResumeState' = ResumeState /\ CheckpointRecord' = CheckpointRecord /\ LedgerRow' = LedgerRow
BY DEF Slots, Rotations, IsRotation, DrawRecord, DrawStep, RotationState, Positions, ResumeState, CheckpointRecord, LedgerRow

LEMMA LayingsSame == ASSUME channel' = channel PROVE Layings' = Layings
BY OnAirSame, ListsSame, RecordsSame DEF Layings

LEMMA CutSame == ASSUME channel' = channel, NEW l PROVE Cut(l)' = Cut(l)
BY OnAirSame, ListsSame DEF Cut

LEMMA AiringSame == ASSUME channel' = channel PROVE Airing' = Airing
<1>1. \A row : AirsInTime(row)' <=> AirsInTime(row)
  BY ClaimsSame, ListsSame DEF AirsInTime
<1> QED BY <1>1, RecordsSame DEF Airing

-----------------------------------------------------------------------------
(* The invariant *)

\* What the channel keeps is of its kind; what aired, aired in time.
StateOK ==
    /\ channel \in Channels /\ now \in Nat /\ frontier \in Nat /\ rewinds \in 0..channel.rewound
    /\ resume \in ResumeState /\ checkpoints \in Seq(CheckpointRecord)
    /\ ledger \in Seq(Airing) /\ seams \in SUBSET (0..Len(ledger))

\* What aired is in order, and the schedule is laid to its end.
Ordered ==
    \A i \in DOMAIN ledger :
        /\ ledger[i].start <= ledger[i].finish /\ ledger[i].finish <= frontier
        /\ \A j \in DOMAIN ledger : i < j => ledger[i].finish <= ledger[j].start

\* The generation in flight starts at the frontier with a list cut to its time, and a list
\* that nothing limits leaves the pass as it came.
InFlight ==
    phase # "idle" =>
        /\ laying \in Layings /\ laying.from = frontier /\ items \in Cut(laying)
        /\ phase = "repairing" => ~IsUnconstrained(Widest(items))
        /\ phase = "done" /\ IsUnconstrained(Widest(items)) => order = AsItCame

ResolverInv == StateOK /\ Ordered /\ InFlight /\ PassInv

\* A channel that has laid nothing.
LEMMA InitInv ==
    ASSUME Init
    PROVE  ResolverInv
<1>1. /\ channel \in Channels /\ now = 0 /\ frontier = 0 /\ checkpoints = <<>> /\ ledger = <<>>
      /\ seams = {} /\ rewinds = 0 /\ phase = "idle" /\ IdlePass
      /\ resume = [position |-> 0, slots |-> <<>>,
                   rotations |-> [s \in Rotations |-> [recent |-> <<>>, drawn |-> {}, cycle |-> 0]]]
  BY DEF Init, IdlePass
<1>2. channel.rewound \in Nat
  BY <1>1, ResolverAssumption DEF Valid
<1>3. resume \in ResumeState
  <2>1. <<>> \in Positions
    <3>1. <<>> \in [{} -> Nat]
      OBVIOUS
    <3> QED BY <3>1 DEF Positions
  <2>2. [recent |-> <<>>, drawn |-> {}, cycle |-> 0] \in RotationState
    BY DEF RotationState
  <2> QED BY <1>1, <2>1, <2>2 DEF ResumeState
<1>4. StateOK
  BY <1>1, <1>2, <1>3 DEF StateOK
<1>5. Ordered /\ InFlight
  BY <1>1 DEF Ordered, InFlight
<1> QED BY <1>1, <1>4, <1>5, IdleCounts DEF ResolverInv

\* The calendar places a slot, a rotation in a placement of its own.
LEMMA PlacesOne ==
    ASSUME Valid(channel), NEW t \in Nat
    PROVE  /\ OnAir(t).slot \in Slots \cup {AnyTime} /\ OnAir(t).placement \in SUBSET Int
           /\ IsRotation(OnAir(t).slot) => \E p \in Int : OnAir(t).placement = {p}
<1>1. ByPlacements(t)
  BY OnAir_ByPlacements
<1>2. CASE Claims(t) = {}
  <2>1. ~IsRotation(AnyTime)
    BY DEF IsRotation, Slots, Valid
  <2> QED BY <1>1, <1>2, <2>1 DEF ByPlacements
<1>3. CASE Claims(t) # {}
  <2>1. PICK c \in Claims(t) :
            /\ c.slot = OnAir(t).slot /\ c.slot \in Slots /\ c.start \in Int
            /\ OnAir(t).placement = IF IsRotation(c.slot) THEN {c.start} ELSE {}
    BY <1>1, <1>3 DEF ByPlacements
  <2> QED BY <2>1
<1> QED BY <1>2, <1>3

\* A slot with a position.
LEMMA PositionIn ==
    ASSUME resume \in ResumeState, NEW slot \in DOMAIN resume.slots
    PROVE  resume.slots[slot] \in Nat
<1>1. PICK S \in SUBSET Slots : resume.slots \in [S -> Nat]
  BY DEF ResumeState, Positions
<1> QED BY <1>1

\* A generation lays a list the channel names, seated at its position and cut to the time.
LEMMA GenerateInv ==
    ASSUME MixesNumbers, ResolverInv, Generate
    PROVE  ResolverInv'
<1> DEFINE on == OnAir(frontier)
           drawn == Drawn(on, resume.rotations)
           list == List(drawn.slot, SeedAt(frontier))
           position == IF drawn.slot = AnyTime THEN resume.position
                       ELSE IF drawn.slot \in DOMAIN resume.slots THEN resume.slots[drawn.slot] ELSE 0
           start == position % Len(list)
           seated == Seated(list, start)
           fill == Fill(frontier)
           cover == ItemsCovering(seated, fill)
           handed == SubSeq(seated, 1, cover)
           l == [slot |-> drawn.slot, draws |-> drawn.draws, placement |-> on.placement,
                 rotations |-> drawn.rotations, from |-> frontier, start |-> start, total |-> Len(list)]
<1>1. /\ phase = "idle" /\ frontier < now + Window /\ laying' = l /\ Begin(handed, Aired)
      /\ checkpoints' = Append(checkpoints, [start |-> frontier, state |-> resume])
      /\ channel' = channel /\ now' = now /\ frontier' = frontier /\ resume' = resume
      /\ ledger' = ledger /\ seams' = seams /\ rewinds' = rewinds
  BY Zenon DEF Generate
<1>2. /\ channel \in Channels /\ now \in Nat /\ frontier \in Nat /\ resume \in ResumeState
      /\ checkpoints \in Seq(CheckpointRecord) /\ ledger \in Seq(Airing)
  BY DEF ResolverInv, StateOK
<1>3. Valid(channel)
  BY <1>2, ResolverAssumption
<1>4. /\ on.slot \in Slots \cup {AnyTime} /\ on.placement \in SUBSET Int
      /\ IsRotation(on.slot) => \E p \in Int : on.placement = {p}
  BY <1>2, <1>3, PlacesOne
<1>5. drawn \in ChainFrom(on.slot) /\ IsList(drawn.slot)
  <2>1. resume.rotations \in [Rotations -> RotationState]
    BY <1>2 DEF ResumeState
  <2> HIDE DEF on
  <2> QED BY <1>3, <1>4, <2>1, DrawnIn
<1> HIDE DEF drawn
<1>6. list \in Playlist
  <2>1. frontier \in Int
    BY <1>2
  <2>2. SeedAt(frontier) \in Nat
    BY <2>1, SeedIn
  <2> QED BY <1>3, <1>5, <2>2, ListIn
<1> HIDE DEF list
<1>7. Len(list) \in Nat \ {0} /\ list \in Seq(Item)
  BY <1>6 DEF Playlist
<1>8. position \in Nat
  BY <1>2, PositionIn DEF ResumeState
<1> HIDE DEF position
<1>9. start \in 0..(Len(list) - 1)
  BY <1>7, <1>8
<1> HIDE DEF start
<1>10. seated \in Playlist /\ seated \in Seq(Item)
  BY <1>6, <1>9, SeatedIn DEF Playlist
<1> HIDE DEF seated
<1>11. /\ fill \in Nat \ {0}
       /\ \A t \in Nat : frontier <= t /\ t < frontier + fill =>
             OnAir(t) = on /\ (LaysSeededList => SeedAt(t) = SeedAt(frontier))
  BY <1>1, <1>2, FillOf
<1> HIDE DEF fill
<1>12. cover \in 1..Len(seated) /\ \A k \in 0..(cover - 1) : Runtime(seated, k) < fill
  BY <1>10, <1>11, CoveringOf
<1> HIDE DEF cover
<1>13. handed \in Seq(Item) /\ DOMAIN handed = 1..cover /\ cover \in Nat /\ cover \in 0..Len(seated)
  BY <1>10, <1>12
<1>14. \A k \in 0..cover : Runtime(handed, k) = Runtime(seated, k)
  BY <1>10, <1>13, RuntimeSame
<1> HIDE DEF handed
<1>15. Aired \in Seq(Item)
  <2>1. channel.aired \in Seq(Item)
    BY <1>3 DEF Valid
  <2>2. \A k \in DOMAIN ledger : ledger[k].item \in Item
    <3>1. \A k \in DOMAIN ledger : ledger[k] \in Airing
      BY <1>2
    <3> QED BY <3>1 DEF Airing, LedgerRow
  <2>3. [k \in DOMAIN ledger |-> ledger[k].item] \in Seq(Item)
    <3>1. DOMAIN ledger = 1..Len(ledger) /\ Len(ledger) \in Nat
      BY <1>2
    <3> QED BY <2>2, <3>1
  <2> HIDE DEF Aired
  <2>4. \A s, t \in Seq(Item) : s \o t \in Seq(Item)
    OBVIOUS
  <2> QED BY <2>1, <2>3, <2>4 DEF Aired
<1>16. PassInv'
  BY <1>1, <1>13, <1>15, BeginCounts DEF ResolverInv
<1>17. l \in Layings
  <2>1. /\ drawn.slot \in Slots \cup {AnyTime} /\ drawn.draws \in Seq(DrawStep)
        /\ drawn.rotations \in [Rotations -> RotationState]
        /\ IF drawn.draws = <<>> THEN drawn.slot = on.slot ELSE drawn.draws[1].rotation = on.slot
    BY <1>5 DEF ChainFrom
  <2>2. start \in Nat
    BY <1>7, <1>9
  <2>3. Scheduled(l) = on.slot
    BY <2>1 DEF Scheduled
  <2>4. OnAir(l.from) = on /\ l.placement = on.placement /\ l.slot = drawn.slot
    BY Zenon
  <2> HIDE DEF on
  <2>5. l \in [slot: Slots \cup {AnyTime}, draws: Seq(DrawStep), placement: SUBSET Int,
               rotations: [Rotations -> RotationState], from: Nat, start: Nat, total: Nat \ {0}]
    BY <1>2, <1>4, <1>7, <2>1, <2>2
  <2> HIDE DEF l
  <2> QED BY <1>5, <2>3, <2>4, <2>5 DEF Layings
<1>18. handed \in Cut(l)
  <2>1. l.from = frontier
    OBVIOUS
  <2> HIDE DEF l
  <2>2. ASSUME NEW n \in DOMAIN handed
        PROVE  LET t == l.from + Runtime(handed, n - 1)
               IN  OnAir(t) = OnAir(l.from) /\ (LaysSeededList => SeedAt(t) = SeedAt(l.from))
    <3>1. n - 1 \in 0..cover /\ n - 1 \in 0..(cover - 1) /\ n - 1 \in 0..Len(seated)
      BY <1>12, <1>13
    <3>2. Runtime(handed, n - 1) \in Nat /\ Runtime(handed, n - 1) < fill
      BY <1>10, <1>12, <1>14, <3>1, RuntimeOf
    <3> DEFINE t == frontier + Runtime(handed, n - 1)
    <3>3. t \in Nat /\ frontier <= t /\ t < frontier + fill
      BY <1>2, <1>11, <3>2
    <3> HIDE DEF t
    <3>4. OnAir(t) = on /\ (LaysSeededList => SeedAt(t) = SeedAt(frontier))
      BY <1>11, <3>3
    <3> QED BY <2>1, <3>4 DEF t
  <2> QED BY <1>13, <2>2 DEF Cut
<1>19. phase' = "placing" /\ items' = handed
  BY <1>1 DEF Begin
<1>20. InFlight'
  <2>1. laying'.from = frontier'
    BY <1>1
  <2>2. laying' \in Layings'
    BY <1>1, <1>17, LayingsSame
  <2>3. items' \in Cut(laying)'
    <3> PICK m : m = l
      OBVIOUS
    <3>1. laying' = m /\ handed \in Cut(m)
      BY <1>1, <1>18
    <3>2. Cut(m)' = Cut(m)
      BY <1>1, CutSame
    <3>3. Cut(laying)' = Cut(m)'
      BY <3>1
    <3> QED BY <1>19, <3>1, <3>2, <3>3
  <2> QED BY <1>19, <2>1, <2>2, <2>3 DEF InFlight
<1>21. StateOK'
  <2>1. [start |-> frontier, state |-> resume] \in CheckpointRecord
    BY <1>2 DEF CheckpointRecord
  <2>2. checkpoints' \in Seq(CheckpointRecord)
    BY <1>1, <1>2, <2>1
  <2> QED BY <1>1, <2>2, RecordsSame, AiringSame DEF ResolverInv, StateOK
<1>22. Ordered'
  BY <1>1 DEF ResolverInv, Ordered
<1> QED BY <1>16, <1>20, <1>21, <1>22 DEF ResolverInv

\* The pass moves items and leaves a list without limits as it came.
LEMMA ConstrainedInv ==
    ASSUME ResolverInv, Constrained
    PROVE  ResolverInv'
<1>1. /\ channel' = channel /\ now' = now /\ frontier' = frontier /\ resume' = resume
      /\ checkpoints' = checkpoints /\ ledger' = ledger /\ laying' = laying /\ seams' = seams
      /\ rewinds' = rewinds /\ Reorder
  BY DEF Constrained
<1>2. PassInv'
  BY <1>1, StepCounts DEF ResolverInv, PassNext
<1>3. items' = items /\ AsItCame' = AsItCame
  BY <1>1 DEF Reorder, LeaveAsIs, Place, Placed, Improve, Settle, inputs, AsItCame
<1>4. /\ phase # "idle"
      /\ phase' = "repairing" => ~IsUnconstrained(Widest(items))
      /\ phase' = "done" /\ IsUnconstrained(Widest(items)) => order' = AsItCame
  <2>1. phase = "repairing" => ~IsUnconstrained(Widest(items))
    BY DEF ResolverInv, InFlight
  <2> HIDE DEF ResolverInv
  <2> QED BY <1>1, <2>1 DEF Reorder, LeaveAsIs, Place, Placed, Improve, Settle
<1>5. laying \in Layings /\ laying.from = frontier /\ items \in Cut(laying)
  BY <1>4 DEF ResolverInv, InFlight
<1>6. laying' \in Layings' /\ laying'.from = frontier'
  BY <1>1, <1>5, LayingsSame
<1>7. items' \in Cut(laying)'
  <2> PICK m : m = laying
    OBVIOUS
  <2>1. Cut(m)' = Cut(m) /\ Cut(laying)' = Cut(m)'
    BY <1>1, CutSame
  <2> QED BY <1>3, <1>5, <2>1
<1>8. InFlight'
  BY <1>3, <1>4, <1>6, <1>7 DEF InFlight
<1>9. StateOK' /\ Ordered'
  BY <1>1, RecordsSame, AiringSame DEF ResolverInv, StateOK, Ordered
<1> QED BY <1>2, <1>8, <1>9 DEF ResolverInv

\* The generation in flight.
LEMMA LayingIn ==
    ASSUME laying \in Layings
    PROVE  LayingOK
BY DEF Layings, LayingOK

Reordered == [j \in DOMAIN order |-> items[order[j]]]

\* What is booked of a generation.
LEMMA RowsOf ==
    ASSUME ResolverInv, phase = "done"
    PROVE  /\ Reordered \in Seq(Item) /\ Len(Reordered) = Len(order)
           /\ \A k \in 1..(Len(order) + 1) :
                 StartOf(k) \in Nat /\ frontier <= StartOf(k) /\ \A j \in 1..k : StartOf(j) <= StartOf(k)
<1>1. /\ items \in Seq(Item) /\ order \in Seq(DOMAIN items) /\ laying.from = frontier /\ frontier \in Nat
  BY DEF ResolverInv, InFlight, PassInv, Rearranges, GivenItems, StateOK
<1>2. Reordered \in Seq(Item) /\ Len(Reordered) = Len(order) /\ Len(order) \in Nat
  <2>1. DOMAIN order = 1..Len(order) /\ Len(order) \in Nat /\ \A j \in DOMAIN order : order[j] \in DOMAIN items
    BY <1>1
  <2>2. \A j \in DOMAIN order : items[order[j]] \in Item
    BY <1>1, <2>1
  <2> QED BY <2>1, <2>2 DEF Reordered
<1>3. \A k : StartOf(k) = frontier + Runtime(Reordered, k - 1)
  BY <1>1 DEF StartOf, Reordered
<1>4. ASSUME NEW k \in 1..(Len(order) + 1)
      PROVE  StartOf(k) \in Nat /\ frontier <= StartOf(k) /\ \A j \in 1..k : StartOf(j) <= StartOf(k)
  <2>1. k - 1 \in 0..Len(Reordered) /\ \A j \in 1..k : j - 1 \in 0..(k - 1) /\ j - 1 \in 0..Len(Reordered)
    BY <1>2
  <2>2. /\ Runtime(Reordered, k - 1) \in Nat
        /\ \A j \in 0..(k - 1) : Runtime(Reordered, j) <= Runtime(Reordered, k - 1)
    BY <1>2, <2>1, RuntimeOf
  <2>3. \A j \in 1..k : Runtime(Reordered, j - 1) \in Nat
    BY <1>2, <2>1, RuntimeOf
  <2>4. ASSUME NEW j \in 1..k PROVE StartOf(j) <= StartOf(k)
    <3>1. Runtime(Reordered, j - 1) <= Runtime(Reordered, k - 1)
      BY <2>1, <2>2
    <3> QED BY <1>1, <1>3, <2>2, <2>3, <3>1
  <2> QED BY <1>1, <1>3, <2>2, <2>4
<1> QED BY <1>2, <1>4

\* A row of a list that stayed as it came starts as long after the cut as the list runs.
LEMMA RowAirs ==
    ASSUME ResolverInv, phase = "done", NEW k \in DOMAIN order
    PROVE  Row(k) \in Airing
<1> DEFINE row == Row(k)
<1>1. /\ items \in Seq(Item) /\ order \in Seq(DOMAIN items) /\ laying.from = frontier /\ frontier \in Nat
      /\ laying \in Layings /\ items \in Cut(laying) /\ LayingOK
      /\ IsUnconstrained(Widest(items)) => order = AsItCame
  BY LayingIn DEF ResolverInv, InFlight, PassInv, Rearranges, GivenItems, StateOK
<1>2. /\ k \in 1..(Len(order) + 1) /\ k + 1 \in 1..(Len(order) + 1) /\ order[k] \in DOMAIN items
      /\ DOMAIN items = 1..Len(items) /\ Len(items) \in Nat
  BY <1>1
<1>3. StartOf(k) \in Nat /\ StartOf(k + 1) \in Nat
  BY <1>2, RowsOf
<1>4. items[order[k]] \in Item /\ order[k] - 1 \in Nat
  BY <1>1, <1>2
<1>5. /\ row.start = StartOf(k) /\ row.slot = laying.slot /\ row.draws = laying.draws
      /\ row.placement = laying.placement /\ row.from = laying.from
      /\ row.bound = ~IsUnconstrained(Widest(items))
  BY DEF Row
<1>6. row \in LedgerRow
  <2>1. (~IsUnconstrained(Widest(items))) \in BOOLEAN
    OBVIOUS
  <2>2. /\ laying.slot \in Slots \cup {AnyTime} /\ laying.draws \in Seq(DrawStep) /\ laying.placement \in SUBSET Int
        /\ laying.start \in Nat /\ laying.total \in Nat
    BY <1>1 DEF Layings
  <2> QED BY <1>1, <1>3, <1>4, <2>1, <2>2 DEF Row, LedgerRow
<1> HIDE DEF row
<1>7. ASSUME ~row.bound PROVE AirsInTime(row)
  <2>1. order = AsItCame
    BY <1>1, <1>5, <1>7
  <2> DEFINE t == row.start
  <2>2. k \in DOMAIN items /\ t = laying.from + Runtime(items, k - 1)
    <3>1. DOMAIN order = DOMAIN items /\ \A j \in DOMAIN order : order[j] = j
      BY <2>1 DEF AsItCame
    <3>2. [j \in DOMAIN order |-> items[order[j]]] = items
      BY <1>1, <3>1
    <3> QED BY <1>5, <3>1, <3>2 DEF StartOf
  <2>3. OnAir(t) = OnAir(laying.from) /\ (LaysSeededList => SeedAt(t) = SeedAt(laying.from))
    BY <1>1, <2>2 DEF Cut
  <2>4. Scheduled(row) = OnAir(t).slot /\ row.placement = OnAir(t).placement
    BY <1>1, <1>5, <2>3 DEF Scheduled, LayingOK
  <2>5. t \in Nat
    BY <1>3, <1>5
  <2>6. Valid(channel)
    BY ResolverAssumption DEF ResolverInv, StateOK
  <2>7. ByPlacements(t)
    BY <2>5, <2>6, OnAir_ByPlacements
  <2> HIDE DEF t
  <2> QED BY <1>5, <2>3, <2>4, <2>7 DEF AirsInTime, ByPlacements, t
<1> QED BY <1>6, <1>7 DEF Airing, row

\* One sequence behind another.
LEMMA JoinOf ==
    ASSUME NEW D, NEW s \in Seq(D), NEW t \in Seq(D)
    PROVE  /\ s \o t \in Seq(D) /\ Len(s \o t) = Len(s) + Len(t)
           /\ \A i \in 1..(Len(s) + Len(t)) : (s \o t)[i] = IF i <= Len(s) THEN s[i] ELSE t[i - Len(s)]
OBVIOUS

\* What is adopted comes behind what aired, in order and in its time.
LEMMA AdoptInv ==
    ASSUME ResolverInv, Adopt
    PROVE  ResolverInv'
<1> DEFINE m == Len(ledger)
           n == Len(order)
           rows == [k \in DOMAIN order |-> Row(k)]
<1>1. /\ phase = "done" /\ ledger' = ledger \o rows /\ frontier' = StartOf(n + 1)
      /\ checkpoints' = Kept(Trail, {c \in ToSet(Trail) : c.start > now}) /\ resume' = After(n) /\ Finish
      /\ channel' = channel /\ now' = now /\ seams' = seams /\ rewinds' = rewinds
  BY Zenon DEF Adopt
<1>2. /\ channel \in Channels /\ now \in Nat /\ frontier \in Nat /\ rewinds \in 0..channel.rewound
      /\ resume \in ResumeState /\ checkpoints \in Seq(CheckpointRecord)
      /\ ledger \in Seq(Airing) /\ seams \in SUBSET (0..m) /\ LayingOK
  BY <1>1, LayingIn DEF ResolverInv, StateOK, InFlight
<1>3. items \in Seq(Item) /\ order \in Seq(DOMAIN items)
  BY DEF ResolverInv, PassInv, Rearranges, GivenItems
<1>4. m \in Nat /\ DOMAIN ledger = 1..m /\ n \in Nat /\ DOMAIN order = 1..n
  BY <1>2, <1>3
<1>5. \A k \in 1..(n + 1) : StartOf(k) \in Nat /\ frontier <= StartOf(k) /\ \A j \in 1..k : StartOf(j) <= StartOf(k)
  BY <1>1, RowsOf
<1>6. /\ rows \in Seq(Airing) /\ Len(rows) = n
      /\ \A k \in 1..n : rows[k].start = StartOf(k) /\ rows[k].finish = StartOf(k + 1)
  <2>1. \A k \in DOMAIN order : Row(k) \in Airing
    BY <1>1, RowAirs
  <2>2. \A k \in DOMAIN order : Row(k).start = StartOf(k) /\ Row(k).finish = StartOf(k + 1)
    BY DEF Row
  <2>3. rows \in [1..n -> Airing]
    BY <1>4, <2>1
  <2> QED BY <1>4, <2>2, <2>3
<1> HIDE DEF rows, m, n
<1>7. /\ ledger' \in Seq(Airing) /\ DOMAIN ledger' = 1..(m + n) /\ Len(ledger') = m + n
      /\ \A i \in 1..(m + n) : ledger'[i] = IF i <= m THEN ledger[i] ELSE rows[i - m]
  <2>1. /\ ledger' \in Seq(Airing) /\ Len(ledger') = Len(ledger) + Len(rows)
        /\ \A i \in 1..(Len(ledger) + Len(rows)) : ledger'[i] = IF i <= Len(ledger) THEN ledger[i] ELSE rows[i - Len(ledger)]
    BY <1>1, <1>2, <1>6, JoinOf
  <2>2. DOMAIN ledger' = 1..Len(ledger')
    BY <2>1
  <2> QED BY <1>6, <2>1, <2>2 DEF m
<1>8. PassInv' /\ phase' = "idle"
  BY <1>1, FinishCounts DEF Finish
<1>9. Ordered'
  <2>0. \A k \in 1..n : k \in 1..(n + 1) /\ k + 1 \in 1..(n + 1)
    BY <1>4
  <2>1. frontier' \in Nat /\ frontier <= frontier'
    BY <1>1, <1>4, <1>5
  <2>2. \A i \in 1..m : /\ ledger[i].start \in Nat /\ ledger[i].finish \in Nat
                        /\ ledger[i].start <= ledger[i].finish /\ ledger[i].finish <= frontier
                        /\ \A j \in 1..m : i < j => ledger[i].finish <= ledger[j].start
    <3>1. \A i \in 1..m : ledger[i] \in LedgerRow
      BY <1>2, <1>4 DEF Airing
    <3>2. Ordered
      BY DEF ResolverInv
    <3> QED BY <1>4, <3>1, <3>2 DEF Ordered, LedgerRow
  <2>3. \A k \in 1..n : /\ rows[k].start = StartOf(k) /\ rows[k].finish = StartOf(k + 1)
                        /\ StartOf(k) \in Nat /\ StartOf(k + 1) \in Nat
                        /\ frontier <= StartOf(k) /\ StartOf(k) <= StartOf(k + 1)
    <3>1. \A k \in 1..n : k \in 1..(k + 1)
      BY <1>4
    <3> QED BY <1>5, <1>6, <2>0, <3>1
  <2>4. \A k \in 1..n : StartOf(k + 1) <= frontier' /\ \A l \in 1..n : k < l => StartOf(k + 1) <= StartOf(l)
    <3>1. n + 1 \in 1..(n + 1) /\ \A k \in 1..n : k + 1 \in 1..(n + 1)
      BY <1>4
    <3>2. \A k, l \in 1..n : k < l => l \in 1..(n + 1) /\ k + 1 \in 1..l
      BY <1>4
    <3> QED BY <1>1, <1>5, <3>1, <3>2
  <2>5. ASSUME NEW i \in 1..(m + n)
        PROVE  /\ ledger'[i].start <= ledger'[i].finish /\ ledger'[i].finish <= frontier'
               /\ \A j \in 1..(m + n) : i < j => ledger'[i].finish <= ledger'[j].start
    <3>1. CASE i <= m
      <4>1. i \in 1..m /\ ledger'[i] = ledger[i]
        BY <1>4, <1>7, <3>1
      <4>2. ASSUME NEW j \in 1..(m + n), i < j PROVE ledger'[i].finish <= ledger'[j].start
        <5>1. CASE j <= m
          <6>1. j \in 1..m /\ ledger'[j] = ledger[j]
            BY <1>4, <1>7, <5>1
          <6> QED BY <2>2, <4>1, <4>2, <6>1
        <5>2. CASE ~(j <= m)
          <6> DEFINE b == j - m
          <6>1. b \in 1..n /\ ledger'[j] = rows[b]
            BY <1>4, <1>7, <5>2
          <6>2. ledger[i].finish \in Nat /\ ledger[i].finish <= frontier
            BY <2>2, <4>1
          <6> HIDE DEF b
          <6>3. rows[b].start \in Nat /\ frontier <= rows[b].start
            BY <2>3, <6>1
          <6>4. frontier \in Nat
            BY <1>2
          <6> QED BY <4>1, <6>1, <6>2, <6>3, <6>4
        <5> QED BY <5>1, <5>2
      <4>3. /\ ledger[i].start <= ledger[i].finish /\ ledger[i].finish \in Nat /\ ledger[i].finish <= frontier
        BY <2>2, <4>1
      <4> QED BY <1>2, <2>1, <4>1, <4>2, <4>3
    <3>2. CASE ~(i <= m)
      <4>1. i - m \in 1..n /\ ledger'[i] = rows[i - m]
        BY <1>4, <1>7, <3>2
      <4>2. ASSUME NEW j \in 1..(m + n), i < j PROVE ledger'[i].finish <= ledger'[j].start
        <5>1. j - m \in 1..n /\ ledger'[j] = rows[j - m] /\ i - m < j - m
          BY <1>4, <1>7, <3>2, <4>2
        <5> DEFINE a == i - m
                   b == j - m
        <5>2. a \in 1..n /\ b \in 1..n /\ a < b
          BY <4>1, <5>1
        <5>3. ledger'[i] = rows[a] /\ ledger'[j] = rows[b]
          BY <4>1, <5>1
        <5> HIDE DEF a, b
        <5> QED BY <2>3, <2>4, <5>2, <5>3
      <4> DEFINE a == i - m
      <4>3. a \in 1..n /\ ledger'[i] = rows[a]
        BY <4>1
      <4> HIDE DEF a
      <4>4. rows[a].start <= rows[a].finish /\ rows[a].finish <= frontier'
        BY <2>3, <2>4, <4>3
      <4> QED BY <4>2, <4>3, <4>4
    <3> QED BY <3>1, <3>2
  <2> QED BY <1>7, <2>5 DEF Ordered
<1>10. checkpoints' \in Seq(CheckpointRecord)
  <2>1. order \in Seq(1..Len(items)) /\ Len(items) \in Nat
    BY <1>3
  <2>2. \A k \in 1..n : k \in 1..(n + 1)
    BY <1>4
  <2>3. \A k \in 1..Len(order) : StartOf(k) \in Nat
    BY <1>5, <2>2 DEF n
  <2>4. Trail \in Seq(CheckpointRecord)
    BY <1>2, <2>1, <2>3, TrailIn
  <2> QED BY <1>1, <2>4, KeptIn
<1>11. resume' \in ResumeState
  BY <1>1, <1>2, <1>4, AfterIn
<1>12. StateOK'
  <2>1. frontier' \in Nat
    BY <1>1, <1>4, <1>5
  <2>2. seams' \in SUBSET (0..Len(ledger'))
    BY <1>1, <1>2, <1>4, <1>7
  <2> QED BY <1>1, <1>2, <1>7, <1>10, <1>11, <2>1, <2>2, RecordsSame, AiringSame DEF StateOK
<1>13. InFlight'
  BY <1>8 DEF InFlight
<1> QED BY <1>8, <1>9, <1>12, <1>13 DEF ResolverInv

\* What a rewind leaves is in order, and it resumes from a state that was kept.
LEMMA RewindInv ==
    ASSUME ResolverInv, Rewind
    PROVE  ResolverInv'
<1>1. PICK k \in DOMAIN ledger :
        LET cut == ledger[k].start
            covering == Max({0} \cup {c \in DOMAIN checkpoints : checkpoints[c].start <= cut})
            earlier == {s \in seams : s < k}
        IN  /\ ledger[k].finish > now
            /\ frontier' = cut
            /\ ledger' = SubSeq(ledger, 1, k - 1)
            /\ IF covering > 0
               THEN /\ resume' = checkpoints[covering].state
                    /\ checkpoints' = SubSeq(checkpoints, 1, covering - 1)
                    /\ seams' = earlier
               ELSE /\ resume' = [resume EXCEPT !.rotations = [s \in Rotations |-> Forgotten(@[s], cut)]]
                    /\ seams' = earlier \cup {k - 1}
                    /\ UNCHANGED checkpoints
  BY Zenon DEF Rewind
<1>2. /\ phase = "idle" /\ rewinds < channel.rewound /\ rewinds' = rewinds + 1
      /\ channel' = channel /\ now' = now /\ laying' = laying /\ pass' = pass
  BY Zenon DEF Rewind
<1> DEFINE cut == ledger[k].start
           C == {0} \cup {c \in DOMAIN checkpoints : checkpoints[c].start <= cut}
           covering == Max(C)
           earlier == {s \in seams : s < k}
<1>3. /\ channel \in Channels /\ now \in Nat /\ frontier \in Nat /\ rewinds \in 0..channel.rewound
      /\ resume \in ResumeState /\ checkpoints \in Seq(CheckpointRecord)
      /\ ledger \in Seq(Airing) /\ seams \in SUBSET (0..Len(ledger)) /\ Ordered
  BY DEF ResolverInv, StateOK
<1>4. k \in 1..Len(ledger) /\ Len(ledger) \in Nat /\ DOMAIN ledger = 1..Len(ledger) /\ k \in Nat
  BY <1>1, <1>3
<1>5. /\ frontier' = cut /\ ledger' = SubSeq(ledger, 1, k - 1)
      /\ IF covering > 0
         THEN resume' = checkpoints[covering].state /\ checkpoints' = SubSeq(checkpoints, 1, covering - 1)
         ELSE /\ resume' = [resume EXCEPT !.rotations = [s \in Rotations |-> Forgotten(@[s], cut)]]
              /\ checkpoints' = checkpoints
      /\ seams' \in {earlier, earlier \cup {k - 1}}
  BY <1>1, Zenon
<1>6. ledger[k] \in LedgerRow /\ cut \in Nat
  <2>1. ledger[k] \in Airing
    BY <1>3, <1>4
  <2> QED BY <2>1 DEF Airing, LedgerRow
<1> HIDE DEF cut
<1>7. /\ ledger' \in Seq(Airing) /\ Len(ledger') = k - 1 /\ DOMAIN ledger' = 1..(k - 1)
      /\ \A i \in 1..(k - 1) : ledger'[i] = ledger[i] /\ i \in DOMAIN ledger
  BY <1>3, <1>4, <1>5
<1>8. Ordered'
  <2>0. \A i \in 1..(k - 1) : i < k /\ i \in DOMAIN ledger /\ k \in DOMAIN ledger
    BY <1>4, <1>7
  <2>1. \A i \in 1..(k - 1) : ledger[i].start <= ledger[i].finish /\ ledger[i].finish <= cut
    BY <1>3, <2>0, Zenon DEF Ordered, cut
  <2>2. \A i, j \in 1..(k - 1) : i < j => ledger[i].finish <= ledger[j].start
    BY <1>3, <1>7 DEF Ordered
  <2> QED BY <1>5, <1>7, <2>1, <2>2 DEF Ordered
<1>9. seams' \in SUBSET (0..Len(ledger'))
  <2>1. \A s \in 0..Len(ledger) : s < k => s \in 0..(k - 1)
    BY <1>4
  <2>2. earlier \subseteq 0..(k - 1)
    BY <1>3, <2>1
  <2>3. k - 1 \in 0..(k - 1)
    BY <1>4
  <2> HIDE DEF earlier
  <2> QED BY <1>5, <1>7, <2>2, <2>3
<1>10. covering \in C
  <2>1. C \subseteq 0..Len(checkpoints) /\ C # {} /\ Len(checkpoints) \in Nat
    BY <1>3
  <2> HIDE DEF C
  <2>2. IsFiniteSet(0..Len(checkpoints))
    BY <2>1, FS_Interval
  <2>3. IsFiniteSet(C)
    BY <2>1, <2>2, FS_Subset
  <2>4. C \subseteq Nat
    BY <2>1
  <2> QED BY <2>1, <2>3, <2>4, GreatestOf
<1> HIDE DEF covering
<1>11. resume' \in ResumeState /\ checkpoints' \in Seq(CheckpointRecord)
  <2>1. CASE covering > 0
    <3>1. covering \in DOMAIN checkpoints
      BY <1>10, <2>1
    <3>2. checkpoints[covering] \in CheckpointRecord /\ SubSeq(checkpoints, 1, covering - 1) \in Seq(CheckpointRecord)
      BY <1>3, <3>1
    <3>3. checkpoints[covering].state \in ResumeState
      BY <3>2 DEF CheckpointRecord
    <3> QED BY <1>5, <2>1, <3>2, <3>3
  <2>2. CASE ~(covering > 0)
    <3> DEFINE r == [s \in Rotations |-> Forgotten(resume.rotations[s], cut)]
    <3>1. resume.rotations \in [Rotations -> RotationState]
      BY <1>3 DEF ResumeState
    <3>2. \A s \in Rotations : Forgotten(resume.rotations[s], cut) \in RotationState
      BY <3>1, ForgottenIn
    <3>3. r \in [Rotations -> RotationState]
      BY <3>2
    <3>4. resume' = [resume EXCEPT !.rotations = r]
      BY <1>5, <2>2
    <3> HIDE DEF r
    <3>5. resume' \in ResumeState
      BY <1>3, <3>3, <3>4 DEF ResumeState
    <3> QED BY <1>3, <1>5, <2>2, <3>5
  <2> QED BY <2>1, <2>2
<1>12. StateOK'
  <2>1. channel.rewound \in Nat
    BY <1>3, ResolverAssumption DEF Valid
  <2>2. rewinds' \in 0..channel'.rewound
    BY <1>2, <1>3, <2>1
  <2> QED BY <1>2, <1>3, <1>5, <1>6, <1>7, <1>9, <1>11, <2>2, RecordsSame, AiringSame DEF StateOK
<1>13. PassInv' /\ InFlight'
  <2>1. PassInv'
    BY <1>2, StepCounts DEF ResolverInv
  <2> QED BY <1>2, <2>1 DEF InFlight, pass
<1> QED BY <1>8, <1>12, <1>13 DEF ResolverInv

\* What does not touch the schedule nor the list in flight keeps the invariant.
LEMMA RestInv ==
    ASSUME ResolverInv, now' \in Nat, pass' = pass,
           UNCHANGED <<channel, frontier, resume, checkpoints, ledger, laying, seams, rewinds>>
    PROVE  ResolverInv'
<1>1. PassInv'
  BY StepCounts DEF ResolverInv
<1>2. StateOK' /\ Ordered'
  BY RecordsSame, AiringSame DEF ResolverInv, StateOK, Ordered
<1>3. items' = items /\ order' = order /\ phase' = phase /\ AsItCame' = AsItCame
  BY DEF pass, AsItCame
<1>4. Layings' = Layings /\ Cut(laying)' = Cut(laying)
  <2> PICK m : m = laying
    OBVIOUS
  <2>1. Cut(m)' = Cut(m) /\ Cut(laying)' = Cut(m)' /\ Cut(laying) = Cut(m)
    BY CutSame
  <2> QED BY <2>1, LayingsSame
<1>5. InFlight'
  BY <1>3, <1>4 DEF ResolverInv, InFlight
<1> QED BY <1>1, <1>2, <1>5 DEF ResolverInv

\* Every step keeps the invariant.
LEMMA StepInv ==
    ASSUME MixesNumbers, ResolverInv, [Next]_vars
    PROVE  ResolverInv'
<1>1. now \in Nat
  BY DEF ResolverInv, StateOK
<1>2. CASE Elapse
  BY <1>1, <1>2, RestInv DEF Elapse
<1>3. CASE UNCHANGED vars
  BY <1>1, <1>3, RestInv DEF vars
<1> QED BY <1>2, <1>3, GenerateInv, ConstrainedInv, AdoptInv, RewindInv DEF Next

\* What is on the air, in flight and ahead is what validation and the calendar allow, whatever is
\* laid, cut and laid again, for any channel.
THEOREM Resolver_KeepsInv ==
    ASSUME MixesNumbers
    PROVE  Spec => []ResolverInv
BY InitInv, StepInv, PTL DEF Spec

\* The types, for any channel that validation lets through: every position, checkpoint and draw is
\* one of the channel's, and nothing aired ends behind the frontier.
THEOREM Resolver_TypeOK ==
    ASSUME MixesNumbers
    PROVE  Spec => []TypeOK
<1>1. ResolverInv => TypeOK
  <2> SUFFICES ASSUME ResolverInv PROVE TypeOK
    OBVIOUS
  <2>1. \A k \in DOMAIN ledger : ledger[k].item \in Item /\ ledger[k].finish <= frontier
    <3>1. \A k \in DOMAIN ledger : ledger[k] \in Airing
      BY DEF ResolverInv, StateOK
    <3> QED BY <3>1 DEF ResolverInv, Ordered, Airing, LedgerRow
  <2>2. resume.position \in Nat /\ DOMAIN resume.slots \subseteq Slots
    <3>1. resume \in ResumeState
      BY DEF ResolverInv, StateOK
    <3> QED BY <3>1 DEF ResumeState, Positions
  <2> QED BY <2>1, <2>2 DEF ResolverInv, StateOK, PassInv, TypeOK
<1> QED BY <1>1, Resolver_KeepsInv, PTL

\* Each item starts while its slot is on by the calendar, over midnight too, and in the period of the
\* seed that shuffled its list, for any timetable, any rotations and any lists, wherever the schedule
\* was cut and laid again (next_change, next_rollover, items_covering).
THEOREM Resolver_SlotsAir ==
    ASSUME MixesNumbers
    PROVE  Spec => []SlotsAir
<1>1. ResolverInv => SlotsAir
  <2> SUFFICES ASSUME ResolverInv PROVE SlotsAir
    OBVIOUS
  <2>1. \A k \in DOMAIN ledger : ~ledger[k].bound => AirsInTime(ledger[k])
    BY DEF ResolverInv, StateOK, Airing
  <2> QED BY <2>1 DEF SlotsAir, AirsInTime
<1> QED BY <1>1, Resolver_KeepsInv, PTL

\* The generations of a channel run the pass as it is specified alone, one after another: the
\* theorems about the pass hold of whatever a channel airs.
THEOREM Resolver_RunsPass ==
    ASSUME MixesNumbers
    PROVE  Spec => PassSpec
<1>1. Init => IdlePass
  BY DEF Init
<1>2. ResolverInv => GivenItems
  BY DEF ResolverInv, PassInv, Rearranges
<1>3. ASSUME GivenItems', [Next]_vars PROVE [PassNext]_pass
  <2>1. CASE Generate
    <3>1. PICK list, aired : Begin(list, aired)
      BY <2>1 DEF Generate
    <3>2. items' = list /\ preceding' = aired
      BY <3>1 DEF Begin
    <3> QED BY <1>3, <3>1, <3>2 DEF GivenItems, PassNext
  <2>2. CASE Constrained
    BY <2>2 DEF Constrained, PassNext
  <2>3. CASE Adopt
    <3>1. Finish
      BY <2>3, Zenon DEF Adopt
    <3> QED BY <3>1 DEF PassNext
  <2>4. CASE Rewind
    BY <2>4 DEF Rewind
  <2>5. CASE Elapse
    BY <2>5 DEF Elapse
  <2>6. CASE UNCHANGED vars
    BY <2>6 DEF vars
  <2> QED BY <1>3, <2>1, <2>2, <2>3, <2>4, <2>5, <2>6 DEF Next
<1> QED BY <1>1, <1>2, <1>3, Resolver_KeepsInv, PTL DEF Spec, PassSpec

\* What a generation reports is the number of pairs that conflict, whatever aired before it and
\* whatever its channel is (violation_count, axes_exhausted).
THEOREM Resolver_ReportsEveryConflict ==
    ASSUME MixesNumbers
    PROVE  Spec => []ReportsEveryConflict
BY Resolver_RunsPass, Reports_EveryConflict, PTL
=============================================================================
