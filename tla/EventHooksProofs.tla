--------------------------- MODULE EventHooksProofs ---------------------------
(***************************************************************************)
(* What holds of EventHooks for any hooks, any caps and any number of      *)
(* lines and reloads: a hook runs once at a time, within a generation and  *)
(* over a reload; no firing is left waiting for a worker that will not     *)
(* come; and every line that was promised to a hook is on exactly one      *)
(* stretch of its way, in the order it was written, whatever goes with a   *)
(* log that is dropped or overruns a queue.                                *)
(***************************************************************************)
EXTENDS EventHooks, SequenceTheorems, WellFoundedInduction, TLAPS

-----------------------------------------------------------------------------
(* What Only picks from a sequence.  Only is a recursive function, so what it  *)
(* returns is shown by induction on the length of the sequence.                *)

\* Induction over a set of naturals: the least number that is not in it would
\* have a predecessor that is.
LEMMA SetInduction ==
    ASSUME NEW S, 0 \in S, \A n \in Nat : n \in S => n + 1 \in S
    PROVE  \A n \in Nat : n \in S
<1> SUFFICES ASSUME NEW k \in Nat, k \notin S PROVE FALSE
  OBVIOUS
<1> DEFINE T == {n \in Nat : n \notin S}
           R == OpToRel(<, Nat)
<1>1. T \subseteq Nat /\ T # {}
  OBVIOUS
<1>2. IsWellFoundedOn(R, Nat)
  BY NatLessThanWellFounded DEF OpToRel
<1>3. \A m \in T : m - 1 \in T /\ <<m - 1, m>> \in R
  BY DEF OpToRel
<1> HIDE DEF T, R
<1>4. PICK m \in T : \A y \in T : ~(<<y, m>> \in R)
  BY <1>1, <1>2, WFMin
<1> QED BY <1>3, <1>4

\* Induction over a set of sequences.
LEMMA SeqInduction ==
    ASSUME NEW S, NEW Q, <<>> \in Q, \A s \in Seq(S) : \A x \in S : s \in Q => Append(s, x) \in Q
    PROVE  \A s \in Seq(S) : s \in Q
<1> DEFINE P == {n \in Nat : \A s \in Seq(S) : Len(s) = n => s \in Q}
<1>1. 0 \in P
  OBVIOUS
<1>2. ASSUME NEW n \in Nat, n \in P PROVE n + 1 \in P
  <2> SUFFICES ASSUME NEW s \in Seq(S), Len(s) = n + 1 PROVE s \in Q
    OBVIOUS
  <2>1. s # <<>>
    OBVIOUS
  <2>2. PICK r \in Seq(S), x \in S : s = Append(r, x)
    BY <2>1, SequenceEmptyOrAppend
  <2>3. Len(r) = n
    BY <2>2, AppendProperties, LenProperties
  <2> QED BY <1>2, <2>2, <2>3
<1> HIDE DEF P
<1>3. \A n \in Nat : n \in P
  BY <1>1, <1>2, SetInduction
<1> QED BY <1>3, LenProperties DEF P

\* The function Only defines: what it has picked after n lines.
Step(f, s, W, n) == IF n = 0 THEN <<>> ELSE IF s[n] \in W THEN Append(f[n - 1], s[n]) ELSE f[n - 1]
Picks(f, s, W) == f = [n \in 0 .. Len(s) |-> Step(f, s, W, n)]
Picked(s, W) == CHOOSE f : Picks(f, s, W)

LEMMA PicksAt ==
    ASSUME NEW s, NEW W, NEW f, Picks(f, s, W), NEW n \in 0 .. Len(s)
    PROVE  f[n] = Step(f, s, W, n)
<1> DEFINE g == [m \in 0 .. Len(s) |-> Step(f, s, W, m)]
<1>1. f = g
  BY DEF Picks
<1>2. g[n] = Step(f, s, W, n)
  OBVIOUS
<1> QED BY <1>1, <1>2

\* A sequence that grows at its end is picked from as before, and then its end.
LEMMA PicksOn ==
    ASSUME NEW S, NEW s \in Seq(S), NEW x \in S, NEW W, NEW f, Picks(f, s, W),
           NEW g, g = [n \in 0 .. Len(s) + 1 |-> IF n = Len(s) + 1
                                                THEN IF x \in W THEN Append(f[Len(s)], x) ELSE f[Len(s)]
                                                ELSE f[n]]
    PROVE  Picks(g, Append(s, x), W)
<1> DEFINE t == Append(s, x)
<1>1. Len(t) = Len(s) + 1 /\ t[Len(s) + 1] = x /\ \A n \in 1 .. Len(s) : t[n] = s[n]
  BY AppendProperties
<1>2. Len(s) \in Nat
  BY LenProperties
<1> HIDE DEF t
<1>3. ASSUME NEW n \in 0 .. Len(s) + 1 PROVE g[n] = Step(g, t, W, n)
  <2>1. CASE n = Len(s) + 1
    BY <1>1, <1>2, <2>1 DEF Step
  <2>2. CASE n = 0
    BY <1>1, <1>2, <2>2 DEF Step, Picks
  <2>3. CASE n \in 1 .. Len(s)
    <3>1. g[n] = f[n] /\ g[n - 1] = f[n - 1] /\ t[n] = s[n]
      BY <1>1, <1>2, <2>3
    <3>2. n \in 0 .. Len(s)
      BY <1>2, <2>3
    <3>3. f[n] = Step(f, s, W, n)
      BY <3>2, PicksAt
    <3> QED BY <2>3, <3>1, <3>3 DEF Step
  <2> QED BY <1>2, <2>1, <2>2, <2>3
<1>4. g = [n \in 0 .. Len(t) |-> Step(g, t, W, n)]
  BY <1>1, <1>3
<1> QED BY <1>4 DEF Picks, t

\* There is such a function, for a sequence of any length.
LEMMA PicksExist ==
    ASSUME NEW S, NEW W
    PROVE  \A s \in Seq(S) : \E f : Picks(f, s, W)
<1> DEFINE Q == {s \in Seq(S) : \E f : Picks(f, s, W)}
<1>1. <<>> \in Q
  <2>1. Picks([n \in 0 .. 0 |-> <<>>], <<>>, W)
    BY DEF Picks, Step
  <2> QED BY <2>1
<1>2. ASSUME NEW s \in Seq(S), NEW x \in S, s \in Q PROVE Append(s, x) \in Q
  <2>1. PICK f : Picks(f, s, W)
    BY <1>2
  <2>2. Picks([n \in 0 .. Len(s) + 1 |-> IF n = Len(s) + 1
                                         THEN IF x \in W THEN Append(f[Len(s)], x) ELSE f[Len(s)]
                                         ELSE f[n]], Append(s, x), W)
    BY <2>1, PicksOn
  <2>3. Append(s, x) \in Seq(S)
    BY AppendProperties
  <2> QED BY <2>2, <2>3
<1> HIDE DEF Q
<1>3. \A s \in Seq(S) : s \in Q
  BY <1>1, <1>2, SeqInduction
<1> QED BY <1>3 DEF Q

LEMMA OnlyPicks ==
    ASSUME NEW S, NEW s \in Seq(S), NEW W
    PROVE  /\ Picks(Picked(s, W), s, W)
           /\ Only(s, W) = Picked(s, W)[Len(s)]
<1>1. \E f : Picks(f, s, W)
  BY PicksExist
<1>2. Picks(Picked(s, W), s, W)
  BY <1>1 DEF Picked
<1>3. Only(s, W) = Picked(s, W)[Len(s)]
  BY DEF Only, Picked, Picks, Step
<1> QED BY <1>2, <1>3

\* The function is one.
LEMMA PicksUnique ==
    ASSUME NEW s, NEW W, NEW f, Picks(f, s, W), NEW g, Picks(g, s, W), Len(s) \in Nat
    PROVE  f = g
<1> DEFINE P == {n \in Nat : n \in 0 .. Len(s) => f[n] = g[n]}
<1>1. 0 \in P
  BY PicksAt DEF Step
<1>2. ASSUME NEW n \in Nat, n \in P PROVE n + 1 \in P
  <2> SUFFICES ASSUME n + 1 \in 0 .. Len(s) PROVE f[n + 1] = g[n + 1]
    OBVIOUS
  <2>1. n \in 0 .. Len(s) /\ (n + 1) - 1 = n
    OBVIOUS
  <2>2. f[n] = g[n]
    BY <1>2, <2>1
  <2>3. f[n + 1] = Step(f, s, W, n + 1) /\ g[n + 1] = Step(g, s, W, n + 1)
    BY PicksAt
  <2> QED BY <2>1, <2>2, <2>3 DEF Step
<1> HIDE DEF P
<1>3. \A n \in Nat : n \in P
  BY <1>1, <1>2, SetInduction
<1>4. \A n \in 0 .. Len(s) : f[n] = g[n]
  BY <1>3 DEF P
<1> DEFINE F(h) == [n \in 0 .. Len(s) |-> h[n]]
<1>5. f = F(f) /\ g = F(g)
  BY DEF Picks
<1>6. F(f) = F(g)
  BY <1>4
<1> QED BY <1>5, <1>6

LEMMA OnlyEmpty ==
    ASSUME NEW W
    PROVE  Only(<<>>, W) = <<>>
<1> DEFINE s == <<>>
           f == Picked(s, W)
<1>1. s \in Seq({}) /\ Len(s) = 0 /\ 0 \in 0 .. Len(s)
  OBVIOUS
<1> HIDE DEF s
<1>2. Picks(f, s, W) /\ Only(s, W) = f[0]
  BY <1>1, OnlyPicks
<1> HIDE DEF f
<1>3. f[0] = Step(f, s, W, 0)
  BY <1>1, <1>2, PicksAt
<1> QED BY <1>2, <1>3 DEF Step, s

LEMMA OnlyAppend ==
    ASSUME NEW S, NEW s \in Seq(S), NEW x \in S, NEW W
    PROVE  Only(Append(s, x), W) = IF x \in W THEN Append(Only(s, W), x) ELSE Only(s, W)
<1> DEFINE f == Picked(s, W)
           g == [n \in 0 .. Len(s) + 1 |-> IF n = Len(s) + 1
                                           THEN IF x \in W THEN Append(f[Len(s)], x) ELSE f[Len(s)]
                                           ELSE f[n]]
           t == Append(s, x)
<1>1. t \in Seq(S) /\ Len(t) = Len(s) + 1 /\ Len(s) \in Nat
  BY AppendProperties, LenProperties
<1>2. Picks(f, s, W) /\ Only(s, W) = f[Len(s)]
  BY OnlyPicks
<1>3. Picks(Picked(t, W), t, W) /\ Only(t, W) = Picked(t, W)[Len(t)]
  BY <1>1, OnlyPicks
<1>4. g[Len(s) + 1] = IF x \in W THEN Append(f[Len(s)], x) ELSE f[Len(s)]
  BY <1>1
<1> HIDE DEF f
<1>5. Picks(g, t, W)
  BY <1>2, PicksOn
<1> HIDE DEF g
<1>6. Len(t) \in Nat
  BY <1>1
<1> HIDE DEF t
<1>7. g = Picked(t, W)
  BY <1>3, <1>5, <1>6, PicksUnique
<1>8. Only(t, W) = g[Len(s) + 1]
  BY <1>1, <1>3, <1>7
<1> QED BY <1>2, <1>4, <1>8 DEF t

\* It picks elements of the sequence that are in W.
LEMMA OnlyType ==
    ASSUME NEW S, NEW W
    PROVE  \A s \in Seq(S) : Only(s, W) \in Seq(S \cap W)
<1> DEFINE Q == {s \in Seq(S) : Only(s, W) \in Seq(S \cap W)}
<1>1. <<>> \in Q
  <2>1. Only(<<>>, W) = <<>> /\ <<>> \in Seq(S) /\ <<>> \in Seq(S \cap W)
    BY OnlyEmpty
  <2> QED BY <2>1
<1>2. ASSUME NEW s \in Seq(S), NEW x \in S, s \in Q PROVE Append(s, x) \in Q
  <2>1. Append(s, x) \in Seq(S)
    BY AppendProperties
  <2>2. x \in W => Append(Only(s, W), x) \in Seq(S \cap W)
    BY <1>2, AppendProperties
  <2>3. Only(Append(s, x), W) = IF x \in W THEN Append(Only(s, W), x) ELSE Only(s, W)
    BY OnlyAppend
  <2> QED BY <1>2, <2>1, <2>2, <2>3
<1> HIDE DEF Q
<1>3. \A s \in Seq(S) : s \in Q
  BY <1>1, <1>2, SeqInduction
<1> QED BY <1>3 DEF Q

\* It picks from two sequences in turn as from their concatenation.
LEMMA OnlyConcat ==
    ASSUME NEW S, NEW W, NEW s \in Seq(S)
    PROVE  \A t \in Seq(S) : Only(s \o t, W) = Only(s, W) \o Only(t, W)
<1> DEFINE Q == {t \in Seq(S) : Only(s \o t, W) = Only(s, W) \o Only(t, W)}
<1>1. <<>> \in Q
  <2>1. s \o <<>> = s /\ Only(s, W) \o <<>> = Only(s, W)
    BY OnlyType, ConcatEmptySeq
  <2>2. Only(<<>>, W) = <<>> /\ <<>> \in Seq(S)
    BY OnlyEmpty
  <2> QED BY <2>1, <2>2
<1>2. ASSUME NEW t \in Seq(S), NEW x \in S, t \in Q PROVE Append(t, x) \in Q
  <2>1. Append(t, x) \in Seq(S) /\ s \o t \in Seq(S)
    BY AppendProperties, ConcatProperties
  <2>2. s \o Append(t, x) = Append(s \o t, x)
    OBVIOUS
  <2>3. Only(s, W) \in Seq(S) /\ Only(t, W) \in Seq(S)
    <3>1. Only(s, W) \in Seq(S \cap W) /\ Only(t, W) \in Seq(S \cap W)
      BY OnlyType
    <3>2. S \cap W \subseteq S
      OBVIOUS
    <3> QED BY <3>1, <3>2, SeqMonotonic
  <2>4. Only(s, W) \o Append(Only(t, W), x) = Append(Only(s, W) \o Only(t, W), x)
    BY <2>3
  <2>5. Only(Append(t, x), W) = IF x \in W THEN Append(Only(t, W), x) ELSE Only(t, W)
    BY OnlyAppend
  <2>6. Only(Append(s \o t, x), W) = IF x \in W THEN Append(Only(s \o t, W), x) ELSE Only(s \o t, W)
    BY <2>1, OnlyAppend
  <2> QED BY <1>2, <2>1, <2>2, <2>4, <2>5, <2>6
<1> HIDE DEF Q
<1>3. \A t \in Seq(S) : t \in Q
  BY <1>1, <1>2, SeqInduction
<1> QED BY <1>3 DEF Q

\* Only what of the sequence is in W matters.
LEMMA OnlySame ==
    ASSUME NEW S, NEW W, NEW V, \A x \in S : x \in W <=> x \in V
    PROVE  \A s \in Seq(S) : Only(s, W) = Only(s, V)
<1> DEFINE Q == {s \in Seq(S) : Only(s, W) = Only(s, V)}
<1>1. <<>> \in Q
  BY OnlyEmpty
<1>2. ASSUME NEW s \in Seq(S), NEW x \in S, s \in Q PROVE Append(s, x) \in Q
  <2>1. Append(s, x) \in Seq(S)
    BY AppendProperties
  <2>2. /\ Only(Append(s, x), W) = IF x \in W THEN Append(Only(s, W), x) ELSE Only(s, W)
        /\ Only(Append(s, x), V) = IF x \in V THEN Append(Only(s, V), x) ELSE Only(s, V)
    BY OnlyAppend
  <2>3. Only(s, W) = Only(s, V) /\ (x \in W <=> x \in V)
    BY <1>2
  <2>4. Only(Append(s, x), W) = Only(Append(s, x), V)
    BY <2>2, <2>3
  <2> QED BY <2>1, <2>4
<1> HIDE DEF Q
<1>3. \A s \in Seq(S) : s \in Q
  BY <1>1, <1>2, SeqInduction
<1> QED BY <1>3 DEF Q

\* From a sequence over W it picks everything, from one over the rest nothing.
LEMMA OnlyAll ==
    ASSUME NEW W
    PROVE  \A s \in Seq(W) : Only(s, W) = s
<1> DEFINE Q == {s \in Seq(W) : Only(s, W) = s}
<1>1. <<>> \in Q
  BY OnlyEmpty
<1>2. ASSUME NEW s \in Seq(W), NEW x \in W, s \in Q PROVE Append(s, x) \in Q
  BY <1>2, OnlyAppend, AppendProperties
<1> HIDE DEF Q
<1>3. \A s \in Seq(W) : s \in Q
  BY <1>1, <1>2, SeqInduction
<1> QED BY <1>3 DEF Q

LEMMA OnlyNone ==
    ASSUME NEW S, NEW W, S \cap W = {}
    PROVE  \A s \in Seq(S) : Only(s, W) = <<>>
<1>1. SUFFICES ASSUME NEW s \in Seq(S) PROVE Only(s, W) = <<>>
  OBVIOUS
<1>2. Only(s, W) \in Seq({})
  BY OnlyType
<1> QED BY <1>2

\* It keeps the order.
Rising(s) == \A i, j \in 1 .. Len(s) : i < j => s[i] < s[j]

LEMMA OnlyRises ==
    ASSUME NEW S, S \subseteq Int, NEW W
    PROVE  \A s \in Seq(S) : Rising(s) => Rising(Only(s, W))
<1> DEFINE Q == {s \in Seq(S) : Rising(s) => Rising(Only(s, W)) /\ \A i \in 1 .. Len(Only(s, W)) :
                                                \E j \in 1 .. Len(s) : Only(s, W)[i] = s[j]}
<1>1. <<>> \in Q
  <2>1. Only(<<>>, W) = <<>> /\ <<>> \in Seq(S) /\ Len(<<>>) = 0
    BY OnlyEmpty
  <2> QED BY <2>1 DEF Rising
<1>2. ASSUME NEW s \in Seq(S), NEW x \in S, s \in Q PROVE Append(s, x) \in Q
  <2> DEFINE t == Append(s, x)
             o == Only(s, W)
  <2>1. t \in Seq(S) /\ Len(t) = Len(s) + 1 /\ t[Len(s) + 1] = x /\ \A i \in 1 .. Len(s) : t[i] = s[i]
    BY AppendProperties
  <2>2. Len(s) \in Nat
    BY LenProperties
  <2>3. o \in Seq(S)
    <3>1. o \in Seq(S \cap W) /\ S \cap W \subseteq S
      BY OnlyType
    <3> QED BY <3>1, SeqMonotonic
  <2>4. Only(t, W) = IF x \in W THEN Append(o, x) ELSE o
    BY OnlyAppend
  <2> SUFFICES ASSUME Rising(t)
               PROVE  Rising(Only(t, W)) /\ \A i \in 1 .. Len(Only(t, W)) :
                                               \E j \in 1 .. Len(t) : Only(t, W)[i] = t[j]
    BY <2>1
  <2> HIDE DEF t, o
  <2>5. Rising(s) /\ \A i \in 1 .. Len(s) : s[i] < x
    <3>1. \A i \in 1 .. Len(s) : i \in 1 .. Len(t) /\ i < Len(s) + 1
      BY <2>1, <2>2
    <3>2. Len(s) + 1 \in 1 .. Len(t)
      BY <2>1, <2>2
    <3>3. \A i, j \in 1 .. Len(t) : i < j => t[i] < t[j]
      BY DEF Rising
    <3>4. \A i, j \in 1 .. Len(s) : i < j => s[i] < s[j]
      BY <2>1, <3>1, <3>3
    <3>5. \A i \in 1 .. Len(s) : s[i] < x
      BY <2>1, <3>1, <3>2, <3>3
    <3> QED BY <3>4, <3>5 DEF Rising
  <2>6. Rising(o) /\ \A i \in 1 .. Len(o) : \E j \in 1 .. Len(s) : o[i] = s[j]
    BY <1>2, <2>5 DEF o
  <2>7. \A i \in 1 .. Len(o) : \E j \in 1 .. Len(t) : o[i] = t[j]
    BY <2>1, <2>2, <2>6
  <2>8. \A i \in 1 .. Len(o) : o[i] < x
    BY <2>5, <2>6
  <2>9. CASE x \notin W
    BY <2>4, <2>6, <2>7, <2>9
  <2>10. CASE x \in W
    <3> DEFINE q == Append(o, x)
    <3>1. Len(q) = Len(o) + 1 /\ q[Len(o) + 1] = x /\ \A i \in 1 .. Len(o) : q[i] = o[i]
      BY <2>3, AppendProperties
    <3>2. Len(o) \in Nat
      BY <2>3, LenProperties
    <3> HIDE DEF q
    <3>3. Rising(q)
      BY <2>6, <2>8, <3>1, <3>2 DEF Rising
    <3>4. \A i \in 1 .. Len(q) : \E j \in 1 .. Len(t) : q[i] = t[j]
      BY <2>1, <2>2, <2>7, <3>1, <3>2
    <3> QED BY <2>4, <2>10, <3>3, <3>4 DEF q
  <2> QED BY <2>9, <2>10
<1> HIDE DEF Q
<1>3. \A s \in Seq(S) : s \in Q
  BY <1>1, <1>2, SeqInduction
<1> QED BY <1>3 DEF Q

\* It misses nothing.
LEMMA OnlyHas ==
    ASSUME NEW S, NEW W
    PROVE  \A s \in Seq(S) : \A i \in 1 .. Len(s) :
               s[i] \in W => \E j \in 1 .. Len(Only(s, W)) : Only(s, W)[j] = s[i]
<1> DEFINE Has(s) == \A i \in 1 .. Len(s) : s[i] \in W => \E j \in 1 .. Len(Only(s, W)) : Only(s, W)[j] = s[i]
           Q == {s \in Seq(S) : Has(s)}
<1>1. <<>> \in Q
  OBVIOUS
<1>2. ASSUME NEW s \in Seq(S), NEW x \in S, s \in Q PROVE Append(s, x) \in Q
  <2> DEFINE t == Append(s, x)
             o == Only(s, W)
  <2>1. t \in Seq(S) /\ Len(t) = Len(s) + 1 /\ t[Len(s) + 1] = x /\ \A i \in 1 .. Len(s) : t[i] = s[i]
    BY AppendProperties
  <2>2. Len(s) \in Nat
    BY LenProperties
  <2>3. o \in Seq(S \cap W)
    BY OnlyType
  <2>4. Only(t, W) = IF x \in W THEN Append(o, x) ELSE o
    BY OnlyAppend
  <2>5. \A i \in 1 .. Len(s) : s[i] \in W => \E j \in 1 .. Len(o) : o[j] = s[i]
    BY <1>2
  <2> HIDE DEF t, o
  <2>6. x \in W => /\ Len(Only(t, W)) = Len(o) + 1
                   /\ Only(t, W)[Len(o) + 1] = x
                   /\ \A j \in 1 .. Len(o) : Only(t, W)[j] = o[j]
    BY <2>3, <2>4, AppendProperties
  <2>7. Len(o) \in Nat
    BY <2>3, LenProperties
  <2>8. ASSUME NEW i \in 1 .. Len(t), t[i] \in W
        PROVE  \E j \in 1 .. Len(Only(t, W)) : Only(t, W)[j] = t[i]
    <3>1. CASE i \in 1 .. Len(s)
      <4>1. PICK j \in 1 .. Len(o) : o[j] = t[i]
        BY <2>1, <2>5, <2>8, <3>1
      <4>2. CASE x \in W
        BY <2>6, <2>7, <4>1, <4>2
      <4>3. CASE x \notin W
        BY <2>4, <4>1, <4>3
      <4> QED BY <4>2, <4>3
    <3>2. CASE i = Len(s) + 1
      BY <2>1, <2>6, <2>7, <2>8, <3>2
    <3> QED BY <2>1, <2>2, <3>1, <3>2
  <2> QED BY <2>1, <2>8 DEF t
<1> HIDE DEF Q
<1>3. \A s \in Seq(S) : s \in Q
  BY <1>1, <1>2, SeqInduction
<1> QED BY <1>3 DEF Q

\* Where a sequence rises, its end has nothing of its beginning.
LEMMA RisesApart ==
    ASSUME NEW S, S \subseteq Int, NEW s \in Seq(S), NEW t \in Seq(S), Rising(s \o t)
    PROVE  \A i \in 1 .. Len(s) : \A j \in 1 .. Len(t) : s[i] < t[j]
<1> SUFFICES ASSUME NEW i \in 1 .. Len(s), NEW j \in 1 .. Len(t) PROVE s[i] < t[j]
  OBVIOUS
<1> DEFINE r == s \o t
<1>1. Len(s) \in Nat /\ Len(t) \in Nat
  BY LenProperties
<1>2. Len(r) = Len(s) + Len(t) /\ r[i] = s[i] /\ r[Len(s) + j] = t[j]
  BY ConcatProperties
<1> HIDE DEF r
<1>3. i \in 1 .. Len(r) /\ Len(s) + j \in 1 .. Len(r) /\ i < Len(s) + j
  BY <1>1, <1>2
<1>4. \A k, m \in 1 .. Len(r) : k < m => r[k] < r[m]
  BY DEF Rising, r
<1> QED BY <1>2, <1>3, <1>4

\* A file that is begun anew takes with it what is unread, and nothing else.
LEMMA ForgetsUnread ==
    ASSUME NEW S, S \subseteq Int, NEW W, NEW p \in Seq(S \cap W), NEW u \in Seq(S),
           Rising(p \o Only(u, W))
    PROVE  Only(p \o Only(u, W), S \ Range(u)) = p
<1> DEFINE V == S \ Range(u)
           o == Only(u, W)
<1>1. Range(u) \subseteq S /\ u \in Seq(Range(u)) /\ \A x \in Range(u) : \E i \in 1 .. Len(u) : u[i] = x
  BY DEF Range
<1>2. o \in Seq(S) /\ o \in Seq(Range(u))
  <2>1. o \in Seq(S \cap W) /\ o \in Seq(Range(u) \cap W)
    BY <1>1, OnlyType
  <2> HIDE DEF o
  <2> QED BY <2>1
<1>3. p \in Seq(S)
  OBVIOUS
<1>4. \A i \in 1 .. Len(p) : \A j \in 1 .. Len(o) : p[i] < o[j]
  BY <1>2, <1>3, RisesApart
<1>5. \A i \in 1 .. Len(p) : p[i] \in V
  <2> SUFFICES ASSUME NEW i \in 1 .. Len(p), p[i] \in Range(u) PROVE FALSE
    OBVIOUS
  <2>1. PICK k \in 1 .. Len(u) : u[k] = p[i]
    BY <1>1
  <2>2. p[i] \in W /\ p[i] \in Int
    <3>1. p[i] \in S \cap W
      BY ElementOfSeq
    <3> QED BY <3>1
  <2>3. PICK j \in 1 .. Len(o) : o[j] = p[i]
    BY <2>1, <2>2, OnlyHas
  <2> HIDE DEF o
  <2>4. p[i] < p[i]
    BY <1>4, <2>3
  <2> QED BY <2>2, <2>4
<1>6. p \in Seq(V)
  BY <1>3, <1>5
<1>7. Only(p, V) = p
  <2> HIDE DEF V
  <2> QED BY <1>6, OnlyAll
<1>8. Only(o, V) = <<>>
  <2>1. Range(u) \cap V = {}
    OBVIOUS
  <2> HIDE DEF V, o
  <2> QED BY <1>2, <2>1, OnlyNone
<1>9. Only(p \o o, V) = Only(p, V) \o Only(o, V)
  <2> HIDE DEF V, o
  <2> QED BY <1>2, <1>3, OnlyConcat
<1> HIDE DEF V, o
<1>10. p \o <<>> = p
  BY <1>3, ConcatEmptySeq
<1> QED BY <1>7, <1>8, <1>9, <1>10 DEF V, o

LEMMA SeqOver ==
    ASSUME NEW S, NEW V, NEW s \in Seq(S), \A i \in 1 .. Len(s) : s[i] \in V
    PROVE  s \in Seq(V)
OBVIOUS

\* A sequence of one line, and what is left without a line.
OneLine(f, x) == Len(f) = 1 /\ f[1] = x
Without(S, x) == S \ {x}

\* One line goes from among the others.
LEMMA ForgetsOne ==
    \A S : S \subseteq Int =>
        \A p, q, one \in Seq(S) : \A x \in S :
            OneLine(one, x) /\ Rising(p \o (one \o q)) => Only(p \o (one \o q), Without(S, x)) = p \o q
<1> SUFFICES ASSUME NEW S, S \subseteq Int, NEW p \in Seq(S), NEW q \in Seq(S), NEW one \in Seq(S), NEW x \in S,
                    OneLine(one, x), Rising(p \o (one \o q))
             PROVE  Only(p \o (one \o q), Without(S, x)) = p \o q
  OBVIOUS
<1> DEFINE V == S \ {x}
           r == one \o q
<1>0. Len(one) = 1 /\ one[1] = x
  BY DEF OneLine
<1>1. r \in Seq(S) /\ one \in Seq({x})
  <2>1. one \in Seq({x})
    <3>1. \A i \in 1 .. Len(one) : one[i] \in {x}
      BY <1>0
    <3> QED BY <3>1, SeqOver
  <2>2. r \in Seq(S)
    BY ConcatProperties
  <2> QED BY <2>1, <2>2
<1>2. Len(r) = 1 + Len(q) /\ r[1] = x /\ \A j \in 1 .. Len(q) : r[1 + j] = q[j]
  <2>1. /\ Len(r) = Len(one) + Len(q)
        /\ \A i \in 1 .. Len(one) + Len(q) : r[i] = IF i =< Len(one) THEN one[i] ELSE q[i - Len(one)]
    BY ConcatProperties
  <2>2. Len(q) \in Nat
    BY LenProperties
  <2> HIDE DEF r
  <2> QED BY <1>0, <2>1, <2>2
<1>3. Len(q) \in Nat
  BY LenProperties
<1> HIDE DEF r
<1>4. \A i \in 1 .. Len(p) : \A j \in 1 .. Len(r) : p[i] < r[j]
  BY <1>1, RisesApart DEF r
<1>5. \A i \in 1 .. Len(p) : p[i] \in V
  BY <1>2, <1>3, <1>4
<1>6. Rising(r)
  <2> DEFINE s == p \o r
  <2>1. Len(s) = Len(p) + Len(r) /\ \A i \in 1 .. Len(r) : s[Len(p) + i] = r[i]
    BY <1>1, ConcatProperties
  <2>2. Len(p) \in Nat /\ Len(r) \in Nat
    BY <1>1, LenProperties
  <2>3. \A i, j \in 1 .. Len(s) : i < j => s[i] < s[j]
    BY DEF Rising, r
  <2> HIDE DEF s
  <2> SUFFICES ASSUME NEW i \in 1 .. Len(r), NEW j \in 1 .. Len(r), i < j PROVE r[i] < r[j]
    BY DEF Rising
  <2>4. Len(p) + i \in 1 .. Len(s) /\ Len(p) + j \in 1 .. Len(s) /\ Len(p) + i < Len(p) + j
    BY <2>1, <2>2
  <2>5. s[Len(p) + i] < s[Len(p) + j]
    BY <2>3, <2>4
  <2> QED BY <2>1, <2>5
<1>7. \A j \in 1 .. Len(q) : q[j] \in V
  <2> SUFFICES ASSUME NEW j \in 1 .. Len(q) PROVE q[j] # x /\ q[j] \in S
    OBVIOUS
  <2>1. \A i, k \in 1 .. Len(r) : i < k => r[i] < r[k]
    BY <1>6 DEF Rising
  <2>2. 1 \in 1 .. Len(r) /\ 1 + j \in 1 .. Len(r) /\ 1 < 1 + j
    BY <1>2, <1>3
  <2>3. r[1] < r[1 + j]
    BY <2>1, <2>2
  <2> QED BY <1>2, <2>3
<1> HIDE DEF V
<1>8. p \in Seq(V) /\ q \in Seq(V)
  BY <1>5, <1>7, SeqOver
<1>9. Only(p, V) = p /\ Only(q, V) = q
  BY <1>8, OnlyAll
<1>10. Only(one, V) = <<>>
  <2>1. {x} \cap V = {}
    BY DEF V
  <2> QED BY <1>1, <2>1, OnlyNone
<1>11. Only(p \o r, V) = Only(p, V) \o Only(r, V)
  BY <1>1, OnlyConcat
<1>12. Only(r, V) = Only(one, V) \o Only(q, V)
  BY <1>1, OnlyConcat DEF r
<1>13. <<>> \o q = q
  BY ConcatEmptySeq
<1> QED BY <1>9, <1>10, <1>11, <1>12, <1>13 DEF V, r, Without

\* What is picked twice.
LEMMA OnlyTwice ==
    ASSUME NEW S, NEW W, NEW V
    PROVE  \A s \in Seq(S) : Only(Only(s, W), V) = Only(s, W \cap V)
<1> DEFINE Q == {s \in Seq(S) : Only(Only(s, W), V) = Only(s, W \cap V)}
<1>1. <<>> \in Q
  <2>1. <<>> \in Seq(S) /\ Only(<<>>, W) = <<>> /\ Only(<<>>, V) = <<>> /\ Only(<<>>, W \cap V) = <<>>
    BY OnlyEmpty
  <2> QED BY <2>1
<1>2. ASSUME NEW s \in Seq(S), NEW x \in S, s \in Q PROVE Append(s, x) \in Q
  <2>1. Append(s, x) \in Seq(S)
    BY AppendProperties
  <2>2. Only(s, W) \in Seq(S)
    <3>1. Only(s, W) \in Seq(S \cap W)
      BY OnlyType
    <3> QED BY <3>1, SeqMonotonic
  <2>3. /\ Only(Append(s, x), W) = IF x \in W THEN Append(Only(s, W), x) ELSE Only(s, W)
        /\ Only(Append(s, x), W \cap V) = IF x \in W \cap V THEN Append(Only(s, W \cap V), x) ELSE Only(s, W \cap V)
        /\ Only(Append(Only(s, W), x), V)
             = IF x \in V THEN Append(Only(Only(s, W), V), x) ELSE Only(Only(s, W), V)
    BY <2>2, OnlyAppend
  <2>4. Only(Only(s, W), V) = Only(s, W \cap V)
    BY <1>2
  <2>5. Only(Only(Append(s, x), W), V) = Only(Append(s, x), W \cap V)
    <3>1. CASE x \in W
      <4>1. Only(Append(s, x), W) = Append(Only(s, W), x)
        BY <2>3, <3>1
      <4>2. CASE x \in V
        <5>1. Only(Append(Only(s, W), x), V) = Append(Only(Only(s, W), V), x)
          BY <2>3, <4>2
        <5>2. Only(Append(s, x), W \cap V) = Append(Only(s, W \cap V), x)
          BY <2>3, <3>1, <4>2
        <5> QED BY <2>4, <4>1, <5>1, <5>2
      <4>3. CASE x \notin V
        <5>1. Only(Append(Only(s, W), x), V) = Only(Only(s, W), V)
          BY <2>3, <4>3
        <5>2. Only(Append(s, x), W \cap V) = Only(s, W \cap V)
          BY <2>3, <4>3
        <5> QED BY <2>4, <4>1, <5>1, <5>2
      <4> QED BY <4>2, <4>3
    <3>2. CASE x \notin W
      BY <2>3, <2>4, <3>2
    <3> QED BY <3>1, <3>2
  <2> QED BY <2>1, <2>5
<1> HIDE DEF Q
<1>3. \A s \in Seq(S) : s \in Q
  BY <1>1, <1>2, SeqInduction
<1> QED BY <1>3 DEF Q

\* What is picked, as a set.
LEMMA OnlyRange ==
    ASSUME NEW S, NEW W, NEW s \in Seq(S)
    PROVE  Range(Only(s, W)) = Range(s) \cap W
<1> DEFINE o == Only(s, W)
<1>1. s \in Seq(Range(s)) /\ Range(s) = {s[i] : i \in 1 .. Len(s)}
  BY SeqOfRange, RangeEquality
<1>2. o \in Seq(Range(s) \cap W)
  BY <1>1, OnlyType
<1>3. \A i \in 1 .. Len(s) : s[i] \in W => \E j \in 1 .. Len(o) : o[j] = s[i]
  BY OnlyHas
<1> HIDE DEF o
<1>4. Range(o) \subseteq Range(s) \cap W /\ Range(o) = {o[i] : i \in 1 .. Len(o)}
  BY <1>2, RangeOfSeq, RangeEquality
<1>5. Range(s) \cap W \subseteq Range(o)
  BY <1>1, <1>3, <1>4
<1> QED BY <1>4, <1>5 DEF o

\* A watcher stops in a reload and with nothing left to fire; a bus is drained
\* once its watcher has stopped, its cron runs are over and its queues are empty.
Ordered ==
    /\ watcher.stage = "stopped" => stage # "up" /\ watcher.unfired = <<>>
    /\ stage # "up" => gen < Generations
    /\ stage = "draining" =>
        /\ watcher.stage = "stopped"
        /\ \A h \in CronHooks : cron[gen][h] = 0
        /\ \A h \in Hooks : slots[gen][h].pending = <<>>

\* A bus is cancelled only to be drained.
Cancelled ==
    /\ \A g \in cancelled : g =< gen
    /\ gen \in cancelled => stage = "draining"

\* A cron loop waits for its run.
Single == \A h \in CronHooks : cron[gen][h] =< 1

\* Only the generation that is up has workers and cron runs.
Alone ==
    \A g \in Gens : g # gen =>
        /\ \A h \in Hooks : ~slots[g][h].running
        /\ \A h \in CronHooks : cron[g][h] = 0

\* A run and a firing that waits both have a worker.
Staffed == \A g \in Gens : \A h \in Hooks :
    slots[g][h].run # None \/ slots[g][h].pending # <<>> => slots[g][h].running

\* The inductive invariant.  Alone needs Staffed: what the drained bus has no
\* worker for, it neither runs nor holds back.
IInv == TypeOK /\ Ordered /\ Cancelled /\ Single /\ Alone /\ Staffed

LEMMA InitInv == Init => IInv
<1> SUFFICES ASSUME Init PROVE IInv
  OBVIOUS
<1>1. gen \in Gens /\ 0 \in 0 .. MaxLines
  BY HooksAssumption DEF Init, Gens
<1>2. <<>> \in Seq(Kinds) /\ <<>> \in Seq(Lines) /\ Len(<<>>) = 0
  OBVIOUS
<1>3. TypeOK
  <2>1. watcher \in [stage : {"polling", "stopped"}, offset : 0 .. MaxLines,
                     unfired : Seq(Lines), renewed : BOOLEAN]
    BY <1>1, <1>2 DEF Init, Watching
  <2>2. FreshSlot \in Slot
        /\ Len(FreshSlot.pending) = 0
    BY <1>2 DEF FreshSlot, Slot
  <2>3. slots \in [Gens -> [Hooks -> Slot]]
        /\ \A g \in Gens : \A h \in Hooks : Len(slots[g][h].pending) =< QueueCap
    BY <2>2, HooksAssumption DEF Init
  <2>4. /\ cron \in [Gens -> [CronHooks -> Nat]]
        /\ held \subseteq Runs /\ faults \in 0 .. MaxFaults /\ again \subseteq Lines
    BY HooksAssumption DEF Init
  <2>5. kinds \in Seq(Kinds) /\ Len(kinds) =< MaxLines /\ log \in Seq(Lines) /\ Len(log) =< Len(kinds)
    BY <1>2, HooksAssumption DEF Init
  <2> QED BY <1>1, <2>1, <2>3, <2>4, <2>5 DEF Init, TypeOK
<1>4. Ordered /\ Cancelled /\ Single /\ Alone /\ Staffed
  BY <1>1 DEF Init, Ordered, Cancelled, Single, Alone, Staffed, Watching, FreshSlot
<1> QED BY <1>3, <1>4 DEF IInv

-----------------------------------------------------------------------------
\* What the worker writes touches the log alone, and asks the watcher to look
\* again.
LEMMA Append1Step ==
    ASSUME IInv, NEW kind \in Kinds, Append1(kind), session' \in BOOLEAN
    PROVE  IInv'
<1> DEFINE line == Len(kinds) + 1
<1>1. line \in Lines /\ kinds' \in Seq(Kinds) /\ Len(kinds') = line /\ Len(kinds') =< MaxLines
  BY HooksAssumption, AppendProperties DEF IInv, TypeOK, Append1, Lines
<1>2. log' \in Seq(Lines) /\ Len(log') =< Len(kinds')
  <2>1. log' = <<line>> \/ log' = Append(log, line)
    BY DEF Append1
  <2>2. CASE log' = <<line>>
    BY <1>1, <2>2
  <2>3. CASE log' = Append(log, line)
    BY <1>1, <2>3, AppendProperties DEF IInv, TypeOK
  <2> QED BY <2>1, <2>2, <2>3
<1>3. watcher' = [stage |-> watcher.stage, offset |-> watcher.offset,
                  unfired |-> watcher.unfired, renewed |-> watcher'.renewed]
      /\ watcher'.renewed \in BOOLEAN
  BY DEF IInv, TypeOK, Append1
<1>4. UNCHANGED <<gen, stage, slots, cancelled, cron, held, faults, again>>
  BY DEF Append1, bus, looks
<1>5. TypeOK'
  BY <1>1, <1>2, <1>3, <1>4 DEF IInv, TypeOK
<1>6. Ordered' /\ Cancelled' /\ Single' /\ Alone' /\ Staffed'
  BY <1>3, <1>4 DEF IInv, Ordered, Cancelled, Single, Alone, Staffed
<1> QED BY <1>5, <1>6 DEF IInv

LEMMA WriterStep ==
    ASSUME IInv, SessionStarts \/ ItemStarts \/ SessionStops \/ WorkerDies
    PROVE  IInv'
<1>1. CASE SessionStarts
  BY <1>1, Append1Step DEF SessionStarts, Kinds
<1>2. CASE ItemStarts
  BY <1>2, Append1Step DEF ItemStarts, Kinds, IInv, TypeOK
<1>3. CASE SessionStops
  BY <1>3, Append1Step DEF SessionStops, Kinds
<1>4. CASE WorkerDies
  <2>1. /\ session' \in BOOLEAN
        /\ UNCHANGED <<kinds, log, gen, stage, watcher, slots, cancelled, cron, held, due, begun, faults, again>>
    BY <1>4 DEF WorkerDies, bus, looks
  <2>2. TypeOK'
    BY <2>1 DEF IInv, TypeOK
  <2> QED BY <2>1, <2>2 DEF IInv, Ordered, Cancelled, Single, Alone, Staffed
<1> QED BY <1>1, <1>2, <1>3, <1>4

-----------------------------------------------------------------------------
LEMMA SeenType ==
    ASSUME IInv
    PROVE  Seen \in Seq(Lines) /\ Range(Seen) \subseteq Lines
<1>1. Len(log) \in Nat /\ watcher.offset \in Nat /\ log \in Seq(Lines) /\ <<>> \in Seq(Lines)
  BY LenProperties, HooksAssumption DEF IInv, TypeOK
<1>2. ~Dropped => SubSeq(log, 1, watcher.offset) \in Seq(Lines)
  <2> SUFFICES ASSUME ~Dropped PROVE SubSeq(log, 1, watcher.offset) \in Seq(Lines)
    OBVIOUS
  <2>1. watcher.offset =< Len(log)
    BY <1>1 DEF Dropped
  <2>2. \A i \in 1 .. watcher.offset : log[i] \in Lines
    BY <1>1, <2>1, ElementOfSeq
  <2> QED BY <1>1, <2>2, SubSeqProperties
<1>3. Seen \in Seq(Lines)
  BY <1>1, <1>2 DEF Seen
<1>4. Range(Seen) \subseteq Lines
  BY <1>3 DEF Range
<1> QED BY <1>3, <1>4

\* A watcher that looks has not stopped.
LEMMA PollStep ==
    ASSUME IInv, Poll
    PROVE  IInv'
<1> DEFINE from == ReadFrom(watcher.offset)
<1>1. from \in 0 .. MaxLines /\ Len(log) \in 0 .. MaxLines
  BY HooksAssumption, LenProperties DEF IInv, TypeOK, ReadFrom
<1>2. SubSeq(log, from + 1, Len(log)) \in Seq(Lines)
  BY <1>1, SubSeqProperties DEF IInv, TypeOK
<1>3. watcher' = [stage |-> "polling", offset |-> IF Len(log) < from THEN from ELSE Len(log),
                  unfired |-> SubSeq(log, from + 1, Len(log)), renewed |-> FALSE]
  BY DEF IInv, TypeOK, Poll
<1>4. UNCHANGED <<kinds, log, session, gen, stage, slots, cancelled, cron, held, faults, again>>
  BY DEF Poll, writer, bus, looks
<1> HIDE DEF from
<1>5. watcher' \in [stage : {"polling", "stopped"}, offset : 0 .. MaxLines,
                    unfired : Seq(Lines), renewed : BOOLEAN]
  BY <1>1, <1>2, <1>3
<1>6. TypeOK'
  BY <1>4, <1>5 DEF IInv, TypeOK
<1>7. stage # "draining" /\ watcher'.stage = "polling"
  BY <1>3 DEF IInv, Ordered, Poll
<1>8. Ordered' /\ Cancelled' /\ Single' /\ Alone' /\ Staffed'
  BY <1>4, <1>7 DEF IInv, Ordered, Cancelled, Single, Alone, Staffed
<1> QED BY <1>6, <1>8 DEF IInv

\* So has one whose look failed not.
LEMMA LookFailsStep ==
    ASSUME IInv, LookFails
    PROVE  IInv'
<1>1. UNCHANGED <<kinds, log, session, gen, stage, slots, cancelled, cron, held>>
  BY DEF LookFails, writer, bus
<1>2. Len(log) \in 0 .. MaxLines /\ ReadFrom(watcher.offset) \in 0 .. MaxLines /\ <<>> \in Seq(Lines)
  BY HooksAssumption, LenProperties DEF IInv, TypeOK, ReadFrom
<1>3. ASSUME NEW offset \in 0 .. MaxLines, NEW lines \in Seq(Lines), LeftAt(offset, lines)
      PROVE  /\ watcher' \in [stage : {"polling", "stopped"}, offset : 0 .. MaxLines,
                               unfired : Seq(Lines), renewed : BOOLEAN]
             /\ watcher'.stage = "polling"
  BY <1>3 DEF LeftAt, LookFails, IInv, TypeOK
<1>4. /\ watcher' \in [stage : {"polling", "stopped"}, offset : 0 .. MaxLines,
                        unfired : Seq(Lines), renewed : BOOLEAN]
      /\ watcher'.stage = "polling"
  <2>1. LeftAt(0, <<>>) \/ LeftAt(Len(log), log) \/ LeftAt(ReadFrom(watcher.offset), <<>>)
    BY DEF LookFails
  <2>2. 0 \in 0 .. MaxLines /\ log \in Seq(Lines)
    BY HooksAssumption DEF IInv, TypeOK
  <2> QED BY <1>2, <1>3, <2>1, <2>2
<1>5. faults' \in 0 .. MaxFaults /\ again' \subseteq Lines
  <2>1. faults' = faults + 1 /\ faults < MaxFaults
    BY DEF LookFails
  <2>2. Range(Seen) \subseteq Lines
    BY SeenType
  <2>3. again' = again \/ again' = again \cup Range(Seen)
    BY DEF LookFails
  <2> QED BY <2>1, <2>2, <2>3, HooksAssumption DEF IInv, TypeOK
<1>6. TypeOK'
  BY <1>1, <1>4, <1>5 DEF IInv, TypeOK
<1>7. stage # "draining"
  BY DEF IInv, Ordered, LookFails
<1>8. Ordered' /\ Cancelled' /\ Single' /\ Alone' /\ Staffed'
  BY <1>1, <1>4, <1>7 DEF IInv, Ordered, Cancelled, Single, Alone, Staffed
<1> QED BY <1>6, <1>8 DEF IInv

\* A firing comes in while the watcher has not stopped, so into a bus that is
\* not cancelled, and with a worker.
LEMMA FireStep ==
    ASSUME IInv, Fire
    PROVE  IInv'
<1> DEFINE line == Head(watcher.unfired)
<1>1. line \in Lines /\ Tail(watcher.unfired) \in Seq(Lines)
  BY HeadTailProperties DEF IInv, TypeOK, Fire
<1>2. watcher' = [watcher EXCEPT !.unfired = Tail(@)]
      /\ UNCHANGED <<kinds, log, session, gen, stage, cancelled, cron, held, faults, again>>
  BY DEF Fire, writer, looks
<1>3. watcher.stage = "polling" /\ stage # "draining" /\ watcher'.stage = "polling"
  BY <1>2 DEF IInv, TypeOK, Ordered, Fire
<1>4. gen \in Gens /\ slots[gen] \in [Hooks -> Slot]
  BY DEF IInv, TypeOK
<1>5. \A h \in Hooks : slots'[gen][h] =
         IF kinds[line] # Trigger(h) \/ Overrun(h, line) THEN slots[gen][h] ELSE Queued(slots[gen][h], line)
  BY <1>4 DEF Fire, IInv, TypeOK
<1>6. slots' \in [Gens -> [Hooks -> Slot]]
      /\ \A g \in Gens : g # gen => slots'[g] = slots[g]
  <2>1. ASSUME NEW h \in Hooks
        PROVE  Queued(slots[gen][h], line) \in Slot
    <3>1. slots[gen][h] \in Slot
      BY <1>4
    <3>2. Append(slots[gen][h].pending, line) \in Seq(Lines)
      BY <1>1, <3>1, AppendProperties DEF Slot
    <3> HIDE DEF line
    <3>3. ASSUME NEW slot \in Slot, NEW queue \in Seq(Lines)
          PROVE  [slot EXCEPT !.pending = queue, !.running = TRUE] \in Slot
      BY DEF Slot
    <3>4. Queued(slots[gen][h], line) = [slots[gen][h] EXCEPT !.pending = Append(slots[gen][h].pending, line),
                                                              !.running = TRUE]
      BY DEF Queued
    <3> QED BY <3>1, <3>2, <3>3, <3>4
  <2> HIDE DEF line
  <2>2. [h \in Hooks |-> IF kinds[line] # Trigger(h) \/ Overrun(h, line) THEN slots[gen][h]
                         ELSE Queued(slots[gen][h], line)]
          \in [Hooks -> Slot]
    BY <1>4, <2>1
  <2> QED BY <1>4, <2>2 DEF Fire, IInv, TypeOK, line
<1> HIDE DEF line
<1>7. ASSUME NEW h \in Hooks, slots'[gen][h] # slots[gen][h]
      PROVE  /\ Len(slots[gen][h].pending) < QueueCap
             /\ slots'[gen][h].pending = Append(slots[gen][h].pending, line)
             /\ slots'[gen][h].running
  <2>1. slots[gen][h] \in Slot
    BY <1>4
  <2>2. kinds[line] = Trigger(h) /\ ~Overrun(h, line) /\ slots'[gen][h] = Queued(slots[gen][h], line)
    BY <1>5, <1>7
  <2>3. Len(slots[gen][h].pending) < QueueCap
    BY <2>1, <2>2, HooksAssumption, LenProperties DEF Overrun, Slot
  <2> QED BY <2>1, <2>2, <2>3 DEF Queued, Slot
<1>8. \A g \in Gens : \A h \in Hooks : Len(slots'[g][h].pending) =< QueueCap
  <2> SUFFICES ASSUME NEW g \in Gens, NEW h \in Hooks
               PROVE  Len(slots'[g][h].pending) =< QueueCap
    OBVIOUS
  <2>1. slots[g][h] \in Slot
        /\ Len(slots[g][h].pending) =< QueueCap
    BY DEF IInv, TypeOK
  <2>2. CASE slots'[g][h] = slots[g][h]
    BY <2>1, <2>2
  <2>3. CASE slots'[g][h] # slots[g][h]
    <3>1. g = gen
      BY <1>6, <2>3
    <3>2. Len(slots[g][h].pending) < QueueCap /\ slots'[g][h].pending = Append(slots[g][h].pending, line)
      BY <1>7, <2>1, <2>3, <3>1
    <3>3. Len(slots'[g][h].pending) = Len(slots[g][h].pending) + 1
      BY <1>1, <2>1, <3>2, AppendProperties DEF line
    <3> QED BY <2>1, <3>2, <3>3, HooksAssumption, LenProperties
  <2> QED BY <2>2, <2>3
<1>9. TypeOK'
  BY <1>1, <1>2, <1>6, <1>8 DEF IInv, TypeOK, line
<1>10. Ordered' /\ Cancelled' /\ Single'
  BY <1>2, <1>3 DEF IInv, Ordered, Cancelled, Single
<1>11. Alone'
  BY <1>2, <1>6 DEF IInv, Alone
<1>12. Staffed'
  <2> SUFFICES ASSUME NEW g \in Gens, NEW h \in Hooks,
                      slots'[g][h].run # None \/ slots'[g][h].pending # <<>>
               PROVE  slots'[g][h].running
    BY DEF Staffed
  <2>1. CASE slots'[g][h] = slots[g][h]
    BY <2>1 DEF IInv, Staffed
  <2>2. CASE slots'[g][h] # slots[g][h]
    BY <1>4, <1>6, <1>7, <2>2
  <2> QED BY <2>1, <2>2
<1> QED BY <1>9, <1>10, <1>11, <1>12 DEF IInv

LEMMA WatcherStopsStep ==
    ASSUME IInv, WatcherStops
    PROVE  IInv'
<1>1. watcher' = [watcher EXCEPT !.stage = "stopped"]
      /\ UNCHANGED <<kinds, log, session, gen, stage, slots, cancelled, cron, held, faults, again>>
  BY DEF WatcherStops, writer, bus, looks
<1>2. TypeOK'
  BY <1>1 DEF IInv, TypeOK
<1>3. Ordered'
  BY <1>1 DEF IInv, TypeOK, Ordered, WatcherStops
<1>4. Cancelled' /\ Single' /\ Alone' /\ Staffed'
  BY <1>1 DEF IInv, Cancelled, Single, Alone, Staffed
<1> QED BY <1>2, <1>3, <1>4 DEF IInv

-----------------------------------------------------------------------------
\* A slot that has a worker may move on to another state that is fit for one.
LEMMA SlotStep ==
    ASSUME IInv, NEW g \in Gens, NEW h \in Hooks, NEW slot \in Slot,
           slots[g][h].running,
           Len(slot.pending) =< QueueCap,
           slots[g][h].pending = <<>> => slot.pending = <<>>,
           slot.run # None \/ slot.pending # <<>> => slot.running,
           slots' = [slots EXCEPT ![g][h] = slot],
           held' \subseteq Runs,
           UNCHANGED <<kinds, log, session, gen, stage, watcher, cancelled, cron, faults, again>>
    PROVE  IInv'
<1>1. slots' \in [Gens -> [Hooks -> Slot]]
  BY DEF IInv, TypeOK
<1>2. slots'[g][h] = slot
      /\ \A f \in Gens : \A k \in Hooks : f # g \/ k # h => slots'[f][k] = slots[f][k]
  BY DEF IInv, TypeOK
<1>3. g = gen
  BY DEF IInv, Alone
<1>4. TypeOK'
  <2>1. \A f \in Gens : \A k \in Hooks : Len(slots'[f][k].pending) =< QueueCap
    BY <1>2 DEF IInv, TypeOK
  <2> QED BY <1>1, <2>1 DEF IInv, TypeOK
<1>5. Ordered' /\ Cancelled' /\ Single'
  BY <1>2, <1>3 DEF IInv, Ordered, Cancelled, Single
<1>6. Alone' /\ Staffed'
  BY <1>2, <1>3 DEF IInv, Alone, Staffed
<1> QED BY <1>4, <1>5, <1>6 DEF IInv

LEMMA WorkerStep ==
    ASSUME IInv, NEW g \in Gens, NEW h \in Hooks, Worker(g, h)
    PROVE  IInv'
<1> DEFINE slot == slots[g][h]
<1>1. slot \in Slot /\ Len(slot.pending) =< QueueCap
  BY DEF IInv, TypeOK
<1>2. slot.running
  BY DEF Worker, Begin, Retire
<1>3. CASE Begin(g, h)
  <2>1. slot.pending \in Seq(Lines) /\ slot.pending # <<>>
    BY <1>1, <1>3 DEF Begin, Slot
  <2>2. Head(slot.pending) \in Lines /\ Tail(slot.pending) \in Seq(Lines)
        /\ Len(Tail(slot.pending)) = Len(slot.pending) - 1
    BY <2>1, HeadTailProperties
  <2>3. Len(Tail(slot.pending)) =< QueueCap
    BY <1>1, <2>1, <2>2, HooksAssumption, LenProperties
  <2> DEFINE next == [slot EXCEPT !.pending = Tail(slot.pending), !.run = Head(slot.pending)]
  <2>4. next \in Slot /\ next.running /\ next.pending = Tail(slot.pending)
    BY <1>1, <1>2, <2>2 DEF Slot
  <2>5. slots' = [slots EXCEPT ![g][h] = next]
    BY <1>3 DEF Begin
  <2>6. /\ UNCHANGED <<kinds, log, session, gen, stage, watcher, cancelled, cron, faults, again>>
        /\ held' \subseteq Runs
    BY <1>3 DEF Begin, writer, looks, IInv, TypeOK
  <2> HIDE DEF next
  <2> QED BY <1>2, <2>1, <2>3, <2>4, <2>5, <2>6, SlotStep
<1>4. CASE Retire(g, h)
  <2> DEFINE next == Retired(slot)
  <2>1. next \in Slot /\ next.run = None /\ next.pending = <<>>
    BY <1>1, <1>4 DEF Retire, Retired, Slot
  <2>2. slots' = [slots EXCEPT ![g][h] = next]
        /\ UNCHANGED <<kinds, log, session, gen, stage, watcher, cancelled, cron, faults, again>>
        /\ held' \subseteq Runs
    BY <1>4 DEF Retire, writer, looks, IInv, TypeOK
  <2>3. Len(next.pending) =< QueueCap
    BY <1>1, <1>4, <2>1 DEF Retire
  <2> HIDE DEF next
  <2> QED BY <1>2, <2>1, <2>2, <2>3, SlotStep
<1> QED BY <1>3, <1>4 DEF Worker

\* A cron loop of the generation that is up starts a run when it has none.
LEMMA CronTickStep ==
    ASSUME IInv, NEW h \in CronHooks, CronTick(h)
    PROVE  IInv'
<1>1. cron' \in [Gens -> [CronHooks -> Nat]] /\ cron'[gen][h] = 1
      /\ \A f \in Gens : \A k \in CronHooks : f # gen \/ k # h => cron'[f][k] = cron[f][k]
  BY DEF IInv, TypeOK, CronTick
<1>2. stage = "up" /\ UNCHANGED <<kinds, log, session, gen, stage, watcher, slots, cancelled, held, faults, again>>
  BY DEF CronTick, writer, looks
<1>3. TypeOK'
  BY <1>1, <1>2 DEF IInv, TypeOK
<1>4. Ordered' /\ Cancelled' /\ Staffed'
  BY <1>2 DEF IInv, Ordered, Cancelled, Staffed
<1>5. Single'
  <2> SUFFICES ASSUME NEW k \in CronHooks PROVE cron'[gen][k] =< 1
    BY <1>2 DEF Single
  <2>1. CASE k = h
    BY <1>1, <2>1
  <2>2. CASE k # h
    <3>1. cron'[gen][k] = cron[gen][k]
      BY <1>1, <2>2 DEF IInv, TypeOK
    <3> QED BY <3>1 DEF IInv, Single
  <2> QED BY <2>1, <2>2
<1>6. Alone'
  BY <1>1, <1>2 DEF IInv, Alone
<1> QED BY <1>3, <1>4, <1>5, <1>6 DEF IInv

\* A run that is over: of a hook, its worker goes on; of a cron loop, there was
\* only the one.
LEMMA OverStep ==
    ASSUME IInv, NEW g \in Gens, NEW h \in Hooks \cup CronHooks, Over(g, h), held' \subseteq Runs
    PROVE  IInv'
<1>1. UNCHANGED <<kinds, log, session, gen, stage, watcher, cancelled, faults, again>>
  BY DEF Over, writer, looks
<1>2. CASE h \in Hooks
  <2> DEFINE slot == slots[g][h]
             next == [slot EXCEPT !.run = None]
  <2>1. slot \in Slot /\ Len(slot.pending) =< QueueCap /\ slot.run # None
    BY <1>2 DEF IInv, TypeOK, Over, Going
  <2>2. slot.running
    BY <1>2, <2>1 DEF IInv, Staffed
  <2>3. next \in Slot /\ next.running /\ next.pending = slot.pending
    BY <2>1, <2>2 DEF Slot
  <2>4. slots' = [slots EXCEPT ![g][h] = next] /\ cron' = cron
    BY <1>2 DEF Over, IInv, TypeOK
  <2> HIDE DEF next
  <2> QED BY <1>1, <1>2, <2>1, <2>2, <2>3, <2>4, SlotStep
<1>3. CASE h \notin Hooks
  <2>1. h \in CronHooks /\ UNCHANGED slots /\ cron[g][h] \in Nat /\ cron[g][h] > 0
    BY <1>3 DEF IInv, TypeOK, Over, Going
  <2>2. g = gen /\ cron[g][h] = 1
    BY <2>1 DEF IInv, Alone, Single
  <2>3. cron' \in [Gens -> [CronHooks -> Nat]] /\ cron'[gen][h] = 0
        /\ \A f \in Gens : \A k \in CronHooks : f # gen \/ k # h => cron'[f][k] = cron[f][k]
    <3>1. cron' = [cron EXCEPT ![g][h] = @ - 1]
      BY <1>3 DEF Over
    <3> QED BY <2>1, <2>2, <3>1 DEF IInv, TypeOK
  <2>4. TypeOK'
    BY <1>1, <2>1, <2>3 DEF IInv, TypeOK
  <2>5. Ordered' /\ Cancelled' /\ Staffed'
    BY <1>1, <2>1, <2>3 DEF IInv, TypeOK, Ordered, Cancelled, Staffed
  <2>6. Single'
    <3> SUFFICES ASSUME NEW k \in CronHooks PROVE cron'[gen][k] =< 1
      BY <1>1 DEF Single
    <3>1. CASE k = h
      BY <2>3, <3>1
    <3>2. CASE k # h
      <4>1. cron'[gen][k] = cron[gen][k]
        BY <2>3, <3>2 DEF IInv, TypeOK
      <4> QED BY <4>1 DEF IInv, Single
    <3> QED BY <3>1, <3>2
  <2>7. Alone'
    BY <1>1, <2>1, <2>3 DEF IInv, Alone
  <2> QED BY <2>4, <2>5, <2>6, <2>7 DEF IInv
<1> QED BY <1>2, <1>3

LEMMA ProgramStep ==
    ASSUME IInv, NEW g \in Gens, NEW h \in Hooks \cup CronHooks, Program(g, h)
    PROVE  IInv'
<1>1. held \subseteq Runs /\ <<g, h>> \in Runs
  BY DEF IInv, TypeOK, Runs
<1>2. CASE RunEnds(g, h) \/ OutputCloses(g, h)
  <2>1. Over(g, h) /\ held' \subseteq Runs
    BY <1>1, <1>2 DEF RunEnds, OutputCloses
  <2> QED BY <2>1, OverStep
<1>3. CASE ProgramLeaves(g, h)
  <2>1. /\ held' \subseteq Runs
        /\ UNCHANGED <<kinds, log, session, gen, stage, watcher, slots, cancelled, cron, faults, again>>
    BY <1>1, <1>3 DEF ProgramLeaves, writer, looks
  <2>2. TypeOK'
    BY <2>1 DEF IInv, TypeOK
  <2> QED BY <2>1, <2>2 DEF IInv, Ordered, Cancelled, Single, Alone, Staffed
<1> QED BY <1>2, <1>3 DEF Program

-----------------------------------------------------------------------------
LEMMA ReloadStep ==
    ASSUME IInv, Reload
    PROVE  IInv'
<1>1. stage = "up" /\ stage' = "stopping" /\ gen < Generations
      /\ UNCHANGED <<kinds, log, session, gen, watcher, slots, cancelled, cron, held, faults, again>>
  BY DEF Reload, writer, bus, looks
<1>2. TypeOK'
  BY <1>1 DEF IInv, TypeOK
<1>3. Ordered' /\ Cancelled' /\ Single' /\ Alone' /\ Staffed'
  BY <1>1 DEF IInv, Ordered, Cancelled, Single, Alone, Staffed
<1> QED BY <1>2, <1>3 DEF IInv

\* The bus is cancelled when nobody fires any more.
LEMMA CancelAllStep ==
    ASSUME IInv, CancelAll
    PROVE  IInv'
<1>1. gen \in Gens /\ stage = "stopping" /\ stage' = "draining" /\ Joined /\ cancelled' = cancelled \cup {gen}
      /\ UNCHANGED <<kinds, log, session, gen, watcher, cron, held, faults, again>>
  BY DEF IInv, TypeOK, CancelAll, writer, looks
<1>2. ASSUME NEW slot \in Slot
      PROVE  [slot EXCEPT !.pending = <<>>] \in Slot
  <2>1. <<>> \in Seq(Lines)
    OBVIOUS
  <2> QED BY <2>1 DEF Slot
<1>3. \A h \in Hooks : slots[gen][h] \in Slot
  BY <1>1 DEF IInv, TypeOK
<1> DEFINE empty == [h \in Hooks |-> [slots[gen][h] EXCEPT !.pending = <<>>]]
<1>4. empty \in [Hooks -> Slot]
  BY <1>2, <1>3
<1>5. slots' = [slots EXCEPT ![gen] = empty]
  BY DEF CancelAll
<1>6. \A h \in Hooks : empty[h].pending = <<>> /\ empty[h].running = slots[gen][h].running
                       /\ empty[h].run = slots[gen][h].run
  BY <1>3 DEF Slot
<1> HIDE DEF empty
<1>7. slots' \in [Gens -> [Hooks -> Slot]] /\ slots'[gen] = empty
      /\ \A g \in Gens : g # gen => slots'[g] = slots[g]
  BY <1>1, <1>4, <1>5 DEF IInv, TypeOK
<1>8. TypeOK'
  <2>1. \A g \in Gens : \A h \in Hooks : Len(slots'[g][h].pending) =< QueueCap
    <3> SUFFICES ASSUME NEW g \in Gens, NEW h \in Hooks
                 PROVE  Len(slots'[g][h].pending) =< QueueCap
      OBVIOUS
    <3>1. CASE g = gen
      BY <1>6, <1>7, <3>1, HooksAssumption
    <3>2. CASE g # gen
      BY <1>7, <3>2 DEF IInv, TypeOK
    <3> QED BY <3>1, <3>2
  <2> QED BY <1>1, <1>7, <2>1 DEF IInv, TypeOK
<1>9. Ordered'
  BY <1>1, <1>6, <1>7 DEF IInv, Ordered, Joined
<1>10. Cancelled' /\ Single'
  BY <1>1 DEF IInv, TypeOK, Cancelled, Single, Gens
<1>11. Alone' /\ Staffed'
  BY <1>1, <1>6, <1>7 DEF IInv, Alone, Staffed
<1> QED BY <1>8, <1>9, <1>10, <1>11 DEF IInv

\* The bus is drained before the next generation is up.
LEMMA NextGenerationStep ==
    ASSUME IInv, NextGeneration
    PROVE  IInv'
<1>1. gen' = gen + 1 /\ stage = "draining" /\ stage' = "up" /\ Drained
      /\ UNCHANGED <<kinds, log, session, slots, cancelled, cron, held>>
  BY DEF NextGeneration, writer, bus
<1>2. gen \in Gens /\ gen' \in Gens
  BY <1>1, HooksAssumption DEF IInv, TypeOK, Ordered, Gens
<1>3. watcher' \in [stage : {"polling", "stopped"}, offset : 0 .. MaxLines,
                    unfired : Seq(Lines), renewed : BOOLEAN]
      /\ watcher'.stage = "polling"
  <2>1. Len(log) \in 0 .. MaxLines /\ 0 \in 0 .. MaxLines /\ <<>> \in Seq(Lines)
    BY HooksAssumption, LenProperties DEF IInv, TypeOK
  <2>2. ASSUME NEW offset \in 0 .. MaxLines, watcher' = Watching(offset)
        PROVE  /\ watcher' \in [stage : {"polling", "stopped"}, offset : 0 .. MaxLines,
                                unfired : Seq(Lines), renewed : BOOLEAN]
               /\ watcher'.stage = "polling"
    BY <2>1, <2>2 DEF Watching
  <2>3. \/ watcher' = Watching(Len(log))
        \/ watcher' = Watching(0)
    BY DEF NextGeneration
  <2> QED BY <2>1, <2>2, <2>3
<1>12. faults' \in 0 .. MaxFaults /\ again' \subseteq Lines
  <2>1. \/ faults' = faults
        \/ faults < MaxFaults /\ faults' = faults + 1
    BY DEF NextGeneration
  <2>2. again' = {} \/ again' = Range(log)
    BY DEF NextGeneration
  <2>3. Range(log) \subseteq Lines
    BY DEF IInv, TypeOK, Range
  <2> QED BY <2>1, <2>2, <2>3, HooksAssumption DEF IInv, TypeOK
<1>4. TypeOK'
  BY <1>1, <1>2, <1>3, <1>12 DEF IInv, TypeOK
<1>5. Ordered'
  BY <1>1, <1>3 DEF Ordered
<1>6. Cancelled'
  BY <1>1, <1>2 DEF IInv, TypeOK, Cancelled, Gens
<1>7. \A h \in Hooks : ~slots[gen][h].running
  BY <1>1 DEF Drained
<1>8. Single'
  BY <1>1, <1>2 DEF IInv, Single, Alone, Gens
<1>9. Alone'
  BY <1>1, <1>7 DEF IInv, Ordered, Alone
<1>10. Staffed'
  BY <1>1 DEF IInv, Staffed
<1> QED BY <1>4, <1>5, <1>6, <1>8, <1>9, <1>10 DEF IInv

-----------------------------------------------------------------------------
LEMMA NextInv == IInv /\ [Next]_vars => IInv'
<1> SUFFICES ASSUME IInv, [Next]_vars PROVE IInv'
  OBVIOUS
<1>1. CASE SessionStarts \/ ItemStarts \/ SessionStops \/ WorkerDies
  BY <1>1, WriterStep
<1>2. CASE Watcher
  BY <1>2, PollStep, LookFailsStep, FireStep, WatcherStopsStep DEF Watcher
<1>3. CASE \E g \in Gens : \E h \in Hooks : Worker(g, h)
  BY <1>3, WorkerStep
<1>4. CASE \/ \E g \in Gens : \E h \in Hooks \cup CronHooks : Program(g, h)
           \/ \E h \in CronHooks : CronTick(h)
  BY <1>4, CronTickStep, ProgramStep
<1>5. CASE Reload \/ Station
  BY <1>5, ReloadStep, CancelAllStep, NextGenerationStep DEF Station
<1>6. CASE UNCHANGED vars
  BY <1>6 DEF vars, writer, bus, looks, IInv, TypeOK, Ordered, Cancelled, Single, Alone, Staffed
<1> QED BY <1>1, <1>2, <1>3, <1>4, <1>5, <1>6 DEF Next

LEMMA Invariance == Spec => []IInv
BY InitInv, NextInv, PTL DEF Spec

\* The log, the watcher and the buses keep to their types, and no firing comes
\* into a queue that is full.
THEOREM TypeCorrect == Spec => []TypeOK
<1>1. IInv => TypeOK
  BY DEF IInv
<1> QED BY <1>1, Invariance, PTL

\* No hook runs beside itself, whatever the number of reloads: a generation
\* comes up over a bus without workers, and what has no worker runs nothing.
THEOREM Never_TwoCopies == Spec => []NeverTwoCopies
<1>1. IInv => NeverTwoCopies
  <2> SUFFICES ASSUME IInv PROVE NeverTwoCopies
    OBVIOUS
  <2>1. ASSUME NEW h \in Hooks, NEW g \in Gens, slots[g][h].run # None
        PROVE  g = gen
    BY <2>1 DEF IInv, Staffed, Alone
  <2>2. ASSUME NEW h \in CronHooks, NEW g \in Gens, cron[g][h] > 0
        PROVE  g = gen /\ cron[g][h] = 1
    <3>1. cron[g][h] \in Nat
      BY DEF IInv, TypeOK
    <3> QED BY <2>2, <3>1 DEF IInv, Alone, Single
  <2> QED BY <2>1, <2>2 DEF NeverTwoCopies
<1> QED BY <1>1, Invariance, PTL

\* A firing that waits has a worker, and the bus it waits in is not cancelled.
THEOREM No_FiringForgotten == Spec => []NoFiringForgotten
<1>1. IInv => NoFiringForgotten
  <2> SUFFICES ASSUME IInv, NEW g \in Gens, NEW h \in Hooks, slots[g][h].pending # <<>>
               PROVE  slots[g][h].running /\ g \notin cancelled
    BY DEF NoFiringForgotten
  <2>1. slots[g][h].running
    BY DEF IInv, Staffed
  <2>2. g = gen
    BY <2>1 DEF IInv, Alone
  <2>3. stage # "draining"
    BY <2>2 DEF IInv, Ordered
  <2> QED BY <2>1, <2>2, <2>3 DEF IInv, Cancelled
<1> QED BY <1>1, Invariance, PTL

-----------------------------------------------------------------------------
(* Every line once.                                                           *)

\* What a hook is owed, it wants, and it is owed in the order of the lines.
Owed ==
    /\ due \in [Hooks -> Seq(Lines)] /\ begun \in [Hooks -> Seq(Lines)]
    /\ \A h \in Hooks : due[h] \in Seq(LinesOf(h)) /\ Rising(due[h])

\* A line on its way has been written.
Written == log \in Seq(1 .. Len(kinds)) /\ watcher.unfired \in Seq(1 .. Len(kinds))

\* A file that is shorter than where the watcher stands is a new one.
Looked == Dropped => watcher.renewed

\* The inductive invariant behind EveryLineOnce.  It is the order that tells the
\* lines of a hook apart: none is on its way twice, so that one that is overrun,
\* or goes with the file, is taken from what is owed once.
WInv == Owed /\ Written /\ Looked /\ EveryLineOnce

LEMMA UnseenWritten ==
    ASSUME IInv, Written
    PROVE  Unseen \in Seq(1 .. Len(kinds))
<1> DEFINE K == 1 .. Len(kinds)
<1>1. Len(log) \in Nat /\ watcher.offset \in Nat
  BY LenProperties, HooksAssumption DEF IInv, TypeOK
<1>2. log \in Seq(K)
  BY DEF Written
<1> HIDE DEF K
<1>3. \A i \in 1 .. Len(log) : log[i] \in K
  BY <1>2, ElementOfSeq
<1>4. \A i \in watcher.offset + 1 .. Len(log) : log[i] \in K
  BY <1>1, <1>3
<1>5. Unread \in Seq(K)
  BY <1>1, <1>4, SubSeqProperties DEF Unread
<1> QED BY <1>2, <1>5 DEF Unseen, K

\* The stretches of the way.
LEMMA Stretches ==
    ASSUME IInv, WInv, NEW h \in Hooks
    PROVE  /\ Len(kinds) \in Nat /\ 1 .. Len(kinds) \subseteq Lines /\ LinesOf(h) \subseteq 1 .. Len(kinds)
           /\ LinesOf(h) \subseteq Lines
           /\ Unseen \in Seq(1 .. Len(kinds))
           /\ begun[h] \in Seq(Lines) /\ slots[gen][h].pending \in Seq(Lines)
           /\ Wanted(h, watcher.unfired) \in Seq(Lines) /\ Wanted(h, Unseen) \in Seq(Lines)
           /\ Len(log) \in Nat /\ watcher.offset \in Nat
<1>1. Len(kinds) \in Nat /\ 1 .. Len(kinds) \subseteq Lines /\ LinesOf(h) \subseteq 1 .. Len(kinds)
  BY HooksAssumption, LenProperties DEF IInv, TypeOK, Lines, LinesOf
<1>2. Len(log) \in Nat /\ watcher.offset \in Nat
  BY LenProperties, HooksAssumption DEF IInv, TypeOK
<1>4. Unseen \in Seq(1 .. Len(kinds))
  BY UnseenWritten DEF WInv
<1>5. begun[h] \in Seq(Lines) /\ slots[gen][h].pending \in Seq(Lines)
  BY DEF WInv, Owed, IInv, TypeOK, Slot
<1>6. ASSUME NEW s \in Seq(1 .. Len(kinds)) PROVE Wanted(h, s) \in Seq(Lines)
  <2>1. Only(s, LinesOf(h)) \in Seq((1 .. Len(kinds)) \cap LinesOf(h))
    BY OnlyType
  <2>2. (1 .. Len(kinds)) \cap LinesOf(h) \subseteq Lines
    BY <1>1
  <2> QED BY <2>1, <2>2, SeqMonotonic DEF Wanted
<1>7. Wanted(h, watcher.unfired) \in Seq(Lines) /\ Wanted(h, Unseen) \in Seq(Lines)
  BY <1>4, <1>6 DEF WInv, Written
<1> QED BY <1>1, <1>2, <1>4, <1>5, <1>7

\* One after the other.  The provers expand \o wherever they see it and lose the
\* thread: what follows reasons about this name for it.
Cat(v, w) == v \o w

LEMMA CatType == \A S : \A v1, v2 \in Seq(S) : Cat(v1, v2) \in Seq(S)
BY ConcatProperties DEF Cat

LEMMA CatAssoc == \A S : \A v1, v2, v3 \in Seq(S) : Cat(Cat(v1, v2), v3) = Cat(v1, Cat(v2, v3))
<1> SUFFICES ASSUME NEW S, NEW v1 \in Seq(S), NEW v2 \in Seq(S), NEW v3 \in Seq(S)
             PROVE  (v1 \o v2) \o v3 = v1 \o (v2 \o v3)
  BY DEF Cat
<1> QED BY ConcatAssociative

Integral(S) == S \subseteq Int
Forgets(S) ==
    \A p, q, one \in Seq(S) : \A x \in S :
        OneLine(one, x) /\ Rising(Cat(p, Cat(one, q))) => Only(Cat(p, Cat(one, q)), Without(S, x)) = Cat(p, q)

LEMMA CatForgets == \A S : Integral(S) => Forgets(S)
BY ForgetsOne DEF Cat, Integral, Forgets

\* The stretches of the way, one after the other, and what moves from one to the
\* next.
Way(a, b, t, u) == Cat(Cat(Cat(a, b), t), u)

LEMMA WayQueues ==
    ASSUME NEW S, NEW a \in Seq(S), NEW b \in Seq(S), NEW f \in Seq(S), NEW rest \in Seq(S), NEW ahead \in Seq(S)
    PROVE  Way(a, Cat(b, f), rest, ahead) = Way(a, b, Cat(f, rest), ahead)
<1>1. Cat(a, b) \in Seq(S)
  BY CatType
<1>2. Cat(a, Cat(b, f)) = Cat(Cat(a, b), f)
  BY CatAssoc
<1>3. Cat(Cat(Cat(a, b), f), rest) = Cat(Cat(a, b), Cat(f, rest))
  BY <1>1, CatAssoc
<1> QED BY <1>2, <1>3 DEF Way

LEMMA CatEmpty == \A S : \A v \in Seq(S) : Cat(v, <<>>) = v /\ Cat(<<>>, v) = v
BY ConcatEmptySeq DEF Cat

LEMMA CatRange == \A S : \A v, w \in Seq(S) : Range(Cat(v, w)) = Range(v) \cup Range(w)
BY RangeConcatenation DEF Cat

LEMMA CatOnly == \A S : \A v, w \in Seq(S) : \A W : Only(Cat(v, w), W) = Cat(Only(v, W), Only(w, W))
BY OnlyConcat DEF Cat

LEMMA WayType ==
    \A S : \A v1, v2, v3, v4 \in Seq(S) : Way(v1, v2, v3, v4) \in Seq(S) /\ Cat(Cat(v1, v2), v3) \in Seq(S)
BY CatType DEF Way

\* A stretch may be empty.
LEMMA WayWaits ==
    ASSUME NEW a \in Seq(Lines), NEW b \in Seq(Lines), NEW u \in Seq(Lines)
    PROVE  /\ Way(a, b, <<>>, u) = Cat(Cat(a, b), u) /\ Way(a, b, u, <<>>) = Cat(Cat(a, b), u)
           /\ Way(a, b, <<>>, u) = Way(a, b, u, <<>>)
<1>1. Cat(a, b) \in Seq(Lines)
  BY CatType
<1>2. Cat(Cat(a, b), u) \in Seq(Lines)
  BY <1>1, CatType
<1> QED BY <1>1, <1>2, CatEmpty DEF Way

\* A way is right for what is owed: no line of it is missing, and of the lines in
\* A each is there as often, and in the same order.
Right(way, owe, A) == Range(owe) \subseteq Range(way) /\ Only(way, A) = Only(owe, A)

\* A line that is written is owed and is at the end of the way.
LEMMA RightAppends ==
    ASSUME NEW way \in Seq(Lines), NEW owe \in Seq(Lines), NEW x \in Lines, NEW A, Right(way, owe, A)
    PROVE  Right(Append(way, x), Append(owe, x), A)
<1>1. Only(Append(way, x), A) = Only(Append(owe, x), A)
  <2>1. Only(Append(way, x), A) = IF x \in A THEN Append(Only(way, A), x) ELSE Only(way, A)
    BY OnlyAppend
  <2>2. Only(Append(owe, x), A) = IF x \in A THEN Append(Only(owe, A), x) ELSE Only(owe, A)
    BY OnlyAppend
  <2> QED BY <2>1, <2>2 DEF Right
<1>5. <<x>> \in Seq(Lines)
  OBVIOUS
<1>2. PICK one \in Seq(Lines) : one = <<x>>
  BY <1>5
<1>3. Append(way, x) = Cat(way, one) /\ Append(owe, x) = Cat(owe, one)
  BY <1>2, AppendIsConcat DEF Cat
<1>4. Range(Append(way, x)) = Range(way) \cup Range(one) /\ Range(Append(owe, x)) = Range(owe) \cup Range(one)
  BY <1>3, CatRange
<1> QED BY <1>1, <1>4 DEF Right

\* A line that is overrun is taken from the way, and from what is owed.
LEMMA RightForgets ==
    ASSUME NEW p \in Seq(Lines), NEW q \in Seq(Lines), NEW one \in Seq(Lines), NEW x \in Lines, OneLine(one, x),
           NEW owe \in Seq(Lines), Rising(owe), NEW A \in SUBSET Lines, Right(Cat(p, Cat(one, q)), owe, A)
    PROVE  Right(Cat(p, q), Only(owe, Without(Lines, x)), A)
<1> DEFINE V == Without(Lines, x)
           less == Only(owe, V)
<1>1. Lines \subseteq Int /\ V \cap A = A \cap V /\ Integral(Lines)
  BY DEF Lines, Integral
<1>2. /\ Only(p, A) \in Seq(Lines) /\ Only(q, A) \in Seq(Lines) /\ Only(one, A) \in Seq(Lines)
      /\ Only(owe, A) \in Seq(Lines)
  <2>1. ASSUME NEW s \in Seq(Lines) PROVE Only(s, A) \in Seq(Lines)
    <3>1. Only(s, A) \in Seq(Lines \cap A)
      BY OnlyType
    <3> QED BY <3>1, SeqMonotonic
  <2> QED BY <2>1
<1>3. Cat(one, q) \in Seq(Lines) /\ Cat(p, q) \in Seq(Lines)
  BY CatType
<1>4. Only(Cat(p, Cat(one, q)), A) = Cat(Only(p, A), Cat(Only(one, A), Only(q, A)))
  BY <1>3, CatOnly
<1>5. Only(Cat(p, q), A) = Cat(Only(p, A), Only(q, A))
  BY CatOnly
<1>6. Only(less, A) = Only(Only(owe, A), V)
  <2>1. Only(Only(owe, V), A) = Only(owe, V \cap A) /\ Only(Only(owe, A), V) = Only(owe, A \cap V)
    BY OnlyTwice
  <2> QED BY <1>1, <2>1
<1>7. Only(owe, A) = Cat(Only(p, A), Cat(Only(one, A), Only(q, A)))
  BY <1>4 DEF Right
<1>8. Rising(Only(owe, A))
  BY <1>1, OnlyRises
<1>9. ASSUME x \in A PROVE Only(Cat(p, q), A) = Only(less, A)
  <2>1. one \in Seq({x})
    <3>1. \A i \in 1 .. Len(one) : one[i] \in {x}
      BY DEF OneLine
    <3> QED BY <3>1, SeqOver
  <2>2. one \in Seq(A)
    BY <1>9, <2>1, SeqMonotonic
  <2>3. Only(one, A) = one
    BY <2>2, OnlyAll
  <2>4. Forgets(Lines)
    BY <1>1, CatForgets
  <2>5. \A v, w \in Seq(Lines) : Rising(Cat(v, Cat(one, w))) => Only(Cat(v, Cat(one, w)), V) = Cat(v, w)
    BY <2>4 DEF Forgets
  <2>6. Only(Cat(Only(p, A), Cat(one, Only(q, A))), V) = Cat(Only(p, A), Only(q, A))
    BY <1>2, <1>7, <1>8, <2>3, <2>5
  <2> QED BY <1>5, <1>6, <1>7, <2>3, <2>6
<1>10. ASSUME x \notin A PROVE Only(Cat(p, q), A) = Only(less, A)
  <2>1. one \in Seq({x})
    <3>1. \A i \in 1 .. Len(one) : one[i] \in {x}
      BY DEF OneLine
    <3> QED BY <3>1, SeqOver
  <2>2. Only(one, A) = <<>>
    <3>1. {x} \cap A = {}
      BY <1>10
    <3> QED BY <2>1, <3>1, OnlyNone
  <2>3. Only(owe, A) = Cat(Only(p, A), Only(q, A))
    BY <1>2, <1>7, <2>2, CatEmpty
  <2>4. Only(owe, A) \in Seq(Lines \cap A) /\ Lines \cap A \subseteq V
    BY <1>10, OnlyType DEF Without
  <2>5. Only(owe, A) \in Seq(V)
    BY <2>4, SeqMonotonic
  <2>6. Only(Only(owe, A), V) = Only(owe, A)
    BY <2>5, OnlyAll
  <2> QED BY <1>5, <1>6, <2>3, <2>6
<1>11. Only(Cat(p, q), A) = Only(less, A)
  BY <1>9, <1>10
<1>12. Range(less) \subseteq Range(Cat(p, q))
  <2>1. Range(less) = Range(owe) \cap V
    BY OnlyRange
  <2>2. Range(Cat(p, Cat(one, q))) = Range(p) \cup Range(one) \cup Range(q) /\ Range(Cat(p, q)) = Range(p) \cup Range(q)
    BY <1>3, CatRange
  <2>3. Range(one) = {x}
    BY RangeEquality DEF OneLine
  <2> QED BY <2>1, <2>2, <2>3 DEF Without, Right
<1> QED BY <1>11, <1>12 DEF Right

\* What goes with the file is the end of the way.
LEMMA RightEnds ==
    ASSUME NEW p \in Seq(Lines), NEW u \in Seq(Lines), NEW W,
           NEW owe \in Seq(Lines), owe \in Seq(W), Rising(owe), NEW A \in SUBSET Lines,
           Right(Cat(p, Only(u, W)), owe, A)
    PROVE  Right(p, Only(owe, Lines \ Range(u)), A)
<1> DEFINE V == Lines \ Range(u)
           B == W \cap A
           pa == Only(p, A)
           o == Only(u, W)
           less == Only(owe, V)
<1>1. Lines \subseteq Int
  BY DEF Lines
<1>2. o \in Seq(Lines) /\ pa \in Seq(Lines) /\ Only(u, B) \in Seq(Lines) /\ pa \in Seq(A)
  <2>1. ASSUME NEW s \in Seq(Lines), NEW T PROVE Only(s, T) \in Seq(Lines) /\ Only(s, T) \in Seq(T)
    <3>1. Only(s, T) \in Seq(Lines \cap T)
      BY OnlyType
    <3> QED BY <3>1, SeqMonotonic
  <2> QED BY <2>1
<1>3. Only(owe, A) = pa \o Only(u, B)
  <2>1. Only(Cat(p, o), A) = Cat(Only(p, A), Only(o, A))
    BY <1>2, CatOnly
  <2>2. Only(o, A) = Only(u, B)
    BY OnlyTwice
  <2> QED BY <2>1, <2>2 DEF Right, Cat
<1>4. pa \in Seq(Lines \cap B)
  <2> DEFINE whole == Only(owe, A)
             rest == Only(u, B)
  <2>1. whole \in Seq(W \cap A)
    BY OnlyType
  <2> HIDE DEF whole, rest, pa
  <2>2. whole = pa \o rest /\ pa \in Seq(Lines) /\ rest \in Seq(Lines)
    BY <1>2, <1>3 DEF whole, rest
  <2>3. Len(pa) \in Nat /\ Len(rest) \in Nat
    BY <2>2, LenProperties
  <2>4. Len(whole) = Len(pa) + Len(rest) /\ \A i \in 1 .. Len(pa) : whole[i] = pa[i]
    BY <2>2, <2>3, ConcatProperties
  <2>5. \A i \in 1 .. Len(pa) : pa[i] \in W \cap A
    <3>1. \A i \in 1 .. Len(whole) : whole[i] \in W \cap A
      BY <2>1, ElementOfSeq
    <3> QED BY <2>3, <2>4, <3>1
  <2>6. \A i \in 1 .. Len(pa) : pa[i] \in Lines
    BY <2>2, ElementOfSeq
  <2>7. \A i \in 1 .. Len(pa) : pa[i] \in Lines \cap B
    BY <2>5, <2>6
  <2> QED BY <2>2, <2>7, SeqOver
<1>5. Only(pa \o Only(u, B), V) = pa
  <2>1. Rising(Only(owe, A))
    BY <1>1, OnlyRises
  <2>2. Rising(pa \o Only(u, B))
    BY <1>3, <2>1
  <2> HIDE DEF B, pa
  <2> QED BY <1>1, <1>4, <2>2, ForgetsUnread, Zenon
<1>6. Only(less, A) = pa
  <2>1. Only(Only(owe, V), A) = Only(owe, V \cap A) /\ Only(Only(owe, A), V) = Only(owe, A \cap V)
    BY OnlyTwice
  <2>2. V \cap A = A \cap V
    OBVIOUS
  <2> QED BY <1>3, <1>5, <2>1, <2>2
<1>7. Range(less) \subseteq Range(p)
  <2>1. Range(less) = Range(owe) \cap V /\ Range(o) = Range(u) \cap W
    BY OnlyRange
  <2>2. Range(Cat(p, o)) = Range(p) \cup Range(o)
    BY <1>2, CatRange
  <2> QED BY <2>1, <2>2 DEF Right
<1> QED BY <1>6, <1>7 DEF Right

\* Lines that were seen before come before the watcher once more: they tell
\* nothing any longer, and no line is missing.
LEMMA RightAgain ==
    ASSUME NEW p \in Seq(Lines), NEW q \in Seq(Lines), NEW s \in Seq(Lines), NEW owe \in Seq(Lines),
           NEW A, NEW C, C \subseteq A, Range(s) \cap C = {}, Right(Cat(p, q), owe, A)
    PROVE  Right(Cat(p, Cat(s, q)), owe, C)
<1>1. Cat(s, q) \in Seq(Lines) /\ Cat(p, q) \in Seq(Lines)
  BY CatType
<1>2. Only(s, C) = <<>>
  BY OnlyNone, SeqOfRange
<1>3. Only(Cat(p, Cat(s, q)), C) = Only(Cat(p, q), C)
  <2>1. Only(Cat(p, Cat(s, q)), C) = Cat(Only(p, C), Cat(Only(s, C), Only(q, C))) /\ Only(Cat(p, q), C) = Cat(Only(p, C), Only(q, C))
    BY <1>1, CatOnly
  <2>2. Only(q, C) \in Seq(Lines \cap C)
    BY OnlyType
  <2>3. Cat(<<>>, Only(q, C)) = Only(q, C)
    BY <2>2, CatEmpty
  <2> QED BY <1>2, <2>1, <2>3
<1>4. Only(Cat(p, q), C) = Only(owe, C)
  <2>1. A \cap C = C
    OBVIOUS
  <2>2. Only(Only(Cat(p, q), A), C) = Only(Cat(p, q), A \cap C) /\ Only(Only(owe, A), C) = Only(owe, A \cap C)
    BY <1>1, OnlyTwice
  <2> QED BY <2>1, <2>2 DEF Right
<1>5. Range(Cat(p, Cat(s, q))) = Range(p) \cup Range(s) \cup Range(q) /\ Range(Cat(p, q)) = Range(p) \cup Range(q)
  BY <1>1, CatRange
<1> QED BY <1>3, <1>4, <1>5 DEF Right

LEMMA CatGrows ==
    \A x \in Lines : \A v, w \in Seq(Lines) : Cat(v, Append(w, x)) = Append(Cat(v, w), x)
<1> SUFFICES ASSUME NEW x \in Lines, NEW v \in Seq(Lines), NEW w \in Seq(Lines)
             PROVE  Cat(v, Append(w, x)) = Append(Cat(v, w), x)
  OBVIOUS
<1>0. <<x>> \in Seq(Lines)
  OBVIOUS
<1>1. PICK one \in Seq(Lines) : one = <<x>>
  BY <1>0
<1>2. Append(w, x) = Cat(w, one)
  BY <1>1, AppendIsConcat DEF Cat
<1>3. Cat(v, w) \in Seq(Lines)
  BY CatType
<1>4. Append(Cat(v, w), x) = Cat(Cat(v, w), one)
  BY <1>1, <1>3, AppendIsConcat DEF Cat
<1>5. Cat(Cat(v, w), one) = Cat(v, Cat(w, one))
  BY CatAssoc
<1> QED BY <1>2, <1>4, <1>5

\* What EveryLineOnce says of a hook.
Kept(h) == Right(OnTheWay(h), due[h], Lines \ again)

LEMMA KeptAll == EveryLineOnce <=> (stage # "draining" => \A h \in Hooks : Kept(h))
BY DEF EveryLineOnce, Kept, Right

LEMMA KeptAllNext == EveryLineOnce' <=> (stage' # "draining" => \A h \in Hooks : Kept(h)')
BY DEF EveryLineOnce, Kept, Right

\* The way of a hook, stretch by stretch.
LEMMA WayNow ==
    \A h : OnTheWay(h) = Way(begun[h], slots[gen][h].pending, Wanted(h, watcher.unfired), Wanted(h, Unseen))
BY DEF OnTheWay, Way, Cat

LEMMA WayNext ==
    ASSUME NEW h, NEW a, NEW b, NEW t, NEW u, begun'[h] = a, slots'[gen'][h].pending = b,
           Wanted(h, watcher.unfired)' = t, Wanted(h, Unseen)' = u
    PROVE  OnTheWay(h)' = Way(a, b, t, u)
BY DEF OnTheWay, Way, Cat

LEMMA InitWay == Init => WInv
<1> SUFFICES ASSUME Init PROVE WInv
  OBVIOUS
<1>1. /\ due = [h \in Hooks |-> <<>>] /\ begun = [h \in Hooks |-> <<>>]
      /\ kinds = <<>> /\ log = <<>> /\ watcher = Watching(0)
      /\ slots = [g \in Gens |-> [h \in Hooks |-> FreshSlot]] /\ gen = 1
  BY DEF Init
<1>2. <<>> \in Seq(Lines) /\ Rising(<<>>) /\ \A S : <<>> \in Seq(S)
  BY DEF Rising
<1>3. Owed
  BY <1>1, <1>2 DEF Owed
<1>4. Written /\ Looked
  BY <1>1, <1>2 DEF Written, Looked, Watching, Dropped
<1>5. 1 \in Gens
  BY HooksAssumption DEF Gens
<1>6. Unseen = <<>> /\ watcher.unfired = <<>>
  BY <1>1 DEF Unseen, Unread, Dropped, Watching
<1>7. \A h \in Hooks : Wanted(h, Unseen) = <<>> /\ Wanted(h, watcher.unfired) = <<>>
  BY <1>6, OnlyEmpty DEF Wanted
<1>8. \A h \in Hooks : slots[gen][h].pending = <<>> /\ begun[h] = <<>> /\ due[h] = <<>>
  BY <1>1, <1>5 DEF FreshSlot
<1>9. EveryLineOnce
  <2> SUFFICES ASSUME NEW h \in Hooks PROVE Kept(h)
    BY KeptAll
  <2>1. <<>> \o <<>> = <<>>
    OBVIOUS
  <2>2. OnTheWay(h) = <<>>
    BY <1>7, <1>8, <2>1 DEF OnTheWay
  <2> QED BY <1>8, <2>2 DEF Kept, Right
<1> QED BY <1>3, <1>4, <1>9 DEF WInv

\* What moves no line.
LEMMA MovesNone ==
    ASSUME WInv, UNCHANGED <<kinds, log, gen, due, begun, again>>,
           watcher'.unfired = watcher.unfired, watcher'.offset = watcher.offset,
           watcher'.renewed = watcher.renewed,
           stage' # "draining" => /\ stage # "draining"
                                  /\ \A h \in Hooks : slots'[gen][h].pending = slots[gen][h].pending
    PROVE  WInv'
<1>1. Dropped' = Dropped /\ Unseen' = Unseen /\ \A h : LinesOf(h)' = LinesOf(h)
  BY DEF Dropped, Unseen, Unread, LinesOf
<1>2. Owed' /\ Written' /\ Looked'
  BY <1>1 DEF WInv, Owed, Written, Looked
<1>3. EveryLineOnce'
  <2> SUFFICES ASSUME stage' # "draining", NEW h \in Hooks PROVE Kept(h)'
    BY KeptAllNext
  <2>1. Wanted(h, watcher.unfired)' = Wanted(h, watcher.unfired) /\ Wanted(h, Unseen)' = Wanted(h, Unseen)
    BY <1>1 DEF Wanted
  <2>2. OnTheWay(h)' = OnTheWay(h)
    BY <2>1, WayNow, WayNext
  <2>3. Kept(h)
    BY KeptAll DEF WInv
  <2> QED BY <2>2, <2>3 DEF Kept
<1> QED BY <1>2, <1>3 DEF WInv

\* The watcher takes up what it has not seen.
LEMMA PollMoves ==
    ASSUME IInv, WInv, Poll
    PROVE  WInv'
<1>1. UNCHANGED <<kinds, log, gen, stage, slots, due, begun, again>> /\ watcher.unfired = <<>>
  BY DEF Poll, writer, bus, looks
<1>2. Len(log) \in Nat /\ watcher.offset \in Nat /\ Len(log) =< MaxLines
  BY LenProperties, HooksAssumption DEF IInv, TypeOK
<1>3. /\ watcher'.unfired = SubSeq(log, ReadFrom(watcher.offset) + 1, Len(log))
      /\ watcher'.offset = IF Len(log) < ReadFrom(watcher.offset) THEN ReadFrom(watcher.offset) ELSE Len(log)
  BY DEF Poll, IInv, TypeOK
<1>4. log = SubSeq(log, 1, Len(log))
  BY SubSeqFull DEF IInv, TypeOK
<1>5. watcher'.unfired = Unseen /\ watcher'.offset = Len(log)
  <2>1. CASE Dropped
    <3>1. ReadFrom(watcher.offset) = 0 /\ 0 + 1 = 1 /\ Unseen = log
      BY <2>1 DEF Dropped, ReadFrom, Unseen
    <3> QED BY <1>2, <1>3, <1>4, <3>1
  <2>2. CASE ~Dropped
    <3>1. ReadFrom(watcher.offset) = watcher.offset /\ Unseen = Unread
      BY <2>2 DEF Dropped, ReadFrom, Unseen
    <3> QED BY <1>2, <1>3, <2>2, <3>1 DEF Unread, Dropped
  <2> QED BY <2>1, <2>2
<1>6. ~Dropped' /\ Unseen' = <<>>
  <2>1. SubSeq(log, Len(log) + 1, Len(log)) = <<>>
    BY <1>2, SubSeqEmpty
  <2> QED BY <1>1, <1>2, <1>5, <2>1 DEF Dropped, Unseen, Unread
<1>7. \A h : LinesOf(h)' = LinesOf(h)
  BY <1>1 DEF LinesOf
<1>8. Owed' /\ Looked'
  BY <1>1, <1>6, <1>7 DEF WInv, Owed, Looked
<1>9. Written'
  <2>1. Unseen \in Seq(1 .. Len(kinds))
    BY UnseenWritten DEF WInv
  <2> QED BY <1>1, <1>5, <2>1 DEF WInv, Written
<1>10. EveryLineOnce'
  <2> SUFFICES ASSUME stage # "draining", NEW h \in Hooks PROVE Kept(h)'
    BY <1>1, KeptAllNext
  <2> DEFINE a == begun[h]
             b == slots[gen][h].pending
             u == Wanted(h, Unseen)
  <2>1. Kept(h) /\ Wanted(h, watcher.unfired) = <<>>
    BY <1>1, OnlyEmpty, KeptAll DEF WInv, Wanted
  <2>2. Wanted(h, watcher.unfired)' = u /\ Wanted(h, Unseen)' = <<>>
    BY <1>5, <1>6, <1>7, OnlyEmpty DEF Wanted
  <2>3. a \in Seq(Lines) /\ b \in Seq(Lines) /\ u \in Seq(Lines)
    BY Stretches
  <2>4. begun'[h] = a /\ slots'[gen'][h].pending = b /\ due'[h] = due[h] /\ again' = again
    BY <1>1
  <2> HIDE DEF a, b, u
  <2>5. OnTheWay(h)' = Way(a, b, u, <<>>)
    BY <2>2, <2>4, WayNext
  <2>6. OnTheWay(h) = Way(a, b, <<>>, u)
    BY <2>1, WayNow DEF a, b, u
  <2>7. Way(a, b, <<>>, u) = Way(a, b, u, <<>>)
    BY <2>3, WayWaits
  <2> QED BY <2>1, <2>4, <2>5, <2>6, <2>7 DEF Kept
<1> QED BY <1>8, <1>9, <1>10 DEF WInv

LEMMA SeenUnseen ==
    ASSUME IInv
    PROVE  log = Seen \o Unseen
<1>1. Len(log) \in Nat /\ watcher.offset \in Nat /\ log \in Seq(Lines)
  BY LenProperties, HooksAssumption DEF IInv, TypeOK
<1>2. CASE Dropped
  <2>1. <<>> \o log = log
    BY <1>1, ConcatEmptySeq
  <2> QED BY <1>2, <2>1 DEF Seen, Unseen
<1>3. CASE ~Dropped
  <2>1. watcher.offset =< Len(log)
    BY <1>1, <1>3 DEF Dropped
  <2>2. 1 \in 1 .. Len(log) + 1 /\ watcher.offset \in 1 - 1 .. Len(log) /\ Len(log) \in watcher.offset .. Len(log)
    BY <1>1, <2>1
  <2>3. SubSeq(log, 1, watcher.offset) \o SubSeq(log, watcher.offset + 1, Len(log)) = SubSeq(log, 1, Len(log))
    BY <1>1, <2>2, ConcatAdjacentSubSeq
  <2>4. SubSeq(log, 1, Len(log)) = log
    BY <1>1, SubSeqFull
  <2> QED BY <1>3, <2>3, <2>4 DEF Seen, Unseen, Unread
<1> QED BY <1>2, <1>3

\* A look that fails loses no line.  It may bring those before the watcher once
\* more that it has seen.
LEMMA LookFailsMoves ==
    ASSUME IInv, WInv, LookFails
    PROVE  WInv'
<1>1. UNCHANGED <<kinds, log, gen, stage, slots, due, begun>> /\ watcher.unfired = <<>>
  BY DEF LookFails, writer, bus
<1>2. Len(log) \in Nat /\ watcher.offset \in Nat /\ log \in Seq(Lines) /\ <<>> \in Seq(Lines)
      /\ SubSeq(log, 1, Len(log)) = log /\ SubSeq(log, Len(log) + 1, Len(log)) = <<>>
  BY LenProperties, HooksAssumption, SubSeqFull, SubSeqEmpty DEF IInv, TypeOK
<1>3. \A offset \in Nat : \A lines \in Seq(Lines) :
        LeftAt(offset, lines) => watcher'.offset = offset /\ watcher'.unfired = lines
  BY DEF LeftAt, IInv, TypeOK
<1>4. \/ watcher'.offset = 0 /\ watcher'.unfired = <<>> /\ again' = again \cup Range(Seen)
      \/ watcher'.offset = Len(log) /\ watcher'.unfired = log /\ again' = again \cup Range(Seen)
      \/ watcher'.offset = ReadFrom(watcher.offset) /\ watcher'.unfired = <<>> /\ again' = again
  <2>1. ReadFrom(watcher.offset) \in Nat
    BY <1>2 DEF ReadFrom
  <2> QED BY <1>2, <1>3, <2>1 DEF LookFails
<1>5. \/ watcher'.unfired = <<>> /\ Unseen' = log /\ again' = again \cup Range(Seen) /\ ~Dropped'
      \/ watcher'.unfired = log /\ Unseen' = <<>> /\ again' = again \cup Range(Seen) /\ ~Dropped'
      \/ watcher'.unfired = <<>> /\ Unseen' = Unseen /\ again' = again /\ ~Dropped'
  <2>1. CASE watcher'.offset = 0 /\ watcher'.unfired = <<>> /\ again' = again \cup Range(Seen)
    BY <1>1, <1>2, <2>1 DEF Dropped, Unseen, Unread
  <2>2. CASE watcher'.offset = Len(log) /\ watcher'.unfired = log /\ again' = again \cup Range(Seen)
    BY <1>1, <1>2, <2>2 DEF Dropped, Unseen, Unread
  <2>3. CASE watcher'.offset = ReadFrom(watcher.offset) /\ watcher'.unfired = <<>> /\ again' = again
    <3>1. CASE Dropped
      <4>1. watcher'.offset = 0 /\ Unseen = log
        BY <2>3, <3>1 DEF ReadFrom, Dropped, Unseen
      <4>2. ~Dropped' /\ Unseen' = SubSeq(log, 0 + 1, Len(log))
        BY <1>1, <1>2, <4>1 DEF Dropped, Unseen, Unread
      <4> QED BY <1>2, <2>3, <4>1, <4>2
    <3>2. CASE ~Dropped
      <4>1. watcher'.offset = watcher.offset
        BY <2>3, <3>2 DEF ReadFrom, Dropped
      <4> QED BY <1>1, <2>3, <3>2, <4>1 DEF Dropped, Unseen, Unread
    <3> QED BY <3>1, <3>2
  <2> QED BY <1>4, <2>1, <2>2, <2>3
<1>6. \A h : LinesOf(h)' = LinesOf(h)
  BY <1>1 DEF LinesOf
<1>7. Owed' /\ Looked'
  BY <1>1, <1>5, <1>6 DEF WInv, Owed, Looked
<1>8. Written'
  <2>1. <<>> \in Seq(1 .. Len(kinds))
    OBVIOUS
  <2> QED BY <1>1, <1>5, <2>1 DEF WInv, Written
<1>9. EveryLineOnce'
  <2> SUFFICES ASSUME stage # "draining", NEW h \in Hooks PROVE Kept(h)'
    BY <1>1, KeptAllNext
  <2> DEFINE a == begun[h]
             b == slots[gen][h].pending
             u == Wanted(h, Unseen)
             v == Wanted(h, Seen)
  <2>1. Kept(h) /\ Wanted(h, watcher.unfired) = <<>>
    BY <1>1, OnlyEmpty, KeptAll DEF WInv, Wanted
  <2>2. a \in Seq(Lines) /\ b \in Seq(Lines) /\ u \in Seq(Lines) /\ Cat(a, b) \in Seq(Lines)
    <3>1. a \in Seq(Lines) /\ b \in Seq(Lines) /\ u \in Seq(Lines)
      BY Stretches
    <3> HIDE DEF a, b, u
    <3> QED BY <3>1, CatType
  <2>3. v \in Seq(Lines) /\ Range(v) \subseteq Range(Seen)
    <3>1. Seen \in Seq(Lines)
      BY SeenType
    <3>2. v \in Seq(Lines \cap LinesOf(h))
      BY <3>1, OnlyType DEF Wanted
    <3>3. Range(v) = Range(Seen) \cap LinesOf(h)
      BY <3>1, OnlyRange DEF Wanted
    <3> HIDE DEF v
    <3>4. v \in Seq(Lines)
      BY <3>2, SeqMonotonic
    <3> QED BY <3>3, <3>4
  <2>4. Wanted(h, log) = Cat(v, u)
    <3>1. Seen \in Seq(Lines) /\ Unseen \in Seq(Lines)
      <4>1. Unseen \in Seq(1 .. Len(kinds)) /\ 1 .. Len(kinds) \subseteq Lines
        BY Stretches
      <4> QED BY <4>1, SeenType, SeqMonotonic
    <3>2. log = Cat(Seen, Unseen)
      BY SeenUnseen DEF Cat
    <3>3. Only(Cat(Seen, Unseen), LinesOf(h)) = Cat(Only(Seen, LinesOf(h)), Only(Unseen, LinesOf(h)))
      BY <3>1, CatOnly
    <3> QED BY <3>2, <3>3 DEF Wanted
  <2>5. \A s : Only(s, LinesOf(h)') = Only(s, LinesOf(h))
    BY <1>6
  <2>6. Right(Cat(Cat(a, b), u), due[h], Lines \ again)
    <3>1. OnTheWay(h) = Way(a, b, <<>>, u)
      BY <2>1, WayNow
    <3>2. Kept(h)
      BY <2>1
    <3> HIDE DEF a, b, u
    <3> QED BY <2>2, <3>1, <3>2, WayWaits DEF Kept
  <2>7. begun'[h] = a /\ slots'[gen'][h].pending = b /\ due'[h] = due[h]
    BY <1>1
  <2>8. Wanted(h, <<>>) = <<>>
    BY OnlyEmpty DEF Wanted
  <2>9. CASE watcher'.unfired = <<>> /\ Unseen' = Unseen /\ again' = again
    <3>1. Wanted(h, watcher.unfired)' = <<>> /\ Wanted(h, Unseen)' = u
      BY <2>5, <2>8, <2>9 DEF Wanted
    <3> HIDE DEF a, b, u
    <3>2. OnTheWay(h)' = Way(a, b, <<>>, u)
      BY <2>7, <3>1, WayNext
    <3> QED BY <2>2, <2>6, <2>7, <2>9, <3>2, WayWaits DEF Kept
  <2>10. CASE again' = again \cup Range(Seen) /\ {watcher'.unfired, Unseen'} = {<<>>, log}
    <3>1. \/ Wanted(h, watcher.unfired)' = <<>> /\ Wanted(h, Unseen)' = Cat(v, u)
          \/ Wanted(h, watcher.unfired)' = Cat(v, u) /\ Wanted(h, Unseen)' = <<>>
      BY <1>5, <2>4, <2>5, <2>8, <2>10 DEF Wanted
    <3> HIDE DEF a, b, u, v
    <3>2. Cat(v, u) \in Seq(Lines)
      BY <2>2, <2>3, CatType
    <3>3. OnTheWay(h)' = Cat(Cat(a, b), Cat(v, u))
      <4>1. OnTheWay(h)' = Way(a, b, <<>>, Cat(v, u)) \/ OnTheWay(h)' = Way(a, b, Cat(v, u), <<>>)
        BY <2>7, <3>1, WayNext
      <4> QED BY <2>2, <3>2, <4>1, WayWaits
    <3> DEFINE A == Lines \ again
               C == Lines \ (again \cup Range(Seen))
    <3>4. C \subseteq A /\ Range(v) \cap C = {}
      BY <2>3
    <3>5. due[h] \in Seq(Lines)
      BY DEF WInv, Owed
    <3> HIDE DEF A, C
    <3>6. Right(Cat(Cat(a, b), u), due[h], A)
      BY <2>6 DEF A
    <3>7. Right(Cat(Cat(a, b), Cat(v, u)), due[h], C)
      BY <2>2, <2>3, <3>4, <3>5, <3>6, RightAgain
    <3> QED BY <2>7, <2>10, <3>3, <3>7 DEF Kept, C
  <2> QED BY <1>5, <2>9, <2>10
<1> QED BY <1>7, <1>8, <1>9 DEF WInv

LEMMA AppendThen ==
    ASSUME NEW S, NEW s \in Seq(S), NEW t \in Seq(S), NEW x \in S
    PROVE  Append(s, x) \o t = s \o (<<x>> \o t)
<1>1. <<x>> \in Seq(S)
  OBVIOUS
<1>2. Append(s, x) = s \o <<x>>
  BY AppendIsConcat
<1>3. (s \o <<x>>) \o t = s \o (<<x>> \o t)
  BY <1>1, ConcatAssociative
<1> QED BY <1>2, <1>3

\* A worker takes the next line of its queue.
LEMMA BeginMoves ==
    ASSUME IInv, WInv, NEW g \in Gens, NEW h \in Hooks, Begin(g, h)
    PROVE  WInv'
<1>1. g = gen
  BY DEF IInv, Alone, Begin
<1> DEFINE b == slots[gen][h].pending
<1>2. /\ UNCHANGED <<kinds, log, gen, stage, watcher, due, again>>
      /\ begun' = [begun EXCEPT ![h] = Append(@, Head(b))]
      /\ b # <<>>
  BY <1>1 DEF Begin, writer, looks
<1>3. b \in Seq(Lines) /\ slots[gen][h] \in Slot
  BY <1>1 DEF IInv, TypeOK, Slot
<1>4. Head(b) \in Lines /\ Tail(b) \in Seq(Lines)
  BY <1>2, <1>3, HeadTailProperties
<1>5. /\ slots'[gen][h].pending = Tail(b)
      /\ \A k \in Hooks : k # h => slots'[gen][k].pending = slots[gen][k].pending
  BY <1>1, <1>3 DEF Begin, IInv, TypeOK, Slot
<1>6. Dropped' = Dropped /\ Unseen' = Unseen /\ \A k : LinesOf(k)' = LinesOf(k)
  BY <1>2 DEF Dropped, Unseen, Unread, LinesOf
<1>7. Owed'
  <2>1. begun[h] \in Seq(Lines)
    BY DEF WInv, Owed
  <2>2. Append(begun[h], Head(b)) \in Seq(Lines)
    BY <1>4, <2>1, AppendProperties
  <2> HIDE DEF b
  <2>3. begun' \in [Hooks -> Seq(Lines)]
    BY <1>2, <2>2 DEF WInv, Owed
  <2> QED BY <1>2, <1>6, <2>3 DEF WInv, Owed
<1>8. Written' /\ Looked'
  BY <1>2, <1>6 DEF WInv, Written, Looked
<1>9. EveryLineOnce'
  <2> SUFFICES ASSUME stage # "draining", NEW k \in Hooks PROVE Kept(k)'
    BY <1>2, KeptAllNext
  <2>1. Wanted(k, watcher.unfired)' = Wanted(k, watcher.unfired) /\ Wanted(k, Unseen)' = Wanted(k, Unseen)
    BY <1>2, <1>6 DEF Wanted
  <2>2. Kept(k)
    BY KeptAll DEF WInv
  <2>3. begun'[k] \o slots'[gen][k].pending = begun[k] \o slots[gen][k].pending
    <3>1. CASE k # h
      BY <1>2, <1>5, <3>1 DEF WInv, Owed
    <3>2. CASE k = h
      <4>1. begun[h] \in Seq(Lines) /\ begun'[h] = Append(begun[h], Head(b))
        BY <1>2 DEF WInv, Owed
      <4> HIDE DEF b
      <4>2. b = <<Head(b)>> \o Tail(b)
        BY <1>2, <1>3
      <4>3. Append(begun[h], Head(b)) \o Tail(b) = begun[h] \o (<<Head(b)>> \o Tail(b))
        BY <1>4, <4>1, AppendThen
      <4> QED BY <1>5, <3>2, <4>1, <4>2, <4>3 DEF b
    <3> QED BY <3>1, <3>2
  <2>4. OnTheWay(k)' = OnTheWay(k)
    BY <1>2, <2>1, <2>3 DEF OnTheWay
  <2> QED BY <1>2, <2>2, <2>4 DEF Kept
<1> QED BY <1>7, <1>8, <1>9 DEF WInv


\* What is picked from one line, and from a sequence by its first line.
LEMMA OnlyHead ==
    ASSUME NEW S, NEW s \in Seq(S), s # <<>>, NEW W, NEW one, one = <<Head(s)>>
    PROVE  /\ Head(s) \in S /\ Tail(s) \in Seq(S) /\ one \in Seq(S)
           /\ Only(s, W) = Only(one, W) \o Only(Tail(s), W)
           /\ Only(one, W) = IF Head(s) \in W THEN one ELSE <<>>
<1>1. Head(s) \in S /\ Tail(s) \in Seq(S)
  BY HeadTailProperties
<1>2. one \in Seq(S) /\ s = one \o Tail(s)
  BY <1>1
<1>3. Only(s, W) = Only(one, W) \o Only(Tail(s), W)
  BY <1>1, <1>2, OnlyConcat
<1>4. <<>> \in Seq(S) /\ Append(<<>>, Head(s)) = one
  OBVIOUS
<1>5. Only(Append(<<>>, Head(s)), W) = IF Head(s) \in W THEN Append(Only(<<>>, W), Head(s)) ELSE Only(<<>>, W)
  BY <1>1, <1>4, OnlyAppend
<1> QED BY <1>1, <1>2, <1>3, <1>4, <1>5, OnlyEmpty

LEMMA Owes ==
    ASSUME WInv, NEW h \in Hooks, NEW V, LinesOf(h) \subseteq Lines
    PROVE  /\ Only(due[h], V) \in Seq(LinesOf(h)) /\ Only(due[h], V) \in Seq(Lines)
           /\ Rising(Only(due[h], V))
<1>1. due[h] \in Seq(LinesOf(h)) /\ Rising(due[h]) /\ due[h] \in Seq(Lines)
  BY DEF WInv, Owed
<1>2. Only(due[h], V) \in Seq(LinesOf(h) \cap V)
  BY <1>1, OnlyType
<1>3. LinesOf(h) \cap V \subseteq LinesOf(h)
  OBVIOUS
<1>4. Only(due[h], V) \in Seq(LinesOf(h))
  BY <1>2, <1>3, SeqMonotonic
<1>5. Only(due[h], V) \in Seq(Lines)
  BY <1>4, SeqMonotonic
<1>6. Lines \subseteq Int
  BY DEF Lines
<1> QED BY <1>1, <1>4, <1>5, <1>6, OnlyRises

\* A line that is fired waits in the queue, or is taken from what the hook is
\* owed, or was not owed.
LEMMA FireMoves ==
    ASSUME IInv, WInv, Fire
    PROVE  WInv'
<1> DEFINE line == Head(watcher.unfired)
           K == 1 .. Len(kinds)
<1>1. /\ UNCHANGED <<kinds, log, gen, stage, begun, again>> /\ watcher.unfired # <<>>
      /\ watcher'.unfired = Tail(watcher.unfired)
      /\ watcher'.offset = watcher.offset /\ watcher'.renewed = watcher.renewed
      /\ due' = [h \in Hooks |-> IF Overrun(h, line) THEN Only(due[h], Lines \ {line}) ELSE due[h]]
  BY DEF Fire, writer, looks, IInv, TypeOK
<1>2. watcher.unfired \in Seq(K)
  BY DEF WInv, Written
<1>3. line \in K /\ Tail(watcher.unfired) \in Seq(K)
  BY <1>1, <1>2, HeadTailProperties
<1>4. Dropped' = Dropped /\ Unseen' = Unseen /\ \A h : LinesOf(h)' = LinesOf(h)
  BY <1>1 DEF Dropped, Unseen, Unread, LinesOf
<1>5. \A h \in Hooks : line \in LinesOf(h) <=> kinds[line] = Trigger(h)
  BY <1>3 DEF LinesOf, IInv, TypeOK
<1>6. Owed'
  <2>1. \A h \in Hooks : LinesOf(h) \subseteq Lines
    BY Stretches
  <2>2. ASSUME NEW h \in Hooks
        PROVE  due'[h] \in Seq(LinesOf(h)) /\ due'[h] \in Seq(Lines) /\ Rising(due'[h])
    <3>1. due'[h] = due[h] \/ due'[h] = Only(due[h], Lines \ {line})
      BY <1>1
    <3> HIDE DEF line
    <3> QED BY <2>1, <3>1, Owes DEF WInv, Owed
  <2>3. due' \in [Hooks -> Seq(Lines)]
    <3> HIDE DEF line
    <3>1. \A h \in Hooks : due'[h] \in Seq(Lines)
      BY <2>2
    <3> QED BY <1>1, <3>1
  <2>4. begun' \in [Hooks -> Seq(Lines)]
    BY <1>1 DEF WInv, Owed
  <2> QED BY <1>4, <2>2, <2>3, <2>4 DEF Owed
<1>7. Written' /\ Looked'
  BY <1>1, <1>3, <1>4 DEF WInv, Written, Looked
<1>8. EveryLineOnce'
  <2> SUFFICES ASSUME stage # "draining", NEW h \in Hooks PROVE Kept(h)'
    BY <1>1, KeptAllNext
  <2> DEFINE a == begun[h]
             b == slots[gen][h].pending
             first == <<line>>
             o == Only(first, LinesOf(h))
             t == Wanted(h, Tail(watcher.unfired))
             u == Wanted(h, Unseen)
  <2>1. /\ a \in Seq(Lines) /\ b \in Seq(Lines) /\ u \in Seq(Lines) /\ line \in Lines
        /\ K \subseteq Lines /\ LinesOf(h) \subseteq Lines
    BY <1>3, Stretches
  <2> HIDE DEF first
  <2>2. /\ Wanted(h, watcher.unfired) = o \o t
        /\ o = (IF line \in LinesOf(h) THEN first ELSE <<>>)
        /\ first \in Seq(Lines)
    <3>1. first = <<Head(watcher.unfired)>>
      BY DEF first
    <3>2. first \in Seq(K)
      BY <1>1, <1>2, <3>1, OnlyHead
    <3>3. /\ Only(watcher.unfired, LinesOf(h)) = Only(first, LinesOf(h)) \o Only(Tail(watcher.unfired), LinesOf(h))
          /\ Only(first, LinesOf(h)) = IF Head(watcher.unfired) \in LinesOf(h) THEN first ELSE <<>>
      <4> DEFINE s == watcher.unfired
      <4>1. s \in Seq(K) /\ s # <<>> /\ first = <<Head(s)>>
        BY <1>1, <1>2, <3>1
      <4> HIDE DEF s, K
      <4>2. /\ Only(s, LinesOf(h)) = Only(first, LinesOf(h)) \o Only(Tail(s), LinesOf(h))
            /\ Only(first, LinesOf(h)) = IF Head(s) \in LinesOf(h) THEN first ELSE <<>>
        BY <4>1, OnlyHead
      <4> QED BY <4>2 DEF s
    <3> QED BY <2>1, <3>2, <3>3, SeqMonotonic DEF Wanted
  <2>3. t \in Seq(Lines)
    <3>1. Only(Tail(watcher.unfired), LinesOf(h)) \in Seq(K \cap LinesOf(h))
      BY <1>3, OnlyType
    <3>2. K \cap LinesOf(h) \subseteq Lines
      BY <2>1
    <3> QED BY <3>1, <3>2, SeqMonotonic DEF Wanted
  <2>4. Right(Way(a, b, Cat(o, t), u), due[h], Lines \ again)
    <3>1. Kept(h)
      BY KeptAll DEF WInv
    <3>2. OnTheWay(h) = Way(a, b, Cat(o, t), u)
      BY <2>2, WayNow DEF Cat
    <3> QED BY <3>1, <3>2 DEF Kept
  <2>5. Wanted(h, watcher.unfired)' = t /\ Wanted(h, Unseen)' = u /\ begun'[h] = a /\ gen' = gen
    BY <1>1, <1>4 DEF Wanted
  <2>6. slots[gen][h] \in Slot /\ gen \in Gens
    BY DEF IInv, TypeOK
  <2>7. slots'[gen][h] = IF kinds[line] # Trigger(h) \/ Overrun(h, line) THEN slots[gen][h]
                         ELSE Queued(slots[gen][h], line)
    BY <2>6 DEF Fire, IInv, TypeOK
  <2>8. CASE kinds[line] # Trigger(h)
    <3>1. o = <<>> /\ slots'[gen][h] = slots[gen][h] /\ due'[h] = due[h]
      BY <1>1, <1>5, <2>2, <2>7, <2>8 DEF Overrun
    <3>2. Cat(<<>>, t) = t
      BY <2>3, ConcatEmptySeq DEF Cat
    <3>3. OnTheWay(h)' = Way(a, b, t, u)
      BY <2>5, <3>1, WayNext
    <3> HIDE DEF o, t, u, a, b
    <3> QED BY <1>1, <2>4, <3>1, <3>2, <3>3 DEF Kept
  <2>9. CASE kinds[line] = Trigger(h) /\ Overrun(h, line)
    <3>1. o = first /\ slots'[gen][h] = slots[gen][h] /\ due'[h] = Only(due[h], Without(Lines, line))
      BY <1>1, <1>5, <2>2, <2>7, <2>9 DEF Without
    <3>2. OneLine(first, line) /\ first \in Seq(Lines)
      BY <2>2 DEF first, OneLine
    <3>3. OnTheWay(h)' = Way(a, b, t, u)
      BY <2>5, <3>1, WayNext
    <3>4. Rising(due[h]) /\ due[h] \in Seq(Lines)
      BY DEF WInv, Owed
    <3>5. Right(Way(a, b, Cat(first, t), u), due[h], Lines \ again)
      BY <2>4, <3>1
    <3> HIDE DEF o, t, u, a, b, line
    <3>6. Right(Way(a, b, t, u), Only(due[h], Without(Lines, line)), Lines \ again)
      <4>1. Cat(a, b) \in Seq(Lines) /\ Cat(t, u) \in Seq(Lines) /\ Cat(first, t) \in Seq(Lines)
        BY <2>1, <2>3, <3>2, CatType
      <4>2. Way(a, b, Cat(first, t), u) = Cat(Cat(a, b), Cat(first, Cat(t, u)))
        BY <2>1, <2>3, <3>2, <4>1, CatAssoc DEF Way
      <4>3. Way(a, b, t, u) = Cat(Cat(a, b), Cat(t, u))
        BY <2>1, <2>3, <4>1, CatAssoc DEF Way
      <4>4. Lines \ again \in SUBSET Lines
        OBVIOUS
      <4>5. Right(Cat(Cat(a, b), Cat(first, Cat(t, u))), due[h], Lines \ again)
        BY <3>5, <4>2
      <4>6. Right(Cat(Cat(a, b), Cat(t, u)), Only(due[h], Without(Lines, line)), Lines \ again)
        BY <2>1, <3>2, <3>4, <4>1, <4>4, <4>5, RightForgets
      <4> QED BY <4>3, <4>6
    <3> QED BY <1>1, <3>1, <3>3, <3>6 DEF Kept
  <2>10. CASE kinds[line] = Trigger(h) /\ ~Overrun(h, line)
    <3>1. o = first /\ slots'[gen][h] = Queued(slots[gen][h], line) /\ due'[h] = due[h]
      BY <1>1, <1>5, <2>2, <2>7, <2>10
    <3>2. slots'[gen][h].pending = Append(b, line)
      BY <2>6, <3>1 DEF Queued, Slot
    <3>3. Append(b, line) = Cat(b, first)
      BY <2>1, AppendIsConcat DEF first, Cat
    <3>4. Right(Way(a, b, Cat(first, t), u), due[h], Lines \ again)
      BY <2>4, <3>1
    <3>5. OnTheWay(h)' = Way(a, Cat(b, first), t, u)
      BY <2>5, <3>2, <3>3, WayNext
    <3> HIDE DEF o, t, u, a, b, line
    <3>6. Way(a, Cat(b, first), t, u) = Way(a, b, Cat(first, t), u)
      BY <2>1, <2>2, <2>3, WayQueues
    <3> QED BY <1>1, <3>1, <3>4, <3>5, <3>6 DEF Kept
  <2> QED BY <2>8, <2>9, <2>10
<1> QED BY <1>6, <1>7, <1>8 DEF WInv

\* The worker writes a line: it is the last of all, and is unseen.
LEMMA LineWritten ==
    ASSUME IInv, WInv, NEW kind \in Kinds, Append1(kind), NEW line, line = Len(kinds) + 1
    PROVE  /\ UNCHANGED <<gen, stage, slots, begun, again>>
           /\ watcher'.unfired = watcher.unfired /\ watcher'.offset = watcher.offset
           /\ Len(kinds) \in Nat /\ line \in Lines /\ Len(kinds') = line
           /\ \A x \in 1 .. Len(kinds) : kinds'[x] = kinds[x]
           /\ kinds'[line] = kind
<1>1. UNCHANGED <<gen, stage, slots, begun, again>> /\ kinds' = Append(kinds, kind) /\ Len(kinds) < MaxLines
  BY DEF Append1, bus, looks
<1>2. watcher'.unfired = watcher.unfired /\ watcher'.offset = watcher.offset
  BY DEF Append1, IInv, TypeOK
<1>3. kinds \in Seq(Kinds)
  BY DEF IInv, TypeOK
<1>4. Len(kinds) \in Nat /\ line \in Lines
  BY <1>1, <1>3, LenProperties, HooksAssumption DEF Lines
<1>5. Len(kinds') = line /\ kinds'[line] = kind /\ \A x \in 1 .. Len(kinds) : kinds'[x] = kinds[x]
  BY <1>1, <1>3, <1>4, AppendProperties
<1> QED BY <1>1, <1>2, <1>4, <1>5

\* A hook wants the lines it wanted, and the new one if it is of its kind.
LEMMA WantsMore ==
    ASSUME IInv, WInv, NEW kind \in Kinds, Append1(kind), NEW line, line = Len(kinds) + 1, NEW h \in Hooks
    PROVE  /\ LinesOf(h)' \subseteq Lines
           /\ LinesOf(h) \subseteq LinesOf(h)' /\ LinesOf(h) \subseteq 1 .. Len(kinds)
           /\ line \in LinesOf(h)' <=> kind = Trigger(h)
           /\ \A s \in Seq(1 .. Len(kinds)) : Only(s, LinesOf(h)') = Only(s, LinesOf(h))
<1>1. /\ Len(kinds) \in Nat /\ line \in Lines /\ Len(kinds') = line
      /\ \A x \in 1 .. Len(kinds) : kinds'[x] = kinds[x]
      /\ kinds'[line] = kind
  BY LineWritten
<1>2. kinds \in Seq(Kinds) /\ kinds' \in Seq(Kinds)
  BY AppendProperties DEF IInv, TypeOK, Append1
<1>3. LinesOf(h) = {x \in 1 .. Len(kinds) : kinds[x] = Trigger(h)}
  BY <1>2 DEF LinesOf
<1>4. LinesOf(h)' = {x \in 1 .. line : kinds'[x] = Trigger(h)}
  BY <1>1, <1>2 DEF LinesOf
<1>5. 1 .. Len(kinds) \subseteq 1 .. line /\ 1 .. line \subseteq Lines /\ line \in 1 .. line
  BY <1>1, HooksAssumption DEF Lines
<1>6. LinesOf(h) \subseteq LinesOf(h)' /\ (line \in LinesOf(h)' <=> kind = Trigger(h))
  BY <1>1, <1>3, <1>4, <1>5
<1>7. (1 .. Len(kinds)) \cap LinesOf(h)' = (1 .. Len(kinds)) \cap LinesOf(h)
  BY <1>1, <1>3, <1>4, <1>5
<1>8. ASSUME NEW s \in Seq(1 .. Len(kinds)) PROVE Only(s, LinesOf(h)') = Only(s, LinesOf(h))
  BY <1>7, OnlySame
<1> QED BY <1>3, <1>4, <1>5, <1>6, <1>8


\* The rest of a sequence grows with it.
LEMMA SubSeqGrows ==
    ASSUME NEW S, NEW s \in Seq(S), NEW x \in S, NEW n \in Nat, n =< Len(s)
    PROVE  SubSeq(Append(s, x), n + 1, Len(s) + 1) = Append(SubSeq(s, n + 1, Len(s)), x)
<1> DEFINE a == Append(s, x)
           r == SubSeq(s, n + 1, Len(s))
           l == SubSeq(a, n + 1, Len(s) + 1)
<1>1. Len(s) \in Nat /\ a \in Seq(S) /\ Len(a) = Len(s) + 1 /\ a[Len(s) + 1] = x
      /\ \A i \in 1 .. Len(s) : a[i] = s[i]
  BY AppendProperties, LenProperties
<1>2. r \in Seq(S) /\ Len(r) = Len(s) - n /\ \A i \in 1 .. Len(s) - n : r[i] = s[n + i]
  BY <1>1, SubSeqProperties
<1>3. l \in Seq(S) /\ Len(l) = Len(s) + 1 - n /\ \A i \in 1 .. Len(s) + 1 - n : l[i] = a[n + i]
  BY <1>1, SubSeqProperties
<1> HIDE DEF a, r, l
<1> DEFINE m == Append(r, x)
<1>4. m \in Seq(S) /\ Len(m) = Len(r) + 1 /\ m[Len(r) + 1] = x /\ \A i \in 1 .. Len(r) : m[i] = r[i]
  BY <1>2, AppendProperties
<1> HIDE DEF m
<1>5. Len(l) = Len(m)
  BY <1>1, <1>2, <1>3, <1>4
<1>6. ASSUME NEW i \in 1 .. Len(l) PROVE l[i] = m[i]
  <2>1. CASE i = Len(s) + 1 - n
    BY <1>1, <1>2, <1>3, <1>4, <2>1
  <2>2. CASE i # Len(s) + 1 - n
    <3>1. i \in 1 .. Len(s) - n /\ n + i \in 1 .. Len(s) /\ i \in 1 .. Len(s) + 1 - n
      BY <1>1, <1>3, <2>2
    <3> QED BY <1>1, <1>2, <1>3, <1>4, <3>1
  <2> QED BY <2>1, <2>2
<1>7. l = m
  BY <1>3, <1>4, <1>5, <1>6, SeqEqual
<1> QED BY <1>7 DEF a, r, l, m

\* What the watcher has not seen grows by the line, or is the line alone.
LEMMA UnseenGrows ==
    ASSUME IInv, WInv, NEW kind \in Kinds, Append1(kind), NEW line, line = Len(kinds) + 1,
           NEW fresh, fresh = (kind = "viewer_start" /\ Len(log) > MaxLog)
    PROVE  /\ Unseen' = Append(IF fresh THEN <<>> ELSE Unseen, line)
           /\ Looked'
<1>1. /\ watcher'.offset = watcher.offset /\ Len(kinds) \in Nat /\ line \in Lines
  BY LineWritten
<1>2. Len(log) \in Nat /\ watcher.offset \in Nat /\ log \in Seq(Lines)
  BY LenProperties, HooksAssumption DEF IInv, TypeOK
<1>3. /\ NotRewritten(fresh)
      /\ log' = IF fresh THEN <<line>> ELSE Append(log, line)
      /\ watcher'.renewed = (watcher.renewed \/ fresh)
  BY DEF Append1, IInv, TypeOK
<1>4. CASE fresh
  <2>1. log' = <<line>> /\ Len(log') = 1 /\ (watcher.offset = 0 \/ 1 < watcher.offset)
    BY <1>3, <1>4 DEF NotRewritten
  <2>2. Unseen' = <<line>>
    <3>1. CASE 1 < watcher.offset
      BY <1>1, <2>1, <3>1 DEF Dropped, Unseen
    <3>2. CASE watcher.offset = 0
      <4>1. ~Dropped' /\ Unread' = SubSeq(<<line>>, 0 + 1, 1)
        BY <1>1, <2>1, <3>2 DEF Dropped, Unread
      <4>2. PICK one : one = <<line>>
        OBVIOUS
      <4>3. one \in Seq(Lines) /\ Len(one) = 1
        BY <1>1, <4>2
      <4>4. SubSeq(one, 1, Len(one)) = one
        BY <4>3, SubSeqFull
      <4>5. SubSeq(one, 1, 1) = one
        BY <4>3, <4>4
      <4> QED BY <4>1, <4>2, <4>5 DEF Unseen
    <3> QED BY <2>1, <3>1, <3>2
  <2>3. Append(<<>>, line) = <<line>>
    OBVIOUS
  <2> QED BY <1>3, <1>4, <2>2, <2>3 DEF Looked
<1>5. CASE ~fresh
  <2>1. log' = Append(log, line) /\ Len(log') = Len(log) + 1
    BY <1>1, <1>2, <1>3, <1>5, AppendProperties
  <2>2. watcher'.renewed = watcher.renewed
    BY <1>3, <1>5 DEF IInv, TypeOK
  <2>3. CASE watcher.renewed /\ watcher.offset # 0
    <3>1. Len(log) + 1 < watcher.offset
      BY <1>3, <1>5, <2>3 DEF NotRewritten
    <3>2. Dropped /\ Dropped'
      BY <1>1, <1>2, <2>1, <3>1 DEF Dropped
    <3> QED BY <1>5, <2>1, <2>2, <2>3, <3>2 DEF Unseen, Looked
  <2>4. CASE ~watcher.renewed \/ watcher.offset = 0
    <3>1. ~Dropped
      BY <1>2, <2>4 DEF WInv, Looked, Dropped
    <3>2. watcher.offset =< Len(log)
      BY <1>2, <3>1 DEF Dropped
    <3>3. ~Dropped'
      BY <1>1, <1>2, <2>1, <3>2 DEF Dropped
    <3>4. Unseen = Unread /\ Unseen' = SubSeq(Append(log, line), watcher.offset + 1, Len(log) + 1)
      BY <1>1, <2>1, <3>1, <3>3 DEF Unseen, Unread
    <3>5. SubSeq(Append(log, line), watcher.offset + 1, Len(log) + 1)
            = Append(SubSeq(log, watcher.offset + 1, Len(log)), line)
      BY <1>1, <1>2, <3>2, SubSeqGrows
    <3> QED BY <1>5, <3>3, <3>4, <3>5 DEF Unread, Looked
  <2> QED BY <2>3, <2>4
<1> QED BY <1>4, <1>5


\* A sequence rises with a number above all of it.
LEMMA RisesOn ==
    ASSUME NEW S, NEW s \in Seq(S), Rising(s), NEW k \in Nat, NEW x \in S, x = k + 1,
           \A i \in 1 .. Len(s) : s[i] \in 1 .. k
    PROVE  Rising(Append(s, x))
<1> DEFINE r == Append(s, x)
<1>1. Len(s) \in Nat /\ Len(r) = Len(s) + 1 /\ r[Len(s) + 1] = x /\ \A i \in 1 .. Len(s) : r[i] = s[i]
  BY AppendProperties, LenProperties
<1>2. \A i, j \in 1 .. Len(s) : i < j => s[i] < s[j]
  BY DEF Rising
<1> HIDE DEF r
<1>3. ASSUME NEW i \in 1 .. Len(r), NEW j \in 1 .. Len(r), i < j PROVE r[i] < r[j]
  <2>1. i \in 1 .. Len(s)
    BY <1>1, <1>3
  <2>2. CASE j = Len(s) + 1
    <3>1. r[i] = s[i] /\ s[i] \in 1 .. k /\ r[j] = x
      BY <1>1, <2>1, <2>2
    <3> QED BY <3>1
  <2>3. CASE j # Len(s) + 1
    <3>1. j \in 1 .. Len(s)
      BY <1>1, <2>3
    <3> QED BY <1>1, <1>2, <1>3, <2>1, <3>1
  <2> QED BY <2>2, <2>3
<1> QED BY <1>3 DEF Rising, r

\* What a hook is still owed, once what went with the file is taken from it.
LEMMA OwedGrows ==
    ASSUME IInv, WInv, NEW kind \in Kinds, Append1(kind), NEW line, line = Len(kinds) + 1
    PROVE  Owed'
<1>1. /\ line \in Lines /\ Len(kinds) \in Nat /\ begun' = begun
  BY LineWritten
<1>2. PICK lost :
        due' = [h \in Hooks |-> IF kind = Trigger(h) THEN Append(Forgotten(h, lost), line)
                                ELSE Forgotten(h, lost)]
  BY DEF Append1
<1>3. ASSUME NEW h \in Hooks
      PROVE  due'[h] \in Seq(Lines) /\ due'[h] \in Seq(LinesOf(h)') /\ Rising(due'[h])
  <2> DEFINE d == Forgotten(h, lost)
  <2>1. /\ LinesOf(h)' \subseteq Lines /\ LinesOf(h) \subseteq LinesOf(h)' /\ LinesOf(h) \subseteq 1 .. Len(kinds)
        /\ line \in LinesOf(h)' <=> kind = Trigger(h)
    BY WantsMore
  <2>2. d \in Seq(LinesOf(h)) /\ d \in Seq(Lines) /\ Rising(d)
    BY <2>1, Owes DEF Forgotten
  <2> HIDE DEF d
  <2>3. d \in Seq(LinesOf(h)')
    BY <2>1, <2>2, SeqMonotonic
  <2>4. due'[h] = IF kind = Trigger(h) THEN Append(d, line) ELSE d
    BY <1>2 DEF d
  <2>5. ASSUME line \in LinesOf(h)'
        PROVE  Append(d, line) \in Seq(LinesOf(h)') /\ Append(d, line) \in Seq(Lines)
    BY <1>1, <2>2, <2>3, <2>5, AppendProperties
  <2>6. Rising(Append(d, line))
    <3>1. \A i \in 1 .. Len(d) : d[i] \in 1 .. Len(kinds)
      <4>1. \A i \in 1 .. Len(d) : d[i] \in LinesOf(h)
        BY <2>2, ElementOfSeq
      <4> QED BY <2>1, <4>1
    <3>2. Rising(d) /\ d \in Seq(Lines)
      BY <2>2
    <3> QED BY <1>1, <3>1, <3>2, RisesOn
  <2> QED BY <2>1, <2>2, <2>3, <2>4, <2>5, <2>6
<1>4. due' \in [Hooks -> Seq(Lines)]
  <2>1. due' = [h \in Hooks |-> due'[h]]
    BY <1>2
  <2> QED BY <1>3, <2>1
<1>5. begun' \in [Hooks -> Seq(Lines)]
  BY <1>1 DEF WInv, Owed
<1> QED BY <1>3, <1>4, <1>5 DEF Owed

\* A line is written: the hooks that want it are owed it, and what a new file
\* takes with it is owed no more.
LEMMA Append1Moves ==
    ASSUME IInv, WInv, NEW kind \in Kinds, Append1(kind)
    PROVE  WInv'
<1>1. PICK line : line = Len(kinds) + 1
  OBVIOUS
<1>2. PICK fresh : fresh = (kind = "viewer_start" /\ Len(log) > MaxLog)
  OBVIOUS
<1> DEFINE lost == IF fresh THEN Unseen ELSE <<>>
           u0 == IF fresh THEN <<>> ELSE Unseen
<1>3. /\ UNCHANGED <<gen, stage, slots, begun, again>>
      /\ watcher'.unfired = watcher.unfired
      /\ Len(kinds) \in Nat /\ line \in Lines /\ Len(kinds') = line
  BY <1>1, LineWritten
<1>4. Unseen' = Append(u0, line) /\ Looked'
  BY <1>1, <1>2, UnseenGrows
<1>5. Owed'
  BY <1>1, OwedGrows
<1>6. Written'
  <2>1. 1 .. Len(kinds) \subseteq 1 .. line /\ line \in 1 .. line
    BY <1>1, <1>3
  <2>2. log \in Seq(1 .. line) /\ watcher.unfired \in Seq(1 .. line)
    BY <2>1, SeqMonotonic DEF WInv, Written
  <2>3. log' = <<line>> \/ log' = Append(log, line)
    BY <1>1 DEF Append1
  <2>4. <<line>> \in Seq(1 .. line) /\ Append(log, line) \in Seq(1 .. line)
    BY <2>1, <2>2, AppendProperties
  <2> QED BY <1>3, <2>2, <2>3, <2>4 DEF Written
<1>7. due' = [h \in Hooks |-> IF kind = Trigger(h) THEN Append(Forgotten(h, lost), line) ELSE Forgotten(h, lost)]
  BY <1>1, <1>2 DEF Append1
<1>8. /\ Unseen \in Seq(1 .. Len(kinds)) /\ watcher.unfired \in Seq(1 .. Len(kinds))
      /\ u0 \in Seq(1 .. Len(kinds))
  <2>1. Unseen \in Seq(1 .. Len(kinds))
    BY UnseenWritten DEF WInv
  <2>2. watcher.unfired \in Seq(1 .. Len(kinds)) /\ <<>> \in Seq(1 .. Len(kinds))
    BY DEF WInv, Written
  <2> QED BY <2>1, <2>2
<1>9. EveryLineOnce'
  <2> SUFFICES ASSUME stage # "draining", NEW h \in Hooks PROVE Kept(h)'
    BY <1>3, KeptAllNext
  <2> DEFINE a == begun[h]
             b == slots[gen][h].pending
             t == Wanted(h, watcher.unfired)
             v == Wanted(h, u0)
             d == Forgotten(h, lost)
  <2>1. /\ LinesOf(h) \subseteq Lines /\ Unseen \in Seq(Lines) /\ <<>> \in Seq(Lines)
        /\ a \in Seq(Lines) /\ b \in Seq(Lines) /\ t \in Seq(Lines) /\ Wanted(h, Unseen) \in Seq(Lines)
    <3>1. /\ LinesOf(h) \subseteq Lines /\ 1 .. Len(kinds) \subseteq Lines
          /\ a \in Seq(Lines) /\ b \in Seq(Lines) /\ t \in Seq(Lines) /\ Wanted(h, Unseen) \in Seq(Lines)
      BY Stretches
    <3>2. Unseen \in Seq(Lines)
      BY <1>8, <3>1, SeqMonotonic
    <3> HIDE DEF a, b, t
    <3> QED BY <3>1, <3>2
  <2>2. v \in Seq(Lines)
    <3>1. Wanted(h, <<>>) = <<>>
      BY OnlyEmpty DEF Wanted
    <3> QED BY <2>1, <3>1
  <2>3. /\ Right(Way(a, b, t, Wanted(h, Unseen)), due[h], Lines \ again)
        /\ due[h] \in Seq(LinesOf(h)) /\ due[h] \in Seq(Lines) /\ Rising(due[h])
    <3>1. Kept(h)
      BY KeptAll DEF WInv
    <3> QED BY <3>1, WayNow DEF WInv, Owed, Kept
  <2>4. Right(Way(a, b, t, v), d, Lines \ again)
    <3>1. CASE fresh
      <4>1. v = <<>> /\ d = Only(due[h], Lines \ Range(Unseen))
        BY <3>1, OnlyEmpty DEF Wanted, Forgotten
      <4> HIDE DEF a, b, t, v, d
      <4> DEFINE p == Cat(Cat(a, b), t)
                 A == Lines \ again
      <4>2. p \in Seq(Lines) /\ A \in SUBSET Lines
        BY <2>1, WayType
      <4>3. Right(Cat(p, Only(Unseen, LinesOf(h))), due[h], A)
        BY <2>3 DEF Way, Wanted
      <4>4. Way(a, b, t, <<>>) = p
        BY <4>2, CatEmpty DEF Way
      <4> HIDE DEF p, A
      <4>5. Right(p, Only(due[h], Lines \ Range(Unseen)), A)
        BY <2>1, <2>3, <4>2, <4>3, RightEnds
      <4> QED BY <4>1, <4>4, <4>5 DEF A
    <3>2. CASE ~fresh
      <4>1. Lines \ Range(<<>>) = Lines
        BY DEF Range
      <4>2. v = Wanted(h, Unseen) /\ d = Only(due[h], Lines)
        BY <3>2, <4>1 DEF Forgotten
      <4>3. Only(due[h], Lines) = due[h]
        BY <2>3, OnlyAll
      <4> QED BY <2>3, <4>2, <4>3
    <3> QED BY <3>1, <3>2
  <2>5. /\ \A x \in Seq(1 .. Len(kinds)) : Only(x, LinesOf(h)') = Only(x, LinesOf(h))
        /\ line \in LinesOf(h)' <=> kind = Trigger(h)
    BY <1>1, WantsMore
  <2>6. Wanted(h, watcher.unfired)' = t /\ Only(u0, LinesOf(h)') = v
    <3> HIDE DEF u0
    <3> QED BY <1>3, <1>8, <2>5 DEF Wanted
  <2>7. u0 \in Seq(Lines)
    BY <2>1
  <2>8. Wanted(h, Unseen)' = IF kind = Trigger(h) THEN Append(v, line) ELSE v
    <3> HIDE DEF u0
    <3>1. Wanted(h, Unseen)' = Only(Append(u0, line), LinesOf(h)')
      BY <1>4 DEF Wanted
    <3> HIDE DEF v
    <3> QED BY <1>3, <2>5, <2>6, <2>7, <3>1, OnlyAppend
  <2>9. due'[h] = IF kind = Trigger(h) THEN Append(d, line) ELSE d
    BY <1>7
  <2>10. Way(a, b, t, Append(v, line)) = Append(Way(a, b, t, v), line)
    <3>1. line \in Lines
      BY <1>3
    <3>2. a \in Seq(Lines) /\ b \in Seq(Lines) /\ t \in Seq(Lines) /\ v \in Seq(Lines)
      BY <2>1, <2>2
    <3> HIDE DEF a, b, t, v
    <3> DEFINE w == Cat(Cat(a, b), t)
    <3>3. w \in Seq(Lines)
      <4>1. Cat(a, b) \in Seq(Lines)
        BY <3>2, CatType
      <4> QED BY <3>2, <4>1, CatType
    <3>4. Way(a, b, t, Append(v, line)) = Cat(w, Append(v, line)) /\ Way(a, b, t, v) = Cat(w, v)
      BY DEF Way
    <3> HIDE DEF w
    <3>5. Cat(w, Append(v, line)) = Append(Cat(w, v), line)
      BY <3>1, <3>2, <3>3, CatGrows
    <3> QED BY <3>4, <3>5
  <2>12. OnTheWay(h)' = Way(a, b, t, Wanted(h, Unseen)')
    BY <1>3, <2>6, WayNext
  <2>13. Way(a, b, t, v) \in Seq(Lines) /\ d \in Seq(Lines) /\ line \in Lines
    <3>1. d \in Seq(Lines \cap (Lines \ Range(lost)))
      BY <2>3, OnlyType DEF Forgotten
    <3>2. Lines \cap (Lines \ Range(lost)) \subseteq Lines
      OBVIOUS
    <3> HIDE DEF a, b, t, v, d
    <3>3. d \in Seq(Lines)
      BY <3>1, <3>2, SeqMonotonic
    <3> QED BY <1>3, <2>1, <2>2, <3>3, WayType
  <2> HIDE DEF a, b, v, d, t
  <2>14. CASE kind = Trigger(h)
    <3>1. OnTheWay(h)' = Append(Way(a, b, t, v), line) /\ due'[h] = Append(d, line)
      BY <2>8, <2>9, <2>10, <2>12, <2>14
    <3>2. Right(Append(Way(a, b, t, v), line), Append(d, line), Lines \ again)
      BY <2>4, <2>13, RightAppends
    <3> QED BY <1>3, <3>1, <3>2 DEF Kept
  <2>15. CASE kind # Trigger(h)
    <3>1. OnTheWay(h)' = Way(a, b, t, v) /\ due'[h] = d
      BY <2>8, <2>9, <2>12, <2>15
    <3> QED BY <1>3, <2>4, <3>1 DEF Kept
  <2> QED BY <2>14, <2>15
<1> QED BY <1>4, <1>5, <1>6, <1>9 DEF WInv

\* The next generation owes nothing yet: its watcher starts behind the lines that
\* are there, and nothing waits in its bus.
LEMMA NextGenerationMoves ==
    ASSUME IInv, WInv, NextGeneration
    PROVE  WInv'
<1>1. /\ stage = "draining" /\ gen' = gen + 1 /\ UNCHANGED <<kinds, log, slots>>
      /\ due' = [h \in Hooks |-> <<>>] /\ begun' = [h \in Hooks |-> <<>>]
      /\ \/ watcher' = Watching(Len(log))
         \/ watcher' = Watching(0) /\ again' = Range(log)
  BY DEF NextGeneration, writer, bus
<1>2. <<>> \in Seq(Lines) /\ Rising(<<>>) /\ \A S : <<>> \in Seq(S)
  BY DEF Rising
<1>3. Owed'
  BY <1>1, <1>2 DEF Owed
<1>4. Len(log) \in Nat /\ log \in Seq(Lines)
      /\ SubSeq(log, 1, Len(log)) = log /\ SubSeq(log, Len(log) + 1, Len(log)) = <<>>
  BY LenProperties, SubSeqFull, SubSeqEmpty DEF IInv, TypeOK
<1>5. /\ ~Dropped' /\ watcher'.unfired = <<>>
      /\ \/ Unseen' = <<>>
         \/ Unseen' = log /\ again' = Range(log)
  BY <1>1, <1>4 DEF Watching, Dropped, Unseen, Unread
<1>6. Written' /\ Looked'
  BY <1>1, <1>2, <1>5 DEF WInv, Written, Looked
<1>7. \A h \in Hooks : slots'[gen'][h].pending = <<>>
  <2>1. gen \in Gens /\ gen + 1 \in Gens /\ gen + 1 # gen
    BY <1>1, HooksAssumption DEF IInv, TypeOK, Ordered, Gens
  <2>2. \A h \in Hooks : ~slots[gen + 1][h].running
    BY <2>1 DEF IInv, Alone
  <2>3. \A h \in Hooks : slots[gen + 1][h].pending = <<>>
    BY <2>1, <2>2 DEF IInv, Staffed
  <2> QED BY <1>1, <2>3
<1>8. EveryLineOnce'
  <2> SUFFICES ASSUME NEW h \in Hooks PROVE Kept(h)'
    BY KeptAllNext
  <2>1. Wanted(h, watcher.unfired)' = <<>>
    BY <1>5, OnlyEmpty DEF Wanted
  <2>2. begun'[h] = <<>> /\ due'[h] = <<>> /\ slots'[gen'][h].pending = <<>>
    BY <1>1, <1>7
  <2> DEFINE w == Wanted(h, Unseen)'
  <2>3. OnTheWay(h)' = Way(<<>>, <<>>, <<>>, w)
    BY <2>1, <2>2, WayNext
  <2>4. w \in Seq(Lines) /\ Only(w, Lines \ again') = <<>>
    <3>1. CASE Unseen' = <<>>
      <4>1. w = <<>>
        BY <3>1, OnlyEmpty DEF Wanted
      <4> QED BY <1>2, <4>1, OnlyEmpty
    <3>2. CASE Unseen' = log /\ again' = Range(log)
      <4>1. w = Only(log, LinesOf(h)')
        BY <3>2 DEF Wanted
      <4>2. log \in Seq(Range(log)) /\ Range(log) \subseteq Lines
        BY <1>4, SeqOfRange, RangeOfSeq
      <4> HIDE DEF w
      <4>3. w \in Seq(Range(log) \cap LinesOf(h)')
        BY <4>1, <4>2, OnlyType
      <4>4. w \in Seq(Range(log)) /\ Range(log) \cap (Lines \ again') = {}
        BY <3>2, <4>3, SeqMonotonic
      <4>5. w \in Seq(Lines)
        BY <4>2, <4>4, SeqMonotonic
      <4> QED BY <4>4, <4>5, OnlyNone
    <3> QED BY <1>5, <3>1, <3>2
  <2> HIDE DEF w
  <2>5. Way(<<>>, <<>>, <<>>, w) = w
    BY <1>2, <2>4, CatEmpty DEF Way
  <2>6. Range(<<>>) = {} /\ Only(<<>>, Lines \ again') = <<>>
    BY OnlyEmpty DEF Range
  <2>7. Right(w, <<>>, Lines \ again')
    BY <2>4, <2>6 DEF Right
  <2> QED BY <2>2, <2>3, <2>5, <2>7 DEF Kept
<1> QED BY <1>3, <1>6, <1>8 DEF WInv

\* A worker that leaves moves no line.
LEMMA WorkerMoves ==
    ASSUME IInv, WInv, NEW g \in Gens, NEW h \in Hooks, Worker(g, h)
    PROVE  WInv'
<1>1. CASE Begin(g, h)
  BY <1>1, BeginMoves
<1>2. CASE Retire(g, h)
  <2>1. UNCHANGED <<kinds, log, gen, stage, watcher, due, begun, again>>
    BY <1>2 DEF Retire, writer, looks
  <2>2. \A k \in Hooks : slots'[gen][k].pending = slots[gen][k].pending
    BY <1>2 DEF Retire, Retired, IInv, TypeOK, Slot
  <2> QED BY <2>1, <2>2, MovesNone
<1> QED BY <1>1, <1>2 DEF Worker

\* Nor does a run that is over, or one whose program has left.
LEMMA ProgramMoves ==
    ASSUME IInv, WInv, NEW g \in Gens, NEW h \in Hooks \cup CronHooks, Program(g, h)
    PROVE  WInv'
<1>1. CASE ProgramLeaves(g, h)
  BY <1>1, MovesNone DEF ProgramLeaves, writer, looks
<1>2. CASE Over(g, h)
  <2>1. UNCHANGED <<kinds, log, gen, stage, watcher, due, begun, again>>
    BY <1>2 DEF Over, writer, looks
  <2>2. \A k \in Hooks : slots'[gen][k].pending = slots[gen][k].pending
    <3>1. CASE h \in Hooks
      <4>1. slots' = [slots EXCEPT ![g][h].run = None]
        BY <1>2, <3>1 DEF Over
      <4>2. slots \in [Gens -> [Hooks -> Slot]] /\ gen \in Gens
        BY DEF IInv, TypeOK
      <4> QED BY <3>1, <4>1, <4>2 DEF Slot
    <3>2. CASE h \notin Hooks
      BY <1>2, <3>2 DEF Over
    <3> QED BY <3>1, <3>2
  <2> QED BY <2>1, <2>2, MovesNone
<1> QED BY <1>1, <1>2 DEF Program, RunEnds, OutputCloses

LEMMA StepsMove == IInv /\ WInv /\ [Next]_vars => WInv'
<1> SUFFICES ASSUME IInv, WInv, [Next]_vars PROVE WInv'
  OBVIOUS
<1>1. CASE SessionStarts \/ ItemStarts \/ SessionStops
  BY <1>1, Append1Moves DEF SessionStarts, ItemStarts, SessionStops, Kinds
<1>2. CASE Poll \/ LookFails
  BY <1>2, PollMoves, LookFailsMoves
<1>3. CASE Fire
  BY <1>3, FireMoves
<1>4. CASE WatcherStops
  <2>1. watcher'.unfired = watcher.unfired /\ watcher'.offset = watcher.offset /\ watcher'.renewed = watcher.renewed
    BY <1>4 DEF WatcherStops, IInv, TypeOK
  <2> QED BY <1>4, <2>1, MovesNone DEF WatcherStops, writer, bus, looks
<1>5. CASE \E g \in Gens : \E h \in Hooks : Worker(g, h)
  BY <1>5, WorkerMoves
<1>6. CASE \/ \E g \in Gens : \E h \in Hooks \cup CronHooks : Program(g, h)
           \/ \E h \in CronHooks : CronTick(h)
  BY <1>6, ProgramMoves, MovesNone DEF CronTick, writer, looks
<1>7. CASE WorkerDies \/ Reload
  BY <1>7, MovesNone DEF WorkerDies, Reload, bus, writer, looks
<1>8. CASE CancelAll
  BY <1>8, MovesNone DEF CancelAll, writer, looks
<1>9. CASE NextGeneration
  BY <1>9, NextGenerationMoves
<1>10. CASE UNCHANGED vars
  BY <1>10, MovesNone DEF vars, writer, bus, looks
<1> QED BY <1>1, <1>2, <1>3, <1>4, <1>5, <1>6, <1>7, <1>8, <1>9, <1>10 DEF Next, Watcher, Station

\* No line that was promised to a hook is lost, and those that no failed look put
\* before the watcher once more are on exactly one stretch of the way, in the order
\* they were written: run for, waiting, about to be fired, or unread
\* (hooks.rs:756, :559).
THEOREM EveryLine_Once == Spec => []EveryLineOnce
<1>1. Init => IInv /\ WInv
  BY InitInv, InitWay
<1>2. IInv /\ WInv /\ [Next]_vars => (IInv /\ WInv)'
  BY NextInv, StepsMove
<1>3. WInv => EveryLineOnce
  BY DEF WInv
<1> QED BY <1>1, <1>2, <1>3, PTL DEF Spec


=============================================================================
