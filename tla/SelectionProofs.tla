-------------------------- MODULE SelectionProofs ---------------------------
(***************************************************************************)
(* What the proofs about the fetchers share: induction on the natural      *)
(* numbers as a fact about sets of them, functions defined by iteration,   *)
(* the elements of a sequence, and what Select returns.                    *)
(***************************************************************************)
EXTENDS Selection, SequencesExt, SequenceTheorems, WellFoundedInduction, TLAPS

----------------------------------------------------------------------------
(* Induction, and functions defined by it.                                 *)

\* A set of numbers has a least one.
LEMMA Least ==
    ASSUME NEW T \in SUBSET Nat, T # {}
    PROVE  \E n \in T : \A m \in T : n <= m
<1>1. IsWellFoundedOn({p \in Nat \X Nat : p[1] < p[2]}, Nat)
    BY NatLessThanWellFounded DEF OpToRel
<1>2. PICK n \in T : \A m \in T : <<m, n>> \notin {p \in Nat \X Nat : p[1] < p[2]}
    BY <1>1, WFMin
<1>3. ASSUME NEW m \in T PROVE n <= m
    <2>1. m \in Nat /\ n \in Nat
        OBVIOUS
    <2>2. <<m, n>> \in Nat \X Nat /\ <<m, n>>[1] = m /\ <<m, n>>[2] = n
        BY <2>1
    <2>3. ~(m < n)
        BY <1>2, <2>2
    <2>. QED
        BY <2>1, <2>3
<1>. QED
    BY <1>3

\* Induction: a set of indices that with each has the one before it, and not
\* the first, is empty.
LEMMA Induction ==
    ASSUME NEW T \in SUBSET (Nat \ {0}), 1 \notin T,
           \A n \in T : n = 1 \/ n - 1 \in T
    PROVE  T = {}
<1>1. SUFFICES ASSUME T # {} PROVE FALSE
    OBVIOUS
<1>2. PICK n \in T : \A m \in T : n <= m
    BY <1>1, Least
<1>3. n \in Nat /\ n - 1 \in T
    BY <1>2
<1>. QED
    BY <1>2, <1>3

\* Iterating a step from a base.
Iterates(n, V, base, step) ==
    \E f \in [0..n -> V] :
        f[0] = base /\ \A i \in 1..n : f[i] = step[i][f[i - 1]]

LEMMA Iteration ==
    ASSUME NEW n \in Nat, NEW V, NEW base \in V, NEW step \in [1..n -> [V -> V]]
    PROVE  Iterates(n, V, base, step)
<1> DEFINE Good(m, f) == f[0] = base /\ \A i \in 1..m : f[i] = step[i][f[i - 1]]
           T == {k \in 1..(n + 1) : ~\E f \in [0..(k - 1) -> V] : Good(k - 1, f)}
<1>1. 1 \notin T
    <2>1. [i \in 0..0 |-> base] \in [0..(1 - 1) -> V] /\ [i \in 0..0 |-> base][0] = base
        OBVIOUS
    <2>2. \A i \in 1..(1 - 1) : FALSE
        OBVIOUS
    <2>. QED
        BY <2>1, <2>2
<1>2. ASSUME NEW k \in T, k # 1 PROVE k - 1 \in T
    <2>1. SUFFICES ASSUME NEW g \in [0..(k - 2) -> V], Good(k - 2, g)
                   PROVE  \E f \in [0..(k - 1) -> V] : Good(k - 1, f)
        <3> HIDE DEF Good
        <3>1. k - 1 \in 1..(n + 1) /\ (k - 1) - 1 = k - 2
            BY <1>2
        <3>. QED
            BY <1>2, <3>1
    <2>2. /\ k \in 2..(n + 1) /\ k - 1 \in 1..n /\ (k - 1) - 1 = k - 2 /\ k - 2 \in 0..(k - 2)
          /\ \A i \in 1..(k - 1) : i # k - 1 => i \in 1..(k - 2) /\ i - 1 \in 0..(k - 2)
          /\ \A i \in 0..(k - 1) : i # k - 1 => i \in 0..(k - 2)
          /\ \A i \in 0..(k - 2) : i # k - 1 /\ i \in 0..(k - 1)
          /\ 0 \in 0..(k - 2) /\ k - 1 \in 0..(k - 1)
        BY <1>2
    <2>3. PICK v \in V : v = step[k - 1][g[k - 2]]
        BY <2>1, <2>2
    <2> DEFINE f == [i \in 0..(k - 1) |-> IF i = k - 1 THEN v ELSE g[i]]
    <2>4. f \in [0..(k - 1) -> V]
        BY <2>1, <2>2
    <2>5. f[k - 1] = v /\ \A i \in 0..(k - 2) : f[i] = g[i]
        BY <2>2
    <2> HIDE DEF f
    <2>6. f[0] = base
        BY <2>1, <2>2, <2>5
    <2>7. ASSUME NEW i \in 1..(k - 1) PROVE f[i] = step[i][f[i - 1]]
        <3>1. CASE i = k - 1
            <4>1. f[i] = v /\ f[i - 1] = g[k - 2] /\ i = k - 1
                BY <2>2, <2>5, <3>1
            <4>. QED
                BY <2>3, <4>1, Zenon
        <3>2. CASE i # k - 1
            <4>1. f[i] = g[i] /\ f[i - 1] = g[i - 1] /\ g[i] = step[i][g[i - 1]]
                BY <2>1, <2>2, <2>5, <3>2
            <4>. QED
                BY <4>1, Zenon
        <3>. QED
            BY <3>1, <3>2
    <2>. QED
        BY <2>4, <2>6, <2>7
<1>3. T \in SUBSET (Nat \ {0})
    OBVIOUS
<1> HIDE DEF T
<1>4. T = {}
    BY <1>1, <1>2, <1>3, Induction
<1>5. n + 1 \in 1..(n + 1) /\ (n + 1) - 1 = n
    OBVIOUS
<1> HIDE DEF Good
<1>6. \E f \in [0..((n + 1) - 1) -> V] : Good((n + 1) - 1, f)
    BY <1>4, <1>5, Zenon DEF T
<1>7. \E f \in [0..n -> V] : Good(n, f)
    BY <1>5, <1>6, Zenon
<1>. QED
    BY <1>7, Zenon DEF Good, Iterates

----------------------------------------------------------------------------
(* Sequences.                                                              *)

\* The elements of a sequence, of its tail, and of one with another added.
LEMMA Members ==
    ASSUME NEW S, NEW s \in Seq(S)
    PROVE  /\ ToSet(s) \in SUBSET S /\ s \in Seq(ToSet(s))
           /\ \A i \in 1..Len(s) : s[i] \in ToSet(s)
           /\ \A x \in ToSet(s) : \E i \in 1..Len(s) : x = s[i]
           /\ s # <<>> => /\ Head(s) \in ToSet(s) /\ Tail(s) \in Seq(S)
                          /\ ToSet(Tail(s)) \in SUBSET ToSet(s)
           /\ \A x \in S : ToSet(Append(s, x)) = ToSet(s) \cup {x}
<1>1. /\ ToSet(s) \in SUBSET S /\ s \in Seq(ToSet(s))
      /\ \A i \in 1..Len(s) : s[i] \in ToSet(s)
      /\ \A x \in ToSet(s) : \E i \in 1..Len(s) : x = s[i]
    BY DEF ToSet
<1>2. ASSUME s # <<>>
      PROVE  Head(s) \in ToSet(s) /\ Tail(s) \in Seq(S) /\ ToSet(Tail(s)) \in SUBSET ToSet(s)
    <2>1. /\ Tail(s) \in Seq(S) /\ Head(s) = s[1] /\ Len(s) \in Nat \ {0} /\ Len(Tail(s)) = Len(s) - 1
          /\ \A i \in 1..Len(Tail(s)) : Tail(s)[i] = s[i + 1]
        BY <1>2
    <2>. QED
        BY <2>1 DEF ToSet
<1>3. ASSUME NEW x \in S PROVE ToSet(Append(s, x)) = ToSet(s) \cup {x}
    <2>1. /\ Append(s, x) \in Seq(S) /\ Len(Append(s, x)) = Len(s) + 1 /\ Len(s) \in Nat
          /\ \A i \in 1..Len(s) : Append(s, x)[i] = s[i]
          /\ Append(s, x)[Len(s) + 1] = x
        OBVIOUS
    <2>2. DOMAIN Append(s, x) = 1..(Len(s) + 1) /\ DOMAIN s = 1..Len(s)
        BY <2>1
    <2>. QED
        BY <2>1, <2>2 DEF ToSet
<1>. QED
    BY <1>1, <1>2, <1>3

\* A sequence with one more element.
LEMMA Appended ==
    ASSUME NEW S, NEW s \in Seq(S), NEW x \in S
    PROVE  /\ DOMAIN Append(s, x) = DOMAIN s \cup {Len(s) + 1}
           /\ Len(s) + 1 \notin DOMAIN s
           /\ \A i \in DOMAIN s : Append(s, x)[i] = s[i]
           /\ Append(s, x)[Len(s) + 1] = x
           /\ Append(s, x) # <<>> /\ Last(Append(s, x)) = x
<1>1. /\ Len(Append(s, x)) = Len(s) + 1 /\ Len(s) \in Nat
      /\ DOMAIN Append(s, x) = 1..(Len(s) + 1) /\ DOMAIN s = 1..Len(s)
      /\ Append(s, x)[Len(s) + 1] = x
      /\ \A i \in DOMAIN s : Append(s, x)[i] = s[i]
    OBVIOUS
<1>2. Last(Append(s, x)) = x
    BY <1>1 DEF Last
<1>. QED
    BY <1>1, <1>2

\* Moving an element from one sequence to the next keeps their concatenation.
LEMMA Moved ==
    ASSUME NEW S, NEW s \in Seq(S), NEW t \in Seq(S), t # <<>>
    PROVE  Append(s, Head(t)) \o Tail(t) = s \o t
<1>1. /\ Head(t) \in S /\ Tail(t) \in Seq(S) /\ <<Head(t)>> \in Seq(S)
      /\ t = <<Head(t)>> \o Tail(t)
    OBVIOUS
<1>2. Append(s, Head(t)) = s \o <<Head(t)>>
    BY <1>1, AppendIsConcat
<1>3. (s \o <<Head(t)>>) \o Tail(t) = s \o (<<Head(t)>> \o Tail(t))
    BY <1>1, ConcatAssociative
<1>. QED
    BY <1>1, <1>2, <1>3

\* Appending to the second of two sequences appends to their concatenation.
LEMMA AppendedBeyond ==
    ASSUME NEW S, NEW s \in Seq(S), NEW t \in Seq(S), NEW x \in S
    PROVE  s \o Append(t, x) = Append(s \o t, x)
<1>1. s \o t \in Seq(S) /\ Append(t, x) = t \o <<x>> /\ <<x>> \in Seq(S)
    BY AppendIsConcat, ConcatProperties
<1>2. Append(s \o t, x) = (s \o t) \o <<x>>
    BY <1>1, AppendIsConcat
<1>. QED
    BY <1>1, <1>2, ConcatAssociative

\* t is the first n of s that are in K, in the order of s.
IsSelection(t, s, n, K) ==
    \E g \in [1..Len(t) -> 1..n] :
        /\ \A i \in 1..Len(t) : t[i] = s[g[i]] /\ s[g[i]] \in K
        /\ \A i, j \in 1..Len(t) : i < j => g[i] < g[j]
        /\ \A m \in 1..n : s[m] \in K => \E i \in 1..Len(t) : g[i] = m

\* A selection holds what was to be kept, and in the order it had.
LEMMA Selected ==
    ASSUME NEW S, NEW s \in Seq(S), NEW K
    PROVE  Select(s, K) \in Seq(S) /\ IsSelection(Select(s, K), s, Len(s), K)
<1> DEFINE L == Len(s)
           Step(h, i) == IF i = 0 THEN <<>>
                         ELSE IF s[i] \in K THEN Append(h[i - 1], s[i]) ELSE h[i - 1]
           kept == CHOOSE h : h = [i \in 0..L |-> Step(h, i)]
           Chosen(n, t) == IsSelection(t, s, n, K)
<1>1. L \in Nat /\ \A i \in 1..L : s[i] \in S
    OBVIOUS
<1>2. \E h \in [0..L -> Seq(S)] : h = [i \in 0..L |-> Step(h, i)]
    <2> DEFINE step == [i \in 1..L |-> [t \in Seq(S) |->
                          IF s[i] \in K THEN Append(t, s[i]) ELSE t]]
    <2>1. step \in [1..L -> [Seq(S) -> Seq(S)]] /\ <<>> \in Seq(S)
        BY <1>1
    <2>2. \A i \in 1..L : \A t \in Seq(S) :
            step[i][t] = IF s[i] \in K THEN Append(t, s[i]) ELSE t
        OBVIOUS
    <2> HIDE DEF step
    <2>3. PICK h \in [0..L -> Seq(S)] :
            h[0] = <<>> /\ \A i \in 1..L : h[i] = step[i][h[i - 1]]
        <3>1. Iterates(L, Seq(S), <<>>, step)
            BY <1>1, <2>1, Iteration, Zenon
        <3>. QED
            BY <3>1, Zenon DEF Iterates
    <2>4. ASSUME NEW i \in 0..L PROVE h[i] = Step(h, i)
        <3>1. CASE i = 0
            BY <2>3, <3>1
        <3>2. CASE i # 0
            <4>1. i \in 1..L /\ i - 1 \in 0..L
                BY <1>1, <3>2
            <4>2. h[i] = step[i][h[i - 1]] /\ h[i - 1] \in Seq(S)
                BY <2>3, <4>1
            <4>. QED
                BY <2>2, <3>2, <4>1, <4>2
        <3>. QED
            BY <3>1, <3>2
    <2> HIDE DEF Step
    <2>. QED
        BY <2>4
<1>3. kept = [i \in 0..L |-> Step(kept, i)]
    BY <1>2, Zenon
<1>4. Select(s, K) = kept[L]
    BY Zenon DEF Select
<1> HIDE DEF kept
<1>5. /\ kept[0] = <<>>
      /\ \A i \in 1..L : kept[i] = IF s[i] \in K THEN Append(kept[i - 1], s[i]) ELSE kept[i - 1]
    <2> HIDE DEF Step
    <2>1. \A i \in 0..L : kept[i] = Step(kept, i)
        BY <1>3
    <2>2. 0 \in 0..L /\ \A i \in 1..L : i \in 0..L /\ i # 0
        BY <1>1
    <2>3. kept[0] = Step(kept, 0) /\ \A i \in 1..L : kept[i] = Step(kept, i) /\ i # 0
        BY <2>1, <2>2
    <2>. QED
        BY <2>3, Zenon DEF Step
<1> DEFINE T == {k \in 1..(L + 1) : ~(kept[k - 1] \in Seq(S) /\ Chosen(k - 1, kept[k - 1]))}
<1>6. 1 \notin T
    <2>1. kept[1 - 1] = <<>> /\ <<>> \in Seq(S) /\ Len(<<>>) = 0
        BY <1>5
    <2>2. Chosen(0, <<>>)
        <3>1. <<>> \in [1..Len(<<>>) -> 1..0]
            BY <2>1
        <3>2. \A i \in 1..Len(<<>>) : FALSE
            BY <2>1
        <3>3. \A i \in 1..0 : FALSE
            OBVIOUS
        <3>. QED
            BY <3>1, <3>2, <3>3 DEF IsSelection
    <2> HIDE DEF Chosen
    <2>. QED
        BY <2>1, <2>2, 1 - 1 = 0, Zenon
<1>7. ASSUME NEW k \in T, k # 1 PROVE k - 1 \in T
    <2>1. k \in 2..(L + 1) /\ k - 1 \in 1..L /\ k - 1 \in 1..(L + 1) /\ (k - 1) - 1 = k - 2
        BY <1>1, <1>7
    <2>2. PICK n \in 1..L : n = k - 1
        BY <2>1
    <2>3. PICK t : t = kept[n - 1]
        OBVIOUS
    <2>4. kept[n] = IF s[n] \in K THEN Append(t, s[n]) ELSE t
        BY <1>5, <2>3
    <2>5. SUFFICES ASSUME t \in Seq(S), Chosen(n - 1, t)
                   PROVE  kept[n] \in Seq(S) /\ Chosen(n, kept[n])
        <3> HIDE DEF Chosen
        <3>1. ~(kept[n] \in Seq(S) /\ Chosen(n, kept[n]))
            BY <1>7, <2>2, Zenon
        <3>2. ASSUME ~(t \in Seq(S) /\ Chosen(n - 1, t)) PROVE k - 1 \in T
            BY <2>1, <2>2, <2>3, <3>2, Zenon
        <3>. QED
            BY <3>1, <3>2, Zenon
    <2>6. PICK g \in [1..Len(t) -> 1..(n - 1)] :
                /\ \A i \in 1..Len(t) : t[i] = s[g[i]] /\ s[g[i]] \in K
                /\ \A i, j \in 1..Len(t) : i < j => g[i] < g[j]
                /\ \A m \in 1..(n - 1) : s[m] \in K => \E i \in 1..Len(t) : g[i] = m
        BY <2>5, Zenon DEF IsSelection
    <2>7. n \in Nat /\ n \in 1..n /\ Len(t) \in Nat /\ \A m \in 1..n : m = n \/ m \in 1..(n - 1)
        BY <1>1, <2>5
    <2>8. CASE s[n] \notin K
        <3>1. g \in [1..Len(t) -> 1..n]
            BY <2>6, <2>7
        <3>2. \A m \in 1..n : s[m] \in K => \E i \in 1..Len(t) : g[i] = m
            BY <2>6, <2>7, <2>8
        <3>3. Chosen(n, t)
            BY <2>6, <3>1, <3>2 DEF IsSelection
        <3> HIDE DEF Chosen
        <3>. QED
            BY <2>4, <2>5, <2>8, <3>3
    <2>9. CASE s[n] \in K
        <3>1. PICK u \in Seq(S) : u = Append(t, s[n])
            <4>1. t \in Seq(S) /\ s[n] \in S
                BY <1>1, <2>5
            <4>. QED
                BY <4>1, AppendProperties
        <3>2. /\ Len(u) = Len(t) + 1 /\ u[Len(u)] = s[n]
              /\ \A i \in 1..Len(t) : u[i] = t[i]
              /\ \A i \in 1..Len(u) : i = Len(u) \/ i \in 1..Len(t)
              /\ \A i \in 1..Len(t) : i # Len(u) /\ i \in 1..Len(u)
              /\ Len(u) \in 1..Len(u)
            BY <1>1, <2>5, <2>7, <3>1
        <3> DEFINE h == [i \in 1..Len(u) |-> IF i = Len(u) THEN n ELSE g[i]]
        <3>3. h \in [1..Len(u) -> 1..n]
            BY <2>6, <2>7, <3>2
        <3>4. h[Len(u)] = n /\ \A i \in 1..Len(t) : h[i] = g[i]
            BY <3>2
        <3> HIDE DEF h
        <3>5. \A i \in 1..Len(u) : u[i] = s[h[i]] /\ s[h[i]] \in K
            BY <2>6, <2>9, <3>2, <3>4
        <3>6. ASSUME NEW i \in 1..Len(u), NEW j \in 1..Len(u), i < j PROVE h[i] < h[j]
            <4>1. i \in 1..Len(t)
                BY <2>7, <3>2, <3>6
            <4>0. g[i] \in 1..(n - 1)
                BY <2>6, <4>1
            <4>2. h[i] = g[i] /\ g[i] \in 1..(n - 1) /\ g[i] < n
                BY <2>7, <3>4, <4>0, <4>1
            <4>3. CASE j = Len(u)
                BY <3>4, <4>2, <4>3
            <4>4. CASE j \in 1..Len(t)
                BY <2>6, <3>4, <3>6, <4>1, <4>2, <4>4
            <4>. QED
                BY <3>2, <4>3, <4>4
        <3>7. \A m \in 1..n : s[m] \in K => \E i \in 1..Len(u) : h[i] = m
            BY <2>6, <2>7, <3>2, <3>4
        <3>8. Chosen(n, u)
            BY <3>3, <3>5, <3>6, <3>7, Zenon DEF IsSelection
        <3> HIDE DEF Chosen
        <3>. QED
            BY <2>4, <2>9, <3>1, <3>8
    <2>. QED
        BY <2>8, <2>9
<1>8. T \in SUBSET (Nat \ {0})
    BY <1>1
<1> HIDE DEF T
<1>9. T = {}
    BY <1>6, <1>7, <1>8, Induction
<1>10. L + 1 \in 1..(L + 1) /\ (L + 1) - 1 = L
    BY <1>1
<1> HIDE DEF Chosen
<1>11. kept[L] \in Seq(S) /\ Chosen(L, kept[L])
    BY <1>9, <1>10 DEF T
<1>12. Select(s, K) \in Seq(S) /\ Chosen(L, Select(s, K))
    BY <1>4, <1>11, Zenon
<1>. QED
    BY <1>12, Zenon DEF Chosen
=============================================================================
