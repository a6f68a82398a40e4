-------------------------- MODULE SkillFetcherProofs --------------------------
(***************************************************************************)
(* Proofs about SkillFetcher, for any trees, any limits, any capacities of *)
(* the two channels and any number of edits at any moment.  The first      *)
(* section says what Total computes, by induction on the length of a       *)
(* sequence.  The walks of a skill go by the tree, not by a length: what   *)
(* they have not seen is below a place they have still to visit (Under).   *)
(***************************************************************************)
EXTENDS SkillFetcher, SelectionProofs, FiniteSetTheorems

----------------------------------------------------------------------------
(* Totals.                                                                 *)

LEMMA Greatest ==
    ASSUME NEW n \in Nat, NEW T \in SUBSET (1..n), T # {}
    PROVE  Max(T) \in T /\ \A m \in T : m <= Max(T)
<1> DEFINE U == {n - m : m \in T}
<1>1. U \in SUBSET Nat /\ U # {}
    OBVIOUS
<1> HIDE DEF U
<1>2. PICK u \in U : \A v \in U : u <= v
    BY <1>1, Least
<1>3. PICK k \in T : u = n - k
    BY DEF U
<1>4. ASSUME NEW m \in T PROVE k >= m
    <2>1. n - m \in U
        BY DEF U
    <2>. QED
        BY <1>2, <1>3, <2>1
<1>5. \E x \in T : \A y \in T : x >= y
    BY <1>4
<1>6. Max(T) \in T /\ \A m \in T : Max(T) >= m
    BY <1>5, Zenon DEF Max
<1>. QED
    BY <1>6

\* Total adds the numbers of a sequence one by one.
LEMMA Totals ==
    ASSUME NEW s \in Seq(Nat)
    PROVE  \E g \in [0..Len(s) -> Nat] :
              /\ Total(s) = g[Len(s)] /\ g[0] = 0
              /\ \A i \in 1..Len(s) : g[i] = g[i - 1] + s[i]
<1> DEFINE L == Len(s)
           Sum(h, r) == IF r = {} THEN 0 ELSE h[r \ {Max(r)}] + s[Max(r)]
           UpTo(n) == \E h \in [SUBSET (1..n) -> Nat] : \A r \in SUBSET (1..n) : h[r] = Sum(h, r)
           iter == CHOOSE h : h = [r \in SUBSET DOMAIN s |-> Sum(h, r)]
           T == {k \in 1..(L + 1) : ~UpTo(k - 1)}
<1>1. L \in Nat /\ DOMAIN s = 1..L /\ \A i \in 1..L : s[i] \in Nat
    OBVIOUS
<1>2. 1 \notin T
    <2> DEFINE h == [r \in SUBSET (1..0) |-> 0]
    <2>1. h \in [SUBSET (1..0) -> Nat] /\ \A r \in SUBSET (1..0) : r = {} /\ h[r] = 0
        OBVIOUS
    <2> HIDE DEF h
    <2>2. UpTo(0)
        BY <2>1
    <2> HIDE DEF UpTo
    <2>. QED
        BY <2>2, 1 - 1 = 0, Zenon
<1>3. ASSUME NEW n \in 1..L, UpTo(n - 1) PROVE UpTo(n)
    <2>1. PICK g \in [SUBSET (1..(n - 1)) -> Nat] :
            \A r \in SUBSET (1..(n - 1)) : g[r] = Sum(g, r)
        BY <1>3
    <2>2. /\ n \in Nat /\ n \in 1..n
          /\ \A r \in SUBSET (1..n) : n \notin r => r \in SUBSET (1..(n - 1))
          /\ \A r \in SUBSET (1..n) : r \ {n} \in SUBSET (1..(n - 1))
          /\ \A r \in SUBSET (1..(n - 1)) : r \in SUBSET (1..n) /\ n \notin r
        BY <1>1
    <2> DEFINE h == [r \in SUBSET (1..n) |-> IF n \in r THEN g[r \ {n}] + s[n] ELSE g[r]]
    <2>3. ASSUME NEW r \in SUBSET (1..n)
          PROVE  (IF n \in r THEN g[r \ {n}] + s[n] ELSE g[r]) \in Nat
        <3>1. g[r \ {n}] \in Nat /\ s[n] \in Nat
            BY <1>1, <2>1, <2>2
        <3>2. n \notin r => g[r] \in Nat
            BY <2>1, <2>2
        <3>. QED
            BY <3>1, <3>2
    <2>4. h \in [SUBSET (1..n) -> Nat]
        BY <2>3
    <2>5. \A r \in SUBSET (1..n) : h[r] = IF n \in r THEN g[r \ {n}] + s[n] ELSE g[r]
        OBVIOUS
    <2> HIDE DEF h
    <2>6. ASSUME NEW r \in SUBSET (1..n) PROVE h[r] = Sum(h, r)
        <3>1. CASE n \in r
            <4>1. Max(r) \in r /\ n <= Max(r)
                BY <2>2, <3>1, Greatest
            <4>0. PICK m \in 1..n : m = Max(r)
                BY <4>1
            <4>2. Max(r) = n
                BY <2>2, <4>0, <4>1
            <4>3. h[r] = g[r \ {n}] + s[n]
                BY <2>5, <3>1
            <4>4. h[r \ {n}] = g[r \ {n}]
                BY <2>2, <2>5
            <4>5. h[r] = h[r \ {Max(r)}] + s[Max(r)] /\ r # {}
                BY <3>1, <4>2, <4>3, <4>4, Zenon
            <4>. QED
                BY <4>5, Zenon
        <3>2. CASE n \notin r /\ r = {}
            <4>1. h[r] = g[r] /\ g[r] = Sum(g, r)
                BY <2>1, <2>2, <2>5, <3>2
            <4>. QED
                BY <3>2, <4>1
        <3>3. CASE n \notin r /\ r # {}
            <4>1. r \in SUBSET (1..(n - 1)) /\ r \ {Max(r)} \in SUBSET (1..(n - 1))
                BY <2>2, <3>3
            <4>2. h[r] = g[r] /\ h[r \ {Max(r)}] = g[r \ {Max(r)}]
                BY <2>2, <2>5, <3>3, <4>1
            <4>3. g[r] = g[r \ {Max(r)}] + s[Max(r)]
                BY <2>1, <3>3, <4>1, Zenon
            <4>. QED
                BY <3>3, <4>2, <4>3, Zenon
        <3>. QED
            BY <3>1, <3>2, <3>3
    <2> HIDE DEF Sum
    <2>. QED
        BY <2>4, <2>6
<1> HIDE DEF UpTo
<1>4. ASSUME NEW k \in T, k # 1 PROVE k - 1 \in T
    <2>1. k - 1 \in 1..L /\ k - 1 \in 1..(L + 1) /\ ~UpTo(k - 1)
        BY <1>1, <1>4
    <2>. QED
        BY <1>3, <2>1, Zenon
<1>5. T \in SUBSET (Nat \ {0})
    BY <1>1
<1> HIDE DEF T
<1>6. T = {}
    BY <1>2, <1>4, <1>5, Induction
<1>7. UpTo(L)
    <2>1. L + 1 \in 1..(L + 1) /\ (L + 1) - 1 = L
        BY <1>1
    <2>. QED
        BY <1>6, <2>1 DEF T
<1> HIDE DEF Sum
<1>8. \E h : h = [r \in SUBSET DOMAIN s |-> Sum(h, r)]
    <2>1. PICK h \in [SUBSET (1..L) -> Nat] : \A r \in SUBSET (1..L) : h[r] = Sum(h, r)
        BY <1>7, Zenon DEF UpTo
    <2>2. h = [r \in SUBSET (1..L) |-> Sum(h, r)]
        BY <2>1
    <2>. QED
        BY <1>1, <2>2, Zenon
<1>9. iter = [r \in SUBSET DOMAIN s |-> Sum(iter, r)]
    BY <1>8, Zenon
<1>10. Total(s) = iter[DOMAIN s]
    BY Zenon DEF Total, FoldLeft, MapThenFoldSet, Sum
<1> HIDE DEF iter
<1>11. \A r \in SUBSET (1..L) : iter[r] = Sum(iter, r)
    BY <1>1, <1>9
<1>12. iter[{}] = 0
    BY <1>11, Zenon DEF Sum
<1>13. ASSUME NEW i \in 1..L PROVE iter[1..i] = iter[1..(i - 1)] + s[i]
    <2>0. i \in Nat /\ i >= 1 /\ i <= L
        BY <1>1
    <2>1. 1..i \in SUBSET (1..L) /\ i \in 1..i /\ i \in Nat /\ 1..i # {} /\ 1..i \in SUBSET (1..i)
        <3>1. i \in 1..i
            BY <2>0
        <3>2. \A m \in 1..i : m \in 1..L
            BY <1>1, <2>0
        <3>. QED
            BY <2>0, <3>1, <3>2
    <2>2. Max(1..i) \in 1..i /\ i <= Max(1..i)
        BY <2>1, Greatest
    <2>3. Max(1..i) = i
        BY <2>1, <2>2
    <2>4. (1..i) \ {i} = 1..(i - 1)
        BY <2>1
    <2>5. iter[1..i] = iter[(1..i) \ {Max(1..i)}] + s[Max(1..i)]
        BY <1>11, <2>1, Zenon DEF Sum
    <2>. QED
        BY <2>3, <2>4, <2>5, Zenon
<1> DEFINE g == [k \in 0..L |-> iter[1..k]]
<1>14. g[0] = 0 /\ g[L] = iter[DOMAIN s] /\ \A i \in 1..L : g[i] = g[i - 1] + s[i]
    <2>1. 0 \in 0..L /\ L \in 0..L /\ 1..0 = {} /\ \A i \in 1..L : i \in 0..L /\ i - 1 \in 0..L
        BY <1>1
    <2>2. \A k \in 0..L : g[k] = iter[1..k]
        OBVIOUS
    <2> HIDE DEF g
    <2>. QED
        BY <1>1, <1>12, <1>13, <2>1, <2>2
<1> DEFINE U == {k \in 1..(L + 1) : g[k - 1] \notin Nat}
<1>15. DOMAIN g = 0..L
    OBVIOUS
<1>16. g = [k \in 0..L |-> g[k]]
    OBVIOUS
<1> HIDE DEF g
<1>17. 1 \notin U
    BY <1>14
<1>18. ASSUME NEW k \in U, k # 1 PROVE k - 1 \in U
    <2>1. k - 1 \in 1..L /\ k - 1 \in 1..(L + 1)
        BY <1>1, <1>18
    <2>2. g[k - 1] = g[(k - 1) - 1] + s[k - 1] /\ s[k - 1] \in Nat
        BY <1>1, <1>14, <2>1
    <2>. QED
        BY <1>18, <2>1, <2>2
<1>19. U \in SUBSET (Nat \ {0})
    BY <1>1
<1> HIDE DEF U
<1>20. U = {}
    BY <1>17, <1>18, <1>19, Induction
<1>21. ASSUME NEW k \in 0..L PROVE g[k] \in Nat
    <2>1. k + 1 \in 1..(L + 1) /\ (k + 1) - 1 = k
        BY <1>1
    <2>. QED
        BY <1>20, <2>1 DEF U
<1>22. g \in [0..L -> Nat]
    BY <1>16, <1>21
<1>23. Total(s) = g[L]
    BY <1>10, <1>14, Zenon
<1>. QED
    BY <1>14, <1>22, <1>23

\* What is among the numbers of a sequence, in their order, is no more than they.
LEMMA TotalAmong ==
    ASSUME NEW s \in Seq(Nat), NEW t \in Seq(Nat),
           NEW h \in [1..Len(s) -> 1..Len(t)],
           \A i \in 1..Len(s) : s[i] = t[h[i]],
           \A i, j \in 1..Len(s) : i < j => h[i] < h[j]
    PROVE  Len(s) <= Len(t) /\ Total(s) <= Total(t)
<1>1. PICK g \in [0..Len(s) -> Nat] :
        /\ Total(s) = g[Len(s)] /\ g[0] = 0
        /\ \A i \in 1..Len(s) : g[i] = g[i - 1] + s[i]
    BY Totals
<1>2. PICK f \in [0..Len(t) -> Nat] :
        /\ Total(t) = f[Len(t)] /\ f[0] = 0
        /\ \A i \in 1..Len(t) : f[i] = f[i - 1] + t[i]
    BY Totals
<1>3. /\ Len(s) \in Nat /\ Len(t) \in Nat
      /\ \A i \in 1..Len(s) : s[i] \in Nat
      /\ \A i \in 1..Len(t) : t[i] \in Nat
    OBVIOUS
<1>4. ASSUME NEW m \in 0..Len(t), NEW n \in 0..Len(t), m <= n PROVE f[m] <= f[n]
    <2> DEFINE T == {k \in 1..(n + 1) : m <= k - 1 /\ ~(f[m] <= f[k - 1])}
    <2>1. ASSUME NEW k \in T PROVE k # 1 /\ k - 1 \in T
        <3>0. k \in 1..(n + 1) /\ n \in Nat
            BY <1>3
        <3>1. PICK i \in 0..n : i = k - 1
            <4> HIDE DEF T
            <4>. QED
                BY <3>0
        <3>2. f[m] \in Nat /\ m \in Nat /\ n \in Nat /\ n <= Len(t)
            <4> HIDE DEF T
            <4>1. m \in Nat /\ n \in Nat /\ n <= Len(t)
                BY <1>3
            <4>. QED
                BY <1>2, <4>1
        <3>3. m <= i /\ ~(f[m] <= f[i])
            BY <2>1, <3>1
        <3>4. i # m
            BY <3>2, <3>3
        <3>5. i \in 1..Len(t) /\ i \in 1..(n + 1) /\ i - 1 \in 0..Len(t) /\ m <= i - 1
            BY <1>3, <3>1, <3>2, <3>3, <3>4
        <3>6. f[i] = f[i - 1] + t[i] /\ f[i - 1] \in Nat /\ t[i] \in Nat
            BY <1>2, <1>3, <3>5
        <3>7. ~(f[m] <= f[i - 1])
            BY <3>2, <3>3, <3>6
        <3>8. i \in T
            BY <3>5, <3>7
        <3>9. k # 1
            BY <3>1, <3>5
        <3>. QED
            BY <3>1, <3>8, <3>9
    <2>2. T \in SUBSET (Nat \ {0})
        BY <1>3
    <2> HIDE DEF T
    <2>3. T = {}
        BY <2>1, <2>2, Induction
    <2>4. n + 1 \in 1..(n + 1) /\ (n + 1) - 1 = n
        BY <1>3
    <2>. QED
        BY <1>4, <2>3, <2>4 DEF T
<1> DEFINE e == [k \in 0..Len(s) |-> IF k = 0 THEN 0 ELSE h[k]]
<1>5. e[0] = 0 /\ \A k \in 1..Len(s) : e[k] = h[k] /\ e[k] \in 1..Len(t)
    <2>1. 0 \in 0..Len(s) /\ \A k \in 1..Len(s) : k \in 0..Len(s) /\ k # 0
        BY <1>3
    <2>2. \A k \in 1..Len(s) : h[k] \in 1..Len(t)
        OBVIOUS
    <2>. QED
        BY <2>1, <2>2
<1>6. \A k \in 0..Len(s) : e[k] \in 0..Len(t)
    <2>1. 0 \in 0..Len(t) /\ \A x \in 1..Len(t) : x \in 0..Len(t)
        BY <1>3
    <2>2. \A k \in 0..Len(s) : k = 0 \/ k \in 1..Len(s)
        BY <1>3
    <2> HIDE DEF e
    <2>. QED
        BY <1>5, <2>1, <2>2
<1>7. \A k \in 1..Len(s) : e[k - 1] < e[k]
    <2>1. ASSUME NEW k \in 1..Len(s) PROVE e[k - 1] < e[k]
        <3>1. CASE k = 1
            BY <1>3, <1>5, <3>1
        <3>2. CASE k # 1
            <4>1. k - 1 \in 1..Len(s) /\ k - 1 < k
                BY <1>3, <3>2
            <4>2. h[k - 1] < h[k]
                BY <4>1
            <4> HIDE DEF e
            <4>. QED
                BY <1>5, <4>1, <4>2
        <3>. QED
            BY <3>1, <3>2
    <2>. QED
        BY <2>1
<1> HIDE DEF e
<1> DEFINE U == {k \in 1..(Len(s) + 1) : ~(k - 1 <= e[k - 1] /\ g[k - 1] <= f[e[k - 1]])}
<1>8. 1 \notin U
    BY <1>1, <1>2, <1>5
<1>9. ASSUME NEW k \in U, k # 1 PROVE k - 1 \in U
    <2>1. PICK i \in 1..Len(s) : i = k - 1
        BY <1>3, <1>9
    <2>2. /\ i \in 1..(Len(s) + 1) /\ i - 1 \in 0..Len(s) /\ i \in 0..Len(s)
        BY <1>3
    <2>3. PICK x \in 0..Len(t) : x = e[i - 1]
        BY <1>6, <2>2
    <2>4. PICK y \in 1..Len(t) : y = e[i]
        BY <1>5
    <2>5. x < y
        BY <1>7, <2>3, <2>4
    <2>6. y - 1 \in 0..Len(t) /\ x <= y - 1
        BY <1>3, <2>5
    <2>7. f[x] <= f[y - 1]
        BY <1>4, <2>6
    <2>8. f[y] = f[y - 1] + s[i]
        <3>1. s[i] = t[h[i]] /\ y = h[i]
            BY <1>5, <2>4
        <3>. QED
            BY <1>2, <3>1
    <2>9. g[i] = g[i - 1] + s[i]
        BY <1>1, Zenon
    <2>10. g[i - 1] \in Nat /\ f[x] \in Nat /\ f[y - 1] \in Nat /\ s[i] \in Nat
        BY <1>1, <1>2, <1>3, <2>2, <2>6
    <2>11. g[i - 1] <= f[x] => g[i] <= f[y]
        <3>1. PICK a \in Nat, b \in Nat, c \in Nat, v \in Nat :
                a = g[i - 1] /\ b = f[x] /\ c = f[y - 1] /\ v = s[i]
            BY <2>10, Zenon
        <3>2. b <= c /\ g[i] = a + v /\ f[y] = c + v
            BY <2>7, <2>8, <2>9, <3>1, Zenon
        <3>3. a <= b => a + v <= c + v
            BY <3>2
        <3>. QED
            BY <3>1, <3>2, <3>3, Zenon
    <2>12. i - 1 <= x => i <= y
        BY <1>3, <2>5
    <2>13. ~(i - 1 <= x /\ g[i - 1] <= f[x])
        BY <1>9, <2>1, <2>4, <2>11, <2>12
    <2>. QED
        BY <2>1, <2>2, <2>3, <2>13
<1>10. U \in SUBSET (Nat \ {0})
    BY <1>3
<1> HIDE DEF U
<1>11. U = {}
    BY <1>8, <1>9, <1>10, Induction
<1>12. Len(s) + 1 \in 1..(Len(s) + 1) /\ (Len(s) + 1) - 1 = Len(s)
    BY <1>3
<1>13. Len(s) <= e[Len(s)] /\ g[Len(s)] <= f[e[Len(s)]]
    BY <1>11, <1>12 DEF U
<1>14. e[Len(s)] \in 0..Len(t) /\ Len(t) \in 0..Len(t) /\ Len(s) \in 0..Len(s)
    BY <1>3, <1>6
<1>15. f[e[Len(s)]] <= f[Len(t)]
    BY <1>4, <1>14
<1>16. g[Len(s)] \in Nat /\ f[e[Len(s)]] \in Nat /\ f[Len(t)] \in Nat
    BY <1>1, <1>2, <1>14
<1>. QED
    BY <1>1, <1>2, <1>3, <1>13, <1>14, <1>15, <1>16

LEMMA TotalIsNumber ==
    ASSUME NEW s \in Seq(Nat)
    PROVE  Total(s) \in Nat
<1>1. Len(s) \in 0..Len(s)
    OBVIOUS
<1>. QED
    BY <1>1, Totals

----------------------------------------------------------------------------
(* Types.                                                                  *)

Dirs == ToSet(tree.dirs)
Places == [dir : Dirs, name : ToSet(Names)]
ArchiveEntry == [place : [dir : Seq(STRING), name : ToSet(Names)], is : Contents]
Item == [skill : Nat, markdown : Contents \cup {""}, bundle : BOOLEAN,
         archive : Seq(ArchiveEntry)]

DiskTyped ==
    /\ tree \in Trees
    /\ disk \in [Dirs -> [ToSet(Names) -> Entries]]
    /\ edits \in 0..MaxEdits

WalkTyped ==
    /\ toVisit \in Seq(Dirs) /\ found \in Seq(Dirs)
    /\ next \in 0..(Len(found) + 1)

SkillTyped ==
    /\ listed \in Seq(Places)
    /\ DOMAIN files \subseteq Places /\ files \in [DOMAIN files -> Nat]
    /\ item \in Item /\ quiet \in BOOLEAN

ChannelsTyped ==
    /\ sent \in Seq(Item) /\ errs \in Seq(Nat)
    /\ sentRead \in 0..Len(sent) /\ errsRead \in 0..Len(errs)
    /\ Len(sent) - sentRead <= ItemBuf /\ Len(errs) - errsRead <= ErrBuf
    /\ {reading, cancelled} \subseteq BOOLEAN

Typed == DiskTyped /\ WalkTyped /\ SkillTyped /\ ChannelsTyped

\* Where the goroutine is: before the loop over the skills, in it, or after it.
Skill == {"list", "check", "markdown", "collect", "size", "encode", "send"}

Where ==
    /\ pc \in {"open", "stat", "within", "report", "closed"} \cup Skill
    /\ pc \in {"open", "stat", "within"} => next = 0
    /\ pc = "open" => found = <<>>
    /\ pc = "within" => toVisit # <<>>
    /\ pc \in Skill => next \in DOMAIN found
    /\ item.skill = IF next \in DOMAIN found THEN next ELSE 0
    /\ next = 0 => sent = <<>>
    /\ next = 0 /\ pc \in {"report", "closed"} => found = <<>>
    /\ pc = "report" => next \in DOMAIN found \/ sent = <<>>

\* The editor writes and removes files, and makes nothing else of them: a walk
\* finds what it listed, or nothing, and the directories are where they were.
Editable ==
    /\ InShape(Dirs, disk)
    /\ \A p \in ToSet(listed) : At(p).kind \in {"none", "file", "dir"}
    /\ \A p \in DOMAIN files : At(p).kind \in {"none", "file"}

\* An item that may be sent: without an archive, or with one within the limits.
Bounded(i) ==
    /\ Len(i.archive) <= MaxFiles
    /\ Total([k \in DOMAIN i.archive |-> Size[i.archive[k].is]]) <= MaxBytes
    /\ i.bundle <=> i.archive # <<>>

\* What is known of a bundle on its way: the files that were sized are within
\* the limits, and what is archived of each has the size it had then.
Collected ==
    /\ pc \in {"list", "check", "markdown", "collect", "size"} => item.archive = <<>>
    /\ pc \in {"list", "check", "markdown", "collect"} => DOMAIN files = {}
    /\ pc \in {"collect", "size", "encode"} => item.bundle
    /\ pc \in {"size", "encode"} /\ DOMAIN files # {} => ~TooLarge(files)
    /\ pc = "encode" =>
        /\ DOMAIN files # {} /\ Len(item.archive) <= Len(Sorted(DOMAIN files))
        /\ \A k \in DOMAIN item.archive :
            Size[item.archive[k].is] = files[Sorted(DOMAIN files)[k]]
    /\ pc = "send" => Bounded(item)
    /\ \A i \in DOMAIN sent : Bounded(sent[i])

LEMMA Parameters ==
    /\ Names \in Seq(STRING) /\ Names \in Seq(ToSet(Names)) /\ SkillFile \in ToSet(Names)
    /\ "" \notin Contents /\ Size \in [Contents -> Nat] /\ Valid \subseteq Contents
    /\ \A t \in Trees :
        /\ t.dirs \in Seq(Seq(STRING)) /\ InWalkOrder(t.dirs)
        /\ t.unreadable \subseteq ToSet(t.dirs)
        /\ t.disk \in [ToSet(t.dirs) -> [ToSet(Names) -> Entries]]
        /\ InShape(ToSet(t.dirs), t.disk)
        /\ t.order \in Seq([dir : ToSet(t.dirs), name : ToSet(Names)])
        /\ ToSet(t.order) = [dir : ToSet(t.dirs), name : ToSet(Names)]
    /\ MaxFiles \in Nat /\ MaxBytes \in Nat /\ MaxEdits \in Nat
    /\ ItemBuf \in Nat \ {0} /\ ErrBuf \in Nat \ {0}
<1>1. Names \in Seq(STRING)
    BY SkillAssumption
<1>2. Names \in Seq(ToSet(Names))
    BY <1>1, Members
<1>. QED
    BY <1>1, <1>2, SkillAssumption

\* What a tree is made of: its directories are paths, and all places are known.
LEMMA TreeTyped ==
    ASSUME DiskTyped
    PROVE  /\ tree.order \in Seq(Places) /\ ToSet(tree.order) = Places
           /\ \A d \in Dirs : d \in Seq(STRING)
           /\ \A n \in ToSet(Names) : n \in STRING
           /\ tree.unreadable \in SUBSET Dirs
<1>1. /\ tree.order \in Seq([dir : Dirs, name : ToSet(Names)])
      /\ ToSet(tree.order) = [dir : Dirs, name : ToSet(Names)]
      /\ tree.dirs \in Seq(Seq(STRING)) /\ tree.unreadable \subseteq Dirs
    BY Parameters DEF DiskTyped, Dirs
<1>2. \A d \in Dirs : d \in Seq(STRING)
    BY <1>1, Members DEF Dirs
<1>3. \A n \in ToSet(Names) : n \in STRING
    BY Parameters, Members
<1>. QED
    BY <1>1, <1>2, <1>3 DEF Places

\* An entry is a regular file with contents, or absent, or neither.
LEMMA EntryKinds ==
    ASSUME NEW e \in Entries
    PROVE  /\ e.kind = "file" => e.is \in Contents
           /\ e.kind = "none" => e = Absent
           /\ e.kind = "in" => e.is \in ToSet(Names)
           /\ e.kind \in {"none", "dir", "out"} => e.is = ""
           /\ e = Absent => e.kind = "none"
<1>0. Absent.kind = "none"
    BY DEF Absent
<1>1. CASE e \in [kind : {"none", "dir", "out"}, is : {""}]
    <2>1. e = [kind |-> e.kind, is |-> e.is] /\ e.is = "" /\ e.kind \in {"none", "dir", "out"}
        BY <1>1
    <2>2. e.kind = "none" => e = Absent
        BY <2>1, Zenon DEF Absent
    <2>. QED
        BY <1>0, <2>1, <2>2
<1>2. CASE e \in [kind : {"file"}, is : Contents]
    <2>1. e.kind = "file" /\ e.is \in Contents
        BY <1>2
    <2>2. e # Absent
        BY <1>0, <2>1
    <2>. QED
        BY <2>1, <2>2
<1>3. CASE e \in [kind : {"in"}, is : ToSet(Names)]
    <2>1. e.kind = "in" /\ e.is \in ToSet(Names)
        BY <1>3
    <2>2. e # Absent
        BY <1>0, <2>1
    <2>. QED
        BY <2>1, <2>2
<1>. QED
    BY <1>1, <1>2, <1>3 DEF Entries

\* What is at a place, and that the place is one of its directory and its name.
LEMMA PlaceTyped ==
    ASSUME DiskTyped, NEW p \in Places
    PROVE  /\ p.dir \in Dirs /\ p.name \in ToSet(Names) /\ At(p) \in Entries
           /\ p = [dir |-> p.dir, name |-> p.name]
           /\ p.dir \in Seq(STRING) /\ p.name \in STRING
           /\ Path(p) \in Seq(STRING)
<1>1. /\ p.dir \in Dirs /\ p.name \in ToSet(Names) /\ p = [dir |-> p.dir, name |-> p.name]
    BY DEF Places
<1>2. p.dir \in Seq(STRING) /\ p.name \in STRING
    BY <1>1, TreeTyped
<1>3. Path(p) \in Seq(STRING)
    BY <1>2, AppendProperties DEF Path
<1>4. At(p) \in Entries
    BY <1>1 DEF At, DiskTyped
<1>. QED
    BY <1>1, <1>2, <1>3, <1>4

\* Listing a directory gives the places of its files and directories.
LEMMA Listings ==
    ASSUME NEW d \in Dirs
    PROVE  /\ Listing(d) \in Seq(Places)
           /\ \A q \in ToSet(Listing(d)) : q.dir = d /\ At(q).kind \in {"file", "dir"}
           /\ \A n \in ToSet(Names) : disk[d][n].kind \in {"file", "dir"} =>
                [dir |-> d, name |-> n] \in ToSet(Listing(d))
<1> DEFINE K == {n \in ToSet(Names) : disk[d][n].kind \in Walked}
           kept == Select(Names, K)
<1>1. \A n : n \in K <=> n \in ToSet(Names) /\ disk[d][n].kind \in {"file", "dir"}
    BY DEF Walked
<1>2. Listing(d) = [i \in DOMAIN kept |-> [dir |-> d, name |-> kept[i]]]
    BY DEF Listing
<1> HIDE DEF K
<1>3. /\ kept \in Seq(ToSet(Names)) /\ IsSelection(kept, Names, Len(Names), K)
      /\ Names \in Seq(ToSet(Names))
    BY Parameters, Selected
<1> HIDE DEF kept
<1>4. /\ DOMAIN kept = 1..Len(kept) /\ Len(kept) \in Nat
      /\ \A i \in 1..Len(kept) : kept[i] \in ToSet(Names) /\ kept[i] \in K
    BY <1>3 DEF IsSelection
<1>5. \A n \in K : \E i \in 1..Len(kept) : kept[i] = n
    <2>1. \A m \in 1..Len(Names) : Names[m] \in K => \E i \in 1..Len(kept) : kept[i] = Names[m]
        BY <1>3 DEF IsSelection
    <2>2. \A n \in K : \E m \in 1..Len(Names) : n = Names[m]
        BY <1>1, <1>3, Members
    <2>. QED
        BY <2>1, <2>2
<1>6. \A i \in 1..Len(kept) : [dir |-> d, name |-> kept[i]] \in Places
    BY <1>4 DEF Places
<1>7. /\ Listing(d) \in Seq(Places) /\ DOMAIN Listing(d) = 1..Len(kept)
      /\ \A i \in 1..Len(kept) : Listing(d)[i] = [dir |-> d, name |-> kept[i]]
    BY <1>2, <1>4, <1>6
<1>8. ASSUME NEW q \in ToSet(Listing(d)) PROVE q.dir = d /\ At(q).kind \in {"file", "dir"}
    <2>1. PICK i \in 1..Len(kept) : q = [dir |-> d, name |-> kept[i]]
        BY <1>7 DEF ToSet
    <2>2. q.dir = d /\ q.name = kept[i]
        BY <2>1
    <2>. QED
        BY <1>1, <1>4, <2>2 DEF At
<1>9. ASSUME NEW n \in ToSet(Names), disk[d][n].kind \in {"file", "dir"}
      PROVE  [dir |-> d, name |-> n] \in ToSet(Listing(d))
    <2>1. PICK i \in 1..Len(kept) : kept[i] = n
        BY <1>1, <1>5, <1>9
    <2>. QED
        BY <1>7, <2>1 DEF ToSet
<1>. QED
    BY <1>7, <1>8, <1>9

\* The elements of two sequences together.
LEMMA Joined ==
    ASSUME NEW S, NEW s \in Seq(S), NEW t \in Seq(S)
    PROVE  s \o t \in Seq(S) /\ ToSet(s \o t) = ToSet(s) \cup ToSet(t)
<1>1. /\ s \o t \in Seq(S) /\ Len(s \o t) = Len(s) + Len(t) /\ Len(s) \in Nat /\ Len(t) \in Nat
      /\ \A i \in 1..Len(s) : (s \o t)[i] = s[i]
      /\ \A i \in 1..Len(t) : (s \o t)[Len(s) + i] = t[i]
    OBVIOUS
<1>2. ASSUME NEW x \in ToSet(s \o t) PROVE x \in ToSet(s) \cup ToSet(t)
    <2>1. PICK i \in 1..(Len(s) + Len(t)) : x = (s \o t)[i]
        BY <1>1, <1>2, Members
    <2>2. CASE i \in 1..Len(s)
        BY <1>1, <2>1, <2>2, Members
    <2>3. CASE i \notin 1..Len(s)
        <3>1. i - Len(s) \in 1..Len(t) /\ Len(s) + (i - Len(s)) = i
            BY <1>1, <2>3
        <3>2. (s \o t)[Len(s) + (i - Len(s))] = t[i - Len(s)]
            BY <1>1, <3>1
        <3>. QED
            BY <2>1, <3>1, <3>2, Members
    <2>. QED
        BY <2>2, <2>3
<1>3. ASSUME NEW x \in ToSet(s) PROVE x \in ToSet(s \o t)
    <2>1. PICK i \in 1..Len(s) : x = s[i]
        BY <1>3, Members
    <2>2. i \in 1..Len(s \o t) /\ (s \o t)[i] = x
        BY <1>1, <2>1
    <2>. QED
        BY <1>1, <2>2, Members
<1>4. ASSUME NEW x \in ToSet(t) PROVE x \in ToSet(s \o t)
    <2>1. PICK i \in 1..Len(t) : x = t[i]
        BY <1>4, Members
    <2>2. Len(s) + i \in 1..Len(s \o t) /\ (s \o t)[Len(s) + i] = x
        BY <1>1, <2>1
    <2>. QED
        BY <1>1, <2>2, Members
<1>. QED
    BY <1>1, <1>2, <1>3, <1>4

\* A walk into a directory ends there, or has its entries before it.
LEMMA WalkedInto ==
    ASSUME NEW d \in Dirs, NEW rest \in Seq(Places), NEW l, WalkInto(d, rest, l)
    PROVE  \/ d \in tree.unreadable /\ pc' = "report" /\ listed' = listed
           \/ /\ d \notin tree.unreadable /\ pc' = l
              /\ listed' \in Seq(Places)
              /\ ToSet(listed') = ToSet(Listing(d)) \cup ToSet(rest)
<1>1. Listing(d) \in Seq(Places)
    BY Listings
<1>2. Listing(d) \o rest \in Seq(Places) /\ ToSet(Listing(d) \o rest) = ToSet(Listing(d)) \cup ToSet(rest)
    BY <1>1, Joined
<1>. QED
    BY <1>2 DEF WalkInto, Goto

LEMMA SortedPlaces ==
    ASSUME DiskTyped, NEW F
    PROVE  /\ Sorted(F) \in Seq(Places) /\ Len(Sorted(F)) \in Nat
           /\ DOMAIN Sorted(F) = 1..Len(Sorted(F))
           /\ \A i \in 1..Len(Sorted(F)) : Sorted(F)[i] \in F
           /\ \A p \in F : p \in Places => \E i \in 1..Len(Sorted(F)) : Sorted(F)[i] = p
<1>1. tree.order \in Seq(Places) /\ ToSet(tree.order) = Places
    BY TreeTyped
<1>2. PICK s : s = Sorted(F)
    OBVIOUS
<1>3. s \in Seq(Places) /\ IsSelection(s, tree.order, Len(tree.order), F)
    BY <1>1, <1>2, Selected DEF Sorted
<1>4. Len(s) \in Nat /\ DOMAIN s = 1..Len(s) /\ \A i \in 1..Len(s) : s[i] \in F
    BY <1>3 DEF IsSelection
<1>5. ASSUME NEW p \in F, p \in Places PROVE \E i \in 1..Len(s) : s[i] = p
    <2>1. PICK m \in 1..Len(tree.order) : p = tree.order[m]
        BY <1>1, <1>5, Members
    <2>. QED
        BY <1>3, <2>1 DEF IsSelection
<1>. QED
    BY <1>2, <1>3, <1>4, <1>5

\* The sizes of the files in the order of the archive.
LEMMA SizesSorted ==
    ASSUME DiskTyped, NEW f, DOMAIN f \subseteq Places, f \in [DOMAIN f -> Nat]
    PROVE  LET sizes == [i \in DOMAIN Sorted(DOMAIN f) |-> f[Sorted(DOMAIN f)[i]]]
           IN  /\ sizes \in Seq(Nat) /\ Len(sizes) = Len(Sorted(DOMAIN f))
               /\ \A i \in 1..Len(sizes) : sizes[i] = f[Sorted(DOMAIN f)[i]]
               /\ Total(sizes) \in Nat
<1> DEFINE s == Sorted(DOMAIN f)
           sizes == [i \in DOMAIN s |-> f[s[i]]]
<1>1. /\ s \in Seq(Places) /\ Len(s) \in Nat /\ DOMAIN s = 1..Len(s)
      /\ \A i \in 1..Len(s) : s[i] \in DOMAIN f
    BY SortedPlaces
<1> HIDE DEF s
<1>2. \A i \in 1..Len(s) : f[s[i]] \in Nat
    BY <1>1
<1>3. sizes \in Seq(Nat) /\ Len(sizes) = Len(s) /\ \A i \in 1..Len(sizes) : sizes[i] = f[s[i]]
    BY <1>1, <1>2
<1>4. Total(sizes) \in Nat
    BY <1>3, TotalIsNumber
<1>. QED
    BY <1>3, <1>4 DEF s

\* With more files an archive that is too large is still too large.
LEMMA StillTooLarge ==
    ASSUME DiskTyped,
           NEW f, DOMAIN f \subseteq Places, f \in [DOMAIN f -> Nat],
           NEW g, DOMAIN g \subseteq Places, g \in [DOMAIN g -> Nat],
           DOMAIN f \subseteq DOMAIN g, \A p \in DOMAIN f : f[p] = g[p],
           TooLarge(f)
    PROVE  TooLarge(g)
<1> DEFINE s == Sorted(DOMAIN f)
           t == Sorted(DOMAIN g)
           a == [i \in DOMAIN s |-> f[s[i]]]
           b == [i \in DOMAIN t |-> g[t[i]]]
           L == Len(tree.order)
<1>1. /\ a \in Seq(Nat) /\ Len(a) = Len(s) /\ \A i \in 1..Len(a) : a[i] = f[s[i]]
      /\ b \in Seq(Nat) /\ Len(b) = Len(t) /\ \A i \in 1..Len(b) : b[i] = g[t[i]]
      /\ Total(a) \in Nat /\ Total(b) \in Nat
    <2>1. /\ a \in Seq(Nat) /\ Len(a) = Len(s) /\ \A i \in 1..Len(a) : a[i] = f[s[i]]
          /\ Total(a) \in Nat
        BY SizesSorted, Zenon
    <2>2. /\ b \in Seq(Nat) /\ Len(b) = Len(t) /\ \A i \in 1..Len(b) : b[i] = g[t[i]]
          /\ Total(b) \in Nat
        BY SizesSorted, Zenon
    <2>. QED
        BY <2>1, <2>2
<1>2. /\ Len(s) \in Nat /\ Len(t) \in Nat
      /\ \A i \in 1..Len(s) : s[i] \in DOMAIN f
    BY SortedPlaces
<1>3. TooLarge(f) <=> Len(s) > MaxFiles \/ Total(a) > MaxBytes
    BY DEF TooLarge
<1>4. TooLarge(g) <=> Len(t) > MaxFiles \/ Total(b) > MaxBytes
    BY DEF TooLarge
<1>5. tree.order \in Seq(Places) /\ L \in Nat
    BY TreeTyped
<1>6. IsSelection(s, tree.order, L, DOMAIN f) /\ IsSelection(t, tree.order, L, DOMAIN g)
    BY <1>5, Selected DEF Sorted
<1> HIDE DEF s, t, a, b
<1>7. PICK u \in [1..Len(s) -> 1..L] :
        /\ \A i \in 1..Len(s) : s[i] = tree.order[u[i]]
        /\ \A i, j \in 1..Len(s) : i < j => u[i] < u[j]
    BY <1>6 DEF IsSelection
<1>8. PICK v \in [1..Len(t) -> 1..L] :
        /\ \A i \in 1..Len(t) : t[i] = tree.order[v[i]]
        /\ \A i, j \in 1..Len(t) : i < j => v[i] < v[j]
        /\ \A m \in 1..L : tree.order[m] \in DOMAIN g => \E i \in 1..Len(t) : v[i] = m
    BY <1>6 DEF IsSelection
<1>9. \A i \in 1..Len(s) : \E j \in 1..Len(t) : v[j] = u[i]
    BY <1>2, <1>7, <1>8
<1> DEFINE h == [i \in 1..Len(s) |-> CHOOSE j \in 1..Len(t) : v[j] = u[i]]
<1>10. h \in [1..Len(s) -> 1..Len(t)] /\ \A i \in 1..Len(s) : v[h[i]] = u[i]
    <2>1. \A i \in 1..Len(s) : h[i] = CHOOSE j \in 1..Len(t) : v[j] = u[i]
        OBVIOUS
    <2>2. \A i \in 1..Len(s) : h[i] \in 1..Len(t) /\ v[h[i]] = u[i]
        <3> HIDE DEF h
        <3>. QED
            BY <1>9, <2>1
    <2>3. h = [i \in 1..Len(s) |-> h[i]]
        OBVIOUS
    <2> HIDE DEF h
    <2>. QED
        BY <2>2, <2>3
<1> HIDE DEF h
<1>11. ASSUME NEW i \in 1..Len(s) PROVE a[i] = b[h[i]]
    <2>1. PICK k \in 1..Len(t) : k = h[i] /\ v[k] = u[i]
        BY <1>10
    <2>2. t[k] = s[i] /\ s[i] \in DOMAIN f
        BY <1>2, <1>7, <1>8, <2>1
    <2>3. a[i] = f[s[i]] /\ b[k] = g[t[k]]
        BY <1>1, <2>1
    <2>. QED
        BY <2>1, <2>2, <2>3
<1>12. ASSUME NEW i \in 1..Len(s), NEW j \in 1..Len(s), i < j PROVE h[i] < h[j]
    <2>1. PICK k \in 1..Len(t), m \in 1..Len(t) :
            k = h[i] /\ m = h[j] /\ v[k] = u[i] /\ v[m] = u[j]
        BY <1>10
    <2>2. v[k] < v[m] /\ v[k] \in 1..L /\ v[m] \in 1..L
        BY <1>7, <1>12, <2>1
    <2>3. ~(m < k) /\ m # k
        <3>1. m < k => v[m] < v[k]
            BY <1>8
        <3>. QED
            BY <1>5, <2>2, <3>1
    <2>4. k \in Nat /\ m \in Nat
        BY <1>2
    <2>. QED
        BY <2>1, <2>3, <2>4
<1>13. Len(a) <= Len(b) /\ Total(a) <= Total(b)
    <2>1. h \in [1..Len(a) -> 1..Len(b)]
        BY <1>1, <1>10
    <2>2. \A i \in 1..Len(a) : a[i] = b[h[i]]
        BY <1>1, <1>11
    <2>3. \A i, j \in 1..Len(a) : i < j => h[i] < h[j]
        BY <1>1, <1>12
    <2>. QED
        BY <1>1, <2>1, <2>2, <2>3, TotalAmong
<1>14. MaxFiles \in Nat /\ MaxBytes \in Nat
    BY Parameters
<1>. QED
    BY <1>1, <1>2, <1>3, <1>4, <1>13, <1>14

\* Which steps change what.
LEMMA Frames ==
    ASSUME [Next]_vars
    PROVE  /\ UNCHANGED tree
           /\ UNCHANGED <<disk, edits>> \/ Edit
           /\ UNCHANGED <<toVisit, found>> \/ StatSkillFile \/ CheckWithin
           /\ UNCHANGED next \/ EndWalk \/ SendItem \/ Report \/ DropReport
           /\ \/ UNCHANGED <<listed, item, files>>
              \/ EndWalk \/ Building \/ SendItem \/ Report \/ DropReport
           /\ UNCHANGED quiet \/ EndWalk \/ SendItem \/ Report \/ DropReport \/ Edit
           /\ UNCHANGED sent \/ SendItem
           /\ UNCHANGED errs \/ Report
           /\ UNCHANGED sentRead \/ ReadItem
           /\ UNCHANGED errsRead \/ ReadErr
           /\ UNCHANGED cancelled \/ Cancel
           /\ UNCHANGED pc \/ Fetching
<1> USE DEF outside, walkVars, skillVars, reader
<1>1. CASE Open
    BY <1>1 DEF Open, Fetching, Discovering
<1>2. CASE StatSkillFile
    BY <1>2 DEF StatSkillFile, Fetching, Discovering
<1>3. CASE CheckWithin
    BY <1>3 DEF CheckWithin, Fetching, Discovering
<1>4. CASE EndWalk
    BY <1>4 DEF EndWalk, Fetching, Discovering
<1>5. CASE ListFiles
    BY <1>5 DEF ListFiles, Fetching, Building
<1>6. CASE CheckFile
    BY <1>6 DEF CheckFile, Fetching, Building
<1>7. CASE ReadMarkdown
    BY <1>7 DEF ReadMarkdown, Fetching, Building
<1>8. CASE CollectFiles
    BY <1>8 DEF CollectFiles, Fetching, Building
<1>9. CASE SizeFile
    BY <1>9 DEF SizeFile, Fetching, Building
<1>10. CASE EncodeFile
    BY <1>10 DEF EncodeFile, Fetching, Building
<1>11. CASE SendItem
    BY <1>11 DEF SendItem, Fetching, Sending
<1>12. CASE SendCancelled
    BY <1>12 DEF SendCancelled, Fetching, Sending
<1>13. CASE Report
    BY <1>13 DEF Report, Fetching, Sending
<1>14. CASE DropReport
    BY <1>14 DEF DropReport, Fetching, Sending
<1>15. CASE Edit
    BY <1>15 DEF Edit
<1>16. CASE ReadItem
    BY <1>16 DEF ReadItem
<1>17. CASE ReadErr
    BY <1>17 DEF ReadErr
<1>18. CASE StopReading
    BY <1>18 DEF StopReading
<1>19. CASE Cancel
    BY <1>19 DEF Cancel
<1>20. CASE UNCHANGED vars
    BY <1>20 DEF vars
<1>. QED
    BY <1>1, <1>2, <1>3, <1>4, <1>5, <1>6, <1>7, <1>8, <1>9, <1>10, <1>11, <1>12,
        <1>13, <1>14, <1>15, <1>16, <1>17, <1>18, <1>19, <1>20
    DEF Next, Fetching, Discovering, Building, Sending, Stopped

\* What Turn does: the next skill, or the end of the loop.
LEMMA Turned ==
    ASSUME NEW k, NEW n, Turn(k, n)
    PROVE  /\ next' = k /\ listed' = <<>> /\ files' = <<>> /\ quiet' = TRUE
           /\ item' = [NoItem EXCEPT !.skill = IF k \in DOMAIN found THEN k ELSE 0]
           /\ pc' = IF k \in DOMAIN found THEN "list" ELSE IF n = 0 THEN "report" ELSE "closed"
BY DEF Turn, Goto, AfterLast

LEMMA FreshItem ==
    ASSUME NEW k \in Nat
    PROVE  LET i == [NoItem EXCEPT !.skill = k]
           IN  i \in Item /\ i.skill = k /\ i.bundle = FALSE /\ i.archive = <<>>
<1>1. NoItem \in Item
    BY DEF NoItem, Item
<1>2. [NoItem EXCEPT !.skill = k] \in Item
    BY <1>1 DEF Item
<1>. QED
    BY <1>2 DEF NoItem

\* The walk leaves out what is below a skill.
LEMMA Beside ==
    ASSUME WalkTyped, NEW d
    PROVE  /\ BesideSkill(d) \in Seq(Dirs)
           /\ \A m \in 1..Len(toVisit) :
                ~IsPrefix(d, toVisit[m]) => toVisit[m] \in ToSet(BesideSkill(d))
           /\ \E g \in [1..Len(BesideSkill(d)) -> 1..Len(toVisit)] :
                /\ \A i \in 1..Len(BesideSkill(d)) :
                    BesideSkill(d)[i] = toVisit[g[i]] /\ ~IsPrefix(d, toVisit[g[i]])
                /\ \A i, j \in 1..Len(BesideSkill(d)) : i < j => g[i] < g[j]
                /\ \A m \in 1..Len(toVisit) :
                    ~IsPrefix(d, toVisit[m]) => \E i \in 1..Len(BesideSkill(d)) : g[i] = m
<1> DEFINE K == {x \in ToSet(toVisit) : ~IsPrefix(d, x)}
<1>1. BesideSkill(d) = Select(toVisit, K) /\ toVisit \in Seq(Dirs)
    BY DEF BesideSkill, WalkTyped
<1>2. \A m \in 1..Len(toVisit) : toVisit[m] \in K <=> ~IsPrefix(d, toVisit[m])
    BY <1>1, Members
<1> HIDE DEF K
<1>3. PICK b : b = BesideSkill(d)
    OBVIOUS
<1>4. /\ b \in Seq(Dirs)
      /\ IsSelection(b, toVisit, Len(toVisit), K)
    BY <1>1, <1>3, Selected, Zenon
<1>5. /\ b \in Seq(Dirs)
      /\ \E g \in [1..Len(b) -> 1..Len(toVisit)] :
            /\ \A i \in 1..Len(b) : b[i] = toVisit[g[i]] /\ ~IsPrefix(d, toVisit[g[i]])
            /\ \A i, j \in 1..Len(b) : i < j => g[i] < g[j]
            /\ \A m \in 1..Len(toVisit) : ~IsPrefix(d, toVisit[m]) => \E i \in 1..Len(b) : g[i] = m
    BY <1>2, <1>4 DEF IsSelection
<1>6. ASSUME NEW m \in 1..Len(toVisit), ~IsPrefix(d, toVisit[m])
      PROVE  toVisit[m] \in ToSet(b)
    <2>1. \E i \in 1..Len(b) : b[i] = toVisit[m]
        BY <1>5, <1>6
    <2>. QED
        BY <1>4, <2>1, Members
<1>. QED
    BY <1>3, <1>5, <1>6, Zenon

\* An edit of one entry leaves links and directories what they are.
LEMMA EditedKinds ==
    ASSUME DiskTyped, [Next]_vars, NEW d \in Dirs, NEW n \in ToSet(Names)
    PROVE  /\ disk'[d][n].kind \in {"in", "dir", "out"} <=>
                disk[d][n].kind \in {"in", "dir", "out"}
           /\ disk[d][n].kind \in {"in", "dir", "out"} => disk'[d][n] = disk[d][n]
           /\ disk[d][n].kind \in {"none", "file"} => disk'[d][n].kind \in {"none", "file"}
<1>1. CASE UNCHANGED disk
    BY <1>1
<1>2. CASE Edit
    <2>1. PICK x \in DOMAIN disk, m \in ToSet(Names),
               e \in [kind : {"file"}, is : Contents] \cup {Absent} :
            /\ disk[x][m].kind \in {"none", "file"}
            /\ disk' = [disk EXCEPT ![x][m] = e]
        BY <1>2 DEF Edit
    <2>2. e.kind \in {"none", "file"}
        <3>1. Absent.kind = "none"
            BY DEF Absent
        <3>2. \A y \in [kind : {"file"}, is : Contents] : y.kind = "file"
            OBVIOUS
        <3>. QED
            BY <2>1, <3>1, <3>2, Zenon
    <2>3. disk \in [Dirs -> [ToSet(Names) -> Entries]]
        BY DEF DiskTyped
    <2>. QED
        BY <2>1, <2>2, <2>3
<1>. QED
    BY <1>1, <1>2, Frames

\* Between "list" and "send" a skill is read, and its directory is one.
LEMMA DirTyped ==
    ASSUME Typed, next \in DOMAIN found
    PROVE  Dir \in Dirs
BY Members DEF Dir, Typed, WalkTyped

\* The directory a walk comes to is one.
LEMMA HeadTyped ==
    ASSUME Typed, Editable, listed # <<>>
    PROVE  /\ Head(listed) \in Places /\ Head(listed) \in ToSet(listed)
           /\ Tail(listed) \in Seq(Places) /\ ToSet(Tail(listed)) \in SUBSET ToSet(listed)
           /\ At(Head(listed)).kind = "dir" => Path(Head(listed)) \in Dirs
<1>1. DiskTyped /\ listed \in Seq(Places)
    BY DEF Typed, SkillTyped
<1>2. /\ Head(listed) \in ToSet(listed) /\ Tail(listed) \in Seq(Places)
      /\ ToSet(Tail(listed)) \in SUBSET ToSet(listed) /\ ToSet(listed) \in SUBSET Places
    BY <1>1, Members
<1>3. PICK p \in Places : p = Head(listed)
    BY <1>2
<1>4. p.dir \in Dirs /\ p.name \in ToSet(Names)
    BY <1>1, PlaceTyped
<1>5. At(p).kind = "dir" => Path(p) \in Dirs
    BY <1>4 DEF Editable, InShape, At, Path
<1>. QED
    BY <1>2, <1>3, <1>5

\* What a step does to the two walks of a skill: to the places to visit, and to
\* the files that were sized.
LEMMA Moves ==
    ASSUME Typed, Where, Editable, [Next]_vars
    PROVE  /\ listed' \in Seq(Places)
           /\ \A p \in ToSet(listed') :
                p \in ToSet(listed) \/ At(p).kind \in {"file", "dir"}
           /\ \/ files' = files \/ files' = <<>>
              \/ /\ listed # <<>> /\ At(Head(listed)).kind = "file"
                 /\ files' = [p \in DOMAIN files \cup {Head(listed)} |->
                        IF p = Head(listed) THEN Size[At(p).is] ELSE files[p]]
<1> DEFINE Goes == /\ listed' \in Seq(Places)
                   /\ \A p \in ToSet(listed') :
                        p \in ToSet(listed) \/ At(p).kind \in {"file", "dir"}
           Sizes == \/ files' = files \/ files' = <<>>
                    \/ /\ listed # <<>> /\ At(Head(listed)).kind = "file"
                       /\ files' = [p \in DOMAIN files \cup {Head(listed)} |->
                            IF p = Head(listed) THEN Size[At(p).is] ELSE files[p]]
<1> SUFFICES Goes /\ Sizes
    OBVIOUS
<1>0. listed \in Seq(Places) /\ <<>> \in Seq(Places) /\ ToSet(<<>>) = {}
    BY DEF Typed, SkillTyped, ToSet
<1>1. ASSUME listed' = listed \/ listed' = <<>> PROVE Goes
    BY <1>0, <1>1
<1>2. ASSUME NEW k, NEW n, Turn(k, n) PROVE Goes /\ files' = <<>>
    BY <1>1, <1>2, Turned
<1>3. ASSUME NEW d \in Dirs, NEW rest \in Seq(Places), NEW l, WalkInto(d, rest, l),
             ToSet(rest) \in SUBSET ToSet(listed)
      PROVE  Goes
    <2>1. CASE listed' = listed
        BY <1>1, <2>1
    <2>2. CASE listed' \in Seq(Places) /\ ToSet(listed') = ToSet(Listing(d)) \cup ToSet(rest)
        BY <1>3, <2>2, Listings
    <2>. QED
        BY <1>3, <2>1, <2>2, WalkedInto
<1> HIDE DEF Goes
<1>4. CASE EndWalk
    BY <1>1, <1>2, <1>4 DEF EndWalk, skillVars
<1>5. CASE SendItem
    BY <1>2, <1>5 DEF SendItem
<1>6. CASE Report \/ DropReport
    <2>1. AfterReport
        BY <1>6 DEF Report, DropReport
    <2>. QED
        BY <1>1, <1>2, <2>1 DEF AfterReport, skillVars
<1>7. CASE ListFiles \/ CollectFiles
    <2>1. PICK l : WalkInto(Dir, <<>>, l) /\ files' = files
        BY <1>7 DEF ListFiles, CollectFiles
    <2>2. next \in DOMAIN found
        BY <1>7 DEF ListFiles, CollectFiles, Where, Skill
    <2>3. Dir \in Dirs
        BY <2>2, DirTyped
    <2>4. ToSet(<<>>) \in SUBSET ToSet(listed)
        BY <1>0
    <2>. QED
        BY <1>0, <1>3, <2>1, <2>3, <2>4
<1>8. ASSUME NEW l, Visiting("dir"), WalkInto(Path(Head(listed)), Tail(listed), l)
      PROVE  Goes
    BY <1>3, <1>8, HeadTyped DEF Visiting
<1>9. ASSUME listed # <<>>, listed' = Tail(listed) PROVE Goes
    BY <1>9, HeadTyped DEF Goes
<1>10. CASE CheckFile
    <2>1. files' = files
        BY <1>10 DEF CheckFile
    <2>. QED
        BY <1>1, <1>8, <1>9, <1>10, <2>1 DEF CheckFile, AfterSkillFile, Visiting
<1>11. CASE SizeFile
    <2>1. CASE files' = files
        BY <1>1, <1>8, <1>9, <1>11, <2>1 DEF SizeFile, Visiting
    <2>2. CASE Visiting("file") /\ listed' = Tail(listed)
               /\ files' = [p \in DOMAIN files \cup {Head(listed)} |->
                        IF p = Head(listed) THEN Size[At(p).is] ELSE files[p]]
        BY <1>9, <2>2 DEF Visiting
    <2>. QED
        BY <1>1, <1>8, <1>11, <2>1, <2>2 DEF SizeFile
<1>12. CASE ReadMarkdown \/ EncodeFile
    BY <1>1, <1>12 DEF ReadMarkdown, EncodeFile
<1>13. CASE UNCHANGED <<listed, item, files>>
    BY <1>1, <1>13
<1>. QED
    BY <1>4, <1>5, <1>6, <1>7, <1>10, <1>11, <1>12, <1>13, Frames DEF Building

LEMMA DiskTypedStep ==
    ASSUME DiskTyped, [Next]_vars
    PROVE  DiskTyped'
<1>1. tree' = tree
    BY Frames
<1>2. CASE UNCHANGED <<disk, edits>>
    BY <1>1, <1>2 DEF DiskTyped, Dirs
<1>3. CASE Edit
    <2>1. PICK d \in DOMAIN disk, n \in ToSet(Names),
               e \in [kind : {"file"}, is : Contents] \cup {Absent} :
            disk' = [disk EXCEPT ![d][n] = e]
        BY <1>3 DEF Edit
    <2>2. e \in Entries
        <3>1. Absent \in [kind : {"none", "dir", "out"}, is : {""}]
            BY DEF Absent
        <3>. QED
            BY <3>1, Zenon DEF Entries
    <2>3. disk' \in [Dirs -> [ToSet(Names) -> Entries]]
        BY <2>1, <2>2 DEF DiskTyped
    <2>4. edits' \in 0..MaxEdits
        <3>1. edits \in 0..MaxEdits /\ edits' = edits + 1 /\ edits < MaxEdits
            BY <1>3 DEF Edit, DiskTyped
        <3>. QED
            <4>1. MaxEdits \in Nat
                BY Parameters
            <4>. QED
                BY <3>1, <4>1
    <2>. QED
        BY <1>1, <2>3, <2>4 DEF DiskTyped, Dirs
<1>. QED
    BY <1>2, <1>3, Frames

LEMMA WalkTypedStep ==
    ASSUME WalkTyped, Where, [Next]_vars
    PROVE  WalkTyped'
<1>0. Dirs' = Dirs
    BY Frames DEF Dirs
<1> USE DEF WalkTyped
<1>1. CASE StatSkillFile
    <2>1. next = 0 /\ next' = next /\ toVisit # <<>>
        BY <1>1 DEF StatSkillFile, Where
    <2>2. CASE found' = <<>> /\ toVisit' = toVisit
        BY <1>0, <2>1, <2>2
    <2>3. CASE found' = found /\ toVisit' \in {toVisit, Tail(toVisit)}
        BY <1>0, <2>1, <2>3
    <2>. QED
        BY <1>1, <2>2, <2>3 DEF StatSkillFile, Descend, WalkFails, walkVars
<1>2. CASE CheckWithin
    <2>1. next = 0 /\ next' = next /\ toVisit # <<>>
        BY <1>2 DEF CheckWithin, Where
    <2>2. CASE found' = <<>> /\ toVisit' = toVisit
        BY <1>0, <2>1, <2>2
    <2>3. CASE found' = found /\ toVisit' \in {toVisit, Tail(toVisit)}
        BY <1>0, <2>1, <2>3
    <2>4. CASE found' = Append(found, Head(toVisit)) /\ toVisit' = BesideSkill(Head(toVisit))
        <3>1. toVisit' \in Seq(Dirs) /\ found' \in Seq(Dirs)
            BY <2>1, <2>4, Beside
        <3>. QED
            BY <1>0, <2>1, <3>1
    <2>. QED
        BY <1>2, <2>2, <2>3, <2>4 DEF CheckWithin, Descend, WalkFails, walkVars
<1>3. CASE EndWalk \/ SendItem \/ Report \/ DropReport
    <2>1. UNCHANGED <<toVisit, found>>
        BY <1>3 DEF EndWalk, SendItem, Report, DropReport, walkVars
    <2>2. next' \in 0..(Len(found) + 1)
        <3>1. CASE EndWalk
            <4>1. CASE found = <<>>
                BY <3>1, <4>1 DEF EndWalk
            <4>2. CASE found # <<>>
                <5>1. next' = 1
                    BY <3>1, <4>2, Turned DEF EndWalk
                <5>. QED
                    BY <4>2, <5>1
            <4>. QED
                BY <4>1, <4>2
        <3>2. CASE SendItem
            <4>0. next' = next + 1
                BY <3>2, Turned DEF SendItem
            <4>2. next \in DOMAIN found
                BY <3>2 DEF SendItem, Where, Skill
            <4>1. next \in 1..Len(found) /\ next' = next + 1
                BY <4>0, <4>2
            <4>. QED
                BY <4>1
        <3>3. CASE Report \/ DropReport
            <4>1. AfterReport
                BY <3>3 DEF Report, DropReport
            <4>2. CASE next \in DOMAIN found
                <5>1. next' = next + 1
                    BY <4>1, <4>2, Turned DEF AfterReport
                <5>. QED
                    BY <4>2, <5>1
            <4>3. CASE next \notin DOMAIN found
                BY <4>1, <4>3 DEF AfterReport, skillVars
            <4>. QED
                BY <4>2, <4>3
        <3>. QED
            BY <1>3, <3>1, <3>2, <3>3
    <2>. QED
        BY <1>0, <2>1, <2>2
<1>4. CASE UNCHANGED <<toVisit, found, next>>
    BY <1>0, <1>4
<1>. QED
    BY <1>1, <1>2, <1>3, <1>4, Frames

LEMMA SkillTypedStep ==
    ASSUME Typed, Where, Editable, Collected, [Next]_vars
    PROVE  SkillTyped'
<1>0. /\ DiskTyped /\ SkillTyped /\ item \in Item /\ Places' = Places
      /\ next \in Nat /\ next + 1 \in Nat
    <2>1. tree' = tree
        BY Frames
    <2>. QED
        BY <2>1 DEF Typed, SkillTyped, WalkTyped, Places, Dirs
<1>1. listed' \in Seq(Places)
    BY Moves
<1>2. DOMAIN files' \subseteq Places /\ files' \in [DOMAIN files' -> Nat]
    <2>1. CASE files' = files
        BY <1>0, <2>1 DEF SkillTyped
    <2>2. CASE files' = <<>>
        BY <2>2
    <2>3. CASE /\ listed # <<>> /\ At(Head(listed)).kind = "file"
               /\ files' = [p \in DOMAIN files \cup {Head(listed)} |->
                      IF p = Head(listed) THEN Size[At(p).is] ELSE files[p]]
        <3>1. PICK h \in Places : h = Head(listed)
            BY <2>3, HeadTyped
        <3>2. At(h).is \in Contents
            BY <1>0, <2>3, <3>1, PlaceTyped, EntryKinds
        <3>3. Size[At(h).is] \in Nat
            BY <3>2, Parameters
        <3>4. DOMAIN files \subseteq Places /\ \A p \in DOMAIN files : files[p] \in Nat
            BY <1>0 DEF SkillTyped
        <3>5. files' = [p \in DOMAIN files \cup {h} |->
                      IF p = h THEN Size[At(p).is] ELSE files[p]]
            BY <2>3, <3>1
        <3>. QED
            BY <3>3, <3>4, <3>5
    <2>. QED
        BY <2>1, <2>2, <2>3, Moves
<1>3. ASSUME NEW k \in Nat, NEW n, Turn(k, n) PROVE item' \in Item /\ quiet' = TRUE
    <2>1. (IF k \in DOMAIN found THEN k ELSE 0) \in Nat
        OBVIOUS
    <2>. QED
        BY <1>3, <2>1, Turned, FreshItem
<1>4. item' \in Item
    <2>1. CASE UNCHANGED item
        BY <1>0, <2>1
    <2>2. CASE EndWalk
        BY <1>0, <1>3, <2>2 DEF EndWalk, skillVars
    <2>3. CASE SendItem
        BY <1>0, <1>3, <2>3 DEF SendItem
    <2>4. CASE Report \/ DropReport
        <3>1. AfterReport
            BY <2>4 DEF Report, DropReport
        <3>. QED
            BY <1>0, <1>3, <3>1 DEF AfterReport, skillVars
    <2>5. CASE CheckFile
        <3>1. item' \in {item, [item EXCEPT !.bundle = TRUE]}
            BY <2>5 DEF CheckFile
        <3>2. [item EXCEPT !.bundle = TRUE] \in Item
            BY <1>0 DEF Item
        <3>. QED
            BY <1>0, <3>1, <3>2
    <2>6. CASE ReadMarkdown
        <3>1. PICK r : UNCHANGED item \/ (r \in Valid /\ item' = [item EXCEPT !.markdown = r])
            BY <2>6 DEF ReadMarkdown
        <3>. QED
            BY <1>0, <3>1, Parameters DEF Item
    <2>7. CASE EncodeFile /\ ~UNCHANGED item
        <3> DEFINE s == Sorted(DOMAIN files)
        <3>1. Len(item.archive) # Len(s)
            BY <2>7 DEF EncodeFile
        <3>2. /\ Len(item.archive) <= Len(s) /\ item.archive \in Seq(ArchiveEntry)
              /\ Len(item.archive) \in Nat
            <4>1. pc = "encode" /\ item.archive \in Seq(ArchiveEntry)
                BY <1>0, <2>7 DEF EncodeFile, Item
            <4>. QED
                BY <4>1 DEF Collected
        <3>3. s \in Seq(Places) /\ Len(s) \in Nat /\ \A i \in 1..Len(s) : s[i] \in DOMAIN files
            BY <1>0, SortedPlaces
        <3>4. PICK p \in Places : p = s[Len(item.archive) + 1] /\ p \in DOMAIN files
            <4> HIDE DEF s
            <4>1. Len(item.archive) + 1 \in 1..Len(s)
                BY <3>1, <3>2, <3>3
            <4>. QED
                BY <3>3, <4>1
        <3>5. /\ At(p) # Absent
              /\ item' = [item EXCEPT !.archive = Append(item.archive, [place |-> p, is |-> At(p).is])]
            BY <2>7, <3>4 DEF EncodeFile
        <3>6. At(p).is \in Contents /\ p \in [dir : Seq(STRING), name : ToSet(Names)]
            <4>1. At(p).kind \in {"none", "file"}
                BY <3>4 DEF Editable
            <4>2. At(p).is \in Contents
                BY <1>0, <3>5, <4>1, PlaceTyped, EntryKinds
            <4>. QED
                BY <1>0, <4>2, PlaceTyped
        <3>7. [place |-> p, is |-> At(p).is] \in ArchiveEntry
            BY <3>6 DEF ArchiveEntry
        <3>8. Append(item.archive, [place |-> p, is |-> At(p).is]) \in Seq(ArchiveEntry)
            BY <3>2, <3>7, AppendProperties
        <3>. QED
            BY <1>0, <3>5, <3>8 DEF Item
    <2>8. CASE ListFiles \/ CollectFiles \/ SizeFile
        BY <1>0, <2>8 DEF ListFiles, CollectFiles, SizeFile
    <2>. QED
        BY <2>1, <2>2, <2>3, <2>4, <2>5, <2>6, <2>7, <2>8, Frames DEF Building
<1>5. quiet' \in BOOLEAN
    <2>1. quiet \in BOOLEAN
        BY <1>0 DEF SkillTyped
    <2>2. CASE UNCHANGED quiet
        BY <2>1, <2>2
    <2>3. CASE EndWalk
        BY <1>0, <1>3, <2>1, <2>3 DEF EndWalk, skillVars
    <2>4. CASE SendItem
        BY <1>0, <1>3, <2>4 DEF SendItem
    <2>5. CASE Report \/ DropReport
        <3>1. AfterReport
            BY <2>5 DEF Report, DropReport
        <3>. QED
            BY <1>0, <1>3, <2>1, <3>1 DEF AfterReport, skillVars
    <2>6. CASE Edit
        BY <2>6 DEF Edit
    <2>. QED
        BY <2>2, <2>3, <2>4, <2>5, <2>6, Frames
<1>. QED
    BY <1>0, <1>1, <1>2, <1>4, <1>5 DEF SkillTyped

LEMMA ChannelsTypedStep ==
    ASSUME Typed, [Next]_vars
    PROVE  ChannelsTyped'
<1>0. /\ sent \in Seq(Item) /\ errs \in Seq(Nat)
      /\ sentRead \in 0..Len(sent) /\ errsRead \in 0..Len(errs)
      /\ Len(sent) - sentRead <= ItemBuf /\ Len(errs) - errsRead <= ErrBuf
      /\ {reading, cancelled} \subseteq BOOLEAN
      /\ Len(sent) \in Nat /\ Len(errs) \in Nat /\ ItemBuf \in Nat /\ ErrBuf \in Nat
      /\ item \in Item /\ item.skill \in Nat
    <2>1. ItemBuf \in Nat /\ ErrBuf \in Nat
        BY Parameters
    <2>2. item \in Item /\ item.skill \in Nat
        BY DEF Typed, SkillTyped, Item
    <2>. QED
        BY <2>1, <2>2 DEF Typed, ChannelsTyped
<1>1. CASE SendItem
    <2>1. /\ sent' = Append(sent, item) /\ Len(sent) - sentRead < ItemBuf
          /\ UNCHANGED <<errs, sentRead, errsRead, reading, cancelled>>
        BY <1>1 DEF SendItem, RoomForItem, outside, reader
    <2>2. sent' \in Seq(Item) /\ Len(sent') = Len(sent) + 1
        BY <1>0, <2>1, AppendProperties
    <2>. QED
        BY <1>0, <2>1, <2>2 DEF ChannelsTyped
<1>2. CASE Report
    <2>1. /\ errs' = Append(errs, item.skill) /\ Len(errs) - errsRead < ErrBuf
          /\ UNCHANGED <<sent, sentRead, errsRead, reading, cancelled>>
        BY <1>2 DEF Report, outside, reader
    <2>2. errs' \in Seq(Nat) /\ Len(errs') = Len(errs) + 1
        BY <1>0, <2>1, AppendProperties
    <2>. QED
        BY <1>0, <2>1, <2>2 DEF ChannelsTyped
<1>3. CASE ReadItem
    BY <1>0, <1>3 DEF ReadItem, ChannelsTyped
<1>4. CASE ReadErr
    BY <1>0, <1>4 DEF ReadErr, ChannelsTyped
<1>5. CASE ~SendItem /\ ~Report /\ ~ReadItem /\ ~ReadErr
    <2>1. UNCHANGED <<sent, errs, sentRead, errsRead>>
        BY <1>5, Frames
    <2>2. {reading, cancelled}' \subseteq BOOLEAN
        BY <1>0, <1>5 DEF Next, Fetching, Discovering, Building, Sending, Open, StatSkillFile,
            CheckWithin, EndWalk, ListFiles, CheckFile, ReadMarkdown, CollectFiles, SizeFile,
            EncodeFile, SendCancelled, DropReport, Edit, StopReading, Cancel, Stopped, vars,
            outside, reader
    <2>. QED
        BY <1>0, <2>1, <2>2 DEF ChannelsTyped
<1>. QED
    BY <1>1, <1>2, <1>3, <1>4, <1>5

LEMMA WhereTurned ==
    ASSUME Typed, NEW k \in Nat \ {0}, NEW n, Turn(k, n), UNCHANGED <<toVisit, found>>,
           n = 0 => sent' = <<>>
    PROVE  Where'
<1>1. /\ next' = k
      /\ item' = [NoItem EXCEPT !.skill = IF k \in DOMAIN found THEN k ELSE 0]
      /\ pc' = IF k \in DOMAIN found THEN "list" ELSE IF n = 0 THEN "report" ELSE "closed"
    BY Turned
<1>2. item'.skill = IF k \in DOMAIN found THEN k ELSE 0
    <2>1. (IF k \in DOMAIN found THEN k ELSE 0) \in Nat
        OBVIOUS
    <2>. QED
        BY <1>1, <2>1, FreshItem
<1>. QED
    BY <1>1, <1>2 DEF Where, Skill

LEMMA WhereStep ==
    ASSUME Typed, Where, [Next]_vars
    PROVE  Where'
<1>0. item \in Item /\ next \in Nat /\ Len(sent) \in Nat
    BY DEF Typed, SkillTyped, WalkTyped, ChannelsTyped
<1>1. CASE Open \/ StatSkillFile \/ CheckWithin
    <2>1. UNCHANGED <<next, item, sent>> /\ next = 0
        BY <1>1 DEF Open, StatSkillFile, CheckWithin, skillVars, Where
    <2>2. pc' \in {"stat", "within", "report"} /\ (pc' = "within" => toVisit' # <<>>)
        BY <1>1 DEF Open, StatSkillFile, CheckWithin, WalkFails, Descend, Goto, walkVars
    <2>3. pc' = "report" => found' = <<>>
        BY <1>1 DEF Open, StatSkillFile, CheckWithin, WalkFails, Descend, Goto, walkVars, Where
    <2>4. 0 \notin DOMAIN found /\ 0 \notin DOMAIN found' /\ sent = <<>>
        <3>1. found \in Seq(Dirs) /\ found' \in Seq(Dirs')
            BY WalkTypedStep DEF Typed, WalkTyped
        <3>. QED
            BY <2>1, <3>1 DEF Where
    <2>. QED
        BY <2>1, <2>2, <2>3, <2>4 DEF Where, Skill
<1>2. CASE EndWalk
    <2>1. UNCHANGED <<toVisit, found, sent>> /\ next = 0 /\ sent = <<>>
        BY <1>2 DEF EndWalk, walkVars, Where
    <2>2. CASE found = <<>>
        BY <1>2, <2>1, <2>2 DEF EndWalk, Goto, skillVars, Where, Skill
    <2>3. CASE found # <<>>
        <3>1. Turn(1, 0)
            BY <1>2, <2>3 DEF EndWalk
        <3>. QED
            BY <2>1, <3>1, WhereTurned
    <2>. QED
        BY <2>2, <2>3
<1>3. CASE SendItem
    <2>1. Turn(next + 1, Len(sent) + 1) /\ UNCHANGED <<toVisit, found>>
        BY <1>3 DEF SendItem, walkVars
    <2>. QED
        BY <1>0, <2>1, WhereTurned
<1>4. CASE Report \/ DropReport
    <2>1. AfterReport /\ UNCHANGED <<toVisit, found, sent>> /\ pc = "report"
        BY <1>4 DEF Report, DropReport, walkVars
    <2>2. CASE next \in DOMAIN found
        <3>1. Turn(next + 1, Len(sent))
            BY <2>1, <2>2 DEF AfterReport
        <3>2. Len(sent) = 0 => sent = <<>>
            BY DEF Typed, ChannelsTyped
        <3>. QED
            BY <1>0, <2>1, <3>1, <3>2, WhereTurned
    <2>3. CASE next \notin DOMAIN found
        <3>1. pc' = "closed" /\ UNCHANGED <<next, item>>
            BY <2>1, <2>3 DEF AfterReport, Goto, skillVars
        <3>. QED
            BY <2>1, <3>1 DEF Where, Skill
    <2>. QED
        BY <2>2, <2>3
<1>5. CASE Building
    <2>1. /\ pc \in Skill \ {"send"} /\ pc' \in Skill \cup {"report"}
          /\ UNCHANGED <<toVisit, found, next, sent>>
        BY <1>5 DEF Building, ListFiles, CheckFile, ReadMarkdown, CollectFiles, SizeFile,
            EncodeFile, WalkInto, Goto, walkVars, Skill
    <2>2. item'.skill = item.skill
        BY <1>0, <1>5 DEF Building, ListFiles, CheckFile, ReadMarkdown, CollectFiles, SizeFile,
            EncodeFile, Item
    <2>3. next \in DOMAIN found /\ item.skill = next
        BY <2>1 DEF Where
    <2>4. next \in 1..Len(found) /\ next # 0
        BY <2>3 DEF Typed, WalkTyped
    <2>5. /\ next' \in DOMAIN found' /\ item'.skill = next' /\ next' # 0
          /\ pc' \in Skill \cup {"report"}
        BY <2>1, <2>2, <2>3, <2>4
    <2>. QED
        BY <2>5 DEF Where, Skill
<1>6. CASE SendCancelled
    BY <1>6 DEF SendCancelled, Goto, walkVars, skillVars, Where, Skill
<1>7. CASE ~Fetching
    <2>1. UNCHANGED <<pc, toVisit, found, next, item, sent>>
        BY <1>7, Frames DEF Fetching, Discovering, Building, Sending
    <2>. QED
        BY <2>1 DEF Where, Skill
<1>. QED
    BY <1>1, <1>2, <1>3, <1>4, <1>5, <1>6, <1>7 DEF Fetching, Discovering, Sending

LEMMA EditableStep ==
    ASSUME Typed, Where, Editable, [Next]_vars
    PROVE  Editable'
<1>0. /\ DiskTyped /\ Dirs' = Dirs /\ listed \in Seq(Places) /\ DOMAIN files \subseteq Places
      /\ listed' \in Seq(Places)
    BY Frames, Moves DEF Typed, SkillTyped, Dirs
<1>1. InShape(Dirs, disk)'
    <2>1. ASSUME NEW d \in Dirs, NEW n \in ToSet(Names)
          PROVE  disk'[d][n].kind = "dir" <=> disk[d][n].kind = "dir"
        BY <1>0, EditedKinds
    <2>. QED
        BY <1>0, <2>1 DEF Editable, InShape
<1>2. ASSUME NEW p \in Places
      PROVE  /\ At(p).kind \in {"none", "file", "dir"} => At(p)'.kind \in {"none", "file", "dir"}
             /\ At(p).kind \in {"none", "file"} => At(p)'.kind \in {"none", "file"}
    <2>1. p.dir \in Dirs /\ p.name \in ToSet(Names)
        BY <1>0, PlaceTyped
    <2>. QED
        BY <1>0, <2>1, EditedKinds DEF At
<1>3. \A p \in ToSet(listed') : p \in Places /\ At(p).kind \in {"none", "file", "dir"}
    BY <1>0, Moves, Members DEF Editable
<1>4. \A p \in DOMAIN files' : p \in Places /\ At(p).kind \in {"none", "file"}
    <2>1. CASE files' = files \/ files' = <<>>
        BY <1>0, <2>1 DEF Editable
    <2>2. CASE /\ listed # <<>> /\ At(Head(listed)).kind = "file"
               /\ DOMAIN files' = DOMAIN files \cup {Head(listed)}
        BY <1>0, <2>2, HeadTyped DEF Editable
    <2>. QED
        BY <2>1, <2>2, Moves
<1>. QED
    BY <1>1, <1>2, <1>3, <1>4 DEF Editable

\* The sizes of what was archived are those that were recorded.
LEMMA SizesKept ==
    ASSUME Typed, Collected, pc = "encode", Len(item.archive) = Len(Sorted(DOMAIN files))
    PROVE  Bounded(item)
<1> DEFINE s == Sorted(DOMAIN files)
           sizes == [i \in DOMAIN s |-> files[s[i]]]
<1>0. DiskTyped /\ DOMAIN files \subseteq Places /\ files \in [DOMAIN files -> Nat]
    BY DEF Typed, SkillTyped
<1>1. item \in Item /\ item.archive \in Seq(ArchiveEntry)
    BY DEF Typed, SkillTyped, Item
<1>2. /\ sizes \in Seq(Nat) /\ Len(sizes) = Len(s) /\ Total(sizes) \in Nat
      /\ Len(s) \in Nat /\ DOMAIN s = 1..Len(s)
    <2>1. sizes \in Seq(Nat) /\ Len(sizes) = Len(s) /\ Total(sizes) \in Nat
        BY <1>0, SizesSorted, Zenon
    <2>2. Len(s) \in Nat /\ DOMAIN s = 1..Len(s)
        BY <1>0, SortedPlaces
    <2>. QED
        BY <2>1, <2>2
<1>3. DOMAIN files # {} /\ item.bundle /\ ~TooLarge(files)
      /\ \A k \in DOMAIN item.archive : Size[item.archive[k].is] = files[s[k]]
    BY DEF Collected
<1>4. ~(Len(s) > MaxFiles \/ Total(sizes) > MaxBytes)
    BY <1>3 DEF TooLarge
<1>5. s # <<>>
    <2>1. PICK p \in DOMAIN files : p \in Places
        BY <1>0, <1>3
    <2>2. \E i \in 1..Len(s) : s[i] = p
        BY <1>0, <2>1, SortedPlaces
    <2> HIDE DEF s
    <2>. QED
        BY <1>2, <2>2
<1>6. Len(item.archive) = Len(s)
    OBVIOUS
<1>7. sizes = [i \in DOMAIN s |-> files[s[i]]]
    OBVIOUS
<1> HIDE DEF s, sizes
<1>8. DOMAIN item.archive = DOMAIN s /\ item.archive # <<>>
    BY <1>1, <1>2, <1>5, <1>6
<1>9. [k \in DOMAIN item.archive |-> Size[item.archive[k].is]] = sizes
    BY <1>3, <1>7, <1>8
<1>10. MaxFiles \in Nat /\ MaxBytes \in Nat
    BY Parameters
<1>11. Total([k \in DOMAIN item.archive |-> Size[item.archive[k].is]]) <= MaxBytes
    <2>1. Total(sizes) <= MaxBytes
        BY <1>2, <1>4, <1>10
    <2>. QED
        BY <1>9, <2>1, Zenon
<1>12. Len(item.archive) <= MaxFiles
    BY <1>2, <1>4, <1>6, <1>10
<1>. QED
    BY <1>3, <1>8, <1>11, <1>12 DEF Bounded

\* An item without an archive is within the limits.
LEMMA MarkdownBounded ==
    ASSUME NEW i \in Item, i.archive = <<>>, ~i.bundle
    PROVE  Bounded(i)
<1>1. [k \in DOMAIN i.archive |-> Size[i.archive[k].is]] = <<>>
    OBVIOUS
<1>2. Total(<<>>) = 0
    <2>1. <<>> \in Seq(Nat) /\ Len(<<>>) = 0
        OBVIOUS
    <2>. QED
        BY <2>1, Totals
<1>3. Len(<<>>) = 0 /\ MaxFiles \in Nat /\ MaxBytes \in Nat
    BY Parameters
<1>. QED
    BY <1>1, <1>2, <1>3 DEF Bounded

LEMMA CollectedStep ==
    ASSUME Typed, Where, Collected, Typed', [Next]_vars
    PROVE  Collected'
<1>0. /\ item \in Item /\ item.archive \in Seq(ArchiveEntry) /\ DiskTyped
      /\ sent \in Seq(Item) /\ \A i \in DOMAIN sent : Bounded(sent[i])
      /\ tree' = tree
    BY Frames DEF Typed, SkillTyped, ChannelsTyped, Item, Collected
<1>1. ASSUME UNCHANGED sent, pc' \in {"open", "stat", "within", "report", "closed"}
      PROVE  Collected'
    BY <1>1 DEF Collected
<1>2. ASSUME NEW k \in Nat, NEW n, Turn(k, n),
             \A i \in DOMAIN sent' : Bounded(sent'[i])
      PROVE  Collected'
    <2>1. pc' \in {"list", "report", "closed"} /\ DOMAIN files' = {}
        <3>1. pc' \in {"list", "report", "closed"} /\ files' = <<>>
            BY <1>2, Turned
        <3>. QED
            BY <3>1
    <2>2. item'.archive = <<>>
        <3>1. (IF k \in DOMAIN found THEN k ELSE 0) \in Nat
            OBVIOUS
        <3>2. [NoItem EXCEPT !.skill = IF k \in DOMAIN found THEN k ELSE 0].archive = <<>>
            BY <3>1, FreshItem
        <3>3. item' = [NoItem EXCEPT !.skill = IF k \in DOMAIN found THEN k ELSE 0]
            BY <1>2, Turned
        <3>. QED
            BY <3>2, <3>3, Zenon
    <2>. QED
        BY <1>2, <2>1, <2>2 DEF Collected
<1>3. next \in Nat /\ next + 1 \in Nat
    BY DEF Typed, WalkTyped
<1>4. CASE Open \/ StatSkillFile \/ CheckWithin
    BY <1>1, <1>4 DEF Open, StatSkillFile, CheckWithin, WalkFails, Descend, Goto
<1>5. CASE EndWalk
    <2>1. UNCHANGED sent
        BY <1>5 DEF EndWalk
    <2>2. CASE found = <<>>
        BY <1>1, <1>5, <2>1, <2>2 DEF EndWalk, Goto
    <2>3. CASE found # <<>>
        BY <1>0, <1>2, <1>5, <2>1, <2>3 DEF EndWalk
    <2>. QED
        BY <2>2, <2>3
<1>6. CASE SendItem
    <2>1. Turn(next + 1, Len(sent) + 1) /\ sent' = Append(sent, item) /\ pc = "send"
        BY <1>6 DEF SendItem
    <2>2. \A i \in DOMAIN sent' : sent'[i] = item \/ (i \in DOMAIN sent /\ sent'[i] = sent[i])
        BY <1>0, <2>1
    <2>3. Bounded(item)
        BY <2>1 DEF Collected
    <2>4. \A i \in DOMAIN sent' : Bounded(sent'[i])
        BY <1>0, <2>2, <2>3, Zenon
    <2>. QED
        BY <1>2, <1>3, <2>1, <2>4
<1>7. CASE Report \/ DropReport
    <2>1. AfterReport /\ UNCHANGED sent
        BY <1>7 DEF Report, DropReport
    <2>2. CASE next \in DOMAIN found
        BY <1>0, <1>2, <1>3, <2>1, <2>2 DEF AfterReport
    <2>3. CASE next \notin DOMAIN found
        BY <1>1, <2>1, <2>3 DEF AfterReport, Goto
    <2>. QED
        BY <2>2, <2>3
<1>8. CASE ListFiles
    <2>1. /\ UNCHANGED <<item, files, sent>> /\ pc = "list" /\ pc' \in {"report", "check"}
        BY <1>8 DEF ListFiles, WalkInto, Goto
    <2>. QED
        BY <2>1 DEF Collected
<1>9. CASE CheckFile
    <2>1. /\ UNCHANGED <<files, sent>> /\ pc = "check" /\ pc' \in {"report", "check", "markdown"}
          /\ item' \in {item, [item EXCEPT !.bundle = TRUE]}
        BY <1>9 DEF CheckFile, WalkInto, Goto
    <2>2. item'.archive = item.archive
        BY <1>0, <2>1 DEF Item
    <2>. QED
        BY <2>1, <2>2 DEF Collected
<1>10. CASE ReadMarkdown
    <2>1. UNCHANGED <<files, sent>> /\ pc = "markdown"
        BY <1>10 DEF ReadMarkdown
    <2>2. item.archive = <<>> /\ DOMAIN files = {}
        BY <2>1 DEF Collected
    <2>3. CASE pc' = "report"
        BY <1>1, <2>1, <2>3
    <2>4. CASE pc' # "report"
        <3>1. PICK r : item' = [item EXCEPT !.markdown = r]
            BY <1>10, <2>4 DEF ReadMarkdown, Goto
        <3>2. item'.archive = <<>> /\ item'.bundle = item.bundle
            BY <1>0, <2>2, <3>1 DEF Item
        <3>3. pc' = IF item.bundle THEN "collect" ELSE "send"
            BY <1>10, <2>4 DEF ReadMarkdown, Goto
        <3>4. item' \in Item /\ item.bundle \in BOOLEAN
            BY <1>0 DEF Typed, SkillTyped, Item
        <3>5. ~item.bundle => Bounded(item')
            BY <3>2, <3>4, MarkdownBounded
        <3>. QED
            BY <1>0, <2>1, <2>2, <3>2, <3>3, <3>5 DEF Collected
    <2>. QED
        BY <2>3, <2>4
<1>11. CASE CollectFiles
    <2>1. UNCHANGED <<item, files, sent>> /\ pc = "collect" /\ pc' \in {"report", "size"}
        BY <1>11 DEF CollectFiles, WalkInto, Goto
    <2>. QED
        BY <2>1 DEF Collected
<1>12. CASE SizeFile
    <2>1. /\ UNCHANGED <<item, sent>> /\ pc = "size" /\ pc' \in {"report", "encode", "size"}
          /\ item.archive = <<>> /\ item.bundle
          /\ DOMAIN files # {} => ~TooLarge(files)
        BY <1>12 DEF SizeFile, WalkInto, Goto, Collected
    <2>2. CASE pc' = "report"
        BY <1>1, <2>1, <2>2
    <2>3. TooLarge(files)' <=> IF UNCHANGED files THEN TooLarge(files) ELSE TooLarge(files')
        BY <1>0 DEF TooLarge, Sorted
    <2>4. CASE pc' # "report" /\ UNCHANGED files
        <3>1. pc' = "encode" => DOMAIN files # {}
            BY <1>12, <2>4 DEF SizeFile, WalkInto, Goto
        <3>2. Len(Sorted(DOMAIN files)) \in Nat /\ Sorted(DOMAIN files)' = Sorted(DOMAIN files)
            BY <1>0, <2>4, SortedPlaces DEF Sorted
        <3>. QED
            BY <1>0, <2>1, <2>3, <2>4, <3>1, <3>2 DEF Collected
    <2>5. CASE pc' # "report" /\ ~UNCHANGED files
        <3>1. pc' = "size" /\ ~TooLarge(files')
            BY <1>12, <2>5 DEF SizeFile, Goto
        <3>. QED
            BY <1>0, <2>1, <2>3, <2>5, <3>1 DEF Collected
    <2>. QED
        BY <2>1, <2>2, <2>4, <2>5
<1>13. CASE EncodeFile
    <2> DEFINE s == Sorted(DOMAIN files)
    <2>1. UNCHANGED <<files, sent>> /\ pc = "encode" /\ pc' \in {"report", "encode", "send"}
        BY <1>13 DEF EncodeFile, Goto
    <2>2. CASE pc' = "report"
        BY <1>1, <2>1, <2>2
    <2>3. CASE pc' = "send"
        <3>1. Len(item.archive) = Len(s) /\ item' = item
            BY <1>13, <2>3 DEF EncodeFile, Goto
        <3>2. Bounded(item)
            BY <2>1, <3>1, SizesKept
        <3>. QED
            BY <1>0, <2>1, <2>3, <3>1, <3>2 DEF Collected
    <2>4. CASE pc' = "encode"
        <3> DEFINE k == Len(item.archive) + 1
        <3>1. Len(item.archive) # Len(s)
            BY <1>13, <2>4 DEF EncodeFile, Goto
        <3>2. PICK e : /\ Size[e] = files[s[k]]
                       /\ item' = [item EXCEPT !.archive = Append(item.archive, [place |-> s[k], is |-> e])]
            BY <1>13, <2>4, <3>1 DEF EncodeFile, SizeMismatch, Goto
        <3>3. item'.archive = Append(item.archive, [place |-> s[k], is |-> e]) /\ item'.bundle = item.bundle
            BY <1>0, <3>2 DEF Item
        <3>4. /\ Len(item.archive) <= Len(s) /\ DOMAIN files # {} /\ item.bundle /\ ~TooLarge(files)
              /\ \A m \in DOMAIN item.archive : Size[item.archive[m].is] = files[s[m]]
            BY <2>1 DEF Collected
        <3>5. /\ Len(s) \in Nat /\ Sorted(DOMAIN files)' = s
              /\ TooLarge(files)' <=> TooLarge(files)
            BY <1>0, <2>1, SortedPlaces DEF Sorted, TooLarge
        <3> HIDE DEF s
        <3>6. Len(item'.archive) <= Len(s)
            BY <1>0, <3>1, <3>3, <3>4, <3>5
        <3>7. \A m \in DOMAIN item'.archive :
                \/ m \in DOMAIN item.archive /\ item'.archive[m] = item.archive[m]
                \/ m = k /\ item'.archive[m].is = e
            BY <1>0, <3>3
        <3> HIDE DEF k
        <3>8. \A m \in DOMAIN item'.archive : Size[item'.archive[m].is] = files[s[m]]
            BY <3>2, <3>4, <3>7
        <3>. QED
            BY <1>0, <2>1, <2>4, <3>3, <3>4, <3>5, <3>6, <3>8 DEF Collected
    <2>. QED
        BY <2>1, <2>2, <2>3, <2>4
<1>14. CASE SendCancelled
    BY <1>1, <1>14 DEF SendCancelled, Goto
<1>15. CASE ~Fetching
    <2>1. UNCHANGED <<pc, item, files, sent>>
        BY <1>15, Frames DEF Fetching, Discovering, Building, Sending
    <2>. QED
        BY <1>0, <2>1 DEF Collected, TooLarge, Sorted
<1>. QED
    BY <1>4, <1>5, <1>6, <1>7, <1>8, <1>9, <1>10, <1>11, <1>12, <1>13, <1>14, <1>15
    DEF Fetching, Discovering, Building, Sending

----------------------------------------------------------------------------
(* The walk.                                                               *)

LEMMA PrefixElements ==
    ASSUME NEW S, NEW s \in Seq(S), NEW t \in Seq(S)
    PROVE  IsPrefix(s, t) <=> Len(s) <= Len(t) /\ \A i \in 1..Len(s) : s[i] = t[i]
<1>0. Len(s) \in Nat /\ Len(t) \in Nat
    OBVIOUS
<1>1. ASSUME Len(s) <= Len(t)
      PROVE  /\ SubSeq(s, 1, Len(s)) \in Seq(S) /\ SubSeq(t, 1, Len(s)) \in Seq(S)
             /\ Len(SubSeq(s, 1, Len(s))) = Len(s) /\ Len(SubSeq(t, 1, Len(s))) = Len(s)
             /\ \A i \in 1..Len(s) : SubSeq(s, 1, Len(s))[i] = s[i] /\ SubSeq(t, 1, Len(s))[i] = t[i]
    BY <1>0, <1>1
<1>2. ASSUME Len(s) <= Len(t), SubSeq(s, 1, Len(s)) = SubSeq(t, 1, Len(s)), NEW i \in 1..Len(s)
      PROVE  s[i] = t[i]
    BY <1>1, <1>2
<1>3. ASSUME Len(s) <= Len(t), \A i \in 1..Len(s) : s[i] = t[i]
      PROVE  SubSeq(s, 1, Len(s)) = SubSeq(t, 1, Len(s))
    BY <1>1, <1>3, SeqEqual
<1>. QED
    BY <1>2, <1>3 DEF IsPrefix

LEMMA PrefixOrder ==
    /\ \A s, t, u \in Seq(STRING) : IsPrefix(s, t) /\ IsPrefix(t, u) => IsPrefix(s, u)
    /\ \A s, t \in Seq(STRING) : IsPrefix(s, t) /\ IsPrefix(t, s) => s = t
<1>1. ASSUME NEW s \in Seq(STRING), NEW t \in Seq(STRING), NEW u \in Seq(STRING),
             IsPrefix(s, t), IsPrefix(t, u)
      PROVE  IsPrefix(s, u)
    <2>1. /\ Len(s) <= Len(t) /\ \A i \in 1..Len(s) : s[i] = t[i]
          /\ Len(t) <= Len(u) /\ \A i \in 1..Len(t) : t[i] = u[i]
        BY <1>1, PrefixElements
    <2>2. Len(s) \in Nat /\ Len(t) \in Nat /\ Len(u) \in Nat
        OBVIOUS
    <2>3. Len(s) <= Len(u) /\ \A i \in 1..Len(s) : i \in 1..Len(t)
        BY <2>1, <2>2
    <2>4. \A i \in 1..Len(s) : s[i] = u[i]
        BY <2>1, <2>3
    <2>. QED
        BY <2>3, <2>4, PrefixElements
<1>2. ASSUME NEW s \in Seq(STRING), NEW t \in Seq(STRING), IsPrefix(s, t), IsPrefix(t, s)
      PROVE  s = t
    <2>1. /\ Len(s) <= Len(t) /\ \A i \in 1..Len(s) : s[i] = t[i]
          /\ Len(t) <= Len(s)
        BY <1>2, PrefixElements
    <2>2. Len(s) \in Nat /\ Len(t) \in Nat
        OBVIOUS
    <2>. QED
        BY <2>1, <2>2, SeqEqual
<1>. QED
    BY <1>1, <1>2

\* No skill is part of another one, and none that is still to be visited is part
\* of one that was found, or has one in it.
Apart ==
    /\ \A i, j \in DOMAIN found : i # j => ~IsPrefix(found[i], found[j])
    /\ InWalkOrder(toVisit)
    /\ \A i \in DOMAIN found, m \in DOMAIN toVisit :
        ~IsPrefix(found[i], toVisit[m]) /\ ~IsPrefix(toVisit[m], found[i])

\* Of a tree nobody edits: what was visited is a skill that was found, or lies
\* below one, or is none.
Settled ==
    /\ next # 0 => toVisit = <<>>
    /\ edits = 0 =>
        /\ \A f \in ToSet(found) : IsSkillDir(f)
        /\ next # 0 \/ pc \in {"open", "stat", "within"} =>
            \A d \in Dirs :
                \/ d \in ToSet(toVisit) \/ d \in ToSet(found) \/ ~IsSkillDir(d)
                \/ \E f \in ToSet(found) : IsPrefix(f, d) /\ f # d

LEMMA ApartStep ==
    ASSUME Typed, Where, Apart, [Next]_vars
    PROVE  Apart'
<1>0. toVisit \in Seq(Dirs) /\ found \in Seq(Dirs)
    BY DEF Typed, WalkTyped
<1>1. CASE UNCHANGED <<toVisit, found>>
    BY <1>1 DEF Apart, InWalkOrder
<1>2. ASSUME toVisit # <<>>, toVisit' = Tail(toVisit), found' = found PROVE Apart'
    <2>1. /\ DOMAIN toVisit' = 1..(Len(toVisit) - 1) /\ DOMAIN toVisit = 1..Len(toVisit)
          /\ Len(toVisit) \in Nat
          /\ \A m \in DOMAIN toVisit' : toVisit'[m] = toVisit[m + 1] /\ m + 1 \in DOMAIN toVisit /\ m \in Nat
        BY <1>0, <1>2
    <2>2. InWalkOrder(toVisit')
        BY <2>1 DEF Apart, InWalkOrder
    <2>3. \A i \in DOMAIN found, m \in DOMAIN toVisit' :
            ~IsPrefix(found[i], toVisit'[m]) /\ ~IsPrefix(toVisit'[m], found[i])
        BY <2>1 DEF Apart
    <2>. QED
        BY <1>2, <2>2, <2>3 DEF Apart
<1>3. ASSUME found' = <<>>, toVisit' = toVisit PROVE Apart'
    BY <1>3 DEF Apart, InWalkOrder
<1>4. ASSUME toVisit # <<>>, toVisit' = BesideSkill(Head(toVisit)), found' = Append(found, Head(toVisit))
      PROVE  Apart'
    <2> DEFINE d == Head(toVisit)
    <2>1. d = toVisit[1] /\ 1 \in DOMAIN toVisit /\ d \in Dirs /\ DOMAIN toVisit = 1..Len(toVisit)
        BY <1>0, <1>4
    <2> HIDE DEF d
    <2>2. PICK g \in [1..Len(toVisit') -> 1..Len(toVisit)] :
            /\ \A i \in 1..Len(toVisit') : toVisit'[i] = toVisit[g[i]] /\ ~IsPrefix(d, toVisit[g[i]])
            /\ \A i, j \in 1..Len(toVisit') : i < j => g[i] < g[j]
        BY <1>4, Beside DEF Typed, d
    <2>3. toVisit' \in Seq(Dirs) /\ DOMAIN toVisit' = 1..Len(toVisit')
        BY <1>4, Beside DEF Typed
    <2>4. InWalkOrder(toVisit')
        <3>1. ASSUME NEW i \in DOMAIN toVisit', NEW j \in DOMAIN toVisit', i < j
              PROVE  ~IsPrefix(toVisit'[j], toVisit'[i])
            <4>1. /\ g[i] \in DOMAIN toVisit /\ g[j] \in DOMAIN toVisit /\ g[i] < g[j]
                  /\ toVisit'[i] = toVisit[g[i]] /\ toVisit'[j] = toVisit[g[j]]
                BY <2>1, <2>2, <2>3, <3>1
            <4>. QED
                BY <4>1 DEF Apart, InWalkOrder
        <3>. QED
            BY <3>1 DEF InWalkOrder
    <2>5. /\ DOMAIN found' = 1..(Len(found) + 1) /\ DOMAIN found = 1..Len(found) /\ Len(found) \in Nat
          /\ \A i \in DOMAIN found' : (i \in DOMAIN found /\ found'[i] = found[i]) \/ (i = Len(found) + 1 /\ found'[i] = d)
        <3>1. found' = Append(found, d)
            BY <1>4 DEF d
        <3>. QED
            BY <1>0, <2>1, <3>1
    <2>6. \A i \in DOMAIN found : ~IsPrefix(found[i], d) /\ ~IsPrefix(d, found[i])
        BY <2>1 DEF Apart
    <2>7. \A i, j \in DOMAIN found' : i # j => ~IsPrefix(found'[i], found'[j])
        BY <2>5, <2>6 DEF Apart
    <2>8. ASSUME NEW m \in DOMAIN toVisit'
          PROVE  /\ ~IsPrefix(d, toVisit'[m]) /\ ~IsPrefix(toVisit'[m], d)
                 /\ \A i \in DOMAIN found : ~IsPrefix(found[i], toVisit'[m]) /\ ~IsPrefix(toVisit'[m], found[i])
        <3>1. g[m] \in DOMAIN toVisit /\ toVisit'[m] = toVisit[g[m]] /\ ~IsPrefix(d, toVisit[g[m]])
            BY <2>1, <2>2, <2>3
        <3>2. \A i \in DOMAIN found : ~IsPrefix(found[i], toVisit'[m]) /\ ~IsPrefix(toVisit'[m], found[i])
            BY <3>1 DEF Apart
        <3>3. ~IsPrefix(toVisit'[m], d)
            <4>1. CASE g[m] = 1
                BY <2>1, <3>1, <4>1
            <4>2. CASE g[m] # 1
                <5>1. 1 < g[m]
                    BY <2>1, <3>1, <4>2
                <5>. QED
                    BY <2>1, <3>1, <5>1 DEF Apart, InWalkOrder
            <4>. QED
                BY <4>1, <4>2
        <3>. QED
            BY <3>1, <3>2, <3>3
    <2>9. \A i \in DOMAIN found', m \in DOMAIN toVisit' :
            ~IsPrefix(found'[i], toVisit'[m]) /\ ~IsPrefix(toVisit'[m], found'[i])
        BY <2>5, <2>8
    <2>. QED
        BY <2>4, <2>7, <2>9 DEF Apart
<1>5. CASE StatSkillFile
    BY <1>1, <1>2, <1>3, <1>5 DEF StatSkillFile, Descend, WalkFails, walkVars
<1>6. CASE CheckWithin
    <2>1. toVisit # <<>>
        BY <1>6 DEF CheckWithin, Where
    <2>. QED
        BY <1>1, <1>2, <1>3, <1>4, <1>6, <2>1 DEF CheckWithin, Descend, WalkFails
<1>. QED
    BY <1>1, <1>5, <1>6, Frames

LEMMA SkillFollowed ==
    ASSUME NEW d
    PROVE  IsSkillDir(d) <=> Follow(d, SkillFile).kind = "file"
BY DEF IsSkillDir, Follow

\* A directory that is no skill is settled once it was visited.
LEMMA SettledBeyond ==
    ASSUME Typed, Settled, next = 0, pc \in {"stat", "within"}, toVisit # <<>>,
           UNCHANGED <<tree, disk, edits, next, found>>, toVisit' = Tail(toVisit),
           ~IsSkillDir(Head(toVisit))
    PROVE  Settled'
<1>0. toVisit \in Seq(Dirs) /\ Dirs' = Dirs
    BY DEF Typed, WalkTyped, Dirs
<1>1. \A x : IsSkillDir(x)' <=> IsSkillDir(x)
    BY DEF IsSkillDir
<1>2. \A x \in ToSet(toVisit) : x = Head(toVisit) \/ x \in ToSet(toVisit')
    <2>1. /\ Len(toVisit) \in Nat /\ Head(toVisit) = toVisit[1] /\ DOMAIN toVisit' = 1..(Len(toVisit) - 1)
          /\ \A m \in DOMAIN toVisit' : toVisit'[m] = toVisit[m + 1]
        BY <1>0
    <2>2. ASSUME NEW m \in 1..Len(toVisit), m # 1 PROVE toVisit[m] \in ToSet(toVisit')
        <3>1. m - 1 \in DOMAIN toVisit' /\ toVisit'[m - 1] = toVisit[m]
            BY <2>1, <2>2
        <3>. QED
            BY <3>1 DEF ToSet
    <2>. QED
        BY <1>0, <2>1, <2>2, Members
<1>3. ASSUME edits = 0
      PROVE  /\ \A f \in ToSet(found) : IsSkillDir(f)
             /\ \A d \in Dirs :
                    \/ d \in ToSet(toVisit') \/ d \in ToSet(found) \/ ~IsSkillDir(d)
                    \/ \E f \in ToSet(found) : IsPrefix(f, d) /\ f # d
    BY <1>2, <1>3 DEF Settled
<1>. QED
    BY <1>0, <1>1, <1>3, Zenon DEF Settled

\* A skill that is found settles itself and what lies below it.
LEMMA SettledBeside ==
    ASSUME Typed, Settled, next = 0, pc = "within", toVisit # <<>>,
           UNCHANGED <<tree, disk, edits, next>>, IsSkillDir(Head(toVisit)),
           toVisit' = BesideSkill(Head(toVisit)), found' = Append(found, Head(toVisit))
    PROVE  Settled'
<1> DEFINE h == Head(toVisit)
<1>0. toVisit \in Seq(Dirs) /\ found \in Seq(Dirs) /\ Dirs' = Dirs /\ h \in Dirs
    BY DEF Typed, WalkTyped, Dirs
<1>1. \A x : IsSkillDir(x)' <=> IsSkillDir(x)
    BY DEF IsSkillDir
<1>2. ToSet(found') = ToSet(found) \cup {h}
    BY <1>0, Members
<1>3. ASSUME NEW x \in ToSet(toVisit) PROVE x \in ToSet(toVisit') \/ IsPrefix(h, x)
    <2>1. PICK m \in 1..Len(toVisit) : x = toVisit[m]
        BY <1>0, Members
    <2>2. \A k \in 1..Len(toVisit) : ~IsPrefix(h, toVisit[k]) => toVisit[k] \in ToSet(toVisit')
        BY Beside, Zenon DEF Typed
    <2>. QED
        BY <2>1, <2>2
<1>4. IsSkillDir(h)
    OBVIOUS
<1> HIDE DEF h
<1>5. ASSUME edits = 0
      PROVE  /\ \A f \in ToSet(found') : IsSkillDir(f)
             /\ \A d \in Dirs :
                    \/ d \in ToSet(toVisit') \/ d \in ToSet(found') \/ ~IsSkillDir(d)
                    \/ \E f \in ToSet(found') : IsPrefix(f, d) /\ f # d
    BY <1>2, <1>3, <1>4, <1>5 DEF Settled
<1>. QED
    BY <1>0, <1>1, <1>5, Zenon DEF Settled

LEMMA SettledStep ==
    ASSUME Typed, Where, Settled, [Next]_vars
    PROVE  Settled'
<1>0. tree' = tree /\ Dirs' = Dirs
    BY Frames DEF Dirs
<1>1. CASE Edit
    <2>1. edits' # 0 /\ UNCHANGED <<next, toVisit>>
        BY <1>1 DEF Edit, Typed, DiskTyped, walkVars
    <2>. QED
        BY <2>1 DEF Settled
<1>2. ASSUME UNCHANGED <<disk, edits, toVisit, found>>,
             next' # 0 => toVisit = <<>>,
             next' # 0 \/ pc' \in {"open", "stat", "within"} =>
                next # 0 \/ pc \in {"open", "stat", "within"}
      PROVE  Settled'
    <2>1. \A x : IsSkillDir(x)' <=> IsSkillDir(x)
        BY <1>2 DEF IsSkillDir
    <2>. QED
        BY <1>0, <1>2, <2>1 DEF Settled
<1>3. ASSUME found' = <<>>, UNCHANGED next, next = 0, pc' = "report"
      PROVE  Settled'
    BY <1>3 DEF Settled, ToSet
<1>4. CASE Open
    BY <1>2, <1>4 DEF Open, walkVars, outside, Settled
<1>5. CASE StatSkillFile
    <2>1. next = 0 /\ pc = "stat" /\ toVisit # <<>> /\ UNCHANGED <<disk, edits, next>>
        BY <1>5 DEF StatSkillFile, Where, outside
    <2>2. CASE WalkFails
        BY <1>3, <2>1, <2>2 DEF WalkFails, Goto
    <2>3. CASE ~WalkFails /\ Follow(Head(toVisit), SkillFile).kind \in {"none", "dir"}
        <3>1. toVisit' = Tail(toVisit) /\ UNCHANGED found
            BY <1>5, <2>3 DEF StatSkillFile, Descend
        <3>2. ~IsSkillDir(Head(toVisit))
            BY <2>3, SkillFollowed
        <3>. QED
            BY <1>0, <2>1, <3>1, <3>2, SettledBeyond
    <2>4. CASE ~WalkFails /\ Follow(Head(toVisit), SkillFile).kind \notin {"none", "dir"}
        BY <1>2, <1>5, <2>1, <2>4 DEF StatSkillFile, walkVars
    <2>. QED
        BY <2>2, <2>3, <2>4
<1>6. CASE CheckWithin
    <2>1. next = 0 /\ pc = "within" /\ toVisit # <<>> /\ UNCHANGED <<disk, edits, next>>
        BY <1>6 DEF CheckWithin, Where, outside
    <2>2. CASE WalkFails
        BY <1>3, <2>1, <2>2 DEF WalkFails, Goto
    <2>3. CASE ~WalkFails /\ Follow(Head(toVisit), SkillFile).kind # "file"
        <3>1. toVisit' = Tail(toVisit) /\ UNCHANGED found
            BY <1>6, <2>3 DEF CheckWithin, Descend
        <3>2. ~IsSkillDir(Head(toVisit))
            BY <2>3, SkillFollowed
        <3>. QED
            BY <1>0, <2>1, <3>1, <3>2, SettledBeyond
    <2>4. CASE ~WalkFails /\ Follow(Head(toVisit), SkillFile).kind = "file"
        <3>1. toVisit' = BesideSkill(Head(toVisit)) /\ found' = Append(found, Head(toVisit))
            BY <1>6, <2>4 DEF CheckWithin
        <3>2. IsSkillDir(Head(toVisit))
            BY <2>4, SkillFollowed
        <3>. QED
            BY <1>0, <2>1, <3>1, <3>2, SettledBeside
    <2>. QED
        BY <2>2, <2>3, <2>4
<1>7. CASE EndWalk
    <2>1. UNCHANGED <<disk, edits, toVisit, found>> /\ toVisit = <<>> /\ pc = "stat"
        BY <1>7 DEF EndWalk, outside, walkVars
    <2>. QED
        BY <1>2, <2>1
<1>8. CASE Fetching /\ ~Discovering
    <2>1. UNCHANGED <<disk, edits, toVisit, found>>
        BY <1>8 DEF Fetching, Building, Sending, ListFiles, CheckFile, ReadMarkdown, CollectFiles,
            SizeFile, EncodeFile, SendItem, SendCancelled, Report, DropReport, outside, walkVars
    <2>2. pc \in Skill \cup {"report"}
        BY <1>8 DEF Fetching, Building, Sending, ListFiles, CheckFile, ReadMarkdown, CollectFiles,
            SizeFile, EncodeFile, SendItem, SendCancelled, Report, DropReport, Skill
    <2>3. CASE next \in DOMAIN found
        <3>1. next # 0
            BY <2>3 DEF Typed, WalkTyped
        <3>. QED
            BY <1>2, <2>1, <3>1 DEF Settled
    <2>4. CASE next \notin DOMAIN found
        <3>1. pc = "report"
            BY <2>2, <2>4 DEF Where
        <3>2. Report \/ DropReport
            BY <1>8, <3>1 DEF Fetching, Building, Sending, ListFiles, CheckFile, ReadMarkdown,
                CollectFiles, SizeFile, EncodeFile, SendItem, SendCancelled
        <3>3. UNCHANGED next /\ pc' = "closed"
            BY <2>4, <3>2 DEF Report, DropReport, AfterReport, Goto
        <3>. QED
            BY <1>2, <2>1, <3>3 DEF Settled
    <2>. QED
        BY <2>3, <2>4
<1>9. CASE ~Fetching /\ ~Edit
    <2>1. UNCHANGED <<disk, edits, toVisit, found, next, pc>>
        BY <1>9, Frames DEF Fetching, Discovering, Building, Sending
    <2>. QED
        BY <1>2, <2>1 DEF Settled
<1>. QED
    BY <1>1, <1>4, <1>5, <1>6, <1>7, <1>8, <1>9 DEF Discovering

LEMMA ExactlyTopmost ==
    ASSUME Typed, Apart, Settled
    PROVE  DiscoverExact
<1>1. found \in Seq(Dirs) /\ Dirs \in SUBSET Seq(STRING)
    <2>1. tree.dirs \in Seq(Seq(STRING))
        BY Parameters DEF Typed, DiskTyped
    <2>2. Dirs \in SUBSET Seq(STRING)
        BY <2>1, Members DEF Dirs
    <2>. QED
        BY <2>2 DEF Typed, WalkTyped
<1>2. \A f \in ToSet(found) : f \in Dirs
    BY <1>1, Members
<1>3. \A f, g \in ToSet(found) : f # g => ~IsPrefix(f, g)
    <2>1. ASSUME NEW f \in ToSet(found), NEW g \in ToSet(found), f # g PROVE ~IsPrefix(f, g)
        <3>1. PICK i \in 1..Len(found), j \in 1..Len(found) : f = found[i] /\ g = found[j]
            BY <1>1, Members
        <3>2. i \in DOMAIN found /\ j \in DOMAIN found /\ i # j
            BY <1>1, <2>1, <3>1
        <3>. QED
            BY <3>1, <3>2 DEF Apart
    <2>. QED
        BY <2>1
<1>4. ASSUME edits = 0, next # 0
      PROVE  ToSet(found) = {d \in Dirs :
                /\ IsSkillDir(d)
                /\ \A p \in Dirs : IsPrefix(p, d) /\ p # d => ~IsSkillDir(p)}
    <2>1. /\ \A f \in ToSet(found) : IsSkillDir(f)
          /\ \A d \in Dirs : d \in ToSet(found) \/ ~IsSkillDir(d)
                            \/ \E f \in ToSet(found) : IsPrefix(f, d) /\ f # d
        BY <1>4 DEF Settled, ToSet
    <2>2. ASSUME NEW f \in ToSet(found), NEW p \in Dirs, IsPrefix(p, f), p # f, IsSkillDir(p) PROVE FALSE
        <3>1. f \in Seq(STRING) /\ p \in Seq(STRING)
            BY <1>1, <1>2
        <3>2. CASE p \in ToSet(found)
            BY <1>3, <2>2, <3>2
        <3>3. ASSUME NEW g \in ToSet(found), IsPrefix(g, p), g # p PROVE FALSE
            <4>1. g \in Seq(STRING)
                BY <1>1, <1>2
            <4>2. IsPrefix(g, f)
                BY <2>2, <3>1, <3>3, <4>1, PrefixOrder
            <4>3. g = f
                BY <1>3, <4>2
            <4>. QED
                BY <2>2, <3>1, <3>3, <4>3, PrefixOrder
        <3>. QED
            BY <2>1, <2>2, <3>2, <3>3
    <2>3. ASSUME NEW d \in Dirs, IsSkillDir(d),
                 \A p \in Dirs : IsPrefix(p, d) /\ p # d => ~IsSkillDir(p)
          PROVE  d \in ToSet(found)
        BY <1>2, <2>1, <2>3
    <2>. QED
        BY <1>2, <2>1, <2>2, <2>3
<1>5. \A i, j \in DOMAIN found : i # j => ~IsPrefix(found[i], found[j])
    BY DEF Apart
<1>. QED
    BY <1>4, <1>5 DEF DiscoverExact, Dirs
----------------------------------------------------------------------------
(* Each skill is reported once.                                            *)

Items(k) == {i \in DOMAIN sent : sent[i].skill = k}
Errors(k) == {i \in DOMAIN errs : errs[i] = k}

Untold(k) == Items(k) = {} /\ Errors(k) = {}
ToldOnce(k) ==
    \/ Errors(k) = {} /\ \E i \in DOMAIN sent : Items(k) = {i}
    \/ Items(k) = {} /\ \E i \in DOMAIN errs : Errors(k) = {i}

\* Of a fetch that is not cancelled: of a skill before the one being read one
\* thing was said, of the others nothing; the loop is left behind the last
\* skill; and an end without an item is the end of the loop or of the walk.
Counted ==
    ~cancelled =>
        /\ next = 0 /\ pc # "closed" => errs = <<>>
        /\ \A k \in DOMAIN found : IF k < next THEN ToldOnce(k) ELSE Untold(k)
        /\ pc = "closed" =>
            /\ next \notin DOMAIN found
            /\ sent = <<>> => errs # <<>> /\ Last(errs) = 0

\* What sending an item, or an error, says of the skills.
LEMMA ItemTells ==
    ASSUME Typed, sent' = Append(sent, item), UNCHANGED errs
    PROVE  \A k : /\ Untold(k) /\ k = item.skill => ToldOnce(k)'
                  /\ k # item.skill => /\ Untold(k) => Untold(k)'
                                       /\ ToldOnce(k) => ToldOnce(k)'
<1>1. sent \in Seq(Item) /\ item \in Item
    BY DEF Typed, ChannelsTyped, SkillTyped
<1>2. /\ DOMAIN sent' = DOMAIN sent \cup {Len(sent) + 1}
      /\ Len(sent) + 1 \notin DOMAIN sent
      /\ \A i \in DOMAIN sent : sent'[i] = sent[i]
      /\ sent'[Len(sent) + 1] = item
    BY <1>1, Appended
<1>3. ASSUME NEW k
      PROVE  /\ Errors(k)' = Errors(k)
             /\ Items(k)' = Items(k) \cup IF item.skill = k THEN {Len(sent) + 1} ELSE {}
    BY <1>2 DEF Items, Errors
<1>. QED
    BY <1>2, <1>3 DEF Untold, ToldOnce

LEMMA ErrorTells ==
    ASSUME Typed, NEW n \in Nat, errs' = Append(errs, n), UNCHANGED sent
    PROVE  \A k : /\ Untold(k) /\ k = n => ToldOnce(k)'
                  /\ k # n => /\ Untold(k) => Untold(k)'
                              /\ ToldOnce(k) => ToldOnce(k)'
<1>1. errs \in Seq(Nat)
    BY DEF Typed, ChannelsTyped
<1>2. /\ DOMAIN errs' = DOMAIN errs \cup {Len(errs) + 1}
      /\ Len(errs) + 1 \notin DOMAIN errs
      /\ \A i \in DOMAIN errs : errs'[i] = errs[i]
      /\ errs'[Len(errs) + 1] = n
    BY <1>1, Appended
<1>3. ASSUME NEW k
      PROVE  /\ Items(k)' = Items(k)
             /\ Errors(k)' = Errors(k) \cup IF n = k THEN {Len(errs) + 1} ELSE {}
    BY <1>2 DEF Items, Errors
<1>. QED
    BY <1>2, <1>3 DEF Untold, ToldOnce

LEMMA CountedStep ==
    ASSUME Typed, Where, Counted, Typed', [Next]_vars
    PROVE  Counted'
<1>0. SUFFICES ASSUME ~cancelled' PROVE Counted'
    BY DEF Counted
<1>1. /\ ~cancelled
      /\ \A k \in DOMAIN found : IF k < next THEN ToldOnce(k) ELSE Untold(k)
    <2>1. ~cancelled
        BY <1>0, Frames, Zenon DEF Cancel
    <2>. QED
        BY <2>1 DEF Counted
<1>2. /\ next \in Nat /\ found \in Seq(Dirs) /\ DOMAIN found = 1..Len(found) /\ Len(found) \in Nat
      /\ Len(sent) \in Nat
      /\ (Len(sent) = 0 => sent = <<>>) /\ item \in Item /\ item.skill \in Nat
    <2>1. /\ next \in Nat /\ found \in Seq(Dirs) /\ DOMAIN found = 1..Len(found) /\ Len(found) \in Nat
        BY DEF Typed, WalkTyped
    <2>2. Len(sent) \in Nat /\ (Len(sent) = 0 => sent = <<>>)
        BY DEF Typed, ChannelsTyped
    <2>3. item \in Item /\ item.skill \in Nat
        BY DEF Typed, SkillTyped, Item
    <2>. QED
        BY <2>1, <2>2, <2>3
<1>3. \A k : sent = <<>> /\ errs = <<>> => Untold(k)
    BY DEF Untold, Items, Errors
<1>4. ASSUME UNCHANGED <<sent, errs, found, next>>,
             UNCHANGED pc \/ (pc # "closed" /\ pc' # "closed")
      PROVE  Counted'
    <2>1. \A k : (Untold(k)' <=> Untold(k)) /\ (ToldOnce(k)' <=> ToldOnce(k))
        BY <1>4 DEF Untold, ToldOnce, Items, Errors
    <2>2. /\ next' = 0 /\ pc' # "closed" => errs' = <<>>
          /\ pc' = "closed" => /\ next' \notin DOMAIN found'
                               /\ sent' = <<>> => errs' # <<>> /\ Last(errs') = 0
        <3>1. CASE pc' # "closed"
            BY <1>1, <1>4, <3>1 DEF Counted
        <3>2. CASE pc' = "closed"
            BY <1>1, <1>4, <3>2 DEF Counted
        <3>. QED
            BY <3>1, <3>2
    <2>3. \A k \in DOMAIN found' : IF k < next' THEN ToldOnce(k)' ELSE Untold(k)'
        BY <1>1, <1>4, <2>1
    <2>. QED
        BY <2>2, <2>3 DEF Counted
<1>5. ASSUME UNCHANGED <<sent, errs>>, sent = <<>>, errs = <<>>, next' \in {0, 1}, pc' # "closed",
             found' \in Seq(Dirs')
      PROVE  Counted'
    <2>1. \A k : Untold(k)'
        BY <1>5 DEF Untold, Items, Errors
    <2>2. \A k \in DOMAIN found' : ~(k < next')
        BY <1>5
    <2>. QED
        BY <1>5, <2>1, <2>2 DEF Counted
<1>6. CASE Open \/ StatSkillFile \/ CheckWithin
    <2>1. /\ UNCHANGED <<sent, errs, next>> /\ next = 0 /\ pc # "closed" /\ pc' # "closed"
        BY <1>6 DEF Open, StatSkillFile, CheckWithin, WalkFails, Descend, Goto, walkVars, Where
    <2>2. sent = <<>> /\ errs = <<>>
        BY <1>1, <2>1 DEF Where, Counted
    <2>3. found' \in Seq(Dirs')
        BY DEF Typed, WalkTyped
    <2>. QED
        BY <1>5, <2>1, <2>2, <2>3
<1>7. CASE EndWalk
    <2>1. UNCHANGED <<found, sent, errs>> /\ next = 0 /\ pc # "closed"
        BY <1>7 DEF EndWalk, walkVars, Where
    <2>2. sent = <<>> /\ errs = <<>>
        BY <1>1, <2>1 DEF Where, Counted
    <2>3. next' \in {0, 1} /\ pc' # "closed"
        <3>1. CASE found = <<>>
            BY <1>7, <2>1, <3>1 DEF EndWalk, Goto
        <3>2. CASE found # <<>>
            <4>1. Turn(1, 0) /\ 1 \in DOMAIN found
                BY <1>2, <1>7, <3>2 DEF EndWalk
            <4>. QED
                BY <4>1, Turned
        <3>. QED
            BY <3>1, <3>2
    <2>4. found' \in Seq(Dirs')
        BY DEF Typed, WalkTyped
    <2>. QED
        BY <1>5, <2>1, <2>2, <2>3, <2>4
<1>8. CASE Building
    BY <1>4, <1>8 DEF Building, ListFiles, CheckFile, ReadMarkdown, CollectFiles, SizeFile,
        EncodeFile, WalkInto, Goto, walkVars
<1>9. ASSUME next \in DOMAIN found, next' = next + 1, UNCHANGED found,
             pc' = "closed" => next + 1 \notin DOMAIN found /\ sent' # <<>>,
             \A k : /\ Untold(k) /\ k = next => ToldOnce(k)'
                    /\ k # next => /\ Untold(k) => Untold(k)'
                                   /\ ToldOnce(k) => ToldOnce(k)'
      PROVE  Counted'
    <2>1. ASSUME NEW k \in DOMAIN found
          PROVE  IF k < next' THEN ToldOnce(k)' ELSE Untold(k)'
        <3>1. k \in Nat /\ (k < next' <=> k < next \/ k = next)
            BY <1>2, <1>9
        <3>2. k = next => ~(k < next)
            BY <1>2, <3>1
        <3>. QED
            BY <1>1, <1>9, <3>1, <3>2
    <2>2. next' # 0
        BY <1>2, <1>9
    <2>. QED
        BY <1>9, <2>1, <2>2 DEF Counted
<1>10. CASE SendItem
    <2>1. /\ Turn(next + 1, Len(sent) + 1) /\ sent' = Append(sent, item) /\ pc = "send"
          /\ UNCHANGED <<found, errs>>
        BY <1>10 DEF SendItem, walkVars
    <2>2. next \in DOMAIN found /\ item.skill = next
        BY <2>1 DEF Where, Skill
    <2>3. next' = next + 1 /\ (pc' = "closed" => next + 1 \notin DOMAIN found)
        BY <2>1, Turned
    <2>4. sent' # <<>>
        BY <1>2, <2>1, Appended DEF Typed, ChannelsTyped
    <2>. QED
        BY <1>9, <2>1, <2>2, <2>3, <2>4, ItemTells
<1>11. CASE Report /\ next \in DOMAIN found
    <2>1. /\ Turn(next + 1, Len(sent)) /\ errs' = Append(errs, item.skill) /\ UNCHANGED <<found, sent>>
        BY <1>11 DEF Report, AfterReport, walkVars
    <2>2. item.skill = next
        BY <1>11 DEF Where
    <2>3. next' = next + 1 /\ (pc' = "closed" => next + 1 \notin DOMAIN found /\ Len(sent) # 0)
        BY <2>1, Turned
    <2>4. \A k : /\ Untold(k) /\ k = next => ToldOnce(k)'
                 /\ k # next => /\ Untold(k) => Untold(k)'
                                /\ ToldOnce(k) => ToldOnce(k)'
        BY <1>2, <2>1, <2>2, ErrorTells
    <2>. QED
        BY <1>2, <1>9, <1>11, <2>1, <2>3, <2>4
<1>12. CASE Report /\ next \notin DOMAIN found
    <2>1. /\ pc' = "closed" /\ UNCHANGED <<next, found, sent>> /\ errs' = Append(errs, item.skill)
        BY <1>12 DEF Report, AfterReport, Goto, walkVars
    <2>2. item.skill = 0
        BY <1>12 DEF Where
    <2>3. errs' # <<>> /\ Last(errs') = 0
        BY <2>1, <2>2, Appended DEF Typed, ChannelsTyped
    <2>4. \A k : k # 0 => /\ Untold(k) => Untold(k)'
                          /\ ToldOnce(k) => ToldOnce(k)'
        BY <2>1, <2>2, ErrorTells
    <2>5. \A k \in DOMAIN found : k # 0
        BY <1>2
    <2>. QED
        BY <1>1, <1>12, <2>1, <2>3, <2>4, <2>5 DEF Counted
<1>13. CASE SendCancelled \/ DropReport
    BY <1>1, <1>13 DEF SendCancelled, DropReport
<1>14. CASE ~Fetching
    <2>1. UNCHANGED <<sent, errs, found, next, pc>>
        BY <1>14, Frames DEF Fetching, Discovering, Building, Sending
    <2>. QED
        BY <1>4, <2>1
<1>. QED
    BY <1>6, <1>7, <1>8, <1>10, <1>11, <1>12, <1>13, <1>14 DEF Fetching, Discovering, Sending

LEMMA OneReport ==
    ASSUME Typed, Counted, Where
    PROVE  AllSkillsReported
<1>1. SUFFICES ASSUME pc = "closed", ~cancelled PROVE AllSkillsReported
    BY DEF AllSkillsReported
<1>2. sent = <<>> => errs # <<>> /\ Last(errs) = 0
    BY <1>1 DEF Counted
<1>3. ASSUME NEW k \in DOMAIN found PROVE Cardinality(Items(k)) + Cardinality(Errors(k)) = 1
    <2>1. k < next
        <3>1. next \in Nat /\ next <= Len(found) + 1 /\ DOMAIN found = 1..Len(found) /\ Len(found) \in Nat
            BY DEF Typed, WalkTyped
        <3>2. next \notin DOMAIN found /\ (next = 0 => found = <<>>)
            BY <1>1 DEF Counted, Where
        <3>. QED
            BY <3>1, <3>2
    <2>2. ToldOnce(k)
        BY <1>1, <2>1 DEF Counted
    <2>3. \A i : Cardinality({i}) = 1
        BY FS_Singleton
    <2>4. Cardinality({}) = 0
        BY FS_EmptySet
    <2>5. \/ Cardinality(Items(k)) = 1 /\ Cardinality(Errors(k)) = 0
          \/ Cardinality(Items(k)) = 0 /\ Cardinality(Errors(k)) = 1
        BY <2>2, <2>3, <2>4, Zenon DEF ToldOnce
    <2>. QED
        BY <2>5
<1>. QED
    BY <1>1, <1>2, <1>3 DEF AllSkillsReported, Items, Errors

----------------------------------------------------------------------------
(* A skill below which nobody edits.                                       *)

\* What lies below a skill: its files with their contents, the directories that
\* cannot be listed, the sizes, and whether there is more than its SKILL.md.
ContentsOf(d) == [p \in FilesOf(d) |-> At(p).is]
Barred(d) == {x \in tree.unreadable : IsPrefix(d, x)}
SizesOf(c) == [p \in DOMAIN c |-> Size[c[p]]]
More(d, c) == DOMAIN c \ {TopFile(d)} # {}

\* The walk has still to come to y, or to what it is below.
Under(y) == \E q \in ToSet(listed) : IsPrefix(Path(q), y)

\* What the walk has still to visit is below d, a file or a directory.
ToCome(d) == \A q \in ToSet(listed) : IsPrefix(d, q.dir) /\ At(q).kind \in {"file", "dir"}

ArchivedAs(c) ==
    \A k \in DOMAIN item.archive :
        item.archive[k] = [place |-> Sorted(DOMAIN c)[k], is |-> c[Sorted(DOMAIN c)[k]]]

\* What the goroutine knows of a skill d whose files have the contents c, below
\* which the directories of u cannot be listed and whose SKILL.md is m.
Known(d, c, u, m) ==
    /\ pc \in {"list", "check"} => ~item.bundle
    /\ pc = "check" =>
        /\ ToCome(d)
        /\ \A p \in DOMAIN c : p = TopFile(d) \/ Under(Path(p))
    /\ pc \in {"check", "size"} => \A x \in u : Under(x)
    /\ pc \in Skill \ {"list", "check"} => (item.bundle <=> More(d, c))
    /\ pc \in {"markdown", "send"} /\ ~item.bundle => u = {}
    /\ pc \in {"collect", "size", "encode", "send"} => item.markdown = m /\ m \in Valid
    /\ pc = "size" =>
        /\ ToCome(d)
        /\ DOMAIN files \subseteq DOMAIN c
        /\ \A p \in DOMAIN files : files[p] = Size[c[p]]
        /\ \A p \in DOMAIN c : p \in DOMAIN files \/ Under(Path(p))
    /\ pc = "encode" => files = SizesOf(c) /\ ArchivedAs(c) /\ u = {}
    /\ pc = "send" /\ item.bundle =>
        /\ u = {} /\ ~TooLarge(SizesOf(c))
        /\ ArchivedAs(c) /\ Len(item.archive) = Len(Sorted(DOMAIN c))
    /\ pc = "report" => u # {} \/ m \notin Valid \/ (More(d, c) /\ TooLarge(SizesOf(c)))

Quiet ==
    quiet /\ next \in DOMAIN found =>
        Known(Dir, ContentsOf(Dir), Barred(Dir), Follow(Dir, SkillFile).is)

\* A path with one more name, and what it begins with.
LEMMA Longer ==
    ASSUME NEW S, NEW s \in Seq(S), NEW t \in Seq(S), NEW n \in S
    PROVE  /\ IsPrefix(t, t) /\ IsPrefix(t, Append(t, n)) /\ t # Append(t, n)
           /\ IsPrefix(s, Append(t, n)) => s = Append(t, n) \/ IsPrefix(s, t)
<1>1. /\ Append(t, n) \in Seq(S) /\ Len(Append(t, n)) = Len(t) + 1 /\ Len(t) \in Nat
      /\ Len(s) \in Nat /\ \A i \in 1..Len(t) : Append(t, n)[i] = t[i]
    OBVIOUS
<1>2. IsPrefix(t, t)
    <2>1. Len(t) <= Len(t)
        BY <1>1
    <2>. QED
        BY <2>1, PrefixElements
<1>3. IsPrefix(t, Append(t, n)) /\ t # Append(t, n)
    <2>1. Len(t) <= Len(Append(t, n)) /\ Len(t) # Len(Append(t, n))
        BY <1>1
    <2>2. PICK a \in Seq(S) : a = Append(t, n)
        BY <1>1
    <2>3. Len(t) <= Len(a) /\ \A i \in 1..Len(t) : t[i] = a[i]
        BY <1>1, <2>1, <2>2
    <2>4. IsPrefix(t, a)
        BY <2>3, PrefixElements
    <2>. QED
        BY <2>1, <2>2, <2>4
<1>4. ASSUME IsPrefix(s, Append(t, n)), s # Append(t, n) PROVE IsPrefix(s, t)
    <2>1. PICK a \in Seq(S) : a = Append(t, n)
        BY <1>1
    <2>2. Len(s) <= Len(a) /\ \A i \in 1..Len(s) : s[i] = a[i]
        <3>1. IsPrefix(s, a)
            BY <1>4, <2>1
        <3>. QED
            BY <3>1, PrefixElements
    <2>3. Len(s) # Len(a)
        BY <1>4, <2>1, <2>2, SeqEqual
    <2>4. Len(s) <= Len(t) /\ \A i \in 1..Len(s) : i \in 1..Len(t)
        BY <1>1, <2>1, <2>2, <2>3
    <2>5. \A i \in 1..Len(s) : s[i] = t[i]
        BY <1>1, <2>1, <2>2, <2>4
    <2>. QED
        BY <2>4, <2>5, PrefixElements
<1>. QED
    BY <1>2, <1>3, <1>4

\* Two paths with the same beginning, both on the way to y, are one.
LEMMA OneWay ==
    ASSUME NEW S, NEW s \in Seq(S), NEW y \in Seq(S), NEW m \in S, NEW n \in S,
           IsPrefix(Append(s, m), y), IsPrefix(Append(s, n), y)
    PROVE  m = n
<1>1. PICK a \in Seq(S) : a = Append(s, m) /\ Len(a) = Len(s) + 1 /\ a[Len(s) + 1] = m
    <2>1. /\ Append(s, m) \in Seq(S) /\ Len(Append(s, m)) = Len(s) + 1
          /\ Append(s, m)[Len(s) + 1] = m
        OBVIOUS
    <2>. QED
        BY <2>1, Zenon
<1>2. PICK b \in Seq(S) : b = Append(s, n) /\ Len(b) = Len(s) + 1 /\ b[Len(s) + 1] = n
    <2>1. /\ Append(s, n) \in Seq(S) /\ Len(Append(s, n)) = Len(s) + 1
          /\ Append(s, n)[Len(s) + 1] = n
        OBVIOUS
    <2>. QED
        BY <2>1, Zenon
<1>3. Len(s) + 1 \in 1..Len(a) /\ Len(s) + 1 \in 1..Len(b)
    BY <1>1, <1>2
<1>4. a[Len(s) + 1] = y[Len(s) + 1]
    <2>1. IsPrefix(a, y)
        BY <1>1
    <2>2. \A i \in 1..Len(a) : a[i] = y[i]
        BY <2>1, PrefixElements
    <2>. QED
        BY <1>3, <2>2
<1>5. b[Len(s) + 1] = y[Len(s) + 1]
    <2>1. IsPrefix(b, y)
        BY <1>2
    <2>2. \A i \in 1..Len(b) : b[i] = y[i]
        BY <2>1, PrefixElements
    <2>. QED
        BY <1>3, <2>2
<1>. QED
    BY <1>1, <1>2, <1>4, <1>5

LEMMA SameAppended ==
    ASSUME NEW S, NEW a \in Seq(S), NEW b \in Seq(S), NEW m \in S, NEW n \in S,
           Append(a, m) = Append(b, n)
    PROVE  a = b /\ m = n
<1>1. /\ Len(Append(a, m)) = Len(a) + 1 /\ Len(Append(b, n)) = Len(b) + 1
      /\ Append(a, m)[Len(a) + 1] = m /\ Append(b, n)[Len(b) + 1] = n
      /\ \A i \in 1..Len(a) : Append(a, m)[i] = a[i]
      /\ \A i \in 1..Len(b) : Append(b, n)[i] = b[i]
      /\ Len(a) \in Nat /\ Len(b) \in Nat
    OBVIOUS
<1>2. Len(a) = Len(b)
    BY <1>1
<1>3. m = n /\ \A i \in 1..Len(a) : a[i] = b[i]
    BY <1>1, <1>2
<1>. QED
    BY <1>2, <1>3, SeqEqual

LEMMA SamePath ==
    ASSUME DiskTyped, NEW p \in Places, NEW q \in Places, Path(p) = Path(q)
    PROVE  p = q
<1>1. /\ p.dir \in Seq(STRING) /\ p.name \in STRING /\ p = [dir |-> p.dir, name |-> p.name]
      /\ q.dir \in Seq(STRING) /\ q.name \in STRING /\ q = [dir |-> q.dir, name |-> q.name]
    BY PlaceTyped
<1>2. PICK a \in Seq(STRING), b \in Seq(STRING), m \in STRING, n \in STRING :
        a = p.dir /\ b = q.dir /\ m = p.name /\ n = q.name
    BY <1>1
<1>3. Append(a, m) = Append(b, n)
    BY <1>2 DEF Path
<1>4. a = b /\ m = n
    BY <1>2, <1>3, SameAppended
<1>. QED
    BY <1>1, <1>2, <1>4

\* What lies below a directory is below one of the places it lists, or is one.
LEMMA Deeper ==
    ASSUME DiskTyped, InShape(Dirs, disk), NEW d \in Dirs
    PROVE  /\ \A y \in Dirs : IsPrefix(d, y) /\ d # y =>
                \E q \in ToSet(Listing(d)) : IsPrefix(Path(q), y)
           /\ \A p \in Places : At(p).kind = "file" /\ IsPrefix(d, Path(p)) /\ d # Path(p) =>
                \E q \in ToSet(Listing(d)) : IsPrefix(Path(q), Path(p))
<1>1. ASSUME NEW y \in Dirs, IsPrefix(d, y), d # y
      PROVE  \E q \in ToSet(Listing(d)) : IsPrefix(Path(q), y)
    <2>1. PICK n \in ToSet(Names) : disk[d][n].kind = "dir" /\ IsPrefix(Append(d, n), y)
        BY <1>1 DEF InShape
    <2>2. PICK q : q = [dir |-> d, name |-> n]
        OBVIOUS
    <2>3. q \in ToSet(Listing(d))
        BY <2>1, <2>2, Listings
    <2>4. Path(q) = Append(d, n)
        BY <2>2 DEF Path
    <2>. QED
        BY <2>1, <2>3, <2>4
<1>2. ASSUME NEW p \in Places, At(p).kind = "file", IsPrefix(d, Path(p)), d # Path(p)
      PROVE  \E q \in ToSet(Listing(d)) : IsPrefix(Path(q), Path(p))
    <2>1. /\ p.dir \in Dirs /\ p.dir \in Seq(STRING) /\ p.name \in STRING /\ p.name \in ToSet(Names)
          /\ p = [dir |-> p.dir, name |-> p.name] /\ d \in Seq(STRING) /\ Path(p) \in Seq(STRING)
        BY PlaceTyped, TreeTyped
    <2>2. PICK e \in Seq(STRING), n \in STRING : e = p.dir /\ n = p.name /\ Path(p) = Append(e, n)
        BY <2>1 DEF Path
    <2>3. IsPrefix(d, e) /\ IsPrefix(e, Path(p))
        BY <1>2, <2>1, <2>2, Longer
    <2>4. CASE e = d
        <3>1. p \in ToSet(Listing(d))
            BY <1>2, <2>1, <2>2, <2>4, Listings DEF At
        <3>2. IsPrefix(Path(p), Path(p))
            BY <2>1, Longer
        <3>. QED
            BY <3>1, <3>2
    <2>5. CASE e # d
        <3>1. PICK q \in ToSet(Listing(d)) : IsPrefix(Path(q), e)
            BY <1>1, <2>1, <2>2, <2>3, <2>5
        <3>2. Path(q) \in Seq(STRING)
            BY Listings, Members, PlaceTyped
        <3>3. IsPrefix(Path(q), Path(p))
            BY <2>1, <2>2, <2>3, <3>1, <3>2, PrefixOrder
        <3>. QED
            BY <3>1, <3>3
    <2>. QED
        BY <2>4, <2>5
<1>. QED
    BY <1>1, <1>2

\* Nothing lies below a file.
LEMMA Alone ==
    ASSUME DiskTyped, InShape(Dirs, disk), NEW q \in Places, At(q).kind # "dir"
    PROVE  /\ \A y \in Dirs : ~IsPrefix(Path(q), y)
           /\ \A p \in Places : IsPrefix(Path(q), Path(p)) => p = q
<1>1. /\ q.dir \in Dirs /\ q.dir \in Seq(STRING) /\ q.name \in STRING /\ q.name \in ToSet(Names)
      /\ Path(q) \in Seq(STRING)
    BY PlaceTyped
<1>2. PICK e \in Seq(STRING), n \in STRING :
        e = q.dir /\ n = q.name /\ Path(q) = Append(e, n) /\ e \in Dirs /\ n \in ToSet(Names)
    BY <1>1 DEF Path
<1>3. disk[e][n].kind # "dir"
    BY <1>2 DEF At
<1>4. ASSUME NEW y \in Dirs, IsPrefix(Path(q), y) PROVE FALSE
    <2>1. y \in Seq(STRING)
        BY TreeTyped
    <2>2. IsPrefix(e, Path(q)) /\ e # Path(q)
        BY <1>2, Longer
    <2>3. IsPrefix(e, y)
        BY <1>1, <1>4, <2>1, <2>2, PrefixOrder
    <2>4. e # y
        BY <1>1, <1>4, <2>1, <2>2, PrefixOrder
    <2>5. PICK x \in ToSet(Names) : disk[e][x].kind = "dir" /\ IsPrefix(Append(e, x), y)
        BY <1>2, <2>3, <2>4 DEF InShape
    <2>6. x \in STRING
        BY TreeTyped
    <2>7. x = n
        BY <1>2, <1>4, <2>1, <2>5, <2>6, OneWay
    <2>. QED
        BY <1>3, <2>5, <2>7
<1>5. ASSUME NEW p \in Places, IsPrefix(Path(q), Path(p)) PROVE p = q
    <2>1. PICK f \in Seq(STRING), x \in STRING : f \in Dirs /\ Path(p) = Append(f, x)
        BY PlaceTyped DEF Path
    <2>2. ~IsPrefix(Path(q), f)
        BY <1>4, <2>1
    <2>3. Path(q) = Path(p)
        BY <1>1, <1>5, <2>1, <2>2, Longer
    <2>. QED
        BY <2>3, SamePath
<1>. QED
    BY <1>4, <1>5

LEMMA Rest ==
    ASSUME NEW S, NEW s \in Seq(S), s # <<>>
    PROVE  /\ \A x \in ToSet(s) : x = Head(s) \/ x \in ToSet(Tail(s))
           /\ Len(Tail(s)) = Len(s) - 1 /\ Len(s) \in Nat \ {0} /\ Head(s) = s[1]
           /\ \A i \in 1..(Len(s) - 1) : Tail(s)[i] = s[i + 1]
<1>1. /\ Len(s) \in Nat \ {0} /\ Head(s) = s[1] /\ Len(Tail(s)) = Len(s) - 1
      /\ \A m \in 1..(Len(s) - 1) : Tail(s)[m] = s[m + 1]
      /\ Tail(s) \in Seq(S)
    OBVIOUS
<1>2. ASSUME NEW m \in 1..Len(s), m # 1 PROVE s[m] \in ToSet(Tail(s))
    <2>1. m - 1 \in 1..Len(Tail(s)) /\ Tail(s)[m - 1] = s[m]
        BY <1>1, <1>2
    <2>. QED
        BY <1>1, <2>1, Members
<1>. QED
    BY <1>1, <1>2, Members

\* What lies below a skill directory.
LEMMA Below ==
    ASSUME DiskTyped, NEW d \in Dirs, NEW c, c = ContentsOf(d)
    PROVE  /\ \A p \in DOMAIN c :
                /\ p \in Places /\ IsPrefix(d, Path(p)) /\ d # Path(p)
                /\ IsPrefix(d, p.dir) /\ At(p).kind = "file" /\ At(p) # Absent
                /\ c[p] = At(p).is /\ c[p] \in Contents
           /\ \A p \in Places : At(p).kind = "file" /\ IsPrefix(d, p.dir) => p \in DOMAIN c
           /\ DOMAIN SizesOf(c) = DOMAIN c /\ SizesOf(c) \in [DOMAIN c -> Nat]
           /\ \A p \in DOMAIN c : SizesOf(c)[p] = Size[c[p]]
           /\ \A x : x \in Barred(d) <=> x \in tree.unreadable /\ IsPrefix(d, x)
           /\ \A x \in Barred(d) : x \in Dirs
<1>1. DOMAIN c = FilesOf(d) /\ \A p \in DOMAIN c : c[p] = At(p).is
    BY DEF ContentsOf
<1>2. \A p : p \in DOMAIN c <=> p \in Places /\ IsPrefix(d, p.dir) /\ At(p).kind = "file"
    <2>1. ToSet(tree.order) = Places
        BY TreeTyped
    <2>. QED
        BY <1>1, <2>1 DEF FilesOf
<1>3. ASSUME NEW p \in DOMAIN c
      PROVE  IsPrefix(d, Path(p)) /\ d # Path(p) /\ c[p] \in Contents /\ At(p) # Absent
    <2>1. /\ p.dir \in Seq(STRING) /\ p.name \in STRING /\ d \in Seq(STRING) /\ Path(p) \in Seq(STRING)
          /\ At(p) \in Entries
        BY <1>2, PlaceTyped, TreeTyped
    <2>2. PICK e \in Seq(STRING), n \in STRING : e = p.dir /\ Path(p) = Append(e, n)
        BY <2>1 DEF Path
    <2>3. IsPrefix(d, e) /\ IsPrefix(e, Path(p)) /\ e # Path(p)
        BY <1>2, <2>2, Longer
    <2>4. IsPrefix(d, Path(p))
        BY <2>1, <2>2, <2>3, PrefixOrder
    <2>5. d # Path(p)
        BY <2>1, <2>2, <2>3, PrefixOrder
    <2>6. c[p] \in Contents /\ At(p) # Absent
        <3>1. At(p).kind = "file" /\ c[p] = At(p).is
            BY <1>1, <1>2
        <3>. QED
            BY <2>1, <3>1, EntryKinds
    <2>. QED
        BY <2>4, <2>5, <2>6
<1>4. /\ DOMAIN SizesOf(c) = DOMAIN c /\ SizesOf(c) \in [DOMAIN c -> Nat]
      /\ \A p \in DOMAIN c : SizesOf(c)[p] = Size[c[p]]
    <2>1. \A p \in DOMAIN c : Size[c[p]] \in Nat
        BY <1>3, Parameters
    <2>. QED
        BY <2>1 DEF SizesOf
<1>5. \A x : x \in Barred(d) <=> x \in tree.unreadable /\ IsPrefix(d, x)
    BY DEF Barred
<1>6. \A x \in Barred(d) : x \in Dirs
    BY <1>5, TreeTyped
<1>. QED
    BY <1>1, <1>2, <1>3, <1>4, <1>5, <1>6

LEMMA SelfPrefix ==
    ASSUME DiskTyped, NEW d \in Dirs
    PROVE  IsPrefix(d, d)
<1>1. d \in Seq(STRING) /\ SkillFile \in STRING
    BY Parameters, TreeTyped
<1>. QED
    BY <1>1, Longer

\* A walk begins with all there is below the skill.
LEMMA WalkBegun ==
    ASSUME DiskTyped, InShape(Dirs, disk), NEW d \in Dirs, d \notin tree.unreadable,
           NEW c, c = ContentsOf(d), ToSet(listed') = ToSet(Listing(d)), UNCHANGED disk
    PROVE  /\ ToCome(d)'
           /\ \A x \in Barred(d) : Under(x)'
           /\ \A p \in DOMAIN c : Under(Path(p))'
<1>1. IsPrefix(d, d)
    BY SelfPrefix
<1>2. ToCome(d)'
    BY <1>1, Listings DEF ToCome, At
<1>3. ASSUME NEW x \in Barred(d) PROVE Under(x)'
    <2>1. x \in Dirs /\ IsPrefix(d, x) /\ d # x
        BY Below
    <2>. QED
        BY <2>1, Deeper DEF Under
<1>4. ASSUME NEW p \in DOMAIN c PROVE Under(Path(p))'
    <2>1. p \in Places /\ At(p).kind = "file" /\ IsPrefix(d, Path(p)) /\ d # Path(p)
        BY Below
    <2>. QED
        BY <2>1, Deeper DEF Under
<1>. QED
    BY <1>2, <1>3, <1>4

\* Going into a directory loses nothing that is below it.
LEMMA WalkDeeper ==
    ASSUME Typed, Editable, NEW d \in Dirs, ToCome(d), Visiting("dir"),
           NEW c, c = ContentsOf(d)
    PROVE  /\ Path(Head(listed)) \in tree.unreadable => Barred(d) # {}
           /\ /\ Path(Head(listed)) \notin tree.unreadable /\ UNCHANGED disk
              /\ ToSet(listed') = ToSet(Listing(Path(Head(listed)))) \cup ToSet(Tail(listed))
              => /\ ToCome(d)'
                 /\ \A x \in Barred(d) : Under(x) => Under(x)'
                 /\ \A p \in DOMAIN c : Under(Path(p)) => Under(Path(p))'
<1>0. DiskTyped /\ InShape(Dirs, disk) /\ listed \in Seq(Places) /\ listed # <<>>
    BY DEF Typed, SkillTyped, Editable, Visiting
<1>1. PICK h \in Places : h = Head(listed) /\ At(h).kind = "dir" /\ Path(h) \in Dirs /\ h \in ToSet(listed)
    BY <1>0, HeadTyped DEF Visiting
<1>2. \A q \in ToSet(listed) : q = h \/ q \in ToSet(Tail(listed))
    BY <1>0, <1>1, Rest
<1>3. IsPrefix(d, Path(h))
    <2>1. /\ h.dir \in Seq(STRING) /\ h.name \in STRING /\ d \in Seq(STRING) /\ Path(h) \in Seq(STRING)
        BY <1>0, PlaceTyped, TreeTyped
    <2>2. IsPrefix(d, h.dir) /\ IsPrefix(h.dir, Path(h))
        BY <1>1, <2>1, Longer DEF ToCome, Path
    <2>. QED
        BY <2>1, <2>2, PrefixOrder
<1>4. Path(h) \in tree.unreadable => Barred(d) # {}
    BY <1>3 DEF Barred
<1>5. ASSUME Path(h) \notin tree.unreadable, UNCHANGED disk,
             ToSet(listed') = ToSet(Listing(Path(h))) \cup ToSet(Tail(listed))
      PROVE  /\ ToCome(d)'
             /\ \A x \in Barred(d) : Under(x) => Under(x)'
             /\ \A p \in DOMAIN c : Under(Path(p)) => Under(Path(p))'
    <2>1. ToCome(d)'
        <3>1. ASSUME NEW q \in ToSet(listed') PROVE IsPrefix(d, q.dir) /\ At(q).kind \in {"file", "dir"}
            <4>1. CASE q \in ToSet(Listing(Path(h)))
                BY <1>1, <1>3, <4>1, Listings
            <4>2. CASE q \in ToSet(Tail(listed))
                BY <1>0, <4>2, Members DEF ToCome
            <4>. QED
                BY <1>5, <4>1, <4>2
        <3>. QED
            BY <1>5, <3>1 DEF ToCome, At
    <2>2. ASSUME NEW x \in Barred(d), Under(x) PROVE Under(x)'
        <3>1. x \in Dirs /\ x # Path(h)
            BY <1>0, <1>5, Below
        <3>2. PICK q \in ToSet(listed) : IsPrefix(Path(q), x)
            BY <2>2 DEF Under
        <3>3. CASE q = h
            BY <1>0, <1>1, <1>5, <3>1, <3>2, <3>3, Deeper DEF Under
        <3>4. CASE q \in ToSet(Tail(listed))
            BY <1>5, <3>2, <3>4 DEF Under
        <3>. QED
            BY <1>2, <3>3, <3>4
    <2>3. ASSUME NEW p \in DOMAIN c, Under(Path(p)) PROVE Under(Path(p))'
        <3>1. p \in Places /\ At(p).kind = "file"
            BY <1>0, Below
        <3>2. PICK q \in ToSet(listed) : IsPrefix(Path(q), Path(p))
            BY <2>3 DEF Under
        <3>3. CASE q = h
            <4>1. Path(p) # Path(h)
                BY <1>0, <1>1, <3>1, SamePath
            <4>. QED
                BY <1>0, <1>1, <1>5, <3>1, <3>2, <3>3, <4>1, Deeper DEF Under
        <3>4. CASE q \in ToSet(Tail(listed))
            BY <1>5, <3>2, <3>4 DEF Under
        <3>. QED
            BY <1>2, <3>3, <3>4
    <2>. QED
        BY <2>1, <2>2, <2>3
<1>. QED
    BY <1>1, <1>4, <1>5

\* Going past a file loses nothing but the file.
LEMMA WalkPast ==
    ASSUME Typed, Editable, NEW d \in Dirs, ToCome(d), Visiting("file"),
           listed' = Tail(listed), UNCHANGED disk, NEW c, c = ContentsOf(d)
    PROVE  /\ ToCome(d)' /\ Head(listed) \in DOMAIN c
           /\ \A x \in Barred(d) : Under(x) => Under(x)'
           /\ \A p \in DOMAIN c : Under(Path(p)) => Under(Path(p))' \/ p = Head(listed)
<1>0. DiskTyped /\ InShape(Dirs, disk) /\ listed \in Seq(Places) /\ listed # <<>>
    BY DEF Typed, SkillTyped, Editable, Visiting
<1>1. PICK h \in Places : h = Head(listed) /\ At(h).kind = "file" /\ h \in ToSet(listed)
    BY <1>0, HeadTyped DEF Visiting
<1>2. /\ \A q \in ToSet(listed) : q = h \/ q \in ToSet(listed')
      /\ ToSet(listed') \in SUBSET ToSet(listed)
    BY <1>0, <1>1, Rest, Members
<1>3. ToCome(d)'
    BY <1>2 DEF ToCome, At
<1>4. h \in DOMAIN c
    BY <1>0, <1>1, Below DEF ToCome
<1>5. ASSUME NEW x \in Barred(d), Under(x) PROVE Under(x)'
    <2>1. x \in Dirs
        BY <1>0, Below
    <2>2. PICK q \in ToSet(listed) : IsPrefix(Path(q), x)
        BY <1>5 DEF Under
    <2>3. q # h
        BY <1>0, <1>1, <2>1, <2>2, Alone
    <2>. QED
        BY <1>2, <2>2, <2>3 DEF Under
<1>6. ASSUME NEW p \in DOMAIN c, Under(Path(p)), p # h PROVE Under(Path(p))'
    <2>1. p \in Places
        BY <1>0, Below
    <2>2. PICK q \in ToSet(listed) : IsPrefix(Path(q), Path(p))
        BY <1>6 DEF Under
    <2>3. q # h
        BY <1>0, <1>1, <1>6, <2>1, <2>2, Alone
    <2>. QED
        BY <1>2, <2>2, <2>3 DEF Under
<1>. QED
    BY <1>1, <1>3, <1>4, <1>5, <1>6

\* Each step on a skill adds to what is known of it.
LEMMA KnownStep ==
    ASSUME Typed, Where, Editable, Collected, Building,
           NEW d, d = Dir, NEW c, c = ContentsOf(d), NEW u, u = Barred(d),
           NEW m, m = Follow(d, SkillFile).is, Known(d, c, u, m)
    PROVE  Known(d, c, u, m)'
<1>0. /\ DiskTyped /\ InShape(Dirs, disk) /\ listed \in Seq(Places) /\ item \in Item
      /\ item.archive \in Seq(ArchiveEntry) /\ item.bundle \in BOOLEAN
      /\ DOMAIN files \subseteq Places /\ files \in [DOMAIN files -> Nat]
      /\ UNCHANGED <<tree, disk>>
    <2>1. UNCHANGED <<tree, disk>>
        BY DEF Building, ListFiles, CheckFile, ReadMarkdown, CollectFiles, SizeFile, EncodeFile,
            outside
    <2>. QED
        BY <2>1 DEF Typed, SkillTyped, Item, Editable
<1>1. d \in Dirs
    <2>1. next \in DOMAIN found
        BY DEF Building, ListFiles, CheckFile, ReadMarkdown, CollectFiles, SizeFile, EncodeFile,
            Where, Skill
    <2>. QED
        BY <2>1, DirTyped
<1>2. /\ DOMAIN c \subseteq Places /\ SizesOf(c) \in [DOMAIN c -> Nat] /\ DOMAIN SizesOf(c) = DOMAIN c
      /\ \A p \in DOMAIN c : /\ SizesOf(c)[p] = Size[c[p]] /\ c[p] = At(p).is
                             /\ At(p) # Absent /\ c[p] \in Contents
      /\ \A x \in u : Under(x) => listed # <<>>
    <2>1. \A x : Under(x) => listed # <<>>
        BY DEF Under, ToSet
    <2>. QED
        BY <1>0, <1>1, <2>1, Below
<1>3. /\ Sorted(DOMAIN c)' = Sorted(DOMAIN c)
      /\ TooLarge(SizesOf(c))' <=> TooLarge(SizesOf(c))
    BY <1>0 DEF Sorted, TooLarge, SizesOf
<1>4. CASE ListFiles
    <2>1. pc = "list" /\ UNCHANGED item /\ ~item.bundle /\ WalkInto(d, <<>>, "check")
        BY <1>4 DEF ListFiles, Known
    <2>2. CASE d \in tree.unreadable /\ pc' = "report"
        <3>1. u # {}
            BY <1>0, <1>1, <2>2, SelfPrefix DEF Barred
        <3>. QED
            BY <2>2, <3>1 DEF Known, Skill
    <2>3. CASE d \notin tree.unreadable /\ pc' = "check" /\ ToSet(listed') = ToSet(Listing(d)) \cup ToSet(<<>>)
        <3>1. ToSet(listed') = ToSet(Listing(d))
            BY <2>3 DEF ToSet
        <3>2. ToCome(d)' /\ (\A x \in u : Under(x)') /\ \A p \in DOMAIN c : Under(Path(p))'
            BY <1>0, <1>1, <2>3, <3>1, WalkBegun
        <3>. QED
            BY <2>1, <2>3, <3>2 DEF Known, Skill
    <2>4. <<>> \in Seq(Places)
        OBVIOUS
    <2>. QED
        BY <1>1, <2>1, <2>2, <2>3, <2>4, WalkedInto
<1>5. CASE CheckFile
    <2>1. /\ pc = "check" /\ ~item.bundle /\ ToCome(d)
          /\ \A p \in DOMAIN c : p = TopFile(d) \/ Under(Path(p))
          /\ \A x \in u : Under(x)
        BY <1>5 DEF CheckFile, Known
    <2>2. CASE listed = <<>>
        <3>1. pc' = "markdown" /\ UNCHANGED item
            BY <1>5, <2>2 DEF CheckFile, Visiting, Goto
        <3>2. \A y : ~Under(y)
            BY <2>2 DEF Under, ToSet
        <3>3. ~More(d, c) /\ u = {}
            BY <2>1, <3>2 DEF More
        <3>. QED
            BY <2>1, <3>1, <3>3 DEF Known, Skill
    <2>3. CASE Visiting("dir")
        <3>1. WalkInto(Path(Head(listed)), Tail(listed), "check") /\ UNCHANGED item
            BY <1>5, <2>3 DEF CheckFile, Visiting
        <3>2. Path(Head(listed)) \in Dirs /\ Tail(listed) \in Seq(Places)
            BY <2>3, HeadTyped DEF Visiting
        <3>3. CASE Path(Head(listed)) \in tree.unreadable /\ pc' = "report"
            <4>1. u # {}
                BY <1>1, <2>1, <2>3, <3>3, WalkDeeper
            <4>. QED
                BY <3>3, <4>1 DEF Known, Skill
        <3>4. CASE /\ Path(Head(listed)) \notin tree.unreadable /\ pc' = "check"
                   /\ ToSet(listed') = ToSet(Listing(Path(Head(listed)))) \cup ToSet(Tail(listed))
            <4>1. /\ ToCome(d)'
                  /\ \A x \in u : Under(x) => Under(x)'
                  /\ \A p \in DOMAIN c : Under(Path(p)) => Under(Path(p))'
                BY <1>0, <1>1, <2>1, <2>3, <3>4, WalkDeeper
            <4>. QED
                BY <2>1, <3>1, <3>4, <4>1 DEF Known, Skill
        <3>. QED
            BY <3>1, <3>2, <3>3, <3>4, WalkedInto
    <2>4. CASE Visiting("file") /\ Head(listed) = TopFile(d)
        <3>1. listed' = Tail(listed) /\ UNCHANGED <<pc, item>>
            BY <1>5, <2>4 DEF CheckFile, AfterSkillFile, Visiting
        <3>2. /\ ToCome(d)'
              /\ \A x \in u : Under(x) => Under(x)'
              /\ \A p \in DOMAIN c : Under(Path(p)) => Under(Path(p))' \/ p = Head(listed)
            BY <1>0, <1>1, <2>1, <2>4, <3>1, WalkPast
        <3>. QED
            BY <2>1, <2>4, <3>1, <3>2 DEF Known, Skill
    <2>5. CASE Visiting("file") /\ Head(listed) # TopFile(d)
        <3>1. pc' = "markdown" /\ item' = [item EXCEPT !.bundle = TRUE]
            BY <1>5, <2>5 DEF CheckFile, Visiting, Goto
        <3>2. Head(listed) \in DOMAIN c
            <4>1. Head(listed) \in ToSet(listed) /\ Head(listed) \in Places
                BY <2>5, HeadTyped DEF Visiting
            <4>2. IsPrefix(d, Head(listed).dir) /\ At(Head(listed)).kind = "file"
                BY <2>1, <2>5, <4>1 DEF ToCome, Visiting
            <4>. QED
                BY <1>0, <1>1, <4>1, <4>2, Below
        <3>3. More(d, c) /\ item'.bundle = TRUE
            BY <1>0, <2>5, <3>1, <3>2 DEF More, Item
        <3>. QED
            BY <2>1, <3>1, <3>3 DEF Known, Skill
    <2>6. listed # <<>> => Visiting("file") \/ Visiting("dir")
        BY <2>1, HeadTyped DEF ToCome, Visiting
    <2>. QED
        BY <2>2, <2>3, <2>4, <2>5, <2>6
<1>6. CASE ReadMarkdown
    <2>1. pc = "markdown" /\ (item.bundle <=> More(d, c)) /\ (~item.bundle => u = {})
        BY <1>6 DEF ReadMarkdown, Known, Skill
    <2>2. CASE m \notin Valid
        BY <1>6, <2>1, <2>2 DEF ReadMarkdown, Goto, Known, Skill
    <2>3. CASE m \in Valid
        <3>1. item' = [item EXCEPT !.markdown = m]
              /\ pc' = IF item.bundle THEN "collect" ELSE "send"
            BY <1>6, <2>3 DEF ReadMarkdown, Goto
        <3>2. item'.markdown = m /\ item'.bundle = item.bundle
            BY <1>0, <3>1 DEF Item
        <3>. QED
            BY <2>1, <2>3, <3>1, <3>2 DEF Known, Skill
    <2>. QED
        BY <2>2, <2>3
<1>7. CASE CollectFiles
    <2>1. /\ pc = "collect" /\ (item.bundle <=> More(d, c)) /\ item.markdown = m /\ m \in Valid
          /\ UNCHANGED <<item, files>> /\ DOMAIN files = {} /\ WalkInto(d, <<>>, "size")
        BY <1>7 DEF CollectFiles, Known, Skill, Collected
    <2>2. CASE d \in tree.unreadable /\ pc' = "report"
        <3>1. u # {}
            BY <1>0, <1>1, <2>2, SelfPrefix DEF Barred
        <3>. QED
            BY <2>2, <3>1 DEF Known, Skill
    <2>3. CASE d \notin tree.unreadable /\ pc' = "size" /\ ToSet(listed') = ToSet(Listing(d)) \cup ToSet(<<>>)
        <3>1. ToSet(listed') = ToSet(Listing(d))
            BY <2>3 DEF ToSet
        <3>2. ToCome(d)' /\ (\A x \in u : Under(x)') /\ \A p \in DOMAIN c : Under(Path(p))'
            BY <1>0, <1>1, <2>3, <3>1, WalkBegun
        <3>. QED
            BY <2>1, <2>3, <3>2 DEF Known, Skill
    <2>4. <<>> \in Seq(Places)
        OBVIOUS
    <2>. QED
        BY <1>1, <2>1, <2>2, <2>3, <2>4, WalkedInto
<1>8. CASE SizeFile
    <2>1. /\ pc = "size" /\ UNCHANGED item /\ item.bundle /\ More(d, c)
          /\ item.markdown = m /\ m \in Valid /\ item.archive = <<>>
          /\ ToCome(d) /\ DOMAIN files \subseteq DOMAIN c
          /\ \A p \in DOMAIN files : files[p] = Size[c[p]]
          /\ \A p \in DOMAIN c : p \in DOMAIN files \/ Under(Path(p))
          /\ \A x \in u : Under(x)
        BY <1>8 DEF SizeFile, Known, Skill, Collected
    <2>2. CASE listed = <<>>
        <3>1. \A y : ~Under(y)
            BY <2>2 DEF Under, ToSet
        <3>2. DOMAIN files = DOMAIN c /\ DOMAIN files # {} /\ u = {}
            BY <2>1, <3>1 DEF More
        <3>3. pc' = "encode" /\ UNCHANGED files
            BY <1>8, <2>2, <3>2 DEF SizeFile, Visiting, Goto
        <3>4. files = SizesOf(c)
            <4>1. files = [p \in DOMAIN files |-> files[p]]
                BY <1>0
            <4>2. \A p \in DOMAIN files : files[p] = Size[c[p]]
                BY <2>1
            <4>. QED
                BY <3>2, <4>1, <4>2 DEF SizesOf
        <3>5. SizesOf(c)' = SizesOf(c) /\ ArchivedAs(c)'
            BY <2>1 DEF ArchivedAs, SizesOf
        <3>. QED
            BY <2>1, <3>2, <3>3, <3>4, <3>5 DEF Known, Skill
    <2>3. CASE Visiting("dir")
        <3>1. WalkInto(Path(Head(listed)), Tail(listed), "size") /\ UNCHANGED files
            BY <1>8, <2>3 DEF SizeFile, Visiting
        <3>2. Path(Head(listed)) \in Dirs /\ Tail(listed) \in Seq(Places)
            BY <2>3, HeadTyped DEF Visiting
        <3>3. CASE Path(Head(listed)) \in tree.unreadable /\ pc' = "report"
            <4>1. u # {}
                BY <1>1, <2>1, <2>3, <3>3, WalkDeeper
            <4>. QED
                BY <3>3, <4>1 DEF Known, Skill
        <3>4. CASE /\ Path(Head(listed)) \notin tree.unreadable /\ pc' = "size"
                   /\ ToSet(listed') = ToSet(Listing(Path(Head(listed)))) \cup ToSet(Tail(listed))
            <4>1. /\ ToCome(d)'
                  /\ \A x \in u : Under(x) => Under(x)'
                  /\ \A p \in DOMAIN c : Under(Path(p)) => Under(Path(p))'
                BY <1>0, <1>1, <2>1, <2>3, <3>4, WalkDeeper
            <4>. QED
                BY <2>1, <3>1, <3>4, <4>1 DEF Known, Skill
        <3>. QED
            BY <3>1, <3>2, <3>3, <3>4, WalkedInto
    <2>4. CASE Visiting("file")
        <3>1. PICK h : h = Head(listed)
            OBVIOUS
        <3>2. PICK f : f = files'
            OBVIOUS
        <3>3. /\ f = [p \in DOMAIN files \cup {h} |-> IF p = h THEN Size[At(p).is] ELSE files[p]]
              /\ listed' = Tail(listed)
              /\ pc' = IF TooLarge(f) THEN "report" ELSE "size"
            BY <1>8, <2>4, <3>1, <3>2 DEF SizeFile, Visiting, Goto
        <3>4. /\ ToCome(d)' /\ h \in DOMAIN c
              /\ \A x \in u : Under(x) => Under(x)'
              /\ \A p \in DOMAIN c : Under(Path(p)) => Under(Path(p))' \/ p = h
            BY <1>0, <1>1, <2>1, <2>4, <3>1, <3>3, WalkPast
        <3>5. DOMAIN f = DOMAIN files \cup {h} /\ \A p \in DOMAIN f : p \in DOMAIN c /\ f[p] = Size[c[p]]
            BY <1>2, <2>1, <3>3, <3>4
        <3>6. CASE ~TooLarge(f)
            BY <2>1, <3>2, <3>3, <3>4, <3>5, <3>6 DEF Known, Skill
        <3>7. CASE TooLarge(f)
            <4>1. DOMAIN f \subseteq Places /\ f \in [DOMAIN f -> Nat]
                <5>1. f = [p \in DOMAIN f |-> f[p]]
                    BY <3>3
                <5>2. \A p \in DOMAIN f : p \in Places /\ f[p] \in Nat
                    BY <1>2, <3>5
                <5>. QED
                    BY <5>1, <5>2
            <4>2. PICK g : g = SizesOf(c)
                OBVIOUS
            <4>3. /\ g \in [DOMAIN g -> Nat] /\ DOMAIN g \subseteq Places
                  /\ DOMAIN f \subseteq DOMAIN g /\ \A p \in DOMAIN f : f[p] = g[p]
                BY <1>2, <3>5, <4>2
            <4>4. TooLarge(g)
                BY <1>0, <3>7, <4>1, <4>3, StillTooLarge
            <4>5. TooLarge(SizesOf(c))
                BY <4>2, <4>4
            <4>. QED
                BY <1>3, <2>1, <3>3, <3>7, <4>5 DEF Known, Skill
        <3>. QED
            BY <3>6, <3>7
    <2>5. listed # <<>> => Visiting("file") \/ Visiting("dir")
        BY <2>1, HeadTyped DEF ToCome, Visiting
    <2>. QED
        BY <2>2, <2>3, <2>4, <2>5
<1>9. CASE EncodeFile
    <2>1. /\ pc = "encode" /\ More(d, c) /\ item.bundle /\ u = {}
          /\ item.markdown = m /\ m \in Valid /\ UNCHANGED files
          /\ files = SizesOf(c) /\ ArchivedAs(c) /\ ~TooLarge(files)
          /\ Len(item.archive) <= Len(Sorted(DOMAIN files))
        BY <1>9 DEF EncodeFile, Known, Skill, Collected
    <2>2. PICK s : s = Sorted(DOMAIN files) /\ s = Sorted(DOMAIN c)
        BY <1>2, <2>1
    <2>3. Len(s) \in Nat /\ Len(item.archive) \in Nat /\ \A i \in 1..Len(s) : s[i] \in DOMAIN c
        BY <1>0, <2>2, SortedPlaces
    <2>4. SizesOf(c)' = SizesOf(c)
        BY DEF SizesOf
    <2>5. CASE Len(item.archive) = Len(s)
        <3>1. pc' = "send" /\ UNCHANGED item
            BY <1>9, <2>2, <2>5 DEF EncodeFile, Goto
        <3>2. ArchivedAs(c)'
            BY <1>3, <2>1, <3>1 DEF ArchivedAs
        <3>. QED
            BY <1>3, <2>1, <2>2, <2>5, <3>1, <3>2 DEF Known, Skill
    <2>6. CASE Len(item.archive) # Len(s)
        <3>1. PICK k \in 1..Len(s) : k = Len(item.archive) + 1
            BY <2>1, <2>2, <2>3, <2>6
        <3>2. PICK p \in DOMAIN c : p = s[k]
            BY <2>3
        <3>3. At(p) # Absent /\ ~SizeMismatch(p, At(p).is) /\ c[p] = At(p).is
            BY <1>2, <2>1 DEF SizeMismatch
        <3>4. /\ item' = [item EXCEPT !.archive = Append(item.archive, [place |-> p, is |-> c[p]])]
              /\ UNCHANGED pc
            BY <1>9, <2>2, <2>6, <3>1, <3>2, <3>3 DEF EncodeFile
        <3>5. /\ item'.archive = Append(item.archive, [place |-> p, is |-> c[p]])
              /\ item'.markdown = item.markdown /\ item'.bundle = item.bundle
            BY <1>0, <3>4 DEF Item
        <3>6. \A i \in DOMAIN item'.archive :
                \/ i \in DOMAIN item.archive /\ item'.archive[i] = item.archive[i]
                \/ i = k /\ item'.archive[i] = [place |-> p, is |-> c[p]]
            BY <1>0, <2>3, <3>1, <3>5
        <3>7. \A i \in DOMAIN item.archive : item.archive[i] = [place |-> s[i], is |-> c[s[i]]]
            BY <2>1, <2>2 DEF ArchivedAs
        <3>8. \A i \in DOMAIN item'.archive : item'.archive[i] = [place |-> s[i], is |-> c[s[i]]]
            BY <3>2, <3>6, <3>7
        <3>9. ArchivedAs(c)'
            BY <1>3, <2>2, <3>8 DEF ArchivedAs
        <3>. QED
            BY <2>1, <2>4, <3>4, <3>5, <3>9 DEF Known, Skill
    <2>. QED
        BY <2>5, <2>6
<1>. QED
    BY <1>4, <1>5, <1>6, <1>7, <1>8, <1>9 DEF Building

\* What is known of a skill stays so while nothing below it is edited.
LEMMA KnownKept ==
    ASSUME UNCHANGED <<tree, pc, item, listed, files>>,
           NEW d, NEW c, NEW u, NEW m, Known(d, c, u, m),
           \A p \in ToSet(listed) : IsPrefix(d, p.dir) => At(p)' = At(p)
    PROVE  Known(d, c, u, m)'
<1>1. ToCome(d) => ToCome(d)'
    BY DEF ToCome
<1>2. /\ \A y : Under(y)' <=> Under(y)
      /\ ArchivedAs(c)' <=> ArchivedAs(c)
      /\ TooLarge(SizesOf(c))' <=> TooLarge(SizesOf(c))
      /\ SizesOf(c)' = SizesOf(c) /\ Sorted(DOMAIN c)' = Sorted(DOMAIN c)
    BY DEF Under, ArchivedAs, TooLarge, Sorted, SizesOf
<1>. QED
    BY <1>1, <1>2 DEF Known, Skill

\* What a skill yields depends only on what is at the places below it.
LEMMA SameBelow ==
    ASSUME DiskTyped, NEW d \in Dirs, UNCHANGED tree,
           \A p \in Places : IsPrefix(d, p.dir) => At(p)' = At(p),
           \A n \in ToSet(Names) : disk'[d][n] = disk[d][n]
    PROVE  /\ ContentsOf(d)' = ContentsOf(d) /\ Barred(d)' = Barred(d)
           /\ Follow(d, SkillFile)' = Follow(d, SkillFile)
<1>1. ToSet(tree.order) = Places /\ ToSet(tree.order)' = Places
    <2>1. ToSet(tree.order) = Places
        BY TreeTyped
    <2>. QED
        BY <2>1
<1>2. FilesOf(d)' = FilesOf(d)
    BY <1>1 DEF FilesOf
<1>3. \A p \in FilesOf(d) : At(p)' = At(p)
    BY <1>1 DEF FilesOf
<1>4. ContentsOf(d)' = ContentsOf(d)
    BY <1>2, <1>3 DEF ContentsOf
<1>5. Barred(d)' = Barred(d)
    BY DEF Barred
<1>6. Follow(d, SkillFile)' = Follow(d, SkillFile)
    <2>1. SkillFile \in ToSet(Names)
        BY Parameters
    <2>2. disk[d][SkillFile].kind = "in" => disk[d][SkillFile].is \in ToSet(Names)
        BY <2>1, EntryKinds DEF DiskTyped
    <2>. QED
        BY <2>1, <2>2 DEF Follow
<1>. QED
    BY <1>4, <1>5, <1>6

LEMMA QuietStep ==
    ASSUME Typed, Where, Editable, Collected, Quiet, [Next]_vars
    PROVE  Quiet'
<1>0. SUFFICES ASSUME quiet', next' \in DOMAIN found'
               PROVE  Known(Dir, ContentsOf(Dir), Barred(Dir), Follow(Dir, SkillFile).is)'
    BY DEF Quiet
<1>1. tree' = tree /\ found \in Seq(Dirs) /\ found' \in Seq(Dirs') /\ next \in Nat
    <2>1. found \in Seq(Dirs) /\ next \in Nat
        BY DEF Typed, WalkTyped
    <2>2. WalkTyped'
        BY WalkTypedStep DEF Typed
    <2>. QED
        BY <2>1, <2>2, Frames DEF WalkTyped
<1>2. ASSUME NEW k \in Nat, NEW n, Turn(k, n), UNCHANGED found
      PROVE  Known(Dir, ContentsOf(Dir), Barred(Dir), Follow(Dir, SkillFile).is)'
    <2>1. /\ next' = k /\ item' = [NoItem EXCEPT !.skill = IF k \in DOMAIN found THEN k ELSE 0]
          /\ pc' = IF k \in DOMAIN found THEN "list" ELSE IF n = 0 THEN "report" ELSE "closed"
        BY <1>2, Turned
    <2>2. pc' = "list"
        BY <1>0, <1>2, <2>1
    <2>3. item' = [NoItem EXCEPT !.skill = k]
        BY <1>0, <1>2, <2>1
    <2>4. ~item'.bundle
        BY <2>3, FreshItem
    <2>. QED
        BY <2>2, <2>4 DEF Known, Skill
<1>3. CASE Open \/ StatSkillFile \/ CheckWithin
    <2>1. next' = 0
        BY <1>3 DEF Open, StatSkillFile, CheckWithin, Where
    <2>. QED
        BY <1>0, <1>1, <2>1
<1>4. CASE EndWalk
    <2>1. UNCHANGED found /\ (found = <<>> \/ Turn(1, 0))
        BY <1>4 DEF EndWalk, walkVars
    <2>. QED
        BY <1>0, <1>1, <1>2, <2>1
<1>5. CASE SendItem
    BY <1>1, <1>2, <1>5 DEF SendItem, walkVars
<1>6. CASE Report \/ DropReport
    <2>1. AfterReport /\ UNCHANGED found
        BY <1>6 DEF Report, DropReport, walkVars
    <2>2. CASE next \in DOMAIN found
        BY <1>1, <1>2, <2>1, <2>2 DEF AfterReport
    <2>3. CASE next \notin DOMAIN found
        BY <1>0, <2>1, <2>3 DEF AfterReport
    <2>. QED
        BY <2>2, <2>3
<1> DEFINE D == Dir
           C == ContentsOf(Dir)
           U == Barred(Dir)
           M == Follow(Dir, SkillFile).is
<1>7. ASSUME UNCHANGED <<found, next>>, quiet PROVE Known(D, C, U, M) /\ D \in Dirs /\ Dir' = D
    <2>1. next \in DOMAIN found
        BY <1>0, <1>7
    <2>. QED
        BY <1>7, <2>1, DirTyped DEF Quiet, Typed, Dir
<1>8. CASE Building
    <2>1. UNCHANGED <<disk, found, next, quiet, tree>>
        BY <1>8 DEF Building, ListFiles, CheckFile, ReadMarkdown, CollectFiles, SizeFile,
            EncodeFile, walkVars, outside
    <2>2. Known(D, C, U, M) /\ D = Dir
        BY <1>0, <1>7, <2>1
    <2>3. PICK d, c, u, m : d = D /\ c = C /\ u = U /\ m = M
        OBVIOUS
    <2>4. Known(d, c, u, m)
        BY <2>2, <2>3
    <2>5. Known(d, c, u, m)'
        BY <1>8, <2>3, <2>4, KnownStep
    <2>6. d = Dir' /\ c = ContentsOf(Dir)' /\ u = Barred(Dir)' /\ m = Follow(Dir, SkillFile)'.is
        BY <2>1, <2>3 DEF Dir, ContentsOf, FilesOf, Barred, Follow, At
    <2>. QED
        BY <2>5, <2>6
<1>9. CASE SendCancelled
    <2>1. pc' = "closed"
        BY <1>9 DEF SendCancelled, Goto
    <2>. QED
        BY <2>1 DEF Known, Skill
<1>10. CASE ~Fetching
    <2>1. UNCHANGED <<tree, found, next, pc, item, listed, files>> /\ (UNCHANGED <<quiet, disk>> \/ Edit)
        BY <1>10 DEF Next, Edit, ReadItem, ReadErr, StopReading, Cancel, Stopped, vars, walkVars,
            skillVars
    <2>2. quiet
        BY <1>0, <2>1 DEF Edit
    <2>3. PICK d, c, u, m : d = D /\ c = C /\ u = U /\ m = M
        OBVIOUS
    <2>4. Known(d, c, u, m) /\ d \in Dirs /\ Dir' = d
        BY <1>7, <2>1, <2>2, <2>3
    <2>5. DiskTyped /\ listed \in Seq(Places) /\ disk \in [Dirs -> [ToSet(Names) -> Entries]]
        BY DEF Typed, SkillTyped, DiskTyped
    <2>6. \A x \in Dirs : IsPrefix(d, x) => \A n \in ToSet(Names) : disk'[x][n] = disk[x][n]
        <3>1. CASE Edit
            <4>1. PICK y \in DOMAIN disk : /\ quiet' = (quiet /\ ~(next \in DOMAIN found /\ IsPrefix(Dir, y)))
                                           /\ \E n, e : disk' = [disk EXCEPT ![y][n] = e]
                BY <3>1 DEF Edit
            <4>2. ~IsPrefix(d, y)
                BY <1>0, <2>1, <2>3, <4>1
            <4>3. PICK n, e : disk' = [disk EXCEPT ![y][n] = e]
                BY <4>1
            <4>4. \A x \in Dirs : x # y => disk'[x] = disk[x]
                BY <2>5, <4>3
            <4>. QED
                BY <4>2, <4>4
        <3>. QED
            BY <2>1, <3>1
    <2>7. \A p \in Places : IsPrefix(d, p.dir) => At(p)' = At(p)
        BY <2>5, <2>6, PlaceTyped DEF At
    <2>8. \A p \in ToSet(listed) : IsPrefix(d, p.dir) => At(p)' = At(p)
        BY <2>5, <2>7, Members
    <2>9. Known(d, c, u, m)'
        BY <2>1, <2>4, <2>8, KnownKept
    <2>10. \A n \in ToSet(Names) : disk'[d][n] = disk[d][n]
        BY <2>4, <2>5, <2>6, SelfPrefix
    <2>11. ContentsOf(d)' = c /\ Barred(d)' = u /\ Follow(d, SkillFile)'.is = m
        <3>1. /\ ContentsOf(d)' = ContentsOf(d) /\ Barred(d)' = Barred(d)
              /\ Follow(d, SkillFile)' = Follow(d, SkillFile)
            BY <1>1, <2>4, <2>5, <2>7, <2>10, SameBelow
        <3>. QED
            BY <2>3, <3>1
    <2>. QED
        BY <2>4, <2>9, <2>11
<1>. QED
    BY <1>3, <1>4, <1>5, <1>6, <1>8, <1>9, <1>10 DEF Fetching, Discovering, Sending

\* What is known of a skill that is sent, or reported, is what it yields.
LEMMA QuietExact ==
    ASSUME Typed, Where, Collected, Quiet
    PROVE  QuietIsExact
<1>0. SUFFICES ASSUME quiet, next \in DOMAIN found
               PROVE  /\ pc = "send" => ~Fails(Dir) /\ Yields(Dir, item)
                      /\ pc = "report" => Fails(Dir)
    BY DEF QuietIsExact, Where, Skill
<1>1. PICK d, c, u, m : d = Dir /\ c = ContentsOf(d) /\ u = Barred(d) /\ m = Follow(d, SkillFile).is
    OBVIOUS
<1>2. Known(d, c, u, m)
    BY <1>0, <1>1 DEF Quiet
<1>3. DiskTyped /\ d \in Dirs /\ item.archive \in Seq(ArchiveEntry) /\ item.bundle \in BOOLEAN
    BY <1>0, <1>1, DirTyped DEF Typed, SkillTyped, Item
<1>4. FilesOf(d) = DOMAIN c /\ \A p \in DOMAIN c : c[p] = At(p).is
    BY <1>1 DEF ContentsOf
<1>5. [p \in FilesOf(d) |-> Size[At(p).is]] = SizesOf(c)
    BY <1>4 DEF SizesOf
<1>6. Fails(d) <=> u # {} \/ m \notin Valid \/ (More(d, c) /\ TooLarge(SizesOf(c)))
    BY <1>1, <1>4, <1>5 DEF Fails, Barred, More
<1>7. ASSUME pc = "send" PROVE Yields(d, item)
    <2>1. /\ item.bundle <=> More(d, c)
          /\ item.markdown = m
          /\ item.bundle => ArchivedAs(c) /\ Len(item.archive) = Len(Sorted(DOMAIN c))
        BY <1>2, <1>7 DEF Known, Skill
    <2>2. item.bundle <=> item.archive # <<>>
        BY <1>7 DEF Collected, Bounded
    <2>3. PICK s : s = IF item.bundle THEN Sorted(DOMAIN c) ELSE <<>>
        OBVIOUS
    <2>4. item.archive = [k \in DOMAIN s |-> [place |-> s[k], is |-> At(s[k]).is]]
        <3>1. CASE item.bundle
            <4>1. s = Sorted(DOMAIN c) /\ Len(s) \in Nat /\ DOMAIN s = 1..Len(s)
                  /\ \A k \in 1..Len(s) : s[k] \in DOMAIN c
                BY <1>3, <2>3, <3>1, SortedPlaces
            <4>2. DOMAIN item.archive = DOMAIN s
                <5>1. DOMAIN item.archive = 1..Len(item.archive)
                    BY <1>3
                <5>. QED
                    BY <2>1, <3>1, <4>1, <5>1
            <4>3. \A k \in DOMAIN s : item.archive[k] = [place |-> s[k], is |-> At(s[k]).is]
                BY <1>4, <2>1, <3>1, <4>1, <4>2 DEF ArchivedAs
            <4>4. item.archive = [k \in DOMAIN item.archive |-> item.archive[k]]
                BY <1>3
            <4>. QED
                BY <4>2, <4>3, <4>4, Zenon
        <3>2. CASE ~item.bundle
            <4>1. s = <<>> /\ item.archive = <<>>
                BY <2>2, <2>3, <3>2
            <4>. QED
                BY <4>1
        <3>. QED
            BY <3>1, <3>2
    <2>. QED
        BY <1>1, <1>3, <1>4, <2>1, <2>3, <2>4 DEF Yields, More
<1>8. pc = "send" => ~Fails(d)
    BY <1>2, <1>6 DEF Known, Skill
<1>9. pc = "report" => Fails(d)
    BY <1>2, <1>6 DEF Known
<1>. QED
    BY <1>1, <1>7, <1>8, <1>9

----------------------------------------------------------------------------
(* The theorems.                                                           *)

Inv ==
    /\ Typed /\ Where /\ Editable /\ Collected
    /\ Apart /\ Settled /\ Counted /\ Quiet

LEMMA InitInv ==
    ASSUME Init
    PROVE  Inv
<1>1. /\ tree \in Trees /\ disk = tree.disk /\ toVisit = tree.dirs
      /\ tree.dirs \in Seq(Seq(STRING)) /\ InWalkOrder(tree.dirs)
      /\ disk \in [Dirs -> [ToSet(Names) -> Entries]]
    BY Parameters DEF Init, Dirs
<1>2. toVisit \in Seq(Dirs)
    BY <1>1, Members DEF Dirs
<1>3. NoItem \in Item /\ NoItem.skill = 0 /\ NoItem.archive = <<>>
    BY DEF NoItem, Item
<1>4. Typed
    <2>1. DiskTyped
        <3>1. 0 \in 0..MaxEdits
            <4>1. MaxEdits \in Nat
                BY Parameters
            <4>. QED
                BY <4>1
        <3>. QED
            BY <1>1, <3>1 DEF Init, DiskTyped
    <2>2. WalkTyped
        BY <1>2 DEF Init, WalkTyped
    <2>3. SkillTyped
        <3>1. listed = <<>> /\ files = <<>> /\ DOMAIN files = {} /\ quiet = TRUE
            BY DEF Init
        <3>2. listed \in Seq(Places)
            BY <3>1
        <3>3. files \in [DOMAIN files -> Nat] /\ DOMAIN files \subseteq Places
            BY <3>1
        <3>4. item \in Item
            BY <1>3 DEF Init
        <3>. QED
            BY <3>1, <3>2, <3>3, <3>4 DEF SkillTyped
    <2>4. ChannelsTyped
        <3>1. ItemBuf \in Nat /\ ErrBuf \in Nat
            BY Parameters
        <3>2. 0 <= ItemBuf /\ 0 <= ErrBuf
            BY <3>1
        <3>3. 0 - 0 <= ItemBuf /\ 0 - 0 <= ErrBuf /\ 0 \in 0..0
            BY <3>2
        <3>4. /\ sent = <<>> /\ errs = <<>> /\ sentRead = 0 /\ errsRead = 0
              /\ Len(sent) = 0 /\ Len(errs) = 0 /\ sent \in Seq(Item) /\ errs \in Seq(Nat)
            BY DEF Init
        <3>5. {reading, cancelled} \subseteq BOOLEAN
            BY DEF Init
        <3>. QED
            BY <3>3, <3>4, <3>5 DEF ChannelsTyped
    <2>. QED
        BY <2>1, <2>2, <2>3, <2>4 DEF Typed
<1>5. Where
    BY <1>3 DEF Init, Where, Skill
<1>6. Editable
    <2>1. InShape(Dirs, disk)
        BY <1>1, Parameters DEF Dirs
    <2>2. listed = <<>> /\ files = <<>>
        BY DEF Init
    <2>3. ToSet(listed) = {} /\ DOMAIN files = {}
        BY <2>2 DEF ToSet
    <2>. QED
        BY <2>1, <2>3 DEF Editable
<1>7. Collected
    <2>1. files = <<>> /\ item = NoItem /\ sent = <<>> /\ pc = "open"
        BY DEF Init
    <2>2. DOMAIN files = {} /\ DOMAIN sent = {}
        BY <2>1
    <2>. QED
        BY <1>3, <2>1, <2>2 DEF Collected
<1>8. Apart
    BY <1>1 DEF Init, Apart
<1>9. Settled
    BY <1>1 DEF Init, Settled, Dirs, ToSet
<1>10. Counted
    BY DEF Init, Counted
<1>11. Quiet
    BY DEF Init, Quiet
<1>. QED
    BY <1>4, <1>5, <1>6, <1>7, <1>8, <1>9, <1>10, <1>11 DEF Inv

LEMMA InvStep ==
    ASSUME Inv, [Next]_vars
    PROVE  Inv'
<1>1. Typed'
    BY DiskTypedStep, WalkTypedStep, SkillTypedStep, ChannelsTypedStep DEF Inv, Typed
<1>. QED
    BY <1>1, WhereStep, EditableStep, CollectedStep, ApartStep, SettledStep, CountedStep, QuietStep DEF Inv

\* The inductive invariant.
THEOREM InvHolds == Spec => []Inv
BY InitInv, InvStep, PTL DEF Spec

\* TypeOK, a consequence of the types above: the channels never hold more than
\* their capacity, and an item is of a skill that was found.
THEOREM AlwaysTyped == Spec => []TypeOK
<1>1. ASSUME Inv PROVE TypeOK
    <2>1. DiskTyped /\ WalkTyped /\ SkillTyped /\ ChannelsTyped /\ Where
        BY <1>1 DEF Inv, Typed
    <2>2. tree \in Trees /\ disk \in [ToSet(tree.dirs) -> [ToSet(Names) -> Entries]] /\ edits \in 0..MaxEdits
        BY <2>1 DEF DiskTyped, Dirs
    <2>3. next \in 0..(Len(found) + 1) /\ item.skill \in 0..Len(found)
        <3>1. found \in Seq(Dirs) /\ next \in 0..(Len(found) + 1)
            BY <2>1 DEF WalkTyped
        <3>2. item.skill = IF next \in DOMAIN found THEN next ELSE 0
            BY <2>1 DEF Where
        <3>. QED
            BY <3>1, <3>2
    <2>4. ToSet(found) \cup ToSet(toVisit) \subseteq ToSet(tree.dirs)
        <3>1. ToSet(found) \in SUBSET Dirs /\ ToSet(toVisit) \in SUBSET Dirs
            BY <2>1, Members DEF WalkTyped
        <3>. QED
            BY <3>1 DEF Dirs
    <2>5. ToSet(listed) \cup DOMAIN files \subseteq ToSet(tree.order) /\ quiet \in BOOLEAN
        <3>1. ToSet(listed) \in SUBSET Places /\ DOMAIN files \subseteq Places /\ quiet \in BOOLEAN
            BY <2>1, Members DEF SkillTyped
        <3>2. ToSet(tree.order) = Places
            BY <2>1, TreeTyped
        <3>. QED
            BY <3>1, <3>2
    <2>. QED
        BY <2>1, <2>2, <2>3, <2>4, <2>5 DEF TypeOK, ChannelsTyped
<1>. QED
    BY <1>1, InvHolds, PTL

\* Of a tree that nobody edits the walk finds the topmost skill directories, and
\* of any tree none that is part of another: findSkillDirs and its SkipDir.
THEOREM WalkIsExact == Spec => []DiscoverExact
<1>1. Inv => DiscoverExact
    BY ExactlyTopmost DEF Inv
<1>. QED
    BY <1>1, InvHolds, PTL

\* No archive exceeds maxArchiveFiles or maxArchiveUncompressedLen, however the
\* files change between collectArchiveFiles and encodeSkillArchive.
THEOREM LimitsKept == Spec => []BundleWithinLimits
<1>1. Inv => BundleWithinLimits
    BY DEF Inv, Collected, Bounded, BundleWithinLimits
<1>. QED
    BY <1>1, InvHolds, PTL

\* Of a skill below whose directory nobody edits meanwhile what isSkillBundle,
\* the parser, collectArchiveFiles and encodeSkillArchive make is what the files
\* of the whole subtree are, and it is reported only when it is to fail.
THEOREM UneditedIsExact == Spec => []QuietIsExact
<1>1. Inv => QuietIsExact
    BY QuietExact DEF Inv
<1>. QED
    BY <1>1, InvHolds, PTL

\* Each skill that was found ends as one item or one error, unless the fetch was
\* cancelled: Fetch goes on after a skill that fails.
THEOREM EachReportedOnce == Spec => []AllSkillsReported
<1>1. Inv => AllSkillsReported
    BY OneReport DEF Inv
<1>. QED
    BY <1>1, InvHolds, PTL

----------------------------------------------------------------------------
(* Waiting for room, or for a file.                                        *)

\* The guards of Fetching and those of the readers, put together: what TLC
\* finds ENABLED on the run's instance.
CanFetch ==
    \/ pc \in {"open", "stat", "list", "markdown", "collect", "encode"}
    \/ /\ pc \in {"check", "size"}
       /\ listed = <<>> \/ At(Head(listed)).kind \in {"none", "file", "dir"}
    \/ pc = "within" /\ Follow(Head(toVisit), SkillFile).kind \in {"none", "out", "file"}
    \/ pc = "send" /\ (RoomForItem \/ cancelled)
    \/ /\ pc = "report"
       /\ Len(errs) - errsRead < ErrBuf \/ (cancelled /\ Len(errs) - errsRead = ErrBuf)

CanRead == reading /\ (sentRead < Len(sent) \/ errsRead < Len(errs))

NeverStuck == CanFetch \/ CanRead \/ pc = "closed" \/ (~reading /\ ~cancelled)

\* A link leads to something, and the SKILL.md that was found by Stat is no
\* directory when isPathWithinRoot resolves it again, whatever was edited.
Resolved ==
    /\ \A d \in Dirs, n \in ToSet(Names) :
        disk[d][n].kind = "in" => disk[d][disk[d][n].is].kind # "in"
    /\ pc = "within" => Follow(Head(toVisit), SkillFile).kind # "dir"

LEMMA ResolvedStep ==
    ASSUME Inv, Resolved, [Next]_vars
    PROVE  Resolved'
<1>0. DiskTyped /\ Typed /\ Where /\ Dirs' = Dirs
    BY Frames DEF Inv, Typed, Dirs
<1>1. ASSUME NEW d \in Dirs, NEW n \in ToSet(Names), disk'[d][n].kind = "in"
      PROVE  disk'[d][disk'[d][n].is].kind # "in"
    <2>1. disk'[d][n] = disk[d][n] /\ disk[d][n].kind = "in"
        BY <1>0, <1>1, EditedKinds
    <2>2. disk[d][n].is \in ToSet(Names)
        <3>1. disk[d][n] \in Entries
            BY <1>0 DEF DiskTyped
        <3>. QED
            BY <2>1, <3>1, EntryKinds
    <2>3. disk[d][disk[d][n].is].kind # "in"
        BY <2>1 DEF Resolved
    <2>. QED
        BY <1>0, <2>1, <2>2, <2>3, EditedKinds
<1>2. ASSUME NEW d \in Dirs, Follow(d, SkillFile).kind # "dir"
      PROVE  Follow(d, SkillFile)'.kind # "dir"
    <2>1. SkillFile \in ToSet(Names)
        BY Parameters
    <2>2. disk[d][SkillFile].kind = "in" => disk[d][SkillFile].is \in ToSet(Names)
        <3>1. disk[d][SkillFile] \in Entries
            BY <1>0, <2>1 DEF DiskTyped
        <3>. QED
            BY <3>1, EntryKinds
    <2>3. disk'[d][SkillFile].kind = "in" <=> disk[d][SkillFile].kind = "in"
        BY <1>0, <2>1, EditedKinds
    <2>4. disk[d][SkillFile].kind = "in" =>
            /\ disk'[d][SkillFile] = disk[d][SkillFile]
            /\ disk'[d][disk[d][SkillFile].is].kind = "dir" =>
                    disk[d][disk[d][SkillFile].is].kind = "dir"
        BY <1>0, <2>1, <2>2, EditedKinds
    <2>5. disk'[d][SkillFile].kind = "dir" => disk[d][SkillFile].kind = "dir"
        BY <1>0, <2>1, EditedKinds
    <2>. QED
        BY <1>2, <2>3, <2>4, <2>5 DEF Follow
<1>3. ASSUME pc' = "within"
      PROVE  Follow(Head(toVisit), SkillFile)'.kind # "dir"
    <2>1. CASE pc = "within" /\ UNCHANGED toVisit
        <3>1. toVisit # <<>> /\ toVisit \in Seq(Dirs)
            BY <1>0, <2>1 DEF Where, Typed, WalkTyped
        <3>2. Head(toVisit) \in Dirs /\ Head(toVisit)' = Head(toVisit)
            BY <2>1, <3>1
        <3>. QED
            BY <1>2, <2>1, <3>2 DEF Resolved
    <2>2. CASE StatSkillFile
        <3>1. /\ Follow(Head(toVisit), SkillFile).kind # "dir"
              /\ UNCHANGED <<toVisit, disk>>
            BY <1>3, <2>2 DEF StatSkillFile, WalkFails, Descend, Goto, walkVars, outside
        <3>. QED
            BY <3>1 DEF Follow
    <2>3. CASE ~StatSkillFile /\ ~(pc = "within" /\ UNCHANGED toVisit)
        BY <1>0, <1>3, <2>3 DEF Next, Fetching, Discovering, Building, Sending, Open,
            CheckWithin, EndWalk, ListFiles, CheckFile, ReadMarkdown, CollectFiles, SizeFile,
            EncodeFile, SendItem, SendCancelled, Report, DropReport, AfterReport, Turn, Edit,
            ReadItem, ReadErr, StopReading, Cancel, Stopped, vars, walkVars, Goto, WalkFails,
            Descend, AfterLast, WalkInto
    <2>. QED
        BY <2>1, <2>2, <2>3
<1>. QED
    BY <1>0, <1>1, <1>3 DEF Resolved

LEMMA Reachable ==
    ASSUME Inv, Resolved, reading \/ cancelled
    PROVE  CanFetch \/ CanRead \/ pc = "closed"
<1>1. /\ ItemBuf \in Nat \ {0} /\ ErrBuf \in Nat \ {0}
      /\ Len(sent) \in Nat /\ Len(errs) \in Nat
      /\ sentRead \in 0..Len(sent) /\ errsRead \in 0..Len(errs)
      /\ Len(errs) - errsRead <= ErrBuf
    <2>1. ItemBuf \in Nat \ {0} /\ ErrBuf \in Nat \ {0}
        BY Parameters
    <2>2. ChannelsTyped
        BY DEF Inv, Typed
    <2>3. Len(sent) \in Nat /\ Len(errs) \in Nat
        BY <2>2 DEF ChannelsTyped
    <2>. QED
        BY <2>1, <2>2, <2>3 DEF ChannelsTyped
<1>2. pc \in {"open", "stat", "within", "report", "closed"} \cup Skill
    BY DEF Inv, Where
<1>3. CASE pc = "within"
    <2>1. Head(toVisit) \in Dirs
        BY <1>3 DEF Inv, Where, Typed, WalkTyped
    <2>2. SkillFile \in ToSet(Names)
        BY Parameters
    <2>3. disk[Head(toVisit)][SkillFile] \in Entries
        BY <2>1, <2>2 DEF Inv, Typed, DiskTyped
    <2>4. disk[Head(toVisit)][SkillFile].kind = "in" =>
            disk[Head(toVisit)][disk[Head(toVisit)][SkillFile].is] \in Entries
        BY <2>1, <2>3, EntryKinds DEF Inv, Typed, DiskTyped
    <2>5. \A e \in Entries : e.kind \in {"none", "dir", "out", "file", "in"}
        BY DEF Entries
    <2>6. Follow(Head(toVisit), SkillFile).kind \in {"none", "out", "file"}
        BY <1>3, <2>1, <2>2, <2>3, <2>4, <2>5 DEF Follow, Resolved
    <2>. QED
        BY <1>3, <2>6 DEF CanFetch
<1>4. CASE pc = "send"
    BY <1>1, <1>4 DEF CanFetch, CanRead, RoomForItem
<1>5. CASE pc = "report"
    BY <1>1, <1>5 DEF CanFetch, CanRead
<1>6. CASE pc \in {"check", "size"}
    <2>1. listed # <<>> => Head(listed) \in ToSet(listed)
        BY HeadTyped DEF Inv, Typed, SkillTyped
    <2>. QED
        BY <1>6, <2>1 DEF CanFetch, Inv, Editable
<1>. QED
    BY <1>2, <1>3, <1>4, <1>5, <1>6 DEF CanFetch, Skill

\* The goroutine waits for room only where there is something to be read, on
\* either channel, and after a cancellation not even then; and whatever an
\* editor does below a directory between two readings, each has an outcome.
THEOREM NobodyStuck == Spec => []NeverStuck
<1>1. Init => Resolved
    <2> SUFFICES ASSUME Init PROVE Resolved
        OBVIOUS
    <2>1. tree \in Trees /\ disk = tree.disk /\ pc = "open"
        BY DEF Init
    <2>. QED
        BY <2>1, SkillAssumption DEF Resolved, Dirs
<1>2. Inv /\ Inv' /\ Resolved /\ [Next]_vars => Resolved'
    BY ResolvedStep
<1>3. Inv => {reading, cancelled} \subseteq BOOLEAN
    BY DEF Inv, Typed, ChannelsTyped
<1>4. Inv /\ Resolved => NeverStuck
    BY <1>3, Reachable DEF NeverStuck
<1>. QED
    BY <1>1, <1>2, <1>4, InvHolds, PTL DEF Spec
=============================================================================
