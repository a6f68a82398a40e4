-------------------------- MODULE FileFetcherProofs --------------------------
(***************************************************************************)
(* Proofs about FileFetcher, for any files, any capacities of the two      *)
(* channels and any cancellation.  The first section says what a plan may  *)
(* hold; the others follow the sends of the plans to the channels.         *)
(***************************************************************************)
EXTENDS FileFetcher, SelectionProofs

----------------------------------------------------------------------------
(* Plans.                                                                  *)

SendSet == [ch : {"item", "err"}, input : Nat, elem : Nat, lossy : BOOLEAN]

\* What Indexes returns: the elements of a kind, in order.
LEMMA Indexed ==
    ASSUME NEW f \in Input, NEW S
    PROVE  /\ Indexes(f, S) \in Seq(DOMAIN f.elems)
           /\ \A i \in DOMAIN Indexes(f, S) : f.elems[Indexes(f, S)[i]] \in S
           /\ \A i, j \in DOMAIN Indexes(f, S) :
                i < j => Indexes(f, S)[i] < Indexes(f, S)[j]
           /\ \A j \in DOMAIN f.elems :
                f.elems[j] \in S => \E i \in DOMAIN Indexes(f, S) : Indexes(f, S)[i] = j
<1> DEFINE D == DOMAIN f.elems
           s == [j \in D |-> j]
           K == {j \in D : f.elems[j] \in S}
<1>1. D = 1..Len(f.elems) /\ Len(f.elems) \in Nat
    BY DEF Input
<1>2. s \in Seq(D) /\ Len(s) = Len(f.elems) /\ \A j \in D : s[j] = j
    BY <1>1
<1>3. PICK t : t = Indexes(f, S)
    OBVIOUS
<1>4. t = Select(s, K)
    BY <1>3 DEF Indexes
<1> HIDE DEF s, K
<1>5. t \in Seq(D) /\ IsSelection(t, s, Len(s), K)
    BY <1>2, <1>4, Selected
<1>6. PICK g \in [1..Len(t) -> 1..Len(s)] :
            /\ \A i \in 1..Len(t) : t[i] = s[g[i]] /\ s[g[i]] \in K
            /\ \A i, j \in 1..Len(t) : i < j => g[i] < g[j]
            /\ \A m \in 1..Len(s) : s[m] \in K => \E i \in 1..Len(t) : g[i] = m
    BY <1>5 DEF IsSelection
<1>7. \A i \in 1..Len(t) : t[i] = g[i] /\ t[i] \in K
    BY <1>1, <1>2, <1>6
<1>8. DOMAIN t = 1..Len(t)
    BY <1>5
<1>9. \A i \in 1..Len(t) : f.elems[t[i]] \in S
    BY <1>7 DEF K
<1>10. \A i, j \in 1..Len(t) : i < j => t[i] < t[j]
    BY <1>6, <1>7
<1>11. ASSUME NEW j \in D, f.elems[j] \in S PROVE \E i \in 1..Len(t) : t[i] = j
    <2>1. s[j] \in K /\ j \in 1..Len(s)
        BY <1>1, <1>2, <1>11 DEF K
    <2>. QED
        BY <1>6, <1>7, <2>1
<1>. QED
    BY <1>3, <1>5, <1>8, <1>9, <1>10, <1>11

\* What a plan holds: items of good elements, in order, and errors about
\* others.
WellPlanned(p, k, f) ==
    /\ p \in Seq(SendSet) /\ p # <<>>
    /\ \A n \in 1..Len(p) :
        /\ p[n].input = k
        /\ p[n].ch = "item" => p[n].elem \in DOMAIN f.elems /\ f.elems[p[n].elem] = "ok"
        /\ p[n].ch = "err" => \/ p[n].elem = 0
                              \/ /\ p[n].elem \in DOMAIN f.elems
                                 /\ f.elems[p[n].elem] # "ok"
    /\ \A m, n \in 1..Len(p) :
        m < n /\ p[m].ch = "item" /\ p[n].ch = "item" => p[m].elem < p[n].elem

\* It reports the input as a whole or turns to all elements that are due.
Covers(p, due) ==
    \/ \E n \in 1..Len(p) : p[n].ch = "err" /\ p[n].elem = 0
    \/ due # {} /\ \A j \in due : \E n \in 1..Len(p) : p[n].elem = j

LEMMA WholePlanned ==
    ASSUME NEW k \in Nat, NEW f, NEW due
    PROVE  WellPlanned(WholeInput(k), k, f) /\ Covers(WholeInput(k), due)
<1>1. PICK e : e = Send("err", k, 0, TRUE)
    OBVIOUS
<1>2. e \in SendSet /\ e.input = k /\ e.ch = "err" /\ e.elem = 0
    BY <1>1 DEF Send, SendSet
<1>3. WholeInput(k) = <<e>>
    BY <1>1 DEF WholeInput
<1>. QED
    BY <1>2, <1>3 DEF WellPlanned, Covers

\* Sends about the elements of a kind.
SentOf(p, t, f, ch, k, S) ==
    /\ p \in Seq(SendSet) /\ Len(p) = Len(t)
    /\ \A n \in 1..Len(p) :
        /\ p[n].input = k /\ p[n].ch = ch /\ p[n].elem = t[n]
        /\ p[n].elem \in DOMAIN f.elems /\ f.elems[p[n].elem] \in S

LEMMA SendsOf ==
    ASSUME NEW f \in Input, NEW k \in Nat, NEW ch \in {"item", "err"},
           NEW lossy \in BOOLEAN, NEW S
    PROVE  SentOf(Sends(Indexes(f, S), ch, k, lossy), Indexes(f, S), f, ch, k, S)
<1>1. PICK t : t = Indexes(f, S)
    OBVIOUS
<1>2. /\ t \in Seq(DOMAIN f.elems) /\ DOMAIN f.elems \subseteq Nat
      /\ \A i \in DOMAIN t : f.elems[t[i]] \in S
    BY <1>1, Indexed DEF Input
<1>3. PICK p : p = [n \in DOMAIN t |-> Send(ch, k, t[n], lossy)]
    OBVIOUS
<1>4. DOMAIN t = 1..Len(t) /\ Len(t) \in Nat /\ \A n \in 1..Len(t) : t[n] \in Nat
    BY <1>2
<1>5. \A n \in 1..Len(t) :
        /\ p[n] \in SendSet /\ p[n].input = k /\ p[n].ch = ch /\ p[n].elem = t[n]
    BY <1>3, <1>4 DEF Send, SendSet
<1>6. p \in [1..Len(t) -> SendSet]
    BY <1>3, <1>4, <1>5
<1>7. p \in Seq(SendSet) /\ Len(p) = Len(t)
    BY <1>4, <1>6
<1>8. p = Sends(Indexes(f, S), ch, k, lossy)
    BY <1>1, <1>3 DEF Sends
<1>9. \A n \in 1..Len(p) : p[n].elem \in DOMAIN f.elems /\ f.elems[p[n].elem] \in S
    BY <1>2, <1>4, <1>5, <1>7
<1> HIDE DEF Input
<1>. QED
    BY <1>1, <1>5, <1>7, <1>8, <1>9 DEF SentOf

\* The elements of an array of servers.
LEMMA MCPPlanned ==
    ASSUME NEW f \in Input, NEW k \in Nat, NEW due,
           due = {j \in DOMAIN f.elems : f.elems[j] # "nameless"}
    PROVE  WellPlanned(MCPPlan(k, f), k, f) /\ Covers(MCPPlan(k, f), due)
<1>1. CASE Indexes(f, {"garbled"}) # <<>> \/ Indexes(f, {"ok"}) = <<>>
    BY <1>1, WholePlanned DEF MCPPlan
<1>2. CASE Indexes(f, {"garbled"}) = <<>> /\ Indexes(f, {"ok"}) # <<>>
    <2>1. PICK p : p = Sends(Indexes(f, {"ok"}), "item", k, FALSE)
        OBVIOUS
    <2>2. MCPPlan(k, f) = p
        BY <1>2, <2>1 DEF MCPPlan
    <2>3. PICK t : t = Indexes(f, {"ok"})
        OBVIOUS
    <2>4. /\ p \in Seq(SendSet) /\ Len(p) = Len(t)
          /\ \A n \in 1..Len(p) :
                /\ p[n].input = k /\ p[n].ch = "item" /\ p[n].elem = t[n]
                /\ p[n].elem \in DOMAIN f.elems /\ f.elems[p[n].elem] \in {"ok"}
        <3>1. "item" \in {"item", "err"} /\ FALSE \in BOOLEAN
            OBVIOUS
        <3>2. SentOf(p, t, f, "item", k, {"ok"})
            BY <2>1, <2>3, <3>1, SendsOf, Zenon
        <3>. QED
            BY <3>2 DEF SentOf
    <2>5. /\ t \in Seq(DOMAIN f.elems) /\ t # <<>>
          /\ \A i, j \in DOMAIN t : i < j => t[i] < t[j]
          /\ \A j \in DOMAIN f.elems : f.elems[j] = "ok" => \E i \in DOMAIN t : t[i] = j
        BY <1>2, <2>3, Indexed
    <2>6. DOMAIN t = 1..Len(p) /\ Len(p) \in Nat \ {0}
        BY <2>4, <2>5
    <2>7. WellPlanned(p, k, f)
        BY <2>4, <2>5, <2>6 DEF WellPlanned
    <2>8. ASSUME NEW j \in DOMAIN f.elems, f.elems[j] # "nameless"
          PROVE  f.elems[j] = "ok"
        <3>1. f.elems[j] \in {"ok", "nameless", "garbled"}
            BY DEF Input
        <3>2. f.elems[j] # "garbled"
            <4>1. \A i \in DOMAIN f.elems : f.elems[i] # "garbled"
                BY <1>2, Indexed
            <4>. QED
                BY <4>1
        <3>. QED
            BY <2>8, <3>1, <3>2
    <2>9. ASSUME NEW j \in due PROVE \E n \in 1..Len(p) : p[n].elem = j
        BY <2>4, <2>5, <2>6, <2>8
    <2>10. due # {}
        BY <2>4, <2>6
    <2>. QED
        BY <2>2, <2>7, <2>9, <2>10 DEF Covers
<1>. QED
    BY <1>1, <1>2

\* The objects of a file, or the error that there are none.
Objects(k, f) ==
    LET objects == Indexes(f, {"ok", "nameless"})
    IN  IF objects = <<>> THEN WholeInput(k)
        ELSE [n \in DOMAIN objects |->
                IF f.elems[objects[n]] = "ok"
                THEN Send("item", k, objects[n], FALSE)
                ELSE Send("err", k, objects[n], FALSE)]

LEMMA ObjectsPlanned ==
    ASSUME NEW f \in Input, NEW k \in Nat
    PROVE  /\ WellPlanned(Objects(k, f), k, f)
           /\ Covers(Objects(k, f), {j \in DOMAIN f.elems : f.elems[j] # "garbled"})
<1> DEFINE due == {j \in DOMAIN f.elems : f.elems[j] # "garbled"}
<1>1. PICK t : t = Indexes(f, {"ok", "nameless"})
    OBVIOUS
<1>2. PICK p : p = Objects(k, f)
    OBVIOUS
<1>3. /\ t \in Seq(DOMAIN f.elems) /\ DOMAIN f.elems \subseteq Nat
      /\ \A i \in DOMAIN t : f.elems[t[i]] \in {"ok", "nameless"}
      /\ \A i, j \in DOMAIN t : i < j => t[i] < t[j]
      /\ \A j \in DOMAIN f.elems :
            f.elems[j] \in {"ok", "nameless"} => \E i \in DOMAIN t : t[i] = j
    BY <1>1, Indexed DEF Input
<1>4. CASE t = <<>>
    BY <1>1, <1>2, <1>4, WholePlanned DEF Objects
<1>5. CASE t # <<>>
    <2>1. p = [n \in DOMAIN t |-> IF f.elems[t[n]] = "ok" THEN Send("item", k, t[n], FALSE)
                                                          ELSE Send("err", k, t[n], FALSE)]
        BY <1>1, <1>2, <1>5 DEF Objects
    <2>2. DOMAIN t = 1..Len(t) /\ Len(t) \in Nat \ {0} /\ \A n \in 1..Len(t) : t[n] \in Nat
        BY <1>3, <1>5
    <2>3. \A n \in 1..Len(t) :
            /\ p[n] \in SendSet /\ p[n].input = k /\ p[n].elem = t[n]
            /\ p[n].ch = IF f.elems[t[n]] = "ok" THEN "item" ELSE "err"
        BY <2>1, <2>2 DEF Send, SendSet
    <2>4. p \in [1..Len(t) -> SendSet]
        BY <2>1, <2>2, <2>3
    <2>5. p \in Seq(SendSet) /\ Len(p) = Len(t)
        BY <2>2, <2>4
    <2>6. WellPlanned(p, k, f)
        <3>1. \A n \in 1..Len(p) :
                /\ p[n].input = k
                /\ p[n].ch = "item" => p[n].elem \in DOMAIN f.elems /\ f.elems[p[n].elem] = "ok"
                /\ p[n].ch = "err" => p[n].elem \in DOMAIN f.elems /\ f.elems[p[n].elem] # "ok"
            BY <1>3, <2>2, <2>3, <2>5
        <3>2. \A m, n \in 1..Len(p) : m < n => p[m].elem < p[n].elem
            <4>1. \A m \in 1..Len(p) : m \in DOMAIN t /\ p[m].elem = t[m]
                BY <2>2, <2>3, <2>5
            <4>. QED
                BY <1>3, <4>1
        <3>. QED
            BY <2>2, <2>5, <3>1, <3>2 DEF WellPlanned
    <2>7. ASSUME NEW j \in due PROVE \E n \in 1..Len(p) : p[n].elem = j
        <3>1. f.elems[j] \in {"ok", "nameless"}
            BY DEF Input
        <3>2. PICK n \in DOMAIN t : t[n] = j
            BY <1>3, <3>1
        <3>. QED
            BY <2>2, <2>3, <2>5, <3>2
    <2>8. due # {}
        BY <1>3, <2>2
    <2>. QED
        BY <1>2, <2>6, <2>7, <2>8 DEF Covers
<1>. QED
    BY <1>4, <1>5

LEMMA StructPlanned ==
    ASSUME NEW f \in Input, NEW k \in Nat
    PROVE  /\ WellPlanned(StructPlan(k, f), k, f)
           /\ Covers(StructPlan(k, f), DOMAIN f.elems)
<1>1. PICK g : g = Sends(Indexes(f, {"garbled"}), "err", k, TRUE)
    OBVIOUS
<1>0. SentOf(g, Indexes(f, {"garbled"}), f, "err", k, {"garbled"})
    <2>1. "err" \in {"item", "err"} /\ TRUE \in BOOLEAN
        OBVIOUS
    <2>. QED
        BY <1>1, <2>1, SendsOf, Zenon
<1>2. PICK o : o = Objects(k, f)
    OBVIOUS
<1>3. StructPlan(k, f) = g \o o
    BY <1>1, <1>2 DEF StructPlan, Objects
<1>4. PICK p : p = g \o o
    OBVIOUS
<1>5. /\ g \in Seq(SendSet)
      /\ \A n \in 1..Len(g) :
            /\ g[n].input = k /\ g[n].ch = "err"
            /\ g[n].elem \in DOMAIN f.elems /\ f.elems[g[n].elem] \in {"garbled"}
    BY <1>0 DEF SentOf
<1>6. \A j \in DOMAIN f.elems :
        f.elems[j] = "garbled" => \E n \in 1..Len(g) : g[n].elem = j
    <2>1. PICK t : t = Indexes(f, {"garbled"})
        OBVIOUS
    <2>2. Len(g) = Len(t) /\ \A n \in 1..Len(g) : g[n].elem = t[n]
        BY <1>0, <2>1 DEF SentOf
    <2>3. /\ t \in Seq(DOMAIN f.elems)
          /\ \A j \in DOMAIN f.elems : f.elems[j] = "garbled" => \E n \in DOMAIN t : t[n] = j
        BY <2>1, Indexed
    <2>. QED
        BY <2>2, <2>3
<1>7. WellPlanned(o, k, f) /\ o \in Seq(SendSet) /\ o # <<>>
    <2>1. WellPlanned(o, k, f)
        BY <1>2, ObjectsPlanned
    <2>. QED
        BY <2>1 DEF WellPlanned
<1>8. /\ p \in Seq(SendSet) /\ Len(p) = Len(g) + Len(o)
      /\ Len(g) \in Nat /\ Len(o) \in Nat \ {0}
      /\ \A n \in 1..Len(p) : p[n] = IF n <= Len(g) THEN g[n] ELSE o[n - Len(g)]
    BY <1>4, <1>5, <1>7, ConcatProperties
<1>9. /\ \A n \in 1..Len(p) : n <= Len(g) => n \in 1..Len(g) /\ p[n] = g[n]
      /\ \A n \in 1..Len(p) :
            n > Len(g) => n - Len(g) \in 1..Len(o) /\ p[n] = o[n - Len(g)]
      /\ \A n \in 1..Len(g) : n \in 1..Len(p) /\ p[n] = g[n]
      /\ \A n \in 1..Len(o) : n + Len(g) \in 1..Len(p) /\ p[n + Len(g)] = o[n]
    BY <1>8
<1>10. p # <<>>
    BY <1>8
<1>11. WellPlanned(p, k, f)
    <2>1. ASSUME NEW n \in 1..Len(p)
          PROVE  /\ p[n].input = k
                 /\ p[n].ch = "item" => p[n].elem \in DOMAIN f.elems /\ f.elems[p[n].elem] = "ok"
                 /\ p[n].ch = "err" => \/ p[n].elem = 0
                                       \/ /\ p[n].elem \in DOMAIN f.elems
                                          /\ f.elems[p[n].elem] # "ok"
        <3>1. CASE n <= Len(g)
            BY <1>5, <1>9, <3>1
        <3>2. CASE n > Len(g)
            BY <1>7, <1>9, <3>2 DEF WellPlanned
        <3>. QED
            BY <1>8, <3>1, <3>2
    <2>2. ASSUME NEW m \in 1..Len(p), NEW n \in 1..Len(p), m < n,
                 p[m].ch = "item", p[n].ch = "item"
          PROVE  p[m].elem < p[n].elem
        <3>1. m > Len(g) /\ n > Len(g)
            BY <1>5, <1>8, <1>9, <2>2
        <3>2. /\ p[m] = o[m - Len(g)] /\ p[n] = o[n - Len(g)]
              /\ m - Len(g) \in 1..Len(o) /\ n - Len(g) \in 1..Len(o)
              /\ m - Len(g) < n - Len(g)
            BY <1>8, <1>9, <2>2, <3>1
        <3>. QED
            BY <1>7, <2>2, <3>2 DEF WellPlanned
    <2>. QED
        BY <1>8, <1>10, <2>1, <2>2 DEF WellPlanned
<1>12. Covers(p, DOMAIN f.elems)
    <2> DEFINE due == {j \in DOMAIN f.elems : f.elems[j] # "garbled"}
    <2>1. Covers(o, due)
        BY <1>2, ObjectsPlanned
    <2>2. CASE \E n \in 1..Len(o) : o[n].ch = "err" /\ o[n].elem = 0
        BY <1>9, <2>2 DEF Covers
    <2>3. CASE due # {} /\ \A j \in due : \E n \in 1..Len(o) : o[n].elem = j
        <3>1. ASSUME NEW j \in DOMAIN f.elems PROVE \E n \in 1..Len(p) : p[n].elem = j
            <4>1. CASE f.elems[j] = "garbled"
                BY <1>6, <1>9, <4>1
            <4>2. CASE f.elems[j] # "garbled"
                <5>1. PICK n \in 1..Len(o) : o[n].elem = j
                    BY <2>3, <4>2
                <5>. QED
                    BY <1>9, <5>1
            <4>. QED
                BY <4>1, <4>2
        <3>. QED
            BY <2>3, <3>1 DEF Covers
    <2>. QED
        BY <2>1, <2>2, <2>3 DEF Covers
<1>. QED
    BY <1>3, <1>4, <1>11, <1>12

\* The plan of an input of a source.
LEMMA Planning ==
    ASSUME NEW s \in Sources, NEW k \in DOMAIN s.inputs
    PROVE  /\ WellPlanned(Plan(s, k), k, s.inputs[k])
           /\ Covers(Plan(s, k), Due(s, k))
<1>1. s.kind \in {"struct", "mcp"} /\ s.inputs \in Seq(Input)
    BY FilesAssumption
<1>2. PICK f \in Input : f = s.inputs[k]
    BY <1>1
<1>3. k \in Nat
    BY <1>1
<1>4. CASE ~f.readable \/ ~f.parses
    BY <1>2, <1>3, <1>4, WholePlanned DEF Plan
<1>5. CASE f.readable /\ f.parses /\ s.kind = "struct"
    <2>1. Plan(s, k) = StructPlan(k, f)
        BY <1>2, <1>5 DEF Plan
    <2>2. Due(s, k) = DOMAIN f.elems
        BY <1>2, <1>5 DEF Due
    <2>. QED
        BY <1>2, <1>3, <2>1, <2>2, StructPlanned
<1>6. CASE f.readable /\ f.parses /\ s.kind = "mcp"
    <2>1. Plan(s, k) = MCPPlan(k, f)
        BY <1>2, <1>6 DEF Plan
    <2>2. Due(s, k) = {j \in DOMAIN f.elems : f.elems[j] # "nameless"}
        BY <1>2, <1>6 DEF Due
    <2>. QED
        BY <1>2, <1>3, <2>1, <2>2, MCPPlanned
<1>. QED
    BY <1>1, <1>4, <1>5, <1>6

----------------------------------------------------------------------------
(* The invariant.                                                          *)

Typed ==
    /\ TypeOK
    /\ plan \in Seq(SendSet)
    /\ items \in Seq(SendSet) /\ gotItems \in Seq(SendSet)
    /\ errs \in Seq(SendSet) /\ gotErrs \in Seq(SendSet)

\* How many sends of the input have been performed, or given up.
Performed == Len(Plan(source, input)) - Len(plan)

\* What is left is the end of what the input was to yield.
Planned ==
    /\ pc = "send" =>
        /\ input <= Len(Inputs) /\ Len(plan) <= Len(Plan(source, input))
        /\ \A i \in 1..Len(plan) : plan[i] = Plan(source, input)[Performed + i]
    /\ pc \in {"open", "read"} => plan = <<>>
    /\ pc = "open" => ~opened /\ input = 1 /\ SentItems = <<>> /\ SentErrs = <<>>

\* A send that the goroutine has behind it.
Behind(s) ==
    \/ s.input < input
    \/ /\ s.input = input /\ pc \in {"send", "closed"}
       /\ \E i \in 1..Performed : s = Plan(source, input)[i]

\* What was sent is of the inputs, and is behind.
FromPlans ==
    /\ \A s \in ToSet(SentItems) :
        /\ s.ch = "item" /\ s.input \in DOMAIN Inputs
        /\ s \in ToSet(Plan(source, s.input)) /\ Behind(s)
    /\ \A s \in ToSet(SentErrs) :
        /\ s.ch = "err"
        /\ s.input # 0 => s.input \in DOMAIN Inputs /\ s \in ToSet(Plan(source, s.input))

\* What is behind was sent, unless the context was done.
NoneDropped ==
    opened /\ ~cancelled =>
        /\ \A k \in DOMAIN Inputs : \A s \in ToSet(Plan(source, k)) :
            Behind(s) => s \in ToSet(SentItems) \cup ToSet(SentErrs)
        /\ pc = "closed" => input = Len(Inputs) + 1

\* The inductive invariant.
Inv == Typed /\ Planned /\ FromPlans /\ NoneDropped /\ SentInOrder

----------------------------------------------------------------------------
(* Types.                                                                  *)

LEMMA Places ==
    ASSUME Typed
    PROVE  /\ source \in Sources /\ Inputs \in Seq(Input)
           /\ Len(Inputs) \in Nat /\ DOMAIN Inputs = 1..Len(Inputs)
           /\ input \in 1..(Len(Inputs) + 1) /\ input \in Nat \ {0}
           /\ ItemBuf \in Nat \ {0} /\ ErrBuf \in Nat \ {0}
<1>1. source \in Sources /\ input \in 1..(Len(Inputs) + 1)
    BY DEF Typed, TypeOK
<1>2. Inputs \in Seq(Input)
    BY <1>1, FilesAssumption DEF Inputs
<1>3. Len(Inputs) \in Nat /\ DOMAIN Inputs = 1..Len(Inputs)
    BY <1>2
<1>. QED
    BY <1>1, <1>2, <1>3, FilesAssumption

\* The plan of the input being read.
LEMMA PlanHere ==
    ASSUME Typed, input <= Len(Inputs)
    PROVE  /\ input \in DOMAIN Inputs
           /\ WellPlanned(Plan(source, input), input, Inputs[input])
           /\ Plan(source, input) \in Seq(SendSet) /\ Plan(source, input) # <<>>
<1>1. input \in DOMAIN Inputs /\ source \in Sources
    BY Places
<1>2. WellPlanned(Plan(source, input), input, Inputs[input])
    BY <1>1, Planning DEF Inputs
<1>. QED
    BY <1>1, <1>2 DEF WellPlanned

LEMMA TypedStep ==
    ASSUME Typed, Planned, [Next]_vars
    PROVE  Typed'
<1> USE DEF readers
<1>1. CASE Open
    <2>1. PICK e : e = Send("err", 0, 0, TRUE)
        OBVIOUS
    <2>2. e \in SendSet
        BY <2>1 DEF Send, SendSet
    <2>3. errs = <<>>
        <3>1. SentErrs = <<>> /\ gotErrs \in Seq(SendSet) /\ errs \in Seq(SendSet)
            BY <1>1 DEF Open, Planned, Typed
        <3>. QED
            BY <3>1 DEF SentErrs
    <2>4. errs' = errs \/ errs' = Append(errs, e)
        BY <1>1, <2>1 DEF Open
    <2>5. errs' \in Seq(SendSet) /\ Len(errs') <= ErrBuf
        <3>1. Append(<<>>, e) \in Seq(SendSet) /\ Len(Append(<<>>, e)) = 1 /\ Len(<<>>) = 0
            BY <2>2
        <3>2. errs' = <<>> \/ errs' = Append(<<>>, e)
            BY <2>3, <2>4
        <3>3. <<>> \in Seq(SendSet)
            OBVIOUS
        <3>4. 0 <= ErrBuf /\ 1 <= ErrBuf
            BY Places
        <3>5. CASE errs' = <<>>
            BY <3>1, <3>3, <3>4, <3>5, Zenon
        <3>6. CASE errs' = Append(<<>>, e)
            BY <3>1, <3>4, <3>6, Zenon
        <3>. QED
            BY <3>2, <3>5, <3>6
    <2>. QED
        BY <1>1, <2>5 DEF Open, Typed, TypeOK, Inputs
<1>2. CASE ReadInput
    <2>1. plan' \in Seq(SendSet)
        <3>1. CASE input > Len(Inputs)
            BY <1>2, <3>1 DEF ReadInput, Typed
        <3>2. CASE ~(input > Len(Inputs))
            <4>1. input <= Len(Inputs)
                BY <3>2, Places
            <4>. QED
                BY <1>2, <3>2, <4>1, PlanHere DEF ReadInput
        <3>. QED
            BY <3>1, <3>2
    <2>. QED
        BY <1>2, <2>1 DEF ReadInput, Typed, TypeOK, Inputs
<1>3. CASE SendNext
    <2>1. Head(plan) \in SendSet /\ Tail(plan) \in Seq(SendSet)
        BY <1>3 DEF SendNext, Typed
    <2>2. /\ items' \in Seq(SendSet) /\ Len(items') <= ItemBuf
          /\ errs' \in Seq(SendSet) /\ Len(errs') <= ErrBuf
        <3>1. CASE /\ Len(items) < ItemBuf /\ items' = Append(items, Head(plan))
                   /\ UNCHANGED errs
            <4>1. items \in Seq(SendSet) /\ Len(items) \in Nat
                BY DEF Typed
            <4>2. items' \in Seq(SendSet) /\ Len(items') = Len(items) + 1
                BY <2>1, <3>1, <4>1
            <4>. QED
                BY <3>1, <4>1, <4>2, Places DEF Typed, TypeOK
        <3>2. CASE /\ Len(errs) < ErrBuf /\ errs' = Append(errs, Head(plan))
                   /\ UNCHANGED items
            <4>1. errs \in Seq(SendSet) /\ Len(errs) \in Nat
                BY DEF Typed
            <4>2. errs' \in Seq(SendSet) /\ Len(errs') = Len(errs) + 1
                BY <2>1, <3>2, <4>1
            <4>. QED
                BY <3>2, <4>1, <4>2, Places DEF Typed, TypeOK
        <3>. QED
            BY <1>3, <3>1, <3>2 DEF SendNext
    <2>. QED
        BY <1>3, <2>1, <2>2 DEF SendNext, Typed, TypeOK, Inputs
<1>4. CASE SendCancelled
    <2>1. plan' \in Seq(SendSet)
        <3>1. plan \in Seq(SendSet) /\ plan # <<>> /\ plan' \in {plan, Tail(plan)}
            BY <1>4 DEF SendCancelled, Typed
        <3>. QED
            BY <3>1
    <2>. QED
        BY <1>4, <2>1 DEF SendCancelled, Typed, TypeOK, Inputs
<1>5. CASE NextInput
    <2>1. input' \in 1..(Len(Inputs) + 1)
        <3>1. input <= Len(Inputs)
            BY <1>5 DEF NextInput, Planned
        <3>. QED
            BY <1>5, <3>1, Places DEF NextInput
    <2>. QED
        BY <1>5, <2>1 DEF NextInput, Typed, TypeOK, Inputs
<1>6. CASE ReadItem
    <2>1. /\ Head(items) \in SendSet /\ Tail(items) \in Seq(SendSet)
          /\ Len(Tail(items)) = Len(items) - 1 /\ Len(items) \in Nat
        BY <1>6 DEF ReadItem, Typed
    <2>2. gotItems' \in Seq(SendSet) /\ Len(items') <= ItemBuf
        BY <1>6, <2>1, Places DEF ReadItem, Typed, TypeOK
    <2>. QED
        BY <1>6, <2>1, <2>2 DEF ReadItem, Typed, TypeOK, Inputs
<1>7. CASE ReadErr
    <2>1. /\ Head(errs) \in SendSet /\ Tail(errs) \in Seq(SendSet)
          /\ Len(Tail(errs)) = Len(errs) - 1 /\ Len(errs) \in Nat
        BY <1>7 DEF ReadErr, Typed
    <2>2. gotErrs' \in Seq(SendSet) /\ Len(errs') <= ErrBuf
        BY <1>7, <2>1, Places DEF ReadErr, Typed, TypeOK
    <2>. QED
        BY <1>7, <2>1, <2>2 DEF ReadErr, Typed, TypeOK, Inputs
<1>8. CASE StopReading \/ Cancel
    BY <1>8 DEF StopReading, Cancel, Typed, TypeOK, Inputs
<1>9. CASE UNCHANGED vars
    BY <1>9 DEF vars, Typed, TypeOK, Inputs
<1>. QED
    BY <1>1, <1>2, <1>3, <1>4, <1>5, <1>6, <1>7, <1>8, <1>9
       DEF Next, Fetching, Stopped

----------------------------------------------------------------------------
(* The sends left, and those performed.                                    *)

\* While an input is sent.
LEMMA Sending ==
    ASSUME Typed, Planned, pc = "send"
    PROVE  /\ input \in DOMAIN Inputs /\ plan \in Seq(SendSet)
           /\ WellPlanned(Plan(source, input), input, Inputs[input])
           /\ Plan(source, input) \in Seq(SendSet)
           /\ Len(plan) \in Nat /\ Len(Plan(source, input)) \in Nat /\ Performed \in Nat
           /\ Performed + Len(plan) = Len(Plan(source, input))
           /\ \A i \in 1..Len(plan) : plan[i] = Plan(source, input)[Performed + i]
<1>1. /\ input <= Len(Inputs) /\ Len(plan) <= Len(Plan(source, input))
      /\ \A i \in 1..Len(plan) : plan[i] = Plan(source, input)[Performed + i]
    BY DEF Planned
<1>2. plan \in Seq(SendSet) /\ Len(plan) \in Nat
    BY DEF Typed
<1>3. /\ input \in DOMAIN Inputs
      /\ WellPlanned(Plan(source, input), input, Inputs[input])
      /\ Plan(source, input) \in Seq(SendSet) /\ Len(Plan(source, input)) \in Nat
    BY <1>1, PlanHere
<1>4. Performed \in Nat /\ Performed + Len(plan) = Len(Plan(source, input))
    BY <1>1, <1>2, <1>3 DEF Performed
<1>. QED
    BY <1>1, <1>2, <1>3, <1>4

\* The next send.
LEMMA SendingNext ==
    ASSUME Typed, Planned, pc = "send", plan # <<>>
    PROVE  /\ Performed + 1 \in 1..Len(Plan(source, input))
           /\ Head(plan) = Plan(source, input)[Performed + 1]
           /\ Head(plan) \in ToSet(Plan(source, input)) /\ Head(plan) \in SendSet
           /\ Head(plan).input = input
           /\ Tail(plan) \in Seq(SendSet) /\ Len(Tail(plan)) = Len(plan) - 1
           /\ \A i \in 1..Len(Tail(plan)) :
                Tail(plan)[i] = Plan(source, input)[(Performed + 1) + i]
<1>1. PICK p : p = Plan(source, input)
    OBVIOUS
<1>2. PICK d \in Nat : d = Performed
    BY Sending
<1>3. /\ plan \in Seq(SendSet) /\ p \in Seq(SendSet) /\ Len(plan) \in Nat /\ Len(p) \in Nat
      /\ d + Len(plan) = Len(p)
      /\ \A i \in 1..Len(plan) : plan[i] = p[d + i]
      /\ WellPlanned(p, input, Inputs[input])
    BY <1>1, <1>2, Sending
<1>4. /\ Head(plan) = plan[1] /\ 1 \in 1..Len(plan)
      /\ Tail(plan) \in Seq(SendSet) /\ Len(Tail(plan)) = Len(plan) - 1
      /\ \A i \in 1..Len(Tail(plan)) : i + 1 \in 1..Len(plan) /\ Tail(plan)[i] = plan[i + 1]
    BY <1>3
<1>5. d + 1 \in 1..Len(p) /\ Head(plan) = p[d + 1]
    BY <1>3, <1>4
<1>6. \A i \in 1..Len(Tail(plan)) : Tail(plan)[i] = p[(d + 1) + i]
    <2>1. \A i \in 1..Len(Tail(plan)) : Tail(plan)[i] = p[d + (i + 1)]
        BY <1>3, <1>4
    <2>2. \A i \in 1..Len(Tail(plan)) : d + (i + 1) = (d + 1) + i
        BY <1>3, <1>4
    <2>. QED
        BY <2>1, <2>2
<1>7. p[d + 1] \in ToSet(p) /\ p[d + 1] \in SendSet
    BY <1>3, <1>5, Members
<1>8. p[d + 1].input = input
    BY <1>3, <1>5 DEF WellPlanned
<1>. QED
    BY <1>1, <1>2, <1>4, <1>5, <1>6, <1>7, <1>8

\* The next send is performed or given up.
LEMMA PlanTaken ==
    ASSUME Typed, Planned, pc = "send", plan # <<>>, plan' = Tail(plan),
           UNCHANGED <<source, pc, input>>
    PROVE  Planned' /\ Performed' = Performed + 1
<1>1. PICK p : p = Plan(source, input)
    OBVIOUS
<1>2. p = Plan(source', input') /\ Inputs' = Inputs
    BY <1>1 DEF Inputs
<1>3. PICK d \in Nat : d = Performed
    BY Sending
<1>4. /\ Len(p) \in Nat /\ Len(plan) \in Nat /\ d + Len(plan) = Len(p) /\ d + 1 \in 1..Len(p)
      /\ Len(plan') = Len(plan) - 1 /\ input <= Len(Inputs)
      /\ \A i \in 1..Len(plan') : plan'[i] = p[(d + 1) + i]
    BY <1>1, <1>3, Sending, SendingNext DEF Planned
<1>5. Performed' = Len(p) - Len(plan')
    BY <1>2 DEF Performed
<1>6. Performed' = d + 1 /\ Len(plan') <= Len(p)
    BY <1>4, <1>5
<1>. QED
    BY <1>2, <1>3, <1>4, <1>6 DEF Planned

\* A step of the readers, of the context, or none.
Idle ==
    /\ UNCHANGED <<source, pc, input, plan, opened, SentItems, SentErrs>>
    /\ cancelled => cancelled'

LEMMA IdleSteps ==
    ASSUME Typed, [Next]_vars
    PROVE  Fetching \/ Idle
<1> USE DEF readers
<1>1. CASE ReadItem
    <2>1. SentItems' = SentItems
        BY <1>1, Moved DEF ReadItem, SentItems, Typed
    <2>. QED
        BY <1>1, <2>1 DEF ReadItem, SentErrs, Idle
<1>2. CASE ReadErr
    <2>1. SentErrs' = SentErrs
        BY <1>2, Moved DEF ReadErr, SentErrs, Typed
    <2>. QED
        BY <1>2, <2>1 DEF ReadErr, SentItems, Idle
<1>3. CASE StopReading \/ Cancel
    BY <1>3 DEF StopReading, Cancel, SentItems, SentErrs, Idle
<1>4. CASE UNCHANGED vars
    BY <1>4 DEF vars, SentItems, SentErrs, Idle
<1>. QED
    BY <1>1, <1>2, <1>3, <1>4 DEF Next, Stopped

LEMMA PlannedStep ==
    ASSUME Typed, Planned, [Next]_vars
    PROVE  Planned'
<1> USE DEF readers
<1>1. CASE Open
    BY <1>1 DEF Open, Planned
<1>2. CASE ReadInput
    <2>1. CASE input > Len(Inputs)
        BY <1>2, <2>1 DEF ReadInput, Planned
    <2>2. CASE ~(input > Len(Inputs))
        <3>1. PICK p : p = Plan(source, input)
            OBVIOUS
        <3>2. /\ plan' = p /\ p = Plan(source', input') /\ pc' = "send"
              /\ input' = input /\ Inputs' = Inputs
            BY <1>2, <2>2, <3>1 DEF ReadInput, Inputs
        <3>3. input <= Len(Inputs)
            BY <2>2, Places
        <3>4. Len(p) \in Nat
            BY <3>1, <3>3, PlanHere
        <3>5. Performed' = Len(p) - Len(p)
            BY <3>2 DEF Performed
        <3>6. Performed' = 0 /\ \A i \in 1..Len(p) : 0 + i = i
            BY <3>4, <3>5
        <3>7. Len(p) <= Len(p)
            BY <3>4
        <3>. QED
            BY <3>2, <3>3, <3>6, <3>7 DEF Planned
    <2>. QED
        BY <2>1, <2>2
<1>3. CASE SendNext
    BY <1>3, PlanTaken DEF SendNext
<1>4. CASE SendCancelled
    <2>1. CASE Head(plan).lossy
        BY <1>4, <2>1, PlanTaken DEF SendCancelled
    <2>2. CASE ~Head(plan).lossy
        BY <1>4, <2>2 DEF SendCancelled, Planned
    <2>. QED
        BY <2>1, <2>2
<1>5. CASE NextInput
    BY <1>5 DEF NextInput, Planned
<1>6. CASE Idle
    <2>1. Inputs' = Inputs /\ Plan(source', input') = Plan(source, input)
        BY <1>6 DEF Idle, Inputs
    <2>2. Performed' = Performed
        BY <1>6, <2>1 DEF Idle, Performed
    <2>. QED
        BY <1>6, <2>1, <2>2 DEF Idle, Planned
<1>. QED
    BY <1>1, <1>2, <1>3, <1>4, <1>5, <1>6, IdleSteps DEF Fetching

----------------------------------------------------------------------------
(* What is behind.                                                         *)

\* A send that is behind stays so.
LEMMA StaysBehind ==
    ASSUME Typed, Planned, [Next]_vars, NEW s \in SendSet, Behind(s)
    PROVE  Behind(s)'
<1> USE DEF readers
<1>1. PICK p : p = Plan(source, input)
    OBVIOUS
<1>2. CASE Open
    <2>1. s.input < input
        BY <1>2 DEF Open, Behind
    <2>. QED
        BY <1>2, <2>1 DEF Open, Behind
<1>3. CASE ReadInput
    <2>1. s.input < input
        BY <1>3 DEF ReadInput, Behind
    <2>. QED
        BY <1>3, <2>1 DEF ReadInput, Behind
<1>4. CASE pc = "send" /\ plan # <<>> /\ plan' = Tail(plan) /\ UNCHANGED <<source, pc, input>>
    <2>1. PICK d \in Nat : d = Performed
        BY <1>4, Sending
    <2>2. Performed' = d + 1
        BY <1>4, <2>1, PlanTaken
    <2>3. \A i \in 1..d : i \in 1..(d + 1)
        OBVIOUS
    <2>4. s.input < input \/ (s.input = input /\ \E i \in 1..d : s = p[i])
        BY <1>1, <2>1 DEF Behind
    <2>. QED
        BY <1>1, <1>4, <2>2, <2>3, <2>4 DEF Behind
<1>5. CASE UNCHANGED <<source, input, plan>> /\ (pc' = pc \/ (pc = "send" /\ pc' = "closed"))
    <2>1. Performed' = Performed /\ p = Plan(source', input') /\ input' = input
        BY <1>1, <1>5 DEF Performed
    <2>2. pc \in {"send", "closed"} <=> pc' \in {"send", "closed"}
        BY <1>5
    <2>. QED
        BY <1>1, <2>1, <2>2, Zenon DEF Behind
<1>6. CASE NextInput
    <2>1. CASE input' = input /\ pc' = "closed"
        BY <1>5, <1>6, <2>1 DEF NextInput
    <2>2. CASE input' = input + 1
        <3>1. s.input < input \/ s.input = input
            BY DEF Behind
        <3>2. input \in Nat /\ s.input \in Nat
            BY Places DEF SendSet
        <3>3. s.input < input => s.input < input + 1
            BY <3>2
        <3>4. input < input + 1
            BY <3>2
        <3>5. s.input < input'
            BY <2>2, <3>1, <3>3, <3>4
        <3>. QED
            BY <3>5 DEF Behind
    <2>. QED
        BY <1>6, <2>1, <2>2 DEF NextInput
<1>7. CASE SendNext
    BY <1>4, <1>7 DEF SendNext
<1>8. CASE SendCancelled
    BY <1>4, <1>5, <1>8 DEF SendCancelled
<1>9. CASE Idle
    BY <1>5, <1>9 DEF Idle
<1>. QED
    BY <1>2, <1>3, <1>6, <1>7, <1>8, <1>9, IdleSteps DEF Fetching

\* Only the next send of a plan comes to be behind.
LEMMA ComesBehind ==
    ASSUME Typed, Planned, [Next]_vars, ~Open, NEW k \in DOMAIN Inputs,
           NEW s \in ToSet(Plan(source, k)), Behind(s)'
    PROVE  \/ Behind(s)
           \/ /\ SendNext \/ SendCancelled
              /\ plan # <<>> /\ s = Head(plan)
<1> USE DEF readers
<1>1. PICK p : p = Plan(source, input)
    OBVIOUS
<1>2. s.input = k /\ k \in Nat /\ k <= Len(Inputs)
    <2>1. WellPlanned(Plan(source, k), k, Inputs[k])
        BY Places, Planning DEF Inputs
    <2>2. PICK n \in 1..Len(Plan(source, k)) : s = Plan(source, k)[n]
        BY <2>1, Members DEF WellPlanned
    <2>3. k \in 1..Len(Inputs) /\ Len(Inputs) \in Nat
        BY Places
    <2>. QED
        BY <2>1, <2>2, <2>3 DEF WellPlanned
<1>3. CASE ReadInput
    <2>1. CASE input > Len(Inputs)
        <3>1. k # input /\ input' = input
            BY <1>2, <1>3, <2>1, Places DEF ReadInput
        <3>. QED
            BY <1>2, <3>1 DEF Behind
    <2>2. CASE ~(input > Len(Inputs))
        <3>1. plan' = p /\ UNCHANGED <<source, input>>
            BY <1>1, <1>3, <2>2 DEF ReadInput
        <3>2. input <= Len(Inputs)
            BY <2>2, Places
        <3>3. Len(p) \in Nat
            BY <1>1, <3>2, PlanHere
        <3>4. Performed' = Len(p) - Len(p)
            BY <1>1, <3>1 DEF Performed
        <3>5. ~\E i \in 1..Performed' : TRUE
            BY <3>3, <3>4
        <3>. QED
            BY <3>1, <3>5 DEF Behind
    <2>. QED
        BY <2>1, <2>2
<1>4. CASE /\ SendNext \/ SendCancelled
           /\ pc = "send" /\ plan # <<>> /\ plan' = Tail(plan) /\ UNCHANGED <<source, pc, input>>
    <2>1. PICK d \in Nat : d = Performed
        BY <1>4, Sending
    <2>2. Performed' = d + 1 /\ Head(plan) = p[d + 1]
        BY <1>1, <1>4, <2>1, PlanTaken, SendingNext
    <2>3. \A i \in 1..(d + 1) : i \in 1..d \/ i = d + 1
        OBVIOUS
    <2>4. s.input < input \/ (s.input = input /\ \E i \in 1..(d + 1) : s = p[i])
        BY <1>1, <1>4, <2>2 DEF Behind
    <2>5. CASE s.input < input
        BY <2>5 DEF Behind
    <2>6. CASE s.input = input /\ \E i \in 1..d : s = p[i]
        BY <1>1, <1>4, <2>1, <2>6 DEF Behind
    <2>7. CASE s = p[d + 1]
        BY <1>4, <2>2, <2>7
    <2>. QED
        BY <2>3, <2>4, <2>5, <2>6, <2>7
<1>5. CASE UNCHANGED <<source, input, plan>> /\ (pc' = pc \/ (pc = "send" /\ pc' = "closed"))
    <2>1. Performed' = Performed /\ p = Plan(source', input') /\ input' = input
        BY <1>1, <1>5 DEF Performed
    <2>2. pc \in {"send", "closed"} <=> pc' \in {"send", "closed"}
        BY <1>5
    <2>. QED
        BY <1>1, <2>1, <2>2, Zenon DEF Behind
<1>6. CASE NextInput
    <2>1. CASE input' = input /\ pc' = "closed"
        BY <1>5, <1>6, <2>1 DEF NextInput
    <2>2. CASE input' = input + 1 /\ pc' = "read"
        <3>1. s.input < input + 1
            BY <2>2 DEF Behind
        <3>2. k < input \/ k = input
            BY <1>2, <3>1, Places
        <3>3. CASE k < input
            BY <1>2, <3>3 DEF Behind
        <3>4. CASE k = input
            <4>1. pc = "send" /\ plan = <<>>
                BY <1>6 DEF NextInput
            <4>2. Performed = Len(p) /\ p \in Seq(SendSet)
                BY <1>1, <4>1, Sending
            <4>3. \E i \in 1..Len(p) : s = p[i]
                BY <1>1, <3>4, <4>2, Members
            <4>. QED
                BY <1>1, <1>2, <3>4, <4>1, <4>2, <4>3 DEF Behind
        <3>. QED
            BY <3>2, <3>3, <3>4
    <2>. QED
        BY <1>6, <2>1, <2>2 DEF NextInput
<1>7. CASE SendNext
    BY <1>4, <1>7 DEF SendNext
<1>8. CASE SendCancelled
    BY <1>4, <1>5, <1>8 DEF SendCancelled
<1>9. CASE Idle
    BY <1>5, <1>9 DEF Idle
<1>. QED
    BY <1>3, <1>6, <1>7, <1>8, <1>9, IdleSteps DEF Fetching

----------------------------------------------------------------------------
(* What was sent.                                                          *)

\* A step sends nothing, the next send of the plan, or that the inputs did not
\* open.
LEMMA StepSends ==
    ASSUME Typed, Planned, [Next]_vars
    PROVE  \/ SentItems' = SentItems /\ SentErrs' = SentErrs /\ ~SendNext
           \/ /\ SendNext /\ Head(plan).ch = "item"
              /\ SentItems' = Append(SentItems, Head(plan)) /\ SentErrs' = SentErrs
           \/ /\ SendNext /\ Head(plan).ch = "err"
              /\ SentErrs' = Append(SentErrs, Head(plan)) /\ SentItems' = SentItems
           \/ /\ Open /\ opened' = opened /\ ~SendNext
              /\ SentErrs' = Append(SentErrs, Send("err", 0, 0, TRUE))
              /\ SentItems' = SentItems
<1> USE DEF readers
<1>1. \A x \in SendSet : /\ gotItems \o Append(items, x) = Append(SentItems, x)
                         /\ gotErrs \o Append(errs, x) = Append(SentErrs, x)
    BY AppendedBeyond DEF SentItems, SentErrs, Typed
<1>2. CASE Open
    <2>1. Send("err", 0, 0, TRUE) \in SendSet
        BY DEF Send, SendSet
    <2>2. SentItems' = SentItems /\ ~SendNext
        BY <1>2 DEF Open, SentItems, SendNext
    <2>3. CASE errs' = errs
        BY <1>2, <2>2, <2>3 DEF Open, SentErrs
    <2>4. CASE errs' = Append(errs, Send("err", 0, 0, TRUE)) /\ opened' = opened
        BY <1>1, <1>2, <2>1, <2>2, <2>4 DEF Open, SentErrs
    <2>. QED
        BY <1>2, <2>3, <2>4 DEF Open
<1>3. CASE ReadInput
    BY <1>3 DEF ReadInput, SendNext, SentItems, SentErrs
<1>4. CASE SendNext
    <2>1. Head(plan) \in SendSet
        BY <1>4, SendingNext DEF SendNext
    <2>2. CASE Head(plan).ch = "item" /\ items' = Append(items, Head(plan)) /\ UNCHANGED errs
        BY <1>1, <1>4, <2>1, <2>2 DEF SendNext, SentItems, SentErrs
    <2>3. CASE Head(plan).ch = "err" /\ errs' = Append(errs, Head(plan)) /\ UNCHANGED items
        BY <1>1, <1>4, <2>1, <2>3 DEF SendNext, SentItems, SentErrs
    <2>. QED
        BY <1>4, <2>2, <2>3 DEF SendNext
<1>5. CASE SendCancelled \/ NextInput
    BY <1>4, <1>5 DEF SendCancelled, NextInput, SentItems, SentErrs
<1>6. CASE Idle
    BY <1>4, <1>6 DEF Idle
<1>. QED
    BY <1>2, <1>3, <1>4, <1>5, <1>6, IdleSteps DEF Fetching

LEMMA SentTyped ==
    ASSUME Typed
    PROVE  SentItems \in Seq(SendSet) /\ SentErrs \in Seq(SendSet)
BY ConcatProperties DEF Typed, SentItems, SentErrs

\* The next send, once performed, is behind.
LEMMA NextBehind ==
    ASSUME Typed, Planned, SendNext, NEW x, x = Head(plan)
    PROVE  /\ Behind(x)' /\ x.input = input /\ input \in DOMAIN Inputs
           /\ x \in ToSet(Plan(source, input))
           /\ Inputs' = Inputs /\ x \in SendSet /\ input # 0
<1>1. /\ pc = "send" /\ plan # <<>> /\ plan' = Tail(plan) /\ UNCHANGED <<source, pc, input>>
    BY DEF SendNext
<1>3. PICK p : p = Plan(source, input)
    OBVIOUS
<1>4. PICK d \in Nat : d = Performed
    BY <1>1, Sending
<1>5. /\ Performed' = d + 1 /\ x = p[d + 1] /\ x.input = input
      /\ x \in ToSet(p) /\ x \in SendSet
    BY <1>1, <1>3, <1>4, PlanTaken, SendingNext
<1>6. Behind(x)'
    <2>1. d + 1 \in 1..(d + 1)
        OBVIOUS
    <2>. QED
        BY <1>1, <1>3, <1>5, <2>1 DEF Behind
<1>7. Inputs' = Inputs /\ input \in DOMAIN Inputs /\ input # 0
    BY <1>1, Sending, Places DEF Inputs
<1>. QED
    BY <1>3, <1>5, <1>6, <1>7

LEMMA FromPlansStep ==
    ASSUME Typed, Planned, FromPlans, [Next]_vars
    PROVE  FromPlans'
<1>1. source' = source /\ Inputs' = Inputs
    <2>1. source' = source
        BY IdleSteps DEF Fetching, Open, ReadInput, SendNext, SendCancelled, NextInput, Idle
    <2>. QED
        BY <2>1 DEF Inputs
<1>2. /\ SentItems \in Seq(SendSet) /\ SentErrs \in Seq(SendSet)
    BY SentTyped
<1>3. ASSUME NEW s \in ToSet(SentItems)
      PROVE  /\ s.ch = "item" /\ s.input \in DOMAIN Inputs
             /\ s \in ToSet(Plan(source, s.input)) /\ Behind(s)'
    <2>1. s \in SendSet
        BY <1>2, Members
    <2>. QED
        BY <2>1, StaysBehind DEF FromPlans
<1>4. ASSUME NEW s \in ToSet(SentItems')
      PROVE  /\ s.ch = "item" /\ s.input \in DOMAIN Inputs
             /\ s \in ToSet(Plan(source, s.input)) /\ Behind(s)'
    <2>1. CASE s \in ToSet(SentItems)
        BY <1>3, <2>1
    <2>2. CASE SendNext /\ s = Head(plan) /\ s.ch = "item"
        BY <2>2, NextBehind
    <2>3. ASSUME SendNext, SentItems' = Append(SentItems, Head(plan)), Head(plan).ch = "item",
                 s \notin ToSet(SentItems)
          PROVE  s = Head(plan) /\ s.ch = "item"
        <3>1. Head(plan) \in SendSet
            BY <2>3, NextBehind
        <3>2. ToSet(SentItems') = ToSet(SentItems) \cup {Head(plan)}
            BY <1>2, <2>3, <3>1, Members
        <3>. QED
            BY <2>3, <3>2
    <2>. QED
        BY <2>1, <2>2, <2>3, StepSends
<1>5. ASSUME NEW s \in ToSet(SentErrs')
      PROVE  /\ s.ch = "err"
             /\ s.input # 0 => s.input \in DOMAIN Inputs /\ s \in ToSet(Plan(source, s.input))
    <2>1. CASE s \in ToSet(SentErrs)
        BY <2>1 DEF FromPlans
    <2>2. CASE SendNext /\ s = Head(plan) /\ s.ch = "err"
        BY <2>2, NextBehind
    <2>3. CASE s = Send("err", 0, 0, TRUE)
        BY <2>3 DEF Send
    <2>4. ASSUME NEW x \in SendSet, SentErrs' = Append(SentErrs, x), s \notin ToSet(SentErrs)
          PROVE  s = x
        <3>1. ToSet(SentErrs') = ToSet(SentErrs) \cup {x}
            BY <1>2, <2>4, Members
        <3>. QED
            BY <2>4, <3>1
    <2>5. Send("err", 0, 0, TRUE) \in SendSet /\ (SendNext => Head(plan) \in SendSet)
        BY NextBehind DEF Send, SendSet
    <2>. QED
        BY <2>1, <2>2, <2>3, <2>4, <2>5, StepSends
<1>. QED
    BY <1>1, <1>4, <1>5 DEF FromPlans

LEMMA NoneDroppedStep ==
    ASSUME Typed, Planned, NoneDropped, [Next]_vars
    PROVE  NoneDropped'
<1> USE DEF readers
<1>1. source' = source /\ Inputs' = Inputs
    <2>1. source' = source
        BY IdleSteps DEF Fetching, Open, ReadInput, SendNext, SendCancelled, NextInput, Idle
    <2>. QED
        BY <2>1 DEF Inputs
<1>2. SUFFICES ASSUME opened', ~cancelled'
               PROVE  /\ \A k \in DOMAIN Inputs : \A s \in ToSet(Plan(source, k)) :
                            Behind(s)' => s \in ToSet(SentItems') \cup ToSet(SentErrs')
                      /\ pc' = "closed" => input' = Len(Inputs) + 1
    BY <1>1 DEF NoneDropped
<1>3. CASE Open
    <2>1. pc' = "read" /\ input' = 1
        BY <1>2, <1>3 DEF Open, Planned
    <2>2. ASSUME NEW k \in DOMAIN Inputs, NEW s \in ToSet(Plan(source, k)), Behind(s)'
          PROVE  FALSE
        <3>1. s.input < 1
            BY <2>1, <2>2 DEF Behind
        <3>2. WellPlanned(Plan(source, k), k, Inputs[k])
            BY Places, Planning DEF Inputs
        <3>3. PICK n \in 1..Len(Plan(source, k)) : s = Plan(source, k)[n]
            BY <3>2, Members DEF WellPlanned
        <3>4. s.input = k
            BY <3>2, <3>3 DEF WellPlanned
        <3>5. k \in 1..Len(Inputs) /\ Len(Inputs) \in Nat
            BY Places
        <3>. QED
            BY <3>1, <3>4, <3>5
    <2>. QED
        BY <2>1, <2>2
<1>4. CASE ~Open
    <2>1. opened /\ ~cancelled
        <3>1. (opened' => opened) /\ (cancelled => cancelled')
            BY <1>4, IdleSteps
               DEF Fetching, ReadInput, SendNext, SendCancelled, NextInput, Idle
        <3>. QED
            BY <1>2, <3>1, Zenon
    <2>2. ASSUME NEW k \in DOMAIN Inputs, NEW s \in ToSet(Plan(source, k)), Behind(s)'
          PROVE  s \in ToSet(SentItems') \cup ToSet(SentErrs')
        <3>0. SentItems \in Seq(SendSet) /\ SentErrs \in Seq(SendSet)
            BY SentTyped
        <3>1. ToSet(SentItems) \subseteq ToSet(SentItems') /\ ToSet(SentErrs) \subseteq ToSet(SentErrs')
            <4>1. \A x \in SendSet : /\ ToSet(Append(SentItems, x)) = ToSet(SentItems) \cup {x}
                                     /\ ToSet(Append(SentErrs, x)) = ToSet(SentErrs) \cup {x}
                BY <3>0, Members
            <4>2. SendNext => Head(plan) \in SendSet
                BY NextBehind
            <4>. QED
                BY <1>4, <4>1, <4>2, StepSends
        <3>2. CASE Behind(s)
            BY <2>1, <3>1, <3>2 DEF NoneDropped
        <3>3. CASE SendNext /\ s = Head(plan)
            <4>1. s \in SendSet
                BY <3>3, NextBehind
            <4>2. \A x \in SendSet : /\ x \in ToSet(Append(SentItems, x))
                                     /\ x \in ToSet(Append(SentErrs, x))
                BY <3>0, Members
            <4>. QED
                BY <1>4, <3>3, <4>1, <4>2, StepSends
        <3>4. ~SendCancelled
            BY <2>1 DEF SendCancelled
        <3>. QED
            BY <1>4, <2>2, <3>2, <3>3, <3>4, ComesBehind
    <2>3. ASSUME pc' = "closed" PROVE input' = Len(Inputs) + 1
        <3>1. CASE ReadInput
            <4>1. input > Len(Inputs) /\ input' = input
                BY <2>3, <3>1 DEF ReadInput
            <4>. QED
                BY <4>1, Places
        <3>2. CASE SendNext
            BY <2>3, <3>2 DEF SendNext
        <3>3. CASE SendCancelled \/ NextInput
            BY <2>1, <2>3, <3>3 DEF SendCancelled, NextInput
        <3>4. CASE Idle
            BY <2>1, <2>3, <3>4 DEF Idle, NoneDropped
        <3>. QED
            BY <1>4, <3>1, <3>2, <3>3, <3>4, IdleSteps DEF Fetching
    <2>. QED
        BY <2>2, <2>3
<1>. QED
    BY <1>3, <1>4

----------------------------------------------------------------------------
(* The order of the items.                                                 *)

\* The next item comes after any item that was sent.
LEMMA NextIsAfter ==
    ASSUME Typed, Planned, FromPlans, SendNext, Head(plan).ch = "item",
           NEW s \in ToSet(SentItems)
    PROVE  \/ s.input < Head(plan).input
           \/ s.input = Head(plan).input /\ s.elem < Head(plan).elem
<1>1. pc = "send" /\ plan # <<>>
    BY DEF SendNext
<1>2. PICK p : p = Plan(source, input)
    OBVIOUS
<1>3. PICK d \in Nat : d = Performed
    BY <1>1, Sending
<1>4. /\ d + 1 \in 1..Len(p) /\ Head(plan) = p[d + 1] /\ Head(plan).input = input
      /\ WellPlanned(p, input, Inputs[input]) /\ Len(p) \in Nat
    BY <1>1, <1>2, <1>3, Sending, SendingNext
<1>5. s.ch = "item" /\ (s.input < input \/ (s.input = input /\ \E i \in 1..d : s = p[i]))
    BY <1>2, <1>3 DEF FromPlans, Behind
<1>6. ASSUME NEW i \in 1..d, s = p[i] PROVE s.elem < Head(plan).elem
    <2>1. i \in 1..Len(p) /\ i < d + 1
        BY <1>4
    <2>. QED
        BY <1>4, <1>5, <1>6, <2>1 DEF WellPlanned
<1>. QED
    BY <1>4, <1>5, <1>6

LEMMA SentInOrderStep ==
    ASSUME Typed, Planned, FromPlans, SentInOrder, [Next]_vars
    PROVE  SentInOrder'
<1>1. CASE SentItems' = SentItems
    BY <1>1 DEF SentInOrder
<1>2. CASE SendNext /\ Head(plan).ch = "item" /\ SentItems' = Append(SentItems, Head(plan))
    <2>1. PICK t : t = SentItems
        OBVIOUS
    <2>2. PICK x \in SendSet : x = Head(plan)
        BY <1>2, NextBehind
    <2>3. t \in Seq(SendSet) /\ Len(t) \in Nat /\ DOMAIN t = 1..Len(t)
        BY <2>1, SentTyped
    <2>4. PICK u : u = Append(t, x)
        OBVIOUS
    <2>5. /\ DOMAIN u = DOMAIN t \cup {Len(t) + 1}
          /\ u[Len(t) + 1] = x /\ \A i \in DOMAIN t : u[i] = t[i]
        BY <2>3, <2>4, Appended
    <2>6. \A i \in DOMAIN t :
            t[i].input < x.input \/ (t[i].input = x.input /\ t[i].elem < x.elem)
        <3>1. \A i \in DOMAIN t : t[i] \in ToSet(SentItems)
            BY <2>1, <2>3, Members
        <3>. QED
            BY <1>2, <2>2, <3>1, NextIsAfter
    <2>7. \A m, n \in DOMAIN u : m < n => m \in DOMAIN t /\ (n \in DOMAIN t \/ n = Len(t) + 1)
        BY <2>3, <2>5
    <2>8. \A m, n \in DOMAIN u : m < n =>
            \/ u[m].input < u[n].input
            \/ u[m].input = u[n].input /\ u[m].elem < u[n].elem
        BY <2>1, <2>5, <2>6, <2>7 DEF SentInOrder
    <2>9. SentItems' = u
        BY <1>2, <2>1, <2>2, <2>4
    <2>. QED
        BY <2>8, <2>9 DEF SentInOrder
<1>. QED
    BY <1>1, <1>2, StepSends

----------------------------------------------------------------------------
(* The theorems.                                                           *)

\* The invariant is inductive: what is left of an input is the end of what it
\* yields, what was sent is of the plans and in their order, and uncancelled
\* nothing of them that is behind was left out.
THEOREM InvHolds == Spec => []Inv
<1>1. Init => Inv
    <2> SUFFICES ASSUME Init PROVE Inv
        OBVIOUS
    <2> USE DEF Init
    <2>1. Inputs \in Seq(Input) /\ Len(Inputs) \in Nat
        BY FilesAssumption DEF Inputs
    <2>2. SentItems = <<>> /\ SentErrs = <<>>
        BY DEF SentItems, SentErrs
    <2>3. Typed
        <3>1. <<>> \in Seq(SendSet) /\ Len(<<>>) = 0
            OBVIOUS
        <3>2. 0 <= ItemBuf /\ 0 <= ErrBuf
            BY FilesAssumption
        <3>3. input \in 1..(Len(Inputs) + 1)
            BY <2>1
        <3>. QED
            BY <3>1, <3>2, <3>3 DEF Typed, TypeOK
    <2>4. Planned
        BY <2>2 DEF Planned
    <2>5. ToSet(SentItems) = {} /\ ToSet(SentErrs) = {}
        BY <2>2 DEF ToSet
    <2>6. FromPlans /\ NoneDropped
        BY <2>5 DEF FromPlans, NoneDropped
    <2>7. SentInOrder
        BY <2>2 DEF SentInOrder
    <2>. QED
        BY <2>3, <2>4, <2>6, <2>7 DEF Inv
<1>2. Inv /\ [Next]_vars => Inv'
    BY TypedStep, PlannedStep, FromPlansStep, NoneDroppedStep, SentInOrderStep DEF Inv
<1>. QED
    BY <1>1, <1>2, PTL DEF Spec

\* The channels stay within their capacities and the inputs are gone through
\* one by one.
THEOREM TypeCorrect == Spec => []TypeOK
<1>1. Inv => TypeOK
    BY DEF Inv, Typed
<1>. QED
    BY <1>1, InvHolds, PTL

\* Items are sent in the order of the inputs and of their elements, each once.
THEOREM OrderKept == Spec => []SentInOrder
<1>1. Inv => SentInOrder
    BY DEF Inv
<1>. QED
    BY <1>1, InvHolds, PTL

\* A goroutine that ends uncancelled has sent or reported each element of each
\* input, and never both.
THEOREM AllAccountedFor == Spec => []AllReported
<1>1. Inv => AllReported
    <2> SUFFICES ASSUME Inv PROVE AllReported
        OBVIOUS
    <2> DEFINE sent == {<<s.input, s.elem>> : s \in ToSet(SentItems)}
               reported == {<<s.input, s.elem>> : s \in ToSet(SentErrs)}
    <2>1. Typed /\ FromPlans /\ NoneDropped
        BY DEF Inv
    <2>2. ASSUME NEW k \in DOMAIN Inputs
          PROVE  /\ k \in Nat \ {0} /\ k <= Len(Inputs)
                 /\ WellPlanned(Plan(source, k), k, Inputs[k])
                 /\ Covers(Plan(source, k), Due(source, k))
                 /\ \A s \in ToSet(Plan(source, k)) :
                        \E n \in 1..Len(Plan(source, k)) : s = Plan(source, k)[n]
                 /\ \A n \in 1..Len(Plan(source, k)) :
                        Plan(source, k)[n] \in ToSet(Plan(source, k))
        <3>1. source \in Sources /\ k \in 1..Len(Inputs) /\ Len(Inputs) \in Nat
            BY <2>1, Places
        <3>2. /\ WellPlanned(Plan(source, k), k, Inputs[k])
              /\ Covers(Plan(source, k), Due(source, k))
            BY <3>1, Planning DEF Inputs
        <3>3. Plan(source, k) \in Seq(SendSet)
            BY <3>2 DEF WellPlanned
        <3>. QED
            BY <3>1, <3>2, <3>3, Members
    <2>3. ASSUME NEW s \in ToSet(SentItems), NEW e \in ToSet(SentErrs)
          PROVE  <<s.input, s.elem>> # <<e.input, e.elem>>
        <3>1. SUFFICES ASSUME s.input = e.input, s.elem = e.elem PROVE FALSE
            OBVIOUS
        <3>2. PICK k \in DOMAIN Inputs : k = s.input
            BY <2>1 DEF FromPlans
        <3>3. k # 0
            BY <2>2
        <3>4. /\ s \in ToSet(Plan(source, k)) /\ s.ch = "item"
              /\ e \in ToSet(Plan(source, k)) /\ e.ch = "err"
            BY <2>1, <3>1, <3>2, <3>3 DEF FromPlans
        <3>5. s.elem \in DOMAIN Inputs[k].elems /\ Inputs[k].elems[s.elem] = "ok"
            BY <2>2, <3>4 DEF WellPlanned
        <3>6. e.elem = 0 \/ Inputs[k].elems[e.elem] # "ok"
            BY <2>2, <3>4 DEF WellPlanned
        <3>7. 0 \notin DOMAIN Inputs[k].elems
            <4>1. Inputs[k] \in Input
                BY <2>1, Places
            <4>. QED
                BY <4>1 DEF Input
        <3>. QED
            BY <3>1, <3>5, <3>6, <3>7
    <2>4. sent \cap reported = {}
        BY <2>3
    <2>5. ASSUME pc = "closed", opened, ~cancelled, NEW k \in DOMAIN Inputs,
                 NEW s \in ToSet(Plan(source, k))
          PROVE  /\ <<k, s.elem>> \in sent \cup reported
                 /\ s.ch = "err" => <<k, s.elem>> \in reported
        <3>1. s.input = k
            BY <2>2 DEF WellPlanned
        <3>2. Behind(s)
            <4>1. input = Len(Inputs) + 1
                BY <2>1, <2>5 DEF NoneDropped
            <4>2. k < Len(Inputs) + 1
                BY <2>1, <2>2, Places
            <4>. QED
                BY <3>1, <4>1, <4>2 DEF Behind
        <3>3. s \in ToSet(SentItems) \cup ToSet(SentErrs)
            BY <2>1, <2>5, <3>2 DEF NoneDropped
        <3>4. s.ch = "err" => s \in ToSet(SentErrs)
            BY <2>1, <3>3 DEF FromPlans
        <3>. QED
            BY <3>1, <3>3, <3>4
    <2> HIDE DEF sent, reported
    <2>6. ASSUME pc = "closed", opened, ~cancelled, NEW k \in DOMAIN Inputs,
                 NEW j \in (IF Due(source, k) = {} THEN {0} ELSE Due(source, k))
          PROVE  <<k, j>> \in sent \/ <<k, j>> \in reported \/ <<k, 0>> \in reported
        <3>1. PICK p : p = Plan(source, k)
            OBVIOUS
        <3>2. CASE \E n \in 1..Len(p) : p[n].ch = "err" /\ p[n].elem = 0
            <4>1. PICK n \in 1..Len(p) : p[n].ch = "err" /\ p[n].elem = 0
                BY <3>2
            <4>2. p[n] \in ToSet(Plan(source, k))
                BY <2>2, <3>1
            <4>. QED
                BY <2>5, <2>6, <4>1, <4>2
        <3>3. CASE Due(source, k) # {} /\ \E n \in 1..Len(p) : p[n].elem = j
            <4>1. PICK n \in 1..Len(p) : p[n].elem = j
                BY <3>3
            <4>2. p[n] \in ToSet(Plan(source, k))
                BY <2>2, <3>1
            <4>. QED
                BY <2>5, <2>6, <4>1, <4>2
        <3>. QED
            BY <2>2, <2>6, <3>1, <3>2, <3>3 DEF Covers
    <2>7. ASSUME pc = "closed", opened, ~cancelled, NEW e \in Elements
          PROVE  e \in sent \/ e \in reported \/ <<e[1], 0>> \in reported
        <3>1. PICK k \in DOMAIN Inputs :
                e \in {k} \X (IF Due(source, k) = {} THEN {0} ELSE Due(source, k))
            BY <2>7 DEF Elements
        <3>2. PICK j \in (IF Due(source, k) = {} THEN {0} ELSE Due(source, k)) :
                e = <<k, j>>
            <4>1. \A D : e \in {k} \X D => e[2] \in D /\ e = <<k, e[2]>>
                OBVIOUS
            <4>. QED
                BY <3>1, <4>1, Zenon
        <3>3. e[1] = k
            BY <3>2
        <3>. QED
            BY <2>6, <2>7, <3>2, <3>3
    <2> USE DEF sent, reported
    <2>. QED
        BY <2>4, <2>7 DEF AllReported
<1>. QED
    BY <1>1, InvHolds, PTL

----------------------------------------------------------------------------
(* Waiting for room.                                                       *)

\* The guards of Fetching and those of the readers, put together: what TLC
\* finds ENABLED on the run's instance.
CanFetch ==
    \/ pc \in {"open", "read"}
    \/ /\ pc = "send"
       /\ \/ plan = <<>> \/ cancelled
          \/ Head(plan).ch = "item" /\ Len(items) < ItemBuf
          \/ Head(plan).ch = "err" /\ Len(errs) < ErrBuf

CanRead == reading /\ (items # <<>> \/ errs # <<>>)

NeverStuck == CanFetch \/ CanRead \/ pc = "closed" \/ (~reading /\ ~cancelled)

\* The goroutine waits for room only where there is something to be read, on
\* either channel, and after a cancellation not even then.
THEOREM NobodyStuck == Spec => []NeverStuck
<1>1. ASSUME Inv, pc = "send", plan # <<>>, ~cancelled, reading
      PROVE  CanFetch \/ CanRead
    <2>1. /\ plan \in Seq(SendSet) /\ items \in Seq(SendSet) /\ errs \in Seq(SendSet)
          /\ ItemBuf \in Nat \ {0} /\ ErrBuf \in Nat \ {0}
        BY <1>1, FilesAssumption DEF Inv, Typed
    <2>2. Head(plan).ch \in {"item", "err"}
        <3>1. Head(plan) \in SendSet
            BY <1>1, <2>1
        <3>. QED
            BY <3>1 DEF SendSet
    <2>3. /\ Len(items) < ItemBuf \/ items # <<>>
          /\ Len(errs) < ErrBuf \/ errs # <<>>
        BY <2>1
    <2>. QED
        BY <1>1, <2>2, <2>3 DEF CanFetch, CanRead
<1>2. Inv => /\ pc \in {"open", "read", "send", "closed"}
             /\ {reading, cancelled} \subseteq BOOLEAN
    BY DEF Inv, Typed, TypeOK
<1>3. Inv => NeverStuck
    BY <1>1, <1>2 DEF NeverStuck, CanFetch
<1>. QED
    BY <1>3, InvHolds, PTL
=============================================================================
