------------------------ MODULE A2ADNSFetcherProofs -------------------------
(***************************************************************************)
(* Proofs about A2ADNSFetcher, for any finite zone and any size of the     *)
(* semaphore: the counts of the semaphore and of the WaitGroup are those   *)
(* of the goroutines, and what each goroutine finds is what its domain     *)
(* says.                                                                   *)
(***************************************************************************)
EXTENDS A2ADNSFetcher, FiniteSetTheorems, TLAPS

\* The domains whose goroutine is at one of the places.
Within(P) == {d \in Domains : pc[d] \in P}

LEMMA Parameters == IsFiniteSet(Domains) /\ Concurrency \in Nat \ {0}
BY DNSAssumption

\* What a move of one goroutine does to the number within some places.
LEMMA Moves ==
    ASSUME TypeOK, NEW d \in Domains, NEW p \in Places, Goto(d, p), NEW P
    PROVE  /\ pc' \in [Domains -> Places]
           /\ Cardinality(Within(P)) \in Nat
           /\ (p \in P <=> pc[d] \in P) =>
                Cardinality(Within(P)') = Cardinality(Within(P))
           /\ p \in P /\ pc[d] \notin P =>
                Cardinality(Within(P)') = Cardinality(Within(P)) + 1
           /\ p \notin P /\ pc[d] \in P =>
                /\ Cardinality(Within(P)') = Cardinality(Within(P)) - 1
                /\ Cardinality(Within(P)) > 0
<1> USE DEF Within
<1>1. pc \in [Domains -> Places] /\ pc' = [pc EXCEPT ![d] = p]
    BY DEF TypeOK, Goto
<1>2. pc' \in [Domains -> Places]
    BY <1>1
<1>3. IsFiniteSet(Within(P)) /\ Cardinality(Within(P)) \in Nat
    <2>1. IsFiniteSet(Within(P))
        BY Parameters, FS_Subset
    <2>. QED
        BY <2>1, FS_CardinalityType
<1>4. ASSUME p \in P <=> pc[d] \in P
      PROVE  Within(P)' = Within(P)
    BY <1>1, <1>4
<1>5. ASSUME p \in P, pc[d] \notin P
      PROVE  Cardinality(Within(P)') = Cardinality(Within(P)) + 1
    <2>1. Within(P)' = Within(P) \cup {d} /\ d \notin Within(P)
        BY <1>1, <1>5
    <2>. QED
        BY <1>3, <2>1, FS_AddElement
<1>6. ASSUME p \notin P, pc[d] \in P
      PROVE  /\ Cardinality(Within(P)') = Cardinality(Within(P)) - 1
             /\ Cardinality(Within(P)) > 0
    <2>1. Within(P)' = Within(P) \ {d} /\ d \in Within(P)
        BY <1>1, <1>6
    <2>2. Cardinality(Within(P)') = Cardinality(Within(P)) - 1
        BY <1>3, <2>1, FS_RemoveElement
    <2>3. Cardinality(Within(P)) # 0
        BY <1>3, <2>1, FS_EmptySet
    <2>. QED
        BY <1>3, <2>2, <2>3
<1>. QED
    BY <1>2, <1>3, <1>4, <1>5, <1>6

\* What a card in hand and the answers of the servers have to do with each other.
LEMMA AgentsFound ==
    ASSUME NEW d \in Domains
    PROVE  /\ A2ASVCB(defaultSVCBLookup(Zone[d].svcb)) = SVCBAgents(d)
           /\ A2ATXT(Zone[d].txt) = TXTAgents(d)
           /\ SVCBAgents(d) # {} =>
                defaultSVCBLookup(Zone[d].svcb) = Zone[d].svcb.records
BY DEF A2ASVCB, defaultSVCBLookup, SVCBAgents, A2ATXT, TXTAgents

LEMMA SVCBFound ==
    ASSUME NEW d \in Domains, NEW k \in First(SVCBAgents(d)), NEW u,
           u = buildCardURL([host |-> resolveTarget(Zone[d].svcb.records[k].target, d),
                             path |-> ""])
    PROVE  u.host \in Advertised(d) /\ u.path = "card"
<1>1. SVCBAgents(d) # {}
    BY DEF First
<1>2. /\ u.host = resolveTarget(Zone[d].svcb.records[k].target, d)
      /\ u.path = "card"
    BY DEF buildCardURL
<1>3. u.host = IF Zone[d].svcb.records[k].target = "." THEN d
               ELSE Zone[d].svcb.records[k].target
    BY <1>2 DEF resolveTarget
<1>. QED
    BY <1>1, <1>2, <1>3 DEF Advertised

LEMMA TXTFound ==
    ASSUME NEW d \in Domains, SVCBAgents(d) = {}, NEW k \in First(TXTAgents(d)),
           NEW u, u = buildCardURL(Zone[d].txt.records[k].url)
    PROVE  u.host \in Advertised(d) /\ u.path = "card"
<1>1. k \in DOMAIN Zone[d].txt.records
    BY DEF First, TXTAgents
<1>2. Zone[d].txt.records[k].url \in [host : STRING, path : STRING]
    BY <1>1, DNSAssumption
<1>3. u.host = Zone[d].txt.records[k].url.host /\ u.path = "card"
    BY <1>2 DEF buildCardURL
<1>. QED
    BY <1>3 DEF Advertised

----------------------------------------------------------------------------
LEMMA InitInv == Init => Inv
<1> SUFFICES ASSUME Init PROVE Inv
    OBVIOUS
<1> USE DEF Init, consumer
<1>1. TypeOK
    BY DEF TypeOK, Places
<1>2. LookupsBounded
    <2>1. {d \in Domains : pc[d] \in InSection} = {}
        BY DEF InSection
    <2>. QED
        BY <2>1, FS_EmptySet, Parameters DEF LookupsBounded
<1>3. Counted
    <2>1. {d \in Domains : pc[d] \in Started} = {}
        BY DEF Started
    <2>. QED
        BY <2>1, FS_EmptySet DEF Counted
<1>4. ClosedIsFinal /\ OnItsWay /\ CardIsAdvertised
    BY DEF ClosedIsFinal, OnItsWay, CardIsAdvertised, Answered
<1>. QED
    BY <1>1, <1>2, <1>3, <1>4 DEF Inv

\* The counts follow the goroutines.
LEMMA CountsKept ==
    ASSUME Inv, [Next]_vars
    PROVE  TypeOK' /\ LookupsBounded' /\ Counted'
<1> USE DEF Inv, consumer
<1>1. ASSUME NEW d \in Domains, Spawn(d)
      PROVE  TypeOK' /\ LookupsBounded' /\ Counted'
    <2>1. Goto(d, "acquire") /\ pc[d] = "new" /\ wg' = wg + 1 /\ sem' = sem
        BY <1>1 DEF Spawn
    <2>2. /\ Cardinality(Within(InSection)') = Cardinality(Within(InSection))
          /\ Cardinality(Within(Started)') = Cardinality(Within(Started)) + 1
          /\ pc' \in [Domains -> Places]
        BY <2>1, Moves DEF InSection, Started, Places
    <2>. QED
        BY <1>1, <2>1, <2>2 DEF Spawn, TypeOK, LookupsBounded, Counted, Within
<1>2. ASSUME NEW d \in Domains, Acquire(d)
      PROVE  TypeOK' /\ LookupsBounded' /\ Counted'
    <2>1. /\ Goto(d, "svcb") /\ pc[d] = "acquire" /\ wg' = wg
          /\ sem' = sem + 1 /\ sem < Concurrency
        BY <1>2 DEF Acquire
    <2>2. /\ Cardinality(Within(InSection)') = Cardinality(Within(InSection)) + 1
          /\ Cardinality(Within(Started)') = Cardinality(Within(Started))
          /\ pc' \in [Domains -> Places]
        BY <2>1, Moves DEF InSection, Started, Places
    <2>. QED
        BY <1>2, <2>1, <2>2, Parameters
           DEF Acquire, TypeOK, LookupsBounded, Counted, Within
<1>3. ASSUME NEW d \in Domains,
             SVCBLookup(d) \/ TXTLookup(d) \/ FetchCard(d) \/ SendItem(d)
                \/ sendErr(d) \/ GiveUp(d)
      PROVE  TypeOK' /\ LookupsBounded' /\ Counted'
    <2>1. PICK p \in InSection :
            Goto(d, p) /\ pc[d] \in InSection /\ wg' = wg /\ sem' = sem
        BY <1>3 DEF SVCBLookup, TXTLookup, FetchCard, SendItem, sendErr, GiveUp,
                    InSection
    <2>2. /\ Cardinality(Within(InSection)') = Cardinality(Within(InSection))
          /\ Cardinality(Within(Started)') = Cardinality(Within(Started))
          /\ pc' \in [Domains -> Places]
        BY <2>1, Moves DEF InSection, Started, Places
    <2>3. /\ spawner' = spawner /\ cancelled' = cancelled /\ reading' = reading
          /\ DOMAIN url' = DOMAIN url
          /\ card' = card \/ card' = card \cup {[domain |-> d, url |-> url[d]]}
          /\ errors' = errors \/ errors' = errors \cup {d}
        BY <1>3 DEF SVCBLookup, TXTLookup, FetchCard, SendItem, sendErr, GiveUp
    <2>. QED
        BY <2>1, <2>2, <2>3 DEF TypeOK, LookupsBounded, Counted, Within
<1>4. ASSUME NEW d \in Domains, Release(d)
      PROVE  TypeOK' /\ LookupsBounded' /\ Counted'
    <2>1. /\ Goto(d, "done") /\ pc[d] = "release"
          /\ wg' = wg - 1 /\ sem' = sem - 1
        BY <1>4 DEF Release
    <2>2. /\ Cardinality(Within(InSection)') = Cardinality(Within(InSection)) - 1
          /\ Cardinality(Within(Started)') = Cardinality(Within(Started)) - 1
          /\ Cardinality(Within(InSection)) > 0
          /\ Cardinality(Within(Started)) > 0
          /\ pc' \in [Domains -> Places]
        BY <2>1, Moves DEF InSection, Started, Places
    <2>. QED
        BY <1>4, <2>1, <2>2, Parameters
           DEF Release, TypeOK, LookupsBounded, Counted, Within
<1>5. CASE EndSpawning \/ Close \/ StopReading \/ Cancel \/ UNCHANGED vars
    BY <1>5 DEF EndSpawning, Close, StopReading, Cancel, vars, TypeOK,
                LookupsBounded, Counted
<1>. QED
    BY <1>1, <1>2, <1>3, <1>4, <1>5 DEF Next, Step, Stopped

\* Channels are closed after every goroutine, and none is started after that.
LEMMA FinalKept ==
    ASSUME Inv, [Next]_vars
    PROVE  ClosedIsFinal'
<1> USE DEF Inv, ClosedIsFinal
<1>1. CASE Close
    <2>1. Cardinality(Within(Started)) = 0
        BY <1>1 DEF Close, Counted, Within
    <2>2. Within(Started) = {}
        BY <2>1, Parameters, FS_Subset, FS_EmptySet DEF Within
    <2>. QED
        BY <1>1, <2>2 DEF Close, Within, TypeOK, Started
<1>2. ASSUME NEW d \in Domains, Step(d)
      PROVE  ClosedIsFinal'
    <2>1. spawner' = spawner
        BY <1>2 DEF Step, Spawn, Acquire, SVCBLookup, TXTLookup, FetchCard,
                    SendItem, sendErr, GiveUp, Release
    <2>2. pc[d] = "new" => spawner = "spawning"
        BY <1>2 DEF Step, Spawn, Acquire, SVCBLookup, TXTLookup, FetchCard,
                    SendItem, sendErr, GiveUp, Release
    <2>3. pc[d] # "done"
        BY <1>2 DEF Step, Spawn, Acquire, SVCBLookup, TXTLookup, FetchCard,
                    SendItem, sendErr, GiveUp, Release
    <2>. QED
        BY <2>1, <2>2, <2>3
<1>3. CASE EndSpawning \/ StopReading \/ Cancel \/ UNCHANGED vars
    BY <1>3 DEF EndSpawning, StopReading, Cancel, vars
<1>. QED
    BY <1>1, <1>2, <1>3 DEF Next, Stopped

\* What a step of one goroutine leaves alone of the others.
LEMMA Others ==
    ASSUME Inv, NEW d \in Domains, Step(d), NEW x \in Domains, x # d
    PROVE  /\ pc'[x] = pc[x] /\ url'[x] = url[x]
           /\ x \in errors' <=> x \in errors
           /\ Answered(x)' <=> Answered(x)
           /\ cancelled' = cancelled
           /\ Explained(x) => Explained(x)'
<1> USE DEF Inv, TypeOK, Goto, Answered, Explained, consumer
<1>1. CASE Spawn(d) \/ Acquire(d) \/ Release(d)
    BY <1>1 DEF Spawn, Acquire, Release
<1>2. CASE SVCBLookup(d) \/ TXTLookup(d)
    BY <1>2 DEF SVCBLookup, TXTLookup
<1>3. CASE FetchCard(d) \/ sendErr(d) \/ GiveUp(d)
    BY <1>3 DEF FetchCard, sendErr, GiveUp
<1>4. CASE SendItem(d)
    BY <1>4 DEF SendItem
<1>. QED
    BY <1>1, <1>2, <1>3, <1>4 DEF Step

LEMMA Ahead ==
    ASSUME Inv, NEW d \in Domains, Step(d)
    PROVE  spawner' = spawner /\ cancelled' = cancelled /\ pc'[d] # "new"
BY DEF Inv, TypeOK, Goto, Step, Spawn, Acquire, SVCBLookup, TXTLookup, FetchCard,
       SendItem, sendErr, GiveUp, Release

\* What the step does for its own domain.
LEMMA OwnWay ==
    ASSUME Inv, NEW d \in Domains, Step(d)
    PROVE  /\ pc'[d] = "txt" => SVCBAgents(d) = {}
           /\ pc'[d] \in {"http", "item"} =>
                url'[d].host \in Advertised(d) /\ url'[d].path = "card"
           /\ pc'[d] \notin {"release", "done"} =>
                d \notin errors' /\ ~Answered(d)'
           /\ pc'[d] \in {"release", "done"} /\ ~cancelled' => Explained(d)'
<1> USE DEF Inv, TypeOK, OnItsWay, Goto, consumer
<1>1. CASE Spawn(d) \/ Acquire(d) \/ FetchCard(d)
    BY <1>1 DEF Spawn, Acquire, FetchCard, Answered
<1>2. CASE SVCBLookup(d)
    <2>1. pc[d] = "svcb" /\ UNCHANGED <<card, errors, cancelled>>
        BY <1>2 DEF SVCBLookup
    <2>2. d \notin errors' /\ ~Answered(d)'
        BY <2>1 DEF Answered
    <2>3. CASE pc'[d] = "http"
        <3>1. PICK k \in First(SVCBAgents(d)) :
                url' = [url EXCEPT ![d] = buildCardURL(
                    [host |-> resolveTarget(
                        defaultSVCBLookup(Zone[d].svcb)[k].target, d), path |-> ""])]
            BY <1>2, <2>3, AgentsFound DEF SVCBLookup
        <3>2. defaultSVCBLookup(Zone[d].svcb) = Zone[d].svcb.records
            BY AgentsFound DEF First
        <3>3. url'[d] = buildCardURL(
                [host |-> resolveTarget(Zone[d].svcb.records[k].target, d),
                 path |-> ""])
            BY <3>1, <3>2
        <3>. QED
            BY <2>2, <2>3, <3>3, SVCBFound
    <2>4. CASE pc'[d] = "txt"
        BY <1>2, <2>2, <2>4, AgentsFound DEF SVCBLookup
    <2>5. pc'[d] \in {"http", "txt", "err"}
        BY <1>2 DEF SVCBLookup
    <2>. QED
        BY <2>2, <2>3, <2>4, <2>5
<1>3. CASE TXTLookup(d)
    <2>1. /\ pc[d] = "txt" /\ SVCBAgents(d) = {}
          /\ UNCHANGED <<card, errors, cancelled>>
        BY <1>3 DEF TXTLookup
    <2>2. d \notin errors' /\ ~Answered(d)'
        BY <2>1 DEF Answered
    <2>3. CASE pc'[d] = "http"
        <3>1. PICK k \in First(TXTAgents(d)) :
                url' = [url EXCEPT ![d] = buildCardURL(Zone[d].txt.records[k].url)]
            BY <1>3, <2>3, AgentsFound DEF TXTLookup
        <3>. QED
            BY <2>1, <2>2, <2>3, <3>1, TXTFound
    <2>4. CASE pc'[d] = "release"
        <3>1. TXTAgents(d) = {} /\ Zone[d].txt.rcode # "failure"
            BY <1>3, <2>4, AgentsFound DEF TXTLookup
        <3>. QED
            BY <2>1, <2>4, <3>1 DEF Explained
    <2>5. pc'[d] \in {"http", "release", "err"}
        BY <1>3 DEF TXTLookup
    <2>. QED
        BY <2>2, <2>3, <2>4, <2>5
<1>4. CASE SendItem(d)
    <2>1. /\ pc'[d] = "release"
          /\ card' = card \cup {[domain |-> d, url |-> url[d]]}
        BY <1>4 DEF SendItem
    <2>2. /\ [domain |-> d, url |-> url[d]] \in card'
          /\ [domain |-> d, url |-> url[d]].domain = d
        BY <2>1
    <2>3. Answered(d)'
        BY <2>2 DEF Answered
    <2>4. Explained(d)'
        BY <2>3 DEF Explained
    <2>. QED
        BY <2>1, <2>4
<1>5. CASE sendErr(d) \/ GiveUp(d)
    BY <1>5 DEF sendErr, GiveUp, Explained
<1>6. CASE Release(d)
    BY <1>6 DEF Release, Explained, Answered
<1>. QED
    BY <1>1, <1>2, <1>3, <1>4, <1>5, <1>6 DEF Step

LEMMA OnItsWayKept ==
    ASSUME Inv, [Next]_vars
    PROVE  OnItsWay'
<1> USE DEF Inv
<1>1. ASSUME NEW d \in Domains, Step(d)
      PROVE  OnItsWay'
    <2>1. ASSUME NEW x \in Domains
          PROVE  /\ pc'[x] = "txt" => SVCBAgents(x) = {}
                 /\ pc'[x] \in {"http", "item"} =>
                        url'[x].host \in Advertised(x) /\ url'[x].path = "card"
                 /\ pc'[x] \notin {"release", "done"} =>
                        x \notin errors' /\ ~Answered(x)'
                 /\ pc'[x] \in {"release", "done"} /\ ~cancelled' => Explained(x)'
        <3>1. CASE x = d
            BY <1>1, <3>1, OwnWay
        <3>2. CASE x # d
            BY <1>1, <3>2, Others DEF OnItsWay
        <3>. QED
            BY <3>1, <3>2
    <2>2. spawner' # "spawning" /\ ~cancelled' =>
            \A x \in Domains : pc'[x] # "new"
        <3>1. /\ spawner' = spawner /\ cancelled' = cancelled /\ pc'[d] # "new"
              /\ \A x \in Domains : x # d => pc'[x] = pc[x]
            BY <1>1, Others, Ahead
        <3>. QED
            BY <3>1 DEF OnItsWay
    <2>. QED
        BY <2>1, <2>2 DEF OnItsWay
<1>2. CASE EndSpawning \/ Close \/ StopReading \/ Cancel \/ UNCHANGED vars
    BY <1>2 DEF EndSpawning, Close, StopReading, Cancel, vars, consumer,
                OnItsWay, Explained, Answered
<1>. QED
    BY <1>1, <1>2 DEF Next, Stopped

\* A card is sent where its goroutine's URL came from, the only answer so far.
LEMMA CardsKept ==
    ASSUME Inv, [Next]_vars
    PROVE  CardIsAdvertised'
<1> USE DEF Inv, CardIsAdvertised
<1>1. ASSUME NEW d \in Domains, SendItem(d)
      PROVE  CardIsAdvertised'
    <2>1. /\ card' = card \cup {[domain |-> d, url |-> url[d]]}
          /\ errors' = errors
        BY <1>1 DEF SendItem
    <2>2. /\ url[d].host \in Advertised(d) /\ url[d].path = "card"
          /\ d \notin errors /\ \A c \in card : c.domain # d
        BY <1>1 DEF SendItem, OnItsWay, Answered
    <2>. QED
        BY <2>1, <2>2
<1>2. ASSUME NEW d \in Domains, sendErr(d)
      PROVE  CardIsAdvertised'
    <2>1. /\ card' = card /\ errors' = errors \cup {d}
          /\ \A c \in card : c.domain # d
        BY <1>2 DEF sendErr, OnItsWay, Answered
    <2>. QED
        BY <2>1
<1>3. CASE card' = card /\ errors' = errors
    BY <1>3
<1>4. ASSUME NEW d \in Domains, Step(d), ~SendItem(d), ~sendErr(d)
      PROVE  card' = card /\ errors' = errors
    BY <1>4 DEF Step, Spawn, Acquire, SVCBLookup, TXTLookup, FetchCard, GiveUp,
                Release, consumer
<1>5. CASE EndSpawning \/ Close \/ StopReading \/ Cancel \/ UNCHANGED vars
    BY <1>5 DEF EndSpawning, Close, StopReading, Cancel, vars, consumer
<1>. QED
    BY <1>1, <1>2, <1>3, <1>4, <1>5 DEF Next, Stopped

\* The inductive invariant holds: the semaphore's count is that of the lookups,
\* never above its size, and the channels are closed after all goroutines.
THEOREM InvHolds == Spec => []Inv
<1>1. Inv /\ [Next]_vars => Inv'
    BY CountsKept, FinalKept, OnItsWayKept, CardsKept DEF Inv
<1>. QED
    BY <1>1, InitInv, PTL DEF Spec

\* Each card comes from the record of its domain that takes precedence, and no
\* domain yields two cards or a card and an error.
THEOREM CardsAdvertised == Spec => []CardIsAdvertised
<1>1. Inv => CardIsAdvertised
    BY DEF Inv
<1>. QED
    BY <1>1, InvHolds, PTL

\* When the channels close uncancelled, every domain gave a card or an error or
\* is no agent's.
THEOREM NoDomainLost == Spec => []DomainsExplained
<1>1. Inv => DomainsExplained
    <2> SUFFICES ASSUME Inv, spawner = "closed", ~cancelled, NEW d \in Domains
                 PROVE  Explained(d)
        BY DEF DomainsExplained
    <2>1. pc[d] \in {"new", "done"} /\ pc[d] # "new"
        BY DEF Inv, ClosedIsFinal, OnItsWay
    <2>. QED
        BY <2>1 DEF Inv, OnItsWay
<1>. QED
    BY <1>1, InvHolds, PTL

----------------------------------------------------------------------------
(* Waiting for each other.                                                 *)

\* The guards of Step, EndSpawning and Close, put together: what TLC finds
\* ENABLED on the run's instance.
CanStep ==
    \/ spawner = "spawning"
    \/ spawner = "waiting" /\ wg = 0
    \/ \E d \in Domains :
        \/ pc[d] = "acquire" /\ sem < Concurrency
        \/ pc[d] \in {"svcb", "txt", "http", "release"}
        \/ pc[d] \in {"item", "err"} /\ (reading \/ cancelled)

NeverStuck == CanStep \/ spawner = "closed" \/ (~reading /\ ~cancelled)

\* Neither the semaphore nor the WaitGroup is waited for in vain: as long as
\* somebody reads, or the context is done, a goroutine can go on until both
\* channels are closed.
THEOREM NobodyStuck == Spec => []NeverStuck
<1>1. ASSUME Inv, spawner = "waiting", reading \/ cancelled
      PROVE  CanStep
    <2>1. /\ wg = Cardinality(Within(Started)) /\ wg \in Nat
          /\ sem = Cardinality(Within(InSection)) /\ sem \in Nat
          /\ pc \in [Domains -> Places]
        BY <1>1 DEF Inv, Counted, LookupsBounded, TypeOK, Within
    <2>2. CASE wg = 0
        BY <1>1, <2>2 DEF CanStep
    <2>3. CASE wg # 0
        <3>1. PICK d \in Domains : pc[d] \in Started
            <4>1. Within(Started) # {}
                BY <2>1, <2>3, FS_EmptySet
            <4>. QED
                BY <4>1 DEF Within
        <3>2. CASE pc[d] # "acquire"
            BY <1>1, <3>1, <3>2 DEF CanStep, Started, Places
        <3>3. CASE pc[d] = "acquire" /\ sem < Concurrency
            BY <3>3 DEF CanStep
        <3>4. CASE pc[d] = "acquire" /\ ~(sem < Concurrency)
            <4>1. sem # 0
                BY <2>1, <3>4, Parameters
            <4>2. Within(InSection) # {}
                BY <2>1, <4>1, FS_EmptySet
            <4>3. PICK e \in Domains : pc[e] \in InSection
                BY <4>2 DEF Within
            <4>. QED
                BY <1>1, <4>3 DEF CanStep, InSection
        <3>. QED
            BY <3>2, <3>3, <3>4
    <2>. QED
        BY <2>2, <2>3
<1>2. Inv => spawner \in {"spawning", "waiting", "closed"} /\ {reading, cancelled} \subseteq BOOLEAN
    BY DEF Inv, TypeOK
<1>3. Inv => NeverStuck
    BY <1>1, <1>2 DEF NeverStuck, CanStep
<1>. QED
    BY <1>3, InvHolds, PTL
=============================================================================
