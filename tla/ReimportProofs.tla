--------------------------- MODULE ReimportProofs ---------------------------
(***************************************************************************)
(* Proofs about DuplicateLookup and Reimport, for any histories of         *)
(* imports, any finite set of other clients' records and any limit of the  *)
(* search: a verdict is sound however the directory changes while it is    *)
(* reached, and no twin of a record that was there all along is stored.    *)
(***************************************************************************)
EXTENDS Reimport, FiniteSetTheorems, TLAPS

\* The records the lookup cannot miss.
Wanted == {r \in always : Matches(r)}

\* Between two lookups nothing is left of the last one; a lookup begins with
\* nothing collected; the stream is done when it has sent everything.
Fresh ==
    /\ pc = "idle" => lookup = NoLookup
    /\ pc \in {"idle", "search"} =>
        /\ unsent = {} /\ buffer = {} /\ cids = {} /\ pulled = {}
        /\ ~streamDone /\ ~duplicate /\ ~failed
    /\ streamDone => unsent = {}

\* What the search could see is on its way to the verdict.
OnTheWay ==
    Sighted =>
        /\ pc = "collect" => Wanted \subseteq unsent \cup cids
        /\ pc = "pull" => Wanted \subseteq cids
        /\ pc = "compare" => Wanted \subseteq pulled

LookupInv ==
    /\ LookupTypes /\ IsFiniteSet(ever) /\ StreamBuf \in Nat
    /\ Fresh /\ OnTheWay /\ VerdictSound

\* While an item is looked up, or waits for its verdict, Source is the record
\* made of it, if one is.
ItemInv ==
    /\ pc # "idle" /\ item.kind # "bad" =>
        item.kind # "file" /\ DOMAIN item.record = RecordFields
    /\ Source.name # "" => Content(Source) = Content(item.record)

\* No record on its way is a twin of one its lookup could not miss.
FlightInv ==
    \A k \in DOMAIN flight :
        /\ DOMAIN flight[k].record = RecordFields
        /\ Content(flight[k].record) \notin flight[k].known

\* A sequence of whatever values it has.
IsSeq(s) == s \in Seq({s[k] : k \in DOMAIN s})

StageTypes ==
    /\ history \in Histories /\ run \in 1..(Len(history) + 1)
    /\ turn \in Nat /\ clock \in 1..MaxTime
    /\ Len(flight) <= Room
    /\ IsSeq(flight) /\ IsSeq(pushed)
    /\ \A r \in files : DOMAIN r = RecordFields
    /\ \A k \in DOMAIN pushed : DOMAIN pushed[k].record = RecordFields

Inv ==
    /\ LookupInv /\ StageTypes /\ ItemInv /\ FlightInv /\ NoTwin

----------------------------------------------------------------------------
\* A content hash tells records apart by their content and by nothing else.
LEMMA HashIsContent ==
    ASSUME NEW r, NEW q, DOMAIN r = RecordFields, DOMAIN q = RecordFields
    PROVE  contentHash(r) = contentHash(q) <=> Content(r) = Content(q)
<1>1. ASSUME contentHash(r) = contentHash(q)
      PROVE  Content(r) = Content(q)
    <2>1. \A f \in {"name", "version", "module", "body"} :
            contentHash(r)[f] = r[f] /\ contentHash(q)[f] = q[f]
        BY DEF contentHash, RecordFields
    <2>. QED
        BY <1>1, <2>1 DEF Content
<1>2. ASSUME Content(r) = Content(q)
      PROVE  contentHash(r) = contentHash(q)
    <2>1. \A f \in RecordFields : contentHash(r)[f] = contentHash(q)[f]
        BY <1>2 DEF contentHash, Content, RecordFields
    <2>. QED
        BY <2>1 DEF contentHash
<1>. QED
    BY <1>1, <1>2

LEMMA Order ==
    /\ \A a, b, c \in Nat : a <= b /\ b <= c => a <= c
    /\ \A a, b \in Nat : a <= b /\ b <= a => a = b
    /\ 0 <= 0
OBVIOUS

LEMMA Parameters ==
    /\ IsFiniteSet(Foreign) /\ \A r \in Foreign : DOMAIN r = RecordFields
    /\ Limit \in Nat /\ MaxOthers \in Nat
BY LookupAssumption

\* While a lookup is under way the directory's past only grows and calls that
\* failed have failed: a search that sees everything now has done so all along.
LEMMA StillSighted ==
    ASSUME lookup' = lookup, ever \subseteq ever', IsFiniteSet(ever'),
           failed => failed', Sighted'
    PROVE  Sighted
<1> DEFINE M == {r \in ever : Matches(r)}
<1>1. M \subseteq M' /\ IsFiniteSet(M')
    <2>1. M \subseteq M' /\ M' \subseteq ever'
        BY DEF Matches, Source, ImportModules
    <2>. QED
        BY <2>1, FS_Subset
<1>2. Cardinality(M) <= Cardinality(M') /\ Cardinality(M) \in Nat
        /\ Cardinality(M') \in Nat
    BY <1>1, FS_Subset, FS_CardinalityType
<1>3. Cardinality(M') <= Limit /\ Source.name # "" /\ StreamBuf = 0
    BY DEF Sighted, Source, StreamBuf
<1>4. ~failed
    BY Zenon DEF Sighted
<1>5. Cardinality(M) <= Limit
    BY <1>2, <1>3, Order, Parameters, Zenon
<1>. QED
    BY <1>3, <1>4, <1>5, Zenon DEF Sighted

\* An unbuffered stream holds nothing.
LEMMA Unbuffered ==
    ASSUME LookupInv, StreamBuf = 0
    PROVE  buffer = {} /\ ~(Cardinality(buffer) < StreamBuf)
<1>1. IsFiniteSet(buffer) /\ Cardinality(buffer) <= 0
    BY FS_Subset DEF LookupInv, LookupTypes
<1>. QED
    BY <1>1, FS_CardinalityType, FS_EmptySet

----------------------------------------------------------------------------
\* The steps of isDuplicate.
LEMMA SearchKeeps == ASSUME LookupInv, SearchCIDs PROVE LookupInv'
<1> USE DEF LookupInv, SearchCIDs, Decide, outside, stream
<1>1. LookupTypes' /\ IsFiniteSet(ever)' /\ StreamBuf' \in Nat
    BY DEF LookupTypes, Source, StreamBuf, Candidates
<1>2. Fresh'
    BY DEF Fresh
<1>3. OnTheWay'
    <2>1. SUFFICES ASSUME Sighted', pc' = "collect" PROVE Wanted' \subseteq unsent'
        BY DEF OnTheWay
    <2>2. Sighted
        <3>1. failed => failed'
            BY DEF Fresh
        <3>. QED
            BY <2>1, <3>1, StillSighted
    <2> DEFINE M == {r \in ever : Matches(r)}
    <2>3. unsent' \subseteq M /\ Wanted \subseteq Candidates /\ Candidates \subseteq M
        BY <2>1 DEF Candidates, Wanted, LookupTypes
    <2>4. IsFiniteSet(M) /\ Cardinality(M) <= Limit
        BY <2>2, FS_Subset DEF Sighted
    <2>5. CASE Cardinality(unsent') = Limit
        <3>1. /\ IsFiniteSet(unsent') /\ Cardinality(unsent') <= Cardinality(M)
              /\ Cardinality(M) = Cardinality(unsent') => M = unsent'
            BY <2>3, <2>4, FS_Subset
        <3>2. Cardinality(unsent') \in Nat /\ Cardinality(M) \in Nat
            BY <2>4, <3>1, FS_CardinalityType
        <3>3. unsent' = M
            BY <2>4, <2>5, <3>1, <3>2, Order, Parameters, Zenon
        <3>. QED
            BY <2>3, <3>3 DEF Wanted, Matches, Source, ImportModules
    <2>6. CASE unsent' = Candidates
        BY <2>3, <2>6 DEF Wanted, Matches, Source, ImportModules
    <2>. QED
        BY <2>1, <2>5, <2>6
<1>4. VerdictSound'
    <2>1. pc' = "decided" => Source'.name = "" \/ failed'
        BY DEF Source
    <2>2. pc' = "decided" => ~Sighted'
        BY <2>1, Zenon DEF Sighted
    <2>3. ~duplicate'
        BY DEF Fresh
    <2>. QED
        BY <2>2, <2>3 DEF VerdictSound
<1>. QED
    BY <1>1, <1>2, <1>3, <1>4

\* What leaves the source and the directory's past alone, and forgives no
\* failure, keeps a search sighted only if it was.
LEMMA SameSight ==
    ASSUME LookupInv, UNCHANGED outside, failed => failed', Sighted'
    PROVE  Sighted
BY StillSighted DEF LookupInv, outside

\* A channel that is not full takes one more.
LEMMA Capacity ==
    ASSUME NEW B, IsFiniteSet(B), NEW n \in Nat, Cardinality(B) <= n, NEW r
    PROVE  /\ Cardinality(B \ {r}) <= n
           /\ Cardinality(B) < n => Cardinality(B \cup {r}) <= n
BY FS_CardinalityType, FS_AddElement, FS_RemoveElement

LEMMA StreamKeeps ==
    ASSUME LookupInv, StreamSend \/ StreamClose \/ CollectResult
    PROVE  LookupInv'
<1> USE DEF LookupInv, StreamSend, StreamClose, CollectResult, outside
<1>1. Cardinality(buffer') <= StreamBuf'
    <2>1. /\ IsFiniteSet(buffer) /\ Cardinality(buffer) <= StreamBuf
          /\ StreamBuf' = StreamBuf
        BY FS_Subset DEF LookupTypes, StreamBuf
    <2>2. CASE StreamSend
        <3>1. PICK r \in unsent : buffer' = buffer \cup {r}
            BY <2>2
        <3>2. Cardinality(buffer) < StreamBuf
            BY <2>2
        <3>. QED
            BY <2>1, <3>1, <3>2, Capacity, Zenon
    <2>3. CASE StreamClose
        BY <2>1, <2>3 DEF stream
    <2>4. CASE CollectResult
        <3>1. PICK r : buffer' = buffer \ {r}
            BY <2>4
        <3>. QED
            BY <2>1, <3>1, Capacity, Zenon
    <2>. QED
        BY <2>2, <2>3, <2>4
<1>2. LookupTypes' /\ IsFiniteSet(ever)' /\ StreamBuf' \in Nat
    BY <1>1 DEF LookupTypes, Source, StreamBuf
<1>3. Fresh'
    BY DEF Fresh
<1>4. OnTheWay'
    <2>1. SUFFICES ASSUME Sighted' PROVE Wanted' \subseteq unsent' \cup cids'
        BY DEF OnTheWay
    <2>2. failed => failed'
        OBVIOUS
    <2>3. Sighted
        BY <2>1, <2>2, SameSight
    <2>4. StreamBuf = 0 /\ Wanted \subseteq unsent \cup cids /\ Wanted' = Wanted
        BY <2>3 DEF Sighted, OnTheWay, Wanted, Matches, Source, ImportModules
    <2>5. ~StreamSend
        BY <2>4, Unbuffered
    <2>. QED
        BY <2>4, <2>5
<1>5. VerdictSound'
    BY DEF VerdictSound, Source
<1>. QED
    BY <1>2, <1>3, <1>4, <1>5

LEMMA CollectKeeps ==
    ASSUME LookupInv, CollectDone \/ CollectFailed
    PROVE  LookupInv'
<1> USE DEF LookupInv, CollectDone, CollectFailed, Decide, outside, stream
<1>1. LookupTypes' /\ IsFiniteSet(ever)' /\ StreamBuf' \in Nat
    BY DEF LookupTypes, Source, StreamBuf
<1>2. Fresh'
    BY DEF Fresh
<1>3. OnTheWay' /\ VerdictSound'
    <2>1. CASE CollectFailed
        <3>1. ~Sighted' /\ ~duplicate'
            BY <2>1, Zenon DEF Sighted
        <3>. QED
            BY <3>1, Zenon DEF OnTheWay, VerdictSound
    <2>2. CASE CollectDone /\ ~Sighted'
        <3>1. duplicate' => duplicate
            BY <2>2
        <3>. QED
            BY <2>2, <3>1 DEF OnTheWay, VerdictSound, Source
    <2>3. CASE CollectDone /\ Sighted'
        <3>1. failed => failed'
            BY <2>3
        <3>2. Sighted
            BY <2>3, <3>1, SameSight
        <3>3. Wanted' = Wanted /\ Wanted \subseteq cids
            BY <2>3, <3>2 DEF OnTheWay, Fresh, Wanted, Matches, Source, ImportModules
        <3>4. OnTheWay'
            BY <2>3, <3>3 DEF OnTheWay
        <3>5. VerdictSound'
            BY <2>3, <3>3 DEF VerdictSound, Source, Wanted
        <3>. QED
            BY <3>4, <3>5
    <2>. QED
        BY <2>1, <2>2, <2>3
<1>. QED
    BY <1>1, <1>2, <1>3

LEMMA PullKeeps == ASSUME LookupInv, PullBatch PROVE LookupInv'
<1> USE DEF LookupInv, PullBatch, Decide, outside, stream
<1>1. LookupTypes' /\ IsFiniteSet(ever)' /\ StreamBuf' \in Nat
    BY DEF LookupTypes, Source, StreamBuf
<1>2. Fresh'
    BY DEF Fresh
<1>3. CASE pc' = "decided"
    <2>1. ~Sighted' /\ ~duplicate'
        BY <1>3, Zenon DEF Sighted
    <2>2. OnTheWay' /\ VerdictSound'
        BY <2>1, Zenon DEF OnTheWay, VerdictSound
    <2>. QED
        BY <1>1, <1>2, <2>2
<1>4. CASE pc' = "compare"
    <2>1. pulled' = cids \cap directory /\ (failed => failed')
        BY <1>4
    <2>2. VerdictSound'
        BY <1>4 DEF VerdictSound, Source
    <2>3. ASSUME Sighted' PROVE Wanted' \subseteq pulled'
        <3>1. Sighted
            BY <2>1, <2>3, SameSight
        <3>. QED
            BY <2>1, <3>1
               DEF OnTheWay, LookupTypes, Wanted, Matches, Source, ImportModules
    <2>4. OnTheWay'
        BY <1>4, <2>3 DEF OnTheWay
    <2>. QED
        BY <1>1, <1>2, <2>2, <2>4
<1>. QED
    BY <1>3, <1>4

LEMMA CompareKeeps == ASSUME LookupInv, CompareHashes PROVE LookupInv'
<1> USE DEF LookupInv, CompareHashes, Decide, outside, stream
<1>1. LookupTypes' /\ IsFiniteSet(ever)' /\ StreamBuf' \in Nat
    BY DEF LookupTypes, Source, StreamBuf
<1>2. Fresh' /\ OnTheWay'
    BY DEF Fresh, OnTheWay
<1>3. \A r \in ever : contentHash(r) = contentHash(Source)
                        <=> Content(r) = Content(Source)
    BY HashIsContent DEF LookupTypes
<1>4. duplicate' <=> \E r \in pulled : Content(r) = Content(Source)
    BY <1>3, Zenon DEF LookupTypes
<1>5. Source' = Source /\ ever' = ever /\ pulled \subseteq ever
    BY DEF Source, LookupTypes
<1>6. duplicate' => \E r \in ever' : Content(r) = Content(Source')
    BY <1>4, <1>5
<1>7. ASSUME Sighted', NEW r \in always', Matches(r)', Content(r) = Content(Source')
      PROVE  duplicate'
    <2>1. failed => failed'
        OBVIOUS
    <2>2. Sighted
        BY <1>7, <2>1, SameSight
    <2>3. r \in pulled
        BY <1>7, <2>2 DEF OnTheWay, Wanted, Matches, Source, ImportModules
    <2>. QED
        BY <1>4, <1>5, <1>7, <2>3
<1>8. VerdictSound'
    BY <1>6, <1>7, Zenon DEF VerdictSound, Content
<1>. QED
    BY <1>1, <1>2, <1>8

LEMMA LookupKeeps == ASSUME LookupInv, Lookup PROVE LookupInv'
BY SearchKeeps, StreamKeeps, CollectKeeps, PullKeeps, CompareKeeps DEF Lookup

----------------------------------------------------------------------------
\* The directory may change under a lookup.
LEMMA BecomesKeeps ==
    ASSUME LookupInv, NEW d, Becomes(d), IsFiniteSet(d),
           \A r \in d : DOMAIN r = RecordFields, others' \in 0..MaxOthers,
           UNCHANGED <<lookup, pc, stream, cids, pulled, duplicate, failed,
                       cancelled>>
    PROVE  LookupInv'
<1> USE DEF LookupInv, Becomes, stream
<1>1. IsFiniteSet(ever') /\ ever \subseteq ever'
    BY FS_Union
<1>2. Cardinality(buffer') <= StreamBuf' /\ StreamBuf' \in Nat
    BY DEF LookupTypes, StreamBuf
<1>3. LookupTypes'
    BY <1>2 DEF LookupTypes, Source, StreamBuf
<1>4. Fresh'
    BY DEF Fresh
<1>5. Wanted' \subseteq Wanted
    BY DEF Wanted, Matches, Source, ImportModules
<1>6. Sighted' => Sighted
    BY <1>1, StillSighted
<1>7. OnTheWay'
    BY <1>5, <1>6 DEF OnTheWay
<1>8. duplicate' => \E r \in ever' : Content(r) = Content(Source')
    BY <1>1 DEF VerdictSound, Source
<1>9. ASSUME pc' = "decided", Sighted',
             NEW r \in always', Matches(r)', Content(r) = Content(Source')
      PROVE  duplicate'
    <2>1. r \in always /\ Matches(r) /\ Content(r) = Content(Source)
        BY <1>9 DEF Matches, Source, ImportModules
    <2>. QED
        BY <1>6, <1>9, <2>1 DEF VerdictSound
<1>10. VerdictSound'
    BY <1>8, <1>9, Zenon DEF VerdictSound, Content
<1>. QED
    BY <1>1, <1>2, <1>3, <1>4, <1>7, <1>10

LEMMA OthersKeep == ASSUME LookupInv, OtherClient PROVE LookupInv'
<1>1. PICK r \in Foreign \cup directory :
        Becomes(IF r \in directory THEN directory \ {r} ELSE directory \cup {r})
    BY DEF OtherClient
<1> DEFINE d == IF r \in directory THEN directory \ {r} ELSE directory \cup {r}
<1>2. IsFiniteSet(directory) /\ \A q \in directory : DOMAIN q = RecordFields
    BY FS_Subset DEF LookupInv, LookupTypes
<1>3. IsFiniteSet(d)
    BY <1>2, FS_AddElement, FS_RemoveElement
<1>4. \A q \in d : DOMAIN q = RecordFields
    BY <1>2, Parameters
<1>5. others' \in 0..MaxOthers
    BY Parameters DEF OtherClient, LookupInv, LookupTypes
<1> HIDE DEF d
<1>. QED
    BY <1>1, <1>3, <1>4, <1>5, BecomesKeeps DEF OtherClient, d

\* A lookup of a record begins where the last one ended.
LEMMA EnterKeeps ==
    ASSUME LookupInv, pc = "idle", NEW l, Enter(l),
           DOMAIN l.source = RecordFields, l.buffer \in Nat
    PROVE  LookupInv'
<1> USE DEF LookupInv, Enter, stream
<1>1. IsFiniteSet(ever')
    BY FS_Subset DEF LookupTypes
<1>2. Cardinality(buffer') <= StreamBuf'
    <2>1. Cardinality(buffer') = 0
        BY FS_EmptySet DEF Fresh
    <2>. QED
        BY <2>1 DEF StreamBuf
<1>3. LookupTypes'
    BY <1>2 DEF LookupTypes, Fresh, Source, StreamBuf
<1>4. Fresh' /\ OnTheWay' /\ VerdictSound' /\ StreamBuf' \in Nat
    BY DEF Fresh, OnTheWay, VerdictSound, StreamBuf
<1>. QED
    BY <1>1, <1>3, <1>4

\* Its end leaves nothing behind.
LEMMA LeaveKeeps ==
    ASSUME LookupInv, Leave, UNCHANGED <<directory, ever, always, others>>,
           cancelled' \in BOOLEAN
    PROVE  LookupInv'
<1> USE DEF LookupInv, Leave
<1>1. Source' = NoLookup.source /\ StreamBuf' = 0 /\ Source'.name = ""
      /\ DOMAIN Source' = RecordFields
    BY DEF Source, StreamBuf, NoLookup, RecordFields
<1>2. Cardinality(buffer') <= StreamBuf'
    <2>1. Cardinality(buffer') = 0
        BY FS_EmptySet
    <2>. QED
        BY <1>1, <2>1, Order, Zenon
<1>3. LookupTypes'
    BY <1>1, <1>2 DEF LookupTypes
<1>4. Fresh' /\ OnTheWay' /\ VerdictSound'
    BY DEF Fresh, OnTheWay, VerdictSound
<1>. QED
    BY <1>1, <1>3, <1>4

----------------------------------------------------------------------------
LEMMA AnySeq == ASSUME NEW E, NEW t \in Seq(E) PROVE IsSeq(t)
<1> DEFINE S == {t[k] : k \in DOMAIN t}
<1>1. \A k \in DOMAIN t : t[k] \in S
    OBVIOUS
<1>2. Len(t) \in Nat /\ DOMAIN t = 1..Len(t) /\ t = [k \in 1..Len(t) |-> t[k]]
    OBVIOUS
<1>3. t \in Seq(S)
    <2> HIDE DEF S
    <2>. QED
        BY <1>1, <1>2
<1>. QED
    BY <1>3 DEF IsSeq

LEMMA Appended ==
    ASSUME NEW s, IsSeq(s), NEW e, NEW t, t = Append(s, e)
    PROVE  /\ IsSeq(t) /\ Len(t) = Len(s) + 1 /\ Len(s) \in Nat
           /\ \A k \in DOMAIN t : t[k] = e \/ (k \in DOMAIN s /\ t[k] = s[k])
<1> DEFINE E == {s[k] : k \in DOMAIN s} \cup {e}
<1>1. s \in Seq(E)
    <2>1. \A k \in DOMAIN s : s[k] \in E
        OBVIOUS
    <2>2. Len(s) \in Nat /\ DOMAIN s = 1..Len(s) /\ s = [k \in 1..Len(s) |-> s[k]]
        BY DEF IsSeq
    <2> HIDE DEF E
    <2>. QED
        BY <2>1, <2>2
<1>2. e \in E
    OBVIOUS
<1> HIDE DEF E
<1>3. t \in Seq(E) /\ Len(t) = Len(s) + 1 /\ Len(s) \in Nat
    BY <1>1, <1>2
<1>4. \A k \in DOMAIN t : t[k] = e \/ (k \in DOMAIN s /\ t[k] = s[k])
    BY <1>1, <1>2
<1>. QED
    BY <1>3, <1>4, AnySeq

LEMMA Taken ==
    ASSUME NEW s, IsSeq(s), s # << >>, NEW t, t = Tail(s)
    PROVE  /\ IsSeq(t) /\ Len(t) = Len(s) - 1 /\ Len(s) \in Nat
           /\ 1 \in DOMAIN s /\ Head(s) = s[1]
           /\ \A k \in DOMAIN t : k + 1 \in DOMAIN s /\ t[k] = s[k + 1]
<1> DEFINE E == {s[k] : k \in DOMAIN s}
<1>1. s \in Seq(E)
    BY DEF IsSeq
<1> HIDE DEF E
<1>2. t \in Seq(E) /\ Len(t) = Len(s) - 1 /\ Len(s) \in Nat
      /\ 1 \in DOMAIN s /\ Head(s) = s[1]
      /\ \A k \in DOMAIN t : k + 1 \in DOMAIN s /\ t[k] = s[k + 1]
    BY <1>1
<1>. QED
    BY <1>2, AnySeq

----------------------------------------------------------------------------
\* What the imports are.
LEMMA Imports ==
    ASSUME StageTypes, Running
    PROVE  /\ IsSeq(history) /\ run + 1 \in 1..(Len(history) + 1)
           /\ Import.buffer \in Nat
           /\ \A i \in DOMAIN Items : ItemOK(Items[i])
<1>1. IsSeq(history) /\ run \in DOMAIN history
    BY ReimportAssumption DEF StageTypes, Running, IsSeq
<1>2. run + 1 \in 1..(Len(history) + 1)
    BY <1>1 DEF IsSeq
<1>. QED
    BY <1>1, <1>2, ReimportAssumption DEF StageTypes, Import, Items

\* Making the record anew changes nothing a twin is known by.
LEMMA Remade ==
    ASSUME NEW i, DOMAIN i.record = RecordFields, NEW t
    PROVE  /\ DOMAIN TransformRecord(i, t) = RecordFields
           /\ Content(TransformRecord(i, t)) = Content(i.record)
BY DEF TransformRecord, Content, RecordFields

\* Neither does the enricher, nor the stripping of debug fields.
LEMMA LeavingTwin ==
    ASSUME NEW r, DOMAIN r = RecordFields, NEW t
    PROVE  /\ DOMAIN StripImportDebugFields(Enriched(r, t)) = RecordFields
           /\ Content(StripImportDebugFields(Enriched(r, t))) = Content(r)
BY DEF StripImportDebugFields, Enriched, Content, RecordFields

\* What does not touch the stages leaves their invariants alone.
LEMMA StagesKept ==
    ASSUME Inv, UNCHANGED <<history, run, flight, pushed, files>>,
           turn' \in Nat, clock' \in 1..MaxTime
    PROVE  StageTypes' /\ FlightInv' /\ NoTwin'
BY DEF Inv, StageTypes, FlightInv, NoTwin, IsSeq

LEMMA BeginKeeps ==
    ASSUME Inv, Running, pc = "idle", NEW i, i.kind # "file",
           i.kind # "bad" => DOMAIN i.record = RecordFields,
           Begin(i), UNCHANGED <<history, run, turn, Stages>>
    PROVE  Inv'
<1> USE DEF Inv
<1>1. StageTypes' /\ FlightInv' /\ NoTwin'
    <2>1. turn' \in Nat /\ clock' \in 1..MaxTime
        BY DEF Begin, Now, StageTypes
    <2>. QED
        BY <2>1, StagesKept DEF Stages
<1>2. CASE Import.force \/ i.kind = "bad"
    <2>1. /\ pc' = "decided" /\ lookup' = lookup /\ lookup = NoLookup /\ item' = i
          /\ UNCHANGED <<outside, stream, cids, pulled, duplicate, failed, cancelled>>
        BY <1>2 DEF Begin, LookupInv, Fresh, outside
    <2>2. LookupTypes' /\ IsFiniteSet(ever)' /\ StreamBuf' \in Nat
        BY <2>1 DEF LookupInv, LookupTypes, Source, StreamBuf, outside, stream
    <2>3. Source' = Source /\ Source.name = "" /\ duplicate' = duplicate /\ ~duplicate
        BY <2>1 DEF Source, NoLookup, RecordFields, LookupInv, Fresh
    <2>4. Fresh'
        BY <2>1 DEF LookupInv, Fresh, stream
    <2>5. ~Sighted'
        BY <2>3 DEF Sighted
    <2>6. ~duplicate'
        BY <2>3, Zenon
    <2>7. OnTheWay' /\ VerdictSound'
        BY <2>5, <2>6, Zenon DEF OnTheWay, VerdictSound
    <2>8. ItemInv'
        BY <2>1, <2>3 DEF ItemInv
    <2>. QED
        BY <1>1, <2>2, <2>4, <2>7, <2>8 DEF LookupInv
<1>3. CASE ~(Import.force \/ i.kind = "bad")
    <2> DEFINE l == [source |-> TransformRecord(i, clock'),
                     modules |-> Import.modules, buffer |-> Import.buffer]
    <2>1. Enter(l) /\ item' = i
        BY <1>3 DEF Begin
    <2>2. /\ DOMAIN l.source = RecordFields /\ l.buffer \in Nat
          /\ Content(l.source) = Content(i.record)
        BY <1>3, Remade, Imports
    <2> HIDE DEF l
    <2>3. LookupInv'
        BY <2>1, <2>2, EnterKeeps
    <2>4. ItemInv'
        BY <1>3, <2>1, <2>2 DEF ItemInv, Enter, Source, Content
    <2>. QED
        BY <1>1, <2>3, <2>4
<1>. QED
    BY <1>2, <1>3

LEMMA FilterKeeps == ASSUME Inv, FilterDuplicates PROVE Inv'
<1>1. /\ Running /\ pc = "idle" /\ turn \in DOMAIN Items
      /\ UNCHANGED <<history, run, turn, Stages>>
    BY DEF FilterDuplicates
<1>2. CASE Items[turn].kind # "file" /\ Begin(Items[turn])
    <2>1. Items[turn].kind # "bad" => DOMAIN Items[turn].record = RecordFields
        BY <1>1, <1>2, Imports DEF Inv, ItemOK
    <2>. QED
        BY <1>1, <1>2, <2>1, BeginKeeps
<1>3. CASE \E r \in files : Begin([kind |-> "oasf", record |-> r])
    <2>1. PICK r \in files : Begin([kind |-> "oasf", record |-> r])
        BY <1>3
    <2> DEFINE i == [kind |-> "oasf", record |-> r]
    <2>2. i.kind # "file" /\ DOMAIN i.record = RecordFields
        BY DEF Inv, StageTypes
    <2> HIDE DEF i
    <2>3. Begin(i)
        BY <2>1 DEF i
    <2>. QED
        BY <1>1, <2>2, <2>3, BeginKeeps
<1>. QED
    BY <1>2, <1>3 DEF FilterDuplicates

\* A verdict taken over: the transformer's record is no twin of one the lookup
\* could not miss.
LEMMA PassOnKeeps == ASSUME Inv, PassOn PROVE Inv'
<1> USE DEF Inv
<1>1. Leave /\ UNCHANGED <<directory, ever, always, others>> /\ cancelled' \in BOOLEAN
    BY DEF PassOn, LookupInv, LookupTypes
<1>2. LookupInv'
    BY <1>1, LeaveKeeps
<1>3. ItemInv'
    BY <1>1 DEF ItemInv, Leave, Source, NoLookup, RecordFields
<1>4. NoTwin'
    BY DEF PassOn, NoTwin
<1>5. CASE flight' = flight /\ clock' = clock
    <2>1. turn' \in Nat /\ clock' \in 1..MaxTime
        BY <1>5 DEF PassOn, StageTypes
    <2>. QED
        BY <1>2, <1>3, <1>5, <2>1, StagesKept DEF PassOn
<1>6. CASE /\ ~duplicate /\ item.kind # "bad" /\ Len(flight) < Room /\ Now
           /\ flight' = Append(flight,
                [record |-> TransformRecord(item, clock'), known |-> Known])
    <2> DEFINE e == [record |-> TransformRecord(item, clock'), known |-> Known]
    <2>1. /\ DOMAIN e.record = RecordFields
          /\ Content(e.record) = Content(item.record)
        BY <1>6, Remade DEF ItemInv, PassOn
    <2>2. Content(e.record) \notin e.known
        <3>1. SUFFICES ASSUME Sighted, NEW r \in always, Matches(r),
                              Content(r) = Content(item.record)
                       PROVE  FALSE
            BY <2>1 DEF Known
        <3>2. Content(r) = Content(Source)
            BY <3>1 DEF ItemInv, Sighted
        <3>3. duplicate
            BY <3>1, <3>2 DEF LookupInv, VerdictSound, PassOn
        <3>. QED
            BY <1>6, <3>3
    <2>7. flight' = Append(flight, e) /\ IsSeq(flight)
        BY <1>6 DEF StageTypes
    <2> HIDE DEF e
    <2>3. /\ IsSeq(flight') /\ Len(flight') = Len(flight) + 1 /\ Len(flight) \in Nat
          /\ \A k \in DOMAIN flight' :
                flight'[k] = e \/ (k \in DOMAIN flight /\ flight'[k] = flight[k])
        <3>1. \A t : t = Append(flight, e) =>
                /\ IsSeq(t) /\ Len(t) = Len(flight) + 1 /\ Len(flight) \in Nat
                /\ \A k \in DOMAIN t :
                     t[k] = e \/ (k \in DOMAIN flight /\ t[k] = flight[k])
            BY <2>7, Appended
        <3>. QED
            BY <2>7, <3>1
    <2>4. FlightInv'
        BY <2>1, <2>2, <2>3 DEF FlightInv, Content
    <2>5. Len(flight') <= Room
        BY <1>6, <2>3, ReimportAssumption
    <2>6. StageTypes'
        <3>1. clock' \in 1..MaxTime /\ turn' \in Nat
            BY <1>6, ReimportAssumption DEF PassOn, Now, StageTypes
        <3>2. UNCHANGED <<history, run, pushed, files>>
            BY DEF PassOn
        <3>. QED
            BY <2>3, <2>5, <3>1, <3>2 DEF StageTypes, IsSeq
    <2>. QED
        BY <1>2, <1>3, <1>4, <2>4, <2>6
<1>. QED
    BY <1>5, <1>6 DEF PassOn

\* The first record in flight leaves; the others are as they were.
LEMMA HeadLeaves ==
    ASSUME StageTypes, FlightInv, flight # << >>, flight' = Tail(flight)
    PROVE  /\ IsSeq(flight') /\ Len(flight') <= Room
           /\ \A k \in DOMAIN flight' :
                /\ DOMAIN flight'[k].record = RecordFields
                /\ Content(flight'[k].record) \notin flight'[k].known
           /\ DOMAIN Head(flight).record = RecordFields
           /\ Content(Head(flight).record) \notin Head(flight).known
<1>1. \A q : q = Tail(flight) =>
        /\ IsSeq(q) /\ Len(q) = Len(flight) - 1 /\ Len(flight) \in Nat
        /\ 1 \in DOMAIN flight /\ Head(flight) = flight[1]
        /\ \A k \in DOMAIN q : k + 1 \in DOMAIN flight /\ q[k] = flight[k + 1]
    BY Taken DEF StageTypes
<1>2. Len(flight) <= Room
    BY DEF StageTypes
<1>3. \A n \in Nat : n <= Room => n - 1 <= Room
    BY ReimportAssumption
<1>4. /\ IsSeq(flight') /\ Len(flight') = Len(flight) - 1 /\ Len(flight) \in Nat
      /\ 1 \in DOMAIN flight /\ Head(flight) = flight[1]
      /\ \A k \in DOMAIN flight' :
            k + 1 \in DOMAIN flight /\ flight'[k] = flight[k + 1]
    BY <1>1
<1>5. Len(flight') <= Room
    BY <1>2, <1>3, <1>4
<1>. QED
    BY <1>4, <1>5 DEF FlightInv

LEMMA DeliverKeeps == ASSUME Inv, Deliver PROVE Inv'
<1> USE DEF Inv
<1>1. PICK t \in Taxonomies :
        LET r == StripImportDebugFields(Enriched(Head(flight).record, t))
        IN  IF Import.dry
            THEN /\ files' = files \cup {r}
                 /\ UNCHANGED <<directory, ever, always, pushed>>
            ELSE /\ Becomes(directory \cup {r})
                 /\ pushed' = Append(pushed,
                        [record |-> r, known |-> Head(flight).known])
                 /\ UNCHANGED files
    BY DEF Deliver
<1> DEFINE r == StripImportDebugFields(Enriched(Head(flight).record, t))
           e == [record |-> r, known |-> Head(flight).known]
<1>2. /\ flight # << >> /\ flight' = Tail(flight)
      /\ UNCHANGED <<lookup, others, pc, stream, cids, pulled, duplicate, failed,
                     cancelled, itemVars, clock>>
    BY DEF Deliver
<1>3. DOMAIN r = RecordFields /\ Content(r) \notin Head(flight).known
    BY <1>2, HeadLeaves, LeavingTwin
<1>4. FlightInv' /\ IsSeq(flight') /\ Len(flight') <= Room
    BY <1>2, HeadLeaves DEF FlightInv, Content
<1>5. ItemInv'
    BY <1>2 DEF ItemInv, itemVars, Source, Content
<1>6. /\ UNCHANGED <<history, run, turn, clock>>
      /\ history \in Histories /\ run \in 1..(Len(history) + 1)
      /\ turn \in Nat /\ clock \in 1..MaxTime
    BY <1>2 DEF itemVars, StageTypes
<1>7. CASE Import.dry
    <2>1. /\ files' = files \cup {r} /\ UNCHANGED <<directory, ever, always, pushed>>
        BY <1>1, <1>7
    <2>2. LookupInv'
        <3>1. UNCHANGED lookupVars
            BY <1>2, <2>1 DEF lookupVars, outside
        <3>. QED
            BY <3>1 DEF lookupVars, outside, stream, LookupInv, LookupTypes, Source,
                        StreamBuf, Fresh, OnTheWay, VerdictSound, Sighted, Wanted,
                        Matches, ImportModules, Content
    <2>3. NoTwin'
        BY <2>1 DEF NoTwin, Content
    <2>4. StageTypes'
        <3> HIDE DEF r
        <3>. QED
            BY <1>3, <1>4, <1>6, <2>1 DEF StageTypes, IsSeq
    <2>. QED
        BY <1>4, <1>5, <2>2, <2>3, <2>4
<1>8. CASE ~Import.dry
    <2>1. /\ Becomes(directory \cup {r}) /\ pushed' = Append(pushed, e)
          /\ UNCHANGED files
        BY <1>1, <1>8
    <2>2. LookupInv'
        <3> HIDE DEF r
        <3>1. /\ IsFiniteSet(directory \cup {r}) /\ others' \in 0..MaxOthers
              /\ \A q \in directory \cup {r} : DOMAIN q = RecordFields
            BY <1>2, <1>3, FS_Subset, FS_AddElement DEF LookupInv, LookupTypes
        <3>. QED
            BY <1>2, <2>1, <3>1, BecomesKeeps
    <2>3. e.record = r /\ e.known = Head(flight).known
        OBVIOUS
    <2> HIDE DEF e
    <2>4. \A q : q = Append(pushed, e) =>
            /\ IsSeq(q) /\ Len(q) = Len(pushed) + 1 /\ Len(pushed) \in Nat
            /\ \A k \in DOMAIN q :
                 q[k] = e \/ (k \in DOMAIN pushed /\ q[k] = pushed[k])
        <3>1. IsSeq(pushed)
            BY DEF StageTypes
        <3>. QED
            BY <3>1, Appended
    <2>5. IsSeq(pushed') /\ \A k \in DOMAIN pushed' :
            pushed'[k] = e \/ (k \in DOMAIN pushed /\ pushed'[k] = pushed[k])
        BY <2>1, <2>4
    <2> HIDE DEF r
    <2>6. NoTwin'
        BY <1>3, <2>3, <2>5 DEF NoTwin, Content
    <2>7. \A k \in DOMAIN pushed' : DOMAIN pushed'[k].record = RecordFields
        BY <1>3, <2>3, <2>5 DEF StageTypes
    <2>8. StageTypes'
        BY <1>4, <1>6, <2>1, <2>5, <2>7 DEF StageTypes, IsSeq
    <2>. QED
        BY <1>4, <1>5, <2>2, <2>6, <2>8
<1>. QED
    BY <1>7, <1>8

\* What leaves everything the lookup knows as it is.
LEMMA LookupKept == ASSUME LookupInv, UNCHANGED lookupVars PROVE LookupInv'
BY DEF lookupVars, outside, stream, LookupInv, LookupTypes, Source, StreamBuf,
       Fresh, OnTheWay, VerdictSound, Sighted, Wanted, Matches, ImportModules,
       Content

LEMMA ItemKept ==
    ASSUME ItemInv, UNCHANGED <<lookup, item>>, pc' = "idle" <=> pc = "idle"
    PROVE  ItemInv'
BY DEF ItemInv, Source, Content

LEMMA NoFileKeeps == ASSUME Inv, NoFile PROVE Inv'
<1>1. LookupInv' /\ ItemInv'
    BY LookupKept, ItemKept DEF NoFile, Inv, lookupVars, outside
<1>2. turn' \in Nat /\ clock' \in 1..MaxTime
    BY DEF NoFile, Inv, StageTypes
<1>. QED
    BY <1>1, <1>2, StagesKept DEF NoFile, Inv, Stages

LEMMA DropKeeps == ASSUME Inv, Drop PROVE Inv'
<1>1. LookupInv' /\ ItemInv'
    BY LookupKept, ItemKept DEF Drop, Inv, lookupVars, outside, itemVars
<1>2. /\ flight # << >> /\ flight' = Tail(flight)
      /\ UNCHANGED <<history, run, turn, clock, pushed, files>>
    BY DEF Drop, itemVars
<1>3. FlightInv' /\ IsSeq(flight') /\ Len(flight') <= Room
    BY <1>2, HeadLeaves DEF FlightInv, Content, Inv
<1>4. StageTypes' /\ NoTwin'
    BY <1>2, <1>3 DEF Inv, StageTypes, NoTwin, IsSeq, Content
<1>. QED
    BY <1>1, <1>3, <1>4 DEF Inv

LEMMA EndImportKeeps == ASSUME Inv, EndImport PROVE Inv'
<1>1. LookupInv'
    BY LeaveKeeps DEF EndImport, Inv
<1>2. ItemInv'
    BY DEF EndImport, Leave, ItemInv, Source, NoLookup, RecordFields
<1>3. run' \in 1..(Len(history) + 1)
    BY Imports DEF EndImport, Inv
<1>4. FlightInv' /\ NoTwin'
    BY DEF EndImport, Inv, FlightInv, NoTwin, Content
<1>5. IsSeq(<< >>) /\ Len(<< >>) <= Room
    BY ReimportAssumption DEF IsSeq
<1>6. StageTypes'
    BY <1>3, <1>5 DEF EndImport, Inv, StageTypes, IsSeq
<1>. QED
    BY <1>1, <1>2, <1>4, <1>6 DEF Inv

LEMMA CancelKeeps == ASSUME Inv, Cancel PROVE Inv'
<1>1. LookupInv'
    BY DEF Cancel, Inv, outside, stream, LookupInv, LookupTypes, Source, StreamBuf,
           Fresh, OnTheWay, VerdictSound, Sighted, Wanted, Matches, ImportModules,
           Content
<1>2. ItemInv'
    BY ItemKept DEF Cancel, Inv, outside, itemVars
<1>3. turn' \in Nat /\ clock' \in 1..MaxTime
    BY DEF Cancel, Inv, StageTypes, itemVars
<1>. QED
    BY <1>1, <1>2, <1>3, StagesKept DEF Cancel, Inv, Stages, itemVars

LEMMA LookupStepKeeps ==
    ASSUME Inv, Lookup \/ OtherClient, UNCHANGED <<itemVars, clock, Stages>>
    PROVE  Inv'
<1>1. LookupInv'
    BY LookupKeeps, OthersKeep DEF Inv
<1>2. UNCHANGED lookup /\ (pc' = "idle" <=> pc = "idle")
    BY DEF Lookup, OtherClient, SearchCIDs, StreamSend, StreamClose, CollectResult,
           CollectDone, CollectFailed, PullBatch, CompareHashes, Decide, outside
<1>3. ItemInv'
    BY <1>2, ItemKept DEF Inv, itemVars
<1>4. turn' \in Nat /\ clock' \in 1..MaxTime
    BY DEF Inv, StageTypes, itemVars
<1>. QED
    BY <1>1, <1>3, <1>4, StagesKept DEF Inv, Stages, itemVars

----------------------------------------------------------------------------
LEMMA InitInv == Init => Inv
<1> SUFFICES ASSUME Init PROVE Inv
    OBVIOUS
<1> USE DEF Init, LookupInit
<1>1. IsFiniteSet(ever)
    BY Parameters, FS_Subset
<1>2. /\ DOMAIN Source = RecordFields /\ StreamBuf = 0 /\ Source.name = ""
    BY DEF Source, StreamBuf, NoLookup, RecordFields
<1>3. Cardinality(buffer) <= StreamBuf
    <2>1. Cardinality(buffer) = 0
        BY FS_EmptySet
    <2>. QED
        BY <1>2, <2>1, Order, Zenon
<1>4. LookupTypes
    <2>1. (\A r \in ever : DOMAIN r = RecordFields) /\ others \in 0..MaxOthers
        BY Parameters
    <2>2. {streamDone, duplicate, failed, cancelled} \subseteq BOOLEAN
        OBVIOUS
    <2>. QED
        BY <1>2, <1>3, <2>1, <2>2 DEF LookupTypes
<1>5. LookupInv
    BY <1>1, <1>2, <1>4 DEF LookupInv, Fresh, OnTheWay, VerdictSound
<1>6. IsSeq(<< >>) /\ Len(<< >>) <= Room
    BY ReimportAssumption DEF IsSeq
<1>7. Len(history) \in Nat
    BY ReimportAssumption
<1>8. StageTypes
    BY <1>6, <1>7, ReimportAssumption DEF StageTypes
<1>9. ItemInv /\ FlightInv /\ NoTwin
    <2>1. ItemInv
        BY <1>2 DEF ItemInv
    <2>2. DOMAIN flight = {} /\ DOMAIN pushed = {}
        OBVIOUS
    <2>. QED
        BY <2>1, <2>2 DEF FlightInv, NoTwin
<1>. QED
    BY <1>5, <1>8, <1>9 DEF Inv

LEMMA NextInv == Inv /\ [Next]_vars => Inv'
<1> SUFFICES ASSUME Inv, [Next]_vars PROVE Inv'
    OBVIOUS
<1>1. CASE Lookup /\ UNCHANGED <<itemVars, clock, Stages>>
    BY <1>1, LookupStepKeeps
<1>2. CASE FilterDuplicates
    BY <1>2, FilterKeeps
<1>3. CASE NoFile
    BY <1>3, NoFileKeeps
<1>4. CASE PassOn
    BY <1>4, PassOnKeeps
<1>5. CASE Deliver
    BY <1>5, DeliverKeeps
<1>6. CASE EndImport
    BY <1>6, EndImportKeeps
<1>7. CASE Drop
    BY <1>7, DropKeeps
<1>8. CASE Cancel
    BY <1>8, CancelKeeps
<1>9. CASE OtherClient /\ UNCHANGED <<itemVars, clock, Stages>>
    BY <1>9, LookupStepKeeps
<1>10. CASE UNCHANGED vars
    <2>1. UNCHANGED lookupVars /\ UNCHANGED <<itemVars, clock, Stages>>
        BY <1>10 DEF vars, Stages
    <2>2. LookupInv' /\ ItemInv'
        BY <2>1, LookupKept, ItemKept DEF Inv, lookupVars, outside, itemVars
    <2>3. turn' \in Nat /\ clock' \in 1..MaxTime
        BY <2>1 DEF Inv, StageTypes, itemVars
    <2>. QED
        BY <2>1, <2>2, <2>3, StagesKept DEF Inv, Stages, itemVars
<1>. QED
    BY <1>1, <1>2, <1>3, <1>4, <1>5, <1>6, <1>7, <1>8, <1>9, <1>10
       DEF Next, Progress, Finished

\* The invariant the theorems follow from.
LEMMA Invariance == Spec => []Inv
BY InitInv, NextInv, PTL DEF Spec

\* The types of the lookup and of the history of imports.
THEOREM Typed == Spec => []TypeOK
<1>1. Inv => TypeOK
    BY DEF Inv, LookupInv, StageTypes, TypeOK
<1>. QED
    BY <1>1, Invariance, PTL

\* However other clients and earlier items change the directory during a
\* lookup, wherever it fails and whatever the stream sends first: an item is
\* skipped only for a record of its content that was there, and one that was
\* there all along is recognised if the search sees everything.
THEOREM SoundVerdict == Spec => []VerdictSound
<1>1. Inv => VerdictSound
    BY DEF Inv, LookupInv
<1>. QED
    BY <1>1, Invariance, PTL

\* Importing again changes nothing, for any sequence of imports.
THEOREM NothingTwice == Spec => []NoTwin
<1>1. Inv => NoTwin
    BY DEF Inv
<1>. QED
    BY <1>1, Invariance, PTL
=============================================================================
