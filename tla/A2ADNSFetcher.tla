--------------------------- MODULE A2ADNSFetcher ----------------------------
(***************************************************************************)
(* a2aDNSFetcher: one goroutine per domain, at most Concurrency of them    *)
(* past the semaphore; each looks its domain up by SVCB, then TXT, fetches *)
(* the agent card and sends it, or an error, on an unbuffered channel.     *)
(* The spawning goroutine closes both channels when all have ended.        *)
(*                                                                         *)
(* Name servers and agents are external: a zone has its records, and any   *)
(* lookup or request may fail.                                             *)
(***************************************************************************)
EXTENDS Integers, Sequences, FiniteSets

CONSTANTS
    Zone,           \* what there is to find of each domain, [svcb, txt]: an
                    \* answer [rcode, records] to each of the two queries
    Concurrency,    \* concurrencyLimit
    MayCancel

Domains == DOMAIN Zone

\* rcode is "success", "nxdomain" or "failure" (the server's own); a record of
\* svcb is [a2a, target], one of txt [ans1, a2a, url]; a URL is [host, path],
\* a url field that is missing has the host "".
ASSUME DNSAssumption ==
    /\ IsFiniteSet(Domains)
    /\ \A d \in Domains :
        /\ {Zone[d].svcb.rcode, Zone[d].txt.rcode}
                \subseteq {"success", "nxdomain", "failure"}
        /\ \A k \in DOMAIN Zone[d].svcb.records : Zone[d].svcb.records[k].a2a \in BOOLEAN
        /\ \A k \in DOMAIN Zone[d].txt.records :
            /\ {Zone[d].txt.records[k].ans1, Zone[d].txt.records[k].a2a} \subseteq BOOLEAN
            /\ Zone[d].txt.records[k].url \in [host : STRING, path : STRING]
    /\ Concurrency \in Nat \ {0} /\ MayCancel \in BOOLEAN

VARIABLES
    spawner,    \* "spawning", "waiting" (on wg), "closed" (both channels)
    pc,         \* each domain's goroutine
    sem,        \* slots of the semaphore in use
    wg,         \* the WaitGroup's counter
    url,        \* cardURL, of each domain's goroutine
    card,       \* [domain, url] of each card the consumer received
    errors,     \* domains whose error the consumer received
    reading,    \* whether the consumer still reads
    cancelled

consumer == <<card, errors, reading>>
vars == <<spawner, pc, sem, wg, url, consumer, cancelled>>

Places == {"new", "acquire", "svcb", "txt", "http", "item", "err", "release",
           "done"}
InSection == {"svcb", "txt", "http", "item", "err", "release"}
Started == Places \ {"new", "done"}

NoURL == [host |-> "", path |-> ""]

Init ==
    /\ spawner = "spawning"
    /\ pc = [d \in Domains |-> "new"]
    /\ sem = 0 /\ wg = 0 /\ url = [d \in Domains |-> NoURL]
    /\ card = {} /\ errors = {} /\ reading = TRUE
    /\ cancelled = FALSE

Goto(d, p) == pc' = [pc EXCEPT ![d] = p]

\* Mutant: the goroutine itself calls wg.Add, once it has a slot.
SpawnUncounted(d) ==
    /\ spawner = "spawning" /\ ~cancelled /\ pc[d] = "new"
    /\ Goto(d, "acquire")
    /\ UNCHANGED <<spawner, sem, wg, url, consumer, cancelled>>

\* Each domain in turn, unless the context is done.
Spawn(d) ==
    /\ spawner = "spawning" /\ ~cancelled /\ pc[d] = "new"
    /\ wg' = wg + 1
    /\ Goto(d, "acquire")
    /\ UNCHANGED <<spawner, sem, url, consumer, cancelled>>

EndSpawning ==
    /\ spawner = "spawning"
    /\ cancelled \/ \A d \in Domains : pc[d] # "new"
    /\ spawner' = "waiting"
    /\ UNCHANGED <<pc, sem, wg, url, consumer, cancelled>>

Close ==
    /\ spawner = "waiting" /\ wg = 0
    /\ spawner' = "closed"
    /\ UNCHANGED <<pc, sem, wg, url, consumer, cancelled>>

\* Mutant: the semaphore lets everybody in.
AcquireUnbounded(d) ==
    /\ pc[d] = "acquire"
    /\ sem' = sem + 1
    /\ Goto(d, "svcb")
    /\ UNCHANGED <<spawner, wg, url, consumer, cancelled>>

Acquire(d) ==
    /\ pc[d] = "acquire" /\ sem < Concurrency
    /\ sem' = sem + 1
    /\ Goto(d, "svcb")
    /\ UNCHANGED <<spawner, wg, url, consumer, cancelled>>

\* "." and the domain itself stand for the domain.
resolveTarget(target, d) == IF target \in {".", d} THEN d ELSE target

\* A URL that has the card's path keeps it.
buildCardURL(u) == [u EXCEPT !.path = "card"]

\* The lowest of the numbers.
First(S) == {k \in S : \A j \in S : k <= j}

\* Mutant: whatever protocol it is for, the first record is taken.
AnySVCB(records) == DOMAIN records

\* svcbHasA2A: which records of the answer are an agent's.
A2ASVCB(records) == {k \in DOMAIN records : records[k].a2a}

\* Of the answers only "nxdomain" says that there is no record, but the server's
\* failure is treated alike.
defaultSVCBLookup(answer) ==
    IF answer.rcode = "success" THEN answer.records ELSE <<>>

\* The first a2a record leads to the card, no such record to TXT, and a lookup
\* that fails to an error.
SVCBLookup(d) ==
    LET records == defaultSVCBLookup(Zone[d].svcb)
        agents == A2ASVCB(records)
    IN  /\ pc[d] = "svcb"
        /\ \/ /\ \E k \in First(agents) : url' = [url EXCEPT ![d] = buildCardURL(
                    [host |-> resolveTarget(records[k].target, d), path |-> ""])]
              /\ Goto(d, "http")
           \/ agents = {} /\ Goto(d, "txt") /\ UNCHANGED url
           \/ Goto(d, "err") /\ UNCHANGED url
        /\ UNCHANGED <<spawner, sem, wg, consumer, cancelled>>

A2ATXT(answer) ==
    {k \in DOMAIN answer.records : /\ answer.rcode = "success"
                                   /\ answer.records[k].ans1 /\ answer.records[k].a2a}

\* Mutant: a record without url counts as no record.
TXTLookupQuiet(d) ==
    LET answer == Zone[d].txt
        agents == A2ATXT(answer)
    IN  /\ pc[d] = "txt"
        /\ \/ /\ \E k \in First(agents) :
                    /\ answer.records[k].url # NoURL
                    /\ url' = [url EXCEPT ![d] = buildCardURL(answer.records[k].url)]
              /\ Goto(d, "http")
           \/ /\ answer.rcode # "failure"
              /\ \A k \in First(agents) : answer.records[k].url = NoURL
              /\ Goto(d, "release") /\ UNCHANGED url
           \/ Goto(d, "err") /\ UNCHANGED url
        /\ UNCHANGED <<spawner, sem, wg, consumer, cancelled>>

\* The first a2a record leads to the card, or to an error if it has no url;
\* without one the domain is no agent's.
TXTLookup(d) ==
    LET answer == Zone[d].txt
        agents == A2ATXT(answer)
    IN  /\ pc[d] = "txt"
        /\ \/ /\ \E k \in First(agents) :
                    /\ answer.records[k].url # NoURL
                    /\ url' = [url EXCEPT ![d] = buildCardURL(answer.records[k].url)]
              /\ Goto(d, "http")
           \/ /\ answer.rcode # "failure" /\ agents = {}
              /\ Goto(d, "release") /\ UNCHANGED url
           \/ Goto(d, "err") /\ UNCHANGED url
        /\ UNCHANGED <<spawner, sem, wg, consumer, cancelled>>

FetchCard(d) ==
    /\ pc[d] = "http"
    /\ Goto(d, "item") \/ Goto(d, "err")
    /\ UNCHANGED <<spawner, sem, wg, url, consumer, cancelled>>

SendItem(d) ==
    /\ pc[d] = "item" /\ reading
    /\ card' = card \cup {[domain |-> d, url |-> url[d]]}
    /\ Goto(d, "release")
    /\ UNCHANGED <<spawner, sem, wg, url, errors, reading, cancelled>>

sendErr(d) ==
    /\ pc[d] = "err" /\ reading
    /\ errors' = errors \cup {d}
    /\ Goto(d, "release")
    /\ UNCHANGED <<spawner, sem, wg, url, card, reading, cancelled>>

\* Mutant: the slot is given back here and again by the deferred call.
GiveUpReleases(d) ==
    /\ pc[d] \in {"item", "err"} /\ cancelled
    /\ sem' = sem - 1
    /\ Goto(d, "release")
    /\ UNCHANGED <<spawner, wg, url, consumer, cancelled>>

\* Mutant: sendErr does not watch the context.
GiveUpItem(d) ==
    /\ pc[d] = "item" /\ cancelled
    /\ Goto(d, "release")
    /\ UNCHANGED <<spawner, sem, wg, url, consumer, cancelled>>

GiveUp(d) ==
    /\ pc[d] \in {"item", "err"} /\ cancelled
    /\ Goto(d, "release")
    /\ UNCHANGED <<spawner, sem, wg, url, consumer, cancelled>>

\* The deferred receive from sem, then wg.Done.
Release(d) ==
    /\ pc[d] = "release"
    /\ sem' = sem - 1
    /\ wg' = wg - 1
    /\ Goto(d, "done")
    /\ UNCHANGED <<spawner, url, consumer, cancelled>>

StopReading ==
    /\ MayCancel /\ reading
    /\ reading' = FALSE
    /\ UNCHANGED <<spawner, pc, sem, wg, url, card, errors, cancelled>>

Cancel ==
    /\ MayCancel /\ ~cancelled
    /\ cancelled' = TRUE
    /\ UNCHANGED <<spawner, pc, sem, wg, url, consumer>>

Stopped ==
    /\ spawner = "closed" \/ (~reading /\ ~cancelled)
    /\ UNCHANGED vars

Step(d) ==
    \/ Spawn(d) \/ Acquire(d) \/ SVCBLookup(d) \/ TXTLookup(d) \/ FetchCard(d)
    \/ SendItem(d) \/ sendErr(d) \/ GiveUp(d) \/ Release(d)

Next ==
    \/ \E d \in Domains : Step(d)
    \/ EndSpawning \/ Close \/ StopReading \/ Cancel \/ Stopped

Spec == Init /\ [][Next]_vars

\* Every goroutine is scheduled, lookups and requests end, and a consumer that
\* reads keeps reading.  A semaphore slot goes to any waiter: each acquires at
\* most once, so none is passed over for ever.
FairSpec ==
    /\ Spec /\ WF_vars(EndSpawning) /\ WF_vars(Close)
    /\ \A d \in Domains : WF_vars(Step(d))

----------------------------------------------------------------------------
TypeOK ==
    /\ spawner \in {"spawning", "waiting", "closed"}
    /\ pc \in [Domains -> Places]
    /\ sem \in Nat /\ wg \in Nat
    /\ DOMAIN url = Domains /\ {c.domain : c \in card} \cup errors \subseteq Domains
    /\ reading \in BOOLEAN /\ cancelled \in BOOLEAN

\* "bounded by concurrencyLimit": at most that many domains are being looked
\* up, and the semaphore's count is theirs.
LookupsBounded ==
    /\ sem = Cardinality({d \in Domains : pc[d] \in InSection})
    /\ sem <= Concurrency

\* The channels are closed only when no goroutine can send on them any more.
ClosedIsFinal ==
    spawner = "closed" => \A d \in Domains : pc[d] \in {"new", "done"}

\* The WaitGroup counts the goroutines that were started and have not ended.
Counted == wg = Cardinality({d \in Domains : pc[d] \in Started})

\* The records by which a domain says that it is an agent's, as far as the
\* servers answer.
SVCBAgents(d) == {k \in DOMAIN Zone[d].svcb.records :
    Zone[d].svcb.rcode = "success" /\ Zone[d].svcb.records[k].a2a}
TXTAgents(d) == {k \in DOMAIN Zone[d].txt.records :
    /\ Zone[d].txt.rcode = "success"
    /\ Zone[d].txt.records[k].ans1 /\ Zone[d].txt.records[k].a2a}

\* Where the agent is: the first such record of SVCB has it, else that of TXT.
Advertised(d) ==
    IF SVCBAgents(d) # {}
    THEN {IF Zone[d].svcb.records[k].target = "." THEN d
          ELSE Zone[d].svcb.records[k].target : k \in First(SVCBAgents(d))}
    ELSE {Zone[d].txt.records[k].url.host : k \in First(TXTAgents(d))}

Answered(d) == \E c \in card : c.domain = d

\* A card comes from where its domain says first, one for each domain, and
\* never besides an error: a domain whose agent does not answer is not looked
\* for elsewhere.
CardIsAdvertised ==
    \A c \in card :
        /\ c.url.host \in Advertised(c.domain) /\ c.url.path = "card"
        /\ c.domain \notin errors
        /\ \A e \in card : e.domain = c.domain => e = c

Explained(d) ==
    \/ d \in errors \/ Answered(d)
    \/ SVCBAgents(d) = {} /\ TXTAgents(d) = {} /\ Zone[d].txt.rcode # "failure"

\* No domain is lost: when the channels close without cancellation, each one
\* that advertises an agent, or whose TXT server failed, gave a card or an
\* error.
DomainsExplained ==
    spawner = "closed" /\ ~cancelled => \A d \in Domains : Explained(d)

\* How far each goroutine is: what it looks for is where its domain says, it
\* gives one answer, and ends only when it has explained its domain.
OnItsWay ==
    /\ \A d \in Domains :
        /\ pc[d] = "txt" => SVCBAgents(d) = {}
        /\ pc[d] \in {"http", "item"} =>
                url[d].host \in Advertised(d) /\ url[d].path = "card"
        /\ pc[d] \notin {"release", "done"} => d \notin errors /\ ~Answered(d)
        /\ pc[d] \in {"release", "done"} /\ ~cancelled => Explained(d)
    /\ spawner # "spawning" /\ ~cancelled => \A d \in Domains : pc[d] # "new"

\* The inductive invariant: the semaphore bounds the lookups, what closes the
\* channels knows of every goroutine, and each is on its way.
Inv ==
    /\ TypeOK /\ LookupsBounded /\ ClosedIsFinal /\ Counted
    /\ OnItsWay /\ CardIsAdvertised

\* The channels are closed in the end, if somebody reads or the context is
\* done.
FetchEnds == []<>(spawner = "closed" \/ (~reading /\ ~cancelled))
=============================================================================
