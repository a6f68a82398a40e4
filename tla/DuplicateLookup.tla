-------------------------- MODULE DuplicateLookup ---------------------------
(***************************************************************************)
(* DuplicateChecker.isDuplicate for one source item: search the directory  *)
(* by name, version and module, collect the stream of CIDs, pull those     *)
(* records and compare content hashes.  Other clients add and delete       *)
(* records meanwhile.  The pipeline's DedupCheck is this, in one step.     *)
(*                                                                         *)
(* Directory and stream are external: the search answers with at most      *)
(* Limit of the matching records and sends them one by one on a channel of *)
(* capacity StreamBuf, closing DoneCh once all are sent.                   *)
(***************************************************************************)
EXTENDS Integers, FiniteSets

CONSTANTS
    Foreign,    \* the records other clients handle, finitely many
    Limit,      \* candidateLimit
    MaxOthers,  \* bound: how often other clients act
    MayFail, MayCancel

\* A record, as far as the lookup tells records apart: "" is an absent name
\* or version, body the rest of the content, authors and schema version
\* included; created is its created_at, debug whether it has a debug source,
\* taxonomy its skills and domains.
RecordFields ==
    {"name", "version", "module", "body", "created", "debug", "taxonomy"}

ASSUME LookupAssumption ==
    /\ IsFiniteSet(Foreign) /\ \A r \in Foreign : DOMAIN r = RecordFields
    /\ Limit \in Nat \ {0} /\ MaxOthers \in Nat
    /\ {MayFail, MayCancel} \subseteq BOOLEAN

VARIABLES
    lookup,     \* [source, modules, buffer]: the record TransformRecord makes
                \* of the item, the modules of the import type ({}: every
                \* module), the capacity of the stream's channel
    directory,  \* the records stored
    others,     \* how often other clients have acted
    pc,         \* where isDuplicate is; "idle" between two items
    unsent,     \* search answers the stream has still to send
    buffer,     \* answers in the stream's channel
    streamDone, \* DoneCh is closed
    cids,       \* CIDs collected; a record stands for its CID
    pulled,     \* the records PullBatch returned
    duplicate,  \* the verdict
    failed,     \* a remote call failed or was cancelled
    cancelled,
    ever,       \* records seen in the directory since the lookup began
    always      \* records that have been in the directory throughout

stream == <<unsent, buffer, streamDone>>
outside == <<lookup, directory, ever, always, others>>
lookupVars == <<outside, pc, stream, cids, pulled, duplicate, failed, cancelled>>

Source == lookup.source
ImportModules == lookup.modules
StreamBuf == lookup.buffer

\* Mutant: created_at is content.
contentHashDated(r) == [r EXCEPT !.debug = FALSE, !.taxonomy = "none"]

\* stripFields, then a hash: a record of the same content stands for it.
contentHash(r) ==
    [r EXCEPT !.created = 0, !.debug = FALSE, !.taxonomy = "none"]

Matches(r) ==
    /\ r.name = Source.name
    /\ Source.version = "" \/ r.version = Source.version
    /\ ImportModules = {} \/ r.module \in ImportModules

Candidates == {r \in directory : Matches(r)}

NoLookup ==
    [source |-> [f \in RecordFields |->
                    CASE f = "created" -> 0 [] f = "debug" -> FALSE [] OTHER -> ""],
     modules |-> {}, buffer |-> 0]

LookupInit ==
    /\ pc = "idle" /\ lookup = NoLookup
    /\ directory \in SUBSET Foreign /\ others = 0
    /\ ever = directory /\ always = directory
    /\ unsent = {} /\ buffer = {} /\ streamDone = FALSE
    /\ cids = {} /\ pulled = {} /\ duplicate = FALSE
    /\ failed = FALSE /\ cancelled = FALSE

\* isDuplicate is called, and its call is over.
Enter(l) ==
    /\ lookup' = l /\ pc' = "search"
    /\ ever' = directory /\ always' = directory
    /\ UNCHANGED <<directory, others, stream, cids, pulled, duplicate, failed,
                   cancelled>>

\* Mutant: the CIDs collected for one item are still there for the next.
LeaveKeepsCids ==
    /\ pc' = "idle" /\ lookup' = NoLookup
    /\ unsent' = {} /\ buffer' = {} /\ streamDone' = FALSE
    /\ pulled' = {} /\ duplicate' = FALSE /\ failed' = FALSE
    /\ UNCHANGED cids

Leave ==
    /\ pc' = "idle" /\ lookup' = NoLookup
    /\ unsent' = {} /\ buffer' = {} /\ streamDone' = FALSE
    /\ cids' = {} /\ pulled' = {} /\ duplicate' = FALSE /\ failed' = FALSE

\* The directory as it changes; lookups under way are told nothing.
Becomes(d) ==
    /\ directory' = d /\ ever' = ever \cup d /\ always' = always \cap d

Decide(verdict) == duplicate' = verdict /\ pc' = "decided"

Fails == MayFail \/ cancelled

\* A nameless item has no scope to search; a failed search means "no".
SearchCIDs ==
    /\ pc = "search"
    /\ \/ /\ Source.name = ""
          /\ Decide(FALSE)
          /\ UNCHANGED <<unsent, failed>>
       \/ /\ Source.name # "" /\ Fails
          /\ Decide(FALSE) /\ failed' = TRUE
          /\ UNCHANGED unsent
       \/ /\ Source.name # ""
          /\ unsent' \in {S \in SUBSET Candidates :
                \/ Cardinality(S) = Limit
                \/ Cardinality(S) < Limit /\ S = Candidates}
          /\ pc' = "collect"
          /\ UNCHANGED <<duplicate, failed>>
    /\ UNCHANGED <<outside, buffer, streamDone, cids, pulled, cancelled>>

\* External: the stream fills its channel, then closes DoneCh.
StreamSend ==
    /\ pc = "collect" /\ Cardinality(buffer) < StreamBuf
    /\ \E r \in unsent : unsent' = unsent \ {r} /\ buffer' = buffer \cup {r}
    /\ UNCHANGED <<outside, pc, streamDone, cids, pulled, duplicate, failed,
                   cancelled>>

StreamClose ==
    /\ pc = "collect" /\ unsent = {} /\ ~streamDone
    /\ streamDone' = TRUE
    /\ UNCHANGED <<outside, pc, unsent, buffer, cids, pulled, duplicate,
                   failed, cancelled>>

\* collectCIDs selects among the ready channels: a result (taken from the
\* sender itself when the channel is unbuffered) ...
CollectResult ==
    /\ pc = "collect"
    /\ \E r \in (IF StreamBuf = 0 THEN unsent ELSE buffer) :
        /\ cids' = cids \cup {r}
        /\ unsent' = unsent \ {r} /\ buffer' = buffer \ {r}
    /\ UNCHANGED <<outside, pc, streamDone, pulled, duplicate, failed,
                   cancelled>>

\* Mutant: waits for a first candidate.
CollectDoneWaits ==
    /\ pc = "collect" /\ streamDone /\ cids # {}
    /\ pc' = "pull"
    /\ UNCHANGED <<outside, stream, cids, pulled, duplicate, failed,
                   cancelled>>

\* ... completion, after which no candidate means "no" ...
CollectDone ==
    /\ pc = "collect" /\ streamDone
    /\ IF cids = {} THEN Decide(FALSE) ELSE pc' = "pull" /\ UNCHANGED duplicate
    /\ UNCHANGED <<outside, stream, cids, pulled, failed, cancelled>>

\* ... an error of the stream, or the end of the context.
CollectFailed ==
    /\ pc = "collect" /\ Fails
    /\ Decide(FALSE) /\ failed' = TRUE
    /\ UNCHANGED <<outside, stream, cids, pulled, cancelled>>

\* A candidate deleted since the search is missing from the batch, or fails it.
PullBatch ==
    /\ pc = "pull"
    /\ \/ /\ pulled' = cids \cap directory
          /\ pc' = "compare"
          /\ UNCHANGED <<duplicate, failed>>
       \/ /\ Fails \/ ~(cids \subseteq directory)
          /\ Decide(FALSE) /\ failed' = TRUE
          /\ UNCHANGED pulled
    /\ UNCHANGED <<outside, stream, cids, cancelled>>

\* Mutant: a candidate of the same name and version is a duplicate.
CompareNames ==
    /\ pc = "compare"
    /\ Decide(\E r \in pulled : Matches(r))
    /\ UNCHANGED <<outside, stream, cids, pulled, failed, cancelled>>

\* Mutant: whole records are hashed, the enriched fields included.
CompareRecords ==
    /\ pc = "compare"
    /\ Decide(Source \in pulled)
    /\ UNCHANGED <<outside, stream, cids, pulled, failed, cancelled>>

CompareHashes ==
    /\ pc = "compare"
    /\ Decide(\E r \in pulled : contentHash(r) = contentHash(Source))
    /\ UNCHANGED <<outside, stream, cids, pulled, failed, cancelled>>

OtherClient ==
    /\ others < MaxOthers
    /\ \E r \in Foreign \cup directory :
        Becomes(IF r \in directory THEN directory \ {r} ELSE directory \cup {r})
    /\ others' = others + 1
    /\ UNCHANGED <<lookup, pc, stream, cids, pulled, duplicate, failed,
                   cancelled>>

Lookup ==
    \/ SearchCIDs \/ StreamSend \/ StreamClose
    \/ CollectResult \/ CollectDone \/ CollectFailed
    \/ PullBatch \/ CompareHashes

----------------------------------------------------------------------------
\* What two records of one content have in common.
Content(r) == <<r.name, r.version, r.module, r.body>>

\* The search sees all there is: no call failed, the item has a name, and the
\* matching records fit the limit.  This takes an unbuffered stream: DoneCh
\* may be chosen over results that wait in a buffer.
Sighted ==
    /\ ~failed /\ Source.name # "" /\ StreamBuf = 0
    /\ Cardinality({r \in ever : Matches(r)}) <= Limit

LookupTypes ==
    /\ DOMAIN Source = RecordFields
    /\ \A r \in ever : DOMAIN r = RecordFields
    /\ directory \subseteq ever /\ always \subseteq directory
    /\ others \in 0..MaxOthers
    /\ unsent \cup buffer \cup cids \subseteq ever /\ pulled \subseteq cids
    /\ pc \in {"idle", "search", "collect", "pull", "compare", "decided"}
    /\ {streamDone, duplicate, failed, cancelled} \subseteq BOOLEAN
    /\ Cardinality(buffer) <= StreamBuf

\* An item is skipped only if the directory held, at some time since its
\* lookup began, a record with its content; and an item whose content stayed in
\* the directory under a name, version and module the search covers is
\* recognised, enriched or not.
VerdictSound ==
    /\ duplicate => \E r \in ever : Content(r) = Content(Source)
    /\ pc = "decided" /\ Sighted =>
        \A r \in always : Matches(r) /\ Content(r) = Content(Source) => duplicate
=============================================================================
