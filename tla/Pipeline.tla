------------------------------ MODULE Pipeline ------------------------------
(***************************************************************************)
(* The stages Importer.Run and Importer.DryRun share: the fetch, dedup,    *)
(* transform and enrich goroutines, the channels between them, the three   *)
(* goroutines that collect their errors, and the mutex-protected Result.   *)
(*                                                                         *)
(* A goroutine is a record [at, item]: where it stands and the item it     *)
(* holds.  An unbuffered channel is a joint step of sender and receiver;   *)
(* the fetcher's output is a bounded buffer.  When a goroutine ends its    *)
(* deferred closes are part of the step that ends it.  A critical section  *)
(* of Result.Mu is one step, except the one of dedup, which writes two     *)
(* counters that Run reads without the lock once the context is cancelled. *)
(*                                                                         *)
(* RunImport and DryRunImport add the last stage and the caller.           *)
(***************************************************************************)
EXTENDS Integers, Sequences, FiniteSets

CONSTANTS
    N,          \* number of units the source yields: each an item or an error
    Contents,   \* content hashes
    Content,    \* the content hash of each item
    FetchBuf,   \* capacity of the fetcher's output channel
    ForceImport,    \* the values cfg.Force may have; TRUE: no duplicate check
    MayCancel,  \* whether the caller may cancel the context
    Faults      \* the operations that may fail

Items == 1..N
None == 0

ASSUME PipelineAssumption ==
    /\ N \in Nat
    /\ Content \in [Items -> Contents]
    /\ FetchBuf \in Nat \ {0}
    /\ ForceImport \subseteq BOOLEAN
    /\ MayCancel \in BOOLEAN
    /\ Faults \subseteq {"fetch", "lookup", "transform", "enrich",
                         "push", "sign", "blank", "mkdir", "write"}

VARIABLES
    cancelled,  \* the context is done
    existing,   \* contents in the directory before the import
    directory,  \* contents in the directory
    next,       \* the next unit the fetcher turns to
    queue,      \* outputCh of the fetcher
    ferr,       \* the buffered slot of the fetcher's errCh
    fetch, dedup, transform, enrich,  \* the stage goroutines
    col,        \* the error collectors of those stages
    total, skipped, failed, errors,   \* fields of the shared Result
    main,       \* where Run or DryRun is: "wait", "read", "returned"
    report      \* the ImportResult

cfgVars    == <<cancelled, existing>>
fetchVars  == <<next, queue, ferr, fetch>>
resultVars == <<total, skipped, failed, errors>>
pipeVars   == <<cfgVars, directory, fetchVars, dedup, transform, enrich, col,
                resultVars>>
mainVars   == <<main, report>>

Collectors == {"fetch", "transform", "enrich"}
ErrorKinds == {"fetch", "transform", "enrich", "push", "sign", "mkdir", "write"}

At(p, i) == [at |-> p, item |-> i]
Holding(places) == [at : places, item : Items]
\* What a collector holds between receiving an error and recording it is the
\* error itself, so errors have the shape of goroutines: where, and for what.
\* The error of a failed MkdirAll is about no item.
Error == [at : ErrorKinds, item : Items \cup {None}]
Recv == At("recv", None)
Done == At("done", None)

NoReport == [total |-> 0, imported |-> 0, skipped |-> 0, failed |-> 0]

\* Dedup keeps Result.Mu between its two increments.
MuFree == dedup.at # "unlock"

----------------------------------------------------------------------------
PipelineInit ==
    /\ cancelled = FALSE
    /\ existing \in SUBSET Contents
    /\ directory = existing
    /\ next = 1
    /\ queue = <<>>
    /\ ferr = None
    /\ fetch = At("run", None)
    /\ dedup \in {IF force THEN At("off", None) ELSE Recv : force \in ForceImport}
    /\ transform = Recv
    /\ enrich = Recv
    /\ col = [c \in Collectors |-> Recv]
    /\ total = 0 /\ skipped = 0 /\ failed = 0
    /\ errors = {}
    /\ main = "wait" /\ report = NoReport

\* The caller cancels the context it gave to Run or DryRun.
Cancel ==
    /\ MayCancel /\ ~cancelled
    /\ cancelled' = TRUE
    /\ UNCHANGED <<existing, directory, fetchVars, dedup, transform, enrich,
                   col, resultVars>>

----------------------------------------------------------------------------
(* Fetcher goroutine.                                                      *)

FetchEmit ==
    /\ fetch.at = "run" /\ next \in Items
    /\ Len(queue) < FetchBuf
    /\ queue' = Append(queue, next)
    /\ next' = next + 1
    /\ UNCHANGED <<cfgVars, directory, ferr, fetch, dedup, transform, enrich,
                   col, resultVars>>

\* Mutant: a unit that cannot be read is passed over.
FetchFailSilently ==
    /\ "fetch" \in Faults
    /\ fetch.at = "run" /\ next \in Items
    /\ next' = next + 1
    /\ UNCHANGED <<cfgVars, directory, queue, ferr, fetch, dedup, transform,
                   enrich, col, resultVars>>

\* A unit that cannot be read: the file and skill fetchers go on to the next
\* one, the registry fetcher gives up.
FetchFail ==
    /\ "fetch" \in Faults
    /\ fetch.at = "run" /\ next \in Items
    /\ ferr = None
    /\ ferr' = next
    /\ next' = next + 1
    /\ fetch' \in {fetch, Done}
    /\ UNCHANGED <<cfgVars, directory, queue, dedup, transform, enrich, col,
                   resultVars>>

\* The source is exhausted, or the context is done: then the registry fetcher
\* also reports ctx.Err().
FetchEnd ==
    /\ fetch.at = "run"
    /\ \/ next > N /\ UNCHANGED ferr
       \/ cancelled /\ UNCHANGED ferr
       \/ cancelled /\ ferr = None /\ next \in Items /\ ferr' = next
    /\ fetch' = Done
    /\ UNCHANGED <<cfgVars, directory, next, queue, dedup, transform, enrich,
                   col, resultVars>>

----------------------------------------------------------------------------
(* Dedup goroutine; absent ("off") when cfg.Force.                         *)

DedupRecv ==
    /\ dedup.at = "recv" /\ queue # <<>>
    /\ dedup' = At("check", Head(queue))
    /\ queue' = Tail(queue)
    /\ UNCHANGED <<cfgVars, directory, next, ferr, fetch, transform, enrich,
                   col, resultVars>>

\* Mutant: the verdict is not looked at.
DedupCheckBlind ==
    /\ dedup.at = "check"
    /\ dedup' = At("send", dedup.item)
    /\ UNCHANGED <<cfgVars, directory, fetchVars, transform, enrich, col,
                   resultVars>>

\* isDuplicate: an item is a duplicate only if its content is found; every
\* failed lookup, and every lookup of a done context, lets the item through.
DedupCheck ==
    /\ dedup.at = "check"
    /\ \/ /\ Content[dedup.item] \in directory
          /\ dedup' = At("skip", dedup.item)
       \/ /\ \/ Content[dedup.item] \notin directory
             \/ "lookup" \in Faults
             \/ cancelled
          /\ dedup' = At("send", dedup.item)
    /\ UNCHANGED <<cfgVars, directory, fetchVars, transform, enrich, col,
                   resultVars>>

\* Mutant: TotalRecords left to the transformer.
DedupUncounted ==
    /\ dedup.at = "skip"
    /\ dedup' = At("unlock", dedup.item)
    /\ UNCHANGED <<cfgVars, directory, fetchVars, transform, enrich, col,
                   resultVars>>

DedupCountTotal ==
    /\ dedup.at = "skip"
    /\ total' = total + 1
    /\ dedup' = At("unlock", dedup.item)
    /\ UNCHANGED <<cfgVars, directory, fetchVars, transform, enrich, col,
                   skipped, failed, errors>>

DedupCountSkipped ==
    /\ dedup.at = "unlock"
    /\ skipped' = skipped + 1
    /\ dedup' = Recv
    /\ UNCHANGED <<cfgVars, directory, fetchVars, transform, enrich, col,
                   total, failed, errors>>

\* Mutant: the send of an item does not watch the context.
DedupEndUnwatched ==
    /\ dedup.at = "recv"
    /\ cancelled \/ (fetch = Done /\ queue = <<>>)
    /\ dedup' = Done
    /\ UNCHANGED <<cfgVars, directory, fetchVars, transform, enrich, col,
                   resultVars>>

DedupEnd ==
    /\ \/ dedup.at = "recv" /\ fetch = Done /\ queue = <<>>
       \/ dedup.at \in {"recv", "send"} /\ cancelled
    /\ dedup' = Done
    /\ UNCHANGED <<cfgVars, directory, fetchVars, transform, enrich, col,
                   resultVars>>

----------------------------------------------------------------------------
(* Transform goroutine.  Its input is dedup's output, or the fetcher's     *)
(* when there is no dedup.                                                 *)

TransformRecv ==
    /\ transform.at = "recv"
    /\ \/ /\ dedup.at = "send"
          /\ transform' = At("count", dedup.item)
          /\ dedup' = Recv
          /\ UNCHANGED queue
       \/ /\ dedup.at = "off" /\ queue # <<>>
          /\ transform' = At("count", Head(queue))
          /\ queue' = Tail(queue)
          /\ UNCHANGED dedup
    /\ UNCHANGED <<cfgVars, directory, next, ferr, fetch, enrich, col,
                   resultVars>>

TransformRecord ==
    /\ transform.at = "count" /\ MuFree
    /\ total' = total + 1
    /\ \/ transform' = At("send", transform.item)
       \/ "transform" \in Faults /\ transform' = At("fail", transform.item)
    /\ UNCHANGED <<cfgVars, directory, fetchVars, dedup, enrich, col,
                   skipped, failed, errors>>

\* Mutant: a failure is counted and not sent.
TransformFailedSilently ==
    /\ transform.at = "fail" /\ MuFree
    /\ failed' = failed + 1
    /\ transform' = Recv
    /\ UNCHANGED <<cfgVars, directory, fetchVars, dedup, enrich, col,
                   total, skipped, errors>>

TransformFailed ==
    /\ transform.at = "fail" /\ MuFree
    /\ failed' = failed + 1
    /\ transform' = At("err", transform.item)
    /\ UNCHANGED <<cfgVars, directory, fetchVars, dedup, enrich, col,
                   total, skipped, errors>>

TransformReport ==
    /\ transform.at = "err" /\ col["transform"] = Recv
    /\ col' = [col EXCEPT !["transform"] = At("transform", transform.item)]
    /\ transform' = Recv
    /\ UNCHANGED <<cfgVars, directory, fetchVars, dedup, enrich, resultVars>>

\* Mutant: the sends do not watch the context.
TransformEndUnwatched ==
    /\ transform.at = "recv"
    /\ dedup = Done \/ cancelled
    /\ transform' = Done
    /\ UNCHANGED <<cfgVars, directory, fetchVars, dedup, enrich, col,
                   resultVars>>

TransformEnd ==
    /\ \/ transform.at = "recv" /\ dedup = Done
       \/ transform.at = "recv" /\ dedup.at = "off" /\ fetch = Done /\ queue = <<>>
       \/ transform.at \in {"recv", "err", "send"} /\ cancelled
    /\ transform' = Done
    /\ UNCHANGED <<cfgVars, directory, fetchVars, dedup, enrich, col,
                   resultVars>>

----------------------------------------------------------------------------
(* Enrich goroutine: the loop the static, extractor and LLM enrichers      *)
(* share.  It ends at the first error, without draining its input.         *)

EnrichRecv ==
    /\ enrich.at = "recv" /\ transform.at = "send"
    /\ enrich' = At("work", transform.item)
    /\ transform' = Recv
    /\ UNCHANGED <<cfgVars, directory, fetchVars, dedup, col, resultVars>>

\* The remote calls of enrichRecord also fail when the context is done.
EnrichRecord ==
    /\ enrich.at = "work"
    /\ \/ enrich' = At("send", enrich.item)
       \/ "enrich" \in Faults \cup (IF cancelled THEN {"enrich"} ELSE {})
          /\ enrich' = At("fail", enrich.item)
    /\ UNCHANGED <<cfgVars, directory, fetchVars, dedup, transform, col,
                   resultVars>>

EnrichFailed ==
    /\ enrich.at = "fail" /\ MuFree
    /\ failed' = failed + 1
    /\ enrich' = At("err", enrich.item)
    /\ UNCHANGED <<cfgVars, directory, fetchVars, dedup, transform, col,
                   total, skipped, errors>>

\* The send on errCh does not watch the context.
EnrichReport ==
    /\ enrich.at = "err" /\ col["enrich"] = Recv
    /\ col' = [col EXCEPT !["enrich"] = At("enrich", enrich.item)]
    /\ enrich' = Done
    /\ UNCHANGED <<cfgVars, directory, fetchVars, dedup, transform, resultVars>>

EnrichEnd ==
    /\ \/ enrich.at = "recv" /\ transform = Done
       \/ enrich.at \in {"recv", "send"} /\ cancelled
    /\ enrich' = Done
    /\ UNCHANGED <<cfgVars, directory, fetchVars, dedup, transform, col,
                   resultVars>>

\* The send of an enriched record: the last stage adds its receive.
SendEnriched(i) ==
    /\ enrich = At("send", i)
    /\ enrich' = Recv
    /\ UNCHANGED <<cfgVars, directory, fetchVars, dedup, transform, col,
                   resultVars>>

----------------------------------------------------------------------------
(* Error collectors: for err := range errCh { lock; append; unlock }.      *)

CollectFetch ==
    /\ col["fetch"] = Recv /\ ferr # None
    /\ col' = [col EXCEPT !["fetch"] = At("fetch", ferr)]
    /\ ferr' = None
    /\ UNCHANGED <<cfgVars, directory, next, queue, fetch, dedup, transform,
                   enrich, resultVars>>

RecordError(c) ==
    /\ col[c] \in Error /\ MuFree
    /\ errors' = errors \cup {col[c]}
    /\ col' = [col EXCEPT ![c] = Recv]
    /\ UNCHANGED <<cfgVars, directory, fetchVars, dedup, transform, enrich,
                   total, skipped, failed>>

\* Mutant: a collector ends with its stage, whatever is left in the channel.
CollectorEndEarly(c) ==
    /\ col[c] = Recv
    /\ \/ c = "fetch" /\ fetch = Done
       \/ c = "transform" /\ transform = Done
       \/ c = "enrich" /\ enrich = Done
    /\ col' = [col EXCEPT ![c] = Done]
    /\ UNCHANGED <<cfgVars, directory, fetchVars, dedup, transform, enrich,
                   resultVars>>

\* The channel is closed and empty: wg.Done.
CollectorEnd(c) ==
    /\ col[c] = Recv
    /\ \/ c = "fetch" /\ fetch = Done /\ ferr = None
       \/ c = "transform" /\ transform = Done
       \/ c = "enrich" /\ enrich = Done
    /\ col' = [col EXCEPT ![c] = Done]
    /\ UNCHANGED <<cfgVars, directory, fetchVars, dedup, transform, enrich,
                   resultVars>>

PipelineNext ==
    \/ FetchEmit \/ FetchFail \/ FetchEnd
    \/ DedupRecv \/ DedupCheck \/ DedupCountTotal \/ DedupCountSkipped \/ DedupEnd
    \/ TransformRecv \/ TransformRecord \/ TransformFailed \/ TransformReport
    \/ TransformEnd
    \/ EnrichRecv \/ EnrichRecord \/ EnrichFailed \/ EnrichReport \/ EnrichEnd
    \/ CollectFetch
    \/ \E c \in Collectors : RecordError(c) \/ CollectorEnd(c)

----------------------------------------------------------------------------
ContextTypeOK ==
    /\ cancelled \in BOOLEAN
    /\ existing \subseteq Contents /\ directory \subseteq Contents

FetchTypeOK ==
    /\ next \in 1..(N + 1)
    /\ queue \in Seq(Items) /\ Len(queue) <= FetchBuf
    /\ ferr \in Items \cup {None}
    /\ fetch \in {At("run", None), Done}

DedupTypeOK ==
    dedup \in {Recv, Done, At("off", None)}
                \cup Holding({"check", "skip", "unlock", "send"})

TransformTypeOK ==
    transform \in {Recv, Done} \cup Holding({"count", "fail", "err", "send"})

EnrichTypeOK ==
    enrich \in {Recv, Done} \cup Holding({"work", "fail", "err", "send"})

CollectorsTypeOK == col \in [Collectors -> {Recv, Done} \cup Error]

ResultTypeOK ==
    /\ total \in Nat /\ skipped \in Nat /\ failed \in Nat
    /\ errors \subseteq Error

PipelineTypeOK ==
    /\ ContextTypeOK /\ FetchTypeOK /\ DedupTypeOK /\ TransformTypeOK
    /\ EnrichTypeOK /\ CollectorsTypeOK /\ ResultTypeOK

----------------------------------------------------------------------------
(* What RunImport and DryRunImport build their inductive invariants from.  *)

Queued(i) == \E k \in DOMAIN queue : queue[k] = i

InStages(i) ==
    \/ Queued(i)
    \/ ferr = i \/ dedup.item = i \/ transform.item = i \/ enrich.item = i

Recorded(i) == \E e \in errors : e.item = i
Collected(i) == Recorded(i) \/ \E c \in Collectors : col[c].item = i

\* A fetcher that ended early has sent, or is about to send, an error.
GivenUp ==
    ~cancelled /\ fetch = Done /\ next <= N =>
        \/ ferr # None \/ col["fetch"].at = "fetch"
        \/ \E e \in errors : e.at = "fetch"

\* What dedup skips is in the directory, which keeps what it had.
SkippedStored ==
    /\ dedup.at \in {"skip", "unlock"} => Content[dedup.item] \in directory
    /\ existing \subseteq directory

\* What has ended upstream of a collector.
StagesEnded ==
    /\ col["fetch"] = Done => fetch = Done /\ ferr = None
    /\ col["transform"] = Done => transform = Done
    /\ col["enrich"] = Done => enrich = Done

\* Unless cancelled, dedup and transform end only after their input has.
EndedInOrder ==
    ~cancelled =>
        /\ dedup = Done => fetch = Done /\ queue = <<>>
        /\ transform = Done =>
                dedup.at \in {"done", "off"} /\ fetch = Done /\ queue = <<>>

\* Item i, or None, is ahead of all that is upstream of a stage.
AheadOfQueue(i) == i < next /\ \A k \in DOMAIN queue : i < queue[k]
AheadOf(stage, i) == stage.item = None \/ i < stage.item
AheadOfDedup(i) == AheadOfQueue(i) /\ AheadOf(dedup, i)
AheadOfTransform(i) == AheadOfDedup(i) /\ AheadOf(transform, i)
AheadOfStages(i) == AheadOfTransform(i) /\ AheadOf(enrich, i)

\* No stage overtakes another.
StagesInOrder ==
    /\ \A k \in DOMAIN queue :
        queue[k] < next /\ \A j \in 1..(k - 1) : queue[j] < queue[k]
    /\ AheadOfQueue(dedup.item) /\ AheadOfDedup(transform.item)
    /\ AheadOfTransform(enrich.item)

\* When lookups are to be relied on, an item dedup has let through is new.
Relied == dedup.at # "off" /\ "lookup" \notin Faults /\ ~cancelled
New(i) == i # None => Content[i] \notin existing
OnlyNew ==
    Relied =>
        /\ dedup.at = "send" => New(dedup.item)
        /\ New(transform.item) /\ New(enrich.item)
=============================================================================
