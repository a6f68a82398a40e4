----------------------------- MODULE RunImport ------------------------------
(***************************************************************************)
(* Importer.Run: the shared stages, then the pusher goroutine, the         *)
(* collectors of its two channels, and the caller, which waits for the     *)
(* five collectors and copies the Result into the report it returns.       *)
(***************************************************************************)
EXTENDS Pipeline

CONSTANT Signing    \* a signFunc is configured

ASSUME SigningAssumption == Signing \in BOOLEAN

VARIABLES
    push,       \* the pusher goroutine
    blank,      \* items the directory acknowledged without a CID
    refCol,     \* collector of refCh
    pushCol,    \* collector of the pusher's errCh
    imported, cids   \* Result.ImportedCount, Result.ImportedCIDs

sinkVars == <<push, blank, refCol, pushCol, imported, cids>>
vars == <<pipeVars, sinkVars, mainVars>>

Init ==
    /\ PipelineInit
    /\ push = Recv
    /\ blank = {}
    /\ refCol = Recv /\ pushCol = Recv
    /\ imported = 0 /\ cids = <<>>

----------------------------------------------------------------------------
(* Pusher goroutine: one record at a time, until its input is closed.      *)

PushRecv ==
    /\ push = Recv
    /\ \E i \in Items : SendEnriched(i) /\ push' = At("push", i)
    /\ UNCHANGED <<blank, refCol, pushCol, imported, cids, mainVars>>

\* A push that fails may have stored the record: the answer was lost.
PushRecord ==
    /\ push.at = "push"
    /\ \/ /\ directory' = directory \cup {Content[push.item]}
          /\ push' = At(IF Signing THEN "sign" ELSE "ref", push.item)
          /\ \/ UNCHANGED blank
             \/ "blank" \in Faults /\ blank' = blank \cup {push.item}
       \/ /\ "push" \in Faults \/ cancelled
          /\ directory' \in {directory, directory \cup {Content[push.item]}}
          /\ push' = At("err", push.item)
          /\ UNCHANGED blank
    /\ UNCHANGED <<cfgVars, fetchVars, dedup, transform, enrich, col,
                   resultVars, refCol, pushCol, imported, cids, mainVars>>

SignRecord ==
    /\ push.at = "sign"
    /\ \/ push' = At("ref", push.item)
       \/ ("sign" \in Faults \/ cancelled) /\ push' = At("signerr", push.item)
    /\ UNCHANGED <<pipeVars, blank, refCol, pushCol, imported, cids, mainVars>>

\* Mutant: a failed push goes on to send its reference.
PushReportGoesOn ==
    /\ pushCol = Recv
    /\ push.at \in {"err", "signerr"}
    /\ pushCol' = At("push", push.item)
    /\ push' = At("ref", push.item)
    /\ UNCHANGED <<pipeVars, blank, refCol, imported, cids, mainVars>>

\* After a push error the record is given up; after a signing error its
\* reference is still sent.
PushReport ==
    /\ pushCol = Recv
    /\ \/ /\ push.at = "err"
          /\ pushCol' = At("push", push.item)
          /\ push' = Recv
       \/ /\ push.at = "signerr"
          /\ pushCol' = At("sign", push.item)
          /\ push' = At("ref", push.item)
    /\ UNCHANGED <<pipeVars, blank, refCol, imported, cids, mainVars>>

PushRef ==
    /\ push.at = "ref" /\ refCol = Recv
    /\ refCol' = At("ref", push.item)
    /\ push' = Recv
    /\ UNCHANGED <<pipeVars, blank, pushCol, imported, cids, mainVars>>

\* Only the sends watch the context: handlePushError then drops the error and
\* goes on, the other two end the goroutine.
PushCancelled ==
    /\ cancelled
    /\ \/ push.at = "err" /\ push' = Recv
       \/ push.at \in {"signerr", "ref"} /\ push' = Done
    /\ UNCHANGED <<pipeVars, blank, refCol, pushCol, imported, cids, mainVars>>

\* Mutant: only the context ends the pusher.
PushEndCancelled ==
    /\ push = Recv /\ enrich = Done /\ cancelled
    /\ push' = Done
    /\ UNCHANGED <<pipeVars, blank, refCol, pushCol, imported, cids, mainVars>>

PushEnd ==
    /\ push = Recv /\ enrich = Done
    /\ push' = Done
    /\ UNCHANGED <<pipeVars, blank, refCol, pushCol, imported, cids, mainVars>>

----------------------------------------------------------------------------
(* Collectors of the pusher's channels.                                    *)

\* A reference without a CID is ignored.
CountImported ==
    /\ refCol.at = "ref"
    /\ \/ /\ refCol.item \notin blank /\ MuFree
          /\ imported' = imported + 1
          /\ cids' = Append(cids, refCol.item)
       \/ refCol.item \in blank /\ UNCHANGED <<imported, cids>>
    /\ refCol' = Recv
    /\ UNCHANGED <<pipeVars, push, blank, pushCol, mainVars>>

\* Mutant: the error is kept and not counted.
CountPushErrorUncounted ==
    /\ pushCol \in Error /\ MuFree
    /\ errors' = errors \cup {pushCol}
    /\ pushCol' = Recv
    /\ UNCHANGED <<cfgVars, directory, fetchVars, dedup, transform, enrich,
                   col, total, skipped, failed, push, blank, refCol, imported,
                   cids, mainVars>>

\* Every error of the pusher counts as a failed record.
CountPushError ==
    /\ pushCol \in Error /\ MuFree
    /\ failed' = failed + 1
    /\ errors' = errors \cup {pushCol}
    /\ pushCol' = Recv
    /\ UNCHANGED <<cfgVars, directory, fetchVars, dedup, transform, enrich,
                   col, total, skipped, push, blank, refCol, imported, cids,
                   mainVars>>

PushCollectorEnd ==
    /\ push = Done
    /\ \/ refCol = Recv /\ refCol' = Done /\ UNCHANGED pushCol
       \/ pushCol = Recv /\ pushCol' = Done /\ UNCHANGED refCol
    /\ UNCHANGED <<pipeVars, push, blank, imported, cids, mainVars>>

----------------------------------------------------------------------------
(* The caller.  It reads the Result without the lock, field after field.   *)

\* Mutant: the caller does not wait for the pusher's collectors.
CollectorsDoneEarly == \A c \in Collectors : col[c] = Done

CollectorsDone ==
    /\ \A c \in Collectors : col[c] = Done
    /\ refCol = Done /\ pushCol = Done

ReadTotal ==
    /\ main = "wait" /\ CollectorsDone
    /\ report' = [report EXCEPT !.total = total]
    /\ main' = "read"
    /\ UNCHANGED <<pipeVars, sinkVars>>

Return ==
    /\ main = "read"
    /\ report' = [report EXCEPT !.imported = imported, !.skipped = skipped,
                                !.failed = failed]
    /\ main' = "returned"
    /\ UNCHANGED <<pipeVars, sinkVars>>

\* Nothing is left to run.
Terminated ==
    /\ main = "returned" /\ dedup.at \in {"off", "done"} /\ fetch = Done
    /\ UNCHANGED vars

Progress ==
    \/ PipelineNext /\ UNCHANGED <<sinkVars, mainVars>>
    \/ PushRecv \/ PushRecord \/ SignRecord \/ PushReport \/ PushRef
    \/ PushCancelled \/ PushEnd
    \/ CountImported \/ CountPushError \/ PushCollectorEnd
    \/ ReadTotal \/ Return

Next ==
    \/ Progress
    \/ Cancel /\ UNCHANGED <<sinkVars, mainVars>>
    \/ Terminated

Spec == Init /\ [][Next]_vars

\* Every goroutine that can step does: each remote call returns, and the Go
\* scheduler starves nobody.  Every step brings the import nearer its end, so
\* fairness of their disjunction is fairness of each.  The caller need not
\* cancel.
FairSpec == Spec /\ WF_vars(Progress)

----------------------------------------------------------------------------
Delivered == {i \in Items : Content[i] \in directory}

\* Units with an error; and, once the fetcher has given up and said so, those
\* it never reached.
Explained ==
    {i \in Items :
        \/ \E e \in errors : e.item = i
        \/ i >= next /\ fetch = Done /\ \E e \in errors : e.at = "fetch"}

PushTypeOK ==
    /\ push \in {Recv, Done}
                   \cup Holding({"push", "sign", "signerr", "err", "ref"})
    /\ blank \subseteq Items

SinkCollectorsTypeOK ==
    /\ refCol \in {Recv, Done} \cup Holding({"ref"})
    /\ pushCol \in {Recv, Done} \cup Error

ImportedTypeOK == imported \in Nat /\ cids \in Seq(Items)

CallerTypeOK ==
    /\ main \in {"wait", "read", "returned"}
    /\ report \in [total : Nat, imported : Nat, skipped : Nat, failed : Nat]

TypeOK ==
    /\ PipelineTypeOK
    /\ PushTypeOK /\ SinkCollectorsTypeOK /\ ImportedTypeOK /\ CallerTypeOK

\* No unit is lost: when Run returns without having been cancelled, each one
\* the fetcher turned to is in the directory, or the report carries an error
\* about it; and units it never turned to are explained by a fetch error.
NoSilentLoss ==
    main = "returned" /\ ~cancelled => Items \subseteq Delivered \cup Explained

\* The report adds up: each record counted in TotalRecords is counted as
\* skipped, imported or failed.  A record whose signing failed is both
\* imported and failed, and one acknowledged without a CID is neither.  Each
\* record counted as failed has an error in the report, and each error, other
\* than the fetcher's, was counted.
ReportBalanced ==
    main = "returned" /\ ~cancelled =>
        /\ report.total + Cardinality({e \in errors : e.at = "sign"})
            = report.skipped + report.imported + report.failed
                + Cardinality(blank)
        /\ report.failed = Cardinality({e \in errors : e.at # "fetch"})

\* Whatever a cancelled import leaves undone, and although Run reads the counts
\* while dedup may still be counting: what is reported as imported or failed was
\* counted in the total before Run read it, and no unit is counted twice, but
\* for a failed signature.
CountsBounded ==
    main = "returned" =>
        LET twice == Cardinality({e \in errors : e.at = "sign"})
        IN  /\ report.imported + report.failed <= report.total + twice
            /\ report.skipped + report.imported + report.failed <= N + twice
            /\ report.total <= N

\* ImportedCIDs lists records that are in the directory, each once, in the
\* order in which the source yielded them.
ImportedInOrder ==
    /\ imported = Len(cids)
    /\ \A k \in DOMAIN cids : Content[cids[k]] \in directory
    /\ \A j, k \in DOMAIN cids : j < k => cids[j] < cids[k]

\* Once Run has returned, even because it was cancelled, the goroutines it
\* leaves behind write nothing to the directory and record no error.
QuietAfterReturn ==
    [][main = "returned" => UNCHANGED <<directory, errors, failed, imported>>]_vars

\* A record whose content was in the directory when the import began is not
\* pushed again, as long as lookups work and nobody cancels.
NoRepush ==
    push.at = "push" /\ dedup.at # "off" /\ "lookup" \notin Faults /\ ~cancelled =>
        Content[push.item] \notin existing

\* TotalRecords = skipped + imported + failed, as importer_test.go:545 asserts.
TotalIsSum ==
    main = "returned" /\ ~cancelled =>
        report.total = report.skipped + report.imported + report.failed

\* Run returns.
Termination == <>(main = "returned")

\* A cancelled import returns, however its stages fail, and the goroutines Run
\* does not wait for end too.
CancelEnds ==
    /\ cancelled ~> main = "returned"
    /\ main = "returned" ~> dedup.at \in {"off", "done"} /\ fetch = Done

----------------------------------------------------------------------------
(* The inductive invariant behind the safety properties.  It follows each  *)
(* unit through the pipeline until it is in the directory or in an error,  *)
(* and relates the goroutines that have ended to those upstream of them.   *)

HasError(i) == Collected(i) \/ pushCol.item = i

\* Every unit the fetcher has turned to is accounted for.
Tracked ==
    ~cancelled => \A i \in Items : i < next =>
        \/ InStages(i) \/ push.item = i
        \/ Content[i] \in directory \/ HasError(i)

\* Items that are let go of have their content in the directory.
Stored ==
    /\ SkippedStored
    /\ push.at \in {"sign", "signerr", "ref"} => Content[push.item] \in directory
    /\ refCol.item # None => Content[refCol.item] \in directory

\* What has ended upstream of a collector, or of the caller.
Ended ==
    /\ StagesEnded
    /\ refCol = Done \/ pushCol = Done => push = Done
    /\ main # "wait" => CollectorsDone

\* Records keep their order on their way to ImportedCIDs.
InOrder ==
    /\ StagesInOrder
    /\ AheadOfStages(push.item)
    /\ AheadOfStages(refCol.item) /\ AheadOf(push, refCol.item)
    /\ \A k \in DOMAIN cids :
        AheadOfStages(cids[k]) /\ AheadOf(push, cids[k]) /\ AheadOf(refCol, cids[k])

\* The pusher, too, is handed only what is new.
PushedNew == OnlyNew /\ (Relied => New(push.item))

Inv ==
    /\ TypeOK /\ Tracked /\ GivenUp /\ Stored /\ Ended /\ EndedInOrder
    /\ InOrder /\ ImportedInOrder /\ PushedNew

----------------------------------------------------------------------------
Contract == INSTANCE ImportContract WITH
    Units <- Items, delivered <- Delivered, explained <- Explained,
    aborted <- cancelled, returned <- (main = "returned")

\* Run keeps the contract.
ContractSpec == Contract!Spec
=============================================================================
