---------------------------- MODULE DryRunImport ----------------------------
(***************************************************************************)
(* Importer.DryRun: the shared stages, then the goroutine that writes one  *)
(* file per record instead of pushing it, and the caller.  A file is named *)
(* by the record's CID, so records with equal content share one.           *)
(***************************************************************************)
EXTENDS Pipeline

VARIABLES
    writer,     \* the writer goroutine
    writeErrs,  \* items whose file could not be written
    files       \* contents written to the output directory

dryVars == <<pipeVars, writer, writeErrs, files, mainVars>>

DryInit ==
    /\ PipelineInit
    /\ writer = At("run", None)
    /\ writeErrs = {} /\ files = {}

\* Mutant: without a directory the goroutine returns and drains nothing.
MakeOutputDirUndrained ==
    /\ writer.at = "run"
    /\ \/ writer' = Recv
       \/ "mkdir" \in Faults /\ writer' = Done
    /\ UNCHANGED <<pipeVars, writeErrs, files, mainVars>>

\* When the output directory cannot be made the records are drained.
MakeOutputDir ==
    /\ writer.at = "run"
    /\ \/ writer' = Recv
       \/ "mkdir" \in Faults /\ writer' = At("drain", None)
    /\ UNCHANGED <<pipeVars, writeErrs, files, mainVars>>

WriteRecv ==
    /\ writer = Recv
    /\ \E i \in Items : SendEnriched(i) /\ writer' = At("write", i)
    /\ UNCHANGED <<writeErrs, files, mainVars>>

\* writeRecord: no CID, no JSON and a failed write are one error.
WriteRecord ==
    /\ writer.at = "write"
    /\ \/ files' = files \cup {Content[writer.item]} /\ UNCHANGED writeErrs
       \/ /\ "write" \in Faults
          /\ writeErrs' = writeErrs \cup {writer.item}
          /\ UNCHANGED files
    /\ writer' = Recv
    /\ UNCHANGED <<pipeVars, mainVars>>

Drain ==
    /\ writer.at = "drain"
    /\ \E i \in Items : SendEnriched(i)
    /\ UNCHANGED <<writer, writeErrs, files, mainVars>>

\* Mutant: the joined error is dropped.
WriterEndForgets ==
    /\ writer.at \in {"recv", "drain"} /\ enrich = Done
    /\ writer' = Done
    /\ UNCHANGED <<pipeVars, writeErrs, files, mainVars>>

\* The input is closed.  The failed writes are one joined error; neither it
\* nor a failed MkdirAll changes FailedCount.
WriterEnd ==
    /\ writer.at \in {"recv", "drain"} /\ enrich = Done
    /\ MuFree \/ (writer.at = "recv" /\ writeErrs = {})
    /\ errors' = errors \cup
                    (IF writer.at = "drain" THEN {At("mkdir", None)}
                     ELSE {At("write", i) : i \in writeErrs})
    /\ writer' = Done
    /\ UNCHANGED <<cfgVars, directory, fetchVars, dedup, transform, enrich,
                   col, total, skipped, failed, writeErrs, files, mainVars>>

DryReadTotal ==
    /\ main = "wait"
    /\ writer = Done /\ \A c \in Collectors : col[c] = Done
    /\ report' = [report EXCEPT !.total = total]
    /\ main' = "read"
    /\ UNCHANGED <<pipeVars, writer, writeErrs, files>>

DryReturn ==
    /\ main = "read"
    /\ report' = [report EXCEPT !.skipped = skipped, !.failed = failed]
    /\ main' = "returned"
    /\ UNCHANGED <<pipeVars, writer, writeErrs, files>>

DryTerminated ==
    /\ main = "returned" /\ dedup.at \in {"off", "done"} /\ fetch = Done
    /\ UNCHANGED dryVars

DryProgress ==
    \/ PipelineNext /\ UNCHANGED <<writer, writeErrs, files, mainVars>>
    \/ MakeOutputDir \/ WriteRecv \/ WriteRecord \/ Drain \/ WriterEnd
    \/ DryReadTotal \/ DryReturn

DryNext ==
    \/ DryProgress
    \/ Cancel /\ UNCHANGED <<writer, writeErrs, files, mainVars>>
    \/ DryTerminated

DrySpec == DryInit /\ [][DryNext]_dryVars

\* As for RunImport: a finite program whose goroutines are all scheduled.
DryFairSpec == DrySpec /\ WF_dryVars(DryProgress)

----------------------------------------------------------------------------
DryDelivered == {i \in Items : Content[i] \in directory \cup files}

DryExplained ==
    {i \in Items :
        \/ \E e \in errors : e.item = i \/ e.at = "mkdir"
        \/ i >= next /\ fetch = Done /\ \E e \in errors : e.at = "fetch"}

DryTypeOK ==
    /\ PipelineTypeOK
    /\ writer \in {At("run", None), At("drain", None), Recv, Done}
                     \cup Holding({"write"})
    /\ writeErrs \subseteq Items
    /\ files \subseteq Contents
    /\ main \in {"wait", "read", "returned"}
    /\ report \in [total : Nat, imported : {0}, skipped : Nat, failed : Nat]

\* "provides accurate preview": the files of a dry run are those of exactly
\* the records, of units without an error, that the directory lacks.
PreviewAccurate ==
    main = "returned" /\ ~cancelled /\ dedup.at # "off"
    /\ "lookup" \notin Faults /\ (\A e \in errors : e.at # "mkdir") =>
        files = {Content[i] : i \in Items \ DryExplained} \ existing

\* DryRun returns, also when it cannot make its output directory.
DryTermination == <>(main = "returned")

----------------------------------------------------------------------------
(* The inductive invariant: as for RunImport, with the writer in place of  *)
(* the pusher; and no unit is both in a file and in an error.              *)

DryHasError(i) == Collected(i) \/ ferr = i \/ i \in writeErrs

\* A writer without a directory drops what it receives, and will say so.
NoDirectory ==
    writer.at = "drain" \/ \E e \in errors : e.at = "mkdir"

DryTracked ==
    ~cancelled => \A i \in Items : i < next =>
        \/ InStages(i) \/ writer.item = i
        \/ Content[i] \in directory \cup files
        \/ DryHasError(i) \/ NoDirectory

\* What has ended upstream of a collector, or of the caller; what the writer
\* could not write is in an error when it ends, and it writes nothing before,
\* or without, its directory.
DryEnded ==
    /\ StagesEnded
    /\ writer.at \in {"run", "drain"} => writeErrs = {}
    /\ writer = Done => enrich = Done /\ \A i \in writeErrs : Recorded(i)
    /\ main # "wait" => writer = Done /\ \A c \in Collectors : col[c] = Done

DryStored == SkippedStored /\ directory = existing

DryInOrder == StagesInOrder /\ AheadOfStages(writer.item)

WrittenNew == OnlyNew /\ (Relied => New(writer.item))

\* Unit i is neither in a stage nor with the writer any more.
Past(i) ==
    /\ i < next /\ ~Queued(i)
    /\ i \notin {dedup.item, transform.item, enrich.item, writer.item}

\* A unit with an error is nowhere else, and what is in a file is of a unit
\* without.
ErrorsApart ==
    ~cancelled =>
        /\ \A i \in Items : DryHasError(i) => Past(i)
        /\ \A c \in files : \E i \in Items :
            /\ Content[i] = c /\ Past(i) /\ ~DryHasError(i)
            /\ Relied => New(i)

DryInv ==
    /\ DryTypeOK /\ DryTracked /\ GivenUp /\ DryStored /\ DryEnded /\ EndedInOrder
    /\ DryInOrder /\ WrittenNew /\ ErrorsApart

----------------------------------------------------------------------------
DryContract == INSTANCE ImportContract WITH
    Units <- Items, delivered <- DryDelivered, explained <- DryExplained,
    aborted <- cancelled, returned <- (main = "returned")

\* DryRun keeps the contract of an import, files standing for pushed records.
DryContractSpec == DryContract!Spec
=============================================================================
