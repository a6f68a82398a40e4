---------------------------- MODULE ImportProofs ----------------------------
(***************************************************************************)
(* Proofs about RunImport and DryRunImport, for any number of items, any   *)
(* content, any capacity of the fetcher's channel and any set of faults.   *)
(*                                                                         *)
(* The first part is about the stages they share: what a step of the stages,*)
(* or of what lies beyond them, does to the invariants they are built from.*)
(* The second follows the items of Run through the pusher and its collectors*)
(* to the report, the third those of DryRun to the files, or the errors, that*)
(* stand for them.  The last is about how either comes to its end.         *)
(***************************************************************************)
EXTENDS RunImport, DryRunImport, FiniteSetTheorems, TLAPS

USE DEF Items, None, Collectors, ErrorKinds, At, Recv, Done, Holding, Error

----------------------------------------------------------------------------
(***************************************************************************)
(* The shared stages.                                                      *)
(***************************************************************************)

\* The steps that the shared stages, or the caller's context, take part in.
StageStep == PipelineNext \/ Cancel \/ \E i \in Items : SendEnriched(i)

\* Those of the last stage and of the caller alone.
SinkStep ==
    /\ UNCHANGED <<cfgVars, fetchVars, dedup, transform, enrich, col>>
    /\ directory \subseteq directory' /\ errors \subseteq errors'

\* What the proofs use of the assumptions on the constants.
LEMMA Parameters ==
    N \in Nat /\ Content \in [Items -> Contents] /\ FetchBuf \in Nat \ {0}
BY PipelineAssumption

\* A channel's contents under a send and a receive.
LEMMA ChannelTypes ==
    ASSUME NEW S, NEW q \in Seq(S)
    PROVE  /\ \A x \in S : Append(q, x) \in Seq(S) /\ Len(Append(q, x)) = Len(q) + 1
           /\ q # <<>> => /\ Head(q) \in S
                          /\ Tail(q) \in Seq(S) /\ Len(Tail(q)) = Len(q) - 1
OBVIOUS

\* A part keeps its type when its variables do not change.
LEMMA Kept ==
    /\ ContextTypeOK /\ UNCHANGED <<cfgVars, directory>> => ContextTypeOK'
    /\ FetchTypeOK /\ UNCHANGED fetchVars => FetchTypeOK'
    /\ DedupTypeOK /\ UNCHANGED dedup => DedupTypeOK'
    /\ TransformTypeOK /\ UNCHANGED transform => TransformTypeOK'
    /\ EnrichTypeOK /\ UNCHANGED enrich => EnrichTypeOK'
    /\ CollectorsTypeOK /\ UNCHANGED col => CollectorsTypeOK'
    /\ ResultTypeOK /\ UNCHANGED resultVars => ResultTypeOK'
<1>1. /\ ContextTypeOK /\ UNCHANGED <<cfgVars, directory>> => ContextTypeOK'
      /\ FetchTypeOK /\ UNCHANGED fetchVars => FetchTypeOK'
    BY DEF ContextTypeOK, FetchTypeOK, cfgVars, fetchVars
<1>2. /\ DedupTypeOK /\ UNCHANGED dedup => DedupTypeOK'
      /\ TransformTypeOK /\ UNCHANGED transform => TransformTypeOK'
      /\ EnrichTypeOK /\ UNCHANGED enrich => EnrichTypeOK'
    BY DEF DedupTypeOK, TransformTypeOK, EnrichTypeOK
<1>3. /\ CollectorsTypeOK /\ UNCHANGED col => CollectorsTypeOK'
      /\ ResultTypeOK /\ UNCHANGED resultVars => ResultTypeOK'
    BY DEF CollectorsTypeOK, ResultTypeOK, resultVars
<1>. QED
    BY <1>1, <1>2, <1>3

\* What a receive from the fetcher's channel takes and leaves.
LEMMA QueueTypes ==
    ASSUME FetchTypeOK, queue # <<>>
    PROVE  /\ Head(queue) \in Items
           /\ Tail(queue) \in Seq(Items) /\ Len(Tail(queue)) <= FetchBuf
<1>1. queue \in Seq(Items) /\ Len(queue) <= FetchBuf /\ Len(queue) \in Nat
    BY DEF FetchTypeOK
<1>2. /\ Head(queue) \in Items
      /\ Tail(queue) \in Seq(Items) /\ Len(Tail(queue)) = Len(queue) - 1
    BY <1>1, ChannelTypes
<1>. QED
    BY <1>1, <1>2, Parameters

\* The shared variables keep their types.
LEMMA StageTypes ==
    ASSUME PipelineTypeOK, StageStep
    PROVE  PipelineTypeOK'
<1> USE DEF PipelineTypeOK, cfgVars, fetchVars, resultVars
<1>1. CASE FetchEmit
    <2>1. Append(queue, next) \in Seq(Items)
          /\ Len(Append(queue, next)) = Len(queue) + 1
        BY <1>1, ChannelTypes DEF FetchEmit, FetchTypeOK
    <2>2. next + 1 \in 1..(N + 1) /\ Len(queue) + 1 <= FetchBuf
        BY <1>1, Parameters DEF FetchEmit, FetchTypeOK
    <2>3. FetchTypeOK'
        BY <1>1, <2>1, <2>2 DEF FetchEmit, FetchTypeOK
    <2>. QED
        BY <1>1, <2>3, Kept DEF FetchEmit
<1>2. CASE FetchFail
    <2>1. next + 1 \in 1..(N + 1)
        BY <1>2, Parameters DEF FetchFail, FetchTypeOK
    <2>2. FetchTypeOK'
        BY <1>2, <2>1 DEF FetchFail, FetchTypeOK
    <2>. QED
        BY <1>2, <2>2, Kept DEF FetchFail
<1>3. CASE DedupRecv
    <2>1. /\ queue # <<>> /\ queue' = Tail(queue) /\ dedup' = At("check", Head(queue))
          /\ UNCHANGED <<next, ferr, fetch>>
        BY <1>3 DEF DedupRecv
    <2>2. /\ Head(queue) \in Items
          /\ Tail(queue) \in Seq(Items) /\ Len(Tail(queue)) <= FetchBuf
        BY <2>1, QueueTypes
    <2>3. FetchTypeOK'
        BY <2>1, <2>2 DEF FetchTypeOK
    <2>4. DedupTypeOK'
        BY <2>1, <2>2 DEF DedupTypeOK
    <2>. QED
        BY <1>3, <2>3, <2>4, Kept DEF DedupRecv
<1>4. CASE TransformRecv
    <2>1. CASE dedup.at = "send" /\ UNCHANGED queue
               /\ transform' = At("count", dedup.item) /\ dedup' = Recv
        <3>1. DedupTypeOK' /\ TransformTypeOK'
            BY <2>1 DEF DedupTypeOK, TransformTypeOK
        <3>. QED
            BY <1>4, <2>1, <3>1, Kept DEF TransformRecv
    <2>2. CASE queue # <<>> /\ queue' = Tail(queue) /\ UNCHANGED dedup
               /\ transform' = At("count", Head(queue))
        <3>1. /\ Head(queue) \in Items
              /\ Tail(queue) \in Seq(Items) /\ Len(Tail(queue)) <= FetchBuf
            BY <2>2, QueueTypes
        <3>2. UNCHANGED <<next, ferr, fetch>>
            BY <1>4 DEF TransformRecv
        <3>3. FetchTypeOK'
            BY <2>2, <3>1, <3>2 DEF FetchTypeOK
        <3>4. TransformTypeOK'
            BY <2>2, <3>1 DEF TransformTypeOK
        <3>. QED
            BY <1>4, <2>2, <3>3, <3>4, Kept DEF TransformRecv
    <2>. QED
        BY <1>4, <2>1, <2>2, Kept DEF TransformRecv
<1>5. CASE FetchEnd
    <2>1. FetchTypeOK'
        BY <1>5 DEF FetchEnd, FetchTypeOK
    <2>. QED
        BY <1>5, <2>1, Kept DEF FetchEnd
<1>6. CASE DedupCheck
    <2>1. DedupTypeOK'
        BY <1>6 DEF DedupCheck, DedupTypeOK
    <2>. QED
        BY <1>6, <2>1, Kept DEF DedupCheck
<1>7. CASE DedupCountTotal
    <2>1. DedupTypeOK'
        BY <1>7 DEF DedupCountTotal, DedupTypeOK
    <2>2. ResultTypeOK'
        BY <1>7 DEF DedupCountTotal, ResultTypeOK
    <2>. QED
        BY <1>7, <2>1, <2>2, Kept DEF DedupCountTotal
<1>8. CASE DedupCountSkipped
    <2>1. DedupTypeOK'
        BY <1>8 DEF DedupCountSkipped, DedupTypeOK
    <2>2. ResultTypeOK'
        BY <1>8 DEF DedupCountSkipped, ResultTypeOK
    <2>. QED
        BY <1>8, <2>1, <2>2, Kept DEF DedupCountSkipped
<1>9. CASE DedupEnd
    <2>1. DedupTypeOK'
        BY <1>9 DEF DedupEnd, DedupTypeOK
    <2>. QED
        BY <1>9, <2>1, Kept DEF DedupEnd
<1>10. CASE TransformRecord
    <2>1. TransformTypeOK'
        BY <1>10 DEF TransformRecord, TransformTypeOK
    <2>2. ResultTypeOK'
        BY <1>10 DEF TransformRecord, ResultTypeOK
    <2>. QED
        BY <1>10, <2>1, <2>2, Kept DEF TransformRecord
<1>11. CASE TransformFailed
    <2>1. TransformTypeOK'
        BY <1>11 DEF TransformFailed, TransformTypeOK
    <2>2. ResultTypeOK'
        BY <1>11 DEF TransformFailed, ResultTypeOK
    <2>. QED
        BY <1>11, <2>1, <2>2, Kept DEF TransformFailed
<1>12. CASE TransformReport
    <2>1. TransformTypeOK'
        BY <1>12 DEF TransformReport, TransformTypeOK
    <2>2. CollectorsTypeOK'
        BY <1>12 DEF TransformReport, CollectorsTypeOK, TransformTypeOK
    <2>. QED
        BY <1>12, <2>1, <2>2, Kept DEF TransformReport
<1>13. CASE TransformEnd
    <2>1. TransformTypeOK'
        BY <1>13 DEF TransformEnd, TransformTypeOK
    <2>. QED
        BY <1>13, <2>1, Kept DEF TransformEnd
<1>14. CASE EnrichRecv
    <2>1. EnrichTypeOK'
        BY <1>14 DEF EnrichRecv, EnrichTypeOK, TransformTypeOK
    <2>2. TransformTypeOK'
        BY <1>14 DEF EnrichRecv, TransformTypeOK
    <2>. QED
        BY <1>14, <2>1, <2>2, Kept DEF EnrichRecv
<1>15. CASE EnrichRecord
    <2>1. EnrichTypeOK'
        BY <1>15 DEF EnrichRecord, EnrichTypeOK
    <2>. QED
        BY <1>15, <2>1, Kept DEF EnrichRecord
<1>16. CASE EnrichFailed
    <2>1. EnrichTypeOK'
        BY <1>16 DEF EnrichFailed, EnrichTypeOK
    <2>2. ResultTypeOK'
        BY <1>16 DEF EnrichFailed, ResultTypeOK
    <2>. QED
        BY <1>16, <2>1, <2>2, Kept DEF EnrichFailed
<1>17. CASE EnrichReport
    <2>1. EnrichTypeOK'
        BY <1>17 DEF EnrichReport, EnrichTypeOK
    <2>2. CollectorsTypeOK'
        BY <1>17 DEF EnrichReport, CollectorsTypeOK, EnrichTypeOK
    <2>. QED
        BY <1>17, <2>1, <2>2, Kept DEF EnrichReport
<1>18. CASE EnrichEnd
    <2>1. EnrichTypeOK'
        BY <1>18 DEF EnrichEnd, EnrichTypeOK
    <2>. QED
        BY <1>18, <2>1, Kept DEF EnrichEnd
<1>19. CASE CollectFetch
    <2>1. CollectorsTypeOK'
        BY <1>19 DEF CollectFetch, CollectorsTypeOK, FetchTypeOK
    <2>2. FetchTypeOK'
        BY <1>19 DEF CollectFetch, FetchTypeOK
    <2>. QED
        BY <1>19, <2>1, <2>2, Kept DEF CollectFetch
<1>20. CASE \E c \in Collectors : RecordError(c)
    <2>1. CollectorsTypeOK'
        BY <1>20 DEF RecordError, CollectorsTypeOK
    <2>2. ResultTypeOK'
        BY <1>20 DEF RecordError, ResultTypeOK
    <2>. QED
        BY <1>20, <2>1, <2>2, Kept DEF RecordError
<1>21. CASE \E c \in Collectors : CollectorEnd(c)
    <2>1. CollectorsTypeOK'
        BY <1>21 DEF CollectorEnd, CollectorsTypeOK
    <2>. QED
        BY <1>21, <2>1, Kept DEF CollectorEnd
<1>22. CASE Cancel
    <2>1. ContextTypeOK'
        BY <1>22 DEF Cancel, ContextTypeOK
    <2>. QED
        BY <1>22, <2>1, Kept DEF Cancel
<1>23. CASE \E i \in Items : SendEnriched(i)
    <2>1. EnrichTypeOK'
        BY <1>23 DEF SendEnriched, EnrichTypeOK
    <2>. QED
        BY <1>23, <2>1, Kept DEF SendEnriched
<1>. QED
    BY <1>1, <1>2, <1>3, <1>4, <1>20, <1>21, <1>5, <1>6, <1>7, <1>8,
       <1>9, <1>10, <1>11, <1>12, <1>13, <1>14, <1>15, <1>16, <1>17,
       <1>18, <1>19, <1>22, <1>23
       DEF StageStep, PipelineNext

LEMMA StagesInit ==
    ASSUME PipelineInit
    PROVE  /\ PipelineTypeOK /\ GivenUp /\ SkippedStored /\ StagesEnded
           /\ EndedInOrder /\ StagesInOrder /\ OnlyNew
<1>1. ContextTypeOK /\ ResultTypeOK
    BY DEF PipelineInit, ContextTypeOK, ResultTypeOK
<1>2. FetchTypeOK
    BY Parameters DEF PipelineInit, FetchTypeOK
<1>3. DedupTypeOK /\ TransformTypeOK /\ EnrichTypeOK
    BY DEF PipelineInit, DedupTypeOK, TransformTypeOK, EnrichTypeOK
<1>4. CollectorsTypeOK
    BY DEF PipelineInit, CollectorsTypeOK
<1>5. GivenUp /\ SkippedStored /\ StagesEnded /\ EndedInOrder
    BY DEF PipelineInit, GivenUp, SkippedStored, StagesEnded, EndedInOrder
<1>6. dedup.item = 0 /\ transform.item = 0 /\ enrich.item = 0
    BY DEF PipelineInit
<1>7. StagesInOrder
    BY <1>6 DEF PipelineInit, StagesInOrder, AheadOfQueue, AheadOf, AheadOfDedup,
        AheadOfTransform
<1>8. OnlyNew
    BY <1>6 DEF PipelineInit, OnlyNew, New
<1>. QED
    BY <1>1, <1>2, <1>3, <1>4, <1>5, <1>7, <1>8 DEF PipelineTypeOK

\* A collector ends after the stage that writes to its channel.
LEMMA StagesEndedStep ==
    ASSUME CollectorsTypeOK, StagesEnded, StageStep \/ SinkStep
    PROVE  StagesEnded'
<1> USE DEF CollectorsTypeOK, StagesEnded, MuFree, cfgVars, fetchVars, resultVars
<1>1. CASE FetchEmit \/ FetchFail \/ FetchEnd
    BY <1>1 DEF FetchEmit, FetchFail, FetchEnd
<1>2. CASE DedupRecv \/ DedupCheck \/ DedupCountTotal \/ DedupCountSkipped \/ DedupEnd
    BY <1>2 DEF DedupRecv, DedupCheck, DedupCountTotal, DedupCountSkipped, DedupEnd
<1>3. CASE TransformRecv \/ TransformRecord \/ TransformFailed \/ TransformReport \/ TransformEnd
    BY <1>3 DEF TransformRecv, TransformRecord, TransformFailed, TransformReport, TransformEnd
<1>4. CASE EnrichRecv \/ EnrichRecord \/ EnrichFailed \/ EnrichReport \/ EnrichEnd
    BY <1>4 DEF EnrichRecv, EnrichRecord, EnrichFailed, EnrichReport, EnrichEnd
<1>5. CASE CollectFetch \/ \E c \in Collectors : RecordError(c) \/ CollectorEnd(c)
    BY <1>5 DEF CollectFetch, RecordError, CollectorEnd
<1>6. CASE Cancel \/ \E i \in Items : SendEnriched(i)
    BY <1>6 DEF Cancel, SendEnriched
<1>7. CASE SinkStep
    BY <1>7 DEF SinkStep
<1>. QED
    BY <1>1, <1>2, <1>3, <1>4, <1>5, <1>6, <1>7 DEF StageStep, PipelineNext

\* The enricher that has ended does not start again.
LEMMA EnrichStaysDone ==
    ASSUME StageStep \/ SinkStep, enrich = Done
    PROVE  enrich' = Done
<1> USE DEF MuFree, cfgVars, fetchVars, resultVars
<1>1. CASE FetchEmit \/ FetchFail \/ FetchEnd
    BY <1>1 DEF FetchEmit, FetchFail, FetchEnd
<1>2. CASE DedupRecv \/ DedupCheck \/ DedupCountTotal \/ DedupCountSkipped \/ DedupEnd
    BY <1>2 DEF DedupRecv, DedupCheck, DedupCountTotal, DedupCountSkipped, DedupEnd
<1>3. CASE TransformRecv \/ TransformRecord \/ TransformFailed \/ TransformReport \/ TransformEnd
    BY <1>3 DEF TransformRecv, TransformRecord, TransformFailed, TransformReport, TransformEnd
<1>4. CASE EnrichRecv \/ EnrichRecord \/ EnrichFailed \/ EnrichReport \/ EnrichEnd
    BY <1>4 DEF EnrichRecv, EnrichRecord, EnrichFailed, EnrichReport, EnrichEnd
<1>5. CASE CollectFetch \/ \E c \in Collectors : RecordError(c) \/ CollectorEnd(c)
    BY <1>5 DEF CollectFetch, RecordError, CollectorEnd
<1>6. CASE Cancel \/ \E i \in Items : SendEnriched(i)
    BY <1>6 DEF Cancel, SendEnriched
<1>7. CASE SinkStep
    BY <1>7 DEF SinkStep
<1>. QED
    BY <1>1, <1>2, <1>3, <1>4, <1>5, <1>6, <1>7 DEF StageStep, PipelineNext

\* A collector that has ended does not start again.
LEMMA CollectorsStayDone ==
    ASSUME CollectorsTypeOK, StageStep \/ SinkStep, NEW c \in Collectors, col[c] = Done
    PROVE  col'[c] = Done
<1> USE DEF CollectorsTypeOK, MuFree, cfgVars, fetchVars, resultVars
<1>1. CASE FetchEmit \/ FetchFail \/ FetchEnd
    BY <1>1 DEF FetchEmit, FetchFail, FetchEnd
<1>2. CASE DedupRecv \/ DedupCheck \/ DedupCountTotal \/ DedupCountSkipped \/ DedupEnd
    BY <1>2 DEF DedupRecv, DedupCheck, DedupCountTotal, DedupCountSkipped, DedupEnd
<1>3. CASE TransformRecv \/ TransformRecord \/ TransformFailed \/ TransformReport \/ TransformEnd
    BY <1>3 DEF TransformRecv, TransformRecord, TransformFailed, TransformReport, TransformEnd
<1>4. CASE EnrichRecv \/ EnrichRecord \/ EnrichFailed \/ EnrichReport \/ EnrichEnd
    BY <1>4 DEF EnrichRecv, EnrichRecord, EnrichFailed, EnrichReport, EnrichEnd
<1>5. CASE CollectFetch \/ \E d \in Collectors : RecordError(d) \/ CollectorEnd(d)
    BY <1>5 DEF CollectFetch, RecordError, CollectorEnd
<1>6. CASE Cancel \/ \E i \in Items : SendEnriched(i)
    BY <1>6 DEF Cancel, SendEnriched
<1>7. CASE SinkStep
    BY <1>7 DEF SinkStep
<1>. QED
    BY <1>1, <1>2, <1>3, <1>4, <1>5, <1>6, <1>7 DEF StageStep, PipelineNext

\* Without cancellation the stages end in their order.
LEMMA EndedInOrderStep ==
    ASSUME EndedInOrder, StageStep \/ SinkStep
    PROVE  EndedInOrder'
<1> USE DEF EndedInOrder, MuFree, cfgVars, fetchVars, resultVars
<1>1. CASE FetchEmit \/ FetchFail \/ FetchEnd
    BY <1>1 DEF FetchEmit, FetchFail, FetchEnd
<1>2. CASE DedupRecv \/ DedupCheck \/ DedupCountTotal \/ DedupCountSkipped \/ DedupEnd
    BY <1>2 DEF DedupRecv, DedupCheck, DedupCountTotal, DedupCountSkipped, DedupEnd
<1>3. CASE TransformRecv \/ TransformRecord \/ TransformFailed \/ TransformReport \/ TransformEnd
    BY <1>3 DEF TransformRecv, TransformRecord, TransformFailed, TransformReport, TransformEnd
<1>4. CASE EnrichRecv \/ EnrichRecord \/ EnrichFailed \/ EnrichReport \/ EnrichEnd
    BY <1>4 DEF EnrichRecv, EnrichRecord, EnrichFailed, EnrichReport, EnrichEnd
<1>5. CASE CollectFetch \/ \E c \in Collectors : RecordError(c) \/ CollectorEnd(c)
    BY <1>5 DEF CollectFetch, RecordError, CollectorEnd
<1>6. CASE Cancel \/ \E i \in Items : SendEnriched(i)
    BY <1>6 DEF Cancel, SendEnriched
<1>7. CASE SinkStep
    BY <1>7 DEF SinkStep
<1>. QED
    BY <1>1, <1>2, <1>3, <1>4, <1>5, <1>6, <1>7 DEF StageStep, PipelineNext

\* The directory grows, and holds what dedup skips.
LEMMA SkippedStoredStep ==
    ASSUME SkippedStored, StageStep \/ SinkStep
    PROVE  SkippedStored'
<1> USE DEF SkippedStored, MuFree, cfgVars, fetchVars, resultVars
<1>1. CASE FetchEmit \/ FetchFail \/ FetchEnd
    BY <1>1 DEF FetchEmit, FetchFail, FetchEnd
<1>2. CASE DedupRecv \/ DedupCheck \/ DedupCountTotal \/ DedupCountSkipped \/ DedupEnd
    BY <1>2 DEF DedupRecv, DedupCheck, DedupCountTotal, DedupCountSkipped, DedupEnd
<1>3. CASE TransformRecv \/ TransformRecord \/ TransformFailed \/ TransformReport \/ TransformEnd
    BY <1>3 DEF TransformRecv, TransformRecord, TransformFailed, TransformReport, TransformEnd
<1>4. CASE EnrichRecv \/ EnrichRecord \/ EnrichFailed \/ EnrichReport \/ EnrichEnd
    BY <1>4 DEF EnrichRecv, EnrichRecord, EnrichFailed, EnrichReport, EnrichEnd
<1>5. CASE CollectFetch \/ \E c \in Collectors : RecordError(c) \/ CollectorEnd(c)
    BY <1>5 DEF CollectFetch, RecordError, CollectorEnd
<1>6. CASE Cancel \/ \E i \in Items : SendEnriched(i)
    BY <1>6 DEF Cancel, SendEnriched
<1>7. CASE SinkStep
    BY <1>7 DEF SinkStep
<1>. QED
    BY <1>1, <1>2, <1>3, <1>4, <1>5, <1>6, <1>7 DEF StageStep, PipelineNext

\* The error of a fetcher that gave up is not lost.
LEMMA GivenUpStep ==
    ASSUME CollectorsTypeOK, FetchTypeOK, GivenUp, StageStep \/ SinkStep
    PROVE  GivenUp'
<1> USE Parameters
    DEF GivenUp, CollectorsTypeOK, FetchTypeOK, MuFree, cfgVars, fetchVars, resultVars
<1>1. CASE FetchEmit \/ FetchFail \/ FetchEnd
    BY <1>1 DEF FetchEmit, FetchFail, FetchEnd
<1>2. CASE DedupRecv \/ DedupCheck \/ DedupCountTotal \/ DedupCountSkipped \/ DedupEnd
    BY <1>2 DEF DedupRecv, DedupCheck, DedupCountTotal, DedupCountSkipped, DedupEnd
<1>3. CASE TransformRecv \/ TransformRecord \/ TransformFailed \/ TransformReport \/ TransformEnd
    BY <1>3 DEF TransformRecv, TransformRecord, TransformFailed, TransformReport, TransformEnd
<1>4. CASE EnrichRecv \/ EnrichRecord \/ EnrichFailed \/ EnrichReport \/ EnrichEnd
    BY <1>4 DEF EnrichRecv, EnrichRecord, EnrichFailed, EnrichReport, EnrichEnd
<1>5. CASE CollectFetch \/ \E c \in Collectors : RecordError(c) \/ CollectorEnd(c)
    BY <1>5 DEF CollectFetch, RecordError, CollectorEnd
<1>6. CASE Cancel \/ \E i \in Items : SendEnriched(i)
    BY <1>6 DEF Cancel, SendEnriched
<1>7. CASE SinkStep
    BY <1>7 DEF SinkStep
<1>. QED
    BY <1>1, <1>2, <1>3, <1>4, <1>5, <1>6, <1>7 DEF StageStep, PipelineNext

\* The stages write neither to the directory nor over an error, and a fetcher
\* that has ended turns to no further unit.
LEMMA StagesOnlyAdd ==
    ASSUME StageStep
    PROVE  /\ UNCHANGED <<directory, existing>> /\ errors \subseteq errors'
           /\ fetch = Done => fetch' = Done /\ next' = next
           /\ Cancel \/ cancelled' = cancelled
           /\ (dedup.at = "off") = (dedup'.at = "off")
<1> USE DEF MuFree, cfgVars, fetchVars, resultVars
<1>1. CASE FetchEmit \/ FetchFail \/ FetchEnd
    BY <1>1 DEF FetchEmit, FetchFail, FetchEnd
<1>2. CASE DedupRecv \/ DedupCheck \/ DedupCountTotal \/ DedupCountSkipped \/ DedupEnd
    BY <1>2 DEF DedupRecv, DedupCheck, DedupCountTotal, DedupCountSkipped, DedupEnd
<1>3. CASE TransformRecv \/ TransformRecord \/ TransformFailed \/ TransformReport \/ TransformEnd
    BY <1>3 DEF TransformRecv, TransformRecord, TransformFailed, TransformReport, TransformEnd
<1>4. CASE EnrichRecv \/ EnrichRecord \/ EnrichFailed \/ EnrichReport \/ EnrichEnd
    BY <1>4 DEF EnrichRecv, EnrichRecord, EnrichFailed, EnrichReport, EnrichEnd
<1>5. CASE CollectFetch \/ \E c \in Collectors : RecordError(c) \/ CollectorEnd(c)
    BY <1>5 DEF CollectFetch, RecordError, CollectorEnd
<1>6. CASE Cancel \/ \E i \in Items : SendEnriched(i)
    BY <1>6 DEF Cancel, SendEnriched
<1>. QED
    BY <1>1, <1>2, <1>3, <1>4, <1>5, <1>6 DEF StageStep, PipelineNext

\* When the stages with a collector have ended, only dedup and the context still
\* move.
LEMMA StagesQuiet ==
    ASSUME StageStep, fetch = Done, transform = Done, enrich = Done,
           \A c \in Collectors : col[c] = Done
    PROVE  /\ UNCHANGED <<directory, errors, failed, next, fetch>>
           /\ dedup.at \in {"done", "off"} => UNCHANGED <<total, skipped>>
<1> USE DEF MuFree, cfgVars, fetchVars, resultVars
<1>1. CASE FetchEmit \/ FetchFail \/ FetchEnd
    BY <1>1 DEF FetchEmit, FetchFail, FetchEnd
<1>2. CASE DedupRecv \/ DedupCheck \/ DedupCountTotal \/ DedupCountSkipped \/ DedupEnd
    BY <1>2 DEF DedupRecv, DedupCheck, DedupCountTotal, DedupCountSkipped, DedupEnd
<1>3. CASE TransformRecv \/ TransformRecord \/ TransformFailed \/ TransformReport \/ TransformEnd
    BY <1>3 DEF TransformRecv, TransformRecord, TransformFailed, TransformReport, TransformEnd
<1>4. CASE EnrichRecv \/ EnrichRecord \/ EnrichFailed \/ EnrichReport \/ EnrichEnd
    BY <1>4 DEF EnrichRecv, EnrichRecord, EnrichFailed, EnrichReport, EnrichEnd
<1>5. CASE CollectFetch \/ \E c \in Collectors : RecordError(c) \/ CollectorEnd(c)
    BY <1>5 DEF CollectFetch, RecordError, CollectorEnd
<1>6. CASE Cancel \/ \E i \in Items : SendEnriched(i)
    BY <1>6 DEF Cancel, SendEnriched
<1>. QED
    BY <1>1, <1>2, <1>3, <1>4, <1>5, <1>6 DEF StageStep, PipelineNext

----------------------------------------------------------------------------
(* Where the units are.                                                    *)

\* The items of a channel after a send and after a receive.
LEMMA ChannelItems ==
    ASSUME NEW q \in Seq(Items), NEW x \in Items
    PROVE  /\ DOMAIN Append(q, x) = 1..(Len(q) + 1) /\ DOMAIN q = 1..Len(q)
           /\ \A k \in DOMAIN q : Append(q, x)[k] = q[k]
           /\ Append(q, x)[Len(q) + 1] = x
           /\ q # <<>> =>
                /\ Len(q) \in Nat \ {0} /\ Head(q) = q[1]
                /\ DOMAIN Tail(q) = 1..(Len(q) - 1)
                /\ \A k \in 1..(Len(q) - 1) : Tail(q)[k] = q[k + 1]
OBVIOUS

\* What is in a channel is still there after a receive, except its head.
LEMMA ReceiveItems ==
    ASSUME NEW q \in Seq(Items), q # <<>>, NEW i \in Items,
           \E k \in DOMAIN q : q[k] = i
    PROVE  i = Head(q) \/ \E k \in DOMAIN Tail(q) : Tail(q)[k] = i
<1>1. PICK k \in DOMAIN q : q[k] = i
    OBVIOUS
<1>2. CASE k = 1
    BY <1>1, <1>2
<1>3. CASE k # 1
    <2>1. k \in 2..Len(q) /\ DOMAIN Tail(q) = 1..(Len(q) - 1)
        BY <1>1, <1>3
    <2>2. k - 1 \in DOMAIN Tail(q) /\ Tail(q)[k - 1] = i
        BY <1>1, <2>1
    <2>. QED
        BY <2>2
<1>. QED
    BY <1>2, <1>3

\* A send leaves what is in a channel there, and adds the item sent.
LEMMA SendItems ==
    ASSUME NEW q \in Seq(Items), NEW x \in Items, NEW i \in Items,
           i = x \/ \E k \in DOMAIN q : q[k] = i
    PROVE  \E k \in DOMAIN Append(q, x) : Append(q, x)[k] = i
<1>1. CASE i = x
    <2>1. /\ Len(q) + 1 \in DOMAIN Append(q, x)
          /\ Append(q, x)[Len(q) + 1] = x
        OBVIOUS
    <2>. QED
        BY <1>1, <2>1
<1>2. CASE \E k \in DOMAIN q : q[k] = i
    <2>1. PICK k \in DOMAIN q : q[k] = i
        BY <1>2
    <2>2. k \in DOMAIN Append(q, x) /\ Append(q, x)[k] = i
        BY <2>1
    <2>. QED
        BY <2>2
<1>. QED
    BY <1>1, <1>2

\* A unit that is in the stages, delivered or in an error stays so, or goes to
\* the last stage, as item j; a new one is in the stages.
LEMMA TrackedByStages ==
    ASSUME PipelineTypeOK, SkippedStored, EndedInOrder, ~cancelled',
           NEW j \in Items \cup {None},
           PipelineNext \/ Cancel \/ SendEnriched(j) \/ SinkStep,
           NEW i \in Items, i < next',
           i < next => InStages(i) \/ Content[i] \in directory \/ Collected(i)
    PROVE  (InStages(i) \/ Content[i] \in directory \/ Collected(i))' \/ i = j
<1>a. /\ DedupTypeOK /\ TransformTypeOK /\ EnrichTypeOK /\ CollectorsTypeOK
      /\ ferr \in Items \cup {None} /\ next \in Nat /\ N \in Nat
    BY Parameters DEF PipelineTypeOK, FetchTypeOK
<1>b. Queued(i) /\ queue' = queue => Queued(i)'
    BY DEF Queued
<1>c. Recorded(i) /\ errors \subseteq errors' => Recorded(i)'
    BY DEF Recorded
<1>q. queue \in Seq(Items)
    BY DEF PipelineTypeOK, FetchTypeOK
<1>e. next \in Items /\ queue' = Append(queue, next) =>
        (Queued(i) \/ i = next => Queued(i)')
    <2>. SUFFICES ASSUME next \in Items, queue' = Append(queue, next),
                         Queued(i) \/ i = next
                  PROVE  Queued(i)'
        OBVIOUS
    <2>1. \E k \in DOMAIN Append(queue, next) : Append(queue, next)[k] = i
        BY SendItems, <1>q DEF Queued
    <2>. QED
        BY <2>1, Zenon DEF Queued
<1>f. queue # <<>> /\ queue' = Tail(queue) =>
        (Queued(i) => i = Head(queue) \/ Queued(i)')
    <2>. SUFFICES ASSUME queue # <<>>, queue' = Tail(queue), Queued(i)
                  PROVE  i = Head(queue) \/ Queued(i)'
        OBVIOUS
    <2>1. i = Head(queue) \/ \E k \in DOMAIN Tail(queue) : Tail(queue)[k] = i
        BY ReceiveItems, <1>q DEF Queued
    <2>. QED
        BY <2>1, Zenon DEF Queued
<1> USE <1>a, <1>b, <1>c
    DEF DedupTypeOK, TransformTypeOK, EnrichTypeOK, CollectorsTypeOK,
        InStages, Collected, SkippedStored, cfgVars, fetchVars, resultVars
<1>1. CASE FetchEmit
    <2>1. queue' = Append(queue, next) /\ next \in Items /\ next' = next + 1
        BY <1>1 DEF FetchEmit
    <2>2. Queued(i) \/ i = next => Queued(i)'
        BY <1>e, <2>1
    <2>3. i < next \/ i = next
        BY <2>1
    <2>. QED
        BY <1>1, <2>2, <2>3 DEF FetchEmit
<1>2. CASE FetchFail \/ FetchEnd
    BY <1>2 DEF FetchFail, FetchEnd
<1>3. CASE DedupRecv
    <2>1. Queued(i) => i = Head(queue) \/ Queued(i)'
        BY <1>f, <1>3 DEF DedupRecv
    <2>. QED
        BY <1>3, <2>1 DEF DedupRecv
<1>4. CASE DedupCheck
    BY <1>4 DEF DedupCheck
<1>5. CASE DedupCountTotal \/ DedupCountSkipped
    BY <1>5 DEF DedupCountTotal, DedupCountSkipped
<1>6. CASE DedupEnd
    BY <1>6 DEF DedupEnd
<1>7. CASE TransformRecv
    <2>1. CASE dedup.at = "send"
        BY <1>7, <2>1 DEF TransformRecv
    <2>2. CASE dedup.at = "off"
        <3>1. /\ queue # <<>> /\ queue' = Tail(queue)
              /\ transform' = At("count", Head(queue))
              /\ UNCHANGED dedup
            BY <1>7, <2>2, Zenon DEF TransformRecv
        <3>2. Queued(i) => i = Head(queue) \/ Queued(i)'
            BY <1>f, <3>1
        <3>. QED
            BY <1>7, <3>1, <3>2 DEF TransformRecv
    <2>. QED
        BY <1>7, <2>1, <2>2 DEF TransformRecv
<1>8. CASE TransformRecord \/ TransformFailed
    BY <1>8 DEF TransformRecord, TransformFailed
<1>9. CASE TransformReport
    BY <1>9 DEF TransformReport
<1>10. CASE TransformEnd
    BY <1>10 DEF TransformEnd
<1>11. CASE EnrichRecv \/ EnrichRecord \/ EnrichFailed
    BY <1>11 DEF EnrichRecv, EnrichRecord, EnrichFailed
<1>12. CASE EnrichReport
    BY <1>12 DEF EnrichReport
<1>13. CASE EnrichEnd
    BY <1>13 DEF EnrichEnd
<1>14. CASE CollectFetch
    BY <1>14 DEF CollectFetch
<1>15. CASE \E c \in Collectors : RecordError(c)
    BY <1>15 DEF RecordError, Recorded
<1>16. CASE \E c \in Collectors : CollectorEnd(c)
    BY <1>16 DEF CollectorEnd
<1>17. CASE Cancel
    BY <1>17 DEF Cancel
<1>18. CASE SendEnriched(j)
    BY <1>18 DEF SendEnriched
<1>19. CASE SinkStep
    BY <1>19 DEF SinkStep
<1>. QED
    BY <1>1, <1>2, <1>3, <1>4, <1>5, <1>6, <1>7, <1>8, <1>9, <1>10, <1>11,
       <1>12, <1>13, <1>14, <1>15, <1>16, <1>17, <1>18, <1>19
       DEF PipelineNext

----------------------------------------------------------------------------
(* The order of the units.                                                 *)

\* What one step changes of the items in the stages: nothing, or one item moves
\* on, or is let go of.
Moves ==
    \/ /\ queue' = Append(queue, next) /\ next \in Items /\ next' = next + 1
       /\ UNCHANGED <<dedup, transform, enrich>>
    \/ /\ queue # <<>> /\ queue' = Tail(queue) /\ next' = next
       /\ \/ /\ dedup.item = None /\ dedup'.item = Head(queue)
             /\ UNCHANGED <<transform, enrich>>
          \/ /\ dedup.item = None /\ transform.item = None
             /\ transform'.item = Head(queue) /\ UNCHANGED <<dedup, enrich>>
    \/ /\ queue' = queue /\ next' \in {next, next + 1}
       /\ \/ /\ dedup'.item \in {dedup.item, None}
             /\ transform'.item \in {transform.item, None}
             /\ enrich'.item \in {enrich.item, None}
          \/ /\ transform.item = None /\ transform'.item = dedup.item
             /\ dedup'.item = None /\ UNCHANGED enrich
          \/ /\ enrich.item = None /\ enrich'.item = transform.item
             /\ transform'.item = None /\ UNCHANGED dedup

LEMMA StepMoves ==
    ASSUME PipelineTypeOK, StageStep \/ SinkStep
    PROVE  Moves
<1> USE DEF Moves, PipelineTypeOK, DedupTypeOK, TransformTypeOK, EnrichTypeOK,
        MuFree, cfgVars, fetchVars, resultVars
<1>1. CASE FetchEmit \/ FetchFail \/ FetchEnd
    BY <1>1 DEF FetchEmit, FetchFail, FetchEnd
<1>2. CASE DedupRecv \/ DedupCheck \/ DedupCountTotal \/ DedupCountSkipped \/ DedupEnd
    BY <1>2 DEF DedupRecv, DedupCheck, DedupCountTotal, DedupCountSkipped, DedupEnd
<1>3. CASE TransformRecv \/ TransformRecord \/ TransformFailed \/ TransformReport \/ TransformEnd
    BY <1>3 DEF TransformRecv, TransformRecord, TransformFailed, TransformReport, TransformEnd
<1>4. CASE EnrichRecv \/ EnrichRecord \/ EnrichFailed \/ EnrichReport \/ EnrichEnd
    BY <1>4 DEF EnrichRecv, EnrichRecord, EnrichFailed, EnrichReport, EnrichEnd
<1>5. CASE CollectFetch \/ \E c \in Collectors : RecordError(c) \/ CollectorEnd(c)
    BY <1>5 DEF CollectFetch, RecordError, CollectorEnd
<1>6. CASE Cancel \/ \E i \in Items : SendEnriched(i)
    BY <1>6 DEF Cancel, SendEnriched
<1>7. CASE SinkStep
    BY <1>7 DEF SinkStep
<1>. QED
    BY <1>1, <1>2, <1>3, <1>4, <1>5, <1>6, <1>7 DEF StageStep, PipelineNext

LEMMA ItemTypes ==
    ASSUME PipelineTypeOK
    PROVE  /\ dedup.item \in 0..N /\ transform.item \in 0..N /\ enrich.item \in 0..N
           /\ queue \in Seq(Items) /\ next \in 1..(N + 1) /\ N \in Nat
           /\ \A k \in DOMAIN queue : queue[k] \in Items
BY Parameters DEF PipelineTypeOK, FetchTypeOK, DedupTypeOK, TransformTypeOK, EnrichTypeOK

\* The items of the fetcher's channel after a step.
LEMMA MovedQueue ==
    ASSUME PipelineTypeOK, Moves
    PROVE  /\ next' \in {next, next + 1}
           /\ \/ \A k \in DOMAIN queue' :
                    \/ queue'[k] = next /\ next' = next + 1 /\ k = Len(queue) + 1
                    \/ k \in DOMAIN queue /\ queue'[k] = queue[k]
              \/ \A k \in DOMAIN queue' :
                    k + 1 \in DOMAIN queue /\ queue'[k] = queue[k + 1]
<1>1. CASE queue' = Append(queue, next) /\ next \in Items /\ next' = next + 1
    <2>1. /\ DOMAIN queue' = 1..(Len(queue) + 1) /\ DOMAIN queue = 1..Len(queue)
          /\ \A k \in DOMAIN queue : queue'[k] = queue[k]
          /\ queue'[Len(queue) + 1] = next
        BY <1>1, ChannelItems, ItemTypes
    <2>2. Len(queue) \in Nat
        BY ItemTypes
    <2>3. ASSUME NEW k \in DOMAIN queue'
          PROVE  k = Len(queue) + 1 \/ k \in DOMAIN queue
        BY <2>1, <2>2
    <2>. QED
        BY <1>1, <2>1, <2>3
<1>2. CASE queue # <<>> /\ queue' = Tail(queue) /\ next' = next
    <2>1. /\ DOMAIN queue = 1..Len(queue) /\ Len(queue) \in Nat \ {0}
          /\ DOMAIN queue' = 1..(Len(queue) - 1)
          /\ \A k \in 1..(Len(queue) - 1) : queue'[k] = queue[k + 1]
        BY <1>2, ItemTypes
    <2>2. \A k \in DOMAIN queue' : k + 1 \in DOMAIN queue /\ queue'[k] = queue[k + 1]
        BY <2>1
    <2>. QED
        BY <1>2, <2>2
<1>3. CASE queue' = queue /\ next' \in {next, next + 1}
    <2>1. next' \in {next, next + 1}
        BY <1>3
    <2>2. \A k \in DOMAIN queue' : k \in DOMAIN queue /\ queue'[k] = queue[k]
        BY <1>3
    <2>. QED
        BY <2>1, <2>2
<1>. QED
    BY <1>1, <1>2, <1>3 DEF Moves

\* Who is ahead of the stages stays so.
LEMMA AheadKept ==
    ASSUME PipelineTypeOK, Moves, NEW i \in 0..N, AheadOfStages(i)
    PROVE  AheadOfStages(i)'
<1> USE DEF AheadOfStages, AheadOfTransform, AheadOfDedup, AheadOfQueue, AheadOf
<1>1. AheadOfQueue(i)'
    <2>1. i < next'
        BY MovedQueue, ItemTypes
    <2>2. ASSUME NEW k \in DOMAIN queue' PROVE i < queue'[k]
        BY <2>2, MovedQueue, ItemTypes
    <2>. QED
        BY <2>1, <2>2
<1>2. queue # <<>> => Head(queue) = queue[1] /\ 1 \in DOMAIN queue
    BY ItemTypes
<1>. QED
    BY <1>1, <1>2, ItemTypes DEF Moves

LEMMA AheadOfTransformKept ==
    ASSUME PipelineTypeOK, Moves, NEW i \in 0..N, AheadOfTransform(i)
    PROVE  AheadOfTransform(i)'
<1> USE DEF AheadOfTransform, AheadOfDedup, AheadOfQueue, AheadOf
<1>1. AheadOfQueue(i)'
    <2>1. i < next'
        BY MovedQueue, ItemTypes
    <2>2. ASSUME NEW k \in DOMAIN queue' PROVE i < queue'[k]
        BY <2>2, MovedQueue, ItemTypes
    <2>. QED
        BY <2>1, <2>2
<1>2. queue # <<>> => Head(queue) = queue[1] /\ 1 \in DOMAIN queue
    BY ItemTypes
<1>. QED
    BY <1>1, <1>2, ItemTypes DEF Moves

LEMMA NoneAhead ==
    ASSUME PipelineTypeOK
    PROVE  AheadOfStages(None)
BY ItemTypes DEF AheadOfStages, AheadOfTransform, AheadOfDedup, AheadOfQueue, AheadOf

LEMMA SeqElement ==
    ASSUME NEW S, NEW q \in Seq(S), NEW k \in DOMAIN q
    PROVE  q[k] \in S
OBVIOUS

\* No stage overtakes another one in a step.
LEMMA StagesInOrderStep ==
    ASSUME PipelineTypeOK, FetchTypeOK', StagesInOrder, Moves
    PROVE  StagesInOrder'
<1> USE DEF StagesInOrder, AheadOfTransform, AheadOfDedup, AheadOfQueue, AheadOf
<1>1. ASSUME NEW k \in DOMAIN queue' PROVE queue'[k] < next'
    BY <1>1, MovedQueue, ItemTypes
<1>2. ASSUME NEW k \in DOMAIN queue', NEW j \in 1..(k - 1) PROVE queue'[j] < queue'[k]
    <2>1. j \in DOMAIN queue' /\ k \in Nat /\ j \in Nat /\ j < k
        BY <1>2 DEF FetchTypeOK
    <2>2. DOMAIN queue = 1..Len(queue) /\ Len(queue) \in Nat
        BY ItemTypes
    <2>3. CASE \A n \in DOMAIN queue' :
                    \/ queue'[n] = next /\ next' = next + 1 /\ n = Len(queue) + 1
                    \/ n \in DOMAIN queue /\ queue'[n] = queue[n]
        BY <1>2, <2>1, <2>2, <2>3
    <2>4. CASE \A n \in DOMAIN queue' :
                    n + 1 \in DOMAIN queue /\ queue'[n] = queue[n + 1]
        <3>1. k + 1 \in DOMAIN queue /\ j + 1 \in 1..((k + 1) - 1)
            BY <1>2, <2>1, <2>4
        <3>. QED
            BY <1>2, <2>1, <2>4, <3>1
    <2>. QED
        BY <2>3, <2>4, MovedQueue
<1> DEFINE Before(i) == i < next /\ \A k \in DOMAIN queue : i < queue[k]
           After(i) == i < next' /\ \A k \in DOMAIN queue' : i < queue'[k]
<1>3. ASSUME NEW i \in 0..N, Before(i) PROVE After(i)
    <2>1. i < next'
        BY <1>3, MovedQueue, ItemTypes
    <2>2. ASSUME NEW k \in DOMAIN queue' PROVE i < queue'[k]
        BY <1>3, <2>2, MovedQueue, ItemTypes
    <2>. QED
        BY <2>1, <2>2
<1>4. queue # <<>> => Head(queue) = queue[1] /\ 1 \in DOMAIN queue
    BY ItemTypes
<1>5. queue # <<>> /\ queue' = Tail(queue) /\ next' = next => After(Head(queue))
    <2>. SUFFICES ASSUME queue # <<>>, queue' = Tail(queue), next' = next
                  PROVE  After(Head(queue))
        OBVIOUS
    <2>1. Head(queue) < next'
        BY <1>4
    <2>2. ASSUME NEW k \in DOMAIN queue' PROVE Head(queue) < queue'[k]
        <3>1. k + 1 \in DOMAIN queue /\ queue'[k] = queue[k + 1] /\ 1 \in 1..((k + 1) - 1)
            BY <2>2, ItemTypes
        <3>. QED
            BY <3>1, <1>4
    <2>. QED
        BY <2>1, <2>2
<1>6. After(0)
    <2>1. 0 < next'
        BY MovedQueue, ItemTypes
    <2>2. ASSUME NEW k \in DOMAIN queue' PROVE 0 < queue'[k]
        <3>1. queue' \in Seq(Items)
            BY DEF FetchTypeOK
        <3>2. queue'[k] \in Items
            BY <3>1, <2>2, SeqElement
        <3>. QED
            BY <3>2
    <2>. QED
        BY <2>1, <2>2
<1>7. Before(dedup.item) /\ Before(transform.item) /\ Before(enrich.item)
    OBVIOUS
<1>8. queue # <<>> => /\ dedup.item < Head(queue) /\ transform.item < Head(queue)
                      /\ enrich.item < Head(queue)
    BY <1>4, <1>7
<1> HIDE DEF Before, After
<1>9. After(dedup'.item) /\ After(transform'.item) /\ After(enrich'.item)
    BY <1>3, <1>5, <1>6, <1>7, ItemTypes DEF Moves
<1>10. dedup'.item = 0 \/ (transform'.item < dedup'.item /\ enrich'.item < dedup'.item)
    BY <1>8, ItemTypes DEF Moves
<1>11. transform'.item = 0 \/ enrich'.item < transform'.item
    BY <1>8, ItemTypes DEF Moves
<1> USE DEF Before, After
<1>. QED
    BY <1>1, <1>2, <1>9, <1>10, <1>11

\* Lookups that may be relied on were so before, for the same directory.
LEMMA ReliedBefore ==
    ASSUME StageStep \/ SinkStep
    PROVE  (Relied' => Relied) /\ existing' = existing
<1>1. CASE StageStep
    <2>1. /\ existing' = existing
          /\ Cancel \/ cancelled' = cancelled
          /\ (dedup.at = "off") = (dedup'.at = "off")
        BY <1>1, StagesOnlyAdd, Zenon
    <2>2. ~cancelled' => ~cancelled
        BY <2>1 DEF Cancel
    <2>3. dedup'.at # "off" => dedup.at # "off"
        BY <2>1
    <2>. QED
        BY <2>1, <2>2, <2>3 DEF Relied
<1>2. CASE SinkStep
    BY <1>2 DEF SinkStep, Relied, cfgVars
<1>. QED
    BY <1>1, <1>2

\* Dedup lets through only what is new, when it may be relied on.
LEMMA OnlyNewStep ==
    ASSUME PipelineTypeOK, SkippedStored, OnlyNew, StageStep \/ SinkStep
    PROVE  OnlyNew'
<1> USE DEF OnlyNew, Relied, New, SkippedStored, PipelineTypeOK, DedupTypeOK,
        TransformTypeOK, EnrichTypeOK, MuFree, cfgVars, fetchVars, resultVars
<1>1. CASE FetchEmit \/ FetchFail \/ FetchEnd
    BY <1>1 DEF FetchEmit, FetchFail, FetchEnd
<1>2. CASE DedupRecv \/ DedupCheck \/ DedupCountTotal \/ DedupCountSkipped \/ DedupEnd
    BY <1>2 DEF DedupRecv, DedupCheck, DedupCountTotal, DedupCountSkipped, DedupEnd
<1>3. CASE TransformRecv \/ TransformRecord \/ TransformFailed \/ TransformReport \/ TransformEnd
    BY <1>3 DEF TransformRecv, TransformRecord, TransformFailed, TransformReport, TransformEnd
<1>4. CASE EnrichRecv \/ EnrichRecord \/ EnrichFailed \/ EnrichReport \/ EnrichEnd
    BY <1>4 DEF EnrichRecv, EnrichRecord, EnrichFailed, EnrichReport, EnrichEnd
<1>5. CASE CollectFetch \/ \E c \in Collectors : RecordError(c) \/ CollectorEnd(c)
    BY <1>5 DEF CollectFetch, RecordError, CollectorEnd
<1>6. CASE Cancel \/ \E i \in Items : SendEnriched(i)
    BY <1>6 DEF Cancel, SendEnriched
<1>7. CASE SinkStep
    BY <1>7 DEF SinkStep
<1>. QED
    BY <1>1, <1>2, <1>3, <1>4, <1>5, <1>6, <1>7 DEF StageStep, PipelineNext

----------------------------------------------------------------------------
(***************************************************************************)
(* Importer.Run.                                                           *)
(***************************************************************************)

\* The steps of the stages alone, of the context, and stutters.
Upstream ==
    /\ PipelineNext \/ Cancel \/ UNCHANGED pipeVars
    /\ UNCHANGED <<sinkVars, mainVars>>

\* Every step is one of the stages or of what lies beyond them.
LEMMA Steps ==
    ASSUME [Next]_vars
    PROVE  /\ Upstream \/ PushRecv \/ SinkStep
           /\ StageStep \/ SinkStep
<1> USE DEF StageStep, SinkStep, Upstream, resultVars, pipeVars
<1>1. CASE PushRecv
    BY <1>1 DEF PushRecv
<1>2. CASE PushRecord \/ SignRecord \/ PushReport \/ PushRef \/ PushCancelled \/ PushEnd
    BY <1>2 DEF PushRecord, SignRecord, PushReport, PushRef, PushCancelled, PushEnd
<1>3. CASE CountImported \/ CountPushError \/ PushCollectorEnd
    BY <1>3 DEF CountImported, CountPushError, PushCollectorEnd
<1>4. CASE ReadTotal \/ Return
    BY <1>4 DEF ReadTotal, Return
<1>5. CASE UNCHANGED vars
    BY <1>5 DEF vars
<1>. QED
    BY <1>1, <1>2, <1>3, <1>4, <1>5 DEF Next, Progress, Terminated

----------------------------------------------------------------------------
(* Types.                                                                  *)

LEMMA KeptBeyond ==
    /\ PushTypeOK /\ UNCHANGED <<push, blank>> => PushTypeOK'
    /\ SinkCollectorsTypeOK /\ UNCHANGED <<refCol, pushCol>>
            => SinkCollectorsTypeOK'
    /\ ImportedTypeOK /\ UNCHANGED <<imported, cids>> => ImportedTypeOK'
    /\ CallerTypeOK /\ UNCHANGED mainVars => CallerTypeOK'
BY DEF PushTypeOK, SinkCollectorsTypeOK, ImportedTypeOK, CallerTypeOK, mainVars

LEMMA TypesStep ==
    ASSUME TypeOK, [Next]_vars
    PROVE  TypeOK'
<1> USE DEF TypeOK, PipelineTypeOK, cfgVars, fetchVars, resultVars, sinkVars,
        mainVars, pipeVars
<1>1. CASE PushRecv
    <2>1. PushTypeOK'
        BY <1>1 DEF PushRecv, SendEnriched, PushTypeOK
    <2>2. StageStep /\ UNCHANGED <<blank, refCol, pushCol, imported, cids, mainVars>>
        BY <1>1 DEF PushRecv, StageStep
    <2>. QED
        BY <2>1, <2>2, StageTypes, KeptBeyond
<1>2. CASE PushRecord
    <2>1. push.item \in Items /\ Content[push.item] \in Contents
        BY <1>2, Parameters DEF PushRecord, PushTypeOK
    <2>2. ContextTypeOK'
        BY <1>2, <2>1 DEF PushRecord, ContextTypeOK
    <2>3. push' \in Holding({"sign", "ref", "err"})
        BY <1>2, <2>1 DEF PushRecord
    <2>4. blank' \subseteq Items
        BY <1>2, <2>1 DEF PushRecord, PushTypeOK
    <2>5. PushTypeOK'
        BY <2>3, <2>4 DEF PushTypeOK
    <2>. QED
        BY <1>2, <2>2, <2>5, Kept, KeptBeyond DEF PushRecord
<1>3. CASE SignRecord
    <2>1. PushTypeOK'
        BY <1>3 DEF SignRecord, PushTypeOK
    <2>. QED
        BY <1>3, <2>1, Kept, KeptBeyond DEF SignRecord
<1>4. CASE PushReport
    <2>1. PushTypeOK'
        BY <1>4 DEF PushReport, PushTypeOK
    <2>2. SinkCollectorsTypeOK'
        BY <1>4 DEF PushReport, PushTypeOK, SinkCollectorsTypeOK
    <2>. QED
        BY <1>4, <2>1, <2>2, Kept, KeptBeyond DEF PushReport
<1>5. CASE PushRef
    <2>1. PushTypeOK'
        BY <1>5 DEF PushRef, PushTypeOK
    <2>2. SinkCollectorsTypeOK'
        BY <1>5 DEF PushRef, PushTypeOK, SinkCollectorsTypeOK
    <2>. QED
        BY <1>5, <2>1, <2>2, Kept, KeptBeyond DEF PushRef
<1>6. CASE PushCancelled \/ PushEnd
    <2>1. PushTypeOK'
        BY <1>6 DEF PushCancelled, PushEnd, PushTypeOK
    <2>. QED
        BY <1>6, <2>1, Kept, KeptBeyond DEF PushCancelled, PushEnd
<1>7. CASE CountImported
    <2>1. refCol.item \in Items /\ Append(cids, refCol.item) \in Seq(Items)
        BY <1>7, ChannelTypes
           DEF CountImported, SinkCollectorsTypeOK, ImportedTypeOK
    <2>2. imported' \in {imported, imported + 1}
          /\ cids' \in {cids, Append(cids, refCol.item)}
        BY <1>7 DEF CountImported
    <2>4. imported' \in Nat
        BY <2>2 DEF ImportedTypeOK
    <2>5. cids' \in Seq(Items)
        BY <2>1, <2>2 DEF ImportedTypeOK
    <2>6. ImportedTypeOK'
        BY <2>4, <2>5 DEF ImportedTypeOK
    <2>3. SinkCollectorsTypeOK'
        BY <1>7 DEF CountImported, SinkCollectorsTypeOK
    <2>. QED
        BY <1>7, <2>3, <2>6, Kept, KeptBeyond DEF CountImported
<1>8. CASE CountPushError
    <2>1. ResultTypeOK'
        BY <1>8 DEF CountPushError, ResultTypeOK
    <2>2. SinkCollectorsTypeOK'
        BY <1>8 DEF CountPushError, SinkCollectorsTypeOK
    <2>. QED
        BY <1>8, <2>1, <2>2, Kept, KeptBeyond DEF CountPushError
<1>9. CASE PushCollectorEnd
    <2>1. SinkCollectorsTypeOK'
        BY <1>9 DEF PushCollectorEnd, SinkCollectorsTypeOK
    <2>. QED
        BY <1>9, <2>1, Kept, KeptBeyond DEF PushCollectorEnd
<1>10. CASE ReadTotal \/ Return
    <2>1. CallerTypeOK'
        BY <1>10 DEF ReadTotal, Return, CallerTypeOK, ResultTypeOK, ImportedTypeOK
    <2>. QED
        BY <1>10, <2>1, Kept, KeptBeyond DEF ReadTotal, Return
<1>11. CASE Upstream
    <2>1. PipelineTypeOK'
        BY <1>11, StageTypes, Kept DEF Upstream, StageStep
    <2>. QED
        BY <1>11, <2>1, KeptBeyond DEF Upstream
<1>. QED
    BY <1>1, <1>2, <1>3, <1>4, <1>5, <1>6, <1>7, <1>8, <1>9, <1>10, <1>11
       DEF Next, Progress, Terminated, Upstream, vars

LEMMA InitTypes ==
    ASSUME Init
    PROVE  TypeOK
<1>1. PushTypeOK /\ SinkCollectorsTypeOK /\ ImportedTypeOK /\ CallerTypeOK
    BY DEF Init, PipelineInit, PushTypeOK, SinkCollectorsTypeOK, ImportedTypeOK,
           CallerTypeOK, NoReport
<1>. QED
    BY <1>1, StagesInit DEF Init, TypeOK

\* The variables of RunImport keep their types.
THEOREM TypeCorrect == Spec => []TypeOK
<1>1. Init => TypeOK
    BY InitTypes
<1>2. TypeOK /\ [Next]_vars => TypeOK'
    BY TypesStep
<1>. QED
    BY <1>1, <1>2, PTL DEF Spec

----------------------------------------------------------------------------
(* Inv is inductive.                                                       *)

LEMMA EndedStep ==
    ASSUME TypeOK, Ended, [Next]_vars
    PROVE  Ended'
<1>1. CollectorsTypeOK /\ StagesEnded /\ (StageStep \/ SinkStep)
    BY Steps DEF TypeOK, PipelineTypeOK, Ended
<1>2. StagesEnded'
    BY <1>1, StagesEndedStep
<1>3. \A c \in Collectors : col[c] = Done => col'[c] = Done
    BY <1>1, CollectorsStayDone
<1> USE <1>2, <1>3 DEF Ended, CollectorsDone, sinkVars, mainVars
<1>4. CASE Upstream
    BY <1>4 DEF Upstream
<1>5. CASE PushRecv \/ PushRecord \/ SignRecord \/ PushReport \/ PushRef
    BY <1>5 DEF PushRecv, PushRecord, SignRecord, PushReport, PushRef
<1>6. CASE PushCancelled \/ PushEnd
    BY <1>6 DEF PushCancelled, PushEnd
<1>7. CASE CountImported \/ CountPushError \/ PushCollectorEnd
    BY <1>7 DEF CountImported, CountPushError, PushCollectorEnd
<1>8. CASE ReadTotal \/ Return
    BY <1>8 DEF ReadTotal, Return, pipeVars
<1>. QED
    BY <1>4, <1>5, <1>6, <1>7, <1>8
       DEF Next, Progress, Terminated, Upstream, vars

LEMMA StoredStep ==
    ASSUME Stored, [Next]_vars
    PROVE  Stored'
<1>1. SkippedStored' /\ directory \subseteq directory'
    BY Steps, SkippedStoredStep, StagesOnlyAdd DEF Stored, SinkStep
<1> USE <1>1 DEF Stored, sinkVars, mainVars
<1>2. CASE Upstream
    BY <1>2 DEF Upstream
<1>3. CASE PushRecv \/ PushRecord \/ SignRecord
    BY <1>3 DEF PushRecv, PushRecord, SignRecord
<1>4. CASE PushReport \/ PushRef \/ PushCancelled \/ PushEnd
    BY <1>4 DEF PushReport, PushRef, PushCancelled, PushEnd
<1>5. CASE CountImported \/ CountPushError \/ PushCollectorEnd
    BY <1>5 DEF CountImported, CountPushError, PushCollectorEnd
<1>6. CASE ReadTotal \/ Return
    BY <1>6 DEF ReadTotal, Return
<1>. QED
    BY <1>2, <1>3, <1>4, <1>5, <1>6
       DEF Next, Progress, Terminated, Upstream, vars

LEMMA TrackedStep ==
    ASSUME TypeOK, Stored, EndedInOrder, Tracked, [Next]_vars
    PROVE  Tracked'
<1> SUFFICES ASSUME ~cancelled', NEW i \in Items, i < next'
             PROVE  (\/ InStages(i) \/ push.item = i
                     \/ Content[i] \in directory \/ HasError(i))'
    BY DEF Tracked
<1> DEFINE InHand == InStages(i) \/ Content[i] \in directory \/ Collected(i)
<1>1. PipelineTypeOK /\ SkippedStored /\ PushTypeOK /\ SinkCollectorsTypeOK
    BY DEF TypeOK, Stored
<1>2. ~cancelled /\ i < next => InHand \/ push.item = i \/ pushCol.item = i
    BY DEF Tracked, HasError
<1>3. ASSUME NEW j \in Items \cup {None}, i < next => InHand,
             PipelineNext \/ Cancel \/ SendEnriched(j) \/ SinkStep
      PROVE  InHand' \/ i = j
    BY <1>1, <1>3, TrackedByStages
<1>4. directory \subseteq directory' /\ errors \subseteq errors' /\ ~cancelled
    <2>1. CASE StageStep
        <3>1. /\ directory' = directory /\ errors \subseteq errors'
              /\ Cancel \/ cancelled' = cancelled
            BY <2>1, StagesOnlyAdd, Zenon
        <3>2. ~Cancel
            BY DEF Cancel
        <3>3. ~cancelled
            BY <3>1, <3>2
        <3>. QED
            BY <3>1, <3>3
    <2>2. CASE SinkStep
        BY <2>2 DEF SinkStep, cfgVars
    <2>. QED
        BY <2>1, <2>2, Steps
<1>5. Recorded(i) => Recorded(i)'
    BY <1>4 DEF Recorded
<1>6. CASE Upstream
    <2>1. CASE push.item = i \/ pushCol.item = i
        BY <1>6, <2>1 DEF Upstream, sinkVars, HasError
    <2>2. CASE i < next => InHand
        <3>1. PipelineNext \/ Cancel \/ SinkStep
            BY <1>6 DEF Upstream, SinkStep, pipeVars, resultVars
        <3>2. InHand'
            BY <2>2, <1>3, <3>1
        <3>. QED
            BY <3>2 DEF HasError
    <2>. QED
        BY <2>1, <2>2, <1>2, <1>4
<1>7. CASE PushRecv
    <2>1. PICK j \in Items : SendEnriched(j) /\ push' = At("push", j)
        BY <1>7 DEF PushRecv
    <2>2. push = Recv /\ pushCol' = pushCol
        BY <1>7 DEF PushRecv
    <2>3. CASE pushCol.item = i
        BY <2>2, <2>3 DEF HasError
    <2>4. CASE i < next => InHand
        <3>1. InHand' \/ i = j
            BY <2>1, <2>4, <1>3
        <3>. QED
            BY <2>1, <3>1 DEF HasError
    <2>. QED
        BY <2>2, <2>3, <2>4, <1>2, <1>4
<1>8. CASE SinkStep
    <2>0. i < next /\ UNCHANGED <<queue, ferr, dedup, transform, enrich, col>>
        BY <1>8 DEF SinkStep, fetchVars
    <2>1. InHand => InHand'
        BY <1>8, <2>0, <1>3
    <2>2. CASE InHand
        BY <2>1, <2>2 DEF HasError
    <2>3. CASE push.item = i \/ pushCol.item = i
        <3> USE <1>1, <1>4, <2>0, <2>3
            DEF HasError, Collected, PushTypeOK, SinkCollectorsTypeOK, Stored
        <3>1. CASE PushRecv
            BY <1>8, <3>1 DEF PushRecv, SendEnriched, SinkStep
        <3>2. CASE PushRecord \/ SignRecord
            BY <3>2 DEF PushRecord, SignRecord
        <3>3. CASE PushReport
            BY <3>3 DEF PushReport
        <3>4. CASE PushRef \/ PushCancelled \/ PushEnd
            BY <3>4 DEF PushRef, PushCancelled, PushEnd
        <3>5. CASE CountImported \/ PushCollectorEnd
            BY <3>5 DEF CountImported, PushCollectorEnd
        <3>6. CASE CountPushError
            BY <3>6 DEF CountPushError, Recorded
        <3>7. CASE ReadTotal \/ Return
            BY <3>7 DEF ReadTotal, Return, sinkVars
        <3>8. CASE Upstream
            BY <3>8 DEF Upstream, sinkVars
        <3>. QED
            BY <3>1, <3>2, <3>3, <3>4, <3>5, <3>6, <3>7, <3>8
               DEF Next, Progress, Terminated, Upstream, vars
    <2>. QED
        BY <2>0, <2>2, <2>3, <1>2, <1>4
<1>. QED
    BY <1>6, <1>7, <1>8, Steps

LEMMA InOrderStep ==
    ASSUME TypeOK, TypeOK', InOrder, [Next]_vars
    PROVE  InOrder'
<1>1. PipelineTypeOK /\ FetchTypeOK' /\ StagesInOrder /\ Moves
    BY Steps, StepMoves DEF TypeOK, PipelineTypeOK, InOrder
<1>2. StagesInOrder'
    BY <1>1, StagesInOrderStep
<1>3. \A i \in 0..N : AheadOfStages(i) => AheadOfStages(i)'
    BY <1>1, AheadKept
<1>4. AheadOfStages(None) /\ N \in Nat
    BY <1>1, NoneAhead, Parameters
<1>5. /\ push.item \in 0..N /\ push'.item \in 0..N
      /\ refCol.item \in 0..N /\ refCol'.item \in 0..N
      /\ cids \in Seq(Items) /\ cids' \in Seq(Items)
    BY <1>4 DEF TypeOK, PushTypeOK, SinkCollectorsTypeOK, ImportedTypeOK
<1>6. \A k \in DOMAIN cids : cids[k] \in Items
    BY <1>5, SeqElement
<1> USE DEF AheadOf
<1>7. CASE UNCHANGED <<push, refCol, cids>>
    BY <1>2, <1>3, <1>5, <1>6, <1>7 DEF InOrder
<1>8. CASE push' = Recv /\ UNCHANGED <<refCol, cids>>
    BY <1>2, <1>3, <1>4, <1>5, <1>6, <1>8 DEF InOrder
<1>9. CASE PushRecv
    <2>1. PICK j \in Items : SendEnriched(j) /\ push' = At("push", j)
        BY <1>9 DEF PushRecv
    <2>2. /\ push = Recv /\ UNCHANGED <<refCol, cids>>
          /\ enrich.item = j /\ enrich' = Recv
          /\ UNCHANGED <<queue, next, dedup, transform>>
        BY <1>9, <2>1 DEF PushRecv, SendEnriched, fetchVars
    <2>3. AheadOfStages(j)'
        BY <2>1, <2>2, <1>1
           DEF StagesInOrder, AheadOfStages, AheadOfTransform, AheadOfDedup, AheadOfQueue
    <2>4. \A i \in 0..N : AheadOfStages(i) => i < j
        BY <2>2 DEF AheadOfStages
    <2>. QED
        BY <1>2, <1>3, <1>5, <1>6, <2>1, <2>2, <2>3, <2>4 DEF InOrder
<1>10. CASE PushRef
    BY <1>2, <1>3, <1>4, <1>5, <1>6, <1>10 DEF InOrder, PushRef
<1>11. CASE CountImported
    <2>1. /\ refCol' = Recv /\ push' = push
          /\ cids' = cids \/ cids' = Append(cids, refCol.item)
          /\ refCol.item \in Items
        BY <1>11 DEF CountImported, TypeOK, SinkCollectorsTypeOK
    <2>2. ASSUME NEW k \in DOMAIN cids'
          PROVE  cids'[k] = refCol.item \/ (k \in DOMAIN cids /\ cids'[k] = cids[k])
        BY <2>1, <2>2, <1>5, ChannelItems
    <2>3. AheadOfStages(refCol.item) /\ AheadOf(push, refCol.item)
        BY DEF InOrder
    <2>4. ASSUME NEW k \in DOMAIN cids'
          PROVE  (AheadOfStages(cids[k]) /\ AheadOf(push, cids[k]) /\ AheadOf(refCol, cids[k]))'
        BY <2>1, <2>2, <2>3, <1>3, <1>5, <1>6 DEF InOrder
    <2>. QED
        BY <1>2, <1>3, <1>4, <1>5, <2>1, <2>4 DEF InOrder
<1>12. CASE PushRecord \/ SignRecord \/ PushReport \/ PushCancelled \/ PushEnd
    <2>1. push'.item \in {push.item, None} /\ UNCHANGED <<refCol, cids>>
        BY <1>12 DEF PushRecord, SignRecord, PushReport, PushCancelled, PushEnd,
                     TypeOK, PushTypeOK
    <2>. QED
        BY <2>1, <1>2, <1>3, <1>4, <1>5, <1>6 DEF InOrder
<1>13. CASE PushCollectorEnd
    <2>1. refCol'.item = refCol.item /\ UNCHANGED <<push, cids>>
        BY <1>13 DEF PushCollectorEnd
    <2>. QED
        BY <2>1, <1>2, <1>3, <1>4, <1>5, <1>6 DEF InOrder
<1>14. CASE Upstream \/ CountPushError \/ ReadTotal \/ Return
    BY <1>7, <1>14 DEF Upstream, CountPushError, ReadTotal, Return, sinkVars
<1>. QED
    BY <1>9, <1>10, <1>11, <1>12, <1>13, <1>14
       DEF Next, Progress, Terminated, Upstream, vars

LEMMA ImportedInOrderStep ==
    ASSUME TypeOK, Stored, InOrder, ImportedInOrder, [Next]_vars
    PROVE  ImportedInOrder'
<1>1. directory \subseteq directory'
    BY Steps, StagesOnlyAdd DEF SinkStep
<1>2. cids \in Seq(Items) /\ imported \in Nat
    BY DEF TypeOK, ImportedTypeOK
<1>3. CASE UNCHANGED <<imported, cids>>
    BY <1>1, <1>3 DEF ImportedInOrder
<1>4. CASE CountImported /\ cids' = Append(cids, refCol.item)
    <2>1. /\ imported' = imported + 1 /\ refCol.item \in Items /\ refCol.item # None
          /\ Content[refCol.item] \in directory
        BY <1>4, <1>2 DEF CountImported, TypeOK, SinkCollectorsTypeOK, Stored
    <2>2. /\ DOMAIN cids' = 1..(Len(cids) + 1) /\ DOMAIN cids = 1..Len(cids)
          /\ \A k \in DOMAIN cids : cids'[k] = cids[k]
          /\ cids'[Len(cids) + 1] = refCol.item
          /\ Len(cids') = Len(cids) + 1 /\ Len(cids) \in Nat
        BY <1>2, <1>4, <2>1, ChannelItems
    <2>3. \A k \in DOMAIN cids : cids[k] < refCol.item
        BY <2>1 DEF InOrder, AheadOf
    <2>4. \A k \in DOMAIN cids' : Content[cids'[k]] \in directory'
        BY <1>1, <2>1, <2>2 DEF ImportedInOrder
    <2>5. ASSUME NEW j \in DOMAIN cids', NEW k \in DOMAIN cids', j < k
          PROVE  cids'[j] < cids'[k]
        <3>1. j \in DOMAIN cids
            BY <2>2, <2>5
        <3>. QED
            BY <2>2, <2>3, <2>5, <3>1 DEF ImportedInOrder
    <2>. QED
        BY <2>1, <2>2, <2>4, <2>5 DEF ImportedInOrder
<1>5. CASE PushRecv \/ PushRecord \/ SignRecord \/ PushReport \/ PushRef
    BY <1>3, <1>5 DEF PushRecv, PushRecord, SignRecord, PushReport, PushRef
<1>6. CASE PushCancelled \/ PushEnd \/ CountPushError \/ PushCollectorEnd
    BY <1>3, <1>6 DEF PushCancelled, PushEnd, CountPushError, PushCollectorEnd
<1>7. CASE Upstream \/ ReadTotal \/ Return
    BY <1>3, <1>7 DEF Upstream, ReadTotal, Return, sinkVars
<1>8. CASE CountImported
    BY <1>3, <1>4, <1>8 DEF CountImported
<1>. QED
    BY <1>5, <1>6, <1>7, <1>8 DEF Next, Progress, Terminated, Upstream, vars

LEMMA PushedNewStep ==
    ASSUME TypeOK, Stored, PushedNew, [Next]_vars
    PROVE  PushedNew'
<1>1. PipelineTypeOK /\ SkippedStored /\ OnlyNew
    BY DEF TypeOK, Stored, PushedNew
<1>2. OnlyNew' /\ existing' = existing /\ (Relied' => Relied)
    BY <1>1, Steps, OnlyNewStep, ReliedBefore
<1>3. CASE push'.item \in {push.item, None}
    BY <1>2, <1>3 DEF PushedNew, New
<1>4. CASE PushRecv
    BY <1>2, <1>4 DEF PushedNew, OnlyNew, New, PushRecv, SendEnriched
<1>5. CASE PushRecord \/ SignRecord \/ PushReport \/ PushRef
    BY <1>3, <1>5 DEF PushRecord, SignRecord, PushReport, PushRef
<1>6. CASE PushCancelled \/ PushEnd
    BY <1>3, <1>6 DEF PushCancelled, PushEnd
<1>7. CASE CountImported \/ CountPushError \/ PushCollectorEnd
    BY <1>3, <1>7 DEF CountImported, CountPushError, PushCollectorEnd
<1>8. CASE Upstream \/ ReadTotal \/ Return
    BY <1>3, <1>8 DEF Upstream, ReadTotal, Return, sinkVars
<1>. QED
    BY <1>4, <1>5, <1>6, <1>7, <1>8 DEF Next, Progress, Terminated, Upstream, vars

\* The inductive invariant: every unit is tracked, stored or explained, what
\* is imported is in order, and only what is new is pushed.
THEOREM InvHolds == Spec => []Inv
<1>1. Init => Inv
    <2>. SUFFICES ASSUME Init PROVE Inv
        OBVIOUS
    <2>1. TypeOK
        BY InitTypes
    <2>2. /\ GivenUp /\ SkippedStored /\ StagesEnded /\ EndedInOrder
          /\ StagesInOrder /\ OnlyNew /\ PipelineTypeOK
        BY StagesInit DEF Init
    <2>3. Tracked /\ Stored /\ Ended /\ PushedNew
        BY <2>2, Parameters
           DEF Init, PipelineInit, Tracked, Stored, Ended, PushedNew, New
    <2>4. InOrder /\ ImportedInOrder
        BY <2>2, NoneAhead DEF Init, InOrder, ImportedInOrder, AheadOf
    <2>. QED
        BY <2>1, <2>2, <2>3, <2>4 DEF Inv
<1>2. Inv /\ [Next]_vars => Inv'
    <2>. SUFFICES ASSUME Inv, [Next]_vars PROVE Inv'
        OBVIOUS
    <2>1. TypeOK' /\ Ended' /\ Stored' /\ Tracked'
        BY TypesStep, EndedStep, StoredStep, TrackedStep DEF Inv
    <2>2. GivenUp' /\ EndedInOrder'
        BY Steps, GivenUpStep, EndedInOrderStep DEF Inv, TypeOK, PipelineTypeOK
    <2>3. InOrder' /\ ImportedInOrder' /\ PushedNew'
        BY <2>1, InOrderStep, ImportedInOrderStep, PushedNewStep DEF Inv
    <2>. QED
        BY <2>1, <2>2, <2>3 DEF Inv
<1>. QED
    BY <1>1, <1>2, PTL DEF Spec

\* ImportedCIDs lists stored records in the order of the source, whatever
\* fails and whenever the import is cancelled.
THEOREM CIDsInOrder == Spec => []ImportedInOrder
<1>1. Inv => ImportedInOrder
    BY DEF Inv
<1>. QED
    BY <1>1, InvHolds, PTL

\* What the directory had before the import is not pushed again.
THEOREM NothingRepushed == Spec => []NoRepush
<1>1. Inv => NoRepush
    BY DEF Inv, TypeOK, PushTypeOK, PushedNew, Relied, New, NoRepush
<1>. QED
    BY <1>1, InvHolds, PTL

\* When the caller has seen its collectors end, every unit is accounted for.
LEMMA Accounted ==
    ASSUME Inv, main # "wait", ~cancelled
    PROVE  Items \subseteq Delivered \cup Explained
<1>1. /\ fetch = Done /\ ferr = None
      /\ transform = Done /\ enrich = Done /\ push = Done
      /\ dedup.at \in {"done", "off"} /\ queue = <<>>
      /\ \A c \in Collectors : col[c] = Done
      /\ pushCol = Done
    BY DEF Inv, Ended, StagesEnded, EndedInOrder, CollectorsDone
<1>2. dedup.item = None
    BY <1>1 DEF Inv, TypeOK, PipelineTypeOK, DedupTypeOK
<1>3. SUFFICES ASSUME NEW i \in Items PROVE i \in Delivered \cup Explained
    OBVIOUS
<1>4. CASE i < next
    <2>1. ~InStages(i) /\ push.item # i
        BY <1>1, <1>2, Parameters DEF InStages, Queued
    <2>2. Content[i] \in directory \/ Recorded(i)
        BY <1>1, <1>4, <2>1, Parameters DEF Inv, Tracked, HasError, Collected
    <2>. QED
        BY <2>2 DEF Delivered, Explained, Recorded
<1>5. CASE ~(i < next)
    <2>1. i >= next /\ next <= N
        BY <1>5, Parameters DEF Inv, TypeOK, PipelineTypeOK, FetchTypeOK
    <2>2. \E e \in errors : e.at = "fetch"
        BY <1>1, <2>1 DEF Inv, GivenUp
    <2>. QED
        BY <1>1, <2>1, <2>2 DEF Explained
<1>. QED
    BY <1>4, <1>5

\* No unit is lost, for any number of units, any content and any faults.
THEOREM NoUnitLost == Spec => []NoSilentLoss
<1>1. Inv => NoSilentLoss
    BY Accounted DEF NoSilentLoss
<1>. QED
    BY <1>1, InvHolds, PTL

\* What a step leaves alone once the collectors have ended.
LEMMA QuietStep ==
    ASSUME Inv, main # "wait", [Next]_vars
    PROVE  /\ UNCHANGED <<directory, errors, failed, imported, next>>
           /\ fetch = Done /\ fetch' = Done
           /\ ~cancelled => UNCHANGED <<total, skipped>>
           /\ main = "returned" => UNCHANGED <<main, report>>
<1>1. /\ fetch = Done /\ transform = Done /\ enrich = Done /\ push = Done
      /\ refCol = Done /\ pushCol = Done
      /\ \A c \in Collectors : col[c] = Done
      /\ ~cancelled => dedup.at \in {"done", "off"}
    BY DEF Inv, Ended, StagesEnded, EndedInOrder, CollectorsDone
<1>2. CASE Upstream
    <2>1. /\ UNCHANGED <<directory, errors, failed, next, fetch>>
          /\ ~cancelled => UNCHANGED <<total, skipped>>
        BY <1>1, <1>2, StagesQuiet
           DEF Upstream, StageStep, pipeVars, fetchVars, resultVars
    <2>. QED
        BY <1>1, <1>2, <2>1 DEF Upstream, sinkVars, mainVars
<1>3. CASE PushRecv \/ PushRecord \/ SignRecord \/ PushReport \/ PushRef
    BY <1>1, <1>3 DEF PushRecv, PushRecord, SignRecord, PushReport, PushRef
<1>4. CASE PushCancelled \/ PushEnd
    BY <1>1, <1>4 DEF PushCancelled, PushEnd
<1>5. CASE CountImported \/ CountPushError \/ PushCollectorEnd
    BY <1>1, <1>5 DEF CountImported, CountPushError, PushCollectorEnd
<1>6. CASE ReadTotal \/ Return
    BY <1>1, <1>6 DEF ReadTotal, Return, pipeVars, fetchVars, resultVars, sinkVars
<1>. QED
    BY <1>2, <1>3, <1>4, <1>5, <1>6 DEF Next, Progress, Terminated, Upstream, vars

\* After Run has returned nothing more is delivered, counted or reported.
THEOREM QuietOnceReturned == Spec => QuietAfterReturn
<1>1. Inv /\ [Next]_vars =>
        [main = "returned" => UNCHANGED <<directory, errors, failed, imported>>]_vars
    BY QuietStep
<1>. QED
    BY <1>1, InvHolds, PTL DEF Spec, QuietAfterReturn

----------------------------------------------------------------------------
(* RunImport implements ImportContract.                                    *)

\* Steps that neither deliver, nor cancel, nor return only add errors.
LEMMA InnerStep ==
    ASSUME [Next]_vars, ~PushRecord, ~Return,
           ~(Cancel /\ UNCHANGED <<sinkVars, mainVars>>)
    PROVE  /\ UNCHANGED <<directory, cancelled>>
           /\ errors \subseteq errors'
           /\ fetch = Done => fetch' = Done /\ next' = next
           /\ (main' = "returned") = (main = "returned")
<1> USE DEF cfgVars, fetchVars, resultVars, sinkVars, mainVars, pipeVars
<1>1. CASE PipelineNext /\ UNCHANGED <<sinkVars, mainVars>>
    BY <1>1, StagesOnlyAdd DEF StageStep
<1>2. CASE PushRecv
    BY <1>2 DEF PushRecv, SendEnriched
<1>3. CASE SignRecord \/ PushReport \/ PushRef \/ PushCancelled \/ PushEnd
    BY <1>3 DEF SignRecord, PushReport, PushRef, PushCancelled, PushEnd
<1>4. CASE CountImported \/ CountPushError \/ PushCollectorEnd
    BY <1>4 DEF CountImported, CountPushError, PushCollectorEnd
<1>5. CASE ReadTotal
    BY <1>5 DEF ReadTotal
<1>6. CASE UNCHANGED vars
    BY <1>6 DEF vars
<1>. QED
    BY <1>1, <1>2, <1>3, <1>4, <1>5, <1>6 DEF Next, Progress, Terminated

\* Nothing takes a cancellation back.
LEMMA CancelStep ==
    ASSUME TypeOK, [Next]_vars
    PROVE  cancelled' = cancelled \/ cancelled' = TRUE
<1>1. CASE PushRecord \/ Return
    BY <1>1 DEF PushRecord, Return, cfgVars, pipeVars
<1>2. CASE Cancel
    BY <1>2 DEF Cancel
<1>. QED
    BY <1>1, <1>2, InnerStep

LEMMA ContractStep ==
    ASSUME Inv, [Next]_vars
    PROVE  [Contract!Next]_(Contract!vars)
<1> USE DEF Contract!vars, Contract!Next
<1>1. CASE main = "returned"
    <2>1. /\ UNCHANGED <<directory, errors, next, main, fetch>>
          /\ cancelled' = cancelled \/ cancelled' = TRUE
        BY <1>1, QuietStep, CancelStep DEF Inv
    <2>. QED
        BY <1>1, <2>1 DEF Contract!Abort, Delivered, Explained
<1>2. CASE main # "returned" /\ PushRecord
    <2>1. /\ directory \subseteq directory'
          /\ UNCHANGED <<errors, next, fetch, cancelled, main>>
        BY <1>2 DEF PushRecord, cfgVars, fetchVars, resultVars, mainVars
    <2>. QED
        BY <1>2, <2>1 DEF Contract!Deliver, Delivered, Explained
<1>3. CASE main # "returned" /\ Return
    <2>1. /\ UNCHANGED <<directory, errors, next, fetch, cancelled>>
          /\ main = "read" /\ main' = "returned"
        BY <1>3 DEF Return, pipeVars, cfgVars, fetchVars, resultVars
    <2>2. cancelled \/ Items \subseteq Delivered \cup Explained
        BY <2>1, Accounted DEF Inv, TypeOK, PipelineTypeOK, ContextTypeOK
    <2>. QED
        BY <2>1, <2>2 DEF Contract!Return, Delivered, Explained
<1>4. CASE main # "returned" /\ Cancel /\ UNCHANGED <<sinkVars, mainVars>>
    <2>1. /\ UNCHANGED <<directory, errors, next, fetch, main>>
          /\ cancelled' = TRUE
        BY <1>4 DEF Cancel, fetchVars, resultVars, mainVars
    <2>. QED
        BY <2>1 DEF Contract!Abort, Delivered, Explained
<1>5. CASE /\ main # "returned" /\ ~PushRecord /\ ~Return
           /\ ~(Cancel /\ UNCHANGED <<sinkVars, mainVars>>)
    <2>1. /\ UNCHANGED <<directory, cancelled>>
          /\ errors \subseteq errors'
          /\ fetch = Done => fetch' = Done /\ next' = next
          /\ main' # "returned"
        BY <1>5, InnerStep DEF Inv
    <2>2. Delivered' = Delivered /\ Delivered \subseteq Items
        BY <2>1 DEF Delivered
    <2>3. Explained \subseteq Explained' /\ Explained' \subseteq Items
        BY <2>1 DEF Explained
    <2>. QED
        BY <1>5, <2>1, <2>2, <2>3 DEF Contract!Explain
<1>. QED
    BY <1>1, <1>2, <1>3, <1>4, <1>5

\* Run implements the contract: it delivers or explains every unit, unless
\* cancelled, and adds nothing once it has returned.
THEOREM KeepsContract == Spec => ContractSpec
<1>1. Init => Contract!Init
    BY DEF Init, PipelineInit, Contract!Init, Delivered, Explained
<1>2. Inv /\ [Next]_vars => [Contract!Next]_(Contract!vars)
    BY ContractStep
<1>. QED
    BY <1>1, <1>2, InvHolds, PTL DEF Spec, ContractSpec, Contract!Spec

----------------------------------------------------------------------------
(* The counts.  What ReportBalanced and CountsBounded need is a balance of  *)
(* the records that were counted and those still on their way, and that no  *)
(* error and no blank record is recorded twice: the sets they are recorded  *)
(* in would hide it.  That follows from their order.                        *)

One(b) == IF b THEN 1 ELSE 0

\* The errors of the pusher for one item follow those for the items before it;
\* while its reference is on the way, its signature's error may be told already.
BehindPush(i) ==
    AheadOfStages(i)
    /\ (push.item = None \/ i < push.item \/ (push.at = "ref" /\ i = push.item))

\* An error a collector holds is of its own stage, and of an item behind those
\* upstream; one that was recorded is of an item further behind.  So each error
\* is new when it is recorded.
HeldInOrder ==
    /\ \A c \in Collectors : col[c].at \in {"recv", "done", c}
    /\ pushCol.at \in {"recv", "done", "push", "sign"}
    /\ \A c \in {"transform", "enrich"} : col[c].at = c => col[c].item # None
    /\ pushCol.at \in {"push", "sign"} => pushCol.item # None
    /\ AheadOfTransform(col["transform"].item) /\ AheadOfStages(col["enrich"].item)
    /\ BehindPush(pushCol.item)

RecordedInOrder ==
    \A e \in errors :
        /\ e.at = "transform" =>
            AheadOfTransform(e.item) /\ AheadOf(col["transform"], e.item)
        /\ e.at = "enrich" => AheadOfStages(e.item) /\ AheadOf(col["enrich"], e.item)
        /\ e.at \in {"push", "sign"} => BehindPush(e.item) /\ AheadOf(pushCol, e.item)

ErrorsInOrder == HeldInOrder /\ RecordedInOrder

\* A record acknowledged without a CID is on its way through the pusher, or
\* behind it.
BlankBehind ==
    \A i \in blank :
        AheadOfStages(i)
        /\ (push.item = None \/ i < push.item
            \/ (push.at \in {"sign", "signerr", "ref"} /\ i = push.item))

FiniteOutcomes == IsFiniteSet(errors) /\ IsFiniteSet(blank)

\* Each item is counted in the total at most once, when it has left dedup or is
\* at the transformer.
TotalBehind ==
    total + Len(queue) + One(dedup.at \in {"check", "skip", "send"})
        + One(transform.at = "count") < next

Signs == Cardinality({e \in errors : e.at = "sign"})
Failures == Cardinality({e \in errors : e.at # "fetch"})

\* Records counted as failed whose error is not recorded yet.
ErrorsOnTheWay ==
    One(transform.at = "err") + One(enrich.at = "err")
        + One(col["transform"] \in Error) + One(col["enrich"] \in Error)

FailuresCounted == ~cancelled => failed = Failures + ErrorsOnTheWay

\* Records counted in the total that are not counted as anything yet.
Undecided ==
    One(transform.at \in {"send", "fail"})
        + One(enrich.at \in {"work", "send", "fail"})
        + One(push.at \in {"push", "err"}
              \/ (push.at \in {"sign", "signerr", "ref"} /\ push.item \notin blank))
        + One(refCol.at = "ref" /\ refCol.item \notin blank)
        + One(pushCol.at = "push")

Outcomes ==
    skipped + One(dedup.at = "unlock") + imported + failed + Cardinality(blank)

Balance ==
    /\ Outcomes + Undecided <= total + Signs
    /\ ~cancelled => Outcomes + Undecided = total + Signs

\* What the report says is what was counted.
ReportRead ==
    /\ main = "read" =>
        /\ imported + failed <= report.total + Signs
        /\ ~cancelled => report.total = total
    /\ main = "returned" =>
        /\ report.imported = imported /\ report.failed = failed
        /\ ~cancelled => report.total = total /\ report.skipped = skipped
    /\ main # "wait" => report.total <= N

Counts ==
    /\ ErrorsInOrder /\ BlankBehind /\ FiniteOutcomes
    /\ TotalBehind /\ FailuresCounted /\ Balance /\ ReportRead
    /\ CountsBounded

----------------------------------------------------------------------------
\* Who is ahead of the stages and behind the pusher stays so.
LEMMA BehindPushKept ==
    ASSUME TypeOK, InOrder, [Next]_vars, NEW i \in 0..N,
           AheadOfStages(i)'
    PROVE  /\ BehindPush(i) => BehindPush(i)'
           /\ AheadOfStages(i) /\ AheadOf(push, i) => AheadOf(push, i)'
<1>1. CASE UNCHANGED push
    BY <1>1 DEF BehindPush, AheadOf
<1>2. CASE PushRecv
    <2>1. PICK j \in Items : SendEnriched(j) /\ push' = At("push", j)
        BY <1>2 DEF PushRecv
    <2>2. AheadOfStages(i) => i < j
        BY <2>1, Parameters DEF SendEnriched, AheadOfStages, AheadOf
    <2>. QED
        BY <2>1, <2>2 DEF BehindPush, AheadOf
<1>3. CASE PushRecord \/ SignRecord \/ PushReport \/ PushRef \/ PushCancelled \/ PushEnd
    <2>1. /\ push'.item = None \/ push'.item = push.item
          /\ push.at = "ref" => push'.item = None
        BY <1>3 DEF PushRecord, SignRecord, PushReport, PushRef, PushCancelled, PushEnd
    <2>. QED
        BY <2>1 DEF BehindPush, AheadOf
<1>4. CASE Upstream \/ CountImported \/ CountPushError \/ PushCollectorEnd \/ ReadTotal \/ Return
    BY <1>1, <1>4 DEF Upstream, CountImported, CountPushError, PushCollectorEnd,
                      ReadTotal, Return, sinkVars
<1>. QED
    BY <1>2, <1>3, <1>4 DEF Next, Progress, Terminated, Upstream, vars

\* The positions an error's item is compared with, after a step.
LEMMA Positions ==
    ASSUME Inv, Inv', [Next]_vars
    PROVE  /\ \A i \in 0..N :
                /\ AheadOfTransform(i) => AheadOfTransform(i)'
                /\ AheadOfStages(i) => AheadOfStages(i)'
                /\ BehindPush(i) => BehindPush(i)'
           /\ AheadOfTransform(None)' /\ AheadOfStages(None)' /\ BehindPush(None)'
           /\ col \in [Collectors -> {Recv, Done} \cup Error]
           /\ \A c \in Collectors : col[c].item \in 0..N
           /\ pushCol.item \in 0..N /\ push.item \in 0..N
           /\ \A e \in errors : e.item \in 0..N
           /\ N \in Nat
<1>1. PipelineTypeOK /\ TypeOK /\ InOrder /\ Moves
    BY Steps, StepMoves DEF Inv, TypeOK
<1>2. /\ N \in Nat /\ col \in [Collectors -> {Recv, Done} \cup Error]
      /\ \A c \in Collectors : col[c].item \in 0..N
      /\ pushCol.item \in 0..N /\ push.item \in 0..N
      /\ \A e \in errors : e.item \in 0..N
    BY <1>1, Parameters DEF TypeOK, PipelineTypeOK, CollectorsTypeOK, ResultTypeOK,
                            PushTypeOK, SinkCollectorsTypeOK
<1>3. ASSUME NEW i \in 0..N
      PROVE  /\ AheadOfTransform(i) => AheadOfTransform(i)'
             /\ AheadOfStages(i) => AheadOfStages(i)'
             /\ BehindPush(i) => BehindPush(i)'
    <2>1. AheadOfStages(i) => AheadOfStages(i)'
        BY <1>1, AheadKept
    <2>2. BehindPush(i) => BehindPush(i)'
        BY <1>1, <2>1, BehindPushKept DEF BehindPush
    <2>. QED
        BY <1>1, <2>1, <2>2, AheadOfTransformKept
<1>4. AheadOfStages(None)
    BY <1>1, NoneAhead
<1>5. AheadOfTransform(None) /\ BehindPush(None)
    BY <1>1, <1>2, <1>4 DEF AheadOfStages, BehindPush, TypeOK, PushTypeOK
<1>6. None \in 0..N
    BY <1>2
<1>. QED
    BY <1>2, <1>3, <1>4, <1>5, <1>6

LEMMA ErrorsInOrderStep ==
    ASSUME Inv, Inv', ErrorsInOrder, [Next]_vars
    PROVE  ErrorsInOrder'
<1> USE Positions DEF AheadOf, ErrorsInOrder, HeldInOrder, RecordedInOrder
<1>1. CASE UNCHANGED <<col, pushCol, errors>>
    BY <1>1
<1>2. CASE TransformReport /\ UNCHANGED <<sinkVars, mainVars>>
    <2>1. PICK i \in Items : i = transform.item
        BY <1>2 DEF TransformReport, Inv, TypeOK, PipelineTypeOK, TransformTypeOK
    <2>2. /\ transform' = Recv
          /\ col' = [col EXCEPT !["transform"] = At("transform", i)]
          /\ UNCHANGED <<queue, next, dedup, enrich, pushCol, errors>>
        BY <1>2, <2>1 DEF TransformReport, fetchVars, resultVars, sinkVars
    <2>3. AheadOfTransform(i)'
        BY <2>1, <2>2 DEF Inv, InOrder, StagesInOrder, AheadOfTransform, AheadOfDedup, AheadOfQueue
    <2>4. \A j \in 0..N : AheadOfTransform(j) => j < i
        BY <2>1 DEF AheadOfTransform
    <2>5. HeldInOrder'
        BY <2>2, <2>3
    <2>6. RecordedInOrder'
        BY <2>2, <2>4
    <2>. QED
        BY <2>5, <2>6
<1>3. CASE EnrichReport /\ UNCHANGED <<sinkVars, mainVars>>
    <2>1. PICK i \in Items : i = enrich.item
        BY <1>3 DEF EnrichReport, Inv, TypeOK, PipelineTypeOK, EnrichTypeOK
    <2>2. /\ enrich' = Done
          /\ col' = [col EXCEPT !["enrich"] = At("enrich", i)]
          /\ UNCHANGED <<queue, next, dedup, transform, pushCol, errors>>
        BY <1>3, <2>1 DEF EnrichReport, fetchVars, resultVars, sinkVars
    <2>3. AheadOfStages(i)'
        BY <2>1, <2>2 DEF Inv, InOrder, StagesInOrder, AheadOfStages, AheadOfTransform,
                          AheadOfDedup, AheadOfQueue
    <2>4. \A j \in 0..N : AheadOfStages(j) => j < i
        BY <2>1 DEF AheadOfStages
    <2>5. HeldInOrder'
        BY <2>2, <2>3
    <2>6. RecordedInOrder'
        BY <2>2, <2>4
    <2>. QED
        BY <2>5, <2>6
<1>4. CASE CollectFetch /\ UNCHANGED <<sinkVars, mainVars>>
    BY <1>4 DEF CollectFetch, resultVars, sinkVars
<1>5. CASE (\E c \in Collectors : RecordError(c)) /\ UNCHANGED <<sinkVars, mainVars>>
    <2>1. PICK c \in Collectors : RecordError(c)
        BY <1>5
    <2>2. /\ errors' = errors \cup {col[c]} /\ pushCol' = pushCol
          /\ col' = [col EXCEPT ![c] = Recv]
        BY <1>5, <2>1 DEF RecordError, sinkVars
    <2>3. /\ \A d \in Collectors : col'[d].at \in {"recv", "done", d}
          /\ AheadOfTransform(col["transform"].item)'
          /\ AheadOfStages(col["enrich"].item)'
          /\ BehindPush(pushCol.item)'
          /\ pushCol'.at \in {"recv", "done", "push", "sign"}
        BY <2>2
    <2>4. ASSUME NEW e \in errors
          PROVE  /\ e.at = "transform" =>
                     AheadOfTransform(e.item)' /\ AheadOf(col["transform"], e.item)'
                 /\ e.at = "enrich" => AheadOfStages(e.item)' /\ AheadOf(col["enrich"], e.item)'
                 /\ e.at \in {"push", "sign"} => BehindPush(e.item)' /\ AheadOf(pushCol, e.item)'
        BY <2>2
    <2>5. /\ col[c].at = "transform" =>
                AheadOfTransform(col[c].item)' /\ AheadOf(col["transform"], col[c].item)'
          /\ col[c].at = "enrich" =>
                AheadOfStages(col[c].item)' /\ AheadOf(col["enrich"], col[c].item)'
          /\ col[c].at \notin {"push", "sign"}
        BY <2>2
    <2>. QED
        BY <2>2, <2>3, <2>4, <2>5
<1>6. CASE (\E c \in Collectors : CollectorEnd(c)) /\ UNCHANGED <<sinkVars, mainVars>>
    BY <1>6 DEF CollectorEnd, resultVars, sinkVars
<1>7. CASE PushReport
    <2>1. PICK i \in Items : i = push.item
        BY <1>7 DEF PushReport, Inv, TypeOK, PushTypeOK
    <2>2. /\ UNCHANGED <<col, errors>> /\ push.at # "ref"
          /\ pushCol' \in {At("push", i), At("sign", i)}
          /\ push' = Recv \/ push' = At("ref", i)
        BY <1>7, <2>1 DEF PushReport, pipeVars, resultVars
    <2>3. AheadOfStages(i)'
        BY <2>1 DEF Inv, InOrder
    <2>4. BehindPush(i)'
        BY <2>2, <2>3 DEF BehindPush
    <2>5. \A j \in 0..N : BehindPush(j) => j < i
        BY <2>1, <2>2 DEF BehindPush
    <2>6. HeldInOrder'
        BY <2>2, <2>4
    <2>7. RecordedInOrder'
        BY <2>2, <2>5
    <2>. QED
        BY <2>6, <2>7
<1>8. CASE CountPushError
    BY <1>8 DEF CountPushError
<1>9. CASE PushCollectorEnd
    BY <1>9 DEF PushCollectorEnd, pipeVars, resultVars
<1>10. CASE /\ UNCHANGED <<sinkVars, mainVars>>
            /\ \/ FetchEmit \/ FetchFail \/ FetchEnd
               \/ DedupRecv \/ DedupCheck \/ DedupCountTotal \/ DedupCountSkipped
               \/ DedupEnd
    BY <1>1, <1>10 DEF FetchEmit, FetchFail, FetchEnd, DedupRecv, DedupCheck,
        DedupCountTotal, DedupCountSkipped, DedupEnd, resultVars, sinkVars
<1>11. CASE /\ UNCHANGED <<sinkVars, mainVars>>
            /\ \/ TransformRecv \/ TransformRecord \/ TransformFailed \/ TransformEnd
               \/ EnrichRecv \/ EnrichRecord \/ EnrichFailed \/ EnrichEnd \/ Cancel
    BY <1>1, <1>11 DEF TransformRecv, TransformRecord, TransformFailed, TransformEnd,
        EnrichRecv, EnrichRecord, EnrichFailed, EnrichEnd, Cancel, resultVars, sinkVars
<1>12. CASE PushRecv \/ PushRecord \/ SignRecord \/ PushRef \/ PushCancelled \/ PushEnd
    BY <1>1, <1>12 DEF PushRecv, SendEnriched, PushRecord, SignRecord, PushRef,
        PushCancelled, PushEnd, resultVars, pipeVars
<1>13. CASE CountImported \/ ReadTotal \/ Return
    BY <1>1, <1>13 DEF CountImported, ReadTotal, Return, resultVars, pipeVars, sinkVars
<1>14. CASE UNCHANGED vars
    BY <1>1, <1>14 DEF vars, pipeVars, resultVars, sinkVars
<1>. QED
    <2>1. CASE PipelineNext /\ UNCHANGED <<sinkVars, mainVars>>
        BY <2>1, <1>2, <1>3, <1>4, <1>5, <1>6, <1>10, <1>11, Zenon DEF PipelineNext
    <2>2. CASE Progress
        BY <2>1, <2>2, <1>7, <1>8, <1>9, <1>12, <1>13, Zenon DEF Progress
    <2>. QED
        BY <2>2, <1>11, <1>14, Zenon DEF Next, Terminated

\* Only the push records an item as blank, and the pusher holds it until then.
LEMMA BlankBehindStep ==
    ASSUME Inv, Inv', BlankBehind, [Next]_vars
    PROVE  BlankBehind'
<1>1. /\ \A i \in blank : i \in 0..N
      /\ push \in {Recv, Done} \cup Holding({"push", "sign", "signerr", "err", "ref"})
    BY Positions DEF Inv, TypeOK, PushTypeOK
<1>2. \A i \in 0..N : AheadOfStages(i) => AheadOfStages(i)'
    BY Positions
<1> USE DEF BlankBehind
<1>3. CASE UNCHANGED <<push, blank>>
    BY <1>1, <1>2, <1>3
<1>4. CASE PushRecv
    <2>1. PICK j \in Items : SendEnriched(j) /\ push' = At("push", j)
        BY <1>4 DEF PushRecv
    <2>2. \A i \in blank : i < j
        BY <2>1, Positions DEF SendEnriched, AheadOfStages, AheadOf
    <2>3. blank' = blank
        BY <1>4 DEF PushRecv
    <2>. QED
        BY <1>1, <1>2, <2>1, <2>2, <2>3
<1>5. CASE PushRecord
    <2>1. AheadOfStages(push.item)'
        BY <1>5, <1>2, Positions DEF Inv, InOrder
    <2>2. /\ push'.item = push.item
          /\ \/ blank' = blank
             \/ blank' = blank \cup {push.item} /\ push'.at \in {"sign", "ref"}
          /\ push.at = "push"
        BY <1>5 DEF PushRecord
    <2>. QED
        BY <1>1, <1>2, <2>1, <2>2
<1>6. CASE SignRecord \/ PushReport \/ PushRef \/ PushCancelled \/ PushEnd
    <2>1. /\ blank' = blank
          /\ \/ push'.item = None
             \/ push'.item = push.item /\ push'.at \in {"sign", "signerr", "ref"}
        BY <1>1, <1>6 DEF SignRecord, PushReport, PushRef, PushCancelled, PushEnd
    <2>. QED
        BY <1>1, <1>2, <2>1
<1>7. CASE CountImported \/ CountPushError \/ PushCollectorEnd \/ ReadTotal \/ Return
    BY <1>3, <1>7 DEF CountImported, CountPushError, PushCollectorEnd, ReadTotal, Return,
                      sinkVars
<1>. QED
    BY <1>3, <1>4, <1>5, <1>6, <1>7 DEF Next, Progress, Terminated, vars, sinkVars

----------------------------------------------------------------------------
(* The cardinalities.                                                      *)

LEMMA OneMore ==
    ASSUME NEW S, IsFiniteSet(S), NEW x, x \notin S
    PROVE  Cardinality(S \cup {x}) = Cardinality(S) + 1
BY FS_AddElement

\* A new error adds to the count of its kind.
LEMMA NewError ==
    ASSUME NEW S, IsFiniteSet(S), NEW x, x \notin S \/ x.at = "fetch"
    PROVE  LET SignsOf(T) == Cardinality({e \in T : e.at = "sign"})
               FailuresOf(T) == Cardinality({e \in T : e.at # "fetch"})
           IN  /\ x.at = "sign" => SignsOf(S \cup {x}) = SignsOf(S) + 1
               /\ x.at # "sign" => SignsOf(S \cup {x}) = SignsOf(S)
               /\ x.at # "fetch" => FailuresOf(S \cup {x}) = FailuresOf(S) + 1
               /\ x.at = "fetch" => FailuresOf(S \cup {x}) = FailuresOf(S)
<1> DEFINE SignErrors == {e \in S : e.at = "sign"}
           Failed == {e \in S : e.at # "fetch"}
<1>1. IsFiniteSet(SignErrors) /\ IsFiniteSet(Failed)
    BY FS_Subset
<1>2. /\ x.at = "sign" =>
            {e \in S \cup {x} : e.at = "sign"} = SignErrors \cup {x} /\ x \notin SignErrors
      /\ x.at # "sign" => {e \in S \cup {x} : e.at = "sign"} = SignErrors
      /\ x.at # "fetch" =>
            {e \in S \cup {x} : e.at # "fetch"} = Failed \cup {x} /\ x \notin Failed
      /\ x.at = "fetch" => {e \in S \cup {x} : e.at # "fetch"} = Failed
    OBVIOUS
<1> HIDE DEF SignErrors, Failed
<1>3. /\ x \notin SignErrors => Cardinality(SignErrors \cup {x}) = Cardinality(SignErrors) + 1
      /\ x \notin Failed => Cardinality(Failed \cup {x}) = Cardinality(Failed) + 1
    BY <1>1, OneMore
<1>. QED
    BY <1>2, <1>3, Zenon DEF SignErrors, Failed

\* The errors are recorded one at a time, each once.
LEMMA ErrorRecorded ==
    ASSUME Inv, ErrorsInOrder, FiniteOutcomes,
           NEW e \in Error, errors' = errors \cup {e},
           \/ \E c \in Collectors : e = col[c]
           \/ e = pushCol
    PROVE  /\ IsFiniteSet(errors')
           /\ e.at = "sign" => Signs' = Signs + 1
           /\ e.at # "sign" => Signs' = Signs
           /\ e.at # "fetch" => Failures' = Failures + 1
           /\ e.at = "fetch" => Failures' = Failures
<1>1. e \notin errors \/ e.at = "fetch"
    BY Positions DEF ErrorsInOrder, HeldInOrder, RecordedInOrder, AheadOf
<1>2. IsFiniteSet(errors')
    BY FS_AddElement DEF FiniteOutcomes
<1>3. IsFiniteSet(errors)
    BY DEF FiniteOutcomes
<1>. QED
    BY <1>1, <1>2, <1>3, NewError, Zenon DEF Signs, Failures

LEMMA CountTypes ==
    ASSUME FiniteOutcomes
    PROVE  Signs \in Nat /\ Failures \in Nat /\ Cardinality(blank) \in Nat
<1>1. IsFiniteSet({e \in errors : e.at = "sign"}) /\ IsFiniteSet({e \in errors : e.at # "fetch"})
    BY FS_Subset DEF FiniteOutcomes
<1>. QED
    BY <1>1, FS_CardinalityType DEF FiniteOutcomes, Signs, Failures

\* The steps that change the shared stages' variables, by stage.
LEMMA StageCases ==
    ASSUME [Next]_vars
    PROVE  \/ FetchEmit \/ FetchFail \/ FetchEnd
           \/ DedupRecv \/ DedupCheck \/ DedupCountTotal \/ DedupCountSkipped \/ DedupEnd
           \/ TransformRecv \/ TransformRecord \/ TransformFailed \/ TransformReport
           \/ TransformEnd
           \/ EnrichRecv \/ EnrichRecord \/ EnrichFailed \/ EnrichReport \/ EnrichEnd
           \/ \E i \in Items : SendEnriched(i)
           \/ CollectFetch \/ \E c \in Collectors : RecordError(c) \/ CollectorEnd(c)
           \/ CountPushError
           \/ UNCHANGED <<fetchVars, dedup, transform, enrich, col, resultVars>>
<1>1. CASE PushRecv \/ PushRecord \/ SignRecord \/ PushRef \/ PushCancelled \/ PushEnd \/ PushReport
    BY <1>1 DEF PushRecv, PushRecord, SignRecord, PushRef, PushCancelled, PushEnd,
                PushReport, pipeVars
<1>2. CASE CountImported \/ PushCollectorEnd \/ ReadTotal \/ Return \/ Cancel \/ UNCHANGED vars
    BY <1>2 DEF CountImported, PushCollectorEnd, ReadTotal, Return, Cancel, vars, pipeVars
<1>. QED
    BY <1>1, <1>2, Zenon DEF Next, Progress, Terminated, PipelineNext

LEMMA FiniteOutcomesStep ==
    ASSUME FiniteOutcomes, [Next]_vars
    PROVE  FiniteOutcomes'
<1>1. errors' = errors \/ \E e : errors' = errors \cup {e}
    <2> USE DEF resultVars
    <2>1. CASE FetchEmit \/ FetchFail \/ FetchEnd
        BY <2>1 DEF FetchEmit, FetchFail, FetchEnd
    <2>2. CASE DedupRecv \/ DedupCheck \/ DedupCountTotal \/ DedupCountSkipped \/ DedupEnd
        BY <2>2 DEF DedupRecv, DedupCheck, DedupCountTotal, DedupCountSkipped, DedupEnd
    <2>3. CASE TransformRecv \/ TransformRecord \/ TransformFailed \/ TransformReport \/ TransformEnd
        BY <2>3 DEF TransformRecv, TransformRecord, TransformFailed, TransformReport, TransformEnd
    <2>4. CASE EnrichRecv \/ EnrichRecord \/ EnrichFailed \/ EnrichReport \/ EnrichEnd
        BY <2>4 DEF EnrichRecv, EnrichRecord, EnrichFailed, EnrichReport, EnrichEnd
    <2>5. CASE \/ \E i \in Items : SendEnriched(i)
               \/ CollectFetch \/ \E c \in Collectors : RecordError(c) \/ CollectorEnd(c)
               \/ CountPushError
        BY <2>5 DEF SendEnriched, CollectFetch, RecordError, CollectorEnd, CountPushError
    <2>. QED
        BY <2>1, <2>2, <2>3, <2>4, <2>5, StageCases
<1>2. blank' = blank \/ \E e : blank' = blank \cup {e}
    <2>1. CASE PushRecv \/ PushRecord \/ SignRecord \/ PushRef \/ PushCancelled \/ PushEnd \/ PushReport
        BY <2>1 DEF PushRecv, PushRecord, SignRecord, PushRef, PushCancelled, PushEnd, PushReport
    <2>2. CASE CountImported \/ CountPushError \/ PushCollectorEnd \/ ReadTotal \/ Return \/ UNCHANGED vars
        BY <2>2 DEF CountImported, CountPushError, PushCollectorEnd, ReadTotal, Return, vars, sinkVars
    <2>. QED
        BY <2>1, <2>2 DEF Next, Progress, Terminated, sinkVars
<1>. QED
    BY <1>1, <1>2, FS_AddElement DEF FiniteOutcomes

LEMMA TotalBehindStep ==
    ASSUME Inv, TotalBehind, [Next]_vars
    PROVE  TotalBehind'
<1>0. PipelineTypeOK /\ total \in Nat /\ Len(queue) \in Nat /\ next \in Nat
    BY ItemTypes DEF Inv, TypeOK, PipelineTypeOK, ResultTypeOK
<1>q. queue # <<>> => Len(Tail(queue)) = Len(queue) - 1
    BY ItemTypes, <1>0, ChannelTypes
<1>p. \A i : Len(Append(queue, i)) = Len(queue) + 1
    OBVIOUS
<1> USE DEF TotalBehind, One
<1>1. CASE FetchEmit \/ FetchFail \/ FetchEnd
    BY <1>0, <1>p, <1>1 DEF FetchEmit, FetchFail, FetchEnd, resultVars
<1>2. CASE DedupRecv \/ DedupCheck \/ DedupCountTotal \/ DedupCountSkipped \/ DedupEnd
    BY <1>0, <1>q, <1>2 DEF DedupRecv, DedupCheck, DedupCountTotal, DedupCountSkipped,
                            DedupEnd, fetchVars, resultVars
<1>3. CASE TransformRecv \/ TransformRecord \/ TransformFailed \/ TransformReport \/ TransformEnd
    BY <1>0, <1>q, <1>3 DEF TransformRecv, TransformRecord, TransformFailed,
                            TransformReport, TransformEnd, fetchVars, resultVars
<1>4. CASE UNCHANGED <<queue, next, dedup, transform, total>>
    BY <1>4
<1>5. CASE \/ EnrichRecv \/ EnrichRecord \/ EnrichFailed \/ EnrichReport \/ EnrichEnd
           \/ \E i \in Items : SendEnriched(i)
    BY <1>0, <1>5 DEF EnrichRecv, EnrichRecord, EnrichFailed, EnrichReport, EnrichEnd,
                      SendEnriched, fetchVars, resultVars
<1>6. CASE \/ CollectFetch \/ \E c \in Collectors : RecordError(c) \/ CollectorEnd(c)
           \/ CountPushError
    BY <1>4, <1>6 DEF CollectFetch, RecordError, CollectorEnd, CountPushError,
                      fetchVars, resultVars
<1>. QED
    BY <1>1, <1>2, <1>3, <1>4, <1>5, <1>6, StageCases DEF fetchVars, resultVars

LEMMA FailuresCountedStep ==
    ASSUME Inv, ErrorsInOrder, FiniteOutcomes, FailuresCounted, [Next]_vars
    PROVE  FailuresCounted'
<1>0. /\ failed \in Nat /\ Failures \in Nat
      /\ col \in [Collectors -> {Recv, Done} \cup Error]
      /\ transform \in {Recv, Done} \cup Holding({"count", "fail", "err", "send"})
      /\ enrich \in {Recv, Done} \cup Holding({"work", "fail", "err", "send"})
      /\ pushCol \in {Recv, Done} \cup Error
    BY CountTypes DEF Inv, TypeOK, PipelineTypeOK, ResultTypeOK, CollectorsTypeOK,
                      TransformTypeOK, EnrichTypeOK, SinkCollectorsTypeOK
<1>s. SUFFICES ASSUME ~cancelled, ~cancelled'
               PROVE  failed' = Failures' + ErrorsOnTheWay'
    BY CancelStep DEF FailuresCounted, Inv
<1>t. failed = Failures + ErrorsOnTheWay
    BY <1>s DEF FailuresCounted
<1>u. errors' = errors => Failures' = Failures
    BY DEF Failures
<1> USE DEF ErrorsOnTheWay, One
<1>1. CASE UNCHANGED <<transform, enrich, col, failed, errors>>
    BY <1>1, <1>t, <1>u
<1>2. CASE FetchEmit \/ FetchFail \/ FetchEnd
    BY <1>1, <1>2 DEF FetchEmit, FetchFail, FetchEnd, resultVars
<1>3. CASE DedupRecv \/ DedupCheck \/ DedupCountTotal \/ DedupCountSkipped \/ DedupEnd
    BY <1>1, <1>3 DEF DedupRecv, DedupCheck, DedupCountTotal, DedupCountSkipped,
                      DedupEnd, resultVars
<1>4. CASE TransformRecv \/ TransformRecord \/ TransformFailed \/ TransformReport \/ TransformEnd
    BY <1>0, <1>s, <1>t, <1>u, <1>4 DEF TransformRecv, TransformRecord, TransformFailed,
                            TransformReport, TransformEnd, resultVars
<1>5. CASE \/ EnrichRecv \/ EnrichRecord \/ EnrichFailed \/ EnrichReport \/ EnrichEnd
           \/ \E i \in Items : SendEnriched(i)
    BY <1>0, <1>s, <1>t, <1>u, <1>5 DEF EnrichRecv, EnrichRecord, EnrichFailed, EnrichReport,
                            EnrichEnd, SendEnriched, resultVars
<1>6. CASE \/ CollectFetch \/ \E c \in Collectors : CollectorEnd(c)
    BY <1>0, <1>t, <1>u, <1>6 DEF CollectFetch, CollectorEnd, resultVars
<1>7. ASSUME NEW c \in Collectors, RecordError(c) PROVE failed' = Failures' + ErrorsOnTheWay'
    <2>1. /\ col[c] \in Error /\ errors' = errors \cup {col[c]}
          /\ col' = [col EXCEPT ![c] = Recv] /\ col[c].at = c
          /\ UNCHANGED <<transform, enrich, failed>>
        BY <1>7 DEF RecordError, ErrorsInOrder, HeldInOrder
    <2>2. /\ c # "fetch" => Failures' = Failures + 1
          /\ c = "fetch" => Failures' = Failures
        BY <2>1, ErrorRecorded
    <2>. QED
        BY <1>0, <1>t, <2>1, <2>2
<1>8. CASE CountPushError
    <2>1. /\ pushCol \in Error /\ errors' = errors \cup {pushCol} /\ pushCol.at # "fetch"
          /\ UNCHANGED <<transform, enrich, col>> /\ failed' = failed + 1
        BY <1>8 DEF CountPushError, ErrorsInOrder, HeldInOrder
    <2>2. Failures' = Failures + 1
        BY <2>1, ErrorRecorded
    <2>. QED
        BY <1>0, <1>t, <2>1, <2>2
<1>. QED
    BY <1>1, <1>2, <1>3, <1>4, <1>5, <1>6, <1>7, <1>8, StageCases DEF resultVars

LEMMA BalanceStep ==
    ASSUME Inv, ErrorsInOrder, BlankBehind, FiniteOutcomes, FiniteOutcomes', Balance,
           [Next]_vars
    PROVE  Balance'
<1>0. /\ total \in Nat /\ skipped \in Nat /\ failed \in Nat /\ imported \in Nat
      /\ Signs \in Nat /\ Cardinality(blank) \in Nat
    BY CountTypes DEF Inv, TypeOK, PipelineTypeOK, ResultTypeOK, ImportedTypeOK
<1>a. dedup \in {Recv, Done, At("off", None)} \cup Holding({"check", "skip", "unlock", "send"})
      /\ transform \in {Recv, Done} \cup Holding({"count", "fail", "err", "send"})
      /\ enrich \in {Recv, Done} \cup Holding({"work", "fail", "err", "send"})
    BY DEF Inv, TypeOK, PipelineTypeOK, DedupTypeOK, TransformTypeOK, EnrichTypeOK
<1>b. /\ push \in {Recv, Done} \cup Holding({"push", "sign", "signerr", "err", "ref"})
      /\ refCol \in {Recv, Done} \cup Holding({"ref"})
      /\ pushCol \in {Recv, Done} \cup Error
    BY DEF Inv, TypeOK, PushTypeOK, SinkCollectorsTypeOK
<1>u. errors' = errors => Signs' = Signs
    BY DEF Signs
<1>c. cancelled' = cancelled \/ cancelled' = TRUE
    BY CancelStep DEF Inv
<1> USE DEF Balance, Outcomes, Undecided, One
<1>1. CASE UNCHANGED <<dedup, transform, enrich, push, refCol, pushCol, blank,
                       total, skipped, failed, imported, errors>>
    BY <1>1, <1>c, <1>u
<1>2. CASE /\ FetchEmit \/ FetchFail \/ FetchEnd \/ CollectFetch
              \/ \E c \in Collectors : CollectorEnd(c)
           /\ UNCHANGED <<sinkVars, mainVars>>
    BY <1>1, <1>2 DEF FetchEmit, FetchFail, FetchEnd, CollectFetch, CollectorEnd,
                      resultVars, sinkVars
<1>3. CASE /\ DedupRecv \/ DedupCheck \/ DedupCountTotal \/ DedupCountSkipped \/ DedupEnd
           /\ UNCHANGED <<sinkVars, mainVars>>
    <2>1. UNCHANGED <<transform, enrich, push, refCol, pushCol, blank, failed, imported,
                      errors, cancelled>>
        BY <1>3 DEF DedupRecv, DedupCheck, DedupCountTotal, DedupCountSkipped,
                      DedupEnd, resultVars, sinkVars, cfgVars
    <2>2. \/ UNCHANGED <<total, skipped>> /\ dedup.at # "unlock" /\ dedup'.at # "unlock"
          \/ total' = total + 1 /\ skipped' = skipped /\ dedup.at # "unlock" /\ dedup'.at = "unlock"
          \/ total' = total /\ skipped' = skipped + 1 /\ dedup.at = "unlock" /\ dedup'.at # "unlock"
        BY <1>3 DEF DedupRecv, DedupCheck, DedupCountTotal, DedupCountSkipped,
                      DedupEnd, resultVars
    <2>. QED
        BY <1>0, <1>u, <2>1, <2>2
<1>4. CASE /\ TransformRecv \/ TransformRecord \/ TransformFailed \/ TransformReport
              \/ TransformEnd
           /\ UNCHANGED <<sinkVars, mainVars>>
    <2>1. UNCHANGED <<enrich, push, refCol, pushCol, blank, skipped, imported, errors,
                      cancelled>>
        BY <1>4 DEF TransformRecv, TransformRecord, TransformFailed, TransformReport,
                    TransformEnd, resultVars, sinkVars, cfgVars
    <2>2. dedup'.at # "unlock" <=> dedup.at # "unlock"
        BY <1>4 DEF TransformRecv, TransformRecord, TransformFailed, TransformReport,
                    TransformEnd, MuFree
    <2>3. \/ /\ UNCHANGED <<total, failed>>
             /\ transform.at \in {"send", "fail"} => transform.at = "send" /\ cancelled
             /\ transform'.at \notin {"send", "fail"}
          \/ /\ total' = total + 1 /\ failed' = failed
             /\ transform.at \notin {"send", "fail"} /\ transform'.at \in {"send", "fail"}
          \/ /\ total' = total /\ failed' = failed + 1
             /\ transform.at \in {"send", "fail"} /\ transform'.at \notin {"send", "fail"}
        BY <1>a, <1>4 DEF TransformRecv, TransformRecord, TransformFailed, TransformReport,
                    TransformEnd, resultVars
    <2>. QED
        BY <1>0, <1>u, <2>1, <2>2, <2>3
<1>5. CASE /\ EnrichRecv \/ EnrichRecord \/ EnrichFailed \/ EnrichReport \/ EnrichEnd
           /\ UNCHANGED <<sinkVars, mainVars>>
    <2>1. UNCHANGED <<dedup, push, refCol, pushCol, blank, total, skipped, imported, errors,
                      cancelled>>
        BY <1>5 DEF EnrichRecv, EnrichRecord, EnrichFailed, EnrichReport, EnrichEnd,
                    resultVars, sinkVars, cfgVars
    <2>2. \/ /\ UNCHANGED <<transform, failed>>
             /\ enrich.at \in {"work", "send", "fail"} /\ enrich'.at \notin {"work", "send", "fail"}
             /\ cancelled
          \/ /\ UNCHANGED <<transform, failed>>
             /\ enrich.at \in {"work", "send", "fail"}
                    <=> enrich'.at \in {"work", "send", "fail"}
          \/ /\ transform.at = "send" /\ transform'.at = "recv" /\ failed' = failed
             /\ enrich.at \notin {"work", "send", "fail"} /\ enrich'.at \in {"work", "send", "fail"}
          \/ /\ transform' = transform /\ failed' = failed + 1
             /\ enrich.at \in {"work", "send", "fail"} /\ enrich'.at \notin {"work", "send", "fail"}
        BY <1>a, <1>5 DEF EnrichRecv, EnrichRecord, EnrichFailed, EnrichReport, EnrichEnd,
                    resultVars
    <2>. QED
        BY <1>0, <1>u, <2>1, <2>2
<1>6. CASE (\E c \in Collectors : RecordError(c)) /\ UNCHANGED <<sinkVars, mainVars>>
    <2>1. PICK c \in Collectors : RecordError(c)
        BY <1>6
    <2>2. /\ col[c] \in Error /\ errors' = errors \cup {col[c]} /\ col[c].at # "sign"
          /\ UNCHANGED <<dedup, transform, enrich, push, refCol, pushCol, blank,
                         total, skipped, failed, imported, cancelled>>
        BY <1>6, <2>1 DEF RecordError, ErrorsInOrder, HeldInOrder, sinkVars, cfgVars
    <2>3. Signs' = Signs
        BY <2>2, ErrorRecorded
    <2>. QED
        BY <1>0, <2>2, <2>3
<1>7. CASE PushRecv
    BY <1>0, <1>a, <1>b, <1>u, <1>7 DEF PushRecv, SendEnriched, resultVars, cfgVars, BlankBehind, AheadOfStages, AheadOf
<1>8. CASE PushRecord
    <2>1. /\ UNCHANGED <<dedup, transform, enrich, refCol, pushCol, imported, errors,
                         total, skipped, failed, cancelled>>
          /\ push.at = "push" /\ push.item \in Items
        BY <1>b, <1>8 DEF PushRecord, resultVars, cfgVars
    <2>2. push.item \notin blank
        BY <2>1, Positions DEF BlankBehind
    <2>3. \/ /\ push'.at \in {"sign", "ref"} /\ push'.item = push.item
             /\ blank' = blank
          \/ /\ push'.at \in {"sign", "ref"} /\ push'.item = push.item
             /\ blank' = blank \cup {push.item}
          \/ push'.at = "err" /\ blank' = blank
        BY <1>8 DEF PushRecord
    <2>4. Cardinality(blank \cup {push.item}) = Cardinality(blank) + 1
        BY <2>2, OneMore DEF FiniteOutcomes
    <2>5. CASE blank' = blank
        BY <1>0, <1>u, <2>1, <2>2, <2>3, <2>5
    <2>6. CASE /\ push'.at \in {"sign", "ref"} /\ push'.item = push.item
               /\ blank' = blank \cup {push.item}
        <3>1. Cardinality(blank)' = Cardinality(blank) + 1 /\ push'.item \in blank'
            BY <2>4, <2>6
        <3>2. refCol.at = "ref" /\ refCol.item \in Items => refCol.item # push.item
            BY <2>1, Positions DEF Inv, InOrder, AheadOf
        <3>. QED
            BY <1>0, <1>b, <1>u, <2>1, <2>2, <2>6, <3>1, <3>2
    <2>. QED
        BY <2>3, <2>5, <2>6
<1>9. CASE SignRecord \/ PushEnd
    BY <1>0, <1>b, <1>u, <1>9 DEF SignRecord, PushEnd, resultVars, cfgVars, pipeVars
<1>10. CASE PushReport
    BY <1>0, <1>b, <1>u, <1>10 DEF PushReport, resultVars, cfgVars, pipeVars
<1>11. CASE PushRef
    BY <1>0, <1>b, <1>u, <1>11 DEF PushRef, resultVars, cfgVars, pipeVars
<1>12. CASE PushCancelled
    BY <1>0, <1>b, <1>u, <1>12 DEF PushCancelled, resultVars, cfgVars, pipeVars
<1>13. CASE CountImported
    <2>1. /\ UNCHANGED <<dedup, transform, enrich, push, blank, pushCol, errors,
                         total, skipped, failed, cancelled>>
          /\ refCol.at = "ref" /\ refCol'.at = "recv"
          /\ \/ refCol.item \notin blank /\ imported' = imported + 1
             \/ refCol.item \in blank /\ imported' = imported
        BY <1>13 DEF CountImported, resultVars, cfgVars, pipeVars
    <2>. QED
        BY <1>0, <1>u, <2>1
<1>14. CASE CountPushError
    <2>1. /\ pushCol \in Error /\ errors' = errors \cup {pushCol}
          /\ pushCol.at \in {"push", "sign"}
        BY <1>14 DEF CountPushError, ErrorsInOrder, HeldInOrder
    <2>2. /\ UNCHANGED <<dedup, transform, enrich, push, refCol, blank, imported,
                         total, skipped, cancelled>>
          /\ failed' = failed + 1 /\ pushCol'.at = "recv"
        BY <1>14 DEF CountPushError, cfgVars
    <2>3. CASE pushCol.at = "sign"
        <3>1. Signs' = Signs + 1
            BY <2>1, <2>3, ErrorRecorded
        <3>. QED
            BY <1>0, <2>2, <2>3, <3>1
    <2>4. CASE pushCol.at = "push"
        <3>1. Signs' = Signs
            BY <2>1, <2>4, ErrorRecorded
        <3>. QED
            BY <1>0, <2>2, <2>4, <3>1
    <2>. QED
        BY <2>1, <2>3, <2>4
<1>15. CASE PushCollectorEnd
    BY <1>0, <1>b, <1>u, <1>15 DEF PushCollectorEnd, resultVars, cfgVars, pipeVars
<1>16. CASE ReadTotal \/ Return \/ (Cancel /\ UNCHANGED <<sinkVars, mainVars>>)
            \/ UNCHANGED vars
    BY <1>1, <1>16 DEF ReadTotal, Return, Cancel, vars, sinkVars, pipeVars, resultVars
<1>. QED
    <2> HIDE DEF Balance, Outcomes, Undecided, One
    <2>1. CASE PipelineNext /\ UNCHANGED <<sinkVars, mainVars>>
        BY <2>1, <1>2, <1>3, <1>4, <1>5, <1>6, Zenon DEF PipelineNext
    <2>2. CASE Progress
        BY <2>1, <2>2, <1>7, <1>8, <1>9, <1>10, <1>11, <1>12, <1>13, <1>14, <1>15, <1>16
           DEF Progress
    <2>. QED
        BY <2>2, <1>16, Zenon DEF Next, Terminated

----------------------------------------------------------------------------
(* The report.                                                             *)

\* Where the caller is after a step.
LEMMA CallerSteps ==
    ASSUME [Next]_vars
    PROVE  \/ UNCHANGED <<main, report>>
           \/ ReadTotal \/ Return
<1>1. CASE PushRecv \/ PushRecord \/ SignRecord \/ PushReport \/ PushRef
    BY <1>1 DEF PushRecv, PushRecord, SignRecord, PushReport, PushRef, mainVars
<1>2. CASE PushCancelled \/ PushEnd \/ CountImported \/ CountPushError \/ PushCollectorEnd
    BY <1>2 DEF PushCancelled, PushEnd, CountImported, CountPushError, PushCollectorEnd, mainVars
<1>. QED
    BY <1>1, <1>2 DEF Next, Progress, Terminated, vars, mainVars

\* Nothing is counted that was not counted in the total, which is at most N.
LEMMA Bounded ==
    ASSUME Inv, FiniteOutcomes, TotalBehind, Balance
    PROVE  /\ imported + failed <= total + Signs
           /\ skipped + imported + failed <= N + Signs
           /\ total <= N
<1>1. /\ total \in Nat /\ skipped \in Nat /\ failed \in Nat /\ imported \in Nat
      /\ Signs \in Nat /\ Cardinality(blank) \in Nat /\ N \in Nat
      /\ next \in 1..(N + 1) /\ Len(queue) \in Nat
    BY CountTypes, Parameters
       DEF Inv, TypeOK, PipelineTypeOK, ResultTypeOK, ImportedTypeOK, FetchTypeOK
<1>2. Undecided \in Nat
    BY DEF Undecided, One
<1>3. Outcomes <= total + Signs
    BY <1>1, <1>2 DEF Balance, Outcomes, One
<1>4. total < next
    BY <1>1 DEF TotalBehind, One
<1>. QED
    BY <1>1, <1>3, <1>4 DEF Outcomes, One

LEMMA ReportReadStep ==
    ASSUME Inv, Inv', FiniteOutcomes, TotalBehind, Balance, ReportRead, [Next]_vars
    PROVE  ReportRead'
<1>1. errors' = errors => Signs' = Signs
    BY DEF Signs
<1>2. report \in [total : Nat, imported : Nat, skipped : Nat, failed : Nat]
      /\ main \in {"wait", "read", "returned"}
    BY DEF Inv, TypeOK, CallerTypeOK
<1>3. ~cancelled' => ~cancelled
    BY CancelStep DEF Inv
<1>4. CASE UNCHANGED <<main, report>>
    <2>1. CASE main = "wait"
        BY <1>4, <2>1 DEF ReportRead
    <2>2. CASE main # "wait"
        <3>1. /\ UNCHANGED <<errors, failed, imported>>
              /\ ~cancelled => UNCHANGED <<total, skipped>>
            BY <2>2, QuietStep
        <3>. QED
            BY <1>1, <1>3, <1>4, <2>2, <3>1 DEF ReportRead
    <2>. QED
        BY <2>1, <2>2
<1>5. CASE ReadTotal
    <2>1. /\ UNCHANGED <<total, imported, failed, errors>>
          /\ report'.total = total /\ main' = "read"
        BY <1>2, <1>5 DEF ReadTotal, pipeVars, sinkVars, resultVars
    <2>. QED
        BY <1>1, <2>1, Bounded DEF ReportRead
<1>6. CASE Return
    <2>1. /\ UNCHANGED <<total, skipped, imported, failed, errors, cancelled>>
          /\ report'.total = report.total /\ report'.imported = imported
          /\ report'.skipped = skipped /\ report'.failed = failed
          /\ main = "read" /\ main' = "returned"
        BY <1>2, <1>6 DEF Return, pipeVars, cfgVars, sinkVars, resultVars
    <2>. QED
        BY <2>1 DEF ReportRead
<1>. QED
    BY <1>4, <1>5, <1>6, CallerSteps

LEMMA CountsBoundedStep ==
    ASSUME Inv, FiniteOutcomes, TotalBehind, Balance, ReportRead, CountsBounded, [Next]_vars
    PROVE  CountsBounded'
<1> USE DEF CountsBounded
<1>1. errors' = errors =>
        Cardinality({e \in errors' : e.at = "sign"}) = Cardinality({e \in errors : e.at = "sign"})
    OBVIOUS
<1>2. CASE UNCHANGED <<main, report>>
    BY <1>1, <1>2, QuietStep
<1>3. CASE ReadTotal
    BY <1>3 DEF ReadTotal
<1>4. CASE Return
    <2>1. /\ report'.total = report.total /\ report'.imported = imported
          /\ report'.skipped = skipped /\ report'.failed = failed
          /\ main = "read" /\ errors' = errors
        BY <1>4 DEF Return, pipeVars, resultVars, Inv, TypeOK, CallerTypeOK
    <2>2. /\ imported + failed <= report.total + Signs
          /\ skipped + imported + failed <= N + Signs
          /\ report.total <= N
        BY <2>1, Bounded DEF ReportRead
    <2>. QED
        BY <1>1, <2>1, <2>2 DEF Signs
<1>. QED
    BY <1>2, <1>3, <1>4, CallerSteps

\* Once everything has ended, nothing is undecided, so the counts add up.
LEMMA Balanced ==
    ASSUME Inv, FiniteOutcomes, FailuresCounted, Balance, ReportRead
    PROVE  ReportBalanced
<1>1. SUFFICES ASSUME main = "returned", ~cancelled
               PROVE  /\ report.total + Signs
                            = report.skipped + report.imported + report.failed
                                + Cardinality(blank)
                      /\ report.failed = Failures
    BY DEF ReportBalanced, Signs, Failures
<1>2. /\ transform = Done /\ enrich = Done /\ push = Done
      /\ dedup.at \in {"done", "off"} /\ refCol = Done /\ pushCol = Done
      /\ \A c \in Collectors : col[c] = Done
    BY <1>1 DEF Inv, Ended, StagesEnded, EndedInOrder, CollectorsDone
<1>3. Undecided = 0 /\ ErrorsOnTheWay = 0 /\ dedup.at # "unlock"
    BY <1>2 DEF Undecided, ErrorsOnTheWay, One
<1>4. /\ total \in Nat /\ skipped \in Nat /\ failed \in Nat /\ imported \in Nat
      /\ Signs \in Nat /\ Failures \in Nat /\ Cardinality(blank) \in Nat
    BY CountTypes DEF Inv, TypeOK, PipelineTypeOK, ResultTypeOK, ImportedTypeOK
<1>5. /\ skipped + imported + failed + Cardinality(blank) = total + Signs
      /\ failed = Failures
    BY <1>1, <1>3, <1>4 DEF Balance, FailuresCounted, Outcomes, One
<1>. QED
    BY <1>1, <1>5 DEF ReportRead

LEMMA CountsInit ==
    ASSUME Init
    PROVE  Counts
<1> USE DEF Init, PipelineInit
<1>1. ErrorsInOrder
    <2>1. PipelineTypeOK /\ TypeOK
        BY InitTypes DEF TypeOK
    <2>2. AheadOfStages(None)
        BY <2>1, NoneAhead
    <2>. QED
        BY <2>2 DEF ErrorsInOrder, HeldInOrder, RecordedInOrder, AheadOfStages, BehindPush
<1>2. BlankBehind /\ FiniteOutcomes
    BY FS_EmptySet DEF BlankBehind, FiniteOutcomes
<1>3. Signs = 0 /\ Failures = 0 /\ Cardinality(blank) = 0
    BY FS_EmptySet DEF Signs, Failures
<1>4. TotalBehind
    BY DEF TotalBehind, One
<1>5. FailuresCounted
    BY <1>3 DEF FailuresCounted, ErrorsOnTheWay, One
<1>6. Balance
    BY <1>3 DEF Balance, Outcomes, Undecided, One
<1>7. ReportRead /\ CountsBounded
    BY Parameters DEF ReportRead, CountsBounded, NoReport
<1>. QED
    BY <1>1, <1>2, <1>4, <1>5, <1>6, <1>7 DEF Counts

\* Every record that is counted is counted on its way, whatever fails.
THEOREM CountsHold == Spec => []Counts
<1>1. Init => Counts
    BY CountsInit
<1>2. Inv /\ Inv' /\ Counts /\ [Next]_vars => Counts'
    <2>. SUFFICES ASSUME Inv, Inv', Counts, [Next]_vars PROVE Counts'
        OBVIOUS
    <2>1. ErrorsInOrder' /\ BlankBehind' /\ FiniteOutcomes' /\ TotalBehind'
        BY ErrorsInOrderStep, BlankBehindStep, FiniteOutcomesStep, TotalBehindStep DEF Counts
    <2>2. FailuresCounted' /\ Balance' /\ ReportRead'
        BY <2>1, FailuresCountedStep, BalanceStep, ReportReadStep DEF Counts
    <2>3. CountsBounded'
        BY CountsBoundedStep DEF Counts
    <2>. QED
        BY <2>1, <2>2, <2>3 DEF Counts
<1>. QED
    BY <1>1, <1>2, InvHolds, PTL DEF Spec

\* The report of an import that was not cancelled adds up.
THEOREM ReportAddsUp == Spec => []ReportBalanced
<1>1. Inv /\ Counts => ReportBalanced
    BY Balanced DEF Counts
<1>. QED
    BY <1>1, InvHolds, CountsHold, PTL

\* The report of any import counts no unit that was not counted in the total,
\* and none twice.
THEOREM CountsStayBounded == Spec => []CountsBounded
<1>1. Counts => CountsBounded
    BY DEF Counts
<1>. QED
    BY <1>1, CountsHold, PTL

----------------------------------------------------------------------------
(***************************************************************************)
(* Importer.DryRun.                                                        *)
(***************************************************************************)

\* The steps of the stages alone, of the context, and stutters.
DryUpstream ==
    /\ PipelineNext \/ Cancel \/ UNCHANGED pipeVars
    /\ UNCHANGED <<writer, writeErrs, files, mainVars>>

\* Every step is one of the stages or of what lies beyond them.
LEMMA DrySteps ==
    ASSUME [DryNext]_dryVars
    PROVE  /\ DryUpstream \/ WriteRecv \/ Drain \/ SinkStep
           /\ StageStep \/ SinkStep
           /\ UNCHANGED <<directory, existing>>
<1> USE DEF StageStep, SinkStep, DryUpstream, resultVars, cfgVars, pipeVars
<1>1. CASE (PipelineNext \/ Cancel) /\ UNCHANGED <<writer, writeErrs, files, mainVars>>
    BY <1>1, StagesOnlyAdd
<1>2. CASE WriteRecv \/ Drain
    BY <1>2, StagesOnlyAdd DEF WriteRecv, Drain
<1>3. CASE MakeOutputDir \/ WriteRecord \/ WriterEnd
    BY <1>3 DEF MakeOutputDir, WriteRecord, WriterEnd
<1>4. CASE DryReadTotal \/ DryReturn
    BY <1>4 DEF DryReadTotal, DryReturn
<1>5. CASE UNCHANGED dryVars
    BY <1>5 DEF dryVars
<1>. QED
    BY <1>1, <1>2, <1>3, <1>4, <1>5 DEF DryNext, DryProgress, DryTerminated

----------------------------------------------------------------------------
(* Types.                                                                  *)

LEMMA DryTypesStep ==
    ASSUME DryTypeOK, [DryNext]_dryVars
    PROVE  DryTypeOK'
<1>1. CASE DryUpstream
    <2>1. PipelineTypeOK'
        BY <1>1, StageTypes, Kept
           DEF DryTypeOK, PipelineTypeOK, DryUpstream, StageStep, pipeVars
    <2>. QED
        BY <1>1, <2>1 DEF DryTypeOK, DryUpstream, mainVars
<1>2. CASE WriteRecv \/ Drain
    <2>1. StageStep
        BY <1>2 DEF WriteRecv, Drain, StageStep
    <2>2. PipelineTypeOK'
        BY <2>1, StageTypes DEF DryTypeOK
    <2>3. /\ writer' = writer \/ writer' \in Holding({"write"})
          /\ UNCHANGED <<writeErrs, files, main, report>>
        BY <1>2 DEF WriteRecv, Drain, mainVars
    <2>. QED
        BY <2>2, <2>3 DEF DryTypeOK
<1>3. CASE MakeOutputDir \/ WriteRecord
    <2>1. PipelineTypeOK'
        BY <1>3, Kept
           DEF DryTypeOK, PipelineTypeOK, MakeOutputDir, WriteRecord, pipeVars
    <2>2. writer.at = "write" => writer.item \in Items /\ Content[writer.item] \in Contents
        BY Parameters DEF DryTypeOK
    <2>. QED
        BY <1>3, <2>1, <2>2 DEF DryTypeOK, MakeOutputDir, WriteRecord, mainVars
<1>4. CASE WriterEnd
    <2>1. \A i \in writeErrs : At("write", i) \in Error
        BY DEF DryTypeOK
    <2>2. ResultTypeOK'
        BY <1>4, <2>1 DEF WriterEnd, DryTypeOK, PipelineTypeOK, ResultTypeOK
    <2>3. PipelineTypeOK'
        BY <1>4, <2>2, Kept DEF DryTypeOK, PipelineTypeOK, WriterEnd
    <2>. QED
        BY <1>4, <2>3 DEF DryTypeOK, WriterEnd, mainVars
<1>5. CASE DryReadTotal \/ DryReturn
    <2>1. PipelineTypeOK'
        BY <1>5, Kept DEF DryTypeOK, PipelineTypeOK, DryReadTotal, DryReturn, pipeVars
    <2>. QED
        BY <1>5, <2>1
           DEF DryTypeOK, PipelineTypeOK, ResultTypeOK, DryReadTotal, DryReturn
<1>. QED
    BY <1>1, <1>2, <1>3, <1>4, <1>5
       DEF DryNext, DryProgress, DryTerminated, DryUpstream, dryVars

LEMMA DryInitTypes ==
    ASSUME DryInit
    PROVE  DryTypeOK
<1>1. main = "wait" /\ report = NoReport
    BY DEF DryInit, PipelineInit
<1>. QED
    BY <1>1, StagesInit DEF DryInit, DryTypeOK, NoReport

\* The variables of DryRunImport keep their types.
THEOREM DryTypeCorrect == DrySpec => []DryTypeOK
<1>1. DryInit => DryTypeOK
    BY DryInitTypes
<1>2. DryTypeOK /\ [DryNext]_dryVars => DryTypeOK'
    BY DryTypesStep
<1>. QED
    BY <1>1, <1>2, PTL DEF DrySpec

----------------------------------------------------------------------------
(* DryInv is inductive.                                                       *)

LEMMA DryEndedStep ==
    ASSUME DryTypeOK, DryEnded, [DryNext]_dryVars
    PROVE  DryEnded'
<1>1. /\ CollectorsTypeOK /\ StagesEnded /\ (StageStep \/ SinkStep)
      /\ errors \subseteq errors'
    BY DrySteps, StagesOnlyAdd DEF DryTypeOK, PipelineTypeOK, DryEnded, SinkStep
<1>2. StagesEnded'
    BY <1>1, StagesEndedStep
<1>3. \A c \in Collectors : col[c] = Done => col'[c] = Done
    BY <1>1, CollectorsStayDone
<1>4. \A i \in writeErrs : Recorded(i) => Recorded(i)'
    BY <1>1 DEF Recorded
<1>5. enrich = Done => enrich' = Done
    BY <1>1, EnrichStaysDone
<1> USE <1>2, <1>3, <1>4, <1>5 DEF DryEnded, mainVars
<1>6. CASE DryUpstream
    BY <1>6 DEF DryUpstream
<1>7. CASE WriteRecv \/ Drain
    BY <1>7 DEF WriteRecv, Drain
<1>8. CASE MakeOutputDir \/ WriteRecord
    <2>1. CASE MakeOutputDir
        BY <2>1 DEF MakeOutputDir
    <2>2. CASE WriteRecord
        <3>1. /\ writer' = Recv /\ main' = main /\ writer # Done
            BY <2>2 DEF WriteRecord
        <3>2. ~(writer'.at \in {"run", "drain"}) /\ writer' # Done
            BY <3>1
        <3>. QED
            BY <3>1, <3>2
    <2>. QED
        BY <1>8, <2>1, <2>2
<1>9. CASE WriterEnd
    <2>1. ASSUME NEW i \in writeErrs PROVE Recorded(i)'
        <3>1. writer.at # "drain"
            BY <2>1
        <3>2. At("write", i) \in errors'
            BY <1>9, <2>1, <3>1 DEF WriterEnd
        <3>. QED
            BY <3>2 DEF Recorded
    <2>. QED
        BY <1>9, <2>1 DEF WriterEnd
<1>10. CASE DryReadTotal \/ DryReturn
    BY <1>10 DEF DryReadTotal, DryReturn, pipeVars
<1>. QED
    BY <1>6, <1>7, <1>8, <1>9, <1>10
       DEF DryNext, DryProgress, DryTerminated, DryUpstream, dryVars

LEMMA DryTrackedStep ==
    ASSUME DryTypeOK, DryStored, EndedInOrder, DryTracked, [DryNext]_dryVars
    PROVE  DryTracked'
<1> SUFFICES ASSUME ~cancelled', NEW i \in Items, i < next'
             PROVE  (\/ InStages(i) \/ writer.item = i
                     \/ Content[i] \in directory \cup files
                     \/ DryHasError(i) \/ NoDirectory)'
    BY DEF DryTracked
<1> DEFINE InHand == InStages(i) \/ Content[i] \in directory \/ Collected(i)
           Beyond == writer.item = i \/ Content[i] \in files \/ i \in writeErrs \/ NoDirectory
<1>1. PipelineTypeOK /\ SkippedStored
    BY DEF DryTypeOK, DryStored
<1>2. ~cancelled /\ i < next => InHand \/ Beyond
    BY DEF DryTracked, DryHasError, InStages
<1>3. ASSUME NEW j \in Items \cup {None}, i < next => InHand,
             PipelineNext \/ Cancel \/ SendEnriched(j) \/ SinkStep
      PROVE  InHand' \/ i = j
    BY <1>1, <1>3, TrackedByStages
<1>4. /\ directory' = directory /\ errors \subseteq errors'
      /\ ~cancelled
    <2>1. CASE StageStep
        <3>1. /\ errors \subseteq errors'
              /\ Cancel \/ cancelled' = cancelled
            BY <2>1, StagesOnlyAdd, Zenon
        <3>2. ~Cancel
            BY DEF Cancel
        <3>3. ~cancelled
            BY <3>1, <3>2
        <3>. QED
            BY <3>1, <3>3, DrySteps
    <2>2. CASE SinkStep
        BY <2>2, DrySteps DEF SinkStep, cfgVars
    <2>. QED
        BY <2>1, <2>2, DrySteps
<1>5. SUFFICES InHand' \/ Beyond'
    BY DEF DryHasError
<1>6. CASE Beyond
    <2> USE <1>4, <1>6 DEF NoDirectory, mainVars
    <2>1. CASE DryUpstream
        BY <2>1 DEF DryUpstream
    <2>2. CASE WriteRecv \/ Drain
        BY <2>2 DEF WriteRecv, Drain
    <2>3. CASE MakeOutputDir
        <3>1. writer.item = None /\ writer.at # "drain"
            BY <2>3 DEF MakeOutputDir, DryTypeOK
        <3>. QED
            BY <2>3, <3>1 DEF MakeOutputDir
    <2>4. CASE WriteRecord
        BY <2>4 DEF WriteRecord
    <2>5. CASE WriterEnd
        <3>1. writer.item = None /\ UNCHANGED <<files, writeErrs>>
            BY <2>5 DEF WriterEnd, DryTypeOK
        <3>2. writer.at = "drain" => At("mkdir", None) \in errors'
            BY <2>5 DEF WriterEnd
        <3>. QED
            BY <3>1, <3>2
    <2>6. CASE DryReadTotal \/ DryReturn
        BY <2>6 DEF DryReadTotal, DryReturn
    <2>. QED
        BY <2>1, <2>2, <2>3, <2>4, <2>5, <2>6
           DEF DryNext, DryProgress, DryTerminated, DryUpstream, dryVars
<1>7. CASE i < next => InHand
    <2>1. CASE PipelineNext \/ Cancel \/ SinkStep
        BY <1>3, <1>7, <2>1
    <2>2. CASE WriteRecv
        <3>1. PICK j \in Items : SendEnriched(j) /\ writer' = At("write", j)
            BY <2>2 DEF WriteRecv
        <3>2. InHand' \/ i = j
            BY <1>3, <1>7, <3>1
        <3>. QED
            BY <3>1, <3>2
    <2>3. CASE Drain
        BY <2>3 DEF Drain, NoDirectory
    <2>4. UNCHANGED pipeVars => SinkStep
        BY DEF pipeVars, resultVars, SinkStep
    <2>. QED
        BY <2>1, <2>2, <2>3, <2>4, DrySteps DEF DryUpstream
<1>. QED
    BY <1>2, <1>4, <1>6, <1>7

\* What each action makes of the writer's item.
LEMMA WriterMoves ==
    ASSUME DryTypeOK, [DryNext]_dryVars
    PROVE  \/ writer'.item \in {writer.item, None}
           \/ /\ writer.item = None /\ enrich.item # None
              /\ writer'.item = enrich.item /\ enrich' = Recv
              /\ UNCHANGED <<queue, next, dedup, transform>>
<1>1. CASE DryUpstream
    BY <1>1 DEF DryUpstream
<1>2. CASE WriteRecv
    BY <1>2 DEF WriteRecv, SendEnriched, fetchVars
<1>3. CASE MakeOutputDir \/ WriteRecord \/ Drain \/ WriterEnd
    BY <1>3 DEF MakeOutputDir, WriteRecord, Drain, WriterEnd, DryTypeOK
<1>4. CASE DryReadTotal \/ DryReturn
    BY <1>4 DEF DryReadTotal, DryReturn
<1>. QED
    BY <1>1, <1>2, <1>3, <1>4 DEF DryNext, DryProgress, DryTerminated, DryUpstream, dryVars

LEMMA DryInOrderStep ==
    ASSUME DryTypeOK, DryTypeOK', DryInOrder, [DryNext]_dryVars
    PROVE  DryInOrder'
<1>1. PipelineTypeOK /\ FetchTypeOK' /\ StagesInOrder /\ Moves
    BY DrySteps, StepMoves DEF DryTypeOK, PipelineTypeOK, DryInOrder
<1>2. StagesInOrder'
    BY <1>1, StagesInOrderStep
<1>3. \A i \in 0..N : AheadOfStages(i) => AheadOfStages(i)'
    BY <1>1, AheadKept
<1>4. AheadOfStages(None) /\ N \in Nat
    BY <1>1, NoneAhead, Parameters
<1>5. writer.item \in 0..N /\ writer'.item \in 0..N
    BY <1>4 DEF DryTypeOK
<1>6. CASE writer'.item \in {writer.item, None}
    BY <1>2, <1>3, <1>4, <1>5, <1>6 DEF DryInOrder
<1>7. CASE /\ enrich.item # None /\ writer'.item = enrich.item /\ enrich' = Recv
           /\ UNCHANGED <<queue, next, dedup, transform>>
    BY <1>1, <1>2, <1>7
       DEF DryInOrder, StagesInOrder, AheadOfStages, AheadOfTransform, AheadOfDedup,
           AheadOfQueue, AheadOf
<1>. QED
    BY <1>6, <1>7, WriterMoves

LEMMA WrittenNewStep ==
    ASSUME DryTypeOK, DryStored, WrittenNew, [DryNext]_dryVars
    PROVE  WrittenNew'
<1>1. PipelineTypeOK /\ SkippedStored /\ OnlyNew
    BY DEF DryTypeOK, DryStored, WrittenNew
<1>2. OnlyNew' /\ existing' = existing /\ (Relied' => Relied)
    BY <1>1, DrySteps, OnlyNewStep, ReliedBefore
<1>. QED
    BY <1>2, WriterMoves DEF WrittenNew, OnlyNew, New

\* Where the error of a unit comes from that had none: the fetcher could not
\* read the unit, or a stage or the writer gives it up.
LEMMA NewErrors ==
    ASSUME DryTypeOK, ~cancelled, [DryNext]_dryVars, NEW i \in Items, DryHasError(i)', ~DryHasError(i)
    PROVE  \/ /\ i = next /\ next' = next + 1
              /\ UNCHANGED <<queue, dedup, transform, enrich, writer>>
           \/ /\ i = transform.item /\ transform' = Recv
              /\ UNCHANGED <<queue, next, dedup, enrich, writer>>
           \/ /\ i = enrich.item /\ enrich' = Done
              /\ UNCHANGED <<queue, next, dedup, transform, writer>>
           \/ /\ i = writer.item /\ writer' = Recv
              /\ UNCHANGED <<queue, next, dedup, transform, enrich, files>>
<1> USE DEF DryHasError, Collected, Recorded, DryTypeOK, PipelineTypeOK, CollectorsTypeOK,
        MuFree, cfgVars, fetchVars, resultVars, mainVars
<1>1. CASE PipelineNext /\ UNCHANGED <<writer, writeErrs, files, mainVars>>
    <2>1. CASE FetchEmit \/ FetchFail \/ FetchEnd
        BY <1>1, <2>1 DEF FetchEmit, FetchFail, FetchEnd
    <2>2. CASE DedupRecv \/ DedupCheck \/ DedupCountTotal \/ DedupCountSkipped \/ DedupEnd
        BY <2>2, <1>1 DEF DedupRecv, DedupCheck, DedupCountTotal, DedupCountSkipped, DedupEnd
    <2>3. CASE TransformRecv \/ TransformRecord \/ TransformFailed \/ TransformEnd
        BY <2>3, <1>1 DEF TransformRecv, TransformRecord, TransformFailed, TransformEnd
    <2>4. CASE TransformReport
        BY <2>4, <1>1 DEF TransformReport
    <2>5. CASE EnrichRecv \/ EnrichRecord \/ EnrichFailed \/ EnrichEnd
        BY <2>5, <1>1 DEF EnrichRecv, EnrichRecord, EnrichFailed, EnrichEnd
    <2>6. CASE EnrichReport
        BY <2>6, <1>1 DEF EnrichReport
    <2>7. CASE CollectFetch
        BY <2>7, <1>1 DEF CollectFetch
    <2>8. CASE \E c \in Collectors : RecordError(c)
        BY <2>8, <1>1 DEF RecordError
    <2>9. CASE \E c \in Collectors : CollectorEnd(c)
        BY <2>9, <1>1 DEF CollectorEnd
    <2>. QED
        BY <1>1, <2>1, <2>2, <2>3, <2>4, <2>5, <2>6, <2>7, <2>8, <2>9 DEF PipelineNext
<1>2. CASE Cancel /\ UNCHANGED <<writer, writeErrs, files, mainVars>>
    BY <1>2 DEF Cancel
<1>3. CASE WriteRecv \/ Drain
    BY <1>3 DEF WriteRecv, Drain, SendEnriched
<1>4. CASE MakeOutputDir
    BY <1>4 DEF MakeOutputDir, pipeVars
<1>5. CASE WriteRecord
    BY <1>5 DEF WriteRecord, pipeVars
<1>6. CASE WriterEnd
    BY <1>6 DEF WriterEnd
<1>7. CASE DryReadTotal \/ DryReturn
    BY <1>7 DEF DryReadTotal, DryReturn, pipeVars
<1>8. CASE UNCHANGED dryVars
    BY <1>8 DEF dryVars, pipeVars
<1>. QED
    BY <1>1, <1>2, <1>3, <1>4, <1>5, <1>6, <1>7, <1>8
       DEF DryNext, DryProgress, DryTerminated

\* A unit that the stages and the writer are done with does not come back.
LEMMA PastKept ==
    ASSUME DryTypeOK, [DryNext]_dryVars, NEW i \in Items, Past(i)
    PROVE  Past(i)'
<1>1. PipelineTypeOK /\ Moves
    BY DrySteps, StepMoves DEF DryTypeOK
<1>2. i < next' /\ N \in Nat /\ i # None
    BY <1>1, MovedQueue, ItemTypes DEF Past
<1>3. \A k \in DOMAIN queue : queue[k] # i
    BY DEF Past, Queued
<1>4. \A k \in DOMAIN queue' : queue'[k] # i
    BY <1>1, <1>3, MovedQueue, ItemTypes DEF Past
<1>5. queue # <<>> => Head(queue) # i
    <2>1. queue # <<>> => Head(queue) = queue[1] /\ 1 \in DOMAIN queue
        BY <1>1, ItemTypes
    <2>. QED
        BY <1>3, <2>1
<1>6. i \notin {dedup'.item, transform'.item, enrich'.item}
    BY <1>1, <1>2, <1>5 DEF Past, Moves
<1>7. i # writer'.item
    BY <1>2, WriterMoves DEF Past
<1>. QED
    BY <1>2, <1>4, <1>6, <1>7 DEF Past, Queued

\* A unit that gets its first error was under way before, and is past after.
LEMMA ErrorsArePast ==
    ASSUME DryTypeOK, DryInOrder, ~cancelled, [DryNext]_dryVars,
           NEW i \in Items, DryHasError(i)', ~DryHasError(i)
    PROVE  ~Past(i) /\ Past(i)'
<1>1. /\ PipelineTypeOK /\ N \in Nat /\ i # None /\ i \in Nat
      /\ next \in Nat /\ writer.item \in 0..N
    BY ItemTypes DEF DryTypeOK
<1>2. /\ \A k \in DOMAIN queue : queue[k] \in Items /\ queue[k] < next
      /\ AheadOfQueue(dedup.item) /\ AheadOfDedup(transform.item)
      /\ AheadOfTransform(enrich.item) /\ AheadOfStages(writer.item)
    BY <1>1, ItemTypes DEF DryInOrder, StagesInOrder
<1>3. /\ dedup.item \in 0..N /\ transform.item \in 0..N /\ enrich.item \in 0..N
    BY <1>1, ItemTypes
<1> USE <1>1, <1>2, <1>3
    DEF Past, Queued, AheadOfStages, AheadOfTransform, AheadOfDedup, AheadOfQueue, AheadOf
<1>4. CASE /\ i = next /\ next' = next + 1
           /\ UNCHANGED <<queue, dedup, transform, enrich, writer>>
    BY <1>4
<1>5. CASE /\ i = transform.item /\ transform' = Recv
           /\ UNCHANGED <<queue, next, dedup, enrich, writer>>
    BY <1>5
<1>6. CASE /\ i = enrich.item /\ enrich' = Done
           /\ UNCHANGED <<queue, next, dedup, transform, writer>>
    BY <1>6
<1>7. CASE /\ i = writer.item /\ writer' = Recv
           /\ UNCHANGED <<queue, next, dedup, transform, enrich, files>>
    BY <1>7
<1>. QED
    BY <1>4, <1>5, <1>6, <1>7, NewErrors

\* So is one that the writer has dealt with.
LEMMA WrittenIsPast ==
    ASSUME DryTypeOK, DryInOrder, writer.item \in Items, writer' = Recv,
           UNCHANGED <<queue, next, dedup, transform, enrich>>,
           NEW i \in Items, i = writer.item
    PROVE  Past(i)'
<1>1. /\ PipelineTypeOK /\ next \in Nat
      /\ dedup.item \in 0..N /\ transform.item \in 0..N /\ enrich.item \in 0..N
      /\ \A k \in DOMAIN queue : queue[k] \in Items
      /\ N \in Nat
    BY ItemTypes DEF DryTypeOK
<1>. QED
    BY <1>1 DEF DryInOrder, Past, Queued, AheadOfStages, AheadOfTransform, AheadOfDedup,
        AheadOfQueue, AheadOf

\* Only a successful write adds a file.
LEMMA FilesGrow ==
    ASSUME [DryNext]_dryVars, NEW c \in files', c \notin files
    PROVE  /\ writer.at = "write" /\ c = Content[writer.item] /\ writer' = Recv
           /\ UNCHANGED <<pipeVars, writeErrs>>
<1>1. CASE DryUpstream \/ WriteRecv \/ Drain
    BY <1>1 DEF DryUpstream, WriteRecv, Drain
<1>2. CASE MakeOutputDir \/ WriterEnd
    BY <1>2 DEF MakeOutputDir, WriterEnd
<1>3. CASE WriteRecord
    BY <1>3 DEF WriteRecord
<1>4. CASE DryReadTotal \/ DryReturn
    BY <1>4 DEF DryReadTotal, DryReturn
<1>. QED
    BY <1>1, <1>2, <1>3, <1>4 DEF DryNext, DryProgress, DryTerminated, DryUpstream, dryVars

LEMMA ErrorsApartStep ==
    ASSUME DryTypeOK, DryStored, DryInOrder, WrittenNew, ErrorsApart, [DryNext]_dryVars
    PROVE  ErrorsApart'
<1> SUFFICES ASSUME ~cancelled' PROVE ErrorsApart'
    BY DEF ErrorsApart
<1>1. ~cancelled
    <2>1. CASE StageStep
        BY <2>1, StagesOnlyAdd DEF Cancel
    <2>2. CASE SinkStep
        BY <2>2 DEF SinkStep, cfgVars
    <2>. QED
        BY <2>1, <2>2, DrySteps
<1>2. ASSUME NEW i \in Items, DryHasError(i)'
      PROVE  Past(i)'
    <2>1. CASE DryHasError(i)
        BY <1>1, <2>1, PastKept DEF ErrorsApart
    <2>2. CASE ~DryHasError(i)
        BY <1>1, <1>2, <2>2, ErrorsArePast
    <2>. QED
        BY <2>1, <2>2
<1>3. ASSUME NEW i \in Items, Past(i), ~DryHasError(i)
      PROVE  Past(i)' /\ ~DryHasError(i)'
    BY <1>1, <1>3, PastKept, ErrorsArePast
<1>4. existing' = existing /\ (Relied' => Relied)
    BY DrySteps, ReliedBefore
<1>5. ASSUME NEW c \in files'
      PROVE  (\E i \in Items : Content[i] = c /\ Past(i) /\ ~DryHasError(i) /\ (Relied => New(i)))'
    <2>1. CASE c \in files
        <3>1. PICK i \in Items : /\ Content[i] = c /\ Past(i) /\ ~DryHasError(i)
                                 /\ Relied => New(i)
            BY <1>1, <2>1 DEF ErrorsApart
        <3>. QED
            BY <1>3, <1>4, <3>1 DEF New
    <2>2. CASE c \notin files
        <3>1. /\ writer.at = "write" /\ c = Content[writer.item] /\ writer' = Recv
              /\ UNCHANGED <<pipeVars, writeErrs>>
            BY <1>5, <2>2, FilesGrow
        <3>2. PICK i \in Items : i = writer.item
            BY <3>1 DEF DryTypeOK
        <3>3. ~Past(i)
            BY <3>2 DEF Past
        <3>4. ~DryHasError(i)
            BY <1>1, <3>3 DEF ErrorsApart
        <3>5. ~DryHasError(i)'
            BY <3>1, <3>4 DEF DryHasError, Collected, Recorded, pipeVars, fetchVars, resultVars
        <3>6. Past(i)'
            BY <3>1, <3>2, WrittenIsPast DEF pipeVars, fetchVars
        <3>7. Relied => New(i)
            BY <3>2 DEF WrittenNew
        <3>. QED
            BY <1>4, <3>1, <3>2, <3>5, <3>6, <3>7 DEF New
    <2>. QED
        BY <2>1, <2>2
<1>. QED
    BY <1>2, <1>5 DEF ErrorsApart

\* The inductive invariant: every unit is tracked, and none is both in a file
\* and in an error.
THEOREM DryInvHolds == DrySpec => []DryInv
<1>1. DryInit => DryInv
    <2>. SUFFICES ASSUME DryInit PROVE DryInv
        OBVIOUS
    <2>1. DryTypeOK
        BY DryInitTypes
    <2>2. /\ GivenUp /\ SkippedStored /\ StagesEnded /\ EndedInOrder
          /\ StagesInOrder /\ OnlyNew /\ PipelineTypeOK
        BY StagesInit DEF DryInit
    <2>3. DryTracked /\ DryStored /\ DryEnded /\ WrittenNew
        BY <2>2, Parameters
           DEF DryInit, PipelineInit, DryTracked, DryStored, DryEnded, WrittenNew, New
    <2>4. DryInOrder
        BY <2>2, NoneAhead DEF DryInit, DryInOrder
    <2>5. ErrorsApart
        BY DEF DryInit, PipelineInit, ErrorsApart, DryHasError, Collected, Recorded
    <2>. QED
        BY <2>1, <2>2, <2>3, <2>4, <2>5 DEF DryInv
<1>2. DryInv /\ [DryNext]_dryVars => DryInv'
    <2>. SUFFICES ASSUME DryInv, [DryNext]_dryVars PROVE DryInv'
        OBVIOUS
    <2>1. DryTypeOK' /\ DryEnded' /\ DryTracked'
        BY DryTypesStep, DryEndedStep, DryTrackedStep DEF DryInv
    <2>2. GivenUp' /\ EndedInOrder'
        BY DrySteps, GivenUpStep, EndedInOrderStep DEF DryInv, DryTypeOK, PipelineTypeOK
    <2>3. DryStored'
        BY DrySteps, SkippedStoredStep DEF DryInv, DryStored
    <2>4. DryInOrder' /\ WrittenNew' /\ ErrorsApart'
        BY <2>1, DryInOrderStep, WrittenNewStep, ErrorsApartStep DEF DryInv
    <2>. QED
        BY <2>1, <2>2, <2>3, <2>4 DEF DryInv
<1>. QED
    BY <1>1, <1>2, PTL DEF DrySpec

\* When the caller has seen the collectors and the writer end, nothing is on
\* its way any more.
LEMMA Settled ==
    ASSUME DryInv, main # "wait", ~cancelled
    PROVE  /\ fetch = Done /\ writer = Done
           /\ \A i \in Items : i < next =>
                \/ Content[i] \in directory \cup files
                \/ Recorded(i) \/ \E e \in errors : e.at = "mkdir"
           /\ \A i \in Items : ~(i < next) =>
                i >= next /\ \E e \in errors : e.at = "fetch"
<1>1. /\ fetch = Done /\ ferr = None
      /\ transform = Done /\ enrich = Done /\ writer = Done
      /\ dedup.at \in {"done", "off"} /\ queue = <<>>
      /\ \A c \in Collectors : col[c] = Done
      /\ \A i \in writeErrs : Recorded(i)
    BY DEF DryInv, DryEnded, StagesEnded, EndedInOrder
<1>2. dedup.item = None /\ next \in Nat /\ N \in Nat
    BY <1>1, Parameters DEF DryInv, DryTypeOK, PipelineTypeOK, DedupTypeOK, FetchTypeOK
<1>3. ASSUME NEW i \in Items, i < next
      PROVE  \/ Content[i] \in directory \cup files
             \/ Recorded(i) \/ \E e \in errors : e.at = "mkdir"
    <2>1. ~InStages(i) /\ writer.item # i /\ writer.at # "drain" /\ ferr # i
        BY <1>1, <1>2, Parameters DEF InStages, Queued
    <2>2. \/ Content[i] \in directory \cup files
          \/ DryHasError(i) \/ NoDirectory
        BY <1>3, <2>1 DEF DryInv, DryTracked
    <2>. QED
        BY <1>1, <2>1, <2>2, Parameters DEF DryHasError, Collected, NoDirectory
<1>4. ASSUME NEW i \in Items, ~(i < next)
      PROVE  i >= next /\ \E e \in errors : e.at = "fetch"
    <2>1. i >= next /\ next <= N
        BY <1>2, <1>4
    <2>. QED
        BY <1>1, <2>1 DEF DryInv, GivenUp
<1>. QED
    BY <1>1, <1>3, <1>4

\* The preview is exact, for any number of units, any content and any faults
\* of the stages: the files are what the directory lacks, less what failed.
THEOREM PreviewHolds == DrySpec => []PreviewAccurate
<1>1. ASSUME DryInv PROVE PreviewAccurate
    <2> SUFFICES ASSUME main = "returned", ~cancelled, dedup.at # "off",
                        "lookup" \notin Faults, \A e \in errors : e.at # "mkdir"
                 PROVE  files = {Content[i] : i \in Items \ DryExplained} \ existing
        BY DEF PreviewAccurate
    <2>1. Relied
        BY DEF Relied
    <2>2. ASSUME NEW c \in files
          PROVE  c \in {Content[i] : i \in Items \ DryExplained} \ existing
        <3>1. PICK i \in Items : /\ Content[i] = c /\ Past(i) /\ ~DryHasError(i)
                                 /\ Relied => New(i)
            BY <1>1 DEF DryInv, ErrorsApart
        <3>2. c \notin existing
            BY <2>1, <3>1, Parameters DEF New
        <3>3. ~(i >= next)
            BY <1>1, <3>1, Parameters
               DEF Past, DryInv, DryTypeOK, PipelineTypeOK, FetchTypeOK
        <3>4. i \notin DryExplained
            BY <3>1, <3>3 DEF DryExplained, DryHasError, Collected, Recorded
        <3>. QED
            BY <3>1, <3>2, <3>4
    <2>3. ASSUME NEW i \in Items \ DryExplained, Content[i] \notin existing
          PROVE  Content[i] \in files
        <3>1. ~Recorded(i)
            BY <2>3 DEF DryExplained, Recorded
        <3>2. i < next
            BY <1>1, <2>3, Settled DEF DryExplained
        <3>3. directory = existing
            BY <1>1 DEF DryInv, DryStored
        <3>. QED
            BY <1>1, <2>3, <3>1, <3>2, <3>3, Settled
    <2>. QED
        BY <2>2, <2>3
<1>. QED
    BY <1>1, DryInvHolds, PTL

----------------------------------------------------------------------------
(* DryRunImport implements ImportContract.                                 *)

\* When the caller has seen the goroutines end, every unit is accounted for.
LEMMA DryAccounted ==
    ASSUME DryInv, main # "wait", ~cancelled
    PROVE  Items \subseteq DryDelivered \cup DryExplained
BY Settled DEF DryDelivered, DryExplained, Recorded

\* What a step of a goroutine that outlives DryRun leaves alone.
LEMMA DryQuietStep ==
    ASSUME DryInv, main = "returned", [DryNext]_dryVars
    PROVE  /\ UNCHANGED <<directory, files, errors, next, main>>
           /\ fetch = Done /\ fetch' = Done
<1>1. /\ fetch = Done /\ transform = Done /\ enrich = Done /\ writer = Done
      /\ \A c \in Collectors : col[c] = Done
    BY DEF DryInv, DryEnded, StagesEnded
<1>2. CASE DryUpstream
    <2>1. UNCHANGED <<directory, errors, next, fetch>>
        BY <1>1, <1>2, StagesQuiet
           DEF DryUpstream, StageStep, pipeVars, fetchVars, resultVars
    <2>. QED
        BY <1>1, <1>2, <2>1 DEF DryUpstream, mainVars
<1>3. CASE WriteRecv \/ Drain
    BY <1>1, <1>3 DEF WriteRecv, Drain
<1>4. CASE MakeOutputDir \/ WriteRecord \/ WriterEnd
    BY <1>1, <1>4 DEF MakeOutputDir, WriteRecord, WriterEnd
<1>5. CASE DryReadTotal \/ DryReturn
    BY <1>5 DEF DryReadTotal, DryReturn
<1>. QED
    BY <1>2, <1>3, <1>4, <1>5 DEF DryNext, DryProgress, DryTerminated, DryUpstream, dryVars

\* Steps that neither write, nor cancel, nor return only add errors.
LEMMA DryInnerStep ==
    ASSUME [DryNext]_dryVars, ~WriteRecord, ~DryReturn,
           ~(Cancel /\ UNCHANGED <<writer, writeErrs, files, mainVars>>)
    PROVE  /\ UNCHANGED <<directory, files, cancelled>>
           /\ errors \subseteq errors'
           /\ fetch = Done => fetch' = Done /\ next' = next
           /\ (main' = "returned") = (main = "returned")
<1> USE DEF cfgVars, fetchVars, resultVars, mainVars, pipeVars
<1>1. CASE PipelineNext /\ UNCHANGED <<writer, writeErrs, files, mainVars>>
    BY <1>1, StagesOnlyAdd DEF StageStep
<1>2. CASE WriteRecv \/ Drain
    BY <1>2 DEF WriteRecv, Drain, SendEnriched
<1>3. CASE MakeOutputDir \/ WriterEnd
    BY <1>3 DEF MakeOutputDir, WriterEnd
<1>4. CASE DryReadTotal
    BY <1>4 DEF DryReadTotal
<1>5. CASE UNCHANGED dryVars
    BY <1>5 DEF dryVars
<1>. QED
    BY <1>1, <1>2, <1>3, <1>4, <1>5 DEF DryNext, DryProgress, DryTerminated

\* Nothing takes a cancellation back.
LEMMA DryCancelStep ==
    ASSUME [DryNext]_dryVars
    PROVE  cancelled' = cancelled \/ cancelled' = TRUE
<1>1. CASE WriteRecord \/ DryReturn
    BY <1>1 DEF WriteRecord, DryReturn, cfgVars, pipeVars
<1>2. CASE Cancel
    BY <1>2 DEF Cancel
<1>. QED
    BY <1>1, <1>2, DryInnerStep

LEMMA DryContractStep ==
    ASSUME DryInv, [DryNext]_dryVars
    PROVE  [DryContract!Next]_(DryContract!vars)
<1> USE DEF DryContract!vars, DryContract!Next
<1>1. CASE main = "returned"
    <2>1. /\ UNCHANGED <<directory, files, errors, next, main, fetch>>
          /\ cancelled' = cancelled \/ cancelled' = TRUE
        BY <1>1, DryQuietStep, DryCancelStep
    <2>. QED
        BY <1>1, <2>1 DEF DryContract!Abort, DryDelivered, DryExplained
<1>2. CASE main # "returned" /\ WriteRecord
    <2>1. /\ files \subseteq files' /\ directory' = directory
          /\ UNCHANGED <<errors, next, fetch, cancelled, main>>
        BY <1>2 DEF WriteRecord, pipeVars, cfgVars, fetchVars, resultVars, mainVars
    <2>. QED
        BY <1>2, <2>1 DEF DryContract!Deliver, DryDelivered, DryExplained
<1>3. CASE main # "returned" /\ DryReturn
    <2>1. /\ UNCHANGED <<directory, files, errors, next, fetch, cancelled>>
          /\ main = "read" /\ main' = "returned"
        BY <1>3 DEF DryReturn, pipeVars, cfgVars, fetchVars, resultVars
    <2>2. cancelled \/ Items \subseteq DryDelivered \cup DryExplained
        BY <2>1, DryAccounted DEF DryInv, DryTypeOK, PipelineTypeOK, ContextTypeOK
    <2>. QED
        BY <2>1, <2>2 DEF DryContract!Return, DryDelivered, DryExplained
<1>4. CASE /\ main # "returned"
           /\ Cancel /\ UNCHANGED <<writer, writeErrs, files, mainVars>>
    <2>1. /\ UNCHANGED <<directory, files, errors, next, fetch, main>>
          /\ cancelled' = TRUE
        BY <1>4 DEF Cancel, fetchVars, resultVars, mainVars
    <2>. QED
        BY <2>1 DEF DryContract!Abort, DryDelivered, DryExplained
<1>5. CASE /\ main # "returned" /\ ~WriteRecord /\ ~DryReturn
           /\ ~(Cancel /\ UNCHANGED <<writer, writeErrs, files, mainVars>>)
    <2>1. /\ UNCHANGED <<directory, files, cancelled>>
          /\ errors \subseteq errors'
          /\ fetch = Done => fetch' = Done /\ next' = next
          /\ main' # "returned"
        BY <1>5, DryInnerStep
    <2>2. DryDelivered' = DryDelivered /\ DryDelivered \subseteq Items
        BY <2>1 DEF DryDelivered
    <2>3. DryExplained \subseteq DryExplained' /\ DryExplained' \subseteq Items
        BY <2>1 DEF DryExplained
    <2>. QED
        BY <1>5, <2>1, <2>2, <2>3 DEF DryContract!Explain
<1>. QED
    BY <1>1, <1>2, <1>3, <1>4, <1>5

\* DryRun implements the contract, a file standing for a pushed record.
THEOREM DryKeepsContract == DrySpec => DryContractSpec
<1>1. DryInit => DryContract!Init
    BY DEF DryInit, PipelineInit, DryContract!Init, DryDelivered, DryExplained
<1>2. DryInv /\ [DryNext]_dryVars => [DryContract!Next]_(DryContract!vars)
    BY DryContractStep
<1>. QED
    BY <1>1, <1>2, DryInvHolds, PTL DEF DrySpec, DryContractSpec, DryContract!Spec

----------------------------------------------------------------------------
(***************************************************************************)
(* How imports end.  That Run and DryRun return is a matter of fairness,   *)
(* which the runs check; what it rests on is proved here: no step can be   *)
(* taken for ever, and as long as an import has not ended a step can be    *)
(* taken, but for the enricher that left its input.                        *)
(***************************************************************************)

\* The steps left, at most, of a goroutine and of the item it holds, in the
\* stages that are ahead of it.
CollectorSteps(p) == CASE p = "done" -> 0 [] p = "recv" -> 1 [] OTHER -> 2

DedupSteps(p) ==
    CASE p = "check" -> 13 [] p = "send" -> 12 [] p = "skip" -> 3
      [] p = "unlock" -> 2 [] p = "recv" -> 1 [] OTHER -> 0

TransformSteps(p) ==
    CASE p = "count" -> 11 [] p = "send" -> 10 [] p = "fail" -> 4
      [] p = "err" -> 3 [] p = "recv" -> 1 [] OTHER -> 0

EnrichSteps(p) ==
    CASE p = "work" -> 9 [] p = "send" -> 8 [] p = "fail" -> 3
      [] p = "err" -> 2 [] p = "recv" -> 1 [] OTHER -> 0

\* An item takes a step into the channel and one out of it.
FetchLeft ==
    14 * (N + 1 - next) + 13 * Len(queue)
    + (IF ferr = None THEN 0 ELSE 2) + (IF fetch = Done THEN 0 ELSE 3)

DedupLeft == DedupSteps(dedup.at)
TransformLeft == TransformSteps(transform.at)
EnrichLeft == EnrichSteps(enrich.at)

ColLeft ==
    CollectorSteps(col["fetch"].at) + CollectorSteps(col["transform"].at)
    + CollectorSteps(col["enrich"].at)

StagesLeft == FetchLeft + DedupLeft + TransformLeft + EnrichLeft + ColLeft

LEMMA StepTables ==
    /\ \A p : /\ CollectorSteps(p) \in Nat /\ DedupSteps(p) \in Nat
             /\ TransformSteps(p) \in Nat /\ EnrichSteps(p) \in Nat
    /\ CollectorSteps("done") = 0 /\ CollectorSteps("recv") = 1
    /\ \A p \in ErrorKinds \cup {"ref"} : CollectorSteps(p) = 2
    /\ DedupSteps("check") = 13 /\ DedupSteps("send") = 12 /\ DedupSteps("skip") = 3
    /\ DedupSteps("unlock") = 2 /\ DedupSteps("recv") = 1 /\ DedupSteps("done") = 0
    /\ TransformSteps("count") = 11 /\ TransformSteps("send") = 10
    /\ TransformSteps("fail") = 4 /\ TransformSteps("err") = 3
    /\ TransformSteps("recv") = 1 /\ TransformSteps("done") = 0
    /\ EnrichSteps("work") = 9 /\ EnrichSteps("send") = 8 /\ EnrichSteps("fail") = 3
    /\ EnrichSteps("err") = 2 /\ EnrichSteps("recv") = 1 /\ EnrichSteps("done") = 0
BY DEF CollectorSteps, DedupSteps, TransformSteps, EnrichSteps

LEMMA StagesLeftTypes ==
    ASSUME PipelineTypeOK
    PROVE  /\ FetchLeft \in Nat /\ DedupLeft \in Nat /\ TransformLeft \in Nat
           /\ EnrichLeft \in Nat /\ ColLeft \in Nat
           /\ StagesLeft \in Nat
<1>1. FetchLeft \in Nat
    <2>1. N \in Nat /\ next \in 1..(N + 1) /\ Len(queue) \in Nat
        BY Parameters DEF PipelineTypeOK, FetchTypeOK
    <2>2. 14 * (N + 1 - next) \in Nat /\ 13 * Len(queue) \in Nat
        BY <2>1
    <2>. QED
        BY <2>2 DEF FetchLeft
<1>2. DedupLeft \in Nat /\ TransformLeft \in Nat /\ EnrichLeft \in Nat
    BY StepTables DEF DedupLeft, TransformLeft, EnrichLeft
<1>3. ColLeft \in Nat
    BY StepTables DEF ColLeft
<1>. QED
    BY <1>1, <1>2, <1>3 DEF StagesLeft

\* What leaves a part as it is leaves the steps it has left.
LEMMA LeftKept ==
    /\ UNCHANGED fetchVars => FetchLeft' = FetchLeft
    /\ UNCHANGED dedup => DedupLeft' = DedupLeft
    /\ UNCHANGED transform => TransformLeft' = TransformLeft
    /\ UNCHANGED enrich => EnrichLeft' = EnrichLeft
    /\ UNCHANGED col => ColLeft' = ColLeft
<1>1. UNCHANGED fetchVars => FetchLeft' = FetchLeft
    BY DEF FetchLeft, fetchVars
<1>2. /\ UNCHANGED dedup => DedupLeft' = DedupLeft
      /\ UNCHANGED transform => TransformLeft' = TransformLeft
      /\ UNCHANGED enrich => EnrichLeft' = EnrichLeft
    BY StepTables DEF DedupLeft, TransformLeft, EnrichLeft
<1>3. UNCHANGED col => ColLeft' = ColLeft
    BY DEF ColLeft
<1>. QED
    BY <1>1, <1>2, <1>3

\* What collectors have left, of what changes one of them.
LEMMA ColLeftStep ==
    ASSUME CollectorsTypeOK, NEW c \in Collectors, NEW e,
           col' = [col EXCEPT ![c] = e]
    PROVE  ColLeft' = ColLeft - CollectorSteps(col[c].at) + CollectorSteps(e.at)
<1>1. col \in [Collectors -> {Recv, Done} \cup Error]
    BY DEF CollectorsTypeOK
<1>2. \A p : CollectorSteps(p) \in Nat
    BY StepTables
<1>3. \A d \in Collectors : col'[d] = IF d = c THEN e ELSE col[d]
    BY <1>1
<1>4. ColLeft' = CollectorSteps(col'["fetch"].at) + CollectorSteps(col'["transform"].at)
                    + CollectorSteps(col'["enrich"].at)
    BY DEF ColLeft
<1>. QED
    BY <1>2, <1>3, <1>4 DEF ColLeft

LEMMA FetchLeftStep ==
    ASSUME PipelineTypeOK
    PROVE  /\ FetchEmit => FetchLeft' = FetchLeft - 1
           /\ FetchFail \/ FetchEnd => FetchLeft' \in Int /\ FetchLeft' < FetchLeft
           /\ CollectFetch => FetchLeft' = FetchLeft - 2
           /\ queue # <<>> /\ queue' = Tail(queue) /\ UNCHANGED <<next, ferr, fetch>>
                => FetchLeft' = FetchLeft - 13
<1>1. /\ N \in Nat /\ next \in Nat /\ queue \in Seq(Items) /\ Len(queue) \in Nat
      /\ ferr \in Nat
    BY Parameters DEF PipelineTypeOK, FetchTypeOK
<1> USE DEF FetchLeft
<1>2. FetchEmit => FetchLeft' = FetchLeft - 1
    <2>. SUFFICES ASSUME FetchEmit PROVE FetchLeft' = FetchLeft - 1
        OBVIOUS
    <2>1. Len(queue') = Len(queue) + 1 /\ next' = next + 1 /\ UNCHANGED <<ferr, fetch>>
        BY <1>1, ChannelTypes DEF FetchEmit
    <2>. QED
        BY <1>1, <2>1
<1>3. FetchFail => FetchLeft' \in Int /\ FetchLeft' < FetchLeft
    BY <1>1 DEF FetchFail
<1>4. FetchEnd => FetchLeft' \in Int /\ FetchLeft' < FetchLeft
    BY <1>1 DEF FetchEnd
<1>5. CollectFetch => FetchLeft' = FetchLeft - 2
    BY <1>1 DEF CollectFetch
<1>6. queue # <<>> /\ queue' = Tail(queue) /\ UNCHANGED <<next, ferr, fetch>>
        => FetchLeft' = FetchLeft - 13
    <2>. SUFFICES ASSUME queue # <<>>, queue' = Tail(queue), UNCHANGED <<next, ferr, fetch>>
                  PROVE FetchLeft' = FetchLeft - 13
        OBVIOUS
    <2>1. Len(queue') = Len(queue) - 1
        BY <1>1, ChannelTypes
    <2>. QED
        BY <1>1, <2>1
<1>. QED
    BY <1>2, <1>3, <1>4, <1>5, <1>6

\* Each step of the stages leaves fewer.
LEMMA StagesLeftStep ==
    ASSUME PipelineTypeOK
    PROVE  /\ PipelineNext => StagesLeft' \in Int /\ StagesLeft' < StagesLeft
           /\ \A i \in Items : SendEnriched(i) => StagesLeft' = StagesLeft - 7
           /\ UNCHANGED <<fetchVars, dedup, transform, enrich, col>>
                => StagesLeft' = StagesLeft
<1> DEFINE Fewer == StagesLeft' \in Int /\ StagesLeft' < StagesLeft
<1>0. /\ FetchLeft \in Nat /\ DedupLeft \in Nat /\ TransformLeft \in Nat
      /\ EnrichLeft \in Nat /\ ColLeft \in Nat
    BY StagesLeftTypes
<1>p. DedupLeft' \in Nat /\ TransformLeft' \in Nat /\ EnrichLeft' \in Nat
    BY StepTables DEF DedupLeft, TransformLeft, EnrichLeft
<1>t. /\ dedup \in {Recv, Done, At("off", None)}
                    \cup Holding({"check", "skip", "unlock", "send"})
      /\ transform \in {Recv, Done} \cup Holding({"count", "fail", "err", "send"})
      /\ enrich \in {Recv, Done} \cup Holding({"work", "fail", "err", "send"})
      /\ CollectorsTypeOK
    BY DEF PipelineTypeOK, DedupTypeOK, TransformTypeOK, EnrichTypeOK
<1> USE DEF StagesLeft
<1>1. FetchEmit \/ FetchFail \/ FetchEnd => Fewer
    <2>1. FetchEmit \/ FetchFail \/ FetchEnd => UNCHANGED <<dedup, transform, enrich, col>>
        BY DEF FetchEmit, FetchFail, FetchEnd
    <2>. QED
        BY <1>0, <2>1, FetchLeftStep, LeftKept
<1>2. DedupRecv => Fewer
    <2>1. DedupRecv => /\ UNCHANGED <<transform, enrich, col>>
                       /\ FetchLeft' = FetchLeft - 13
        BY FetchLeftStep DEF DedupRecv
    <2>2. DedupRecv => DedupLeft = 1 /\ DedupLeft' = 13
        BY StepTables DEF DedupRecv, DedupLeft
    <2>. QED
        BY <1>0, <2>1, <2>2, LeftKept
<1>3. DedupCheck \/ DedupCountTotal \/ DedupCountSkipped \/ DedupEnd
        => Fewer
    <2>1. DedupCheck \/ DedupCountTotal \/ DedupCountSkipped \/ DedupEnd
            => UNCHANGED <<fetchVars, transform, enrich, col>>
        BY DEF DedupCheck, DedupCountTotal, DedupCountSkipped, DedupEnd
    <2>2. DedupCheck \/ DedupCountTotal => DedupLeft' < DedupLeft
        BY StepTables DEF DedupCheck, DedupCountTotal, DedupLeft
    <2>3. DedupCountSkipped => DedupLeft' < DedupLeft
        BY StepTables DEF DedupCountSkipped, DedupLeft
    <2>4. DedupEnd => dedup.at \in {"recv", "send"} /\ dedup'.at = "done"
        BY DEF DedupEnd
    <2>5. DedupEnd => DedupLeft' < DedupLeft
        BY <2>4, StepTables DEF DedupLeft
    <2>. QED
        BY <1>0, <1>p, <2>1, <2>2, <2>3, <2>5, LeftKept
<1>4. TransformRecv => Fewer
    <2>. SUFFICES ASSUME TransformRecv PROVE Fewer
        OBVIOUS
    <2>1. /\ UNCHANGED <<next, ferr, fetch, enrich, col>>
          /\ TransformLeft = 1 /\ TransformLeft' = 11
        BY StepTables DEF TransformRecv, TransformLeft
    <2>2. CASE dedup.at = "send" /\ dedup' = Recv /\ UNCHANGED queue
        <3>1. DedupLeft = 12 /\ DedupLeft' = 1
            BY <2>2, StepTables DEF DedupLeft
        <3>2. FetchLeft' = FetchLeft
            BY <2>1, <2>2, LeftKept DEF fetchVars
        <3>. QED
            BY <1>0, <2>1, <3>1, <3>2, LeftKept
    <2>3. CASE queue # <<>> /\ queue' = Tail(queue) /\ UNCHANGED dedup
        <3>1. FetchLeft' = FetchLeft - 13
            BY <2>1, <2>3, FetchLeftStep
        <3>. QED
            BY <1>0, <2>1, <2>3, <3>1, LeftKept
    <2>. QED
        BY <2>2, <2>3 DEF TransformRecv
<1>5. TransformRecord \/ TransformFailed \/ TransformEnd => Fewer
    <2>1. TransformRecord \/ TransformFailed \/ TransformEnd
            => UNCHANGED <<fetchVars, dedup, enrich, col>>
        BY DEF TransformRecord, TransformFailed, TransformEnd
    <2>2. TransformRecord \/ TransformFailed => TransformLeft' < TransformLeft
        BY StepTables DEF TransformRecord, TransformFailed, TransformLeft
    <2>3. TransformEnd => transform.at \in {"recv", "err", "send"} /\ transform'.at = "done"
        BY DEF TransformEnd
    <2>4. TransformEnd => TransformLeft' < TransformLeft
        BY <2>3, StepTables DEF TransformLeft
    <2>. QED
        BY <1>0, <1>p, <2>1, <2>2, <2>4, LeftKept
<1>6. TransformReport => Fewer
    <2>. SUFFICES ASSUME TransformReport PROVE Fewer
        OBVIOUS
    <2>1. /\ UNCHANGED <<fetchVars, dedup, enrich>>
          /\ TransformLeft = 3 /\ TransformLeft' = 1
        BY StepTables DEF TransformReport, TransformLeft
    <2>2. CollectorSteps("recv") = 1 /\ CollectorSteps("transform") = 2
        BY StepTables
    <2>3. PICK e : e.at = "transform" /\ col' = [col EXCEPT !["transform"] = e]
        BY DEF TransformReport
    <2>4. ColLeft' = ColLeft - CollectorSteps(col["transform"].at) + CollectorSteps(e.at)
        BY <1>t, <2>3, ColLeftStep
    <2>5. ColLeft' = ColLeft + 1
        BY <1>0, <2>2, <2>3, <2>4 DEF TransformReport
    <2>. QED
        BY <1>0, <2>1, <2>5, LeftKept
<1>7. EnrichRecv => Fewer
    <2>1. EnrichRecv => UNCHANGED <<fetchVars, dedup, col>>
        BY DEF EnrichRecv
    <2>2. EnrichRecv => EnrichLeft = 1 /\ EnrichLeft' = 9
        BY StepTables DEF EnrichRecv, EnrichLeft
    <2>3. EnrichRecv => TransformLeft = 10 /\ TransformLeft' = 1
        BY StepTables DEF EnrichRecv, TransformLeft
    <2>. QED
        BY <1>0, <2>1, <2>2, <2>3, LeftKept
<1>8. EnrichRecord \/ EnrichFailed \/ EnrichEnd => Fewer
    <2>1. EnrichRecord \/ EnrichFailed \/ EnrichEnd
            => UNCHANGED <<fetchVars, dedup, transform, col>>
        BY DEF EnrichRecord, EnrichFailed, EnrichEnd
    <2>2. EnrichRecord \/ EnrichFailed \/ EnrichEnd => EnrichLeft' < EnrichLeft
        BY StepTables DEF EnrichRecord, EnrichFailed, EnrichEnd, EnrichLeft
    <2>. QED
        BY <1>0, <1>p, <2>1, <2>2, LeftKept
<1>9. EnrichReport => Fewer
    <2>. SUFFICES ASSUME EnrichReport PROVE Fewer
        OBVIOUS
    <2>1. /\ UNCHANGED <<fetchVars, dedup, transform>>
          /\ EnrichLeft = 2 /\ EnrichLeft' = 0
        BY StepTables DEF EnrichReport, EnrichLeft
    <2>2. CollectorSteps("recv") = 1 /\ CollectorSteps("enrich") = 2
        BY StepTables
    <2>3. PICK e : e.at = "enrich" /\ col' = [col EXCEPT !["enrich"] = e]
        BY DEF EnrichReport
    <2>4. ColLeft' = ColLeft - CollectorSteps(col["enrich"].at) + CollectorSteps(e.at)
        BY <1>t, <2>3, ColLeftStep
    <2>5. ColLeft' = ColLeft + 1
        BY <1>0, <2>2, <2>3, <2>4 DEF EnrichReport
    <2>. QED
        BY <1>0, <2>1, <2>5, LeftKept
<1>10. CollectFetch => Fewer
    <2>. SUFFICES ASSUME CollectFetch PROVE Fewer
        OBVIOUS
    <2>1. UNCHANGED <<dedup, transform, enrich>> /\ FetchLeft' = FetchLeft - 2
        BY FetchLeftStep DEF CollectFetch
    <2>2. CollectorSteps("recv") = 1 /\ CollectorSteps("fetch") = 2
        BY StepTables
    <2>3. PICK e : e.at = "fetch" /\ col' = [col EXCEPT !["fetch"] = e]
        BY DEF CollectFetch
    <2>4. ColLeft' = ColLeft - CollectorSteps(col["fetch"].at) + CollectorSteps(e.at)
        BY <1>t, <2>3, ColLeftStep
    <2>5. ColLeft' = ColLeft + 1
        BY <1>0, <2>2, <2>3, <2>4 DEF CollectFetch
    <2>. QED
        BY <1>0, <2>1, <2>5, LeftKept
<1>11. ASSUME NEW c \in Collectors, RecordError(c) \/ CollectorEnd(c)
       PROVE  Fewer
    <2>1. UNCHANGED <<fetchVars, dedup, transform, enrich>>
        BY <1>11 DEF RecordError, CollectorEnd
    <2>2. /\ CollectorSteps("recv") = 1 /\ CollectorSteps("done") = 0
          /\ \A e \in Error : CollectorSteps(e.at) = 2
        BY StepTables
    <2>3. CASE RecordError(c)
        <3>1. PICK e : e.at = "recv" /\ col' = [col EXCEPT ![c] = e]
            BY <2>3 DEF RecordError
        <3>2. ColLeft' = ColLeft - CollectorSteps(col[c].at) + CollectorSteps(e.at)
            BY <1>t, <3>1, ColLeftStep
        <3>3. ColLeft' = ColLeft - 1
            BY <1>0, <2>2, <2>3, <3>1, <3>2 DEF RecordError
        <3>. QED
            BY <1>0, <2>1, <3>3, LeftKept
    <2>4. CASE CollectorEnd(c)
        <3>1. PICK e : e.at = "done" /\ col' = [col EXCEPT ![c] = e]
            BY <2>4 DEF CollectorEnd
        <3>2. ColLeft' = ColLeft - CollectorSteps(col[c].at) + CollectorSteps(e.at)
            BY <1>t, <3>1, ColLeftStep
        <3>3. ColLeft' = ColLeft - 1
            BY <1>0, <2>2, <2>4, <3>1, <3>2 DEF CollectorEnd
        <3>. QED
            BY <1>0, <2>1, <3>3, LeftKept
    <2>. QED
        BY <1>11, <2>3, <2>4
<1>12. ASSUME NEW i \in Items, SendEnriched(i)
       PROVE  StagesLeft' = StagesLeft - 7
    <2>1. UNCHANGED <<fetchVars, dedup, transform, col>>
        BY <1>12 DEF SendEnriched
    <2>2. EnrichLeft = 8 /\ EnrichLeft' = 1
        BY <1>12, StepTables DEF SendEnriched, EnrichLeft
    <2>. QED
        BY <1>0, <2>1, <2>2, LeftKept
<1>13. UNCHANGED <<fetchVars, dedup, transform, enrich, col>> => StagesLeft' = StagesLeft
    BY LeftKept
<1> HIDE DEF StagesLeft
<1>14. PipelineNext => Fewer
    BY <1>1, <1>2, <1>3, <1>4, <1>5, <1>6, <1>7, <1>8, <1>9, <1>10, <1>11
       DEF PipelineNext
<1>. QED
    BY <1>12, <1>13, <1>14

\* Where the caller is.
MainSteps(p) == CASE p = "wait" -> 2 [] p = "read" -> 1 [] OTHER -> 0
MainLeft == MainSteps(main)

LEMMA MainLeftStep ==
    /\ MainLeft \in Nat /\ MainLeft' \in Nat
    /\ UNCHANGED mainVars => MainLeft' = MainLeft
    /\ main = "wait" /\ main' = "read" => MainLeft' < MainLeft
    /\ main = "read" /\ main' = "returned" => MainLeft' < MainLeft
BY DEF MainLeft, MainSteps, mainVars

PushSteps(p) ==
    CASE p = "push" -> 7 [] p = "sign" -> 6 [] p = "signerr" -> 5
      [] p = "err" -> 3 [] p = "ref" -> 3 [] p = "recv" -> 1 [] OTHER -> 0

PushLeft == PushSteps(push.at)
PushColLeft == CollectorSteps(refCol.at) + CollectorSteps(pushCol.at)

\* Those of Run.
Left == StagesLeft + PushLeft + PushColLeft + MainLeft

LEMMA PushTable ==
    /\ \A p : PushSteps(p) \in Nat
    /\ PushSteps("push") = 7 /\ PushSteps("sign") = 6 /\ PushSteps("signerr") = 5
    /\ PushSteps("err") = 3 /\ PushSteps("ref") = 3
    /\ PushSteps("recv") = 1 /\ PushSteps("done") = 0
BY DEF PushSteps

LEMMA LeftStep ==
    ASSUME TypeOK, [Next]_vars
    PROVE  /\ Left \in Nat
           /\ IF Progress THEN Left' < Left ELSE Left' = Left
<1>0. /\ StagesLeft \in Nat /\ PushLeft \in Nat /\ PushColLeft \in Nat
      /\ PushLeft' \in Nat /\ PushColLeft' \in Nat
    BY StagesLeftTypes, PushTable, StepTables DEF TypeOK, PushLeft, PushColLeft
<1>k. /\ UNCHANGED push => PushLeft' = PushLeft
      /\ UNCHANGED <<refCol, pushCol>> => PushColLeft' = PushColLeft
      /\ UNCHANGED <<fetchVars, dedup, transform, enrich, col>>
            => StagesLeft' = StagesLeft
    BY StagesLeftStep DEF TypeOK, PushLeft, PushColLeft
<1>1. Left \in Nat
    BY <1>0, MainLeftStep DEF Left
<1>2. PipelineNext /\ UNCHANGED <<sinkVars, mainVars>> => Left' < Left
    <2>1. PipelineNext => StagesLeft' \in Int /\ StagesLeft' < StagesLeft
        BY StagesLeftStep DEF TypeOK
    <2>. QED
        BY <1>0, <1>k, <2>1, MainLeftStep DEF Left, sinkVars
<1>3. PushRecv => Left' < Left
    <2>. SUFFICES ASSUME PushRecv PROVE Left' < Left
        OBVIOUS
    <2>1. PICK i \in Items : SendEnriched(i) /\ push' = At("push", i)
        BY DEF PushRecv
    <2>2. StagesLeft' = StagesLeft - 7
        BY <2>1, StagesLeftStep DEF TypeOK
    <2>3. PushLeft = 1 /\ PushLeft' = 7 /\ UNCHANGED <<refCol, pushCol, mainVars>>
        BY <2>1, PushTable DEF PushRecv, PushLeft
    <2>. QED
        BY <1>0, <1>k, <2>2, <2>3, MainLeftStep DEF Left
<1>4. PushRecord \/ SignRecord \/ PushCancelled \/ PushEnd => Left' < Left
    <2>1. PushRecord \/ SignRecord \/ PushCancelled \/ PushEnd
            => UNCHANGED <<fetchVars, dedup, transform, enrich, col, refCol, pushCol,
                           mainVars>>
        BY DEF PushRecord, SignRecord, PushCancelled, PushEnd, pipeVars
    <2>2. PushRecord => push.at = "push" /\ push'.at \in {"sign", "ref", "err"}
        BY DEF PushRecord
    <2>3. SignRecord => push.at = "sign" /\ push'.at \in {"ref", "signerr"}
        BY DEF SignRecord
    <2>4. PushCancelled \/ PushEnd
            => \/ push.at = "err" /\ push'.at = "recv"
               \/ push.at \in {"recv", "signerr", "ref"} /\ push'.at = "done"
        BY DEF PushCancelled, PushEnd
    <2>5. PushRecord \/ SignRecord \/ PushCancelled \/ PushEnd => PushLeft' < PushLeft
        BY <2>2, <2>3, <2>4, PushTable DEF PushLeft
    <2>. QED
        BY <1>0, <1>k, <2>1, <2>5, MainLeftStep DEF Left
<1>5. PushReport \/ PushRef => Left' < Left
    <2>1. PushReport \/ PushRef
            => UNCHANGED <<fetchVars, dedup, transform, enrich, col, mainVars>>
        BY DEF PushReport, PushRef, pipeVars
    <2>2. PushReport => /\ \/ push.at = "err" /\ push'.at = "recv"
                           \/ push.at = "signerr" /\ push'.at = "ref"
                        /\ pushCol.at = "recv" /\ pushCol'.at \in ErrorKinds
                        /\ UNCHANGED refCol
        BY DEF PushReport
    <2>3. PushRef => /\ push.at = "ref" /\ push'.at = "recv"
                     /\ refCol.at = "recv" /\ refCol'.at = "ref"
                     /\ UNCHANGED pushCol
        BY DEF PushRef
    <2>4. PushReport \/ PushRef => PushLeft' \in {PushLeft - 2}
        BY <2>2, <2>3, PushTable DEF PushLeft
    <2>5. PushReport \/ PushRef => PushColLeft' = PushColLeft + 1
        BY <2>2, <2>3, StepTables DEF PushColLeft
    <2>. QED
        BY <1>0, <1>k, <2>1, <2>4, <2>5, MainLeftStep DEF Left
<1>6. CountImported \/ CountPushError \/ PushCollectorEnd => Left' < Left
    <2>1. CountImported \/ CountPushError \/ PushCollectorEnd
            => UNCHANGED <<fetchVars, dedup, transform, enrich, col, push, mainVars>>
        BY DEF CountImported, CountPushError, PushCollectorEnd, pipeVars
    <2>2. CountImported => /\ refCol.at = "ref" /\ refCol'.at = "recv"
                           /\ UNCHANGED pushCol
        BY DEF CountImported
    <2>3. CountPushError => /\ pushCol.at \in ErrorKinds /\ pushCol'.at = "recv"
                            /\ UNCHANGED refCol
        BY DEF CountPushError
    <2>4. PushCollectorEnd
            => \/ refCol.at = "recv" /\ refCol'.at = "done" /\ UNCHANGED pushCol
               \/ pushCol.at = "recv" /\ pushCol'.at = "done" /\ UNCHANGED refCol
        BY DEF PushCollectorEnd
    <2>5. CountImported \/ CountPushError \/ PushCollectorEnd
            => PushColLeft' = PushColLeft - 1
        BY <2>2, <2>3, <2>4, StepTables DEF PushColLeft
    <2>. QED
        BY <1>0, <1>k, <2>1, <2>5, MainLeftStep DEF Left
<1>7. ReadTotal \/ Return => Left' < Left
    <2>1. ReadTotal \/ Return
            => /\ UNCHANGED <<fetchVars, dedup, transform, enrich, col, push, refCol,
                              pushCol>>
               /\ \/ main = "wait" /\ main' = "read"
                  \/ main = "read" /\ main' = "returned"
        BY DEF ReadTotal, Return, pipeVars, sinkVars
    <2>. QED
        BY <1>0, <1>k, <2>1, MainLeftStep DEF Left
<1>8. (Cancel /\ UNCHANGED <<sinkVars, mainVars>>) \/ UNCHANGED vars => Left' = Left
    <2>1. (Cancel /\ UNCHANGED <<sinkVars, mainVars>>) \/ UNCHANGED vars
            => UNCHANGED <<fetchVars, dedup, transform, enrich, col, push, refCol,
                           pushCol, mainVars>>
        BY DEF Cancel, vars, pipeVars, sinkVars
    <2>. QED
        BY <1>k, <2>1, MainLeftStep DEF Left
<1>9. Progress => Left' < Left
    BY <1>2, <1>3, <1>4, <1>5, <1>6, <1>7 DEF Progress
<1>10. ~Progress => Left' = Left
    BY <1>8 DEF Next, Terminated
<1>. QED
    BY <1>1, <1>9, <1>10

\* No import goes on for ever: each step of Run, of its goroutines or of the
\* stages leaves fewer, and nothing adds any, not even a cancellation.
THEOREM StepsRunOut ==
    Spec => /\ [](Left \in Nat)
            /\ [][IF Progress THEN Left' < Left ELSE Left' = Left]_vars
<1>1. TypeOK => Left \in Nat
    BY StagesLeftTypes, PushTable, StepTables, MainLeftStep
       DEF TypeOK, Left, PushLeft, PushColLeft
<1>2. TypeOK /\ [Next]_vars => [IF Progress THEN Left' < Left ELSE Left' = Left]_vars
    BY LeftStep
<1>. QED
    BY <1>1, <1>2, TypeCorrect, PTL DEF Spec

----------------------------------------------------------------------------
(* Nothing waits for ever.                                                 *)

\* The guards of the stages' steps.
StagesCanStep ==
    \/ fetch.at = "run" /\ (next > N \/ Len(queue) < FetchBuf \/ cancelled)
    \/ dedup.at \in {"check", "skip", "unlock"}
    \/ dedup.at = "recv" /\ (queue # <<>> \/ fetch = Done \/ cancelled)
    \/ dedup.at = "send" /\ (transform.at = "recv" \/ cancelled)
    \/ /\ transform.at = "recv"
       /\ \/ dedup = Done \/ cancelled
          \/ dedup.at = "off" /\ (queue # <<>> \/ fetch = Done)
    \/ transform.at \in {"count", "fail"} /\ MuFree
    \/ transform.at = "err" /\ (col["transform"] = Recv \/ cancelled)
    \/ transform.at = "send" /\ (enrich.at = "recv" \/ cancelled)
    \/ enrich.at = "recv" /\ (transform = Done \/ cancelled)
    \/ enrich.at = "work"
    \/ enrich.at = "fail" /\ MuFree
    \/ enrich.at = "err" /\ col["enrich"] = Recv
    \/ enrich.at = "send" /\ cancelled
    \/ col["fetch"] = Recv /\ (ferr # None \/ fetch = Done)
    \/ col["transform"] = Recv /\ transform = Done
    \/ col["enrich"] = Recv /\ enrich = Done
    \/ \E c \in Collectors : col[c] \in Error /\ MuFree

\* The enricher ended at an error, and a record waits for it to receive.
EnricherLeft ==
    ~cancelled /\ "enrich" \in Faults /\ enrich = Done /\ transform.at = "send"

\* An enricher that meets no error ends after its input.
EnrichEndsLast ==
    ~cancelled /\ "enrich" \notin Faults =>
        enrich.at \notin {"fail", "err"} /\ (enrich = Done => transform = Done)

LEMMA EnrichEndsLastStep ==
    ASSUME EnrichEndsLast, StageStep \/ SinkStep
    PROVE  EnrichEndsLast'
<1> USE DEF EnrichEndsLast, MuFree, cfgVars, fetchVars, resultVars
<1>1. CASE FetchEmit \/ FetchFail \/ FetchEnd
    BY <1>1 DEF FetchEmit, FetchFail, FetchEnd
<1>2. CASE DedupRecv \/ DedupCheck \/ DedupCountTotal \/ DedupCountSkipped \/ DedupEnd
    BY <1>2 DEF DedupRecv, DedupCheck, DedupCountTotal, DedupCountSkipped, DedupEnd
<1>3. CASE TransformRecv \/ TransformRecord \/ TransformFailed \/ TransformReport \/ TransformEnd
    BY <1>3 DEF TransformRecv, TransformRecord, TransformFailed, TransformReport, TransformEnd
<1>4. CASE EnrichRecv \/ EnrichRecord \/ EnrichFailed \/ EnrichReport \/ EnrichEnd
    BY <1>4 DEF EnrichRecv, EnrichRecord, EnrichFailed, EnrichReport, EnrichEnd
<1>5. CASE CollectFetch \/ \E c \in Collectors : RecordError(c) \/ CollectorEnd(c)
    BY <1>5 DEF CollectFetch, RecordError, CollectorEnd
<1>6. CASE Cancel \/ \E i \in Items : SendEnriched(i)
    BY <1>6 DEF Cancel, SendEnriched
<1>7. CASE SinkStep
    BY <1>7 DEF SinkStep
<1>. QED
    BY <1>1, <1>2, <1>3, <1>4, <1>5, <1>6, <1>7 DEF StageStep, PipelineNext

\* Stages that cannot step, although what they send is received, have ended,
\* or the enricher has left them.
LEMMA StagesStuck ==
    ASSUME PipelineTypeOK, StagesEnded, EndedInOrder, EnrichEndsLast,
           ~StagesCanStep, enrich.at # "send", ~EnricherLeft
    PROVE  /\ fetch = Done /\ dedup.at \in {"off", "done"}
           /\ transform = Done /\ enrich = Done
           /\ \A c \in Collectors : col[c] = Done
           /\ MuFree
<1>1. dedup.at \in {"recv", "send", "off", "done"} /\ MuFree
    BY DEF StagesCanStep, MuFree, PipelineTypeOK, DedupTypeOK
<1>2. \A c \in Collectors : col[c] \in {Recv, Done}
    BY <1>1 DEF StagesCanStep, PipelineTypeOK, CollectorsTypeOK
<1>3. transform \in {Recv, Done} \/ transform.at = "send"
    <2>1. transform.at \notin {"count", "fail"}
        BY <1>1 DEF StagesCanStep
    <2>2. transform.at # "err"
        BY <1>2 DEF StagesCanStep, StagesEnded
    <2>. QED
        BY <2>1, <2>2 DEF PipelineTypeOK, TransformTypeOK
<1>4. enrich \in {Recv, Done}
    <2>1. enrich.at \notin {"work", "fail"}
        BY <1>1 DEF StagesCanStep
    <2>2. enrich.at # "err"
        BY <1>2 DEF StagesCanStep, StagesEnded
    <2>. QED
        BY <2>1, <2>2 DEF PipelineTypeOK, EnrichTypeOK
<1>5. transform \in {Recv, Done}
    <2>. SUFFICES ASSUME transform.at = "send" PROVE FALSE
        BY <1>3
    <2>1. ~cancelled /\ enrich = Done
        BY <1>4 DEF StagesCanStep
    <2>2. "enrich" \notin Faults
        BY <2>1 DEF EnricherLeft
    <2>. QED
        BY <2>1, <2>2 DEF EnrichEndsLast
<1>6. queue = <<>> => Len(queue) < FetchBuf
    BY Parameters
<1>7. fetch \in {At("run", None), Done}
    BY DEF PipelineTypeOK, FetchTypeOK
<1>8. transform = Done
    <2>. SUFFICES ASSUME transform = Recv PROVE FALSE
        BY <1>5
    <2>1. ~cancelled /\ dedup # Done
        BY DEF StagesCanStep
    <2>2. dedup.at \in {"recv", "off"}
        BY <1>1, <2>1 DEF StagesCanStep, PipelineTypeOK, DedupTypeOK
    <2>3. queue = <<>> /\ fetch # Done
        BY <2>2 DEF StagesCanStep
    <2>. QED
        BY <1>6, <1>7, <2>3 DEF StagesCanStep
<1>9. enrich = Done
    BY <1>4, <1>8 DEF StagesCanStep
<1>10. fetch = Done /\ dedup.at \in {"off", "done"}
    BY <1>1, <1>7, <1>8 DEF StagesCanStep, EndedInOrder
<1>11. \A c \in Collectors : col[c] = Done
    BY <1>2, <1>8, <1>9, <1>10 DEF StagesCanStep
<1>. QED
    BY <1>1, <1>8, <1>9, <1>10, <1>11

\* The guards of the steps of Run.
CanStep ==
    \/ StagesCanStep
    \/ push = Recv /\ (enrich.at = "send" \/ enrich = Done)
    \/ push.at \in {"push", "sign"}
    \/ push.at \in {"err", "signerr"} /\ (pushCol = Recv \/ cancelled)
    \/ push.at = "ref" /\ (refCol = Recv \/ cancelled)
    \/ refCol.at = "ref" /\ MuFree
    \/ pushCol \in Error /\ MuFree
    \/ push = Done /\ (refCol = Recv \/ pushCol = Recv)
    \/ main = "wait" /\ CollectorsDone
    \/ main = "read"

\* Run has returned, and its goroutines have ended.
AllEnded == main = "returned" /\ dedup.at \in {"off", "done"} /\ fetch = Done

\* Some step can be taken, or all is done, or the enricher has left.
NeverStuck == CanStep \/ AllEnded \/ EnricherLeft

\* The pusher, too, ends after its input unless cancelled.
PushEndsLast == ~cancelled /\ push = Done => enrich = Done

LEMMA PushEndsLastStep ==
    ASSUME PushEndsLast, [Next]_vars
    PROVE  PushEndsLast'
<1>1. enrich = Done => enrich' = Done
    BY Steps, EnrichStaysDone
<1>2. cancelled => cancelled'
    <2>1. Cancel => cancelled'
        BY DEF Cancel
    <2>2. SinkStep => cancelled' = cancelled
        BY DEF SinkStep, cfgVars
    <2>. QED
        BY <2>1, <2>2, Steps, StagesOnlyAdd, Zenon
<1>3. push' = Done => push = Done \/ enrich = Done \/ cancelled
    <2>. SUFFICES ASSUME push' = Done, push # Done PROVE enrich = Done \/ cancelled
        OBVIOUS
    <2>1. CASE PushRecv \/ PushRecord \/ SignRecord \/ PushReport \/ PushRef
        BY <2>1 DEF PushRecv, PushRecord, SignRecord, PushReport, PushRef
    <2>2. CASE PushEnd
        BY <2>2 DEF PushEnd
    <2>3. CASE PushCancelled
        BY <2>3, Zenon DEF PushCancelled
    <2>4. CASE UNCHANGED push
        BY <2>4
    <2>. QED
        BY <2>1, <2>2, <2>3, <2>4
           DEF Next, Progress, Terminated, vars, sinkVars, CountImported,
               CountPushError, PushCollectorEnd, ReadTotal, Return
<1>. QED
    BY <1>1, <1>2, <1>3, Zenon DEF PushEndsLast

\* An import that can take no step has ended, or waits for the enricher.
LEMMA NotStuck ==
    ASSUME Inv, EnrichEndsLast, PushEndsLast
    PROVE  NeverStuck
<1>. SUFFICES ASSUME ~CanStep, ~EnricherLeft PROVE AllEnded
    BY DEF NeverStuck
<1>1. /\ PipelineTypeOK /\ PushTypeOK /\ SinkCollectorsTypeOK
      /\ main \in {"wait", "read", "returned"}
      /\ StagesEnded /\ EndedInOrder /\ Ended
    BY DEF Inv, TypeOK, Ended, CallerTypeOK
<1>2. ~StagesCanStep
    BY DEF CanStep
<1>3. MuFree
    BY <1>1, <1>2 DEF StagesCanStep, MuFree
<1>4. refCol \in {Recv, Done} /\ pushCol \in {Recv, Done}
    BY <1>1, <1>3 DEF CanStep, SinkCollectorsTypeOK
<1>5. push \in {Recv, Done}
    <2>1. push.at \notin {"push", "sign"}
        BY DEF CanStep
    <2>2. push.at \notin {"err", "signerr", "ref"}
        BY <1>1, <1>4 DEF CanStep, Ended
    <2>. QED
        BY <1>1, <2>1, <2>2 DEF PushTypeOK
<1>6. enrich.at # "send"
    BY <1>2, <1>5 DEF CanStep, StagesCanStep, PushEndsLast
<1>7. /\ fetch = Done /\ dedup.at \in {"off", "done"} /\ enrich = Done
      /\ \A c \in Collectors : col[c] = Done
    BY <1>1, <1>2, <1>6, StagesStuck
<1>8. push = Done
    BY <1>5, <1>7 DEF CanStep
<1>9. CollectorsDone
    BY <1>4, <1>7, <1>8 DEF CanStep, CollectorsDone
<1>. QED
    BY <1>1, <1>7, <1>9 DEF CanStep, AllEnded

\* Run never waits for ever, but for an enricher that left its input at an
\* error: in every other state in which nothing can step, Run has returned and
\* its goroutines have ended, cancelled or not.
THEOREM OnlyTheEnricherHangs == Spec => []NeverStuck
<1>1. Init => EnrichEndsLast /\ PushEndsLast
    BY DEF Init, PipelineInit, EnrichEndsLast, PushEndsLast
<1>2. /\ EnrichEndsLast /\ [Next]_vars => EnrichEndsLast'
      /\ PushEndsLast /\ [Next]_vars => PushEndsLast'
    BY Steps, EnrichEndsLastStep, PushEndsLastStep
<1>3. Inv /\ EnrichEndsLast /\ PushEndsLast => NeverStuck
    BY NotStuck
<1>. QED
    BY <1>1, <1>2, <1>3, InvHolds, PTL DEF Spec

----------------------------------------------------------------------------
(* The same of DryRun.                                                     *)

WriterSteps(p) ==
    CASE p = "run" -> 2 [] p = "write" -> 2 [] p = "recv" -> 1 [] p = "drain" -> 1
      [] OTHER -> 0

WriterLeft == WriterSteps(writer.at)
DryLeft == StagesLeft + WriterLeft + MainLeft

LEMMA WriterTable ==
    /\ \A p : WriterSteps(p) \in Nat
    /\ WriterSteps("run") = 2 /\ WriterSteps("write") = 2
    /\ WriterSteps("recv") = 1 /\ WriterSteps("drain") = 1 /\ WriterSteps("done") = 0
BY DEF WriterSteps

LEMMA DryLeftStep ==
    ASSUME DryTypeOK, [DryNext]_dryVars
    PROVE  IF DryProgress THEN DryLeft' < DryLeft ELSE DryLeft' = DryLeft
<1>0. StagesLeft \in Nat /\ WriterLeft \in Nat /\ WriterLeft' \in Nat
    BY StagesLeftTypes, WriterTable DEF DryTypeOK, WriterLeft
<1>k. /\ UNCHANGED writer => WriterLeft' = WriterLeft
      /\ UNCHANGED <<fetchVars, dedup, transform, enrich, col>>
            => StagesLeft' = StagesLeft
    BY StagesLeftStep DEF DryTypeOK, WriterLeft
<1>1. PipelineNext /\ UNCHANGED <<writer, writeErrs, files, mainVars>> => DryLeft' < DryLeft
    <2>1. PipelineNext => StagesLeft' \in Int /\ StagesLeft' < StagesLeft
        BY StagesLeftStep DEF DryTypeOK
    <2>. QED
        BY <1>0, <1>k, <2>1, MainLeftStep DEF DryLeft
<1>2. WriteRecv \/ Drain => DryLeft' < DryLeft
    <2>1. WriteRecv \/ Drain => StagesLeft' = StagesLeft - 7 /\ UNCHANGED mainVars
        BY StagesLeftStep DEF DryTypeOK, WriteRecv, Drain
    <2>2. WriteRecv => writer.at = "recv" /\ writer'.at = "write"
        BY DEF WriteRecv
    <2>3. WriteRecv => WriterLeft' = WriterLeft + 1
        BY <2>2, WriterTable DEF WriterLeft
    <2>4. Drain => UNCHANGED writer
        BY DEF Drain
    <2>. QED
        BY <1>0, <1>k, <2>1, <2>3, <2>4, MainLeftStep DEF DryLeft
<1>3. MakeOutputDir \/ WriteRecord \/ WriterEnd => DryLeft' < DryLeft
    <2>1. MakeOutputDir \/ WriteRecord \/ WriterEnd
            => UNCHANGED <<fetchVars, dedup, transform, enrich, col, mainVars>>
        BY DEF MakeOutputDir, WriteRecord, WriterEnd, pipeVars
    <2>2. MakeOutputDir \/ WriteRecord \/ WriterEnd
            => \/ writer.at \in {"run", "write"} /\ writer'.at \in {"recv", "drain"}
               \/ writer.at \in {"recv", "drain"} /\ writer'.at = "done"
        BY DEF MakeOutputDir, WriteRecord, WriterEnd
    <2>3. MakeOutputDir \/ WriteRecord \/ WriterEnd => WriterLeft' < WriterLeft
        BY <2>2, WriterTable DEF WriterLeft
    <2>. QED
        BY <1>0, <1>k, <2>1, <2>3, MainLeftStep DEF DryLeft
<1>4. DryReadTotal \/ DryReturn => DryLeft' < DryLeft
    <2>1. DryReadTotal \/ DryReturn
            => /\ UNCHANGED <<fetchVars, dedup, transform, enrich, col, writer>>
               /\ \/ main = "wait" /\ main' = "read"
                  \/ main = "read" /\ main' = "returned"
        BY DEF DryReadTotal, DryReturn, pipeVars
    <2>. QED
        BY <1>0, <1>k, <2>1, MainLeftStep DEF DryLeft
<1>5. (Cancel /\ UNCHANGED <<writer, writeErrs, files, mainVars>>) \/ UNCHANGED dryVars
        => DryLeft' = DryLeft
    <2>1. (Cancel /\ UNCHANGED <<writer, writeErrs, files, mainVars>>) \/ UNCHANGED dryVars
            => UNCHANGED <<fetchVars, dedup, transform, enrich, col, writer, mainVars>>
        BY DEF Cancel, dryVars, pipeVars
    <2>. QED
        BY <1>k, <2>1, MainLeftStep DEF DryLeft
<1>6. DryProgress => DryLeft' < DryLeft
    BY <1>1, <1>2, <1>3, <1>4 DEF DryProgress
<1>7. ~DryProgress => DryLeft' = DryLeft
    BY <1>5 DEF DryNext, DryTerminated
<1>. QED
    BY <1>6, <1>7

\* No dry run goes on for ever.
THEOREM DryStepsRunOut ==
    DrySpec => /\ [](DryLeft \in Nat)
               /\ [][IF DryProgress THEN DryLeft' < DryLeft ELSE DryLeft' = DryLeft]_dryVars
<1>1. DryTypeOK => DryLeft \in Nat
    BY StagesLeftTypes, WriterTable, MainLeftStep DEF DryTypeOK, DryLeft, WriterLeft
<1>2. DryTypeOK /\ [DryNext]_dryVars
        => [IF DryProgress THEN DryLeft' < DryLeft ELSE DryLeft' = DryLeft]_dryVars
    BY DryLeftStep
<1>. QED
    BY <1>1, <1>2, DryTypeCorrect, PTL DEF DrySpec

\* The guards of the steps of DryRun.
DryCanStep ==
    \/ StagesCanStep
    \/ writer.at \in {"run", "write"}
    \/ writer.at \in {"recv", "drain"} /\ enrich.at = "send"
    \/ writer.at \in {"recv", "drain"} /\ enrich = Done /\ MuFree
    \/ main = "wait" /\ writer = Done /\ \A c \in Collectors : col[c] = Done
    \/ main = "read"

DryNeverStuck == DryCanStep \/ AllEnded \/ EnricherLeft

LEMMA DryNotStuck ==
    ASSUME DryInv, EnrichEndsLast
    PROVE  DryNeverStuck
<1>. SUFFICES ASSUME ~DryCanStep, ~EnricherLeft PROVE AllEnded
    BY DEF DryNeverStuck
<1>1. /\ PipelineTypeOK /\ main \in {"wait", "read", "returned"}
      /\ StagesEnded /\ EndedInOrder
    BY DEF DryInv, DryTypeOK, DryEnded
<1>2. ~StagesCanStep /\ writer.at \in {"recv", "drain", "done"}
    BY DEF DryCanStep, DryInv, DryTypeOK
<1>3. enrich.at # "send"
    BY <1>2 DEF DryCanStep, DryInv, DryTypeOK, DryEnded
<1>4. /\ fetch = Done /\ dedup.at \in {"off", "done"} /\ enrich = Done
      /\ \A c \in Collectors : col[c] = Done
      /\ MuFree
    BY <1>1, <1>2, <1>3, StagesStuck
<1>5. writer = Done
    BY <1>2, <1>4 DEF DryCanStep, DryInv, DryTypeOK
<1>. QED
    BY <1>1, <1>4, <1>5 DEF DryCanStep, AllEnded

\* DryRun, too, waits for ever only for the enricher: not for a directory that
\* could not be made.
THEOREM OnlyTheEnricherHangsDry == DrySpec => []DryNeverStuck
<1>1. DryInit => EnrichEndsLast
    BY DEF DryInit, PipelineInit, EnrichEndsLast
<1>2. EnrichEndsLast /\ [DryNext]_dryVars => EnrichEndsLast'
    BY DrySteps, EnrichEndsLastStep
<1>3. DryInv /\ EnrichEndsLast => DryNeverStuck
    BY DryNotStuck
<1>. QED
    BY <1>1, <1>2, <1>3, DryInvHolds, PTL DEF DrySpec
=============================================================================
