# TLA+ models of dir-importer

dir-importer reads agent descriptions from a source (an MCP registry, files,
skill directories, DNS), turns each into an OASF record, enriches it and pushes
it to an AGNTCY directory. The work is done by goroutines connected by
channels; the modules here describe those goroutines, TLC checks them on small
instances, and TLAPS proves the central results about `Importer.Run`, `DryRun`,
`New`, repeated imports and the fetchers for instances of any size.

- [Parts of the system](#parts-of-the-system)
- [Modules and how they correspond to the code](#modules-and-how-they-correspond-to-the-code)
- [Runs, bounds and fairness](#runs-bounds-and-fairness)
- [Proofs](#proofs)
- [Where code and words differ](#where-code-and-words-differ)
- [Not modelled](#not-modelled), [Plan](#plan), [Running](#running)

## Parts of the system

| Component | State | Operations | What is hard | What makes it correct |
|---|---|---|---|---|
| Importer.Run (`importer.go`) | a `Result` (counts, CIDs, errors) under a mutex; a wait group of five collectors | start the stages, collect references and errors, return the report | the report is complete only if every channel was emptied; cancellation at any moment; goroutines it does not wait for | no unit lost without an error; the counts add up; it returns; quiet afterwards |
| Importer.DryRun (`importer.go`) | the same `Result`; files in a directory | the same stages, then write instead of push | the writer must drain when it cannot write | the preview is what a run would import |
| Pusher (`pusher/pusher.go`) | one goroutine | push, sign, send the reference or the error | a lost answer; signing fails after the push succeeded | each record ends in a reference or an error |
| Duplicate checker (`dedup/`) | one goroutine; nothing cached | search candidates, drain the stream, pull, compare hashes | the directory changes between the three calls; `select` among ready channels; what is compared is not what is stored (time stamp, debug source, enrichment) | never a false duplicate; known content is found, import after import |
| Transformer (`transformer/`) | one goroutine | count, convert, send | three sends, each with or without the context | each failure counted and reported |
| Enrichers (`enricher/`) | one goroutine; the LLM one a request limiter and two prompts | static lists, extractor call, or two prompts | ends at the first error without draining | a record is enriched in full or not at all |
| Tool host (`enricher/toolhost/`) | a child process; the conversation of a prompt | start, list tools, make the model's client; completion, tool calls, until a text answer or maxSteps | each step of the start may fail after the process runs; a model that always calls tools; tools that fail | no process left behind by a refused start; ends; each call answered before the next request |
| Registry fetcher (`fetcher/fetcher.go`) | the URL with the query of the last request | pages by cursor, limit | limit inside or between pages; state that outlives a call | a prefix of the registry, complete unless limited or an error |
| File fetchers (`fetcher/*_file.go`) | one goroutine, two bounded channels | open, decode, send | bad elements among good; two channels read by two goroutines | each element sent or reported; in order; ends |
| Agent skill fetcher and skill package (`fetcher/agent_skill_dir.go`, `skill/`) | one goroutine, two bounded channels; nothing is locked in the file tree | discover, decide SKILL.md or bundle, read, archive, send | a skill is read four times, twice by a walk of all that lies below it; skills below skills; symbolic links; directories that cannot be listed; limits at the boundary | the topmost skills, each one an item or an error; what was read is what is there; archives within the limits |
| DNS fetcher (`fetcher/a2a_dns.go`) | a goroutine per domain, a semaphore, a wait group | SVCB, TXT, card | starting and ending at the same time; six ways to end; several records per domain | lookups bounded; channels closed last; no domain lost; the record that takes precedence decides |
| Importer.New and factory (`importer.go`, `factory/`) | a table of constructors filled before the program starts | look up, build fetcher and enricher | one of several steps fails | what was built works; nothing is left running by what was not |
| Configuration (`config/`, `enricher/config/`, `enricher/toolhost/config.go`) | defaults written on validation; template files | validate, read templates | callers may skip it; files change between validation and use | what is valid can be built |
| Source items, shared helpers (`types/source_item.go`, `shared/`) | none | constructors, names for messages, strip the debug source | nothing | unit tests |
| Logging | none | output | nothing | - |

The stages are connected in a line:

    fetch -> dedup -> transform -> enrich -> push (Run) or write (DryRun)

`dedup` is absent with `--force`. Fetcher outputs are buffered, the other
channels are not. Each stage but dedup has an error channel which a collector
goroutine of the importer drains into `Result.Errors`. Dedup and transform
write counters of the `Result` directly. A stage closes its channels when it
ends, which ends the next stage and its collector. `Run` waits for the
collectors of fetch, transform, enrich and push (two channels), then copies the
`Result`; the stages but dedup have ended by then,
because a collector ends only when its channel is closed; nothing waits for dedup.

## Modules and how they correspond to the code

`PROJECT.json` maps every definition to its lines.

**Pipeline** is what Run and DryRun share. A goroutine is a record
`[at, item]`: its place in its loop and the item it holds. An unbuffered channel
is a joint step of sender and receiver; the fetcher's output is the bounded
sequence `queue`; the buffered slot of the fetcher's error channel is `ferr`. A
deferred close is part of the step that ends the goroutine. A critical section
of the result's mutex is one step, except dedup's, which increments two counters
and is two, because Run reads them without the lock. Items are numbers in source
order with a content each, and the directory is the set of the contents it holds:
that two items of equal content may both be stored, under the CIDs their time
stamps give them, is the business of `Reimport`. The three enrichers share their
loop, so one set of actions models all of them; a
fetcher is reduced to what the pipeline sees of it (an item, an error and on, an
error and the end), and so is a lookup (`DedupCheck`). The detailed behaviours are
the modules below.

**RunImport** adds the pusher goroutine, the collectors of its two channels, and
the caller. `Faults` names the operations that may fail. **DryRunImport** adds
the writer and its caller; its names begin with `Dry` where `RunImport` has a
counterpart, because one module proves about both.

**ImportContract** is the abstract specification of both: units are delivered or
explained, the call returns only when each is one or the other unless the caller
aborted, and after that nothing more is delivered or explained. `RunImport` and
`DryRunImport` instantiate it with the refinement mapping *delivered = units
whose content is in the directory (or the files)*, *explained = units with an
error in the report, or behind the one at which the fetcher gave up with an error*,
*aborted = the context is cancelled*.

**DuplicateLookup** is one `isDuplicate`: search, collect, pull, compare, with
other clients changing the directory between any two steps. A record is the
fields the lookup tells apart; the content hash is the record without the three
it strips. **Reimport** extends it to sequences of imports: each item is made
into a record for the lookup and once more by the transformer, with the time as
it is then, is enriched, stripped of its debug source and stored, or written to a
file which a later import may read. Later items are looked up while earlier ones
are on their way, so that the window between check and push is there.

**RegistryFetcher**, **FileFetcher**, **SkillFetcher** and **A2ADNSFetcher** are
the fetchers with their channels and a reader that may stop reading.
`FileFetcher.Plan` says, per kind of file, which sends a file with given elements
leads to and in which order. **Selection** has what it and `SkillFetcher` take from a
sequence. `SkillFetcher` has the discovery (`StatSkillFile`,
`CheckWithin`, `EndWalk`) and, for each skill, the four readings of all that lies below
its directory: `ListFiles` and `CheckFile` for the walk of `isSkillBundle`,
`ReadMarkdown`, `CollectFiles` and `SizeFile` for the walk of `collectArchiveFiles`,
`EncodeFile`. A file is a *place*, a directory and a name in it. A walk keeps the places
it has still to visit (`listed`), and lists a directory when it comes to it
(`WalkInto`), each file or directory one step, with an editor of the files, at any
depth, acting between any two. In `A2ADNSFetcher` a zone holds what the name servers would answer for each
domain, several records each; a lookup reads it or fails.

**ToolHost** is the start of the tool server and the loop of a prompt;
**LLMEnricher** extends it with the construction of the enricher and the
enrichment of one record, two prompts with the limiter and the final write;
**ImporterNew** extends that with validation, `factory.Create` and `New` before
it, and the loop over the records after it. An editor may change the template
files until they have been read for the last time.

**ImportProofs** (of RunImport and DryRunImport), **ReimportProofs**,
**RegistryFetcherProofs**, **FileFetcherProofs**, **SkillFetcherProofs**,
**A2ADNSFetcherProofs** and **ImporterNewProofs** hold the theorems,
**SelectionProofs** the induction over sequences that three of them need.

The `MC...` modules hold the values of the constants that a configuration cannot
express.

External, modelled from how the code uses them: the directory and its search
stream (`StreamSend`, `StreamClose`), its other clients, the registry's pages
and cursors, the answers of name servers, agents and models (any answer), and
the caller's context (may be cancelled at any moment).

## Runs, bounds and fairness

| Run | Question | Bounds |
|---|---|---|
| RunFaults | Does an uncancelled import lose a unit, miscount, reorder or hang, whatever fails? | 3 items, two of equal content, every starting directory, a buffer of one, all faults but the enricher's |
| RunCancel | And when the caller may cancel at any moment, with and without force? Is `Inv` an invariant, does Run implement the contract, does it end and stay quiet? | 2 items, fetch, transform, enrich faults |
| DryRun | Does a dry run return and preview accurately, keeping the contract? | 2 items, cancellation, faults of all stages but dedup; the enricher fails only through cancellation |
| Reimport | Is a verdict sound although the directory changes during the lookup, and does importing again add nothing that could be known? | four histories of one to three imports, limit 2, one act of other clients, a clock of two moments, two records in flight |
| Registry | Is what is sent a gapless prefix, and an end without error complete? | 4 pages, one empty, filter at the second, limit inside the last, two fetches |
| Files | Is each element sent or reported, in order, and does the goroutine end? | every source of up to 2 inputs of up to 2 elements, one of each kind with 4 inputs of up to 4, channels of one |
| Skills | Are exactly the topmost skills found, and each sent as it is, or reported, within the limits? | six trees of up to 4 directories of 3 entries, limits of 3 files and 4 bytes, 2 edits, channels of one |
| DNSFetch | Is `Inv` an invariant, and is every domain accounted for? | 4 domains of up to 4 records, 2 slots |
| EnrichRecord | Is what Validate accepts built, does what was built work, is a record enriched in full or not at all, at bounded cost, ending? | 50 configurations, most of them different in one respect from a usable one, every state of the two template files, one edit, 2 records, limits of 2 and of the default 3 steps, up to 2 calls per answer |
| RunSignTwice, RunEnrichHang, RegistryStaleCursor | the disagreements below | 1 to 3 items |

*Why these are enough.* The pipeline has five stages of capacity one and a
buffer of one: with two items a stage can be blocked by the next while the one
before it is blocked by it, every stage can fail for one item while another
holds a good one, and cancellation can find any combination. The third item adds
equal content behind other content, so that duplicates within one import arise.
In `Reimport` more records match than the search returns, a record already
stored is looked up with every field the hash strips changed, and an equal item
is looked up while its predecessor is between its lookup and its push. In
`Registry` the limit falls inside a page with an empty page before it, and the
second fetch begins where the first left the URL. In `Files` each input of up to two
elements follows each other one. In `Skills` the files of
one skill, one of them the SKILL.md of a directory below it, are at both limits; an edit
pushes them over either, and one edit can undo another. Another skill is a bundle only
for the file in a directory below it, which an editor may remove, with a directory behind
it that can be listed or not. In
`DNSFetch` two domains wait for two slots, and each rule of precedence decides
at least one domain. `EnrichRecord` holds each single deviation of the
configuration and each set of methods, validated and not; the second record shows that what the first
leaves behind does no harm. `RunCancel` and `RunEnrichHang` switch off the
deadlock check because an uncancelled import really does stop for good when the
enricher fails (see below); RunFaults, which leaves that fault out, checks
deadlock.

*Fairness.* `FairSpec` asks that the goroutines as a whole go on as long as one
can step (`WF_vars(Progress)`), which is weaker than fairness of each goroutine
and enough because every step brings an import nearer its end (`StepsRunOut` below).
The Go
scheduler is fair to goroutines, and each remote call returns: with its answer,
an error, or at the end of its timeout or context. The fetchers' readers read on
as long as they read at all; they may also stop for good (`StopReading`), and
then only cancellation frees the fetcher, which is what `FetchEnds` says. In
`A2ADNSFetcher` each domain's goroutine is fair on its own. In `Reimport`
the steps in which a call fails are left out of the fairness unless the context
is done, so that no import ends only because something may fail. Cancelling,
editing and other clients' actions are never assumed to happen.

Each property has a mutant: a definition changed as a plausible mistake would
change it (marked `Mutant` in the modules), under which TLC finds the property
violated in the same run.

What the properties mean:

- `NoSilentLoss`, `ReportBalanced`, `ImportedInOrder`: an uncancelled report is
  complete and consistent. `ReportBalanced` gives the exact balance: a record whose
  signature failed counts twice, one acknowledged without a CID not at all; and
  every failure has its error.
- `CountsBounded`: whatever a cancelled Run reads while dedup still counts, no
  count exceeds the units there are.
- `NoRepush`: content found in the directory before the import is not pushed.
- `QuietAfterReturn`, `CancelEnds`: what a caller that cancels may rely on: Run
  returns, its goroutines end, and nothing is written once it has returned.
- `PreviewAccurate`: the files of a dry run are the contents the directory lacked,
  of the units that did not fail.
- `VerdictSound`: a skipped item's content was in the directory at some moment of
  the lookup; content that was there throughout is found, unless a call failed or
  more records match than the search returns. The second half is stated for an
  unbuffered result channel: with a buffered one, `collectCIDs` may choose `DoneCh`
  over results still in the buffer.
- `NoTwin`: no record is stored whose content the directory held all through its
  lookup, although its time stamp, debug flag and taxonomy have changed since.
- `SentIsPrefix`, `QuietEndIsComplete`, `AllReported`, `SentInOrder`: what a fetch sends.
- `DiscoverExact`: the walk finds the topmost skill directories of a tree nobody
  edits, and never a skill inside another, however it is edited.
- `QuietIsExact`: of a skill below whose directory nobody edits while it is read, the
  four readings agree: an item is what the whole subtree yields, an error one that it
  deserves (a directory below it that cannot be listed, no valid SKILL.md, too much).
- `BundleWithinLimits`, `AllSkillsReported`: no archive exceeds the limits although
  sizes are taken before the files are read; each skill found is one item or one
  error, and a fetch without any has an error of its own.
- `CardIsAdvertised`, `DomainsExplained`: a card comes from where the first fitting
  record of its domain says, one per domain, never besides an error; each domain
  gives a card, an error or has no agent.
- `Inv` of A2ADNSFetcher holds `LookupsBounded` (the semaphore's count is that of the
  goroutines past it) and `ClosedIsFinal` (no send on a closed channel).
- `ValidConfigBuilds`: what Validate accepts, New builds, with the exceptions it lists.
  `BuiltIsUsable`: the enricher New built is the configured one, with its server
  running, a permit to ask for and its prompts read.
- `CallsAnswered`: the conversation is well formed when the model is asked.
- `Inv` of ImporterNew holds `NoOrphanServer` (a refused construction leaves no server
  running), `AllOrNothing` (failed records are untouched) and `CostBounded` (one
  permit pays for at most `maxSteps` requests).

## Proofs

`ImportProofs` proves, for every number of units, contents, buffer size, set of
faults, with or without signing, force and cancellation, from `PipelineAssumption` and
`SigningAssumption` alone (of DryRun under names with `Dry` in them):

- `TypeCorrect`: `Spec => []TypeOK`. The buffer never exceeds its capacity, and the
  collectors and goroutines hold only what they may hold.
- `InvHolds`: `Spec => []Inv`.
- `NoUnitLost`, `CIDsInOrder`, `NothingRepushed` (Run): `[]` of `NoSilentLoss`,
  `ImportedInOrder` and `NoRepush`; `PreviewHolds` (DryRun): `[]PreviewAccurate`.
- `CountsHold`, `ReportAddsUp`, `CountsStayBounded` (Run): `[]` of `Counts`,
  `ReportBalanced` and `CountsBounded`.
- `QuietOnceReturned` (Run): `Spec => QuietAfterReturn`.
- `KeepsContract`, for each: `Spec => ContractSpec`, the refinement of `ImportContract`.
- `StepsRunOut` and `OnlyTheEnricherHangs`, for each: how an import ends, see below.

`NoSilentLoss` and `PreviewAccurate` speak of the end of an import and are not
inductive. `Inv` follows each unit on the way: a unit the fetcher has turned to is in
the queue, with a goroutine, in the directory, or in an error that is recorded or in a
collector's hands (`Tracked`); a fetcher that gave up has left an error (`GivenUp`); an
item that dedup skips, or the pusher signs or refers to, has its content in the
directory (`Stored`). To conclude from this at the end that a unit is in the directory
or in a *recorded* error, nothing may be on the way any more: `Ended` says that a
collector has ended only after the stage whose channel it drains, and that Run
leaves its wait only after the collectors; `EndedInOrder`, that without cancellation
dedup and transform end only after their input has. Together they empty the whole
pipeline once `main # "wait"`. `Ended` also holds after a cancellation, which is what
`QuietAfterReturn` needs: every stage with a collector has ended, and only dedup, its
counters included, can still move. The refinement is step by
step: a push that stores is `Deliver`, a recorded error is `Explain`, `Return` is
enabled by `Inv`, everything else stutters.

Two more strands run along the pipeline. `InOrder` says that whatever a stage holds is
ahead, in the source's order, of all that is upstream of it; it is an order of every
pair of places, because an item may jump over empty ones. What reaches `cids` is then
ahead of all that can follow, whatever is dropped in between. `OnlyNew` and `PushedNew`
say that what has passed dedup was not in the directory at the beginning, for which the
directory must not lose what it had (`Stored`). For the preview it must also be known
that a unit does not end up twice: `ErrorsApart` says that a unit with an error is in
no stage and comes back to none, and that every file is due to a unit without one. A
unit gets its first error when it leaves the place it is at, and `InOrder` shows that
it is nowhere else (`ErrorsArePast`). The run DryRun checks what follows from this `Inv`,
not `Inv` itself, which the theorem covers.

`Counts` is the invariant of the numbers. `ReportBalanced` is about the end, when
nothing is on the way; before it, `Balance` adds the records that were counted in the
total but not as anything else yet (`Undecided`), and `FailuresCounted` the errors that
were counted but not recorded (`ErrorsOnTheWay`). Both are equations without
cancellation; with it the first is an inequality, since records are dropped. Errors are
a set in the model and a list in the code, so the balance would hide an error recorded
twice: `ErrorsInOrder` says, with `InOrder`, that whatever a collector holds is of an
item behind all it will hold later, hence new when it is recorded. For
`CountsBounded`, `TotalBehind` bounds dedup's and the transformer's counts by what the
fetcher has handed over, also in the middle of dedup's critical section.

*How an import ends.* That Run returns is a matter of fairness and out of the prover's
reach, but what it rests on is proved. `StepsRunOut`: `Left`, an upper bound of the
steps that are left, is a natural number that every step of `Progress` lowers and
nothing raises. Each place of a goroutine has a weight, the higher the more the item it
holds may still cause further on; an error counts with its collector, and one more unit
of the source with 14 steps. `OnlyTheEnricherHangs`: in a state without a step to take
(`~CanStep`) Run has returned and its goroutines have ended, or else an enricher
has ended at an error, nobody has cancelled, and the transformer holds a record that
nobody will receive. This extends what TLC's deadlock check finds on the instance of
RunFaults to every instance, fault and cancellation, and says that the hang of
RunEnrichHang is the only one. It needs that the enricher and the pusher end only after
their input unless cancelled (`EnrichEndsLast`, `PushEndsLast`), beside `Ended` and
`EndedInOrder`. `CanStep` is the disjunction of the guards, written out since ENABLED is
out of reach; on the instances of the runs TLC evaluates it to the same as
`ENABLED Progress`. What the runs add is the last step: under fairness, what can step
does.

The first part of `ImportProofs` has what Run and DryRun share: how the stages' part of each invariant fares
in a step of the stages, of the context, or of whatever lies beyond (`StageStep`,
`SinkStep`). Its lemmas have one step per group of actions; `Moves` sums up what a step
does to the places of the items, so that the order is argued once over three kinds of
moves and not over twenty actions. `TypeOK` is cut into one part per group of
variables, and `Kept` says that a part holds on while its variables stay as they are.

`A2ADNSFetcherProofs` proves, for every finite zone and every size of the semaphore,
from `DNSAssumption`:

- `InvHolds`: `Spec => []Inv`; `CardsAdvertised` and `NoDomainLost`: `[]` of
  `CardIsAdvertised` and `DomainsExplained`.

`ClosedIsFinal` needs the wait group to count the goroutines started and not ended
(`Counted`): when it is zero they are none. Both counters are cardinalities of sets of
goroutines, and a step of one goroutine adds it to such a set or takes it out. Where
the cards come from needs to be known at each place of a goroutine (`OnItsWay`): one
that looks for TXT found no agent in SVCB, one that fetches has the advertised URL, one
that has not yet sent has neither card nor error, one that has ended explained its
domain.

`NobodyStuck`: unless the reader left and nobody cancels, a goroutine can go on until
both channels are closed. A goroutine without a slot finds one, or another past the
semaphore that can step; a spawner that waits has a goroutine to wait for. The same
theorem about the other fetchers says that they wait for room only where there is
something to read. Like `OnlyTheEnricherHangs` it speaks of the guards.

`ImporterNewProofs` proves, for every set of configurations and template files, every
default of the step limit, every number of records and of edits, from
`HostAssumption` and `NewAssumption`:

- `InvHolds`: `Spec => []Inv`; `ValidBuilds`, `BuiltWorks` and `EachCallAnswered`: `[]`
  of `ValidConfigBuilds`, `BuiltIsUsable` and `CallsAnswered`.

Three modules' places have to agree: `InStep` relates the importer's to the enricher
chosen and to the tool host, so that a refusal finds the server closed. `StillValid`
carries what Validate and `NewLLMEnricher` found to where it is used; only the template
files can have changed since, and only if somebody edited them. `CostBounded` holds
between records; on the way, `Progressing` and `Spending` count the permits the record
has yet to ask for and the requests its prompt has left. `CallsOwed` relates the tool
calls of the last answer that are still to be made to the messages already there.

`ReimportProofs` proves, for every set of histories, every finite set of records of
other clients, every limit of the search and every buffering of its stream, from
`LookupAssumption` and `ReimportAssumption`:

- `Typed`, `SoundVerdict`, `NothingTwice`: `[]` of `TypeOK`, `VerdictSound` and `NoTwin`.

The lookup reads the directory three times, and `OnTheWay` is what it keeps of it: as
long as no call failed and no more records match than the search returns, the matching
records that have been there throughout are among the answers still to be sent or
collected, then among those collected, then among those pulled. `VerdictSound` is the
end of it, for which the hash must tell records apart exactly by their content
(`HashIsContent`). A record that passes takes along the contents its lookup could not
miss (`FlightInv`), and enriching, stripping and dating it leave its content alone.

`RegistryFetcherProofs` proves, for every registry, limit, capacity and number of
calls, from `RegistryAssumption`:

- `AlwaysTyped`: `[]TypeOK`; `LimitKept`: no call sends more than the limit.
- `InOrder`, `QuietIsComplete`: `SentIsPrefix` and `QuietEndIsComplete` in the first
  call, and in every call if there is a cursor filter. The condition is the finding
  RegistryStaleCursor: without it the properties are false.

`InPlace` says where a call is: while a page is sent, what was sent and what is left of
the page are together the servers of all pages from the first one asked for through this one
(`Through`), and before a request they are those through the page before the cursor.
What `FlattenSeq` makes of the pages is unfolded once, page by page (`Through` of a page
is `Through` of the one before it and that page).

`FileFetcherProofs` proves, for all sources, capacities and faults, from
`FilesAssumption`:

- `TypeCorrect`, `OrderKept`, `AllAccountedFor`: `[]` of `TypeOK`, `SentInOrder` and
  `AllReported`; `NobodyStuck`.

Its first section is about plans: their sends are about the input they are made of,
with the items in the order of the elements (`WellPlanned`), and cover each element that
is due (`Covers`). `Planned` says that what the goroutine has left is the end of the
current plan; the beginning of it and all earlier plans are *behind*. What was sent is
planned and behind (`FromPlans`), and what is behind was sent, unless cancelled
(`NoneDropped`). The order follows because the next send is not yet behind. The attempt
to prove an earlier `AllReported` failed on MCP arrays with nameless servers beside good
ones, which are dropped without an error; the property now leaves these out by name
(`Due`), and the run's instance has them.

`SkillFetcherProofs` proves, for all trees, limits, capacities and any number of edits
at any moment, from `SkillAssumption`:

- `AlwaysTyped`, `WalkIsExact`, `LimitsKept`, `UneditedIsExact`, `EachReportedOnce`: `[]`
  of `TypeOK`, `DiscoverExact`, `BundleWithinLimits`, `QuietIsExact` and
  `AllSkillsReported`.
- `NobodyStuck`: no reading of a skill is without an outcome, however what lies below it
  was edited since the one before. The proof asked what a link to a link is: an "in" entry stands
  for a link that leads to its entry in the end, as `EvalSymlinks` resolves it.

Its `Inv` has a part per question. `Apart`: no skill found is a part of another or of
what is still to be visited, nor the other way round; SkipDir keeps it below a skill,
and above it the order of the walk does. `Settled`: of an unedited tree, each directory
visited is found, below one that was found, or no skill. `Collected`: the files sized
so far are within the limits and what is archived of each has the recorded size, so
that the limits hold of what was *read*, whatever the editor did in between. `Known`
says what the goroutine knows of the skill it reads, in terms of the contents its files
have, at each place of the goroutine; an edit below the skill ends it (`quiet`). A walk
has no measure in the number of files: what is kept is that each file not yet seen, and
each directory that cannot be listed, is below a place still to be visited, or is one
(`Under`). Going into a directory keeps that because a directory's entries are at the
next level of the tree (`InShape`, lemma `Deeper`), passing a file because nothing lies
below one (`Alone`). That a walk which stops at a limit half way was right to stop is
`StillTooLarge`: with more files the archive is no smaller, since the files sized are a
selection, in order, from all of them (`TotalAmong`).
`Counted`: of a skill before the one being read exactly one thing was said, of the
others nothing. `Where` and `Editable` are what these need about the place of the
goroutine and about what a file can become.

*Induction.* `Total`, `FlattenSeq` and `Select` are recursive functions or folds. The
library's induction theorems cannot be instantiated here, but a set of numbers has
a least element (`Least`, from `NatLessThanWellFounded`), which for a set of
counterexamples is induction (`Induction`). With it a function defined by recursion is shown to
exist and to satisfy its equation (`Iteration`, `Totals`, `Selected`). `Select` stands
for `SelectSeq`, whose definition the prover cannot unfold.

*Assumptions about constants.* All are about the shape of the inputs. Beyond types,
`SkillAssumption` has `InWalkOrder`: the directories of a tree are listed as
`filepath.WalkDir` visits them, each once and before those below it, `order` lists every
place there is, and a directory lies at the entry of its name in the directory above
(`InShape`); no link is left at the end of a link; `LookupAssumption`
has finitely many records of other clients, so that the search's answers can be counted;
`ReimportAssumption` and `RegistryAssumption` say of items and pages only that they are
ones. TLC evaluates them in the runs.

Only model-checked: liveness under fairness, which is outside the prover's reach
(`Termination`, `DryTermination`, `CancelEnds`, `ImportsEnd`, `EnrichmentEnds` and the four
`FetchEnds`). Every other property of a passing run is a theorem, `SentIsPrefix` and
`QuietEndIsComplete` under the condition above.

## Where code and words differ

Each of these is a run that TLC refutes; `PROJECT.json` quotes the lines.

1. **RunEnrichHang.** An enricher returns at its first error without draining
   its input. With another record upstream the transformer blocks for ever and Run
   does not return unless cancelled.
2. **RunSignTwice.** A record that was pushed but not signed is counted as imported
   and as failed, so the counts do not add up to the total.
3. **RegistryStaleCursor.** The registry fetcher keeps the last cursor in its URL; a
   second Fetch without a cursor filter starts at the last page.

Seen while modelling, and left to hazards in `PROJECT.json` or to the comments of the
modules:

- The default SVCB lookup calls every answer but success "not found", so a failing
  name server is taken for the absence of a record, and TXT is asked instead.
- A cancelled Run may read the counts inside dedup's critical section (more skipped
  than total).
- Two equal items of one import can both be stored, because the second is looked up
  before the first is there and each is stamped with its own `created_at`.
- The comment at `dedup/hash.go:83` compares the content hash with stored CIDs; the
  CID of a stored record covers fields the hash strips, so only hashes of pulled
  records can be compared, which is what the code does.
- A blank path or model name passes Validate and is refused by New.
- The tool server of an importer that was built is never stopped: `Close` is called
  only when the start fails.
- A SKILL.md that is a link is read for the payload but left out of the archive.
- A nameless server in an array of MCP servers is dropped without an error.
- The DNS concurrency limits lookups, not goroutines; the request limiter counts
  prompts, not requests.

## Not modelled

- The transformer's conversions, the extractor's and static enrichers' content, the JSON
  shapes of cards, records and servers: data that no property tells apart; each is
  one step with its possible outcomes.
- The wire format of DNS answers and the content of agent cards: a record is the fields
  the code branches on.
- The parsing of SKILL.md and the bytes of an archive: a content parses or not, has a
  size, and an archive is its entries.
- Changes to directories and links while skills are read: an editor writes and removes
  regular files only. A link leads to an entry of its own directory or to a file out of
  the tree; a file that exists can be read.
- The model's clients: a request answers or fails.
- Source items' constructors and names, logging: no state, or output only.

## Plan

In order, with what is done marked.

1. [done] Pipeline, RunImport, ImportContract: the core. DryRunImport on the same stages.
2. [done] Proofs about RunImport.
3. [done] DuplicateLookup; RegistryFetcher, FileFetcher, A2ADNSFetcher; LLMEnricher.
4. [done] SkillFetcher with the skill package: discovery, bundles, limits, edits.
5. [done] ToolHost's start, ImporterNew: partial failure of construction, validation.
6. [done] Reimport: the composition of lookup, transformer, enricher and push over time.
7. [done] A2ADNSFetcherProofs, ImporterNewProofs.
8. [done] Proofs about DryRunImport, on the stages it shares with RunImport; order and
   novelty of what Run imports.
9. [done] ReimportProofs, RegistryFetcherProofs, SkillFetcherProofs; the balance of
   `ReportBalanced`.
10. [done] FileFetcherProofs; how imports and fetches end.
11. Composition: the fetchers shown to implement the abstract fetcher of Pipeline
   (FetchEmit, FetchFail, FetchEnd), and DuplicateLookup the `DedupCheck` step.

## Running

    tlc -workers 2 -config RunFaults.cfg MCRunImport
    tlapm ImportProofs.tla
    tlapm ReimportProofs.tla
    tlapm SelectionProofs.tla
    tlapm RegistryFetcherProofs.tla
    tlapm FileFetcherProofs.tla
    tlapm SkillFetcherProofs.tla
    tlapm A2ADNSFetcherProofs.tla
    tlapm ImporterNewProofs.tla

Each run finishes in a few minutes or less, and so does each module of proofs.
