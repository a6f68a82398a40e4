------------------------------ MODULE Reimport ------------------------------
(***************************************************************************)
(* What becomes of an item's record on its way, import after import: dedup *)
(* makes a record of it and looks for one of the same content, the         *)
(* transformer makes the record a second time, an enricher writes its      *)
(* taxonomy, the debug source is stripped, and it is pushed, or written to *)
(* a file that a later import may read.  Each making stamps its own        *)
(* created_at; later items are looked up while earlier ones are still on   *)
(* their way.                                                              *)
(***************************************************************************)
EXTENDS DuplicateLookup, Sequences

CONSTANTS
    Histories,  \* the sequences of imports considered, each import [force,
                \* debug, dry, modules, buffer, items]
    Taxonomies, \* what an enricher may write
    Room,       \* bound: the records the stages after dedup hold together
    MaxTime     \* bound: the clock

\* An item is [kind, record]: what the translator makes of an MCP server, an
\* A2A card ("mcp", "a2a"), a "skill" or an "oasf" record, but for created and
\* debug; "bad" if it makes nothing.  The item of kind "file" is whatever
\* record an earlier dry run has written.
ItemOK(i) ==
    \/ i.kind \in {"mcp", "a2a", "skill", "oasf"} /\ DOMAIN i.record = RecordFields
    \/ i.kind \in {"bad", "file"}

ASSUME ReimportAssumption ==
    /\ \A h \in Histories :
        /\ h \in Seq({h[k] : k \in DOMAIN h})
        /\ \A k \in DOMAIN h :
            /\ {h[k].force, h[k].debug, h[k].dry} \subseteq BOOLEAN
            /\ h[k].buffer \in Nat
            /\ \A i \in DOMAIN h[k].items : ItemOK(h[k].items[i])
    /\ {Room, MaxTime} \subseteq Nat \ {0}

VARIABLES
    history,    \* the imports, one after the other
    run, turn,  \* the import under way, and its item
    item,       \* the item being looked up
    clock,
    flight,     \* records between dedup and their push, in order
    pushed,     \* [record, known] in order: what was stored, and the contents
                \* its lookup could not miss
    files       \* what dry runs have written

itemVars == <<history, run, turn, item>>
vars == <<lookupVars, itemVars, clock, flight, pushed, files>>

Import == history[run]
Running == run \in DOMAIN history
Items == Import.items

Init ==
    /\ history \in Histories
    /\ run = 1 /\ turn = 1 /\ item = [kind |-> "bad"] /\ clock = 1
    /\ flight = <<>> /\ pushed = <<>> /\ files = {}
    /\ LookupInit

----------------------------------------------------------------------------
\* TransformRecord: a translator stamps the time, and debugging attaches the
\* source of MCP servers and A2A cards; an OASF record passes as it is.
TransformRecord(i, now) ==
    IF i.kind = "oasf" THEN i.record
    ELSE [i.record EXCEPT !.created = now,
                          !.debug = Import.debug /\ i.kind \in {"mcp", "a2a"}]

\* The clock when a record is made.
Now == clock' \in clock..MaxTime

Stages == <<flight, pushed, files>>

\* The item's turn: it is looked up, unless it cannot be transformed, or dedup
\* is off.
Begin(i) ==
    /\ item' = i
    /\ IF Import.force \/ i.kind = "bad"
       THEN /\ pc' = "decided"
            /\ UNCHANGED <<outside, stream, cids, pulled, duplicate, failed,
                           cancelled, clock>>
       ELSE /\ Now
            /\ Enter([source |-> TransformRecord(i, clock'),
                      modules |-> Import.modules, buffer |-> Import.buffer])

FilterDuplicates ==
    /\ Running /\ pc = "idle" /\ turn \in DOMAIN Items
    /\ \/ Items[turn].kind # "file" /\ Begin(Items[turn])
       \/ /\ Items[turn].kind = "file"
          /\ \E r \in files : Begin([kind |-> "oasf", record |-> r])
    /\ UNCHANGED <<history, run, turn, Stages>>

\* A dry run that wrote nothing leaves nothing to import.
NoFile ==
    /\ Running /\ pc = "idle" /\ turn \in DOMAIN Items
    /\ Items[turn].kind = "file" /\ files = {}
    /\ turn' = turn + 1
    /\ UNCHANGED <<lookupVars, history, run, item, clock, Stages>>

\* The contents the lookup could not miss.
Known ==
    IF Sighted THEN {Content(r) : r \in {x \in always : Matches(x)}} ELSE {}

\* A duplicate is skipped; the transformer makes the record once more, or
\* reports the item.
PassOn ==
    /\ pc = "decided" /\ turn' = turn + 1
    /\ IF duplicate \/ item.kind = "bad"
       THEN UNCHANGED <<clock, flight>>
       ELSE /\ Len(flight) < Room /\ Now
            /\ flight' = Append(flight,
                    [record |-> TransformRecord(item, clock'), known |-> Known])
    /\ Leave
    /\ UNCHANGED <<directory, ever, always, others, cancelled, history, run,
                   item, pushed, files>>

\* setStructSkills and setStructDomains replace what is there.
Enriched(r, t) == [r EXCEPT !.taxonomy = t]

\* Before a record leaves the importer, by either way.
StripImportDebugFields(r) == [r EXCEPT !.debug = FALSE]

\* Push or writeRecord, of the first record in flight.
Deliver ==
    /\ flight # <<>>
    /\ \E t \in Taxonomies :
        LET r == StripImportDebugFields(Enriched(Head(flight).record, t))
        IN  IF Import.dry
            THEN /\ files' = files \cup {r}
                 /\ UNCHANGED <<directory, ever, always, pushed>>
            ELSE /\ Becomes(directory \cup {r})
                 /\ pushed' = Append(pushed,
                        [record |-> r, known |-> Head(flight).known])
                 /\ UNCHANGED files
    /\ flight' = Tail(flight)
    /\ UNCHANGED <<lookup, others, pc, stream, cids, pulled, duplicate, failed,
                   cancelled, itemVars, clock>>

\* A record that cannot be enriched, pushed or written.
Drop ==
    /\ flight # <<>> /\ Fails
    /\ flight' = Tail(flight)
    /\ UNCHANGED <<lookupVars, itemVars, clock, pushed, files>>

\* The import is over: all items are through, or the context is done.
EndImport ==
    /\ Running
    /\ \/ pc = "idle" /\ turn \notin DOMAIN Items /\ flight = <<>>
       \/ pc \in {"idle", "decided"} /\ cancelled
    /\ run' = run + 1 /\ turn' = 1 /\ item' = [kind |-> "bad"]
    /\ flight' = <<>> /\ cancelled' = FALSE
    /\ Leave
    /\ UNCHANGED <<directory, ever, always, others, history, clock, pushed,
                   files>>

Cancel ==
    /\ MayCancel /\ ~cancelled /\ Running
    /\ cancelled' = TRUE
    /\ UNCHANGED <<outside, pc, stream, cids, pulled, duplicate, failed,
                   itemVars, clock, Stages>>

Finished == ~Running /\ UNCHANGED vars

Progress ==
    \/ Lookup /\ UNCHANGED <<itemVars, clock, Stages>>
    \/ FilterDuplicates \/ NoFile \/ PassOn \/ Deliver \/ EndImport

Next ==
    \/ Progress \/ Drop \/ Cancel \/ Finished
    \/ Running /\ OtherClient /\ UNCHANGED <<itemVars, clock, Stages>>

Spec == Init /\ [][Next]_vars

\* The stages are scheduled, the client's calls return and the stream ends.
\* Neither failures nor the other clients are counted on, except that a done
\* context fails what waits.
FairSpec == Spec /\ WF_vars(Progress /\ (failed' => failed \/ cancelled))

----------------------------------------------------------------------------
TypeOK ==
    /\ LookupTypes
    /\ history \in Histories /\ run \in 1..(Len(history) + 1)
    /\ turn \in Nat /\ clock \in 1..MaxTime
    /\ Len(flight) <= Room
    /\ \A k \in DOMAIN pushed : DOMAIN pushed[k].record = RecordFields

\* Importing again changes nothing: no record is stored whose content the
\* directory held all through its lookup, although the clock, the debug flag
\* and the taxonomy of the record have changed since, and whether it comes
\* from its source or from the file of a dry run.  Two records of one content
\* get in only with --force, after a failed call, beyond the search's limit, or
\* when the lookup of one began before the other was stored.
NoTwin ==
    \A k \in DOMAIN pushed :
        Content(pushed[k].record) \notin pushed[k].known

\* The imports come to their end.
ImportsEnd == <>(~Running)
=============================================================================
