---------------------------- MODULE ImporterNew -----------------------------
(***************************************************************************)
(* From a configuration to enriched records: the caller validates its      *)
(* configuration, or does not; factory.Create and importer.New build the   *)
(* fetcher and the one enricher; the enricher then takes records one by    *)
(* one until one fails.                                                    *)
(*                                                                         *)
(* Validate, NewLLMEnricher and the tool host each look at the same        *)
(* configuration and template files, at different times: an editor may     *)
(* change the files in between.                                            *)
(***************************************************************************)
EXTENDS LLMEnricher

CONSTANTS
    Configs,    \* the configurations considered, each [validates, type,
                \* source, methods, static, extractor, llm]
    Files,      \* the template files at the start, a set of functions
    Records,    \* how many records reach the enricher
    MaxEdits    \* bound: how often the editor acts

Types == {"registry", "file"}       \* the import types New knows
Methods == {"static", "extractor", "llm"}
FileStates == {"gone", "blank", "text"}

\* source is the URL or path: "empty", "blank", "bad" (a URL or filter that
\* New refuses) or "usable".
ASSUME NewAssumption ==
    /\ \A c \in Configs :
        /\ {c.validates, c.static, c.extractor} \subseteq BOOLEAN
        /\ c.methods \subseteq Methods
        /\ c.source \in {"empty", "blank", "bad", "usable"}
        /\ c.llm.host.model \in {"empty", "blank", "named"}
        /\ c.llm.host.server \in {"missing", "idle", "command"}
        /\ c.llm.host.maxSteps \in Int /\ c.llm.rpm \in Int
        /\ c.llm.template \in [Fields -> {"default", "file"}]
    /\ Files \subseteq [Fields -> FileStates]
    /\ Records \in Nat /\ MaxEdits \in Nat

VARIABLES
    edits,
    valid,      \* whether Validate was called and returned no error
    enricher    \* the method of the importer's enricher; "none" before

newVars == <<edits, valid, enricher>>
vars == <<config, files, pc, record, llmVars, hostVars, newVars>>

Init ==
    /\ config \in Configs /\ files \in Files /\ edits = 0
    /\ pc = "validate" /\ valid = FALSE /\ enricher = "none"
    /\ phase = "skills" /\ prompts = [f \in Fields |-> "none"]
    /\ record = 0 /\ permits = 0 /\ asked = {}
    /\ written = [r \in 1..Records |-> {}]
    /\ HostInit

----------------------------------------------------------------------------
\* Mutant: that none is configured goes unnoticed.
AtMostOneMethod == Cardinality(config.methods) <= 1

OneMethod == Cardinality(config.methods) = 1

\* enricherconfig.Config.Validate
EnricherValid ==
    /\ OneMethod
    /\ "static" \in config.methods => config.static
    /\ "extractor" \in config.methods => config.extractor
    /\ "llm" \in config.methods => LLMValid

\* Config.Validate; a caller that gets an error goes no further.
Validate ==
    /\ pc = "validate"
    /\ IF ~config.validates THEN Goto("create") /\ UNCHANGED <<valid, hostVars>>
       ELSE IF config.type \in Types /\ config.source # "empty" /\ EnricherValid
            THEN Goto("create") /\ valid' = TRUE /\ UNCHANGED hostVars
            ELSE Failed("validate") /\ UNCHANGED valid
    /\ UNCHANGED <<config, files, record, llmVars, edits, enricher>>

\* The lookup of factory.Create; init registers the types New knows.
Create ==
    /\ pc = "create"
    /\ IF config.type \in Types THEN Goto("fetcher") /\ UNCHANGED hostVars
                                ELSE Failed("type")
    /\ UNCHANGED <<config, files, record, llmVars, newVars>>

\* Paths are trimmed, URLs parsed and filters looked up.
FetcherRefuses ==
    \/ config.type = "file" /\ config.source \in {"empty", "blank"}
    \/ config.type = "registry" /\ config.source = "bad"

NewFetcher ==
    /\ pc = "fetcher"
    /\ IF FetcherRefuses THEN Failed("fetcher")
                         ELSE Goto("enricher") /\ UNCHANGED hostVars
    /\ UNCHANGED <<config, files, record, llmVars, newVars>>

\* newEnricher: of several methods the first in the order of its cases.
Selected ==
    IF "static" \in config.methods THEN "static"
    ELSE IF "extractor" \in config.methods THEN "extractor"
    ELSE IF "llm" \in config.methods THEN "llm" ELSE "none"

NewEnricher ==
    /\ pc = "enricher"
    /\ enricher' = Selected
    /\ \/ Selected = "none" /\ Failed("method")
       \/ /\ Selected = "static"
          /\ IF config.static THEN Goto("built") /\ UNCHANGED hostVars
                              ELSE Failed("config")
       \/ /\ Selected = "extractor"
          /\ IF config.extractor THEN Goto("built") /\ UNCHANGED hostVars
                                 ELSE Failed("config")
       \/ Selected = "llm" /\ Goto("llm") /\ UNCHANGED hostVars
    /\ UNCHANGED <<config, files, record, llmVars, edits, valid>>

----------------------------------------------------------------------------
\* The loop of Enrich: a record that fails ends it.
NextRecord ==
    /\ pc \in {"built", "enriched"}
    /\ IF record = Records
       THEN Goto("done") /\ UNCHANGED record
       ELSE record' = record + 1
            /\ Goto(IF enricher = "llm" THEN "decode" ELSE "assign")
    /\ UNCHANGED <<config, files, llmVars, hostVars, newVars>>

\* StaticEnricher and ExtractorEnricher write both fields or, without data,
\* text or an answer of the extractor, neither.
Assign ==
    /\ pc = "assign"
    /\ \/ Goto("enriched") /\ written' = [written EXCEPT ![record] = Fields]
       \/ Goto("failed") /\ UNCHANGED written
    /\ UNCHANGED <<config, files, record, phase, prompts, permits, asked,
                   hostVars, newVars>>

Edit ==
    /\ edits < MaxEdits /\ pc \in {"validate", "create", "fetcher", "enricher",
                                   "llm", "load"}
    /\ \E f \in Fields, s \in FileStates :
        files[f] # s /\ files' = [files EXCEPT ![f] = s]
    /\ edits' = edits + 1
    /\ UNCHANGED <<config, pc, record, llmVars, hostVars, valid, enricher>>

Stopped == pc \in {"refused", "failed", "done"} /\ UNCHANGED vars

Progress ==
    \/ Validate \/ Create \/ NewFetcher \/ NewEnricher \/ NextRecord \/ Assign
    \/ (NewLLMEnricher \/ enrichWithLLM) /\ UNCHANGED newVars

Next == Progress \/ Edit \/ Stopped

Spec == Init /\ [][Next]_vars

\* Each external call returns, at the latest when the timeout passes.
FairSpec == Spec /\ WF_vars(Progress)

----------------------------------------------------------------------------
Before == {"validate", "create", "fetcher", "enricher", "llm", "load", "host"}
Enriching == {"decode", "limit", "complete", "parse", "write"}

TypeOK ==
    /\ HostTypes
    /\ config \in Configs /\ files \in [Fields -> FileStates]
    /\ pc \in Before \cup Enriching
              \cup {"assign", "built", "enriched", "refused", "failed", "done"}
    /\ edits \in 0..MaxEdits /\ valid \in BOOLEAN
    /\ enricher \in Methods \cup {"none"}
    /\ phase \in Fields /\ prompts \in [Fields -> {"none", "blank", "text"}]
    /\ record \in 0..Records /\ permits \in Nat /\ asked \subseteq Fields
    /\ written \in [1..Records -> SUBSET Fields]

Built == pc \notin Before \cup {"refused"}

\* What Validate accepts, New builds, unless the tool server or the environment
\* fails it, a template was changed in between, or the path or the model's name
\* is blank, which Validate does not look for, or the URL or a filter is bad.
ValidConfigBuilds ==
    valid /\ pc = "refused" =>
        \/ why \in {"start", "initialize", "tools", "keys"}
        \/ why = "template" /\ edits > 0
        \/ why = "fetcher" /\ config.source \in {"blank", "bad"}
        \/ why = "model" /\ config.llm.host.model = "blank"

\* What New has built can work: the enricher is the configured one, the only
\* one if that was validated; the LLM's has its server running, may send a
\* request, and has prompts, blank ones only if a template was changed after
\* it was read for the first time.
BuiltIsUsable ==
    Built =>
        /\ enricher \in config.methods
        /\ valid => config.methods = {enricher}
        /\ enricher = "llm" =>
            /\ server = "running" /\ maxSteps > 0
            /\ config.llm.host.model = "named" /\ config.llm.rpm > 0
            /\ \A f \in Fields :
                prompts[f] = "text" \/ (prompts[f] = "blank" /\ edits > 0)

\* Enrichment is all or nothing: the records before the current one have both
\* fields, the current one has both or is as it was, however it failed.
AllOrNothing ==
    \A r \in 1..Records :
        written[r] = IF r < record \/ (r = record /\ pc \in {"enriched", "done"})
                     THEN Fields ELSE {}

\* However the model answers, a record costs at most two permits of the request
\* limiter, one for each field, and each permit at most maxSteps requests.
CostBounded == permits <= 2 * record /\ requests <= permits * maxSteps

\* A construction that is refused leaves no server running.
NoOrphanServer == pc = "refused" => server # "running"

----------------------------------------------------------------------------
(* The inductive invariant: the importer, the enricher and the tool host   *)
(* agree on how far they are, and what was found valid still holds.        *)

\* pc, the enricher chosen and the tool host are at the same point.
InStep ==
    /\ pc \in {"validate", "create", "fetcher", "enricher"} => enricher = "none"
    /\ pc \in {"llm", "load", "host"} \cup Enriching => enricher = "llm"
    /\ pc = "assign" => enricher # "llm"
    /\ Built \/ enricher # "none" => enricher \in config.methods
    /\ pc \in Before \ {"host"} => at = "off"
    /\ pc = "host" => Starting
    /\ pc = "refused" => at \in {"off", "refused"}
    /\ Built => IF enricher = "llm" THEN ~Starting /\ at # "refused" ELSE at = "off"
    /\ pc = "complete" <=> Conversing
    /\ Built /\ pc # "failed" => at # "failed"
    /\ server = "running" <=> at \notin {"off", "refused"}
    /\ server = "running" => maxSteps > 0

\* A prompt that New may use: blank only if a file was edited.
Fit(f) == prompts[f] = "text" \/ (prompts[f] = "blank" /\ edits > 0)

\* What Validate and NewLLMEnricher found stays true, but for the files.
StillValid ==
    /\ valid =>
        /\ pc # "validate"
        /\ config.type \in Types /\ config.source # "empty" /\ OneMethod
        /\ "static" \in config.methods => config.static
        /\ "extractor" \in config.methods => config.extractor
        /\ "llm" \in config.methods => LLMSettings /\ (edits = 0 => ValidTemplates)
    /\ pc \in {"load", "host"} \/ (Built /\ enricher = "llm") =>
        LLMSettings /\ (edits = 0 => ValidTemplates)
    /\ pc \in Before \ {"load", "host"} => phase = "skills"
    /\ pc = "load" /\ phase = "domains" => Fit("skills")
    /\ pc = "host" \/ (Built /\ enricher = "llm") => \A f \in Fields : Fit(f)
    /\ Built /\ enricher = "llm" => LLM.host.model = "named"

\* Permits the current record has yet to ask for.
Unasked ==
    IF pc = "decode" \/ (pc = "limit" /\ phase = "skills") THEN 2
    ELSE IF pc = "limit" \/ (pc \in {"complete", "parse"} /\ phase = "skills") THEN 1
    ELSE 0

\* How far the current record is, in fields asked for and permits spent.
Progressing ==
    /\ pc \in Before \cup {"built", "refused"} => record = 0 /\ permits = 0
    /\ pc \in Enriching \cup {"assign", "enriched", "failed"} => record > 0
    /\ pc = "done" => record = Records
    /\ pc \in {"limit", "complete", "parse"} =>
            asked = IF phase = "skills" THEN {} ELSE {"skills"}
    /\ pc = "write" => asked = Fields
    /\ permits <= 2 * record - Unasked

\* A permit gives room for maxSteps requests, which its prompt has yet to use.
Spending ==
    requests <= permits * maxSteps - (IF pc = "complete" THEN maxSteps - steps ELSE 0)

Inv ==
    /\ TypeOK /\ InStep /\ StillValid /\ Progressing /\ Spending /\ CallsOwed
    /\ NoOrphanServer /\ AllOrNothing /\ CostBounded /\ ValidConfigBuilds

\* The construction ends, and the enrichment of every record that follows,
\* whatever the model answers.
EnrichmentEnds == <>(pc \in {"refused", "failed", "done"})
=============================================================================
