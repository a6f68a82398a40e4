---------------------------- MODULE LLMEnricher -----------------------------
(***************************************************************************)
(* The LLM enricher: its construction, which reads the prompt templates    *)
(* and starts the tool host, and the enrichment of one record after the    *)
(* other: a prompt for the skills, then one for the domains; the record is *)
(* written only at the end.  It details EnrichRecord of the pipeline.      *)
(***************************************************************************)
EXTENDS ToolHost

Fields == {"skills", "domains"}

VARIABLES
    config,     \* of the import; config.llm is [host, rpm, template], with
                \* template[f] "default" or "file"
    files,      \* the template files: "gone", "blank" or "text"
    pc,
    phase,      \* the field being loaded, or asked for
    prompts,    \* what was loaded: "none", "blank" or "text"
    record,     \* the record being enriched
    permits,    \* permits the request limiter granted
    asked,      \* fields the model has given for the record
    written     \* fields written into each record

llmVars == <<phase, prompts, permits, asked, written>>
LLM == config.llm

Goto(l) == pc' = l
Failed(step) == pc' = "refused" /\ why' = step
                /\ UNCHANGED <<at, server, maxSteps, promptVars>>

----------------------------------------------------------------------------
\* LLMConfig.Validate, which reads the templates a first time.
ValidTemplates == \A f \in Fields : LLM.template[f] = "file" => files[f] = "text"
LLMSettings == HostValid(LLM.host) /\ LLM.rpm > 0
LLMValid == LLMSettings /\ ValidTemplates

ValidateLLM ==
    /\ pc = "llm"
    /\ IF LLMValid THEN Goto("load") /\ UNCHANGED hostVars
       ELSE Failed(IF LLMSettings THEN "template" ELSE "config")
    /\ UNCHANGED <<config, files, record, llmVars>>

Loaded(f) == IF LLM.template[f] = "default" THEN "text" ELSE files[f]

\* SkillsPrompt, then DomainsPrompt: they read it a second time.
LoadPrompt ==
    /\ pc = "load"
    /\ IF Loaded(phase) = "gone"
       THEN Failed("template") /\ UNCHANGED <<prompts, phase>>
       ELSE /\ prompts' = [prompts EXCEPT ![phase] = Loaded(phase)]
            /\ IF phase = "skills" THEN phase' = "domains" /\ UNCHANGED pc
                                   ELSE Goto("host") /\ UNCHANGED phase
            /\ UNCHANGED hostVars
    /\ UNCHANGED <<config, files, record, permits, asked, written>>

BuildHost ==
    /\ pc = "host"
    /\ NewHost(LLM.host)
    /\ Goto(IF at' = "ready" THEN "built"
            ELSE IF at' = "refused" THEN "refused" ELSE "host")
    /\ UNCHANGED <<config, files, record, llmVars>>

----------------------------------------------------------------------------
\* Records that do not decode, or are not OASF v1, are refused.
Decode ==
    /\ pc = "decode"
    /\ pc' \in {"limit", "failed"}
    /\ phase' = "skills" /\ asked' = {}
    /\ UNCHANGED <<config, files, record, prompts, permits, written, hostVars>>

\* complete: a permit of the limiter, then a prompt.
Wait ==
    /\ pc = "limit"
    /\ \/ permits' = permits + 1 /\ Goto("complete") /\ Prompt
       \/ Goto("failed") /\ UNCHANGED <<permits, hostVars>>
    /\ UNCHANGED <<config, files, record, phase, prompts, asked, written>>

Converse ==
    /\ pc = "complete"
    /\ Conversation
    /\ Goto(IF at' = "answered" THEN "parse"
            ELSE IF at' = "failed" THEN "failed" ELSE "complete")
    /\ UNCHANGED <<config, files, record, llmVars>>

\* Mutant: each answer is written as soon as it is parsed.
ParseWrites ==
    /\ pc = "parse"
    /\ \/ /\ asked' = asked \cup {phase}
          /\ written' = [written EXCEPT ![record] = asked']
          /\ IF phase = "skills" THEN phase' = "domains" /\ Goto("limit")
                                 ELSE Goto("write") /\ UNCHANGED phase
       \/ Goto("failed") /\ UNCHANGED <<asked, phase, written>>
    /\ UNCHANGED <<config, files, record, prompts, permits, hostVars>>

\* The text must be JSON; then the other prompt, or the writing.
Parse ==
    /\ pc = "parse"
    /\ \/ /\ asked' = asked \cup {phase}
          /\ IF phase = "skills" THEN phase' = "domains" /\ Goto("limit")
                                 ELSE Goto("write") /\ UNCHANGED phase
       \/ Goto("failed") /\ UNCHANGED <<asked, phase>>
    /\ UNCHANGED <<config, files, record, prompts, permits, written, hostVars>>

\* setStructSkills and setStructDomains; a decoded record has fields.
Write ==
    /\ pc = "write"
    /\ written' = [written EXCEPT ![record] = asked]
    /\ Goto("enriched")
    /\ UNCHANGED <<config, files, record, phase, prompts, permits, asked,
                   hostVars>>

NewLLMEnricher == ValidateLLM \/ LoadPrompt \/ BuildHost
enrichWithLLM == Decode \/ Wait \/ Converse \/ Parse \/ Write
=============================================================================
