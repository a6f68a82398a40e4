------------------------------ MODULE ToolHost ------------------------------
(***************************************************************************)
(* The tool host of the LLM enricher: New starts an MCP server as a child  *)
(* process, asks it for its tools and makes the client of the model, and   *)
(* closes the server when a later step fails; a prompt is a conversation   *)
(* with the model, which may call tools, of at most maxSteps requests.     *)
(*                                                                         *)
(* The server and the model are external: each call may fail (at the       *)
(* latest when its context ends), and the model answers anything.          *)
(***************************************************************************)
EXTENDS Integers, Sequences, FiniteSets

CONSTANTS
    DefaultMaxSteps,    \* defaultMaxSteps
    MaxCalls            \* bound: the tool calls of one answer

ASSUME HostAssumption ==
    DefaultMaxSteps \in Nat \ {0} /\ MaxCalls \in Nat \ {0}

VARIABLES
    at,         \* "off", "initialize", "list", "completer" in New, then
                \* "ready", "complete", "tool", "answered", "failed"; "refused"
    server,     \* the child process: "none", "running", "closed"
    maxSteps,   \* of the host
    why,        \* the step at which a construction was refused
    steps,      \* iterations of the prompt's loop so far
    calls,      \* tool calls of the last answer still to be made
    msgs,       \* the conversation: "user", "assistant", "tool"
    owed,       \* tool calls the conversation holds
    requests    \* chat completion requests sent, all prompts together

promptVars == <<steps, calls, msgs, owed, requests>>
hostVars == <<at, server, maxSteps, why, promptVars>>

HostInit ==
    /\ at = "off" /\ server = "none" /\ maxSteps = 0 /\ why = "no"
    /\ steps = 0 /\ calls = 0 /\ msgs = <<>> /\ owed = 0 /\ requests = 0

----------------------------------------------------------------------------
\* A configuration is [model, server, maxSteps]: the model's name "empty",
\* "blank" or "named", the entry of the server "missing", "idle" (it has no
\* command) or "command".
HostValid(cfg) == cfg.model # "empty" /\ cfg.server = "command"

\* Mutant: the limit is taken as it is given.
StepLimitGiven(cfg) == cfg.maxSteps

\* What Validate leaves in MaxSteps.
StepLimit(cfg) == IF cfg.maxSteps <= 0 THEN DefaultMaxSteps ELSE cfg.maxSteps

Refuse(step) == at' = "refused" /\ why' = step

StartServer(cfg) ==
    /\ at = "off"
    /\ \/ /\ HostValid(cfg)
          /\ server' = "running" /\ maxSteps' = StepLimit(cfg)
          /\ at' = "initialize"
          /\ UNCHANGED why
       \/ /\ Refuse(IF HostValid(cfg) THEN "start" ELSE "config")
          /\ UNCHANGED <<server, maxSteps>>
    /\ UNCHANGED promptVars

CloseAndRefuse(step) == server' = "closed" /\ Refuse(step)

Initialize ==
    /\ at = "initialize"
    /\ \/ at' = "list" /\ UNCHANGED <<server, why>>
       \/ CloseAndRefuse("initialize")
    /\ UNCHANGED <<maxSteps, promptVars>>

\* Mutant: a server without tools is left to itself.
ListToolsUnclosed ==
    /\ at = "list"
    /\ \/ at' = "completer" /\ UNCHANGED <<server, why>>
       \/ CloseAndRefuse("tools")
       \/ Refuse("tools") /\ UNCHANGED server
    /\ UNCHANGED <<maxSteps, promptVars>>

\* The call fails, a schema cannot be encoded, or there is no tool.
ListTools ==
    /\ at = "list"
    /\ \/ at' = "completer" /\ UNCHANGED <<server, why>>
       \/ CloseAndRefuse("tools")
    /\ UNCHANGED <<maxSteps, promptVars>>

\* newChatCompleter trims the name; a provider may want keys in the environment.
NewCompleter(cfg) ==
    /\ at = "completer"
    /\ \/ cfg.model = "named" /\ at' = "ready" /\ UNCHANGED <<server, why>>
       \/ cfg.model = "named" /\ CloseAndRefuse("keys")
       \/ cfg.model # "named" /\ CloseAndRefuse("model")
    /\ UNCHANGED <<maxSteps, promptVars>>

NewHost(cfg) ==
    StartServer(cfg) \/ Initialize \/ ListTools \/ NewCompleter(cfg)

----------------------------------------------------------------------------
\* Mutant: the conversation goes on where the last one ended.
OneConversation == msgs' = Append(msgs, "user") /\ owed' = owed

\* A prompt starts a conversation of its own; ClearSession has nothing to do.
OneUserMessage == msgs' = <<"user">> /\ owed' = 0

Prompt ==
    /\ at \in {"ready", "answered"}
    /\ at' = "complete" /\ steps' = 0
    /\ OneUserMessage
    /\ UNCHANGED <<server, maxSteps, why, calls, requests>>

\* Mutant: off by one.
MoreStepsLate == steps <= maxSteps

MoreSteps == steps < maxSteps

\* One iteration: an answer without tool calls ends the loop.
ChatCompletion ==
    /\ at = "complete" /\ MoreSteps
    /\ requests' = requests + 1 /\ steps' = steps + 1
    /\ \/ at' \in {"answered", "failed"} /\ UNCHANGED <<calls, msgs, owed>>
       \/ /\ at' = "tool" /\ calls' \in 1..MaxCalls
          /\ owed' = owed + calls' /\ msgs' = Append(msgs, "assistant")
    /\ UNCHANGED <<server, maxSteps, why>>

\* A tool call that fails is answered with the text of its error.
callMCPTool ==
    /\ at = "tool"
    /\ calls' = calls - 1 /\ msgs' = Append(msgs, "tool")
    /\ at' = IF calls = 1 THEN "complete" ELSE "tool"
    /\ UNCHANGED <<server, maxSteps, why, steps, owed, requests>>

\* Mutant: the limit is waited for on the other side.
StepsExceededLate ==
    /\ at = "complete" /\ steps > maxSteps
    /\ at' = "failed"
    /\ UNCHANGED <<server, maxSteps, why, promptVars>>

StepsExceeded ==
    /\ at = "complete" /\ ~MoreSteps
    /\ at' = "failed"
    /\ UNCHANGED <<server, maxSteps, why, promptVars>>

Conversation == ChatCompletion \/ callMCPTool \/ StepsExceeded

----------------------------------------------------------------------------
HostTypes ==
    /\ at \in {"off", "initialize", "list", "completer", "ready", "complete",
               "tool", "answered", "failed", "refused"}
    /\ server \in {"none", "running", "closed"}
    /\ maxSteps \in Nat /\ steps \in 0..maxSteps /\ calls \in 0..MaxCalls
    /\ owed \in Nat /\ requests \in Nat
    /\ msgs \in Seq({"user", "assistant", "tool"})

Starting == at \in {"off", "initialize", "list", "completer"}
Conversing == at \in {"complete", "tool"}

Messages(role) == Cardinality({k \in DOMAIN msgs : msgs[k] = role})

\* The model is never asked to go on while a tool call of its last answer is
\* unanswered, and never sees the conversation of another prompt: what it is
\* sent is one user message, then answers each followed by the results of all
\* its calls.
CallsAnswered ==
    at = "complete" =>
        /\ msgs # <<>> /\ \A k \in DOMAIN msgs : msgs[k] = "user" <=> k = 1
        /\ Messages("tool") = owed
        /\ Messages("assistant") = steps

\* Its inductive form, which also says what is owed while tools are called.
CallsOwed ==
    /\ Starting => steps = 0 /\ requests = 0
    /\ Conversing =>
        /\ msgs # <<>> /\ \A k \in DOMAIN msgs : msgs[k] = "user" <=> k = 1
        /\ Messages("tool") = IF at = "tool" THEN owed - calls ELSE owed
        /\ Messages("assistant") = steps
    /\ at = "tool" => calls > 0
=============================================================================
