------------------------- MODULE ImporterNewProofs --------------------------
(***************************************************************************)
(* Proofs about ImporterNew, for any configurations, template files and    *)
(* number of records, any step limit and any number of tool calls.         *)
(***************************************************************************)
EXTENDS ImporterNew, FiniteSetTheorems, TLAPS

USE DEF Fields, Types, Methods, FileStates, LLM, Goto, Before, Enriching, Built,
        Starting, Conversing, promptVars, hostVars, llmVars, newVars

\* What the proofs use of the assumptions on the configurations.
LEMMA Configured ==
    ASSUME TypeOK
    PROVE  /\ {config.validates, config.static, config.extractor} \subseteq BOOLEAN
           /\ config.methods \subseteq Methods
           /\ config.llm.host.model \in {"empty", "blank", "named"}
           /\ config.source \in {"empty", "blank", "bad", "usable"}
           /\ config.llm.host.maxSteps \in Int /\ config.llm.rpm \in Int
           /\ config.llm.template \in [Fields -> {"default", "file"}]
           /\ StepLimit(LLM.host) \in Nat \ {0}
BY NewAssumption, HostAssumption DEF TypeOK, StepLimit

Roles == {"user", "assistant", "tool"}

LEMMA Growing ==
    /\ <<>> \in Seq(Roles) /\ <<"user">> \in Seq(Roles)
    /\ \A s \in Seq(Roles), r \in Roles : Append(s, r) \in Seq(Roles)
BY DEF Roles

\* The actions, each with what it leaves alone.
LEMMA Actions ==
    ASSUME [Next]_vars
    PROVE  \/ Validate \/ Create \/ NewFetcher \/ NewEnricher
           \/ NewLLMEnricher /\ UNCHANGED newVars
           \/ Decode /\ UNCHANGED newVars
           \/ Wait /\ UNCHANGED newVars
           \/ Converse /\ UNCHANGED newVars
           \/ Parse /\ UNCHANGED newVars
           \/ Write /\ UNCHANGED newVars
           \/ NextRecord \/ Assign \/ Edit \/ UNCHANGED vars
BY DEF Next, Progress, enrichWithLLM, Stopped

----------------------------------------------------------------------------
LEMMA InitInv == Init => Inv
<1> SUFFICES ASSUME Init PROVE Inv
    OBVIOUS
<1> USE DEF Init, HostInit
<1>1. TypeOK
    <2>1. HostTypes
        BY HostAssumption, Growing DEF HostTypes, Roles
    <2>2. files \in [Fields -> FileStates] /\ config \in Configs
        BY NewAssumption
    <2>3. edits \in 0..MaxEdits /\ record \in 0..Records
        BY NewAssumption
    <2>4. /\ written \in [1..Records -> SUBSET Fields]
          /\ prompts \in [Fields -> {"none", "blank", "text"}]
        OBVIOUS
    <2>. QED
        BY <2>1, <2>2, <2>3, <2>4 DEF TypeOK
<1>2. InStep /\ StillValid /\ Progressing /\ Spending /\ CallsOwed
    BY NewAssumption DEF InStep, StillValid, Progressing, Unasked, Spending, CallsOwed
<1>3. NoOrphanServer /\ AllOrNothing /\ CostBounded /\ ValidConfigBuilds
    BY NewAssumption DEF NoOrphanServer, AllOrNothing, CostBounded, ValidConfigBuilds
<1>. QED
    BY <1>1, <1>2, <1>3 DEF Inv

\* The host keeps its types, whatever the model and the tools answer.
LEMMA HostTypesKept ==
    ASSUME Inv, [Next]_vars
    PROVE  HostTypes'
<1> USE DEF Inv, TypeOK, HostTypes
<1>1. CASE Validate \/ Create \/ NewFetcher \/ NewEnricher
    BY <1>1 DEF Validate, Create, NewFetcher, NewEnricher, Failed
<1>2. CASE ValidateLLM \/ LoadPrompt
    BY <1>2 DEF ValidateLLM, LoadPrompt, Failed
<1>3. CASE BuildHost
    <2>1. CASE StartServer(LLM.host)
        BY <1>3, <2>1, Configured DEF StartServer, Refuse, CallsOwed
    <2>2. CASE Initialize \/ ListTools \/ NewCompleter(LLM.host)
        BY <2>2 DEF Initialize, ListTools, NewCompleter, CloseAndRefuse, Refuse
    <2>. QED
        BY <1>3, <2>1, <2>2 DEF BuildHost, NewHost
<1>4. CASE Wait
    <2>1. CASE UNCHANGED hostVars
        BY <2>1
    <2>2. CASE Prompt
        <3>1. msgs' \in Seq(Roles)
            BY <2>2, Growing DEF Prompt, OneUserMessage
        <3>. QED
            BY <2>2, <3>1 DEF Prompt, OneUserMessage, Roles
    <2>. QED
        BY <1>4, <2>1, <2>2 DEF Wait
<1>5. CASE Converse
    <2>1. CASE ChatCompletion
        <3>1. steps + 1 \in 0..maxSteps /\ requests + 1 \in Nat
            BY <2>1 DEF ChatCompletion, MoreSteps
        <3>2. msgs' \in Seq(Roles)
            BY <2>1, Growing DEF ChatCompletion, Roles
        <3>3. calls' \in 0..MaxCalls /\ owed' \in Nat
            <4>1. \A n \in 1..MaxCalls : n \in 0..MaxCalls /\ owed + n \in Nat
                BY HostAssumption
            <4>. QED
                BY <2>1, <4>1 DEF ChatCompletion
        <3>. QED
            BY <2>1, <3>1, <3>2, <3>3 DEF ChatCompletion, Roles
    <2>2. CASE callMCPTool
        <3>1. msgs' \in Seq(Roles) /\ calls' \in 0..MaxCalls
            BY <2>2, Growing, HostAssumption DEF callMCPTool, CallsOwed, Roles
        <3>. QED
            BY <2>2, <3>1 DEF callMCPTool, Roles
    <2>3. CASE StepsExceeded
        BY <2>3 DEF StepsExceeded
    <2>. QED
        BY <1>5, <2>1, <2>2, <2>3 DEF Converse, Conversation
<1>6. CASE Decode \/ Parse \/ Write \/ NextRecord \/ Assign \/ Edit \/ UNCHANGED vars
    BY <1>6 DEF Decode, Parse, Write, NextRecord, Assign, Edit, vars
<1>. QED
    BY <1>1, <1>2, <1>3, <1>4, <1>5, <1>6, Actions DEF NewLLMEnricher

LEMMA TypesKept ==
    ASSUME Inv, [Next]_vars
    PROVE  TypeOK'
<1>1. HostTypes'
    BY HostTypesKept
<1> USE DEF Inv, TypeOK
<1>2. CASE Validate \/ Create \/ NewFetcher
    BY <1>1, <1>2 DEF Validate, Create, NewFetcher, Failed
<1>3. CASE NewEnricher
    BY <1>1, <1>3 DEF NewEnricher, Selected, Failed
<1>4. CASE NewLLMEnricher /\ UNCHANGED newVars
    <2>1. Loaded(phase) \in FileStates
        BY DEF Loaded
    <2>2. CASE ValidateLLM
        BY <1>1, <1>4, <2>2 DEF ValidateLLM, Failed
    <2>3. CASE LoadPrompt
        BY <1>1, <1>4, <2>1, <2>3 DEF LoadPrompt, Failed
    <2>4. CASE BuildHost
        BY <1>1, <1>4, <2>4 DEF BuildHost
    <2>. QED
        BY <1>4, <2>2, <2>3, <2>4 DEF NewLLMEnricher
<1>5. CASE (Decode \/ Wait \/ Converse \/ Parse) /\ UNCHANGED newVars
    <2>1. CASE Decode
        BY <1>1, <1>5, <2>1 DEF Decode
    <2>2. CASE Wait
        BY <1>1, <1>5, <2>2 DEF Wait
    <2>3. CASE Converse
        BY <1>1, <1>5, <2>3 DEF Converse
    <2>4. CASE Parse
        BY <1>1, <1>5, <2>4 DEF Parse
    <2>. QED
        BY <1>5, <2>1, <2>2, <2>3, <2>4
<1>6. CASE Write /\ UNCHANGED newVars
    BY <1>1, <1>6 DEF Write
<1>7. CASE NextRecord
    BY <1>1, <1>7, NewAssumption DEF NextRecord
<1>8. CASE Assign
    BY <1>1, <1>8 DEF Assign
<1>9. CASE Edit
    BY <1>1, <1>9, NewAssumption DEF Edit
<1>10. CASE UNCHANGED vars
    BY <1>1, <1>10 DEF vars
<1>. QED
    BY <1>2, <1>3, <1>4, <1>5, <1>6, <1>7, <1>8, <1>9, <1>10, Actions

----------------------------------------------------------------------------
\* The importer, the enricher and the host go forward together.
LEMMA InStepKept ==
    ASSUME Inv, [Next]_vars
    PROVE  InStep'
<1> USE DEF Inv, TypeOK, InStep
<1>1. CASE Validate \/ Create \/ NewFetcher
    BY <1>1 DEF Validate, Create, NewFetcher, Failed
<1>2. CASE NewEnricher
    <2>1. Selected # "none" => Selected \in config.methods
        BY DEF Selected
    <2>. QED
        BY <1>2, <2>1 DEF NewEnricher, Failed
<1>3. CASE (ValidateLLM \/ LoadPrompt) /\ UNCHANGED newVars
    BY <1>3 DEF ValidateLLM, LoadPrompt, Failed
<1>4. CASE BuildHost /\ UNCHANGED newVars
    <2>1. CASE StartServer(LLM.host)
        BY <1>4, <2>1, Configured DEF BuildHost, StartServer, Refuse
    <2>2. CASE Initialize \/ ListTools
        BY <1>4, <2>2 DEF BuildHost, Initialize, ListTools, CloseAndRefuse, Refuse
    <2>3. CASE NewCompleter(LLM.host)
        BY <1>4, <2>3 DEF BuildHost, NewCompleter, CloseAndRefuse, Refuse
    <2>. QED
        BY <1>4, <2>1, <2>2, <2>3 DEF BuildHost, NewHost
<1>5. CASE (Decode \/ Parse \/ Write) /\ UNCHANGED newVars
    BY <1>5 DEF Decode, Parse, Write
<1>6. CASE Wait /\ UNCHANGED newVars
    BY <1>6 DEF Wait, Prompt
<1>7. CASE Converse /\ UNCHANGED newVars
    BY <1>7 DEF Converse, Conversation, ChatCompletion, callMCPTool, StepsExceeded
<1>8. CASE NextRecord \/ Assign \/ Edit \/ UNCHANGED vars
    BY <1>8 DEF NextRecord, Assign, Edit, vars
<1>. QED
    BY <1>1, <1>2, <1>3, <1>4, <1>5, <1>6, <1>7, <1>8, Actions DEF NewLLMEnricher

\* What Validate checks is what StillValid remembers of it.
LEMMA StillValidKept ==
    ASSUME Inv, [Next]_vars
    PROVE  StillValid'
<1> USE DEF Inv, TypeOK, InStep, StillValid, Fit
<1>1. CASE Validate
    BY <1>1 DEF Validate, EnricherValid, LLMValid, OneMethod, LLMSettings,
                ValidTemplates, Failed
<1>2. CASE Create \/ NewFetcher \/ NewEnricher
    BY <1>2 DEF Create, NewFetcher, NewEnricher, OneMethod, LLMSettings,
                ValidTemplates, Failed
<1>3. CASE ValidateLLM /\ UNCHANGED newVars
    BY <1>3 DEF ValidateLLM, LLMValid, OneMethod, LLMSettings, ValidTemplates,
                Failed
<1>4. CASE LoadPrompt /\ UNCHANGED newVars
    <2>1. /\ Loaded(phase) \in FileStates
          /\ edits = 0 => Loaded(phase) = "text"
        BY <1>4, Configured DEF LoadPrompt, Loaded, ValidTemplates
    <2>2. edits \in Nat
        BY NewAssumption
    <2>. QED
        BY <1>4, <2>1, <2>2 DEF LoadPrompt, OneMethod, LLMSettings,
                                ValidTemplates, Failed
<1>5. CASE BuildHost /\ UNCHANGED newVars
    <2>1. at' = "ready" => LLM.host.model = "named"
        BY <1>5 DEF BuildHost, NewHost, StartServer, Initialize, ListTools,
                    NewCompleter, CloseAndRefuse, Refuse
    <2>. QED
        BY <1>5, <2>1 DEF BuildHost, OneMethod, LLMSettings, ValidTemplates
<1>6. CASE (Decode \/ Wait \/ Converse \/ Parse \/ Write) /\ UNCHANGED newVars
    BY <1>6 DEF Decode, Wait, Converse, Parse, Write, OneMethod, LLMSettings,
                ValidTemplates
<1>7. CASE NextRecord \/ Assign
    BY <1>7 DEF NextRecord, Assign, OneMethod, LLMSettings, ValidTemplates
<1>8. CASE Edit
    <2>1. edits \in Nat /\ edits' = edits + 1
        BY <1>8, NewAssumption DEF Edit
    <2>. QED
        BY <1>8, <2>1 DEF Edit, OneMethod, LLMSettings
<1>9. CASE UNCHANGED vars
    BY <1>9 DEF vars, OneMethod, LLMSettings, ValidTemplates
<1>. QED
    BY <1>1, <1>2, <1>3, <1>4, <1>5, <1>6, <1>7, <1>8, <1>9, Actions
       DEF NewLLMEnricher

LEMMA Product ==
    ASSUME NEW p \in Nat, NEW m \in Nat
    PROVE  p * m \in Nat /\ (p + 1) * m = p * m + m /\ 0 * m = 0
OBVIOUS

LEMMA ProgressingKept ==
    ASSUME Inv, [Next]_vars
    PROVE  Progressing'
<1> USE DEF Inv, TypeOK, Progressing, Unasked
<1>1. CASE Validate \/ Create \/ NewFetcher \/ NewEnricher
    BY <1>1 DEF Validate, Create, NewFetcher, NewEnricher, Failed
<1>2. CASE (ValidateLLM \/ LoadPrompt) /\ UNCHANGED newVars
    BY <1>2 DEF ValidateLLM, LoadPrompt, Failed
<1>3. CASE BuildHost /\ UNCHANGED newVars
    BY <1>3 DEF BuildHost
<1>4. CASE Decode /\ UNCHANGED newVars
    BY <1>4 DEF Decode
<1>5. CASE Wait /\ UNCHANGED newVars
    BY <1>5 DEF Wait
<1>6. CASE Converse /\ UNCHANGED newVars
    BY <1>6 DEF Converse
<1>7. CASE Parse /\ UNCHANGED newVars
    <2>1. pc = "parse" /\ UNCHANGED <<record, permits>>
        BY <1>7 DEF Parse
    <2>2. CASE pc' = "limit" /\ phase = "skills" /\ phase' = "domains"
               /\ asked' = asked \cup {phase}
        BY <2>1, <2>2
    <2>3. CASE pc' = "write" /\ phase = "domains" /\ phase' = "domains"
               /\ asked' = asked \cup {phase}
        BY <2>1, <2>3
    <2>4. CASE pc' = "failed"
        BY <2>1, <2>4
    <2>. QED
        BY <1>7, <2>2, <2>3, <2>4 DEF Parse
<1>8. CASE Write /\ UNCHANGED newVars
    BY <1>8 DEF Write
<1>9. CASE NextRecord
    BY <1>9, NewAssumption DEF NextRecord, InStep
<1>10. CASE Assign
    BY <1>10 DEF Assign
<1>11. CASE Edit \/ UNCHANGED vars
    BY <1>11 DEF Edit, vars
<1>. QED
    BY <1>1, <1>2, <1>3, <1>4, <1>5, <1>6, <1>7, <1>8, <1>9, <1>10, <1>11, Actions
       DEF NewLLMEnricher

LEMMA NothingSpent ==
    ASSUME requests' = 0, permits' * maxSteps' = 0, pc' # "complete"
    PROVE  Spending'
BY DEF Spending

LEMMA SpendingKept ==
    ASSUME Inv, [Next]_vars
    PROVE  Spending'
<1> USE DEF Inv, TypeOK, HostTypes, InStep, Spending
<1>1. /\ permits * maxSteps \in Nat
      /\ (permits + 1) * maxSteps = permits * maxSteps + maxSteps
    BY Product
<1>2. CASE /\ pc # "complete" /\ pc' # "complete"
           /\ UNCHANGED <<requests, permits, maxSteps>>
    BY <1>2
<1>3. CASE BuildHost
    <2>1. requests' = 0 /\ permits' = 0 /\ maxSteps' \in Nat /\ pc' # "complete"
        BY <1>3, HostTypesKept
           DEF BuildHost, NewHost, StartServer, Initialize, ListTools,
               NewCompleter, CallsOwed, Progressing
    <2>2. permits' * maxSteps' = 0
        BY <2>1, Product
    <2>. QED
        BY <2>1, <2>2, NothingSpent
<1>4. CASE Wait
    <2>1. pc # "complete" /\ requests <= permits * maxSteps
        BY <1>4 DEF Wait
    <2>2. CASE /\ pc' = "complete" /\ permits' = permits + 1 /\ steps' = 0
               /\ UNCHANGED <<requests, maxSteps>>
        <3>1. permits' * maxSteps' = permits * maxSteps + maxSteps
            BY <1>1, <2>2
        <3>2. requests \in Int /\ maxSteps \in Int
            OBVIOUS
        <3>. QED
            BY <1>1, <2>1, <2>2, <3>1, <3>2
    <2>3. CASE pc' = "failed" /\ UNCHANGED <<permits, requests, maxSteps>>
        BY <1>2, <2>1, <2>3
    <2>. QED
        BY <1>4, <2>2, <2>3 DEF Wait, Prompt
<1>5. CASE Converse
    <2>1. pc = "complete" /\ UNCHANGED <<permits, maxSteps>>
        BY <1>5 DEF Converse, Conversation, ChatCompletion, callMCPTool, StepsExceeded
    <2>2. permits' * maxSteps' = permits * maxSteps
        BY <2>1
    <2>3. \/ requests' = requests + 1 /\ steps' = steps + 1 /\ steps < maxSteps
          \/ UNCHANGED <<requests, steps>>
        BY <1>5 DEF Converse, Conversation, ChatCompletion, callMCPTool,
                    StepsExceeded, MoreSteps
    <2>4. /\ requests \in Int /\ maxSteps \in Int /\ steps \in Int
          /\ steps <= maxSteps /\ requests <= permits * maxSteps - (maxSteps - steps)
        BY <2>1
    <2>. QED
        BY <1>1, <2>1, <2>2, <2>3, <2>4
<1>6. ASSUME Validate \/ Create \/ NewFetcher \/ NewEnricher \/ ValidateLLM
             \/ LoadPrompt \/ Decode \/ Parse \/ Write \/ NextRecord \/ Assign \/ Edit
      PROVE  /\ pc # "complete" /\ pc' # "complete"
             /\ UNCHANGED <<requests, permits, maxSteps>>
    BY <1>6 DEF Validate, Create, NewFetcher, NewEnricher, ValidateLLM, LoadPrompt,
                Failed, Decode, Parse, Write, NextRecord, Assign, Edit
<1>7. CASE UNCHANGED vars
    BY <1>7 DEF vars
<1>. QED
    BY <1>2, <1>3, <1>4, <1>5, <1>6, <1>7, Actions DEF NewLLMEnricher

\* A construction that is refused has closed the server it started.
LEMMA NoOrphanKept ==
    ASSUME Inv, [Next]_vars
    PROVE  NoOrphanServer'
<1>1. InStep' /\ TypeOK'
    BY InStepKept, TypesKept
<1>. QED
    BY <1>1 DEF InStep, NoOrphanServer

LEMMA CostKept ==
    ASSUME Inv, [Next]_vars
    PROVE  CostBounded'
<1>1. Progressing' /\ Spending' /\ TypeOK'
    BY ProgressingKept, SpendingKept, TypesKept
<1>2. permits' <= 2 * record'
    <2>1. permits' \in Int /\ record' \in Int
        BY <1>1, NewAssumption DEF TypeOK
    <2>2. Unasked' \in 0..2
        BY DEF Unasked
    <2>3. permits' <= 2 * record' - Unasked'
        BY <1>1 DEF Progressing
    <2>. QED
        <3> DEFINE p == permits'
                   r == record'
                   u == Unasked'
        <3>1. p \in Int /\ r \in Int /\ u \in 0..2 /\ p <= 2 * r - u
            BY <2>1, <2>2, <2>3
        <3> HIDE DEF p, r, u
        <3>2. p <= 2 * r
            BY <3>1
        <3>. QED
            BY <3>2 DEF p, r
<1>3. permits' * maxSteps' \in Nat
    BY <1>1, Product DEF TypeOK, HostTypes
<1>4. requests' <= permits' * maxSteps'
    <2>1. requests' \in Int /\ maxSteps' \in Int /\ steps' \in Int /\ steps' <= maxSteps'
        BY <1>1 DEF TypeOK, HostTypes
    <2>. QED
        BY <1>1, <1>3, <2>1 DEF Spending
<1>. QED
    BY <1>2, <1>4 DEF CostBounded

LEMMA AllOrNothingKept ==
    ASSUME Inv, [Next]_vars
    PROVE  AllOrNothing'
<1> USE DEF Inv, TypeOK, AllOrNothing, Progressing
<1>1. CASE Validate \/ Create \/ NewFetcher \/ NewEnricher
    BY <1>1 DEF Validate, Create, NewFetcher, NewEnricher, Failed
<1>2. CASE NewLLMEnricher /\ UNCHANGED newVars
    BY <1>2 DEF NewLLMEnricher, ValidateLLM, LoadPrompt, BuildHost, Failed
<1>3. CASE (Decode \/ Wait \/ Converse \/ Parse) /\ UNCHANGED newVars
    BY <1>3 DEF Decode, Wait, Converse, Parse
<1>4. CASE Write /\ UNCHANGED newVars
    BY <1>4 DEF Write
<1>5. CASE NextRecord
    BY <1>5, NewAssumption DEF NextRecord
<1>6. CASE Assign
    BY <1>6 DEF Assign
<1>7. CASE Edit \/ UNCHANGED vars
    BY <1>7 DEF Edit, vars
<1>. QED
    BY <1>1, <1>2, <1>3, <1>4, <1>5, <1>6, <1>7, Actions

\* How an appended message changes the number of messages of each role.
LEMMA Counting ==
    ASSUME msgs \in Seq(Roles), NEW x \in Roles, msgs' = Append(msgs, x), NEW r
    PROVE  /\ Messages(r) \in Nat
           /\ Messages(r)' = IF x = r THEN Messages(r) + 1 ELSE Messages(r)
<1> DEFINE K == {k \in DOMAIN msgs : msgs[k] = r}
<1>1. /\ Len(msgs) \in Nat /\ DOMAIN msgs = 1..Len(msgs)
      /\ DOMAIN msgs' = 1..(Len(msgs) + 1) /\ msgs'[Len(msgs) + 1] = x
      /\ \A k \in 1..Len(msgs) : msgs'[k] = msgs[k]
    OBVIOUS
<1>2. IsFiniteSet(K) /\ Cardinality(K) \in Nat
    <2>1. IsFiniteSet(1..Len(msgs)) /\ K \subseteq 1..Len(msgs)
        BY <1>1, FS_Interval
    <2>2. IsFiniteSet(K)
        BY <2>1, FS_Subset
    <2>. QED
        BY <2>2, FS_CardinalityType
<1>3. Messages(r) = Cardinality(K) /\ Messages(r)' = Cardinality(K')
    BY DEF Messages
<1>4. CASE x = r
    <2>1. K' = K \cup {Len(msgs) + 1} /\ Len(msgs) + 1 \notin K
        BY <1>1, <1>4
    <2> HIDE DEF K
    <2>2. Cardinality(K \cup {Len(msgs) + 1}) = Cardinality(K) + 1
        BY <1>2, <2>1, FS_AddElement
    <2>. QED
        BY <1>2, <1>3, <1>4, <2>1, <2>2
<1>5. CASE x # r
    <2>1. K' = K
        BY <1>1, <1>5
    <2>. QED
        BY <1>2, <1>3, <1>5, <2>1
<1>. QED
    BY <1>4, <1>5

\* The first message is the user's and the only one, also after another answer.
LEMMA OneUser ==
    ASSUME NEW s \in Seq(Roles), s # <<>>, NEW x \in Roles \ {"user"},
           \A k \in DOMAIN s : s[k] = "user" <=> k = 1
    PROVE  /\ Append(s, x) # <<>>
           /\ \A k \in DOMAIN Append(s, x) : Append(s, x)[k] = "user" <=> k = 1
<1>1. /\ Len(s) \in Nat \ {0} /\ DOMAIN s = 1..Len(s)
      /\ DOMAIN Append(s, x) = 1..(Len(s) + 1)
      /\ Append(s, x)[Len(s) + 1] = x
      /\ \A k \in 1..Len(s) : Append(s, x)[k] = s[k]
    OBVIOUS
<1>2. \A k \in 1..(Len(s) + 1) : k \in 1..Len(s) \/ k = Len(s) + 1
    BY <1>1
<1>3. Append(s, x) # <<>>
    BY <1>1
<1>. QED
    BY <1>1, <1>2, <1>3

\* What a further message means for the counts of the conversation.
LEMMA Spoken ==
    ASSUME msgs \in Seq(Roles), msgs # <<>>, NEW x \in {"assistant", "tool"},
           \A k \in DOMAIN msgs : msgs[k] = "user" <=> k = 1,
           msgs' = Append(msgs, x)
    PROVE  /\ msgs' # <<>>
           /\ \A k \in DOMAIN msgs' : msgs'[k] = "user" <=> k = 1
           /\ Messages("tool") \in Nat /\ Messages("assistant") \in Nat
           /\ Messages("tool")' =
                IF x = "tool" THEN Messages("tool") + 1 ELSE Messages("tool")
           /\ Messages("assistant")' =
                IF x = "assistant" THEN Messages("assistant") + 1
                ELSE Messages("assistant")
<1>1. x \in Roles /\ x \in Roles \ {"user"}
    BY DEF Roles
<1>2. \A r : /\ Messages(r) \in Nat
             /\ Messages(r)' = IF x = r THEN Messages(r) + 1 ELSE Messages(r)
    BY <1>1, Counting
<1>3. /\ msgs' # <<>>
      /\ \A k \in DOMAIN msgs' : msgs'[k] = "user" <=> k = 1
    BY <1>1, OneUser
<1>. QED
    BY <1>2, <1>3

LEMMA CallsOwedKept ==
    ASSUME Inv, [Next]_vars
    PROVE  CallsOwed'
<1>1. /\ CallsOwed /\ msgs \in Seq(Roles)
      /\ {steps, calls, owed, requests} \subseteq Nat
      /\ pc = "host" => Starting
    <2>1. HostTypes /\ CallsOwed /\ InStep
        BY DEF Inv, TypeOK
    <2>2. {steps, calls, owed, requests} \subseteq Nat
        BY <2>1, HostAssumption DEF HostTypes
    <2>. QED
        BY <2>1, <2>2 DEF HostTypes, InStep, Roles
<1>2. CASE UNCHANGED <<at, promptVars>>
    BY <1>1, <1>2 DEF CallsOwed, Messages
<1>3. CASE BuildHost
    <2>1. UNCHANGED promptVars /\ Starting /\ ~Conversing'
        BY <1>1, <1>3 DEF BuildHost, NewHost, StartServer, Initialize, ListTools,
                          NewCompleter, CloseAndRefuse, Refuse
    <2>. QED
        BY <1>1, <2>1 DEF CallsOwed
<1>4. CASE Prompt
    <2>1. msgs' = <<"user">> /\ owed' = 0 /\ steps' = 0 /\ at' = "complete"
        BY <1>4 DEF Prompt, OneUserMessage
    <2>2. /\ {k \in DOMAIN msgs' : msgs'[k] = "tool"} = {}
          /\ {k \in DOMAIN msgs' : msgs'[k] = "assistant"} = {}
          /\ msgs' # <<>> /\ \A k \in DOMAIN msgs' : msgs'[k] = "user" <=> k = 1
        BY <2>1
    <2>3. Messages("tool")' = 0 /\ Messages("assistant")' = 0
        BY <2>2, FS_EmptySet DEF Messages
    <2>. QED
        BY <2>1, <2>2, <2>3 DEF CallsOwed
<1>5. CASE ChatCompletion
    <2>1. CASE at' \in {"answered", "failed"}
        BY <2>1 DEF CallsOwed
    <2>2. CASE /\ at' = "tool" /\ calls' \in 1..MaxCalls
               /\ owed' = owed + calls' /\ msgs' = Append(msgs, "assistant")
        <3>1. /\ at = "complete" /\ steps' = steps + 1
              /\ msgs # <<>> /\ \A k \in DOMAIN msgs : msgs[k] = "user" <=> k = 1
              /\ Messages("tool") = owed /\ Messages("assistant") = steps
            BY <1>1, <1>5 DEF ChatCompletion, CallsOwed
        <3>2. /\ msgs' # <<>>
              /\ \A k \in DOMAIN msgs' : msgs'[k] = "user" <=> k = 1
              /\ Messages("tool")' = Messages("tool")
              /\ Messages("assistant")' = Messages("assistant") + 1
            BY <1>1, <2>2, <3>1, Spoken
        <3>3. calls' > 0 /\ owed' - calls' = owed
            BY <1>1, <2>2, HostAssumption
        <3>. QED
            BY <2>2, <3>1, <3>2, <3>3 DEF CallsOwed
    <2>. QED
        BY <1>5, <2>1, <2>2 DEF ChatCompletion
<1>6. CASE callMCPTool
    <2>1. /\ at = "tool" /\ calls' = calls - 1 /\ msgs' = Append(msgs, "tool")
          /\ at' = IF calls = 1 THEN "complete" ELSE "tool"
          /\ UNCHANGED <<steps, owed, requests>>
        BY <1>6 DEF callMCPTool
    <2>2. /\ calls > 0 /\ msgs # <<>>
          /\ \A k \in DOMAIN msgs : msgs[k] = "user" <=> k = 1
          /\ Messages("tool") = owed - calls /\ Messages("assistant") = steps
        BY <1>1, <2>1 DEF CallsOwed
    <2>3. /\ msgs' # <<>>
          /\ \A k \in DOMAIN msgs' : msgs'[k] = "user" <=> k = 1
          /\ Messages("tool")' = Messages("tool") + 1
          /\ Messages("assistant")' = Messages("assistant")
        BY <1>1, <2>1, <2>2, Spoken
    <2>4. owed - calls + 1 = owed - (calls - 1) /\ (calls = 1 => owed - calls + 1 = owed)
        BY <1>1
    <2>5. calls # 1 => calls' > 0
        BY <1>1, <2>1, <2>2
    <2>. QED
        BY <2>1, <2>2, <2>3, <2>4, <2>5 DEF CallsOwed
<1>7. CASE StepsExceeded
    BY <1>7 DEF StepsExceeded, CallsOwed
<1>8. CASE Validate \/ Create \/ NewFetcher \/ NewEnricher \/ ValidateLLM
           \/ LoadPrompt \/ Decode \/ Parse \/ Write \/ NextRecord \/ Assign \/ Edit
           \/ UNCHANGED vars
    <2>1. UNCHANGED <<at, promptVars>>
        BY <1>8 DEF Validate, Create, NewFetcher, NewEnricher, ValidateLLM,
            LoadPrompt, Failed, Decode, Parse, Write, NextRecord, Assign, Edit, vars
    <2>. QED
        BY <1>2, <2>1
<1>. QED
    BY <1>2, <1>3, <1>4, <1>5, <1>6, <1>7, <1>8, Actions
       DEF NewLLMEnricher, Wait, Converse, Conversation

LEMMA OnlyMethod ==
    ASSUME config.methods \subseteq Methods, OneMethod
    PROVE  \E e : config.methods = {e}
<1>1. IsFiniteSet({"static"})
    BY FS_Singleton
<1>2. IsFiniteSet(Methods)
    <2>1. IsFiniteSet({"static"} \cup {"extractor"})
        BY <1>1, FS_AddElement
    <2>2. IsFiniteSet(({"static"} \cup {"extractor"}) \cup {"llm"})
        BY <2>1, FS_AddElement
    <2>3. Methods = ({"static"} \cup {"extractor"}) \cup {"llm"}
        OBVIOUS
    <2>. QED
        BY <2>2, <2>3
<1>3. IsFiniteSet(config.methods)
    BY <1>2, FS_Subset
<1>. QED
    BY <1>3, FS_Singleton DEF OneMethod

\* Each way to be refused is one that ValidConfigBuilds names.
LEMMA RefusalsKept ==
    ASSUME Inv, [Next]_vars
    PROVE  ValidConfigBuilds'
<1> USE DEF Inv, TypeOK, InStep, StillValid, ValidConfigBuilds
<1>1. edits \in Nat
    BY NewAssumption
<1>2. CASE Validate \/ Create
    BY <1>2 DEF Validate, Create, Failed
<1>3. CASE NewFetcher
    BY <1>3, Configured DEF NewFetcher, FetcherRefuses, Failed
<1>4. CASE NewEnricher
    <2>1. valid => \E e : config.methods = {e}
        BY Configured, OnlyMethod
    <2>2. valid => Selected # "none"
        BY <2>1, Configured DEF Selected
    <2>3. Selected # "none" => Selected \in config.methods
        BY DEF Selected
    <2>. QED
        BY <1>4, <2>2, <2>3 DEF NewEnricher, Failed
<1>5. CASE ValidateLLM /\ UNCHANGED newVars
    BY <1>1, <1>5 DEF ValidateLLM, LLMValid, Failed
<1>6. CASE LoadPrompt /\ UNCHANGED newVars
    <2>1. edits = 0 => Loaded(phase) = "text"
        BY <1>6, Configured DEF LoadPrompt, Loaded, ValidTemplates
    <2>. QED
        BY <1>1, <1>6, <2>1 DEF LoadPrompt, Failed
<1>7. CASE BuildHost /\ UNCHANGED newVars
    <2>1. LLMSettings /\ pc = "host"
        BY <1>7 DEF BuildHost
    <2>2. HostValid(LLM.host) /\ LLM.host.model \in {"blank", "named"}
        BY <2>1, Configured DEF LLMSettings, HostValid
    <2>3. at' = "refused" =>
            \/ why' \in {"start", "initialize", "tools", "keys"}
            \/ why' = "model" /\ config.llm.host.model = "blank"
        BY <1>7, <2>2 DEF BuildHost, NewHost, StartServer, Initialize, ListTools,
                          NewCompleter, CloseAndRefuse, Refuse
    <2>4. pc' = "refused" => at' = "refused"
        BY <1>7 DEF BuildHost
    <2>5. config' = config
        BY <1>7 DEF BuildHost
    <2>. QED
        BY <2>3, <2>4, <2>5
<1>8. CASE (Decode \/ Wait \/ Converse \/ Parse \/ Write) /\ UNCHANGED newVars
    BY <1>8 DEF Decode, Wait, Converse, Parse, Write
<1>9. CASE NextRecord \/ Assign
    BY <1>9 DEF NextRecord, Assign
<1>10. CASE Edit \/ UNCHANGED vars
    BY <1>1, <1>10 DEF Edit, vars
<1>. QED
    BY <1>2, <1>3, <1>4, <1>5, <1>6, <1>7, <1>8, <1>9, <1>10, Actions
       DEF NewLLMEnricher

----------------------------------------------------------------------------
\* The inductive invariant holds: no refused construction leaves its server
\* running, a record is enriched in both fields or in none, and costs at most two
\* conversations, whatever the model answers.
THEOREM InvHolds == Spec => []Inv
<1>1. Inv /\ [Next]_vars => Inv'
    BY TypesKept, InStepKept, StillValidKept, ProgressingKept, SpendingKept,
       CallsOwedKept, NoOrphanKept, AllOrNothingKept, CostKept, RefusalsKept
       DEF Inv
<1>. QED
    BY <1>1, InitInv, PTL DEF Spec

\* What Validate accepts, New builds, but for what the property lists.
THEOREM ValidBuilds == Spec => []ValidConfigBuilds
<1>1. Inv => ValidConfigBuilds
    BY DEF Inv
<1>. QED
    BY <1>1, InvHolds, PTL

\* What New has built can work.
THEOREM BuiltWorks == Spec => []BuiltIsUsable
<1>1. Inv => BuiltIsUsable
    <2> SUFFICES ASSUME Inv, Built PROVE BuiltIsUsable
        BY DEF BuiltIsUsable
    <2>1. enricher \in config.methods
        BY DEF Inv, InStep
    <2>2. valid => config.methods = {enricher}
        <3>1. valid => \E e : config.methods = {e}
            BY Configured, OnlyMethod DEF Inv, StillValid
        <3>. QED
            BY <2>1, <3>1
    <2>3. CASE enricher = "llm"
        BY <2>1, <2>2, <2>3
           DEF Inv, InStep, StillValid, Fit, LLMSettings, BuiltIsUsable
    <2>. QED
        BY <2>1, <2>2, <2>3 DEF BuiltIsUsable
<1>. QED
    BY <1>1, InvHolds, PTL

\* The model is asked to go on only when each of its calls has its result, in a
\* conversation of one prompt.
THEOREM EachCallAnswered == Spec => []CallsAnswered
<1>1. Inv => CallsAnswered
    BY DEF Inv, CallsOwed, CallsAnswered
<1>. QED
    BY <1>1, InvHolds, PTL
=============================================================================
