---------------------------- MODULE FileFetcher -----------------------------
(***************************************************************************)
(* The fetchers of JSON files: A2A cards or OASF records (kind "struct")   *)
(* and MCP servers (kind "mcp").  Each opens its inputs, then one          *)
(* goroutine turns every input into items on outputCh and errors on errCh, *)
(* two buffered channels read by different goroutines.                     *)
(*                                                                         *)
(* What an input yields is decided when it is read: Plan lists its sends   *)
(* in order, and the goroutine performs them one by one.                   *)
(***************************************************************************)
EXTENDS Selection, SequencesExt

CONSTANTS
    Sources,    \* the sources considered, each [kind, inputs]; each input is
                \* [readable, parses, elems]
    ItemBuf, ErrBuf,    \* capacities of outputCh and errCh
    OpenFails,  \* whether the inputs may fail to open
    MayCancel

\* An element is "ok", "nameless" (no usable name) or "garbled" (not a JSON
\* object of the right shape).
Input == [readable : BOOLEAN, parses : BOOLEAN,
          elems : Seq({"ok", "nameless", "garbled"})]

ASSUME FilesAssumption ==
    /\ \A s \in Sources :
        s.kind \in {"struct", "mcp"} /\ s.inputs \in Seq(Input)
    /\ ItemBuf \in Nat \ {0} /\ ErrBuf \in Nat \ {0}
    /\ {OpenFails, MayCancel} \subseteq BOOLEAN

VARIABLES
    source,     \* the source of this call, a member of Sources
    pc,         \* "open", "read", "send", "closed"
    input,      \* the input being read
    plan,       \* sends left of this input
    items, errs,        \* the channels
    gotItems, gotErrs,  \* what their readers have received
    reading,    \* whether the readers still read
    opened,     \* the inputs opened
    cancelled

readers == <<gotItems, gotErrs, reading>>
vars == <<source, pc, input, plan, items, errs, readers, opened, cancelled>>

Inputs == source.inputs

----------------------------------------------------------------------------
\* A send: an item or an error, and the element of the input it is about (0:
\* the input as a whole).  An error that decoding meets is given up when the
\* context is done; elsewhere the goroutine then returns.
Send(ch, k, j, lossy) == [ch |-> ch, input |-> k, elem |-> j, lossy |-> lossy]

Indexes(f, S) ==
    Select([j \in DOMAIN f.elems |-> j],
           {j \in DOMAIN f.elems : f.elems[j] \in S})

Sends(seq, ch, k, lossy) == [n \in DOMAIN seq |-> Send(ch, k, seq[n], lossy)]

WholeInput(k) == <<Send("err", k, 0, TRUE)>>

\* Mutant: what has no name, or is no object, is passed over.
StructPlanNamed(k, f) ==
    IF Indexes(f, {"ok"}) = <<>> THEN WholeInput(k)
    ELSE Sends(Indexes(f, {"ok"}), "item", k, FALSE)

\* Mutant: the objects are taken from the end.
StructPlanReversed(k, f) ==
    IF Indexes(f, {"ok"}) = <<>> THEN WholeInput(k)
    ELSE Sends(Reverse(Indexes(f, {"ok"})), "item", k, FALSE)

\* decodeStructRoot reports what is no JSON object, before any item is sent;
\* the loop that follows reports what has no name.
StructPlan(k, f) ==
    LET objects == Indexes(f, {"ok", "nameless"})
    IN  Sends(Indexes(f, {"garbled"}), "err", k, TRUE) \o
        IF objects = <<>> THEN WholeInput(k)
        ELSE [n \in DOMAIN objects |->
                IF f.elems[objects[n]] = "ok"
                THEN Send("item", k, objects[n], FALSE)
                ELSE Send("err", k, objects[n], FALSE)]

\* One garbled element fails the whole array; nameless servers are dropped.
MCPPlan(k, f) ==
    IF Indexes(f, {"garbled"}) # <<>> \/ Indexes(f, {"ok"}) = <<>>
    THEN WholeInput(k)
    ELSE Sends(Indexes(f, {"ok"}), "item", k, FALSE)

\* What input k of source s yields.
Plan(s, k) ==
    LET f == s.inputs[k]
    IN  IF ~f.readable \/ ~f.parses THEN WholeInput(k)
        ELSE IF s.kind = "struct" THEN StructPlan(k, f) ELSE MCPPlan(k, f)

----------------------------------------------------------------------------
Init ==
    /\ source \in Sources
    /\ pc = "open" /\ input = 1 /\ plan = <<>>
    /\ items = <<>> /\ errs = <<>>
    /\ gotItems = <<>> /\ gotErrs = <<>> /\ reading = TRUE
    /\ opened = FALSE /\ cancelled = FALSE

\* openInputs; its failure is the only send of the call.
Open ==
    /\ pc = "open"
    /\ \/ opened' = TRUE /\ pc' = "read" /\ UNCHANGED errs
       \/ /\ OpenFails \/ cancelled
          /\ errs' \in {Append(errs, Send("err", 0, 0, TRUE))} \cup
                        (IF cancelled THEN {errs} ELSE {})
          /\ pc' = "closed"
          /\ UNCHANGED opened
    /\ UNCHANGED <<source, input, plan, items, readers, cancelled>>

ReadInput ==
    /\ pc = "read"
    /\ IF input > Len(Inputs) THEN pc' = "closed" /\ UNCHANGED plan
                              ELSE pc' = "send" /\ plan' = Plan(source, input)
    /\ UNCHANGED <<source, input, items, errs, readers, opened, cancelled>>

\* Mutant: a send that does not wait for room.
SendNextUnbounded ==
    /\ pc = "send" /\ plan # <<>>
    /\ IF Head(plan).ch = "item"
       THEN items' = Append(items, Head(plan)) /\ UNCHANGED errs
       ELSE errs' = Append(errs, Head(plan)) /\ UNCHANGED items
    /\ plan' = Tail(plan)
    /\ UNCHANGED <<source, pc, input, readers, opened, cancelled>>

SendNext ==
    /\ pc = "send" /\ plan # <<>>
    /\ \/ /\ Head(plan).ch = "item" /\ Len(items) < ItemBuf
          /\ items' = Append(items, Head(plan))
          /\ UNCHANGED errs
       \/ /\ Head(plan).ch = "err" /\ Len(errs) < ErrBuf
          /\ errs' = Append(errs, Head(plan))
          /\ UNCHANGED items
    /\ plan' = Tail(plan)
    /\ UNCHANGED <<source, pc, input, readers, opened, cancelled>>

\* Mutant: the sends of errors do not watch the context.
SendCancelledItems ==
    /\ pc = "send" /\ plan # <<>> /\ cancelled
    /\ Head(plan).ch = "item"
    /\ pc' = "closed"
    /\ UNCHANGED <<source, input, plan, items, errs, readers, opened,
                   cancelled>>

SendCancelled ==
    /\ pc = "send" /\ plan # <<>> /\ cancelled
    /\ IF Head(plan).lossy THEN plan' = Tail(plan) /\ UNCHANGED pc
                           ELSE pc' = "closed" /\ UNCHANGED plan
    /\ UNCHANGED <<source, input, items, errs, readers, opened, cancelled>>

\* Only after an input that was reported as a whole is the context checked.
NextInput ==
    /\ pc = "send" /\ plan = <<>>
    /\ IF cancelled /\ Last(Plan(source, input)).elem = 0
       THEN pc' = "closed" /\ UNCHANGED input
       ELSE pc' = "read" /\ input' = input + 1
    /\ UNCHANGED <<source, plan, items, errs, readers, opened, cancelled>>

ReadItem ==
    /\ reading /\ items # <<>>
    /\ gotItems' = Append(gotItems, Head(items)) /\ items' = Tail(items)
    /\ UNCHANGED <<source, pc, input, plan, errs, gotErrs, reading, opened,
                   cancelled>>

ReadErr ==
    /\ reading /\ errs # <<>>
    /\ gotErrs' = Append(gotErrs, Head(errs)) /\ errs' = Tail(errs)
    /\ UNCHANGED <<source, pc, input, plan, items, gotItems, reading, opened,
                   cancelled>>

StopReading ==
    /\ reading /\ MayCancel
    /\ reading' = FALSE
    /\ UNCHANGED <<source, pc, input, plan, items, errs, gotItems, gotErrs,
                   opened, cancelled>>

Cancel ==
    /\ MayCancel /\ ~cancelled
    /\ cancelled' = TRUE
    /\ UNCHANGED <<source, pc, input, plan, items, errs, readers, opened>>

Stopped ==
    /\ \/ pc = "closed"
       \/ ~reading /\ ~cancelled
    /\ UNCHANGED vars

Fetching == Open \/ ReadInput \/ SendNext \/ SendCancelled \/ NextInput

Next ==
    \/ Fetching \/ ReadItem \/ ReadErr \/ StopReading \/ Cancel \/ Stopped

Spec == Init /\ [][Next]_vars

\* The goroutine is scheduled; a reader that reads keeps reading.
FairSpec == Spec /\ WF_vars(Fetching) /\ WF_vars(ReadItem) /\ WF_vars(ReadErr)

----------------------------------------------------------------------------
\* The elements of an input that are to be accounted for: not the servers of
\* an array that have no name, which are passed over on purpose.
Due(s, k) ==
    {j \in DOMAIN s.inputs[k].elems :
        s.kind = "struct" \/ s.inputs[k].elems[j] # "nameless"}

\* An input without such elements counts as one itself.
Elements ==
    UNION {{k} \X (IF Due(source, k) = {} THEN {0} ELSE Due(source, k))
            : k \in DOMAIN Inputs}

SentItems == gotItems \o items
SentErrs == gotErrs \o errs

TypeOK ==
    /\ source \in Sources
    /\ pc \in {"open", "read", "send", "closed"}
    /\ input \in 1..(Len(Inputs) + 1)
    /\ Len(items) <= ItemBuf /\ Len(errs) <= ErrBuf
    /\ {reading, opened, cancelled} \subseteq BOOLEAN

\* "All failures are reported on errCh": when the goroutine ends without
\* having been cancelled, each element of each input, nameless servers apart,
\* was sent, or an error about it, or about its input, was; none was both sent
\* and reported.
AllReported ==
    LET sent == {<<s.input, s.elem>> : s \in ToSet(SentItems)}
        reported == {<<s.input, s.elem>> : s \in ToSet(SentErrs)}
    IN  /\ sent \cap reported = {}
        /\ pc = "closed" /\ opened /\ ~cancelled =>
            \A e \in Elements :
                e \in sent \/ e \in reported \/ <<e[1], 0>> \in reported

\* Items are sent in the order of the inputs and of their elements, each once.
SentInOrder ==
    \A m, n \in DOMAIN SentItems : m < n =>
        \/ SentItems[m].input < SentItems[n].input
        \/ /\ SentItems[m].input = SentItems[n].input
           /\ SentItems[m].elem < SentItems[n].elem

\* With readers that read on, or once cancelled whoever reads, the goroutine
\* ends.
FetchEnds == []<>(pc = "closed" \/ (~reading /\ ~cancelled))
=============================================================================
