-------------------------- MODULE RegistryFetcher ---------------------------
(***************************************************************************)
(* mcpRegistryFetcher: Fetch walks the pages of an HTTP registry by cursor *)
(* and sends each server to a buffered channel.  The URL, with the query   *)
(* of the last request, belongs to the fetcher and outlives a call of      *)
(* Fetch; the same fetcher serves DryRun and then Run.                     *)
(*                                                                         *)
(* The registry is external: page p holds servers, cursor p asks for page  *)
(* p, no cursor (0) for page 1, and a page names the next one's cursor.    *)
(***************************************************************************)
EXTENDS Integers, Sequences, SequencesExt

CONSTANTS
    Pages,      \* the registry: a sequence of pages, each a sequence of servers
    FilterCursor,   \* the user's "cursor" filter, 0 if none
    Limit,      \* number of servers wanted; 0 for all
    OutBuf,     \* capacity of outputCh
    MaxCalls,   \* bound on calls of Fetch
    MayFail, MayCancel

Servers == UNION {ToSet(Pages[p]) : p \in DOMAIN Pages}

ASSUME RegistryAssumption ==
    /\ Pages \in Seq(Seq(Servers)) /\ Pages # <<>>
    /\ FilterCursor \in 0..Len(Pages)
    /\ Limit \in Nat /\ OutBuf \in Nat \ {0} /\ MaxCalls \in Nat \ {0}
    /\ {MayFail, MayCancel} \subseteq BOOLEAN

VARIABLES
    urlCursor,  \* the cursor in f.url.RawQuery
    calls,      \* calls of Fetch so far
    pc, cursor, count,  \* the goroutine of the current call
    page,       \* servers of the page not yet sent
    nextCursor,
    out, err,   \* outputCh; whether errCh got an error
    got,        \* servers the consumer has received in this call
    reading,    \* whether the consumer still reads
    cancelled

consumer == <<got, reading>>
vars == <<urlCursor, calls, pc, cursor, count, page, nextCursor, out, err,
          consumer, cancelled>>

Page(c) == Pages[IF c = 0 THEN 1 ELSE c]
Successor(c) ==
    LET p == IF c = 0 THEN 1 ELSE c IN IF p = Len(Pages) THEN 0 ELSE p + 1

Init ==
    /\ urlCursor = 0 /\ calls = 1
    /\ pc = "check" /\ cursor = 0 /\ count = 0
    /\ page = <<>> /\ nextCursor = 0
    /\ out = <<>> /\ err = FALSE
    /\ got = <<>> /\ reading = TRUE
    /\ cancelled = FALSE

\* Fetch again, once the previous call is over and its channels are empty.
FetchAgain ==
    /\ pc = "closed" /\ out = <<>> /\ calls < MaxCalls
    /\ calls' = calls + 1
    /\ pc' = "check" /\ cursor' = 0 /\ count' = 0
    /\ page' = <<>> /\ nextCursor' = 0
    /\ err' = FALSE /\ got' = <<>>
    /\ UNCHANGED <<urlCursor, out, reading, cancelled>>

CheckContext ==
    /\ pc = "check"
    /\ IF cancelled THEN pc' = "closed" /\ err' = TRUE
                    ELSE pc' = "list" /\ UNCHANGED err
    /\ UNCHANGED <<urlCursor, calls, cursor, count, page, nextCursor, out,
                   consumer, cancelled>>

\* Mutant: a failed request ends the call quietly.
listServersPageQuiet ==
    /\ pc = "list" /\ MayFail
    /\ pc' = "closed"
    /\ UNCHANGED <<urlCursor, calls, cursor, count, page, nextCursor, out, err,
                   consumer, cancelled>>

\* The query starts as the one in f.url, then takes the filters, then the
\* cursor of this call if there is one.
listServersPage ==
    /\ pc = "list"
    /\ urlCursor' = IF cursor # 0 THEN cursor
                    ELSE IF FilterCursor # 0 THEN FilterCursor ELSE urlCursor
    /\ \/ /\ page' = Page(urlCursor')
          /\ nextCursor' = Successor(urlCursor')
          /\ pc' = "send"
          /\ UNCHANGED err
       \/ /\ MayFail \/ cancelled
          /\ err' = TRUE /\ pc' = "closed"
          /\ UNCHANGED <<page, nextCursor>>
    /\ UNCHANGED <<calls, cursor, count, out, consumer, cancelled>>

\* Mutant: off by one.
LimitExceeded == Limit > 0 /\ count > Limit

LimitReached == Limit > 0 /\ count >= Limit

\* Mutant: the count stays behind.
SendServerUncounted ==
    /\ pc = "send" /\ page # <<>> /\ ~LimitReached
    /\ Len(out) < OutBuf
    /\ out' = Append(out, Head(page))
    /\ page' = Tail(page)
    /\ UNCHANGED <<urlCursor, calls, pc, cursor, count, nextCursor, err,
                   consumer, cancelled>>

\* Mutant: the send does not watch the context.
SendServerUnwatched ==
    /\ pc = "send" /\ page # <<>> /\ ~LimitReached
    /\ Len(out) < OutBuf
    /\ out' = Append(out, Head(page))
    /\ page' = Tail(page)
    /\ count' = count + 1
    /\ UNCHANGED <<urlCursor, calls, pc, cursor, nextCursor, err, consumer,
                   cancelled>>

SendServer ==
    /\ pc = "send" /\ page # <<>> /\ ~LimitReached
    /\ \/ /\ Len(out) < OutBuf
          /\ out' = Append(out, Head(page))
          /\ page' = Tail(page)
          /\ count' = count + 1
          /\ UNCHANGED <<pc, err>>
       \/ /\ cancelled
          /\ err' = TRUE /\ pc' = "closed"
          /\ UNCHANGED <<out, page, count>>
    /\ UNCHANGED <<urlCursor, calls, cursor, nextCursor, consumer, cancelled>>

StopAtLimit ==
    /\ pc = "send" /\ page # <<>> /\ LimitReached
    /\ pc' = "closed"
    /\ UNCHANGED <<urlCursor, calls, cursor, count, page, nextCursor, out,
                   err, consumer, cancelled>>

EndOfPage ==
    /\ pc = "send" /\ page = <<>>
    /\ IF nextCursor = 0 THEN pc' = "closed" /\ UNCHANGED cursor
                         ELSE pc' = "check" /\ cursor' = nextCursor
    /\ UNCHANGED <<urlCursor, calls, count, page, nextCursor, out, err,
                   consumer, cancelled>>

\* The next stage; it may stop reading for good.
Consume ==
    /\ reading /\ out # <<>>
    /\ got' = Append(got, Head(out)) /\ out' = Tail(out)
    /\ UNCHANGED <<urlCursor, calls, pc, cursor, count, page, nextCursor, err,
                   reading, cancelled>>

StopReading ==
    /\ reading /\ MayCancel /\ reading' = FALSE
    /\ UNCHANGED <<urlCursor, calls, pc, cursor, count, page, nextCursor, out,
                   err, got, cancelled>>

Cancel ==
    /\ MayCancel /\ ~cancelled
    /\ cancelled' = TRUE
    /\ UNCHANGED <<urlCursor, calls, pc, cursor, count, page, nextCursor, out,
                   err, consumer>>

Terminated ==
    /\ pc = "closed" /\ (out = <<>> => calls = MaxCalls)
    /\ UNCHANGED vars

Fetching ==
    \/ CheckContext \/ listServersPage \/ SendServer \/ StopAtLimit \/ EndOfPage

Next == FetchAgain \/ Fetching \/ Consume \/ StopReading \/ Cancel \/ Terminated

Spec == Init /\ [][Next]_vars

\* The goroutine is scheduled and its requests end (the HTTP client has a
\* timeout); a consumer that reads keeps reading.
FairSpec == Spec /\ WF_vars(Fetching) /\ WF_vars(Consume)

----------------------------------------------------------------------------
\* Every server of the registry, from the page the user asked for.
Wanted == FlattenSeq(SubSeq(Pages, IF FilterCursor = 0 THEN 1 ELSE FilterCursor,
                            Len(Pages)))

Sent == got \o out

TypeOK ==
    /\ {urlCursor, cursor, nextCursor} \subseteq 0..Len(Pages)
    /\ calls \in 1..MaxCalls
    /\ pc \in {"check", "list", "send", "closed"}
    /\ count = Len(Sent) /\ Len(out) <= OutBuf
    /\ {err, reading, cancelled} \subseteq BOOLEAN

\* Fetch sends the servers in the registry's order, without a gap and without
\* a repetition, and at most Limit of them.
SentIsPrefix ==
    IsPrefix(Sent, Wanted) /\ (Limit > 0 => Len(Sent) <= Limit)

\* A call of Fetch that ends without an error has sent everything, or as much
\* as the limit allows.
QuietEndIsComplete ==
    pc = "closed" /\ ~err =>
        Len(Sent) = Len(Wanted) \/ (Limit > 0 /\ Len(Sent) = Limit)

\* With a reader that reads on, or a cancelled context whoever reads, the
\* goroutine ends.
FetchEnds == []<>(pc = "closed" \/ (~reading /\ ~cancelled))
=============================================================================
