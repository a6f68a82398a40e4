------------------------ MODULE RegistryFetcherProofs ------------------------
(***************************************************************************)
(* Proofs about RegistryFetcher, for any registry, any limit, any capacity *)
(* of the output channel and any number of calls of Fetch.  What is to be  *)
(* sent is a concatenation of pages, a recursive function: the lemmas of   *)
(* the first section unfold it, by induction on the number of pages.       *)
(***************************************************************************)
EXTENDS RegistryFetcher, SelectionProofs

----------------------------------------------------------------------------
(* Sequences.                                                              *)

\* What FlattenSeq computes: the concatenation of each first part.
LEMMA Concatenations ==
    ASSUME NEW S, NEW s \in Seq(Seq(S)), Len(s) # 0
    PROVE  \E f \in [1..Len(s) -> Seq(S)] :
              /\ FlattenSeq(s) = f[Len(s)]
              /\ f[1] = s[1]
              /\ \A i \in 2..Len(s) : f[i] = f[i - 1] \o s[i]
<1> DEFINE Step(g, i) == IF i = 1 THEN s[i] ELSE g[i - 1] \o s[i]
           UpTo(n) == \E g \in [1..n -> Seq(S)] : \A i \in 1..n : g[i] = Step(g, i)
           f == CHOOSE g : g = [i \in 1..Len(s) |-> Step(g, i)]
<1>1. Len(s) \in Nat \ {0} /\ \A i \in 1..Len(s) : s[i] \in Seq(S)
    OBVIOUS
<1>2. UpTo(1)
    <2> DEFINE g == [i \in 1..1 |-> s[1]]
    <2>1. g \in [1..1 -> Seq(S)] /\ \A i \in 1..1 : i = 1 /\ g[i] = s[i]
        BY <1>1
    <2> HIDE DEF g
    <2>. QED
        BY <2>1
<1>3. ASSUME NEW n \in 2..Len(s), UpTo(n - 1)
      PROVE  UpTo(n)
    <2>1. PICK g \in [1..(n - 1) -> Seq(S)] : \A i \in 1..(n - 1) : g[i] = Step(g, i)
        BY <1>3
    <2>2. /\ n \in Nat /\ n - 1 \in 1..(n - 1) /\ n \in 1..n /\ n # 1
          /\ \A i \in 1..n : i # n => i \in 1..(n - 1) /\ i - 1 # n
          /\ \A i \in 1..n : i # n /\ i # 1 => i - 1 \in 1..(n - 1)
        BY <1>1
    <2>3. PICK x \in Seq(S) : x = g[n - 1] \o s[n]
        <3>1. g[n - 1] \in Seq(S) /\ s[n] \in Seq(S)
            BY <1>1, <2>2
        <3>. QED
            BY <3>1, ConcatProperties
    <2> DEFINE h == [i \in 1..n |-> IF i = n THEN x ELSE g[i]]
    <2>4. h \in [1..n -> Seq(S)]
        BY <2>2
    <2>5. h[n] = x /\ \A i \in 1..(n - 1) : h[i] = g[i]
        BY <2>2
    <2> HIDE DEF h
    <2>6. ASSUME NEW i \in 1..n PROVE h[i] = Step(h, i)
        <3>1. CASE i = n
            <4>1. h[i] = g[n - 1] \o s[n] /\ h[n - 1] = g[n - 1]
                BY <2>2, <2>3, <2>5, <3>1
            <4>. QED
                BY <2>2, <3>1, <4>1, Zenon
        <3>2. CASE i = 1
            <4>1. 1 \in 1..(n - 1)
                BY <2>2, <3>2
            <4>2. h[1] = g[1]
                BY <2>5, <4>1
            <4> HIDE DEF Step
            <4>3. g[1] = Step(g, 1)
                BY <2>1, <4>1
            <4>. QED
                BY <3>2, <4>2, <4>3, Zenon DEF Step
        <3>3. CASE i # n /\ i # 1
            <4>1. h[i] = g[i] /\ h[i - 1] = g[i - 1]
                BY <2>2, <2>5, <3>3
            <4>2. i \in 1..(n - 1)
                BY <2>2, <3>3
            <4> HIDE DEF Step
            <4>3. g[i] = Step(g, i)
                BY <2>1, <4>2
            <4>. QED
                BY <3>3, <4>1, <4>3, Zenon DEF Step
        <3>. QED
            BY <3>1, <3>2, <3>3
    <2>. QED
        BY <2>4, <2>6
<1>4. UpTo(Len(s))
    <2> DEFINE T == {n \in 1..Len(s) : ~UpTo(n)}
    <2> HIDE DEF UpTo
    <2>1. 1 \notin T
        BY <1>2
    <2>2. ASSUME NEW n \in T PROVE n = 1 \/ n - 1 \in T
        BY <1>1, <1>3
    <2>3. T \in SUBSET (Nat \ {0})
        BY <1>1
    <2> HIDE DEF T
    <2>4. T = {}
        BY <2>1, <2>2, <2>3, Induction
    <2> USE DEF T
    <2>. QED
        BY <1>1, <2>4
<1>5. PICK g \in [1..Len(s) -> Seq(S)] : \A i \in 1..Len(s) : g[i] = Step(g, i)
    BY <1>4
<1>6. g = [i \in 1..Len(s) |-> Step(g, i)]
    BY <1>5
<1>7. f = [i \in 1..Len(s) |-> Step(f, i)]
    BY <1>6, Zenon
<1>8. FlattenSeq(s) = f[Len(s)]
    BY Zenon DEF FlattenSeq
<1> HIDE DEF f
<1>9. /\ f[1] = s[1]
      /\ \A i \in 2..Len(s) : f[i] = f[i - 1] \o s[i]
      /\ DOMAIN f = 1..Len(s)
    <2> HIDE DEF Step
    <2>1. /\ DOMAIN f = 1..Len(s)
          /\ \A i \in 1..Len(s) : f[i] = Step(f, i)
        BY <1>7
    <2>2. \A i \in 2..Len(s) : i # 1
        BY <1>1
    <2>4. Step(f, 1) = s[1] /\ \A i \in 2..Len(s) : Step(f, i) = f[i - 1] \o s[i]
        BY <2>2, Zenon DEF Step
    <2>3. 1 \in 1..Len(s) /\ \A i \in 2..Len(s) : i \in 1..Len(s)
        BY <1>1
    <2>. QED
        BY <2>1, <2>2, <2>3, <2>4
<1>10. \A i \in 1..Len(s) : f[i] \in Seq(S)
    <2> DEFINE T == {n \in 1..Len(s) : f[n] \notin Seq(S)}
    <2>1. 1 \notin T
        BY <1>1, <1>9
    <2>2. ASSUME NEW n \in T, n # 1 PROVE n - 1 \in T
        <3>0. n \in 2..Len(s) /\ n - 1 \in 1..Len(s) /\ n \in 1..Len(s)
            BY <1>1, <2>2
        <3>1. f[n] = f[n - 1] \o s[n] /\ s[n] \in Seq(S) /\ f[n] \notin Seq(S)
            BY <1>1, <1>9, <3>0
        <3>. QED
            BY <3>0, <3>1, ConcatProperties
    <2>3. T \in SUBSET (Nat \ {0})
        BY <1>1
    <2> HIDE DEF T
    <2>4. T = {}
        BY <2>1, <2>2, <2>3, Induction
    <2> USE DEF T
    <2>. QED
        BY <2>4
<1>11. f \in [1..Len(s) -> Seq(S)]
    BY <1>7, <1>10
<1>. QED
    BY <1>8, <1>9, <1>11

\* What a sequence begins with.
LEMMA Begins ==
    ASSUME NEW S, NEW s \in Seq(S), NEW t \in Seq(S)
    PROVE  IsPrefix(s, s \o t) /\ Len(s) <= Len(s \o t)
BY ConcatProperties, SubSeqProperties DEF IsPrefix

----------------------------------------------------------------------------
(* What is to be sent.                                                     *)

First == IF FilterCursor = 0 THEN 1 ELSE FilterCursor
Asked == SubSeq(Pages, First, Len(Pages))

\* The page a cursor asks for.
Number(c) == IF c = 0 THEN 1 ELSE c

\* The servers of the pages asked for, up to each page.
UpTo ==
    CHOOSE f \in [1..Len(Asked) -> Seq(Servers)] :
        /\ FlattenSeq(Asked) = f[Len(Asked)]
        /\ f[1] = Asked[1]
        /\ \A i \in 2..Len(Asked) : f[i] = f[i - 1] \o Asked[i]
Through(p) == UpTo[p - First + 1]

LEMMA Parameters ==
    /\ Pages \in Seq(Seq(Servers)) /\ Len(Pages) \in Nat \ {0}
    /\ First \in 1..Len(Pages) /\ FilterCursor \in 0..Len(Pages)
    /\ Limit \in Nat /\ OutBuf \in Nat \ {0} /\ MaxCalls \in Nat \ {0}
    /\ \A p \in 1..Len(Pages) : Pages[p] \in Seq(Servers)
BY RegistryAssumption DEF First

LEMMA AskedPages ==
    /\ Asked \in Seq(Seq(Servers))
    /\ Len(Asked) = Len(Pages) - First + 1
    /\ \A p \in First..Len(Pages) : Asked[p - First + 1] = Pages[p]
<1>1. First \in Int /\ Len(Pages) \in Int /\ First <= Len(Pages)
    BY Parameters
<1>2. \A i \in First..Len(Pages) : Pages[i] \in Seq(Servers)
    BY Parameters
<1>3. /\ Asked \in Seq(Seq(Servers))
      /\ Len(Asked) = Len(Pages) - First + 1
      /\ \A i \in 1..(Len(Pages) - First + 1) : Asked[i] = Pages[First + i - 1]
    BY <1>1, <1>2, SubSeqProperties DEF Asked
<1>4. ASSUME NEW p \in First..Len(Pages) PROVE Asked[p - First + 1] = Pages[p]
    <2>1. p - First + 1 \in 1..(Len(Pages) - First + 1) /\ First + (p - First + 1) - 1 = p
        BY <1>1
    <2>. QED
        BY <1>3, <2>1
<1>. QED
    BY <1>3, <1>4

LEMMA ThroughPages ==
    /\ \A p \in First..Len(Pages) : Through(p) \in Seq(Servers)
    /\ Through(First) = Pages[First]
    /\ \A p \in (First + 1)..Len(Pages) : Through(p) = Through(p - 1) \o Pages[p]
    /\ Through(Len(Pages)) = Wanted
<1>1. /\ UpTo \in [1..Len(Asked) -> Seq(Servers)]
      /\ FlattenSeq(Asked) = UpTo[Len(Asked)]
      /\ UpTo[1] = Asked[1]
      /\ \A i \in 2..Len(Asked) : UpTo[i] = UpTo[i - 1] \o Asked[i]
    <2>1. Asked \in Seq(Seq(Servers)) /\ Len(Asked) # 0
        BY AskedPages, Parameters
    <2>. QED
        BY <2>1, Concatenations, Zenon DEF UpTo
<1>2. /\ First \in Nat /\ Len(Pages) \in Nat /\ First <= Len(Pages)
      /\ Len(Asked) = Len(Pages) - First + 1
    BY Parameters, AskedPages
<1>3. ASSUME NEW p \in First..Len(Pages) PROVE Through(p) \in Seq(Servers)
    BY <1>1, <1>2 DEF Through
<1>4. Through(First) = Pages[First]
    BY <1>1, <1>2, AskedPages DEF Through
<1>5. ASSUME NEW p \in (First + 1)..Len(Pages)
      PROVE  Through(p) = Through(p - 1) \o Pages[p]
    <2>1. /\ p - First + 1 \in 2..Len(Asked) /\ p \in First..Len(Pages)
          /\ (p - First + 1) - 1 = (p - 1) - First + 1
        BY <1>2
    <2>. QED
        BY <1>1, <2>1, AskedPages DEF Through
<1>6. Through(Len(Pages)) = Wanted
    BY <1>1, <1>2 DEF Through, Wanted, Asked, First
<1>. QED
    BY <1>3, <1>4, <1>5, <1>6

LEMMA Regrouped ==
    \A u, v, w \in Seq(Servers) : (u \o v) \o w = u \o (v \o w)
BY ConcatAssociative

\* The servers through any page are the first of those wanted.
LEMMA ThroughFirst ==
    \A p \in First..Len(Pages) : \E t \in Seq(Servers) : Through(p) \o t = Wanted
<1> DEFINE Extends(p) == \E t \in Seq(Servers) : Through(p) \o t = Wanted
           L == Len(Pages)
           T == {n \in 1..(L - First + 1) : ~Extends(L + 1 - n)}
<1>1. L \in Nat /\ First \in Nat /\ First <= L
    BY Parameters
<1>2. Extends(L)
    <2>1. Wanted \in Seq(Servers) /\ <<>> \in Seq(Servers) /\ Through(L) = Wanted
        BY <1>1, ThroughPages
    <2>2. Through(L) \o <<>> = Wanted
        BY <2>1, ConcatEmptySeq
    <2>. QED
        BY <2>1, <2>2
<1>3. ASSUME NEW p \in (First + 1)..L, Extends(p) PROVE Extends(p - 1)
    <2>1. PICK t \in Seq(Servers) : Through(p) \o t = Wanted
        BY <1>3
    <2>2. /\ Through(p - 1) \in Seq(Servers) /\ Pages[p] \in Seq(Servers)
          /\ Through(p) = Through(p - 1) \o Pages[p]
        <3>1. p - 1 \in First..L /\ p \in 1..L
            BY <1>1
        <3>. QED
            BY <3>1, ThroughPages, Parameters
    <2>3. Pages[p] \o t \in Seq(Servers)
        BY <2>2, ConcatProperties
    <2>4. (Through(p - 1) \o Pages[p]) \o t = Through(p - 1) \o (Pages[p] \o t)
        BY <2>2, Regrouped, Zenon
    <2>5. Through(p - 1) \o (Pages[p] \o t) = Wanted
        BY <2>1, <2>2, <2>4, Zenon
    <2>. QED
        BY <2>3, <2>5
<1> HIDE DEF Extends
<1>4. T \in SUBSET (Nat \ {0})
    BY <1>1
<1>5. 1 \notin T
    BY <1>1, <1>2
<1>6. ASSUME NEW n \in T, n # 1 PROVE n - 1 \in T
    <2>1. /\ L + 1 - n \in Nat /\ L + 2 - n \in (First + 1)..L
          /\ L + 1 - n = (L + 2 - n) - 1 /\ n - 1 \in 1..(L - First + 1)
          /\ L + 2 - n = L + 1 - (n - 1)
        BY <1>1, <1>6
    <2>2. ~Extends((L + 2 - n) - 1)
        BY <1>6, <2>1
    <2>. QED
        BY <1>3, <2>1, <2>2
<1> HIDE DEF T
<1>7. T = {}
    BY <1>4, <1>5, <1>6, Induction
<1>8. ASSUME NEW p \in First..L PROVE Extends(p)
    <2>1. L + 1 - p \in 1..(L - First + 1) /\ L + 1 - (L + 1 - p) = p
        BY <1>1
    <2>. QED
        BY <1>7, <2>1 DEF T
<1>. QED
    BY <1>8 DEF Extends

----------------------------------------------------------------------------
(* The goroutine and its channel.                                          *)

Typed ==
    /\ TypeOK
    /\ page \in Seq(Servers) /\ got \in Seq(Servers) /\ out \in Seq(Servers)

\* Whether the requests of this call ask for the pages wanted: the cursor left
\* in the URL by an earlier call is replaced by the filter's, or there is none.
Fresh == FilterCursor # 0 \/ calls = 1

\* Where a call is: what it has sent are the pages before the cursor, and of the
\* page that is being sent what is not left.
InPlace ==
    /\ pc \in {"check", "list"} =>
        \/ cursor = 0 /\ Sent = <<>> /\ (FilterCursor = 0 => urlCursor = 0)
        \/ cursor \in (First + 1)..Len(Pages) /\ Sent = Through(cursor - 1)
    /\ pc = "send" =>
        /\ Number(urlCursor) \in First..Len(Pages)
        /\ Sent \o page = Through(Number(urlCursor))
        /\ nextCursor = Successor(urlCursor)

SentFirst == \E t \in Seq(Servers) : Sent \o t = Wanted

Ended == pc = "closed" /\ ~err => Sent = Wanted \/ (Limit > 0 /\ Len(Sent) = Limit)

WithinLimit == Limit > 0 => count <= Limit

Inv ==
    /\ Typed /\ WithinLimit
    /\ Fresh => InPlace /\ SentFirst /\ Ended

LEMMA Cursors ==
    ASSUME NEW c \in 0..Len(Pages)
    PROVE  /\ Page(c) = Pages[Number(c)] /\ Number(c) \in 1..Len(Pages)
           /\ Page(c) \in Seq(Servers)
           /\ Successor(c) = IF Number(c) = Len(Pages) THEN 0 ELSE Number(c) + 1
           /\ Successor(c) \in 0..Len(Pages)
<1>1. Len(Pages) \in Nat \ {0} /\ \A p \in 1..Len(Pages) : Pages[p] \in Seq(Servers)
    BY Parameters
<1>2. Number(c) \in 1..Len(Pages)
    BY <1>1 DEF Number
<1>3. Page(c) = Pages[Number(c)]
    BY Zenon DEF Page, Number
<1>4. Successor(c) = IF Number(c) = Len(Pages) THEN 0 ELSE Number(c) + 1
    BY Zenon DEF Successor, Number
<1>5. Successor(c) \in 0..Len(Pages)
    BY <1>1, <1>2, <1>4
<1>. QED
    BY <1>1, <1>2, <1>3, <1>4, <1>5

LEMMA AppendedServers ==
    \A s, t \in Seq(Servers) : \A x \in Servers :
        /\ s \o Append(t, x) = Append(s \o t, x)
        /\ Len(s \o Append(t, x)) = Len(s \o t) + 1
<1>1. ASSUME NEW s \in Seq(Servers), NEW t \in Seq(Servers), NEW x \in Servers
      PROVE  /\ s \o Append(t, x) = Append(s \o t, x)
             /\ Len(s \o Append(t, x)) = Len(s \o t) + 1
    <2>1. s \o Append(t, x) = Append(s \o t, x)
        BY AppendedBeyond
    <2>2. s \o t \in Seq(Servers)
        BY ConcatProperties
    <2>. QED
        BY <2>1, <2>2, AppendProperties
<1>. QED
    BY <1>1

\* What is sent does not change when the reader takes some of it.
LEMMA Taken ==
    ASSUME Typed, Consume
    PROVE  Sent' = Sent /\ Typed'
<1>1. /\ got \in Seq(Servers) /\ out \in Seq(Servers) /\ out # <<>>
      /\ got' = Append(got, Head(out)) /\ out' = Tail(out)
      /\ UNCHANGED <<urlCursor, calls, pc, cursor, count, page, nextCursor, err,
                     reading, cancelled>>
    BY DEF Typed, Consume
<1>2. /\ got' \in Seq(Servers) /\ out' \in Seq(Servers) /\ Len(out') = Len(out) - 1
      /\ Len(out) \in Nat
    BY <1>1
<1>3. Sent' = Sent
    BY <1>1, Moved DEF Sent
<1>4. Len(out) <= OutBuf => Len(out') <= OutBuf
    BY <1>2, Parameters
<1>. QED
    BY <1>1, <1>2, <1>3, <1>4 DEF Typed, TypeOK

LEMMA TypedStep ==
    ASSUME Typed, [Next]_vars
    PROVE  Typed'
<1> USE Parameters DEF Typed, TypeOK
<1>1. CASE FetchAgain
    <2>1. Len(<<>> \o <<>>) = 0 /\ <<>> \in Seq(Servers) /\ Len(<<>>) = 0
        OBVIOUS
    <2>2. /\ got' = <<>> /\ out' = <<>> /\ page' = <<>> /\ count' = 0
          /\ calls' = calls + 1 /\ calls < MaxCalls
          /\ pc' = "check" /\ cursor' = 0 /\ nextCursor' = 0
          /\ UNCHANGED <<urlCursor, reading, cancelled>> /\ err' = FALSE
        BY <1>1 DEF FetchAgain
    <2>3. count' = Len(Sent')
        BY <2>1, <2>2, Zenon DEF Sent
    <2>4. Len(out') <= OutBuf
        BY <2>1, <2>2
    <2>5. calls' \in 1..MaxCalls
        BY <2>2
    <2>6. {urlCursor, cursor, nextCursor}' \subseteq 0..Len(Pages)
        BY <2>2
    <2>7. page' \in Seq(Servers) /\ got' \in Seq(Servers) /\ out' \in Seq(Servers)
        BY <2>1, <2>2, Zenon
    <2>8. pc' \in {"check", "list", "send", "closed"} /\ {err, reading, cancelled}' \subseteq BOOLEAN
        BY <2>2
    <2>. QED
        BY <2>3, <2>4, <2>5, <2>6, <2>7, <2>8, Zenon
<1>2. CASE CheckContext
    BY <1>2 DEF CheckContext, Sent, consumer
<1>3. CASE listServersPage
    <2>1. urlCursor' \in 0..Len(Pages)
        BY <1>3 DEF listServersPage
    <2>2. nextCursor' \in 0..Len(Pages) /\ page' \in Seq(Servers)
        BY <1>3, <2>1, Cursors DEF listServersPage
    <2>3. err' \in BOOLEAN
        BY <1>3 DEF listServersPage
    <2>. QED
        BY <1>3, <2>1, <2>2, <2>3 DEF listServersPage, Sent, consumer
<1>4. CASE SendServer
    <2>1. Head(page) \in Servers /\ Tail(page) \in Seq(Servers)
        BY <1>4 DEF SendServer
    <2>2. /\ Append(out, Head(page)) \in Seq(Servers)
          /\ Len(Append(out, Head(page))) = Len(out) + 1 /\ Len(out) \in Nat
        BY <2>1
    <2>3. Len(got \o Append(out, Head(page))) = Len(got \o out) + 1
        BY <2>1, AppendedServers
    <2>4. UNCHANGED <<urlCursor, calls, cursor, nextCursor, got, reading, cancelled>>
        BY <1>4 DEF SendServer, consumer
    <2>5. CASE UNCHANGED <<out, page, count>> /\ err' = TRUE /\ pc' = "closed"
        BY <2>4, <2>5 DEF Sent
    <2>6. CASE /\ Len(out) < OutBuf /\ out' = Append(out, Head(page))
               /\ page' = Tail(page) /\ count' = count + 1 /\ UNCHANGED <<pc, err>>
        <3>1. Len(out') <= OutBuf
            BY <2>2, <2>6
        <3>2. Len(Sent') = Len(Sent) + 1
            BY <2>3, <2>4, <2>6, Zenon DEF Sent
        <3>3. count' = Len(Sent')
            BY <3>2, <2>6, Zenon
        <3>4. page' \in Seq(Servers) /\ got' \in Seq(Servers) /\ out' \in Seq(Servers)
            BY <2>1, <2>2, <2>4, <2>6, Zenon
        <3>. QED
            BY <2>4, <2>6, <3>1, <3>3, <3>4, Zenon
    <2>. QED
        BY <1>4, <2>5, <2>6 DEF SendServer
<1>5. CASE StopAtLimit \/ EndOfPage
    BY <1>5 DEF StopAtLimit, EndOfPage, Sent, consumer
<1>6. CASE StopReading \/ Cancel \/ UNCHANGED vars
    BY <1>6 DEF StopReading, Cancel, Sent, consumer, vars
<1>7. CASE Consume
    BY <1>7, Taken
<1>. QED
    BY <1>1, <1>2, <1>3, <1>4, <1>5, <1>6, <1>7 DEF Next, Fetching, Terminated

\* Fetch counts what it sends and stops there.
LEMMA WithinLimitStep ==
    ASSUME Typed, WithinLimit, [Next]_vars
    PROVE  WithinLimit'
<1> USE DEF WithinLimit
<1>1. Limit \in Nat /\ count \in Nat
    <2>1. got \o out \in Seq(Servers)
        BY ConcatProperties DEF Typed
    <2>. QED
        BY <2>1, Parameters DEF Typed, TypeOK, Sent
<1>2. CASE FetchAgain
    BY <1>1, <1>2 DEF FetchAgain
<1>3. CASE SendServer
    BY <1>1, <1>3 DEF SendServer, LimitReached
<1>4. CASE ~FetchAgain /\ ~SendServer
    <2>1. UNCHANGED count
        BY <1>4 DEF Next, Fetching, CheckContext, listServersPage, StopAtLimit,
            EndOfPage, Consume, StopReading, Cancel, Terminated, vars
    <2>. QED
        BY <2>1
<1>. QED
    BY <1>2, <1>3, <1>4

\* A request asks for the page that follows what has been sent.
LEMMA PageAsked ==
    ASSUME Typed, InPlace, pc \in {"check", "list"},
           NEW c \in 0..Len(Pages),
           c = IF cursor # 0 THEN cursor
               ELSE IF FilterCursor # 0 THEN FilterCursor ELSE urlCursor
    PROVE  Number(c) \in First..Len(Pages) /\ Sent \o Page(c) = Through(Number(c))
<1>0. Len(Pages) \in Nat \ {0} /\ First \in 1..Len(Pages)
    BY Parameters
<1>1. Page(c) = Pages[Number(c)] /\ Page(c) \in Seq(Servers)
    BY Cursors
<1>2. CASE cursor = 0 /\ Sent = <<>> /\ (FilterCursor = 0 => urlCursor = 0)
    <2>1. Number(c) = First
        BY <1>2, Zenon DEF Number, First
    <2>2. <<>> \o Page(c) = Page(c)
        BY <1>1
    <2>3. Sent \o Page(c) = Pages[First]
        BY <1>1, <1>2, <2>1, <2>2, Zenon
    <2>. QED
        BY <1>0, <2>1, <2>3, ThroughPages
<1>3. CASE cursor \in (First + 1)..Len(Pages) /\ Sent = Through(cursor - 1)
    <2>1. cursor # 0 /\ cursor \in First..Len(Pages)
        BY <1>0, <1>3
    <2>2. c = cursor /\ Number(c) = cursor
        BY <2>1, Zenon DEF Number
    <2>3. Through(cursor) = Through(cursor - 1) \o Pages[cursor]
        BY <1>3, ThroughPages
    <2>. QED
        BY <1>1, <1>3, <2>1, <2>2, <2>3, Zenon
<1>. QED
    BY <1>2, <1>3 DEF InPlace

\* Sending moves a server from the page to what is sent.
LEMMA Moving ==
    ASSUME Typed, SendServer, pc' = "send"
    PROVE  Sent' \o page' = Sent \o page
<1>1. /\ page # <<>> /\ out' = Append(out, Head(page)) /\ page' = Tail(page) /\ got' = got
    BY DEF SendServer, consumer
<1>2. /\ got \in Seq(Servers) /\ out \in Seq(Servers) /\ page \in Seq(Servers)
      /\ Head(page) \in Servers
    BY <1>1 DEF Typed
<1>3. Sent' = Append(Sent, Head(page)) /\ Sent \in Seq(Servers)
    BY <1>1, <1>2, AppendedServers, ConcatProperties DEF Sent
<1>4. Append(Sent, Head(page)) \o Tail(page) = Sent \o page
    BY <1>1, <1>2, <1>3, Moved
<1>. QED
    BY <1>1, <1>3, <1>4, Zenon

\* What is sent, with what is left of the page, is part of what is wanted.
LEMMA FirstOfPage ==
    ASSUME NEW p \in First..Len(Pages), NEW x \in Seq(Servers), NEW y \in Seq(Servers),
           x \o y = Through(p)
    PROVE  \E t \in Seq(Servers) : x \o t = Wanted
<1>1. PICK t \in Seq(Servers) : Through(p) \o t = Wanted
    BY ThroughFirst
<1>3. (x \o y) \o t = x \o (y \o t)
    BY Regrouped, Zenon
<1>4. y \o t \in Seq(Servers)
    BY ConcatProperties
<1>. QED
    BY <1>1, <1>3, <1>4, Zenon

LEMMA InPlaceStep ==
    ASSUME Typed, Typed', InPlace, [Next]_vars, Fresh'
    PROVE  InPlace'
<1>0. Len(Pages) \in Nat \ {0} /\ First \in 1..Len(Pages) /\ FilterCursor \in 0..Len(Pages)
    BY Parameters
<1>1. CASE FetchAgain
    <2>1. /\ pc' = "check" /\ cursor' = 0 /\ got' = <<>> /\ out' = <<>>
          /\ calls' = calls + 1 /\ calls \in Nat \ {0}
        BY <1>1 DEF FetchAgain, Typed, TypeOK
    <2>2. FilterCursor # 0
        BY <2>1 DEF Fresh
    <2>3. <<>> \o <<>> = <<>>
        OBVIOUS
    <2>4. Sent' = <<>>
        BY <2>1, <2>3, Zenon DEF Sent
    <2>. QED
        BY <2>1, <2>2, <2>4 DEF InPlace
<1>2. CASE CheckContext
    <2>1. /\ pc = "check" /\ pc' \in {"list", "closed"}
          /\ UNCHANGED <<urlCursor, cursor, page, nextCursor, Sent>>
        BY <1>2 DEF CheckContext, consumer, Sent
    <2>. QED
        BY <2>1 DEF InPlace
<1>3. CASE listServersPage
    <2>1. /\ pc = "list" /\ UNCHANGED <<cursor, Sent>>
          /\ urlCursor' = IF cursor # 0 THEN cursor
                          ELSE IF FilterCursor # 0 THEN FilterCursor ELSE urlCursor
        BY <1>3 DEF listServersPage, consumer, Sent
    <2>2. urlCursor' \in 0..Len(Pages)
        BY DEF Typed, TypeOK
    <2>3. CASE pc' = "closed"
        BY <2>3 DEF InPlace
    <2>4. CASE page' = Page(urlCursor') /\ nextCursor' = Successor(urlCursor') /\ pc' = "send"
        <3>1. Number(urlCursor') \in First..Len(Pages) /\ Sent \o Page(urlCursor') = Through(Number(urlCursor'))
            BY <2>1, <2>2, PageAsked
        <3>. QED
            BY <2>1, <2>4, <3>1, Zenon DEF InPlace
    <2>. QED
        BY <1>3, <2>3, <2>4 DEF listServersPage
<1>4. CASE SendServer
    <2>1. CASE pc' = "send"
        <3>1. Sent' \o page' = Sent \o page
            BY <1>4, <2>1, Moving
        <3>2. UNCHANGED <<urlCursor, nextCursor>> /\ pc = "send"
            BY <1>4 DEF SendServer
        <3>. QED
            BY <2>1, <3>1, <3>2, Zenon DEF InPlace
    <2>2. CASE pc' = "closed"
        BY <2>2 DEF InPlace
    <2>. QED
        BY <1>4, <2>1, <2>2 DEF SendServer
<1>5. CASE StopAtLimit
    BY <1>5 DEF StopAtLimit, InPlace
<1>6. CASE EndOfPage
    <2>1. pc = "send" /\ page = <<>> /\ UNCHANGED <<urlCursor, Sent>>
        BY <1>6 DEF EndOfPage, consumer, Sent
    <2>2. CASE pc' = "closed"
        BY <2>2 DEF InPlace
    <2>3. CASE pc' = "check" /\ nextCursor # 0 /\ cursor' = nextCursor
        <3> DEFINE n == Number(urlCursor)
        <3>1. n \in First..Len(Pages) /\ Sent \o page = Through(n) /\ nextCursor = Successor(urlCursor)
            BY <2>1 DEF InPlace
        <3>2. Sent \o <<>> = Sent
            BY ConcatProperties DEF Typed, Sent
        <3>3. Successor(urlCursor) = IF n = Len(Pages) THEN 0 ELSE n + 1
            BY Cursors DEF Typed, TypeOK
        <3>4. Sent' = Through(n)
            BY <2>1, <3>1, <3>2, Zenon
        <3> HIDE DEF n
        <3>5. cursor' = n + 1 /\ n + 1 \in (First + 1)..Len(Pages) /\ (n + 1) - 1 = n
            BY <1>0, <2>3, <3>1, <3>3
        <3>. QED
            BY <2>3, <3>4, <3>5 DEF InPlace
    <2>. QED
        BY <1>6, <2>2, <2>3 DEF EndOfPage
<1>7. CASE Consume
    <2>1. Sent' = Sent
        BY <1>7, Taken
    <2>. QED
        BY <1>7, <2>1 DEF Consume, InPlace
<1>8. CASE StopReading \/ Cancel \/ UNCHANGED vars
    <2>1. UNCHANGED <<pc, urlCursor, cursor, page, nextCursor, Sent>>
        BY <1>8 DEF StopReading, Cancel, vars, consumer, Sent
    <2>. QED
        BY <2>1 DEF InPlace
<1>. QED
    BY <1>1, <1>2, <1>3, <1>4, <1>5, <1>6, <1>7, <1>8 DEF Next, Fetching, Terminated

LEMMA SentFirstStep ==
    ASSUME Typed, InPlace, SentFirst, [Next]_vars
    PROVE  SentFirst'
<1>1. CASE FetchAgain
    <2>1. got' = <<>> /\ out' = <<>>
        BY <1>1 DEF FetchAgain
    <2>2. Wanted \in Seq(Servers)
        BY ThroughPages, Parameters
    <2>3. <<>> \o <<>> = <<>> /\ <<>> \o Wanted = Wanted
        BY <2>2
    <2>4. Sent' = <<>>
        BY <2>1, <2>3, Zenon DEF Sent
    <2>. QED
        BY <2>2, <2>3, <2>4, Zenon DEF SentFirst
<1>2. CASE SendServer /\ pc' = "send"
    <2> DEFINE n == Number(urlCursor)
    <2>1. n \in First..Len(Pages) /\ Sent \o page = Through(n)
        BY <1>2 DEF InPlace, SendServer
    <2>2. Sent' \o page' = Through(n)
        BY <1>2, <2>1, Moving, Zenon
    <2>3. page' \in Seq(Servers) /\ got' \in Seq(Servers) /\ out' \in Seq(Servers)
        BY <1>2, TypedStep DEF Typed
    <2>4. Sent' \in Seq(Servers)
        BY <2>3, ConcatProperties DEF Sent
    <2> HIDE DEF n
    <2>5. \E t \in Seq(Servers) : Sent' \o t = Wanted
        BY <2>1, <2>2, <2>3, <2>4, FirstOfPage
    <2>. QED
        BY <2>5, Zenon DEF SentFirst
<1>3. CASE Consume
    BY <1>3, Taken, Zenon DEF SentFirst
<1>4. CASE ~FetchAgain /\ ~(SendServer /\ pc' = "send") /\ ~Consume
    <2>1. UNCHANGED <<got, out>>
        BY <1>4 DEF Next, Fetching, CheckContext, listServersPage, SendServer, StopAtLimit,
            EndOfPage, StopReading, Cancel, Terminated, vars, consumer
    <2>2. Sent' = Sent
        BY <2>1, Zenon DEF Sent
    <2>. QED
        BY <2>2, Zenon DEF SentFirst
<1>. QED
    BY <1>1, <1>2, <1>3, <1>4

LEMMA EndedStep ==
    ASSUME Typed, WithinLimit, InPlace, Ended, [Next]_vars
    PROVE  Ended'
<1>1. CASE StopAtLimit
    <2>1. Limit \in Nat /\ count \in Nat /\ count = Len(Sent)
        <3>1. got \o out \in Seq(Servers)
            BY ConcatProperties DEF Typed
        <3>. QED
            BY <3>1, Parameters DEF Typed, TypeOK, Sent
    <2>2. Limit > 0 /\ Len(Sent) = Limit
        BY <1>1, <2>1 DEF StopAtLimit, LimitReached, WithinLimit
    <2>3. Sent' = Sent
        BY <1>1 DEF StopAtLimit, consumer, Sent
    <2>. QED
        BY <2>2, <2>3, Zenon DEF Ended
<1>2. CASE EndOfPage
    <2>1. pc = "send" /\ page = <<>> /\ Sent' = Sent
        BY <1>2 DEF EndOfPage, consumer, Sent
    <2>2. CASE pc' # "closed"
        BY <2>2 DEF Ended
    <2>3. CASE nextCursor = 0
        <3> DEFINE n == Number(urlCursor)
        <3>1. n \in First..Len(Pages) /\ Sent \o page = Through(n) /\ nextCursor = Successor(urlCursor)
            BY <2>1 DEF InPlace
        <3>2. Sent \o <<>> = Sent
            BY ConcatProperties DEF Typed, Sent
        <3>3. Successor(urlCursor) = IF n = Len(Pages) THEN 0 ELSE n + 1
            BY Cursors DEF Typed, TypeOK
        <3>4. Sent' = Through(n)
            BY <2>1, <3>1, <3>2, Zenon
        <3> HIDE DEF n
        <3>5. n = Len(Pages)
            BY <2>3, <3>1, <3>3, Parameters
        <3>. QED
            BY <3>4, <3>5, ThroughPages, Zenon DEF Ended
    <2>. QED
        BY <1>2, <2>2, <2>3 DEF EndOfPage
<1>3. CASE Consume
    <2>1. Sent' = Sent
        BY <1>3, Taken
    <2>. QED
        BY <1>3, <2>1 DEF Consume, Ended
<1>4. CASE StopReading \/ Cancel \/ UNCHANGED vars
    <2>1. UNCHANGED <<pc, err, Sent>>
        BY <1>4 DEF StopReading, Cancel, vars, consumer, Sent
    <2>. QED
        BY <2>1 DEF Ended
<1>5. CASE FetchAgain \/ CheckContext \/ listServersPage \/ SendServer
    <2>1. ~(pc' = "closed" /\ ~err')
        BY <1>5 DEF FetchAgain, CheckContext, listServersPage, SendServer
    <2>. QED
        BY <2>1 DEF Ended
<1>. QED
    BY <1>1, <1>2, <1>3, <1>4, <1>5 DEF Next, Fetching, Terminated

LEMMA Begun == Init => Inv
<1> SUFFICES ASSUME Init PROVE Inv
    OBVIOUS
<1>1. Sent = <<>> /\ Len(Sent) = 0 /\ <<>> \in Seq(Servers) /\ Len(<<>>) = 0
    BY DEF Init, Sent
<1>2. Typed
    <2>1. page \in Seq(Servers) /\ got \in Seq(Servers) /\ out \in Seq(Servers)
        BY <1>1, Zenon DEF Init
    <2>2. count = Len(Sent) /\ Len(out) = 0
        BY <1>1, Zenon DEF Init
    <2>3. /\ {urlCursor, cursor, nextCursor} \subseteq 0..Len(Pages)
          /\ calls \in 1..MaxCalls
        BY Parameters DEF Init
    <2>4. 0 <= OutBuf
        BY Parameters
    <2>5. pc \in {"check", "list", "send", "closed"} /\ {err, reading, cancelled} \subseteq BOOLEAN
        BY DEF Init
    <2>. QED
        BY <2>1, <2>2, <2>3, <2>4, <2>5, Zenon DEF Typed, TypeOK
<1>3. Wanted \in Seq(Servers) /\ <<>> \o Wanted = Wanted
    BY ThroughPages, Parameters
<1>4. SentFirst
    BY <1>1, <1>3, Zenon DEF SentFirst
<1>5. InPlace /\ Ended /\ WithinLimit
    BY <1>1, Parameters DEF Init, InPlace, Ended, WithinLimit
<1>. QED
    BY <1>2, <1>4, <1>5 DEF Inv

\* A call that is fresh after a step was so before it.
LEMMA StaysFresh ==
    ASSUME Typed, [Next]_vars, Fresh'
    PROVE  Fresh
<1>1. calls \in Nat \ {0} /\ calls' \in {calls, calls + 1}
    BY DEF Typed, TypeOK, Next, FetchAgain, Fetching, CheckContext, listServersPage,
        SendServer, StopAtLimit, EndOfPage, Consume, StopReading, Cancel, Terminated, vars
<1>. QED
    BY <1>1 DEF Fresh

\* The inductive invariant: Fetch is where its cursor and its page say it is.
THEOREM InvHolds == Spec => []Inv
<1>1. ASSUME Inv, [Next]_vars PROVE Inv'
    <2>1. Typed' /\ WithinLimit'
        BY <1>1, TypedStep, WithinLimitStep DEF Inv
    <2>2. ASSUME Fresh' PROVE InPlace' /\ SentFirst' /\ Ended'
        <3>1. InPlace /\ SentFirst /\ Ended
            BY <1>1, <2>2, StaysFresh DEF Inv
        <3>. QED
            BY <1>1, <2>1, <2>2, <3>1, InPlaceStep, SentFirstStep, EndedStep DEF Inv
    <2>. QED
        BY <2>1, <2>2 DEF Inv
<1>. QED
    BY <1>1, Begun, PTL DEF Spec

----------------------------------------------------------------------------
\* Fetch counts exactly what it has sent, never overfills outputCh and asks
\* only for pages there are.
THEOREM AlwaysTyped == Spec => []TypeOK
<1>1. Inv => TypeOK
    BY DEF Inv, Typed
<1>. QED
    BY <1>1, InvHolds, PTL

\* No call sends more than the limit, whatever the cursor left in the URL.
THEOREM LimitKept == Spec => [](Limit > 0 => Len(Sent) <= Limit)
<1>1. Inv => (Limit > 0 => Len(Sent) <= Limit)
    BY DEF Inv, Typed, TypeOK, WithinLimit
<1>. QED
    BY <1>1, InvHolds, PTL

\* Fetch sends the servers asked for in the registry's order, without a gap and
\* without a repetition, and at most Limit of them: in the first call, and in
\* every call with a cursor filter.  Without one a later call starts where the
\* last request of the one before it did.
THEOREM InOrder == Spec => [](FilterCursor # 0 \/ calls = 1 => SentIsPrefix)
<1>1. ASSUME Inv, FilterCursor # 0 \/ calls = 1 PROVE SentIsPrefix
    <2>1. PICK t \in Seq(Servers) : Sent \o t = Wanted
        BY <1>1, Zenon DEF Inv, Fresh, SentFirst
    <2>2. Sent \in Seq(Servers)
        BY <1>1, ConcatProperties DEF Inv, Typed, Sent
    <2>3. IsPrefix(Sent, Sent \o t)
        BY <2>2, Begins
    <2>4. IsPrefix(Sent, Wanted)
        BY <2>1, <2>3, Zenon
    <2>5. Limit > 0 => Len(Sent) <= Limit
        BY <1>1 DEF Inv, Typed, TypeOK, WithinLimit
    <2>. QED
        BY <2>4, <2>5 DEF SentIsPrefix
<1>. QED
    BY <1>1, InvHolds, PTL

\* Such a call that ends without an error has sent everything asked for, or as
\* much as the limit allows.
THEOREM QuietIsComplete == Spec => [](FilterCursor # 0 \/ calls = 1 => QuietEndIsComplete)
<1>1. ASSUME Inv, FilterCursor # 0 \/ calls = 1 PROVE QuietEndIsComplete
    BY <1>1, Zenon DEF Inv, Fresh, Ended, QuietEndIsComplete
<1>. QED
    BY <1>1, InvHolds, PTL

----------------------------------------------------------------------------
(* Waiting for room.                                                       *)

\* The guards of Fetching and that of the consumer, put together: what TLC
\* finds ENABLED on the run's instance.
CanFetch ==
    \/ pc \in {"check", "list"}
    \/ /\ pc = "send"
       /\ page = <<>> \/ LimitReached \/ Len(out) < OutBuf \/ cancelled

CanRead == reading /\ out # <<>>

NeverStuck == CanFetch \/ CanRead \/ pc = "closed" \/ (~reading /\ ~cancelled)

\* In every call of Fetch the goroutine waits for room only where there is
\* something to be read, and after a cancellation not even then.
THEOREM NobodyStuck == Spec => []NeverStuck
<1>1. ASSUME Inv, pc = "send", reading
      PROVE  CanFetch \/ CanRead
    <2>1. out \in Seq(Servers) /\ OutBuf \in Nat \ {0}
        BY <1>1, RegistryAssumption DEF Inv, Typed
    <2>2. Len(out) < OutBuf \/ out # <<>>
        BY <2>1
    <2>. QED
        BY <1>1, <2>2 DEF CanFetch, CanRead
<1>2. Inv => /\ pc \in {"check", "list", "send", "closed"}
             /\ {reading, cancelled} \subseteq BOOLEAN
    BY DEF Inv, Typed, TypeOK
<1>3. Inv => NeverStuck
    BY <1>1, <1>2 DEF NeverStuck, CanFetch
<1>. QED
    BY <1>3, InvHolds, PTL
=============================================================================
