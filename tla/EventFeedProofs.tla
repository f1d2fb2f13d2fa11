-------------------------- MODULE EventFeedProofs --------------------------
(***************************************************************************)
(* What the feed lists, for any number of fetches that overlap, any window *)
(* and any limit.                                                          *)
(*                                                                         *)
(* Events are logged in the order of their ledgers, so a window of ledgers *)
(* is a stretch of the log, and so are the first events of a window.  The  *)
(* log only grows at its end, so what was a stretch remains one while an   *)
(* answer is on its way and while it is cached.                            *)
(***************************************************************************)
EXTENDS EventFeed, SumTheorems, SequenceTheorems

-----------------------------------------------------------------------------
\* Newest first.

\* How many of S are newer than p.
Newer(S, p) == {q \in S : q > p}

(* Of two positions the older one has more newer ones.                     *)
LEMMA OlderHasMore ==
    ASSUME NEW S \in SUBSET Int, IsFiniteSet(S), NEW p \in S, NEW q \in S, p < q
    PROVE  /\ Cardinality(Newer(S, p)) \in Nat /\ Cardinality(Newer(S, q)) \in Nat
           /\ Cardinality(Newer(S, q)) < Cardinality(Newer(S, p))
<1>1. IsFiniteSet(Newer(S, p))
  <2>1. Newer(S, p) \in SUBSET S
    BY DEF Newer
  <2> QED
    BY <2>1, FS_Subset
<1>2. Newer(S, q) \in SUBSET Newer(S, p) /\ q \in Newer(S, p) /\ q \notin Newer(S, q)
  <2>1. p \in Int /\ q \in Int /\ \A x \in S : x \in Int
    OBVIOUS
  <2>2. \A x \in S : x > q => x > p
    BY <2>1
  <2>3. q > p /\ ~(q > q)
    BY <2>1
  <2> QED
    BY <2>2, <2>3 DEF Newer
<1>3. /\ IsFiniteSet(Newer(S, q))
      /\ Cardinality(Newer(S, q)) <= Cardinality(Newer(S, p))
      /\ Cardinality(Newer(S, q)) # Cardinality(Newer(S, p))
  BY <1>1, <1>2, FS_Subset
<1> QED
  BY <1>1, <1>3, FS_CardinalityType

(* Any number of newer ones, up to all but one, is that of some position.  *)
LEMMA EveryRankIsTaken ==
    ASSUME NEW S \in SUBSET Int, IsFiniteSet(S), NEW k \in 1 .. Cardinality(S)
    PROVE  \E p \in S : Cardinality(Newer(S, p)) = k - 1
<1> DEFINE n == Cardinality(S)
           rank == [p \in S |-> Cardinality(Newer(S, p)) + 1]
<1>1. n \in Nat
  BY FS_CardinalityType
<1>2. ASSUME NEW p \in S
      PROVE  Cardinality(Newer(S, p)) \in Nat /\ Cardinality(Newer(S, p)) < n
  <2>1. Newer(S, p) \in SUBSET S /\ p \notin Newer(S, p)
    BY DEF Newer
  <2>2. IsFiniteSet(Newer(S, p)) /\ Cardinality(Newer(S, p)) <= n
        /\ Cardinality(Newer(S, p)) # n
    BY <2>1, FS_Subset
  <2> QED
    BY <1>1, <2>2, FS_CardinalityType
<1>3. rank \in [S -> 1 .. n]
  BY <1>1, <1>2
<1>4. ASSUME NEW p \in S, NEW q \in S, rank[p] = rank[q]
      PROVE  p = q
  <2>1. Cardinality(Newer(S, p)) = Cardinality(Newer(S, q))
    BY <1>2, <1>4
  <2>2. ~(p < q) /\ ~(q < p)
    BY <2>1, <1>2, OlderHasMore
  <2> QED
    BY <2>2
<1>5. rank \in Injection(S, 1 .. n)
  BY <1>3, <1>4 DEF Injection, IsInjective
<1>6. IsFiniteSet(1 .. n) /\ Cardinality(1 .. n) = n
  BY <1>1, FS_Interval
<1>7. rank \in Surjection(S, 1 .. n)
  BY <1>5, <1>6, FS_Injection
<1>8. PICK p \in S : rank[p] = k
  BY <1>7 DEF Surjection
<1> QED
  BY <1>2, <1>8

(* A list that is newest first has all positions, each once, and each of   *)
(* them before the older ones.                                             *)
THEOREM NewestFirstIsSorted ==
    ASSUME NEW S \in SUBSET Int, IsFiniteSet(S)
    PROVE  /\ NewestFirst(S) \in Seq(S)
           /\ Len(NewestFirst(S)) = Cardinality(S)
           /\ \A p \in S : \E k \in DOMAIN NewestFirst(S) : NewestFirst(S)[k] = p
           /\ \A j, k \in DOMAIN NewestFirst(S) :
                 j < k => NewestFirst(S)[j] > NewestFirst(S)[k]
<1> DEFINE n == Cardinality(S)
           list == NewestFirst(S)
<1>1. n \in Nat
  BY FS_CardinalityType
<1> DEFINE newer(p) == Cardinality(Newer(S, p))
<1>0. \A p, q \in S : p < q => newer(q) < newer(p) /\ newer(p) \in Nat /\ newer(q) \in Nat
  BY OlderHasMore
<1>2. ASSUME NEW k \in 1 .. n
      PROVE  list[k] \in S /\ Cardinality(Newer(S, list[k])) = k - 1
  <2>1. list[k] = CHOOSE p \in S : Cardinality(Newer(S, p)) = k - 1
    BY DEF NewestFirst, Newer
  <2> QED
    BY <2>1, EveryRankIsTaken
<1>3. DOMAIN list = 1 .. n
  BY DEF NewestFirst
<1>4. list \in [1 .. n -> S]
  <2>1. list = [k \in 1 .. n |-> list[k]]
    BY DEF NewestFirst
  <2> HIDE DEF list
  <2> QED
    BY <1>2, <2>1
<1> HIDE DEF list
<1>5. list \in Seq(S) /\ Len(list) = n
  BY <1>1, <1>4, SeqDef, LenProperties
<1>6. ASSUME NEW j \in 1 .. n, NEW k \in 1 .. n, j < k
      PROVE  list[j] > list[k]
  <2>1. /\ list[j] \in S /\ list[k] \in S
        /\ newer(list[j]) = j - 1 /\ newer(list[k]) = k - 1
    BY <1>2
  <2> HIDE DEF newer
  <2>2. newer(list[j]) < newer(list[k])
    BY <1>6, <2>1
  <2>3. list[j] \in Int /\ list[k] \in Int
    BY <2>1
  <2> QED
    BY <1>0, <2>1, <2>2, <2>3
<1>7. ASSUME NEW p \in S
      PROVE  \E k \in 1 .. n : list[k] = p
  <2> DEFINE k == newer(p) + 1
  <2>1. newer(p) \in Nat /\ k \in 1 .. n
    <3>1. Newer(S, p) \in SUBSET S /\ p \notin Newer(S, p)
      BY DEF Newer
    <3>2. IsFiniteSet(Newer(S, p)) /\ Cardinality(Newer(S, p)) <= n
          /\ Cardinality(Newer(S, p)) # n
      BY <3>1, FS_Subset
    <3>3. Cardinality(Newer(S, p)) \in Nat
      BY <3>2, FS_CardinalityType
    <3> QED
      BY <1>1, <3>2, <3>3
  <2>2. list[k] \in S /\ newer(list[k]) = k - 1
    BY <1>2, <2>1
  <2> HIDE DEF newer
  <2>3. list[k] \in S /\ newer(list[k]) = newer(p)
    BY <2>1, <2>2
  <2>4. list[k] = p
    <3>1. list[k] \in Int /\ p \in Int
      BY <2>3
    <3> QED
      BY <1>0, <2>1, <2>3, <3>1
  <2> QED
    BY <2>1, <2>4
<1> QED
  BY <1>3, <1>5, <1>6, <1>7 DEF list

-----------------------------------------------------------------------------
\* Stretches of the log.

Event == [topic : {"created", "settled"}, ledger : Nat]

Fetch == [phase : {"free", "ledger", "events", "answered"}, cancelled : BOOLEAN,
          start : Nat, result : Seq(Nat)]

\* The settlements of a stretch of this log, newest first.
IsStretch(list, lg) ==
    \E first, last \in 0 .. Len(lg) :
        list = NewestFirst({k \in first + 1 .. last : lg[k].topic = "settled"})

\* Events are logged ledger by ledger.
LogInv ==
    /\ log \in Seq(Event)
    /\ \A k \in DOMAIN log : log[k].ledger <= ledger
    /\ \A j, k \in DOMAIN log : j <= k => log[j].ledger <= log[k].ledger

FetchInv(job) ==
    /\ IsStretch(job.result, log)
    /\ job.phase \in {"events", "answered"} => job.start \in 1 .. ledger

FeedInv ==
    /\ ledger \in Nat \ {0}
    /\ LogInv
    /\ IsStretch(events, log)
    /\ cache \in [fresh : BOOLEAN, events : Seq(Nat)]
    /\ IsStretch(cache.events, log)
    /\ fetch \in [Fetches -> Fetch]
    /\ \A f \in Fetches : FetchInv(fetch[f])

(* The positions of a log are numbers.                                     *)
LEMMA LogFacts ==
    ASSUME NEW lg \in Seq(Event)
    PROVE  Len(lg) \in Nat /\ DOMAIN lg = 1 .. Len(lg)
  BY LenProperties

(* A stretch is a list of positions.                                       *)
LEMMA StretchType ==
    ASSUME NEW lg \in Seq(Event), NEW list, IsStretch(list, lg)
    PROVE  list \in Seq(DOMAIN lg) /\ list \in Seq(Nat)
<1>1. PICK first \in 0 .. Len(lg), last \in 0 .. Len(lg) :
        list = NewestFirst({k \in first + 1 .. last : lg[k].topic = "settled"})
  BY DEF IsStretch
<1> DEFINE S == {k \in first + 1 .. last : lg[k].topic = "settled"}
<1>2. Len(lg) \in Nat /\ DOMAIN lg = 1 .. Len(lg)
  BY LogFacts
<1>3. S \subseteq DOMAIN lg /\ S \in SUBSET Int
  BY <1>2
<1>4. IsFiniteSet(S)
  <2>1. IsFiniteSet(1 .. Len(lg))
    BY <1>2, FS_Interval
  <2> HIDE DEF S
  <2> QED
    BY <1>2, <1>3, <2>1, FS_Subset
<1>5. list = NewestFirst(S)
  BY <1>1
<1> HIDE DEF S
<1>6. list \in Seq(S) /\ Len(list) = Cardinality(S)
  BY <1>3, <1>4, <1>5, NewestFirstIsSorted
<1>7. Len(list) \in Nat /\ list \in [1 .. Len(list) -> S]
  BY <1>6, LenProperties
<1>8. list \in [1 .. Len(list) -> DOMAIN lg] /\ list \in [1 .. Len(list) -> Nat]
  BY <1>2, <1>3, <1>7
<1> QED
  BY <1>7, <1>8, SeqDef

(* The empty list is a stretch.                                            *)
LEMMA EmptyStretch ==
    ASSUME NEW lg \in Seq(Event)
    PROVE  IsStretch(<<>>, lg)
<1> DEFINE S == {k \in 0 + 1 .. 0 : lg[k].topic = "settled"}
<1>1. S = {}
  OBVIOUS
<1>2. 0 \in 0 .. Len(lg)
  BY LogFacts
<1>3. NewestFirst({}) = <<>>
  <2>1. NewestFirst({}) \in Seq({}) /\ Len(NewestFirst({})) = 0
    BY FS_EmptySet, NewestFirstIsSorted
  <2> QED
    BY <2>1, EmptySeq
<1>4. <<>> = NewestFirst(S)
  BY <1>1, <1>3
<1> QED
  BY <1>2, <1>4 DEF IsStretch

(* It remains a stretch while the log grows.                               *)
LEMMA StretchStays ==
    ASSUME NEW lg \in Seq(Event), NEW new \in Seq(Event), Len(lg) <= Len(new),
           \A k \in 1 .. Len(lg) : new[k] = lg[k],
           NEW list, IsStretch(list, lg)
    PROVE  IsStretch(list, new)
<1>1. PICK first \in 0 .. Len(lg), last \in 0 .. Len(lg) :
        list = NewestFirst({k \in first + 1 .. last : lg[k].topic = "settled"})
  BY DEF IsStretch
<1>2. Len(lg) \in Nat /\ Len(new) \in Nat
  BY LogFacts
<1>3. first \in 0 .. Len(new) /\ last \in 0 .. Len(new)
  BY <1>2
<1>4. {k \in first + 1 .. last : lg[k].topic = "settled"} =
      {k \in first + 1 .. last : new[k].topic = "settled"}
  BY <1>2
<1> QED
  BY <1>1, <1>3, <1>4 DEF IsStretch

(* A window of ledgers is the end of the log.                              *)
LEMMA WindowIsEnd ==
    ASSUME LogInv, NEW start \in Nat, Since(start) # {}
    PROVE  \E first \in 1 .. Len(log) : Since(start) = first .. Len(log)
<1>1. /\ Len(log) \in Nat /\ DOMAIN log = 1 .. Len(log)
      /\ \A k \in DOMAIN log : log[k].ledger \in Nat
  <2>1. log \in Seq(Event)
    BY DEF LogInv
  <2>2. \A k \in 1 .. Len(log) : log[k] \in Event
    BY <2>1, ElementOfSeq
  <2> QED
    BY <2>1, <2>2, LogFacts DEF Event
<1>2. Since(start) \in SUBSET Nat
  BY <1>1 DEF Since
<1>3. PICK first \in Since(start) : \A k \in Since(start) : first <= k
  BY <1>2, LeastNatural
<1>4. first \in 1 .. Len(log) /\ log[first].ledger >= start
  BY <1>1, <1>3 DEF Since
<1>5. Since(start) \subseteq first .. Len(log)
  BY <1>1, <1>3 DEF Since
<1>6. ASSUME NEW k \in first .. Len(log)
      PROVE  k \in Since(start)
  <2>1. k \in DOMAIN log /\ first \in DOMAIN log /\ first <= k
    BY <1>1, <1>4
  <2>2. log[first].ledger <= log[k].ledger
    BY <2>1 DEF LogInv
  <2>3. log[k].ledger >= start
    BY <1>1, <1>4, <2>1, <2>2
  <2> QED
    BY <2>1, <2>3 DEF Since
<1> QED
  BY <1>4, <1>5, <1>6

(* What the server answers of a window, and the page keeps, is a stretch:  *)
(* its first Limit events are those up to some position.                   *)
LEMMA AnswerIsStretch ==
    ASSUME LogInv, NEW start \in Nat
    PROVE  IsStretch(Answer(start), log)
<1> DEFINE n == Len(log)
           upTo(k) == {j \in Since(start) : j <= k}
           answered == {k \in Since(start) : Cardinality(upTo(k)) <= Limit}
<1>1. log \in Seq(Event) /\ n \in Nat
  BY LogFacts DEF LogInv
<1>2. Answer(start) = NewestFirst(Settled(answered))
  BY DEF Answer
<1>3. CASE Since(start) = {}
  <2>1. Settled(answered) = {}
    BY <1>3 DEF Settled
  <2>2. {k \in 0 + 1 .. 0 : log[k].topic = "settled"} = {}
    OBVIOUS
  <2>3. 0 \in 0 .. n
    BY <1>1
  <2> HIDE DEF answered
  <2> QED
    BY <1>2, <2>1, <2>2, <2>3 DEF IsStretch
<1>4. CASE Since(start) # {}
  <2>1. PICK first \in 1 .. n : Since(start) = first .. n
    BY <1>4, WindowIsEnd
  <2> DEFINE last == IF first + Limit - 1 < n THEN first + Limit - 1 ELSE n
  <2>2. Limit \in Nat \ {0}
    BY FeedAssumption
  <2>3. first \in Int /\ last \in 0 .. n /\ first - 1 \in 0 .. n
    BY <1>1, <2>1, <2>2
  <2>4. ASSUME NEW k \in first .. n
        PROVE  Cardinality(upTo(k)) <= Limit <=> k <= last
    <3>1. upTo(k) = first .. k
      BY <1>1, <2>1
    <3>2. Cardinality(first .. k) = k - first + 1
      <4>1. k \in Int /\ first \in Int /\ ~(first > k)
        BY <1>1, <2>1
      <4> QED
        BY <4>1, FS_Interval
    <3> HIDE DEF upTo
    <3> QED
      BY <1>1, <2>1, <2>2, <3>1, <3>2
  <2>5. answered = first .. last
    <3>1. answered = {k \in first .. n : Cardinality(upTo(k)) <= Limit}
      BY <2>1
    <3>2. {k \in first .. n : k <= last} = first .. last
      BY <1>1, <2>1, <2>3
    <3> HIDE DEF upTo, answered, last
    <3> QED
      BY <2>4, <3>1, <3>2
  <2> HIDE DEF answered, last
  <2>6. Settled(answered) =
          {k \in (first - 1) + 1 .. last : log[k].topic = "settled"}
    <3>1. (first - 1) + 1 = first
      BY <2>3
    <3> QED
      BY <2>5, <3>1 DEF Settled
  <2> QED
    BY <1>2, <2>3, <2>6 DEF IsStretch
<1> QED
  BY <1>3, <1>4

-----------------------------------------------------------------------------
\* Every action.

(* The window of a fetch ends now and begins in a closed ledger.           *)
LEMMA WindowStartBounds ==
    ASSUME NEW latest \in Nat \ {0}
    PROVE  WindowStart(latest) \in 1 .. latest
  BY FeedAssumption DEF WindowStart

(* One fetch moves on and leaves the chain alone.                          *)
LEMMA FetchMoves ==
    ASSUME FeedInv, NEW f \in Fetches, NEW job \in Fetch, FetchInv(job),
           fetch' = [fetch EXCEPT ![f] = job], UNCHANGED <<ledger, log>>,
           cache' \in [fresh : BOOLEAN, events : Seq(Nat)],
           IsStretch(cache'.events, log), IsStretch(events', log)
    PROVE  FeedInv'
<1>1. fetch' \in [Fetches -> Fetch]
  BY DEF FeedInv
<1>2. \A g \in Fetches : FetchInv(fetch'[g])
  BY DEF FeedInv
<1>3. \A g \in Fetches : FetchInv(fetch[g])'
  BY <1>2 DEF FetchInv
<1> QED
  BY <1>1, <1>3 DEF FeedInv, LogInv

(* A fetch that is over, or has just begun, has nothing.                   *)
LEMMA IdleFetches ==
    ASSUME LogInv
    PROVE  /\ Free \in Fetch /\ FetchInv(Free)
           /\ Started \in Fetch /\ FetchInv(Started)
           /\ [Started EXCEPT !.cancelled = TRUE] \in Fetch
           /\ FetchInv([Started EXCEPT !.cancelled = TRUE])
<1>1. <<>> \in Seq(Nat) /\ IsStretch(<<>>, log)
  BY EmptySeq, EmptyStretch DEF LogInv
<1>2. Free \in Fetch /\ Free.result = <<>> /\ Free.phase = "free"
  BY <1>1 DEF Free, Fetch
<1>3. Started \in Fetch /\ Started.result = <<>> /\ Started.phase = "ledger"
  BY <1>2 DEF Started, Fetch
<1> DEFINE cancelled == [Started EXCEPT !.cancelled = TRUE]
<1>4. /\ cancelled \in Fetch
      /\ cancelled.result = <<>> /\ cancelled.phase = "ledger"
  BY <1>3 DEF Fetch
<1> HIDE DEF cancelled
<1>5. FetchInv(Free) /\ FetchInv(Started) /\ FetchInv(cancelled)
  BY <1>1, <1>2, <1>3, <1>4 DEF FetchInv
<1> QED
  BY <1>2, <1>3, <1>4, <1>5 DEF cancelled

(* Every step of a fetch.                                                  *)
LEMMA FetchStepInv ==
    ASSUME FeedInv, NEW f \in Fetches,
           AnswerLedger(f) \/ AnswerEvents(f) \/ Take(f) \/ Fail(f)
    PROVE  FeedInv'
<1> DEFINE old == fetch[f]
<1>1. /\ old \in Fetch /\ FetchInv(old) /\ ledger \in Nat \ {0}
      /\ LogInv /\ log \in Seq(Event)
      /\ IsStretch(events, log) /\ IsStretch(cache.events, log)
      /\ cache \in [fresh : BOOLEAN, events : Seq(Nat)]
  BY DEF FeedInv, LogInv
<1>2. CASE AnswerLedger(f)
  <2> DEFINE start == WindowStart(ledger)
             job == [[old EXCEPT !.phase = "events"] EXCEPT !.start = start]
  <2>1. fetch' = [fetch EXCEPT ![f] = job] /\ UNCHANGED <<ledger, log, cache, events>>
    BY <1>2 DEF AnswerLedger, FeedInv
  <2>2. start \in 1 .. ledger /\ start \in Nat
    BY <1>1, WindowStartBounds
  <2> HIDE DEF start
  <2>3. job \in Fetch /\ job.result = old.result /\ job.start = start
    BY <1>1, <2>2 DEF Fetch
  <2> HIDE DEF job
  <2>4. FetchInv(job)
    BY <1>1, <2>2, <2>3 DEF FetchInv
  <2> QED
    BY <1>1, <2>1, <2>3, <2>4, FetchMoves
<1>3. CASE AnswerEvents(f)
  <2> DEFINE result == Answer(old.start)
             job == [[old EXCEPT !.phase = "answered"] EXCEPT !.result = result]
  <2>1. /\ fetch' = [fetch EXCEPT ![f] = job]
        /\ UNCHANGED <<ledger, log, cache, events>>
        /\ old.phase = "events"
    BY <1>3 DEF AnswerEvents, FeedInv
  <2>2. old.start \in Nat /\ old.start \in 1 .. ledger
    BY <1>1, <2>1 DEF Fetch, FetchInv
  <2>3. IsStretch(result, log) /\ result \in Seq(Nat)
    BY <1>1, <2>2, AnswerIsStretch, StretchType
  <2> HIDE DEF result
  <2>4. job \in Fetch /\ job.result = result /\ job.start = old.start
    BY <1>1, <2>3 DEF Fetch
  <2> HIDE DEF job
  <2>5. FetchInv(job)
    BY <2>2, <2>3, <2>4 DEF FetchInv
  <2> QED
    BY <1>1, <2>1, <2>4, <2>5, FetchMoves
<1>4. CASE Take(f)
  <2>1. /\ fetch' = [fetch EXCEPT ![f] = Free]
        /\ UNCHANGED <<ledger, log>>
        /\ cache' = [fresh |-> TRUE, events |-> old.result]
        /\ events' = IF old.cancelled THEN events ELSE old.result
    BY <1>4 DEF Take
  <2>2. IsStretch(old.result, log) /\ old.result \in Seq(Nat)
    BY <1>1 DEF FetchInv, Fetch
  <2>3. /\ cache' \in [fresh : BOOLEAN, events : Seq(Nat)]
        /\ IsStretch(cache'.events, log) /\ IsStretch(events', log)
    BY <1>1, <2>1, <2>2
  <2> QED
    BY <1>1, <2>1, <2>3, IdleFetches, FetchMoves
<1>5. CASE Fail(f)
  <2>1. fetch' = [fetch EXCEPT ![f] = Free] /\ UNCHANGED <<ledger, log, cache, events>>
    BY <1>5 DEF Fail
  <2> QED
    BY <1>1, <2>1, IdleFetches, FetchMoves
<1> QED
  BY <1>2, <1>3, <1>4, <1>5

(* A tick shows what is cached, or begins a fetch.                         *)
LEMMA TickInv ==
    ASSUME FeedInv, Tick
    PROVE  FeedInv'
<1>1. /\ LogInv /\ IsStretch(events, log) /\ IsStretch(cache.events, log)
      /\ cache \in [fresh : BOOLEAN, events : Seq(Nat)]
  BY DEF FeedInv
<1>2. CASE events' = Shown /\ UNCHANGED <<ledger, log, cache, fetch>>
  BY <1>1, <1>2 DEF Shown, FeedInv, LogInv, FetchInv
<1>3. CASE /\ \E f \in Fetches : fetch' = [fetch EXCEPT ![f] = Started]
           /\ UNCHANGED <<ledger, log, cache, events>>
  BY <1>1, <1>3, IdleFetches, FetchMoves
<1> QED
  BY <1>2, <1>3 DEF Tick

(* The next ledger closes: its events are the last of the log.             *)
LEMMA CloseLedgerInv ==
    ASSUME FeedInv, NEW batch \in Batches, CloseLedger(batch)
    PROVE  FeedInv'
<1> DEFINE next == ledger + 1
           added == [k \in DOMAIN batch |-> [topic |-> batch[k], ledger |-> next]]
<1>1. /\ ledger \in Nat \ {0} /\ ledger' = next /\ log' = log \o added
      /\ UNCHANGED <<cache, fetch, events>> /\ log \in Seq(Event)
  BY DEF CloseLedger, FeedInv, LogInv
<1>2. added \in Seq(Event) /\ \A k \in 1 .. Len(added) : added[k].ledger = next
  <2>1. batch \in Seq({"created", "settled"})
    BY FeedAssumption
  <2>2. Len(batch) \in Nat /\ batch \in [1 .. Len(batch) -> {"created", "settled"}]
    BY <2>1, LenProperties
  <2>3. next \in Nat
    BY <1>1
  <2> HIDE DEF next
  <2>4. added \in [1 .. Len(batch) -> Event]
    BY <2>2, <2>3 DEF Event
  <2>5. added \in Seq(Event) /\ Len(added) = Len(batch)
    BY <2>2, <2>4, SeqDef, LenProperties
  <2> QED
    BY <2>2, <2>5
<1> HIDE DEF added
<1>3. /\ log' \in Seq(Event)
      /\ Len(log') = Len(log) + Len(added)
      /\ \A i \in 1 .. Len(log) + Len(added) :
            log'[i] = IF i <= Len(log) THEN log[i] ELSE added[i - Len(log)]
  BY <1>1, <1>2, ConcatProperties
<1>4. /\ Len(log) \in Nat /\ DOMAIN log = 1 .. Len(log)
      /\ Len(added) \in Nat
      /\ DOMAIN log' = 1 .. Len(log) + Len(added)
      /\ \A k \in 1 .. Len(log) : log[k] \in Event
  BY <1>1, <1>2, <1>3, LogFacts, ElementOfSeq
<1>5. ASSUME NEW k \in 1 .. Len(log)
      PROVE  log'[k] = log[k] /\ log[k].ledger \in Nat /\ log[k].ledger <= ledger
  <2>1. log'[k] = log[k]
    BY <1>3, <1>4
  <2>2. log[k].ledger \in Nat
    BY <1>4 DEF Event
  <2>3. log[k].ledger <= ledger
    BY <1>4 DEF FeedInv, LogInv
  <2> QED
    BY <2>1, <2>2, <2>3
<1>6. \A k \in DOMAIN log' : ~(k <= Len(log)) => log'[k].ledger = next
  <2> SUFFICES ASSUME NEW k \in DOMAIN log', ~(k <= Len(log))
               PROVE  log'[k].ledger = next
    OBVIOUS
  <2>1. k - Len(log) \in 1 .. Len(added)
    BY <1>4
  <2> QED
    BY <1>2, <1>3, <1>4, <2>1
<1>7. LogInv'
  <2>1. ASSUME NEW k \in DOMAIN log'
        PROVE  log'[k].ledger <= ledger'
    BY <1>1, <1>4, <1>5, <1>6
  <2>2. ASSUME NEW j \in DOMAIN log', NEW k \in DOMAIN log', j <= k
        PROVE  log'[j].ledger <= log'[k].ledger
    <3>1. CASE k <= Len(log)
      <4>1. j \in DOMAIN log /\ k \in DOMAIN log
        BY <1>4, <2>2, <3>1
      <4>2. log[j].ledger <= log[k].ledger
        BY <2>2, <4>1 DEF FeedInv, LogInv
      <4> QED
        BY <1>4, <1>5, <4>1, <4>2
    <3>2. CASE ~(k <= Len(log))
      <4>1. log'[k].ledger = ledger'
        BY <1>1, <1>6, <3>2
      <4> QED
        BY <2>1, <4>1
    <3> QED
      BY <3>1, <3>2
  <2> QED
    BY <1>3, <2>1, <2>2 DEF LogInv
<1>8. ASSUME NEW list, IsStretch(list, log)
      PROVE  IsStretch(list, log')
  <2>1. Len(log) <= Len(log')
    BY <1>3, <1>4
  <2> QED
    BY <1>1, <1>3, <1>5, <1>8, <2>1, StretchStays
<1>9. ASSUME NEW f \in Fetches
      PROVE  FetchInv(fetch[f])'
  BY <1>1, <1>8 DEF FeedInv, FetchInv
<1> QED
  BY <1>1, <1>7, <1>8, <1>9 DEF FeedInv

(* The feed begins empty, with the fetch of the first tick.                *)
LEMMA FeedInitInv == FeedInit => FeedInv
<1> SUFFICES ASSUME FeedInit
             PROVE  FeedInv
  OBVIOUS
<1>1. ledger = 1 /\ log = <<>> /\ cache = [fresh |-> FALSE, events |-> <<>>]
      /\ events = <<>>
  BY DEF FeedInit
<1>2. log \in Seq(Event) /\ <<>> \in Seq(Nat) /\ DOMAIN log = {}
  BY <1>1, EmptySeq
<1>3. LogInv
  BY <1>2 DEF LogInv
<1>4. IsStretch(<<>>, log)
  BY <1>2, EmptyStretch
<1>5. \A f \in Fetches :
          fetch[f] \in {Free, Started, [Started EXCEPT !.cancelled = TRUE]}
  BY DEF FeedInit
<1>6. fetch \in [Fetches -> Fetch] /\ \A f \in Fetches : FetchInv(fetch[f])
  BY <1>3, <1>5, IdleFetches DEF FeedInit
<1> QED
  BY <1>1, <1>2, <1>3, <1>4, <1>6 DEF FeedInv

(* Every step keeps FeedInv.                                               *)
LEMMA FeedStepInv == FeedInv /\ [FeedNext]_feedVars => FeedInv'
<1> SUFFICES ASSUME FeedInv, [FeedNext]_feedVars
             PROVE  FeedInv'
  OBVIOUS
<1>1. CASE \E f \in Fetches :
              AnswerLedger(f) \/ AnswerEvents(f) \/ Take(f) \/ Fail(f)
  BY <1>1, FetchStepInv
<1>2. CASE Expire
  <2>1. cache' = [cache EXCEPT !.fresh = FALSE] /\ UNCHANGED <<ledger, log, fetch, events>>
    BY <1>2 DEF Expire
  <2>2. cache' \in [fresh : BOOLEAN, events : Seq(Nat)] /\ cache'.events = cache.events
    BY <2>1 DEF FeedInv
  <2> QED
    BY <2>1, <2>2 DEF FeedInv, LogInv, FetchInv
<1>3. CASE UNCHANGED feedVars
  BY <1>3 DEF feedVars, FeedInv, LogInv, FetchInv
<1> QED
  BY <1>1, <1>2, <1>3, TickInv, CloseLedgerInv DEF FeedNext

(* Every reachable state of the feed has FeedInv.                          *)
THEOREM FeedInvariant == FeedSpec => []FeedInv
  BY FeedInitInv, FeedStepInv, PTL DEF FeedSpec

(* What is shown, cached or on its way are positions in the log, and a     *)
(* fetch that has a window has one that begins in a closed ledger.         *)
THEOREM FeedTypeCorrect == FeedSpec => []FeedTypeOK
<1>1. FeedInv => FeedTypeOK
  BY StretchType DEF FeedInv, LogInv, FetchInv, FeedTypeOK
<1> QED
  BY <1>1, FeedInvariant, PTL

(* The feed lists the settlements of a stretch of the log, each once, none *)
(* left out between two, newest first, however fetches overtake each other *)
(* and whatever the cache holds.                                           *)
THEOREM FeedIsAlwaysTrue == FeedSpec => []FeedIsTrue
<1>1. FeedInv => FeedIsTrue
  BY DEF FeedInv, IsStretch, FeedIsTrue, Settled
<1> QED
  BY <1>1, FeedInvariant, PTL

-----------------------------------------------------------------------------
\* The form of "real-time" that holds.

(* While the window has no more events than the server returns, an answer  *)
(* that has just come is the settlements of the whole window, the newest   *)
(* of them first.  FeedShowsNewest asks for less, but without the premise. *)
AnswersAreWhole ==
    [][ \A f \in Fetches :
          LET window == Since(fetch[f].start)
          IN  (AnswerEvents(f) /\ Cardinality(window) <= Limit)
                => fetch'[f].result = NewestFirst(Settled(window)) ]_feedVars

(* A window that fits is answered as a whole.                              *)
LEMMA FittingAnswer ==
    ASSUME LogInv, NEW start, Cardinality(Since(start)) <= Limit
    PROVE  Answer(start) = NewestFirst(Settled(Since(start)))
<1> DEFINE upTo(k) == {j \in Since(start) : j <= k}
<1>1. IsFiniteSet(Since(start))
  <2>1. Len(log) \in Nat /\ DOMAIN log = 1 .. Len(log)
    BY LogFacts DEF LogInv
  <2>2. IsFiniteSet(1 .. Len(log)) /\ Since(start) \in SUBSET (1 .. Len(log))
    BY <2>1, FS_Interval DEF Since
  <2> QED
    BY <2>2, FS_Subset
<1>2. ASSUME NEW k
      PROVE  Cardinality(upTo(k)) <= Limit
  <2>1. upTo(k) \in SUBSET Since(start)
    OBVIOUS
  <2> HIDE DEF upTo
  <2>2. /\ IsFiniteSet(upTo(k))
        /\ Cardinality(upTo(k)) <= Cardinality(Since(start))
    BY <1>1, <2>1, FS_Subset
  <2>3. /\ Cardinality(upTo(k)) \in Nat /\ Cardinality(Since(start)) \in Nat
        /\ Limit \in Nat
    BY <1>1, <2>2, FS_CardinalityType, FeedAssumption
  <2> QED
    BY <2>2, <2>3
<1>3. {k \in Since(start) : Cardinality(upTo(k)) <= Limit} = Since(start)
  BY <1>2
<1>4. Answer(start) =
        NewestFirst(Settled({k \in Since(start) : Cardinality(upTo(k)) <= Limit}))
  BY DEF Answer
<1> QED
  BY <1>3, <1>4

(* The feed misses the newest settlement only for a window of more events  *)
(* than the server returns.                                                *)
THEOREM FittingWindowsAreWhole == FeedSpec => AnswersAreWhole
<1>1. ASSUME FeedInv, NEW f \in Fetches, AnswerEvents(f),
             Cardinality(Since(fetch[f].start)) <= Limit
      PROVE  fetch'[f].result = NewestFirst(Settled(Since(fetch[f].start)))
  <2> DEFINE old == fetch[f]
             result == Answer(old.start)
             job == [[old EXCEPT !.phase = "answered"] EXCEPT !.result = result]
  <2>1. old \in Fetch /\ LogInv
    BY <1>1 DEF FeedInv
  <2>2. fetch'[f] = job
    BY <1>1 DEF AnswerEvents, FeedInv
  <2>3. result = NewestFirst(Settled(Since(old.start)))
    BY <1>1, <2>1, FittingAnswer
  <2> HIDE DEF result
  <2>4. job.result = result
    BY <2>1 DEF Fetch
  <2> QED
    BY <2>2, <2>3, <2>4
<1>2. FeedInv /\ [FeedNext]_feedVars =>
        [ \A f \in Fetches :
            LET window == Since(fetch[f].start)
            IN  (AnswerEvents(f) /\ Cardinality(window) <= Limit)
                  => fetch'[f].result = NewestFirst(Settled(window)) ]_feedVars
  BY <1>1
<1> QED
  BY <1>2, FeedInvariant, PTL DEF FeedSpec, AnswersAreWhole
=============================================================================
