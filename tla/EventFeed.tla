----------------------------- MODULE EventFeed -----------------------------
(***************************************************************************)
(* The settled-event feed: the interval of App.tsx that fetches it every   *)
(* five seconds, the `events:` entry of the read cache, and                *)
(* fetchSettledEvents, which asks the RPC server for the latest ledger and *)
(* then for the events of a window that ends there.                        *)
(*                                                                         *)
(* A tick does not wait for the fetch of the tick before, so fetches       *)
(* overlap, and the two requests of one see the chain at different times.  *)
(*                                                                         *)
(* An event is its position in the log; of its contents only the topic and *)
(* the ledger matter here (BillSplit has the rest, and EventsTellState     *)
(* says what the log is worth).  Of time only its effect is kept: ticks    *)
(* come, and a cache entry expires at some time.                           *)
(***************************************************************************)
EXTENDS Integers, Sequences, SequencesExt, FiniteSetsExt

CONSTANTS
    Fetches,        \* bound: fetches that overlap
    LedgersBack,    \* length of the window
    Limit,          \* events getEvents returns
    Batches,        \* bound: topics of the events of one ledger
    MaxLedger       \* bound: last ledger

ASSUME FeedAssumption ==
    /\ LedgersBack \in Nat /\ MaxLedger \in Nat
    /\ Limit \in Nat \ {0}
    /\ Batches \subseteq Seq({"created", "settled"})
    /\ 1 \in Fetches /\ 2 \in Fetches

VARIABLES
    ledger,         \* the latest closed ledger
    log,            \* the contract's events in order: topic and ledger
    cache,          \* readCache, the key of the feed
    fetch,          \* the calls of fetchSettledFresh
    events          \* state `events`: positions in the log, newest first

feedVars == <<ledger, log, cache, fetch, events>>

Free == [phase |-> "free", cancelled |-> FALSE, start |-> 0, result |-> <<>>]

Started == [Free EXCEPT !.phase = "ledger"]

\* Positions of the events from ledger `start` on.
Since(start) == {k \in DOMAIN log : log[k].ledger >= start}

Settled(positions) == {k \in positions : log[k].topic = "settled"}

\* The k-th has k - 1 newer ones.
NewestFirst(positions) ==
    [k \in 1 .. Cardinality(positions) |->
        CHOOSE p \in positions : Cardinality({q \in positions : q > p}) = k - 1]

-----------------------------------------------------------------------------
\* One fetch.

\* Mutant of WindowStart: the Math.max is missing.
WindowStartUnclamped(latest) == latest - LedgersBack

WindowStart(latest) == IF latest - LedgersBack > 1 THEN latest - LedgersBack ELSE 1

AnswerLedger(f) ==
    /\ fetch[f].phase = "ledger"
    /\ fetch' = [fetch EXCEPT ![f].phase = "events",
                              ![f].start = WindowStart(ledger)]
    /\ UNCHANGED <<ledger, log, cache, events>>

\* The server returns the oldest events of the window, whatever their topic;
\* the page keeps the settled ones and turns them round.
Answer(start) ==
    NewestFirst(Settled({k \in Since(start) :
                            Cardinality({j \in Since(start) : j <= k}) <= Limit}))

AnswerEvents(f) ==
    /\ fetch[f].phase = "events"
    /\ fetch' = [fetch EXCEPT ![f].phase = "answered",
                              ![f].result = Answer(fetch[f].start)]
    /\ UNCHANGED <<ledger, log, cache, events>>

\* A fetch of an effect that has been cleaned up fills the cache only.
Take(f) ==
    /\ fetch[f].phase = "answered"
    /\ cache' = [fresh |-> TRUE, events |-> fetch[f].result]
    /\ events' = IF fetch[f].cancelled THEN events ELSE fetch[f].result
    /\ fetch' = [fetch EXCEPT ![f] = Free]
    /\ UNCHANGED <<ledger, log>>

\* A request fails, or its answer is lost: the feed stays as it is.
Fail(f) ==
    /\ fetch[f].phase # "free"
    /\ fetch' = [fetch EXCEPT ![f] = Free]
    /\ UNCHANGED <<ledger, log, cache, events>>

-----------------------------------------------------------------------------
\* The interval and the cache.

\* Mutant of Fresh: the expiry is not looked at.
FreshForever == cache.fresh \/ cache.events # <<>>

Fresh == cache.fresh

\* Mutant of Shown: turns the cached list round once more.
ShownReversed == Reverse(cache.events)

\* What a tick shows that finds the feed in the cache.
Shown == cache.events

Tick ==
    \/ /\ Fresh
       /\ events' = Shown
       /\ UNCHANGED <<ledger, log, cache, fetch>>
    \/ /\ ~Fresh
       /\ \E f \in Fetches :
             /\ fetch[f].phase = "free"
             /\ fetch' = [fetch EXCEPT ![f] = Started]
       /\ UNCHANGED <<ledger, log, cache, events>>

\* The TTL is over, or a write of this page invalidates `events:`.
Expire ==
    /\ cache.fresh
    /\ cache' = [cache EXCEPT !.fresh = FALSE]
    /\ UNCHANGED <<ledger, log, fetch, events>>

-----------------------------------------------------------------------------

\* The next ledger closes, with these events of the contract in it.
CloseLedger(batch) ==
    /\ ledger < MaxLedger
    /\ ledger' = ledger + 1
    /\ log' = log \o [k \in DOMAIN batch |->
                        [topic |-> batch[k], ledger |-> ledger + 1]]
    /\ UNCHANGED <<cache, fetch, events>>

-----------------------------------------------------------------------------

\* The first tick comes at once.  StrictMode runs the effect of a development
\* build twice, the first time for nothing.
FeedInit ==
    /\ ledger = 1
    /\ log = <<>>
    /\ cache = [fresh |-> FALSE, events |-> <<>>]
    /\ events = <<>>
    /\ \E strict \in BOOLEAN :
          fetch = [f \in Fetches |->
                      IF f = 1 THEN Started
                      ELSE IF f = 2 /\ strict
                           THEN [Started EXCEPT !.cancelled = TRUE] ELSE Free]

FeedNext ==
    \/ \E f \in Fetches :
          AnswerLedger(f) \/ AnswerEvents(f) \/ Take(f) \/ Fail(f)
    \/ Tick
    \/ Expire
    \/ \E batch \in Batches : CloseLedger(batch)

\* Ticks come for ever and entries expire.  The server answers again and again:
\* no request fails every time it is made.
FeedFairness ==
    /\ WF_feedVars(Tick)
    /\ WF_feedVars(Expire)
    /\ \A f \in Fetches : /\ SF_feedVars(AnswerLedger(f))
                          /\ SF_feedVars(AnswerEvents(f))
                          /\ SF_feedVars(Take(f))

FeedSpec == FeedInit /\ [][FeedNext]_feedVars /\ FeedFairness

-----------------------------------------------------------------------------

(* What is shown, cached or on its way are positions in the log, and a     *)
(* fetch that has a window has one that begins in a closed ledger.         *)
FeedTypeOK ==
    /\ events \in Seq(DOMAIN log)
    /\ cache.events \in Seq(DOMAIN log)
    /\ \A f \in Fetches :
          /\ fetch[f].result \in Seq(DOMAIN log)
          /\ fetch[f].phase \in {"events", "answered"} => fetch[f].start \in 1 .. ledger

(* The feed tells the truth, if not the newest: however fetches overtake   *)
(* each other and whatever the cache holds, it lists the settlements of a  *)
(* stretch of the log, each once, none left out between two, newest first. *)
FeedIsTrue ==
    \E first, last \in 0 .. Len(log) :
        events = NewestFirst(Settled(first + 1 .. last))

(* Once the chain is quiet the feed comes to show the settlements of the   *)
(* window, all of them while the window has no more events than Limit, and *)
(* goes on showing them: late answers, lost ones and old cache entries do  *)
(* not bring an older feed back for good.                                  *)
FeedCatchesUp ==
    LET window == Since(WindowStart(ledger))
    IN  <>[](Cardinality(window) <= Limit => events = NewestFirst(Settled(window)))

(* "Real-time stream of settled events": an answer of the server that has  *)
(* just come contains the newest settlement of the window it was asked for.*)
FeedShowsNewest ==
    [][ \A f \in Fetches :
          LET settled == Settled(Since(fetch[f].start))
          IN  (AnswerEvents(f) /\ settled # {})
                => Max(settled) \in Range(fetch'[f].result) ]_feedVars
=============================================================================
