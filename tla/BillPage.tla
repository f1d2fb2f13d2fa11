------------------------------ MODULE BillPage ------------------------------
(***************************************************************************)
(* The read side of the front end: the read cache of contract.ts and the   *)
(* bill list of App.tsx, which is loaded when a wallet is connected and    *)
(* after each successful write.                                            *)
(*                                                                         *)
(* Nothing keeps two loads from overlapping.  A view that is not cached is *)
(* one request: it is sent, answered by the chain of that moment, and its  *)
(* answer is taken and cached later.  What the code does without waiting   *)
(* for a server (a run of cache hits, invalidating and starting a load) is *)
(* one step.                                                               *)
(*                                                                         *)
(* Of time only its effect is kept: a cache entry expires at some time.    *)
(* Of writes only their end is: SplitClient has the pipeline, and that a   *)
(* success it reports is real is used here.                                *)
(***************************************************************************)
EXTENDS BillChain, FiniteSets

CONSTANTS
    Wallets,        \* wallets that get connected to the page
    NoWallet,
    Loads,          \* bound: loads that overlap
    MaxBills        \* bound: bills on chain

ASSUME PageAssumption ==
    /\ Wallets \subseteq Address
    /\ NoWallet \notin Address
    /\ MaxBills \in Nat
    /\ PayerLists \subseteq Seq(Address)

VARIABLES
    address,        \* the connected wallet
    cache,          \* readCache: the keys of the bill list
    load,           \* the calls of loadBillsForCurrentUser
    bills,          \* state `bills`: ids on the page
    settledMap,     \* state `settledMap`: the pairs that are true in it
    billsLoading,
    splitJob,       \* the write the split panel waits for
    settleJob       \* the write the settle panel waits for

pageVars == <<chainVars, address, cache, load, bills, settledMap,
              billsLoading, splitJob, settleJob>>

Pairs == (1 .. MaxBills) \X Address

Absent == -1        \* no entry, no answer

\* Mutant of SettledKey: the payer is left out.
SettledKeyOfBill(pair) == <<pair[1], chainBills[pair[1]].creator>>

\* settled:${id}:${payer}
SettledKey(pair) == pair

EmptyCache == [count |-> Absent, bills |-> {}, yes |-> {}, no |-> {}]

FreshLoad == [phase |-> "free", wallet |-> NoWallet, count |-> Absent, next |-> 1,
              out |-> {}, sent |-> {}, heardYes |-> {}, heardNo |-> {},
              yes |-> {}, missed |-> FALSE, created |-> 0, paid |-> <<>>]

Running(l) == load[l].phase \in {"count", "bill", "flags"}

NoJob == [wallet |-> NoWallet, id |-> 0]

Involved(id, a) == chainBills[id].creator = a \/ a \in Payers(id)

-----------------------------------------------------------------------------
\* One load.  `created` and `paid` name the write it follows.

\* Every payer of every bill found is looked up before any answer comes.
AskFlags(job, c) ==
    LET pairs == {p \in Pairs : p[1] \in job.out /\ p[2] \in Payers(p[1])}
        hits  == {p \in pairs : SettledKey(p) \in c.yes \cup c.no}
    IN [job EXCEPT !.phase = IF hits = pairs THEN "done" ELSE "flags",
                   !.yes = {p \in hits : SettledKey(p) \in c.yes},
                   !.sent = pairs \ hits]

\* Mutant of Scan: goes one bill too far.
ScanPastEnd(job, from, c) ==
    LET missing == {id \in from .. job.count + 1 : id \notin c.bills}
        reached == {id \in from .. job.count : \A m \in missing : id < m}
        found   == [job EXCEPT !.out = @ \cup
                        {id \in reached : Involved(id, job.wallet)}]
    IN [found EXCEPT !.phase = "bill",
            !.next = CHOOSE m \in missing : \A n \in missing : m <= n]

\* From bill `from` on: over cached bills to the first that is not.
Scan(job, from, c) ==
    LET missing == {id \in from .. job.count : id \notin c.bills}
        reached == {id \in from .. job.count : \A m \in missing : id < m}
        found   == [job EXCEPT !.out = @ \cup
                        {id \in reached : Involved(id, job.wallet)}]
    IN IF missing = {}
       THEN AskFlags(found, c)
       ELSE [found EXCEPT !.phase = "bill",
                !.next = CHOOSE m \in missing : \A n \in missing : m <= n]

\* The load has come this far; its list is shown once it is complete, its
\* flags when all are there.
Reach(l, job, busy) ==
    /\ load' = [load EXCEPT ![l] = job]
    /\ bills' = IF job.phase \in {"flags", "done"} THEN job.out ELSE bills
    /\ settledMap' = IF job.phase = "done" THEN job.yes ELSE settledMap
    /\ billsLoading' = (busy /\ job.phase # "done")

StartLoad(l, job, c) ==
    /\ ~Running(l)
    /\ cache' = c
    /\ Reach(l, IF c.count = Absent
                THEN [job EXCEPT !.phase = "count"]
                ELSE Scan([job EXCEPT !.count = c.count], 1, c), TRUE)

AnswerCount(l) ==
    /\ load[l].phase = "count" /\ load[l].count = Absent
    /\ load' = [load EXCEPT ![l].count = Len(chainBills)]
    /\ UNCHANGED <<cache, bills, settledMap, billsLoading>>

TakeCount(l) ==
    /\ load[l].phase = "count" /\ load[l].count # Absent
    /\ cache' = [cache EXCEPT !.count = load[l].count]
    /\ Reach(l, Scan(load[l], 1, cache), billsLoading)

\* Mutant of FailCount: returns without the `finally`.
FailCountStuck(l) ==
    /\ load[l].phase = "count" /\ load[l].count = Absent
    /\ load' = [load EXCEPT ![l].phase = "done", ![l].missed = TRUE]
    /\ UNCHANGED <<cache, bills, settledMap, billsLoading>>

\* Without a count the page is left as it is.
FailCount(l) ==
    /\ load[l].phase = "count" /\ load[l].count = Absent
    /\ load' = [load EXCEPT ![l].phase = "done", ![l].missed = TRUE]
    /\ billsLoading' = FALSE
    /\ UNCHANGED <<cache, bills, settledMap>>

\* A bill never changes: it does not matter when the request is answered.
TakeBill(l) ==
    LET job == load[l]
        c   == [cache EXCEPT !.bills = @ \cup {job.next}]
    IN
    /\ job.phase = "bill"
    /\ cache' = c
    /\ Reach(l, Scan(job, job.next, c), billsLoading)

\* Mutant of FailBill: asks for the same bill again.
FailBillAgain(l) ==
    LET job == [load[l] EXCEPT !.missed = TRUE] IN
    /\ job.phase = "bill"
    /\ Reach(l, Scan(job, job.next, cache), billsLoading)
    /\ UNCHANGED cache

\* The bill is skipped.
FailBill(l) ==
    LET job == [load[l] EXCEPT !.missed = TRUE] IN
    /\ job.phase = "bill"
    /\ Reach(l, Scan(job, job.next + 1, cache), billsLoading)
    /\ UNCHANGED cache

AnswerFlag(l, pair) ==
    /\ pair \in load[l].sent
    /\ load' = [load EXCEPT ![l].sent = @ \ {pair},
                  ![l].heardYes = @ \cup ({pair} \cap chainSettled),
                  ![l].heardNo  = @ \cup ({pair} \ chainSettled)]
    /\ UNCHANGED <<cache, bills, settledMap, billsLoading>>

\* The last flag to come, or to fail, completes the load.
Complete(l, job) ==
    LET whole == job.sent \cup job.heardYes \cup job.heardNo = {} IN
    /\ load' = [load EXCEPT ![l] =
                    [job EXCEPT !.phase = IF whole THEN "done" ELSE "flags"]]
    /\ settledMap' = IF whole THEN job.yes ELSE settledMap
    /\ billsLoading' = (billsLoading /\ ~whole)
    /\ UNCHANGED bills

TakeFlag(l, pair) ==
    LET key == SettledKey(pair) IN
    \/ /\ pair \in load[l].heardYes
       /\ cache' = [cache EXCEPT !.yes = @ \cup {key}, !.no = @ \ {key}]
       /\ Complete(l, [load[l] EXCEPT !.heardYes = @ \ {pair},
                                      !.yes = @ \cup {pair}])
    \/ /\ pair \in load[l].heardNo
       /\ cache' = [cache EXCEPT !.no = @ \cup {key}, !.yes = @ \ {key}]
       /\ Complete(l, [load[l] EXCEPT !.heardNo = @ \ {pair}])

FailFlag(l, pair) ==
    /\ pair \in load[l].sent
    /\ Complete(l, [load[l] EXCEPT !.sent = @ \ {pair}, !.missed = TRUE])
    /\ UNCHANGED cache

LoadStep(l) ==
    /\ \/ AnswerCount(l) \/ TakeCount(l) \/ FailCount(l)
       \/ TakeBill(l) \/ FailBill(l)
       \/ \E pair \in Pairs :
             AnswerFlag(l, pair) \/ TakeFlag(l, pair) \/ FailFlag(l, pair)
    /\ UNCHANGED <<chainVars, address, splitJob, settleJob>>

-----------------------------------------------------------------------------
\* What the user does, and what follows from it.

Connect(l, a) ==
    /\ address = NoWallet
    /\ address' = a
    /\ StartLoad(l, [FreshLoad EXCEPT !.wallet = a], cache)
    /\ UNCHANGED <<chainVars, splitJob, settleJob>>

\* The list stays: it is only hidden until a wallet is connected.
Disconnect ==
    /\ address # NoWallet
    /\ address' = NoWallet
    /\ UNCHANGED <<chainVars, cache, load, bills, settledMap, billsLoading,
                   splitJob, settleJob>>

BeginSplit ==
    /\ address # NoWallet
    /\ splitJob = NoJob
    /\ splitJob' = [wallet |-> address, id |-> Len(chainBills)]
    /\ UNCHANGED <<chainVars, address, cache, load, bills, settledMap,
                   billsLoading, settleJob>>

\* Mutant of ForgetBills: the count stays.
ForgetBillsOnly == [cache EXCEPT !.bills = {}]

\* invalidateReads('bills:') and invalidateReads('count')
ForgetBills == [cache EXCEPT !.bills = {}, !.count = Absent]

\* The load is for the wallet that sent the split, connected or not.  Nothing
\* is invalidated after payments that were not to be recorded.
UnrecordedSplitSucceeds(l) ==
    /\ splitJob # NoJob
    /\ splitJob' = NoJob
    /\ StartLoad(l, [FreshLoad EXCEPT !.wallet = splitJob.wallet], cache)
    /\ UNCHANGED <<chainVars, address, settleJob>>

SplitSucceeds(l) ==
    \E id \in splitJob.id + 1 .. Len(chainBills) :
        /\ chainBills[id].creator = splitJob.wallet
        /\ splitJob' = NoJob
        /\ StartLoad(l, [FreshLoad EXCEPT !.wallet = splitJob.wallet,
                                          !.created = id], ForgetBills)
        /\ UNCHANGED <<chainVars, address, settleJob>>

SplitFails ==
    /\ splitJob # NoJob
    /\ splitJob' = NoJob
    /\ UNCHANGED <<chainVars, address, cache, load, bills, settledMap,
                   billsLoading, settleJob>>

\* Mutant of BeginSettle: shows the share as paid before it is.
BeginSettleOptimistic(id) ==
    /\ address # NoWallet
    /\ settleJob = NoJob
    /\ id \in bills
    /\ address \in Payers(id)
    /\ <<id, address>> \notin settledMap
    /\ settleJob' = [wallet |-> address, id |-> id]
    /\ settledMap' = settledMap \cup {<<id, address>>}
    /\ UNCHANGED <<chainVars, address, cache, load, bills, billsLoading, splitJob>>

\* The button is there for listed payers whose flag is not set.
BeginSettle(id) ==
    /\ address # NoWallet
    /\ settleJob = NoJob
    /\ id \in bills
    /\ address \in Payers(id)
    /\ <<id, address>> \notin settledMap
    /\ settleJob' = [wallet |-> address, id |-> id]
    /\ UNCHANGED <<chainVars, address, cache, load, bills, settledMap,
                   billsLoading, splitJob>>

\* invalidateReads(`settled:${billId}:`)
ForgetSettled(id) ==
    [cache EXCEPT !.yes = {k \in @ : k[1] # id}, !.no = {k \in @ : k[1] # id}]

\* Mutant of SettleSucceeds: loads when the settle was sent, not applied.
SettleSucceedsEarly(l) ==
    LET pair == <<settleJob.id, settleJob.wallet>> IN
    /\ settleJob # NoJob
    /\ settleJob' = NoJob
    /\ StartLoad(l, [FreshLoad EXCEPT !.wallet = settleJob.wallet,
                                      !.paid = pair], ForgetSettled(settleJob.id))
    /\ UNCHANGED <<chainVars, address, splitJob>>

SettleSucceeds(l) ==
    LET pair == <<settleJob.id, settleJob.wallet>> IN
    /\ pair \in chainSettled
    /\ settleJob' = NoJob
    /\ StartLoad(l, [FreshLoad EXCEPT !.wallet = settleJob.wallet,
                                      !.paid = pair], ForgetSettled(settleJob.id))
    /\ UNCHANGED <<chainVars, address, splitJob>>

SettleFails ==
    /\ settleJob # NoJob
    /\ settleJob' = NoJob
    /\ UNCHANGED <<chainVars, address, cache, load, bills, settledMap,
                   billsLoading, splitJob>>

-----------------------------------------------------------------------------
\* Time, and the chain.

Expire ==
    /\ \/ /\ cache.count # Absent
          /\ cache' = [cache EXCEPT !.count = Absent]
       \/ \E id \in cache.bills : cache' = [cache EXCEPT !.bills = @ \ {id}]
       \/ \E k \in cache.yes : cache' = [cache EXCEPT !.yes = @ \ {k}]
       \/ \E k \in cache.no : cache' = [cache EXCEPT !.no = @ \ {k}]
    /\ UNCHANGED <<chainVars, address, load, bills, settledMap, billsLoading,
                   splitJob, settleJob>>

ChainMoves ==
    /\ ChainNext
    /\ Len(chainBills') <= MaxBills
    /\ UNCHANGED <<address, cache, load, bills, settledMap, billsLoading,
                   splitJob, settleJob>>

-----------------------------------------------------------------------------

PageInit ==
    /\ ChainInit
    /\ address = NoWallet
    /\ cache = EmptyCache
    /\ load = [l \in Loads |-> FreshLoad]
    /\ bills = {}
    /\ settledMap = {}
    /\ billsLoading = FALSE
    /\ splitJob = NoJob
    /\ settleJob = NoJob

PageNext ==
    \/ \E l \in Loads :
          \/ LoadStep(l)
          \/ \E a \in Wallets : Connect(l, a)
          \/ SplitSucceeds(l) \/ UnrecordedSplitSucceeds(l)
          \/ SettleSucceeds(l)
    \/ Disconnect
    \/ BeginSplit \/ SplitFails
    \/ \E id \in 1 .. MaxBills : BeginSettle(id)
    \/ SettleFails
    \/ Expire
    \/ ChainMoves

\* Every request is answered or fails at some time.
PageFairness == \A l \in Loads : WF_pageVars(LoadStep(l))

PageSpec == PageInit /\ [][PageNext]_pageVars /\ PageFairness

-----------------------------------------------------------------------------

(* What is cached and what a load has found exists on chain.  Whoever      *)
(* waits has something to wait for: a load an answer, and the list, while  *)
(* it says that it is loading, a load at work.                             *)
PageTypeOK ==
    /\ address \in Wallets \cup {NoWallet}
    /\ cache.count \in Absent .. Len(chainBills)
    /\ cache.bills \subseteq DOMAIN chainBills
    /\ cache.yes \cap cache.no = {}
    /\ bills \subseteq DOMAIN chainBills
    /\ billsLoading => \E l \in Loads : Running(l)
    /\ \A l \in Loads :
          LET job == load[l] IN
          /\ job.out \subseteq DOMAIN chainBills
          /\ job.phase = "bill" => job.next \in DOMAIN chainBills
          /\ job.phase = "flags" <=> job.sent \cup job.heardYes \cup job.heardNo # {}

(* A pill that says "paid" is true: whatever is cached, expires, is        *)
(* invalidated or arrives late, the bill is settled on chain for exactly   *)
(* that payer.                                                             *)
PaidIsTrue == settledMap \subseteq chainSettled

(* The page shows what its own split has recorded: the list of a load that *)
(* follows a successful split contains the new bill unless a request of    *)
(* the load failed, whatever older loads do to the cache meanwhile.        *)
OwnBillListed ==
    \A l \in Loads :
        (/\ load[l].phase \in {"flags", "done"}
         /\ load[l].created # 0
         /\ ~load[l].missed)
           => load[l].created \in load[l].out

(* "Invalidated after writes": a load that follows a successful settle,    *)
(* finds the bill and of which no request failed finds the share paid.     *)
InvalidatedAfterWrites ==
    \A l \in Loads :
        (/\ load[l].phase = "done"
         /\ load[l].paid # <<>>
         /\ load[l].paid[1] \in load[l].out
         /\ ~load[l].missed)
           => load[l].paid \in load[l].yes

(* What a load asks the chain itself is not stale: once a load that        *)
(* follows a successful settle is about to hear of that share, it hears    *)
(* that it is paid and shows it so, unless the request fails, whatever     *)
(* other loads take from the cache and put there.                          *)
AskedIsHeard ==
    [][ \A l \in Loads :
          LET job == load[l]
              new == load'[l]
          IN  job.paid \in job.sent \cup job.heardYes
                => \/ new.missed
                   \/ /\ new.paid = job.paid
                      /\ new.paid \in new.sent \cup new.heardYes \cup new.yes
      ]_pageVars

\* A load at work goes from the count over the bills in their order to the
\* flags, each of which is asked for, answered and taken once.
Nearer(new, old) ==
    \/ new.phase = "done"
    \/ /\ old.phase = "count"
       /\ \/ new.phase \in {"bill", "flags"}
          \/ new.phase = "count" /\ old.count = Absent /\ new.count # Absent
    \/ /\ old.phase = "bill"
       /\ \/ new.phase = "flags"
          \/ /\ new.phase = "bill" /\ new.count = old.count
             /\ old.next < new.next /\ new.next <= new.count
    \/ /\ old.phase = "flags" /\ new.phase = "flags"
       /\ \/ new.sent \subseteq old.sent /\ new.sent # old.sent
          \/ /\ new.sent = old.sent
             /\ new.heardYes \subseteq old.heardYes
             /\ new.heardNo \subseteq old.heardNo
             /\ <<new.heardYes, new.heardNo>> # <<old.heardYes, old.heardNo>>

(* No load asks the same thing twice or goes back: whatever happens to a   *)
(* load at work brings it nearer to its end, whichever requests fail, and  *)
(* whatever other loads, expiry and writes do to the cache meanwhile.      *)
LoadsComeNearer ==
    [][ \A l \in Loads :
          Running(l) => load'[l] = load[l] \/ Nearer(load'[l], load[l]) ]_pageVars

(* "Bills you created or were named in": once nothing loads any more, the  *)
(* bills shown are those of the connected wallet.                          *)
BillsAreYours ==
    (address # NoWallet /\ \A l \in Loads : ~Running(l))
        => \A id \in bills : Involved(id, address)

(* The list does not stay "loading" for ever, whatever requests fail.      *)
LoadingEnds == billsLoading ~> ~billsLoading
=============================================================================
