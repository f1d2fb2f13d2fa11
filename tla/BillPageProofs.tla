--------------------------- MODULE BillPageProofs ---------------------------
(***************************************************************************)
(* What the page says of payments is true, for any number of wallets,      *)
(* bills, payers and loads that overlap.                                   *)
(*                                                                         *)
(* A pill is set from what a load has found, which it found in an answer   *)
(* or in the cache, which was filled from answers; marks are never taken   *)
(* back.  So the claim is proved of all the places at once, as PaidInv.    *)
(*                                                                         *)
(* That a bill just created is in the list that its load ends with is      *)
(* proved of the load at work, as PageInv: the bill was found, or its id   *)
(* is still to come, or a request failed.  The count that the load works   *)
(* through covers the id because creating a bill forgets the cached count  *)
(* in the step that starts the load: the load asks the chain, where the    *)
(* bill is.  An old answer may fill the cache again, but the load uses its *)
(* own.                                                                    *)
(*                                                                         *)
(* That the list does not stay "loading" for ever needs fairness and is    *)
(* left to TLC.  What is proved of it needs none: the list says "loading"  *)
(* because of a load at work (LoadingInv), and whatever happens to a load  *)
(* at work brings it nearer to its end.                                    *)
(***************************************************************************)
EXTENDS BillPage, SumTheorems, SequenceTheorems, TLAPS

CacheIsTrue(c) ==
    /\ DOMAIN c = DOMAIN EmptyCache
    /\ c.yes \subseteq chainSettled

LoadIsTrue(job) ==
    /\ DOMAIN job = DOMAIN FreshLoad
    /\ job.heardYes \subseteq chainSettled
    /\ job.yes \subseteq chainSettled

PaidInv ==
    /\ CacheIsTrue(cache)
    /\ DOMAIN load = Loads
    /\ \A l \in Loads : LoadIsTrue(load[l])
    /\ PaidIsTrue

-----------------------------------------------------------------------------

(* A load that begins knows nothing.                                       *)
LEMMA FreshLoadIsTrue ==
    ASSUME NEW w, NEW id, NEW pair
    PROVE  LoadIsTrue([FreshLoad EXCEPT !.wallet = w, !.created = id, !.paid = pair])
  BY DEF LoadIsTrue, FreshLoad

(* What the cache says of flags, it says of their own pairs.               *)
LEMMA AskFlagsIsTrue ==
    ASSUME NEW job, LoadIsTrue(job), NEW c, CacheIsTrue(c)
    PROVE  LoadIsTrue(AskFlags(job, c))
  BY DEF LoadIsTrue, CacheIsTrue, FreshLoad, AskFlags, SettledKey

(* Going over cached bills, to a request or to the flags.                  *)
LEMMA ScanIsTrue ==
    ASSUME NEW job, LoadIsTrue(job), NEW c, CacheIsTrue(c), NEW from
    PROVE  LoadIsTrue(Scan(job, from, c))
<1> DEFINE missing == {id \in from .. job.count : id \notin c.bills}
           reached == {id \in from .. job.count : \A m \in missing : id < m}
           found   == [job EXCEPT !.out = @ \cup
                        {id \in reached : Involved(id, job.wallet)}]
           first   == CHOOSE m \in missing : \A n \in missing : m <= n
<1>1. LoadIsTrue(found)
  BY DEF LoadIsTrue, FreshLoad
<1>2. Scan(job, from, c) = IF missing = {}
                           THEN AskFlags(found, c)
                           ELSE [found EXCEPT !.phase = "bill", !.next = first]
  BY DEF Scan
<1> HIDE DEF missing, found, first
<1>3. LoadIsTrue([found EXCEPT !.phase = "bill", !.next = first])
  BY <1>1 DEF LoadIsTrue, FreshLoad
<1> QED
  BY <1>1, <1>2, <1>3, AskFlagsIsTrue

(* A load that comes as far as `job` leaves everything true.               *)
LEMMA ReachIsTrue ==
    ASSUME PaidInv, NEW l \in Loads, NEW job, LoadIsTrue(job), NEW busy,
           Reach(l, job, busy), CacheIsTrue(cache'), UNCHANGED chainSettled
    PROVE  PaidInv'
<1>1. load' = [load EXCEPT ![l] = job] /\ DOMAIN load' = Loads
  BY DEF Reach, PaidInv
<1>2. \A m \in Loads : LoadIsTrue(load'[m])
  BY <1>1 DEF PaidInv
<1>3. settledMap' \subseteq chainSettled
  BY DEF Reach, PaidInv, PaidIsTrue, LoadIsTrue
<1> QED
  BY <1>1, <1>2, <1>3 DEF PaidInv, PaidIsTrue, CacheIsTrue, LoadIsTrue

(* So does the last flag of a load.                                        *)
LEMMA CompleteIsTrue ==
    ASSUME PaidInv, NEW l \in Loads, NEW job, LoadIsTrue(job),
           Complete(l, job), CacheIsTrue(cache'), UNCHANGED chainSettled
    PROVE  PaidInv'
<1> DEFINE phase == IF job.sent \cup job.heardYes \cup job.heardNo = {}
                    THEN "done" ELSE "flags"
<1>1. load' = [load EXCEPT ![l] = [job EXCEPT !.phase = phase]]
  BY DEF Complete
<1> HIDE DEF phase
<1>2. LoadIsTrue([job EXCEPT !.phase = phase])
  BY DEF LoadIsTrue, FreshLoad
<1>3. DOMAIN load' = Loads /\ \A m \in Loads : LoadIsTrue(load'[m])
  BY <1>1, <1>2 DEF PaidInv
<1>4. settledMap' \subseteq chainSettled
  BY DEF Complete, PaidInv, PaidIsTrue, LoadIsTrue
<1> QED
  BY <1>3, <1>4 DEF PaidInv, PaidIsTrue, CacheIsTrue, LoadIsTrue

(* Whatever starts a load with a cache that tells the truth keeps PaidInv. *)
LEMMA StartLoadIsTrue ==
    ASSUME PaidInv, NEW l \in Loads, NEW job, LoadIsTrue(job), NEW c,
           CacheIsTrue(c), StartLoad(l, job, c), UNCHANGED chainSettled
    PROVE  PaidInv'
<1> DEFINE begun == IF c.count = Absent
                    THEN [job EXCEPT !.phase = "count"]
                    ELSE Scan([job EXCEPT !.count = c.count], 1, c)
<1>1. LoadIsTrue([job EXCEPT !.phase = "count"])
      /\ LoadIsTrue([job EXCEPT !.count = c.count])
  BY DEF LoadIsTrue, FreshLoad
<1>2. LoadIsTrue(begun)
  BY <1>1, ScanIsTrue
<1>3. cache' = c /\ Reach(l, begun, TRUE)
  BY DEF StartLoad
<1> HIDE DEF begun
<1>4. CacheIsTrue(cache')
  BY <1>3
<1> QED
  BY <1>2, <1>3, <1>4, ReachIsTrue

-----------------------------------------------------------------------------

(* Every step of a load keeps PaidInv, whatever happened to the cache and  *)
(* the chain since its last one.                                           *)
LEMMA LoadStepIsTrue ==
    ASSUME PaidInv, NEW l \in Loads, LoadStep(l)
    PROVE  PaidInv'
<1>1. UNCHANGED chainSettled
  BY DEF LoadStep, chainVars
<1>2. CacheIsTrue(cache) /\ LoadIsTrue(load[l])
  BY DEF PaidInv
<1>3. CASE AnswerCount(l) \/ FailCount(l)
  BY <1>1, <1>3 DEF AnswerCount, FailCount, PaidInv, PaidIsTrue, CacheIsTrue,
                    LoadIsTrue, FreshLoad
<1>4. CASE TakeCount(l)
  <2>1. CacheIsTrue(cache')
    BY <1>2, <1>4 DEF TakeCount, CacheIsTrue, EmptyCache
  <2>2. LoadIsTrue(Scan(load[l], 1, cache))
    BY <1>2, ScanIsTrue
  <2> QED
    BY <1>1, <1>4, <2>1, <2>2, ReachIsTrue DEF TakeCount
<1>5. CASE TakeBill(l)
  <2> DEFINE c == [cache EXCEPT !.bills = @ \cup {load[l].next}]
  <2>1. CacheIsTrue(c)
    BY <1>2 DEF CacheIsTrue, EmptyCache
  <2>2. cache' = c /\ Reach(l, Scan(load[l], load[l].next, c), billsLoading)
    BY <1>5 DEF TakeBill
  <2> HIDE DEF c
  <2>3. LoadIsTrue(Scan(load[l], load[l].next, c))
    BY <1>2, <2>1, ScanIsTrue
  <2>4. CacheIsTrue(cache')
    BY <2>1, <2>2
  <2> QED
    BY <1>1, <2>2, <2>3, <2>4, ReachIsTrue
<1>6. CASE FailBill(l)
  <2> DEFINE job == [load[l] EXCEPT !.missed = TRUE]
  <2>1. LoadIsTrue(job)
    BY <1>2 DEF LoadIsTrue, FreshLoad
  <2>2. Reach(l, Scan(job, job.next + 1, cache), billsLoading) /\ cache' = cache
    BY <1>6 DEF FailBill
  <2> HIDE DEF job
  <2>3. LoadIsTrue(Scan(job, job.next + 1, cache))
    BY <1>2, <2>1, ScanIsTrue
  <2>4. CacheIsTrue(cache')
    BY <1>2, <2>2
  <2> QED
    BY <1>1, <2>2, <2>3, <2>4, ReachIsTrue
<1>7. ASSUME NEW pair \in Pairs, AnswerFlag(l, pair)
      PROVE  PaidInv'
  <2>1. DOMAIN load' = Loads
    BY <1>7 DEF AnswerFlag, PaidInv
  <2>2. ASSUME NEW m \in Loads
        PROVE  LoadIsTrue(load'[m])
    BY <1>7 DEF AnswerFlag, PaidInv, LoadIsTrue, FreshLoad
  <2> QED
    BY <1>1, <1>7, <2>1, <2>2
       DEF AnswerFlag, PaidInv, PaidIsTrue, CacheIsTrue, LoadIsTrue
<1>8. ASSUME NEW pair \in Pairs, TakeFlag(l, pair)
      PROVE  PaidInv'
  <2> DEFINE paid == [load[l] EXCEPT !.heardYes = @ \ {pair},
                                     !.yes = @ \cup {pair}]
             owed == [load[l] EXCEPT !.heardNo = @ \ {pair}]
             cYes == [cache EXCEPT !.yes = @ \cup {pair}, !.no = @ \ {pair}]
             cNo  == [cache EXCEPT !.no = @ \cup {pair}, !.yes = @ \ {pair}]
  <2>1. \/ pair \in load[l].heardYes /\ cache' = cYes /\ Complete(l, paid)
        \/ cache' = cNo /\ Complete(l, owed)
    BY <1>8 DEF TakeFlag, SettledKey
  <2>2. pair \in load[l].heardYes => LoadIsTrue(paid) /\ CacheIsTrue(cYes)
    BY <1>2 DEF LoadIsTrue, FreshLoad, CacheIsTrue, EmptyCache
  <2>3. LoadIsTrue(owed) /\ CacheIsTrue(cNo)
    BY <1>2 DEF LoadIsTrue, FreshLoad, CacheIsTrue, EmptyCache
  <2> HIDE DEF paid, owed, cYes, cNo
  <2>4. CacheIsTrue(cache')
    BY <2>1, <2>2, <2>3
  <2> QED
    BY <1>1, <2>1, <2>2, <2>3, <2>4, CompleteIsTrue
<1>9. ASSUME NEW pair \in Pairs, FailFlag(l, pair)
      PROVE  PaidInv'
  <2> DEFINE job == [load[l] EXCEPT !.sent = @ \ {pair}, !.missed = TRUE]
  <2>1. LoadIsTrue(job)
    BY <1>2 DEF LoadIsTrue, FreshLoad
  <2>2. Complete(l, job) /\ cache' = cache
    BY <1>9 DEF FailFlag
  <2> HIDE DEF job
  <2>3. CacheIsTrue(cache')
    BY <1>2, <2>2
  <2> QED
    BY <1>1, <2>1, <2>2, <2>3, CompleteIsTrue
<1> QED
  BY <1>3, <1>4, <1>5, <1>6, <1>7, <1>8, <1>9 DEF LoadStep

(* Clearing entries, or letting them expire, tells no lie.                 *)
LEMMA ForgettingIsTrue ==
    ASSUME CacheIsTrue(cache), NEW id
    PROVE  CacheIsTrue(ForgetBills) /\ CacheIsTrue(ForgetSettled(id))
  BY DEF CacheIsTrue, EmptyCache, ForgetBills, ForgetSettled

(* Every step that starts a load keeps PaidInv.                            *)
LEMMA StartsAreTrue ==
    ASSUME PaidInv, NEW l \in Loads,
           \/ \E a \in Wallets : Connect(l, a)
           \/ SplitSucceeds(l) \/ UnrecordedSplitSucceeds(l)
           \/ SettleSucceeds(l)
    PROVE  PaidInv'
<1>1. CacheIsTrue(cache)
  BY DEF PaidInv
<1>2. ASSUME NEW a, Connect(l, a)
      PROVE  PaidInv'
  <2>1. LoadIsTrue([FreshLoad EXCEPT !.wallet = a])
    BY DEF LoadIsTrue, FreshLoad
  <2> QED
    BY <1>1, <1>2, <2>1, StartLoadIsTrue DEF Connect, chainVars
<1>3. CASE UnrecordedSplitSucceeds(l)
  <2>1. LoadIsTrue([FreshLoad EXCEPT !.wallet = splitJob.wallet])
    BY DEF LoadIsTrue, FreshLoad
  <2> QED
    BY <1>1, <1>3, <2>1, StartLoadIsTrue DEF UnrecordedSplitSucceeds, chainVars
<1>4. CASE SplitSucceeds(l)
  <2>1. PICK id \in splitJob.id + 1 .. Len(chainBills) :
          /\ StartLoad(l, [FreshLoad EXCEPT !.wallet = splitJob.wallet,
                                            !.created = id], ForgetBills)
          /\ UNCHANGED chainSettled
    BY <1>4 DEF SplitSucceeds, chainVars
  <2>2. LoadIsTrue([FreshLoad EXCEPT !.wallet = splitJob.wallet, !.created = id])
    BY DEF LoadIsTrue, FreshLoad
  <2>3. CacheIsTrue(ForgetBills)
    BY <1>1, ForgettingIsTrue
  <2> QED
    BY <2>1, <2>2, <2>3, StartLoadIsTrue
<1>5. CASE SettleSucceeds(l)
  <2> DEFINE pair == <<settleJob.id, settleJob.wallet>>
             job == [FreshLoad EXCEPT !.wallet = settleJob.wallet, !.paid = pair]
  <2>1. StartLoad(l, job, ForgetSettled(settleJob.id)) /\ UNCHANGED chainSettled
    BY <1>5 DEF SettleSucceeds, chainVars
  <2>2. LoadIsTrue(job)
    BY DEF LoadIsTrue, FreshLoad
  <2>3. CacheIsTrue(ForgetSettled(settleJob.id))
    BY <1>1, ForgettingIsTrue
  <2> HIDE DEF job
  <2> QED
    BY <2>1, <2>2, <2>3, StartLoadIsTrue
<1> QED
  BY <1>2, <1>3, <1>4, <1>5

(* The page begins with nothing cached and nothing shown.                  *)
LEMMA PageInitIsTrue == PageInit => PaidInv
  BY DEF PageInit, PaidInv, PaidIsTrue, CacheIsTrue, LoadIsTrue, EmptyCache,
     FreshLoad

(* Every step of the page and of the chain keeps PaidInv.                  *)
LEMMA PageStepIsTrue == PaidInv /\ [PageNext]_pageVars => PaidInv'
<1> SUFFICES ASSUME PaidInv, [PageNext]_pageVars
             PROVE  PaidInv'
  OBVIOUS
<1> DEFINE readVars == <<cache, load, settledMap>>
<1>1. ASSUME UNCHANGED readVars, chainSettled \subseteq chainSettled'
      PROVE  PaidInv'
  BY <1>1 DEF PaidInv, PaidIsTrue, CacheIsTrue, LoadIsTrue
<1>2. CASE \E l \in Loads : LoadStep(l)
  BY <1>2, LoadStepIsTrue
<1>3. CASE \E l \in Loads :
              \/ \E a \in Wallets : Connect(l, a)
              \/ SplitSucceeds(l) \/ UnrecordedSplitSucceeds(l)
              \/ SettleSucceeds(l)
  BY <1>3, StartsAreTrue
<1>4. CASE Disconnect \/ BeginSplit \/ SplitFails \/ SettleFails
  BY <1>1, <1>4 DEF Disconnect, BeginSplit, SplitFails, SettleFails, chainVars
<1>5. CASE \E id \in 1 .. MaxBills : BeginSettle(id)
  BY <1>1, <1>5 DEF BeginSettle, chainVars
<1>6. CASE Expire
  <2>1. DOMAIN cache' = DOMAIN cache /\ cache'.yes \subseteq cache.yes
    <3>1. DOMAIN cache = {"count", "bills", "yes", "no"}
      BY DEF PaidInv, CacheIsTrue, EmptyCache
    <3>2. CASE \/ cache' = [cache EXCEPT !.count = Absent]
               \/ \E id \in cache.bills : cache' = [cache EXCEPT !.bills = @ \ {id}]
               \/ \E k \in cache.no : cache' = [cache EXCEPT !.no = @ \ {k}]
      BY <3>1, <3>2
    <3>3. CASE \E k \in cache.yes : cache' = [cache EXCEPT !.yes = @ \ {k}]
      BY <3>1, <3>3
    <3> QED
      BY <1>6, <3>2, <3>3 DEF Expire
  <2>2. CacheIsTrue(cache)'
    BY <1>6, <2>1 DEF Expire, PaidInv, CacheIsTrue, chainVars
  <2> QED
    BY <1>6, <2>2 DEF Expire, PaidInv, PaidIsTrue, LoadIsTrue, chainVars
<1>7. CASE ChainMoves
  <2>1. chainSettled \subseteq chainSettled'
    BY <1>7 DEF ChainMoves, ChainNext, AppendBill, MarkSettled
  <2> QED
    BY <1>1, <1>7, <2>1 DEF ChainMoves
<1>8. CASE UNCHANGED pageVars
  BY <1>1, <1>8 DEF pageVars, chainVars
<1> QED
  BY <1>2, <1>3, <1>4, <1>5, <1>6, <1>7, <1>8 DEF PageNext

(* A pill that says "paid" is true, whatever is cached, expires, is        *)
(* invalidated or arrives late.                                            *)
THEOREM PillsAreTrue == PageSpec => []PaidIsTrue
<1>1. PaidInv => PaidIsTrue
  BY DEF PaidInv
<1> QED
  BY <1>1, PageInitIsTrue, PageStepIsTrue, PTL DEF PageSpec

-----------------------------------------------------------------------------
\* What a load finds.

ChainEntry == [creator : Address, payers : Seq(Address)]

\* The bill that a load is made to show is found, is still to come, from bill
\* `from` on, or is missed with a request that failed.
OwnIsDue(job, from) ==
    job.created # 0 => \/ job.missed
                       \/ job.created \in job.out
                       \/ job.created \in from .. job.count

\* What a load has found while it goes over the bills of this chain.
FoundInv(job, chain) ==
    /\ DOMAIN job = DOMAIN FreshLoad
    /\ job.count \in Absent .. Len(chain)
    /\ job.out \subseteq DOMAIN chain
    /\ job.created # 0 => /\ job.created \in DOMAIN chain
                          /\ chain[job.created].creator = job.wallet

NothingAsked(job) == job.sent \cup job.heardYes \cup job.heardNo = {}

\* And where it is.
LoadInv(job, chain) ==
    /\ FoundInv(job, chain)
    /\ job.phase = "flags" <=> ~NothingAsked(job)
    /\ job.phase = "count" /\ job.count # Absent => OwnIsDue(job, 1)
    /\ job.phase = "bill" => job.next \in 1 .. job.count /\ OwnIsDue(job, job.next)
    /\ job.phase \in {"flags", "done"} /\ job.created # 0 /\ ~job.missed
          => job.created \in job.out

CacheInv(c, chain) ==
    /\ DOMAIN c = DOMAIN EmptyCache
    /\ c.count \in Absent .. Len(chain)
    /\ c.bills \subseteq DOMAIN chain
    /\ c.yes \cap c.no = {}

PageInv ==
    /\ chainBills \in Seq(ChainEntry)
    /\ address \in Wallets \cup {NoWallet}
    /\ CacheInv(cache, chainBills)
    /\ DOMAIN load = Loads
    /\ \A l \in Loads : LoadInv(load[l], chainBills)
    /\ bills \subseteq DOMAIN chainBills
    /\ splitJob.id \in Nat

(* The bills of the chain are numbered from 1.                             *)
LEMMA ChainFacts ==
    ASSUME chainBills \in Seq(ChainEntry)
    PROVE  Len(chainBills) \in Nat /\ DOMAIN chainBills = 1 .. Len(chainBills)
  BY LenProperties

\* A load that begins for this wallet, to show this bill or none (0).
Begun(job, w, id) ==
    /\ DOMAIN job = DOMAIN FreshLoad
    /\ job.count = Absent /\ job.out = {}
    /\ job.sent = {} /\ job.heardYes = {} /\ job.heardNo = {}
    /\ job.wallet = w /\ job.created = id

(* It has found nothing, and nothing is wrong with that.                   *)
LEMMA BegunFacts ==
    ASSUME chainBills \in Seq(ChainEntry), NEW w, NEW id, NEW job, Begun(job, w, id),
           id # 0 => id \in DOMAIN chainBills /\ chainBills[id].creator = w
    PROVE  FoundInv(job, chainBills) /\ NothingAsked(job)
<1>1. Absent \in Absent .. Len(chainBills)
  BY ChainFacts DEF Absent
<1> QED
  BY <1>1 DEF Begun, FoundInv, NothingAsked

(* When all bills are found, the flags are asked for, or are all cached.   *)
LEMMA AskFlagsInv ==
    ASSUME NEW job, FoundInv(job, chainBills), NothingAsked(job), NEW c,
           job.created # 0 /\ ~job.missed => job.created \in job.out
    PROVE  LoadInv(AskFlags(job, c), chainBills)
<1> DEFINE pairs == {p \in Pairs : p[1] \in job.out /\ p[2] \in Payers(p[1])}
           hits  == {p \in pairs : SettledKey(p) \in c.yes \cup c.no}
           yes   == {p \in hits : SettledKey(p) \in c.yes}
           phase == IF hits = pairs THEN "done" ELSE "flags"
           asked == [job EXCEPT !.phase = phase, !.yes = yes, !.sent = pairs \ hits]
<1>1. AskFlags(job, c) = asked
  BY DEF AskFlags
<1>2. hits \subseteq pairs
  OBVIOUS
<1>3. phase \in {"done", "flags"} /\ (phase = "flags" <=> pairs \ hits # {})
  BY <1>2
<1> HIDE DEF pairs, hits, yes, phase
<1>4. /\ DOMAIN asked = DOMAIN FreshLoad
      /\ asked.phase = phase /\ asked.sent = pairs \ hits
      /\ asked.heardYes = job.heardYes /\ asked.heardNo = job.heardNo
      /\ asked.count = job.count /\ asked.out = job.out
      /\ asked.created = job.created /\ asked.missed = job.missed
      /\ asked.wallet = job.wallet
  BY DEF FoundInv, FreshLoad
<1> HIDE DEF asked
<1>5. FoundInv(asked, chainBills)
  BY <1>4 DEF FoundInv
<1>6. NothingAsked(asked) <=> pairs \ hits = {}
  BY <1>4 DEF NothingAsked
<1> QED
  BY <1>1, <1>3, <1>4, <1>5, <1>6 DEF LoadInv

(* Going over the bills finds all that are cached up to the first that is  *)
(* not: the bill to be shown is found, or is still to come.                *)
LEMMA ScanInv ==
    ASSUME chainBills \in Seq(ChainEntry), NEW job, FoundInv(job, chainBills),
           NothingAsked(job), NEW c, NEW from \in Nat \ {0}, OwnIsDue(job, from),
           job.count # Absent
    PROVE  LoadInv(Scan(job, from, c), chainBills)
<1> DEFINE missing == {id \in from .. job.count : id \notin c.bills}
           reached == {id \in from .. job.count : \A m \in missing : id < m}
           out     == job.out \cup {id \in reached : Involved(id, job.wallet)}
           found   == [job EXCEPT !.out = out]
           first   == CHOOSE m \in missing : \A n \in missing : m <= n
           waiting == [found EXCEPT !.phase = "bill", !.next = first]
<1>1. Scan(job, from, c) = IF missing = {} THEN AskFlags(found, c) ELSE waiting
  BY DEF Scan
<1>2. /\ Len(chainBills) \in Nat /\ DOMAIN chainBills = 1 .. Len(chainBills)
      /\ job.count \in 0 .. Len(chainBills)
  BY ChainFacts DEF FoundInv, Absent
<1>3. /\ DOMAIN found = DOMAIN FreshLoad
      /\ found.out = out /\ found.count = job.count /\ found.created = job.created
      /\ found.missed = job.missed /\ found.wallet = job.wallet
      /\ found.sent = job.sent /\ found.heardYes = job.heardYes
      /\ found.heardNo = job.heardNo
  BY DEF FoundInv, FreshLoad
<1>4. FoundInv(found, chainBills) /\ NothingAsked(found)
  <2>1. reached \subseteq DOMAIN chainBills
    BY <1>2
  <2> HIDE DEF reached
  <2>2. out \subseteq DOMAIN chainBills
    BY <2>1 DEF FoundInv
  <2> HIDE DEF out, found
  <2> QED
    BY <1>3, <2>2 DEF FoundInv, NothingAsked
<1>5. missing \in SUBSET Nat
  BY <1>2
<1>6. job.created # 0 => Involved(job.created, job.wallet)
  BY DEF FoundInv, Involved
<1>7. ASSUME job.created # 0, ~job.missed, job.created \notin out
      PROVE  /\ job.created \in from .. job.count
             /\ \E m \in missing : ~(job.created < m)
  <2>1. job.created \in from .. job.count
    BY <1>7 DEF OwnIsDue
  <2> QED
    BY <1>6, <1>7, <2>1
<1>8. CASE missing = {}
  <2>1. job.created # 0 /\ ~job.missed => job.created \in out
    BY <1>7, <1>8
  <2> HIDE DEF missing, out, found
  <2> QED
    BY <1>1, <1>3, <1>4, <1>8, <2>1, AskFlagsInv
<1>9. CASE missing # {}
  <2>1. first \in missing /\ \A n \in missing : first <= n
    <3>1. \E m \in missing : \A n \in missing : m <= n
      BY <1>5, <1>9, LeastNatural
    <3> QED
      BY <3>1
  <2>2. first \in from .. job.count /\ first \in 1 .. job.count
    BY <1>2, <2>1
  <2>3. job.created # 0 /\ ~job.missed /\ job.created \notin out
          => job.created \in first .. job.count
    <3> SUFFICES ASSUME job.created # 0, ~job.missed, job.created \notin out
                 PROVE  job.created \in first .. job.count
      OBVIOUS
    <3>1. PICK m \in missing : ~(job.created < m)
      BY <1>7
    <3>2. job.created \in from .. job.count /\ m \in Int /\ first <= m
      BY <1>5, <1>7, <2>1
    <3> HIDE DEF missing, first, out
    <3> QED
      BY <1>2, <2>2, <3>1, <3>2
  <2> HIDE DEF missing, reached, out, found, first
  <2>4. /\ DOMAIN waiting = DOMAIN FreshLoad
        /\ waiting.phase = "bill" /\ waiting.next = first
        /\ waiting.out = out /\ waiting.count = job.count
        /\ waiting.created = job.created
        /\ waiting.missed = job.missed /\ waiting.wallet = job.wallet
        /\ waiting.sent = job.sent /\ waiting.heardYes = job.heardYes
        /\ waiting.heardNo = job.heardNo
    BY <1>3 DEF FreshLoad
  <2> HIDE DEF waiting
  <2>5. FoundInv(waiting, chainBills) /\ NothingAsked(waiting)
    BY <1>3, <1>4, <2>4 DEF FoundInv, NothingAsked
  <2>6. OwnIsDue(waiting, first)
    BY <2>3, <2>4 DEF OwnIsDue
  <2>7. LoadInv(waiting, chainBills)
    BY <2>2, <2>4, <2>5, <2>6 DEF LoadInv
  <2> QED
    BY <1>1, <1>9, <2>7
<1> QED
  BY <1>8, <1>9

(* A load comes as far as `job`; the page shows what it has found.         *)
LEMMA ReachInv ==
    ASSUME PageInv, NEW l \in Loads, NEW job, LoadInv(job, chainBills), NEW busy,
           Reach(l, job, busy), CacheInv(cache', chainBills),
           address' \in Wallets \cup {NoWallet}, splitJob'.id \in Nat,
           UNCHANGED chainVars
    PROVE  PageInv'
<1>1. load' = [load EXCEPT ![l] = job] /\ chainBills' = chainBills
  BY DEF Reach, chainVars
<1>2. DOMAIN load' = Loads /\ \A m \in Loads : LoadInv(load'[m], chainBills)
  BY <1>1 DEF PageInv
<1>3. bills' \subseteq DOMAIN chainBills
  BY DEF Reach, PageInv, LoadInv, FoundInv
<1> QED
  BY <1>1, <1>2, <1>3 DEF PageInv

(* So it does when a flag has come, or has failed to.                      *)
LEMMA CompleteInv ==
    ASSUME PageInv, NEW l \in Loads, NEW job, FoundInv(job, chainBills),
           job.created # 0 /\ ~job.missed => job.created \in job.out,
           Complete(l, job), CacheInv(cache', chainBills),
           UNCHANGED <<chainVars, address, splitJob>>
    PROVE  PageInv'
<1> DEFINE phase == IF job.sent \cup job.heardYes \cup job.heardNo = {}
                    THEN "done" ELSE "flags"
           next  == [job EXCEPT !.phase = phase]
<1>1. load' = [load EXCEPT ![l] = next] /\ bills' = bills /\ chainBills' = chainBills
  BY DEF Complete, chainVars
<1>2. phase \in {"done", "flags"} /\ (phase = "flags" <=> ~NothingAsked(job))
  BY DEF NothingAsked
<1> HIDE DEF phase
<1>3. /\ DOMAIN next = DOMAIN FreshLoad
      /\ next.phase = phase /\ next.sent = job.sent
      /\ next.heardYes = job.heardYes /\ next.heardNo = job.heardNo
      /\ next.count = job.count /\ next.out = job.out
      /\ next.created = job.created /\ next.missed = job.missed
      /\ next.wallet = job.wallet
  BY DEF FoundInv, FreshLoad
<1> HIDE DEF next
<1>4. FoundInv(next, chainBills) /\ (NothingAsked(next) <=> NothingAsked(job))
  BY <1>3 DEF FoundInv, NothingAsked
<1>5. LoadInv(next, chainBills)
  BY <1>2, <1>3, <1>4 DEF LoadInv
<1>6. DOMAIN load' = Loads /\ \A m \in Loads : LoadInv(load'[m], chainBills)
  BY <1>1, <1>5 DEF PageInv
<1> QED
  BY <1>1, <1>6 DEF PageInv

(* A load starts: with a count that is cached it goes on at once, unless   *)
(* it is made to show a bill, for which the count was forgotten.           *)
LEMMA StartLoadInv ==
    ASSUME PageInv, NEW l \in Loads, NEW w, NEW id, NEW job, Begun(job, w, id),
           id # 0 => id \in DOMAIN chainBills /\ chainBills[id].creator = w,
           NEW c, CacheInv(c, chainBills), id # 0 => c.count = Absent,
           StartLoad(l, job, c),
           address' \in Wallets \cup {NoWallet}, splitJob'.id \in Nat,
           UNCHANGED chainVars
    PROVE  PageInv'
<1> DEFINE asking == [job EXCEPT !.phase = "count"]
           counted == [job EXCEPT !.count = c.count]
<1>1. /\ chainBills \in Seq(ChainEntry)
      /\ FoundInv(job, chainBills) /\ NothingAsked(job)
      /\ cache' = c
  BY BegunFacts DEF PageInv, StartLoad
<1>2. CacheInv(cache', chainBills)
  BY <1>1
<1>3. CASE c.count = Absent
  <2>1. /\ DOMAIN asking = DOMAIN FreshLoad /\ asking.phase = "count"
        /\ asking.count = job.count /\ asking.out = job.out
        /\ asking.created = job.created /\ asking.wallet = job.wallet
        /\ asking.sent = job.sent /\ asking.heardYes = job.heardYes
        /\ asking.heardNo = job.heardNo
    BY <1>1 DEF FoundInv, FreshLoad
  <2>2. Reach(l, asking, TRUE)
    BY <1>3 DEF StartLoad
  <2> HIDE DEF asking
  <2>3. asking.count = Absent
    BY <2>1 DEF Begun
  <2>4. LoadInv(asking, chainBills)
    BY <1>1, <2>1, <2>3 DEF LoadInv, FoundInv, NothingAsked
  <2> QED
    BY <1>2, <2>2, <2>4, ReachInv
<1>4. CASE c.count # Absent
  <2>1. /\ DOMAIN counted = DOMAIN FreshLoad
        /\ counted.count = c.count /\ counted.out = job.out
        /\ counted.created = job.created /\ counted.wallet = job.wallet
        /\ counted.sent = job.sent /\ counted.heardYes = job.heardYes
        /\ counted.heardNo = job.heardNo
    BY <1>1 DEF FoundInv, FreshLoad
  <2>2. Reach(l, Scan(counted, 1, c), TRUE)
    BY <1>4 DEF StartLoad
  <2> HIDE DEF counted
  <2>3. FoundInv(counted, chainBills) /\ NothingAsked(counted)
    BY <1>1, <2>1 DEF FoundInv, NothingAsked, CacheInv
  <2>4. OwnIsDue(counted, 1)
    BY <1>4, <2>1 DEF Begun, OwnIsDue
  <2>5. LoadInv(Scan(counted, 1, c), chainBills)
    BY <1>1, <1>4, <2>1, <2>3, <2>4, ScanInv
  <2> QED
    BY <1>2, <2>2, <2>5, ReachInv
<1> QED
  BY <1>3, <1>4

(* The count is asked for, comes, or does not.                             *)
LEMMA LoadCountInv ==
    ASSUME PageInv, NEW l \in Loads, AnswerCount(l) \/ TakeCount(l) \/ FailCount(l),
           UNCHANGED <<chainVars, address, splitJob>>
    PROVE  PageInv'
<1> DEFINE old == load[l]
<1>1. /\ chainBills \in Seq(ChainEntry) /\ chainBills' = chainBills
      /\ LoadInv(old, chainBills) /\ CacheInv(cache, chainBills)
      /\ DOMAIN load = Loads /\ address' \in Wallets \cup {NoWallet}
      /\ splitJob'.id \in Nat
  BY DEF PageInv, chainVars
<1>2. Len(chainBills) \in Nat /\ DOMAIN chainBills = 1 .. Len(chainBills)
  BY <1>1, ChainFacts
<1>3. old.phase = "count" /\ NothingAsked(old) /\ DOMAIN old = DOMAIN FreshLoad
  BY <1>1 DEF AnswerCount, TakeCount, FailCount, LoadInv, FoundInv
<1>4. ASSUME NEW job, load' = [load EXCEPT ![l] = job], LoadInv(job, chainBills),
             cache' = cache, bills' = bills
      PROVE  PageInv'
  <2>1. DOMAIN load' = Loads /\ \A m \in Loads : LoadInv(load'[m], chainBills)
    BY <1>4 DEF PageInv
  <2> QED
    BY <1>1, <1>4, <2>1 DEF PageInv
<1>5. CASE AnswerCount(l)
  <2> DEFINE n == Len(chainBills)
             job == [old EXCEPT !.count = n]
  <2>1. load' = [load EXCEPT ![l] = job] /\ cache' = cache /\ bills' = bills
    BY <1>5 DEF AnswerCount
  <2>2. n \in Nat /\ n \in Absent .. Len(chainBills)
    BY <1>2 DEF Absent
  <2>3. /\ DOMAIN job = DOMAIN FreshLoad /\ job.phase = "count" /\ job.count = n
        /\ job.out = old.out /\ job.created = old.created /\ job.wallet = old.wallet
        /\ job.sent = old.sent /\ job.heardYes = old.heardYes
        /\ job.heardNo = old.heardNo
    BY <1>3 DEF FreshLoad
  <2> HIDE DEF job
  <2>4. FoundInv(job, chainBills) /\ NothingAsked(job)
    BY <1>1, <1>3, <2>2, <2>3 DEF LoadInv, FoundInv, NothingAsked
  <2>5. OwnIsDue(job, 1)
    BY <1>1, <1>2, <2>3 DEF LoadInv, FoundInv, OwnIsDue
  <2>6. LoadInv(job, chainBills)
    BY <2>3, <2>4, <2>5 DEF LoadInv
  <2> QED
    BY <1>4, <2>1, <2>6
<1>6. CASE FailCount(l)
  <2> DEFINE job == [old EXCEPT !.phase = "done", !.missed = TRUE]
  <2>1. load' = [load EXCEPT ![l] = job] /\ cache' = cache /\ bills' = bills
    BY <1>1, <1>6 DEF FailCount
  <2>2. /\ DOMAIN job = DOMAIN FreshLoad /\ job.phase = "done" /\ job.count = old.count
        /\ job.out = old.out /\ job.created = old.created /\ job.wallet = old.wallet
        /\ job.sent = old.sent /\ job.heardYes = old.heardYes
        /\ job.heardNo = old.heardNo /\ job.missed = TRUE
    BY <1>3 DEF FreshLoad
  <2> HIDE DEF job
  <2>3. LoadInv(job, chainBills)
    BY <1>1, <1>3, <2>2 DEF LoadInv, FoundInv, NothingAsked
  <2> QED
    BY <1>4, <2>1, <2>3
<1>7. CASE TakeCount(l)
  <2>1. /\ old.count # Absent /\ cache' = [cache EXCEPT !.count = old.count]
        /\ Reach(l, Scan(old, 1, cache), billsLoading)
    BY <1>7 DEF TakeCount
  <2>2. CacheInv(cache', chainBills)
    BY <1>1, <2>1 DEF CacheInv, LoadInv, FoundInv, EmptyCache
  <2>3. LoadInv(Scan(old, 1, cache), chainBills)
    BY <1>1, <1>3, <2>1, ScanInv DEF LoadInv
  <2> QED
    BY <1>1, <2>1, <2>2, <2>3, ReachInv
<1> QED
  BY <1>5, <1>6, <1>7

(* A bill comes, or is skipped.                                            *)
LEMMA LoadBillInv ==
    ASSUME PageInv, NEW l \in Loads, TakeBill(l) \/ FailBill(l),
           UNCHANGED <<chainVars, address, splitJob>>
    PROVE  PageInv'
<1> DEFINE old == load[l]
<1>1. /\ chainBills \in Seq(ChainEntry)
      /\ LoadInv(old, chainBills) /\ CacheInv(cache, chainBills)
      /\ address' \in Wallets \cup {NoWallet} /\ splitJob'.id \in Nat
  BY DEF PageInv
<1>2. Len(chainBills) \in Nat /\ DOMAIN chainBills = 1 .. Len(chainBills)
  BY <1>1, ChainFacts
<1>3. /\ old.phase = "bill" /\ NothingAsked(old) /\ DOMAIN old = DOMAIN FreshLoad
      /\ FoundInv(old, chainBills)
      /\ old.count \in Absent .. Len(chainBills)
      /\ old.next \in 1 .. old.count /\ OwnIsDue(old, old.next)
  BY <1>1 DEF TakeBill, FailBill, LoadInv, FoundInv
<1>4. /\ old.next \in Nat \ {0} /\ old.next + 1 \in Nat \ {0}
      /\ old.next \in DOMAIN chainBills /\ old.count # Absent
  BY <1>2, <1>3 DEF Absent
<1>5. CASE TakeBill(l)
  <2> DEFINE c == [cache EXCEPT !.bills = @ \cup {old.next}]
  <2>1. cache' = c /\ Reach(l, Scan(old, old.next, c), billsLoading)
    BY <1>5 DEF TakeBill
  <2>2. CacheInv(c, chainBills)
    BY <1>1, <1>4 DEF CacheInv, EmptyCache
  <2> HIDE DEF c
  <2>3. LoadInv(Scan(old, old.next, c), chainBills)
    BY <1>1, <1>3, <1>4, ScanInv
  <2>4. CacheInv(cache', chainBills)
    BY <2>1, <2>2
  <2> QED
    BY <1>1, <2>1, <2>3, <2>4, ReachInv
<1>6. CASE FailBill(l)
  <2> DEFINE job == [old EXCEPT !.missed = TRUE]
  <2>1. /\ Reach(l, Scan(job, job.next + 1, cache), billsLoading)
        /\ cache' = cache
    BY <1>6 DEF FailBill
  <2>2. /\ DOMAIN job = DOMAIN FreshLoad /\ job.next = old.next
        /\ job.count = old.count
        /\ job.out = old.out /\ job.created = old.created /\ job.wallet = old.wallet
        /\ job.sent = old.sent /\ job.heardYes = old.heardYes
        /\ job.heardNo = old.heardNo /\ job.missed = TRUE
    BY <1>3 DEF FreshLoad
  <2> HIDE DEF job
  <2>3. FoundInv(job, chainBills) /\ NothingAsked(job)
    BY <1>3, <2>2 DEF FoundInv, NothingAsked
  <2>4. OwnIsDue(job, job.next + 1)
    BY <2>2 DEF OwnIsDue
  <2>5. LoadInv(Scan(job, job.next + 1, cache), chainBills)
    BY <1>1, <1>4, <2>2, <2>3, <2>4, ScanInv
  <2>6. CacheInv(cache', chainBills)
    BY <1>1, <2>1
  <2> QED
    BY <1>1, <2>1, <2>5, <2>6, ReachInv
<1> QED
  BY <1>5, <1>6

(* A flag is answered, comes, or does not.                                 *)
LEMMA LoadFlagInv ==
    ASSUME PageInv, NEW l \in Loads, NEW pair \in Pairs,
           AnswerFlag(l, pair) \/ TakeFlag(l, pair) \/ FailFlag(l, pair),
           UNCHANGED <<chainVars, address, splitJob>>
    PROVE  PageInv'
<1> DEFINE old == load[l]
<1>1. /\ LoadInv(old, chainBills) /\ CacheInv(cache, chainBills)
      /\ FoundInv(old, chainBills) /\ DOMAIN old = DOMAIN FreshLoad
  BY DEF PageInv, LoadInv, FoundInv
<1>2. ~NothingAsked(old)
  BY DEF AnswerFlag, TakeFlag, FailFlag, NothingAsked
<1>3. /\ old.phase = "flags"
      /\ old.created # 0 /\ ~old.missed => old.created \in old.out
  BY <1>1, <1>2 DEF LoadInv
<1>4. CASE AnswerFlag(l, pair)
  <2> DEFINE job == [old EXCEPT !.sent = @ \ {pair},
                        !.heardYes = @ \cup ({pair} \cap chainSettled),
                        !.heardNo  = @ \cup ({pair} \ chainSettled)]
  <2>1. /\ load' = [load EXCEPT ![l] = job]
        /\ cache' = cache /\ bills' = bills
    BY <1>4 DEF AnswerFlag
  <2>2. /\ DOMAIN job = DOMAIN FreshLoad /\ job.phase = old.phase
        /\ job.count = old.count /\ job.out = old.out
        /\ job.created = old.created /\ job.wallet = old.wallet
        /\ job.missed = old.missed
        /\ pair \in job.heardYes \cup job.heardNo
    BY <1>1 DEF FreshLoad
  <2> HIDE DEF job
  <2>3. ~NothingAsked(job)
    BY <2>2 DEF NothingAsked
  <2>4. LoadInv(job, chainBills)
    BY <1>1, <1>3, <2>2, <2>3 DEF LoadInv, FoundInv
  <2>5. DOMAIN load' = Loads /\ \A m \in Loads : LoadInv(load'[m], chainBills)
    BY <2>1, <2>4 DEF PageInv
  <2> QED
    BY <2>1, <2>5 DEF PageInv, chainVars
<1>5. ASSUME NEW job, Complete(l, job), CacheInv(cache', chainBills),
             DOMAIN job = DOMAIN FreshLoad,
             job.count = old.count, job.out = old.out,
             job.created = old.created, job.wallet = old.wallet,
             job.missed \in BOOLEAN \cup {old.missed},
             old.missed => job.missed
      PROVE  PageInv'
  <2>1. FoundInv(job, chainBills)
    BY <1>1, <1>5 DEF FoundInv
  <2>2. job.created # 0 /\ ~job.missed => job.created \in job.out
    BY <1>3, <1>5
  <2> QED
    BY <1>5, <2>1, <2>2, CompleteInv
<1>6. CASE TakeFlag(l, pair)
  <2> DEFINE paid == [old EXCEPT !.heardYes = @ \ {pair}, !.yes = @ \cup {pair}]
             owed == [old EXCEPT !.heardNo = @ \ {pair}]
             cYes == [cache EXCEPT !.yes = @ \cup {pair}, !.no = @ \ {pair}]
             cNo  == [cache EXCEPT !.no = @ \cup {pair}, !.yes = @ \ {pair}]
  <2>1. \/ cache' = cYes /\ Complete(l, paid)
        \/ cache' = cNo /\ Complete(l, owed)
    BY <1>6 DEF TakeFlag, SettledKey
  <2>2. CacheInv(cYes, chainBills) /\ CacheInv(cNo, chainBills)
    BY <1>1 DEF CacheInv, EmptyCache
  <2>3. /\ DOMAIN paid = DOMAIN FreshLoad /\ DOMAIN owed = DOMAIN FreshLoad
        /\ paid.count = old.count /\ owed.count = old.count
        /\ paid.out = old.out /\ owed.out = old.out
        /\ paid.created = old.created /\ owed.created = old.created
        /\ paid.wallet = old.wallet /\ owed.wallet = old.wallet
        /\ paid.missed = old.missed /\ owed.missed = old.missed
    BY <1>1 DEF FreshLoad
  <2> HIDE DEF paid, owed, cYes, cNo
  <2>4. CacheInv(cache', chainBills)
    BY <2>1, <2>2
  <2> QED
    BY <1>5, <2>1, <2>3, <2>4
<1>7. CASE FailFlag(l, pair)
  <2> DEFINE job == [old EXCEPT !.sent = @ \ {pair}, !.missed = TRUE]
  <2>1. Complete(l, job) /\ cache' = cache
    BY <1>7 DEF FailFlag
  <2>2. /\ DOMAIN job = DOMAIN FreshLoad /\ job.count = old.count
        /\ job.out = old.out /\ job.created = old.created
        /\ job.wallet = old.wallet /\ job.missed = TRUE
    BY <1>1 DEF FreshLoad
  <2> HIDE DEF job
  <2>3. CacheInv(cache', chainBills)
    BY <1>1, <2>1
  <2> QED
    BY <1>5, <2>1, <2>2, <2>3
<1> QED
  BY <1>4, <1>6, <1>7

(* What is forgotten is not in the cache any more.                         *)
LEMMA ForgettingInv ==
    ASSUME PageInv
    PROVE  /\ CacheInv(cache, chainBills)
           /\ CacheInv(ForgetBills, chainBills) /\ ForgetBills.count = Absent
           /\ \A id : CacheInv(ForgetSettled(id), chainBills)
<1>1. Absent \in Absent .. Len(chainBills)
  BY ChainFacts DEF Absent, PageInv
<1> QED
  BY <1>1 DEF PageInv, CacheInv, EmptyCache, ForgetBills, ForgetSettled

(* Every step that starts a load.                                          *)
LEMMA StartsInv ==
    ASSUME PageInv, NEW l \in Loads,
           \/ \E a \in Wallets : Connect(l, a)
           \/ SplitSucceeds(l) \/ UnrecordedSplitSucceeds(l)
           \/ SettleSucceeds(l)
    PROVE  PageInv'
<1>1. /\ CacheInv(cache, chainBills) /\ splitJob.id \in Nat /\ NoJob.id \in Nat
      /\ address \in Wallets \cup {NoWallet}
      /\ chainBills \in Seq(ChainEntry)
  BY DEF PageInv, NoJob
<1>2. \A w, pair :
          /\ Begun([FreshLoad EXCEPT !.wallet = w], w, 0)
          /\ Begun([FreshLoad EXCEPT !.wallet = w, !.paid = pair], w, 0)
  BY DEF Begun, FreshLoad
<1>3. ASSUME NEW a \in Wallets, Connect(l, a)
      PROVE  PageInv'
  BY <1>1, <1>2, <1>3, StartLoadInv DEF Connect
<1>4. CASE UnrecordedSplitSucceeds(l)
  BY <1>1, <1>2, <1>4, StartLoadInv DEF UnrecordedSplitSucceeds
<1>5. CASE SplitSucceeds(l)
  <2>1. PICK id \in splitJob.id + 1 .. Len(chainBills) :
          /\ chainBills[id].creator = splitJob.wallet
          /\ splitJob' = NoJob
          /\ StartLoad(l, [FreshLoad EXCEPT !.wallet = splitJob.wallet,
                                            !.created = id], ForgetBills)
          /\ UNCHANGED <<chainVars, address, settleJob>>
    BY <1>5 DEF SplitSucceeds
  <2>2. id \in DOMAIN chainBills
    BY <1>1, ChainFacts
  <2>3. Begun([FreshLoad EXCEPT !.wallet = splitJob.wallet, !.created = id],
              splitJob.wallet, id)
    BY DEF Begun, FreshLoad
  <2> QED
    BY <1>1, <2>1, <2>2, <2>3, ForgettingInv, StartLoadInv
<1>6. CASE SettleSucceeds(l)
  <2> DEFINE pair == <<settleJob.id, settleJob.wallet>>
             job == [FreshLoad EXCEPT !.wallet = settleJob.wallet, !.paid = pair]
  <2>1. /\ StartLoad(l, job, ForgetSettled(settleJob.id))
        /\ UNCHANGED <<chainVars, address, splitJob>>
    BY <1>6 DEF SettleSucceeds
  <2>2. Begun(job, settleJob.wallet, 0)
    BY <1>2
  <2> HIDE DEF job
  <2> QED
    BY <1>1, <2>1, <2>2, ForgettingInv, StartLoadInv
<1> QED
  BY <1>3, <1>4, <1>5, <1>6

(* A bill is appended to the chain, or a share is marked: what was found   *)
(* is still there.                                                         *)
LEMMA ChainMovesInv ==
    ASSUME PageInv, ChainMoves
    PROVE  PageInv'
<1>1. /\ chainBills \in Seq(ChainEntry)
      /\ UNCHANGED <<address, cache, load, bills, splitJob>>
  BY DEF PageInv, ChainMoves
<1>2. CASE UNCHANGED chainBills
  BY <1>1, <1>2 DEF PageInv
<1>3. ASSUME NEW creator \in Address, NEW payers \in PayerLists,
             AppendBill(creator, payers)
      PROVE  PageInv'
  <2> DEFINE e == [creator |-> creator, payers |-> payers]
  <2>1. e \in ChainEntry
    BY PageAssumption DEF ChainEntry
  <2>2. chainBills' = Append(chainBills, e)
    BY <1>3 DEF AppendBill
  <2> HIDE DEF e
  <2>3. /\ chainBills' \in Seq(ChainEntry)
        /\ Len(chainBills') = Len(chainBills) + 1
        /\ \A i \in 1 .. Len(chainBills) : chainBills'[i] = chainBills[i]
    BY <1>1, <2>1, <2>2, AppendProperties
  <2>4. /\ Len(chainBills) \in Nat /\ DOMAIN chainBills = 1 .. Len(chainBills)
        /\ DOMAIN chainBills' = 1 .. Len(chainBills) + 1
    BY <1>1, <2>3, LenProperties
  <2>5. /\ DOMAIN chainBills \subseteq DOMAIN chainBills'
        /\ Absent .. Len(chainBills) \subseteq Absent .. Len(chainBills')
    BY <2>3, <2>4 DEF Absent
  <2>6. ASSUME NEW job, LoadInv(job, chainBills)
        PROVE  LoadInv(job, chainBills')
    <3>1. FoundInv(job, chainBills')
      BY <2>3, <2>4, <2>5, <2>6 DEF LoadInv, FoundInv
    <3> QED
      BY <2>6, <3>1 DEF LoadInv
  <2>7. CacheInv(cache', chainBills')
    BY <1>1, <2>5 DEF PageInv, CacheInv
  <2> QED
    BY <1>1, <2>3, <2>5, <2>6, <2>7 DEF PageInv
<1> QED
  BY <1>2, <1>3 DEF ChainMoves, ChainNext, MarkSettled

(* Nothing is cached and nothing is shown at first.                        *)
LEMMA PageInitInv == PageInit => PageInv
<1> SUFFICES ASSUME PageInit
             PROVE  PageInv
  OBVIOUS
<1>1. chainBills = <<>> /\ chainBills \in Seq(ChainEntry)
  BY EmptySeq DEF PageInit, ChainInit
<1>2. Absent \in Absent .. Len(chainBills)
  BY <1>1, ChainFacts DEF Absent
<1>3. LoadInv(FreshLoad, chainBills)
  BY <1>2 DEF LoadInv, FoundInv, NothingAsked, FreshLoad
<1>4. CacheInv(cache, chainBills)
  BY <1>2 DEF PageInit, CacheInv, EmptyCache
<1> QED
  BY <1>1, <1>3, <1>4 DEF PageInit, PageInv, NoJob

(* Every step of the page and of the chain keeps PageInv.                  *)
LEMMA PageStepInv == PageInv /\ [PageNext]_pageVars => PageInv'
<1> SUFFICES ASSUME PageInv, [PageNext]_pageVars
             PROVE  PageInv'
  OBVIOUS
<1>1. ASSUME NEW l \in Loads, LoadStep(l)
      PROVE  PageInv'
  BY <1>1, LoadCountInv, LoadBillInv, LoadFlagInv DEF LoadStep
<1>2. ASSUME NEW l \in Loads,
             \/ \E a \in Wallets : Connect(l, a)
             \/ SplitSucceeds(l) \/ UnrecordedSplitSucceeds(l)
             \/ SettleSucceeds(l)
      PROVE  PageInv'
  BY <1>2, StartsInv
<1>3. ASSUME UNCHANGED <<chainBills, cache, load, bills>>,
             address' \in Wallets \cup {NoWallet}, splitJob'.id \in Nat
      PROVE  PageInv'
  BY <1>3 DEF PageInv
<1>4. /\ address \in Wallets \cup {NoWallet} /\ splitJob.id \in Nat
      /\ chainBills \in Seq(ChainEntry)
  BY DEF PageInv
<1>5. CASE Disconnect
  BY <1>3, <1>4, <1>5 DEF Disconnect, chainVars
<1>6. CASE BeginSplit
  <2>1. Len(chainBills) \in Nat
    BY <1>4, ChainFacts
  <2>2. splitJob'.id \in Nat
    BY <1>6, <2>1 DEF BeginSplit
  <2> QED
    BY <1>3, <1>4, <1>6, <2>2 DEF BeginSplit, chainVars
<1>7. CASE SplitFails
  <2>1. splitJob'.id \in Nat
    BY <1>7 DEF SplitFails, NoJob
  <2> QED
    BY <1>3, <1>4, <1>7, <2>1 DEF SplitFails, chainVars
<1>8. CASE SettleFails \/ \E id \in 1 .. MaxBills : BeginSettle(id)
  BY <1>3, <1>4, <1>8 DEF SettleFails, BeginSettle, chainVars
<1>9. CASE Expire
  <2>1. CacheInv(cache, chainBills)
    BY DEF PageInv
  <2>2. Absent \in Absent .. Len(chainBills)
    BY <1>4, ChainFacts DEF Absent
  <2>3. CacheInv(cache', chainBills)
    BY <1>9, <2>1, <2>2 DEF Expire, CacheInv, EmptyCache
  <2> QED
    BY <1>9, <2>3 DEF Expire, PageInv, chainVars
<1>10. CASE UNCHANGED pageVars
  BY <1>3, <1>4, <1>10 DEF pageVars, chainVars
<1> QED
  BY <1>1, <1>2, <1>5, <1>6, <1>7, <1>8, <1>9, <1>10, ChainMovesInv DEF PageNext

(* Every reachable state of the page has PageInv.                          *)
THEOREM PageInvariant == PageSpec => []PageInv
  BY PageInitInv, PageStepInv, PTL DEF PageSpec

-----------------------------------------------------------------------------
\* Going on with a load.

(* Going over the bills ends at a request for one that is not cached, or   *)
(* with the flags.                                                         *)
LEMMA ScanGoesOn ==
    ASSUME NEW job, DOMAIN job = DOMAIN FreshLoad, job.count \in Int,
           NEW from \in Nat, NEW c
    PROVE  LET new == Scan(job, from, c) IN
           /\ new.phase \in {"bill", "flags", "done"}
           /\ new.count = job.count /\ new.paid = job.paid
           /\ new.phase = "bill" =>
                 new.next \in from .. job.count /\ new.next \notin c.bills
<1> DEFINE missing == {id \in from .. job.count : id \notin c.bills}
           reached == {id \in from .. job.count : \A m \in missing : id < m}
           found   == [job EXCEPT !.out = @ \cup
                        {id \in reached : Involved(id, job.wallet)}]
           first   == CHOOSE m \in missing : \A n \in missing : m <= n
           waiting == [found EXCEPT !.phase = "bill", !.next = first]
<1>1. Scan(job, from, c) = IF missing = {} THEN AskFlags(found, c) ELSE waiting
  BY DEF Scan
<1>2. DOMAIN found = DOMAIN FreshLoad /\ found.count = job.count /\ found.paid = job.paid
  BY DEF FreshLoad
<1>3. missing \subseteq Nat
  OBVIOUS
<1>4. missing # {} => first \in missing
  BY <1>3, LeastNatural
<1>5. first \in missing => first \in from .. job.count /\ first \notin c.bills
  OBVIOUS
<1> HIDE DEF missing, found, first
<1>6. /\ waiting.phase = "bill" /\ waiting.next = first
      /\ waiting.count = job.count /\ waiting.paid = job.paid
  BY <1>2 DEF FreshLoad
<1>7. /\ AskFlags(found, c).phase \in {"flags", "done"}
      /\ AskFlags(found, c).count = job.count /\ AskFlags(found, c).paid = job.paid
  BY <1>2 DEF AskFlags, FreshLoad
<1> HIDE DEF waiting
<1> QED
  BY <1>1, <1>4, <1>5, <1>6, <1>7

-----------------------------------------------------------------------------
\* The list says "loading" because of a load.

LoadingInv == billsLoading => \E l \in Loads : Running(l)

(* A load that comes as far as this is still at work, or has said that the *)
(* list is loaded.                                                         *)
LEMMA ReachKeepsLoading ==
    ASSUME PageInv, LoadingInv, NEW l \in Loads, NEW job, NEW busy,
           Reach(l, job, busy),
           job.phase \in {"count", "bill", "flags", "done"}
    PROVE  LoadingInv'
<1>1. load'[l] = job /\ (billsLoading' => job.phase # "done")
  BY DEF Reach, PageInv
<1> QED
  BY <1>1 DEF LoadingInv, Running

(* Steps of a load.                                                        *)
LEMMA LoadStepKeepsLoading ==
    ASSUME PageInv, LoadingInv, NEW l \in Loads, LoadStep(l)
    PROVE  LoadingInv'
<1> DEFINE old == load[l]
<1>1. LoadInv(old, chainBills) /\ DOMAIN load = Loads
  BY DEF PageInv
<1>2. /\ DOMAIN old = DOMAIN FreshLoad /\ old.count \in Int
      /\ chainBills \in Seq(ChainEntry)
  <2>1. Len(chainBills) \in Nat
    BY ChainFacts DEF PageInv
  <2> QED
    BY <1>1, <2>1 DEF LoadInv, FoundInv, Absent, PageInv
<1>3. ASSUME NEW job, load' = [load EXCEPT ![l] = job],
             billsLoading' => billsLoading /\ job.phase \in {"count", "bill", "flags"}
      PROVE  LoadingInv'
  BY <1>1, <1>3 DEF LoadingInv, Running
<1>4. CASE AnswerCount(l)
  <2> DEFINE job == [old EXCEPT !.count = Len(chainBills)]
  <2>1. load' = [load EXCEPT ![l] = job] /\ billsLoading' = billsLoading
    BY <1>4 DEF AnswerCount
  <2>2. job.phase = "count"
    BY <1>2, <1>4 DEF AnswerCount, FreshLoad
  <2> HIDE DEF job
  <2> QED
    BY <1>3, <2>1, <2>2
<1>5. CASE FailCount(l)
  BY <1>5 DEF FailCount, LoadingInv
<1>6. CASE TakeCount(l)
  <2>1. Reach(l, Scan(old, 1, cache), billsLoading)
    BY <1>6 DEF TakeCount
  <2>2. Scan(old, 1, cache).phase \in {"bill", "flags", "done"}
    BY <1>2, ScanGoesOn
  <2> QED
    BY <2>1, <2>2, ReachKeepsLoading
<1>7. CASE TakeBill(l)
  <2> DEFINE c == [cache EXCEPT !.bills = @ \cup {old.next}]
  <2>1. Reach(l, Scan(old, old.next, c), billsLoading)
    BY <1>7 DEF TakeBill
  <2>2. old.next \in Nat
    BY <1>1, <1>2, <1>7 DEF TakeBill, LoadInv
  <2> HIDE DEF c
  <2>3. Scan(old, old.next, c).phase \in {"bill", "flags", "done"}
    BY <1>2, <2>2, ScanGoesOn
  <2> QED
    BY <2>1, <2>3, ReachKeepsLoading
<1>8. CASE FailBill(l)
  <2> DEFINE job == [old EXCEPT !.missed = TRUE]
  <2>1. Reach(l, Scan(job, job.next + 1, cache), billsLoading)
    BY <1>8 DEF FailBill
  <2>2. old.next \in Nat
    BY <1>1, <1>2, <1>8 DEF FailBill, LoadInv
  <2>3. DOMAIN job = DOMAIN FreshLoad /\ job.count \in Int /\ job.next + 1 \in Nat
    BY <1>2, <2>2 DEF FreshLoad
  <2> HIDE DEF job
  <2>4. Scan(job, job.next + 1, cache).phase \in {"bill", "flags", "done"}
    BY <2>3, ScanGoesOn
  <2> QED
    BY <2>1, <2>4, ReachKeepsLoading
<1>9. ASSUME NEW pair \in Pairs, AnswerFlag(l, pair)
      PROVE  LoadingInv'
  <2> DEFINE job == [old EXCEPT !.sent = @ \ {pair},
                        !.heardYes = @ \cup ({pair} \cap chainSettled),
                        !.heardNo  = @ \cup ({pair} \ chainSettled)]
  <2>1. load' = [load EXCEPT ![l] = job] /\ billsLoading' = billsLoading
    BY <1>9 DEF AnswerFlag
  <2>2. old.phase = "flags"
    BY <1>1, <1>9 DEF AnswerFlag, LoadInv, NothingAsked
  <2>3. job.phase = "flags"
    BY <1>2, <2>2 DEF FreshLoad
  <2> HIDE DEF job
  <2> QED
    BY <1>3, <2>1, <2>3
<1>10. ASSUME NEW job, Complete(l, job), DOMAIN job = DOMAIN FreshLoad
       PROVE  LoadingInv'
  <2> DEFINE whole == job.sent \cup job.heardYes \cup job.heardNo = {}
             next  == [job EXCEPT !.phase = IF whole THEN "done" ELSE "flags"]
  <2>1. load' = [load EXCEPT ![l] = next] /\ billsLoading' = (billsLoading /\ ~whole)
    BY <1>10 DEF Complete
  <2>2. ~whole => next.phase = "flags"
    BY <1>10 DEF FreshLoad
  <2> HIDE DEF whole, next
  <2> QED
    BY <1>3, <2>1, <2>2
<1>11. ASSUME NEW pair \in Pairs, TakeFlag(l, pair) \/ FailFlag(l, pair)
       PROVE  LoadingInv'
  <2> DEFINE paid   == [old EXCEPT !.heardYes = @ \ {pair}, !.yes = @ \cup {pair}]
             owed   == [old EXCEPT !.heardNo = @ \ {pair}]
             failed == [old EXCEPT !.sent = @ \ {pair}, !.missed = TRUE]
  <2>1. Complete(l, paid) \/ Complete(l, owed) \/ Complete(l, failed)
    BY <1>11 DEF TakeFlag, FailFlag
  <2>2. /\ DOMAIN paid = DOMAIN FreshLoad /\ DOMAIN owed = DOMAIN FreshLoad
        /\ DOMAIN failed = DOMAIN FreshLoad
    BY <1>2
  <2> HIDE DEF paid, owed, failed
  <2> QED
    BY <1>10, <2>1, <2>2
<1> QED
  BY <1>4, <1>5, <1>6, <1>7, <1>8, <1>9, <1>11 DEF LoadStep

(* Every step.                                                             *)
LEMMA LoadingStepInv == PageInv /\ LoadingInv /\ [PageNext]_pageVars => LoadingInv'
<1> SUFFICES ASSUME PageInv, LoadingInv, [PageNext]_pageVars
             PROVE  LoadingInv'
  OBVIOUS
<1>1. ASSUME NEW l \in Loads, NEW job, NEW c, StartLoad(l, job, c),
             DOMAIN job = DOMAIN FreshLoad, c.count \in Int
      PROVE  LoadingInv'
  <2> DEFINE asking  == [job EXCEPT !.phase = "count"]
             counted == [job EXCEPT !.count = c.count]
  <2>1. /\ asking.phase = "count"
        /\ DOMAIN counted = DOMAIN FreshLoad /\ counted.count \in Int
    BY <1>1 DEF FreshLoad
  <2>2. Reach(l, IF c.count = Absent THEN asking ELSE Scan(counted, 1, c), TRUE)
    BY <1>1 DEF StartLoad
  <2> HIDE DEF asking, counted
  <2>3. Scan(counted, 1, c).phase \in {"bill", "flags", "done"}
    BY <2>1, ScanGoesOn
  <2> QED
    BY <2>1, <2>2, <2>3, ReachKeepsLoading
<1>2. ASSUME NEW l \in Loads,
             \/ \E a \in Wallets : Connect(l, a)
             \/ SplitSucceeds(l) \/ UnrecordedSplitSucceeds(l)
             \/ SettleSucceeds(l)
      PROVE  LoadingInv'
  <2>1. /\ cache.count \in Int /\ ForgetBills.count \in Int
        /\ \A id : ForgetSettled(id).count \in Int
    <3>1. Len(chainBills) \in Nat
      BY ChainFacts DEF PageInv
    <3> QED
      BY <3>1, ForgettingInv DEF CacheInv, Absent
  <2>2. \A w, id, pair :
           /\ DOMAIN [FreshLoad EXCEPT !.wallet = w] = DOMAIN FreshLoad
           /\ DOMAIN [FreshLoad EXCEPT !.wallet = w, !.created = id] = DOMAIN FreshLoad
           /\ DOMAIN [FreshLoad EXCEPT !.wallet = w, !.paid = pair] = DOMAIN FreshLoad
    OBVIOUS
  <2> QED
    BY <1>1, <1>2, <2>1, <2>2
       DEF Connect, SplitSucceeds, UnrecordedSplitSucceeds, SettleSucceeds
<1>3. CASE UNCHANGED <<load, billsLoading>>
  BY <1>3 DEF LoadingInv, Running
<1>4. ASSUME NEW l \in Loads, LoadStep(l)
      PROVE  LoadingInv'
  BY <1>4, LoadStepKeepsLoading
<1> QED
  BY <1>2, <1>3, <1>4
     DEF PageNext, Disconnect, BeginSplit, SplitFails, BeginSettle, SettleFails,
         Expire, ChainMoves, pageVars

(* What is cached and what a load has found exists on chain, and whoever   *)
(* waits has something to wait for: a load an answer, the list a load.     *)
THEOREM PageTypeCorrect == PageSpec => []PageTypeOK
<1>1. PageInv /\ LoadingInv => PageTypeOK
  <2> SUFFICES ASSUME PageInv, LoadingInv
               PROVE  PageTypeOK
    OBVIOUS
  <2>1. Len(chainBills) \in Nat /\ DOMAIN chainBills = 1 .. Len(chainBills)
    BY ChainFacts DEF PageInv
  <2>2. ASSUME NEW l \in Loads
        PROVE  /\ load[l].out \subseteq DOMAIN chainBills
               /\ load[l].phase = "bill" => load[l].next \in DOMAIN chainBills
               /\ load[l].phase = "flags" <=>
                    load[l].sent \cup load[l].heardYes \cup load[l].heardNo # {}
    <3>1. LoadInv(load[l], chainBills)
      BY DEF PageInv
    <3>2. load[l].count \in Absent .. Len(chainBills)
      BY <3>1 DEF LoadInv, FoundInv
    <3>3. load[l].phase = "bill" => load[l].next \in DOMAIN chainBills
      BY <2>1, <3>1, <3>2 DEF LoadInv, Absent
    <3> QED
      BY <3>1, <3>3 DEF LoadInv, FoundInv, NothingAsked
  <2> QED
    BY <2>2 DEF PageInv, CacheInv, PageTypeOK, LoadingInv
<1>2. PageInit => LoadingInv
  BY DEF PageInit, LoadingInv
<1> QED
  BY <1>1, <1>2, LoadingStepInv, PageInvariant, PTL DEF PageSpec

(* The list of a load that follows a successful split contains the new     *)
(* bill unless a request of the load failed, whatever older loads do to    *)
(* the cache meanwhile.                                                    *)
THEOREM OwnBillAlwaysListed == PageSpec => []OwnBillListed
<1>1. PageInv => OwnBillListed
  BY DEF PageInv, LoadInv, OwnBillListed
<1> QED
  BY <1>1, PageInvariant, PTL

-----------------------------------------------------------------------------
\* A load comes nearer to its end.

\* What becomes of a flag that was asked for.
FlagPaid(new, old, pair) ==
    /\ pair \in old.heardYes
    /\ new.heardYes = old.heardYes \ {pair} /\ new.yes = old.yes \cup {pair}
    /\ new.sent = old.sent /\ new.heardNo = old.heardNo

FlagOwed(new, old, pair) ==
    /\ pair \in old.heardNo
    /\ new.heardNo = old.heardNo \ {pair}
    /\ new.sent = old.sent /\ new.heardYes = old.heardYes /\ new.yes = old.yes

FlagMissed(new, old, pair) ==
    /\ pair \in old.sent
    /\ new.sent = old.sent \ {pair} /\ new.missed

(* A flag that was asked for comes or fails, and is asked for no more.     *)
LEMMA FlagFacts ==
    ASSUME PageInv, NEW l \in Loads, NEW pair \in Pairs,
           TakeFlag(l, pair) \/ FailFlag(l, pair)
    PROVE  /\ load[l].phase = "flags"
           /\ load'[l].phase \in {"flags", "done"}
           /\ load'[l].paid = load[l].paid
           /\ \/ FlagPaid(load'[l], load[l], pair)
              \/ FlagOwed(load'[l], load[l], pair)
              \/ FlagMissed(load'[l], load[l], pair)
<1> DEFINE old == load[l]
           new == load'[l]
           paid   == [old EXCEPT !.heardYes = @ \ {pair}, !.yes = @ \cup {pair}]
           owed   == [old EXCEPT !.heardNo = @ \ {pair}]
           failed == [old EXCEPT !.sent = @ \ {pair}, !.missed = TRUE]
<1>1. LoadInv(old, chainBills) /\ DOMAIN load = Loads
  BY DEF PageInv
<1>2. DOMAIN old = DOMAIN FreshLoad
  BY <1>1 DEF LoadInv, FoundInv
<1>3. \/ pair \in old.heardYes /\ Complete(l, paid)
      \/ pair \in old.heardNo /\ Complete(l, owed)
      \/ pair \in old.sent /\ Complete(l, failed)
  BY DEF TakeFlag, FailFlag
<1>4. old.phase = "flags"
  BY <1>1, <1>3 DEF LoadInv, NothingAsked
<1>5. ASSUME NEW job, Complete(l, job), DOMAIN job = DOMAIN FreshLoad
      PROVE  /\ new.phase \in {"flags", "done"}
             /\ new.sent = job.sent /\ new.heardYes = job.heardYes
             /\ new.heardNo = job.heardNo /\ new.yes = job.yes
             /\ new.paid = job.paid /\ new.missed = job.missed
  <2> DEFINE phase == IF job.sent \cup job.heardYes \cup job.heardNo = {}
                      THEN "done" ELSE "flags"
  <2>1. new = [job EXCEPT !.phase = phase]
    BY <1>1, <1>5 DEF Complete
  <2>2. phase \in {"flags", "done"}
    OBVIOUS
  <2> HIDE DEF phase, new
  <2> QED
    BY <1>5, <2>1, <2>2 DEF FreshLoad
<1>6. /\ DOMAIN paid = DOMAIN FreshLoad /\ paid.sent = old.sent
      /\ paid.heardYes = old.heardYes \ {pair} /\ paid.heardNo = old.heardNo
      /\ paid.yes = old.yes \cup {pair} /\ paid.paid = old.paid
      /\ DOMAIN owed = DOMAIN FreshLoad /\ owed.sent = old.sent
      /\ owed.heardYes = old.heardYes /\ owed.heardNo = old.heardNo \ {pair}
      /\ owed.yes = old.yes /\ owed.paid = old.paid
      /\ DOMAIN failed = DOMAIN FreshLoad /\ failed.sent = old.sent \ {pair}
      /\ failed.missed = TRUE /\ failed.paid = old.paid
  BY <1>2 DEF FreshLoad
<1> HIDE DEF paid, owed, failed
<1>7. CASE pair \in old.heardYes /\ Complete(l, paid)
  BY <1>4, <1>5, <1>6, <1>7 DEF FlagPaid
<1>8. CASE pair \in old.heardNo /\ Complete(l, owed)
  BY <1>4, <1>5, <1>6, <1>8 DEF FlagOwed
<1>9. CASE pair \in old.sent /\ Complete(l, failed)
  BY <1>4, <1>5, <1>6, <1>9 DEF FlagMissed
<1> QED
  BY <1>3, <1>7, <1>8, <1>9

(* A load that goes on and is not at work any more, or has come as far as  *)
(* its flags, is nearer to its end.                                        *)
LEMMA LoadStepIsNearer ==
    ASSUME PageInv, NEW l \in Loads, Running(l), LoadStep(l), load'[l] # load[l]
    PROVE  Nearer(load'[l], load[l])
<1> DEFINE old == load[l]
           new == load'[l]
<1>1. LoadInv(old, chainBills) /\ DOMAIN load = Loads
  BY DEF PageInv
<1>2. /\ DOMAIN old = DOMAIN FreshLoad /\ old.count \in Int
      /\ Len(chainBills) \in Nat
  <2>1. Len(chainBills) \in Nat
    BY ChainFacts DEF PageInv
  <2> QED
    BY <1>1, <2>1 DEF LoadInv, FoundInv, Absent
<1>3. CASE AnswerCount(l)
  <2>1. new = [old EXCEPT !.count = Len(chainBills)]
    BY <1>1, <1>3 DEF AnswerCount
  <2>2. new.phase = "count" /\ new.count = Len(chainBills)
    BY <1>2, <1>3, <2>1 DEF AnswerCount, FreshLoad
  <2> QED
    BY <1>2, <1>3, <2>2 DEF Nearer, AnswerCount, Absent
<1>4. CASE FailCount(l)
  <2>1. new = [old EXCEPT !.phase = "done", !.missed = TRUE]
    BY <1>1, <1>4 DEF FailCount
  <2>2. new.phase = "done"
    BY <1>2, <2>1 DEF FreshLoad
  <2> QED
    BY <2>2 DEF Nearer
<1>5. CASE TakeCount(l)
  <2>1. new = Scan(old, 1, cache) /\ old.phase = "count"
    BY <1>1, <1>5 DEF TakeCount, Reach
  <2>2. Scan(old, 1, cache).phase \in {"bill", "flags", "done"}
    BY <1>2, ScanGoesOn
  <2> HIDE DEF old, new
  <2>3. Nearer(new, old)
    BY <2>1, <2>2 DEF Nearer
  <2> QED
    BY <2>3 DEF old, new
<1>6. CASE TakeBill(l)
  <2> DEFINE c == [cache EXCEPT !.bills = @ \cup {old.next}]
  <2>1. new = Scan(old, old.next, c) /\ old.phase = "bill"
    BY <1>1, <1>6 DEF TakeBill, Reach
  <2>2. old.next \in Nat
    BY <1>1, <1>2, <2>1 DEF LoadInv
  <2>3. old.next \in c.bills
    BY DEF PageInv, CacheInv, EmptyCache
  <2> HIDE DEF c, old, new
  <2>4. /\ new.phase \in {"bill", "flags", "done"} /\ new.count = old.count
        /\ new.phase = "bill" =>
              new.next \in old.next .. old.count /\ new.next # old.next
    BY <1>2, <2>1, <2>2, <2>3, ScanGoesOn
  <2>5. new.phase = "bill" => old.next < new.next /\ new.next <= old.count
    BY <1>2, <2>2, <2>4
  <2>6. Nearer(new, old)
    BY <2>1, <2>4, <2>5 DEF Nearer
  <2> QED
    BY <2>6 DEF old, new
<1>7. CASE FailBill(l)
  <2> DEFINE job == [old EXCEPT !.missed = TRUE]
  <2>1. new = Scan(job, job.next + 1, cache) /\ old.phase = "bill"
    BY <1>1, <1>7 DEF FailBill, Reach
  <2>2. old.next \in Nat
    BY <1>1, <1>2, <2>1 DEF LoadInv
  <2>3. DOMAIN job = DOMAIN FreshLoad /\ job.count = old.count /\ job.next = old.next
    BY <1>2 DEF FreshLoad
  <2>10. job.count \in Int /\ job.next + 1 \in Nat
    BY <1>2, <2>2, <2>3
  <2> HIDE DEF job, old, new
  <2>4. /\ new.phase \in {"bill", "flags", "done"} /\ new.count = old.count
        /\ new.phase = "bill" => new.next \in old.next + 1 .. old.count
    BY <2>1, <2>3, <2>10, ScanGoesOn
  <2>5. new.phase = "bill" => old.next < new.next /\ new.next <= old.count
    BY <1>2, <2>2, <2>4
  <2>6. Nearer(new, old)
    BY <2>1, <2>4, <2>5 DEF Nearer
  <2> QED
    BY <2>6 DEF old, new
<1>8. ASSUME NEW pair \in Pairs, AnswerFlag(l, pair)
      PROVE  Nearer(new, old)
  <2>1. old.phase = "flags"
    BY <1>1, <1>8 DEF AnswerFlag, LoadInv, NothingAsked
  <2>2. new = [old EXCEPT !.sent = @ \ {pair},
                          !.heardYes = @ \cup ({pair} \cap chainSettled),
                          !.heardNo  = @ \cup ({pair} \ chainSettled)]
    BY <1>1, <1>8 DEF AnswerFlag
  <2>3. pair \in old.sent
    BY <1>8 DEF AnswerFlag
  <2> HIDE DEF old, new
  <2>4. new.phase = old.phase /\ new.sent = old.sent \ {pair}
    BY <1>2, <2>2 DEF FreshLoad
  <2>5. Nearer(new, old)
    BY <2>1, <2>3, <2>4 DEF Nearer
  <2> QED
    BY <2>5
<1>9. ASSUME NEW pair \in Pairs, TakeFlag(l, pair) \/ FailFlag(l, pair)
      PROVE  Nearer(new, old)
  <2>1. /\ old.phase = "flags"
        /\ new.phase \in {"flags", "done"}
        /\ \/ FlagPaid(new, old, pair)
           \/ FlagOwed(new, old, pair)
           \/ FlagMissed(new, old, pair)
    BY <1>9, FlagFacts
  <2> HIDE DEF old, new
  <2>2. Nearer(new, old)
    BY <2>1 DEF Nearer, FlagPaid, FlagOwed, FlagMissed
  <2> QED
    BY <2>2
<1> QED
  BY <1>3, <1>4, <1>5, <1>6, <1>7, <1>8, <1>9 DEF LoadStep

(* What happens to a load that is at work is a step of its own.            *)
LEMMA OnlyItsOwnSteps ==
    ASSUME PageInv, [PageNext]_pageVars, NEW l \in Loads, Running(l),
           load'[l] # load[l]
    PROVE  LoadStep(l)
<1>1. DOMAIN load = Loads
  BY DEF PageInv
<1>2. ASSUME NEW m \in Loads, m # l, LoadStep(m)
      PROVE  load'[l] = load[l]
  BY <1>1, <1>2 DEF LoadStep, AnswerCount, TakeCount, FailCount, TakeBill,
     FailBill, AnswerFlag, TakeFlag, FailFlag, Reach, Complete
<1>3. ASSUME NEW m \in Loads, NEW job, NEW c, StartLoad(m, job, c)
      PROVE  load'[l] = load[l]
  <2>1. m # l
    BY <1>3 DEF StartLoad
  <2> QED
    BY <1>1, <1>3, <2>1 DEF StartLoad, Reach
<1>4. ASSUME NEW m \in Loads,
             \/ \E a \in Wallets : Connect(m, a)
             \/ SplitSucceeds(m) \/ UnrecordedSplitSucceeds(m)
             \/ SettleSucceeds(m)
      PROVE  load'[l] = load[l]
  BY <1>3, <1>4 DEF Connect, SplitSucceeds, UnrecordedSplitSucceeds, SettleSucceeds
<1> QED
  BY <1>2, <1>4
     DEF PageNext, Disconnect, BeginSplit, SplitFails, BeginSettle, SettleFails,
         Expire, ChainMoves, pageVars

(* The half of LoadingEnds that needs no fairness: whatever happens to a   *)
(* load at work brings it nearer to its end, and with LoadingInv the list  *)
(* says "loading" only because of such a load.                             *)
THEOREM LoadsAlwaysComeNearer == PageSpec => LoadsComeNearer
<1>1. PageInv /\ [PageNext]_pageVars
        => [\A l \in Loads :
              Running(l) => load'[l] = load[l] \/ Nearer(load'[l], load[l])]_pageVars
  BY OnlyItsOwnSteps, LoadStepIsNearer
<1> QED
  BY <1>1, PageInvariant, PTL DEF PageSpec, LoadsComeNearer

-----------------------------------------------------------------------------
\* A load follows a settle that has been applied.

FollowsPaid(job) == job.paid = <<>> \/ job.paid \in chainSettled

PaidJobInv == \A l \in Loads : FollowsPaid(load[l])

(* A load's own step does not change which write it follows.               *)
LEMMA LoadStepKeepsPaid ==
    ASSUME PageInv, NEW l \in Loads, LoadStep(l)
    PROVE  load'[l].paid = load[l].paid /\ \A m \in Loads : m # l => load'[m] = load[m]
<1> DEFINE old == load[l]
           new == load'[l]
<1>1. LoadInv(old, chainBills) /\ DOMAIN load = Loads
  BY DEF PageInv
<1>2. DOMAIN old = DOMAIN FreshLoad /\ old.count \in Int /\ Len(chainBills) \in Nat
  <2>1. Len(chainBills) \in Nat
    BY ChainFacts DEF PageInv
  <2> QED
    BY <1>1, <2>1 DEF LoadInv, FoundInv, Absent
<1>3. \A m \in Loads : m # l => load'[m] = load[m]
  BY <1>1 DEF LoadStep, AnswerCount, TakeCount, FailCount, TakeBill, FailBill,
     AnswerFlag, TakeFlag, FailFlag, Reach, Complete
<1>4. ASSUME AnswerCount(l) \/ FailCount(l)
      PROVE  new.paid = old.paid
  <2>1. \/ new = [old EXCEPT !.count = Len(chainBills)]
        \/ new = [old EXCEPT !.phase = "done", !.missed = TRUE]
    BY <1>1, <1>4 DEF AnswerCount, FailCount
  <2>2. "paid" \in DOMAIN old
    BY <1>2 DEF FreshLoad
  <2> HIDE DEF old, new
  <2> QED
    BY <2>1, <2>2
<1>5. CASE TakeCount(l)
  <2>1. new = Scan(old, 1, cache)
    BY <1>1, <1>5 DEF TakeCount, Reach
  <2>2. 1 \in Nat
    OBVIOUS
  <2> HIDE DEF old, new
  <2>3. new.paid = old.paid
    BY <1>2, <2>1, <2>2, ScanGoesOn
  <2> QED
    BY <1>3, <2>3 DEF old, new
<1>6. CASE TakeBill(l)
  <2> DEFINE c == [cache EXCEPT !.bills = @ \cup {old.next}]
  <2>1. new = Scan(old, old.next, c) /\ old.phase = "bill"
    BY <1>1, <1>6 DEF TakeBill, Reach
  <2>2. old.next \in Nat
    BY <1>1, <1>2, <2>1 DEF LoadInv
  <2> HIDE DEF c
  <2>3. Scan(old, old.next, c).paid = old.paid
    BY <1>2, <2>2, ScanGoesOn
  <2> QED
    BY <1>3, <2>1, <2>3
<1>7. CASE FailBill(l)
  <2> DEFINE job == [old EXCEPT !.missed = TRUE]
  <2>1. new = Scan(job, job.next + 1, cache) /\ old.phase = "bill"
    BY <1>1, <1>7 DEF FailBill, Reach
  <2>2. old.next \in Nat
    BY <1>1, <1>2, <2>1 DEF LoadInv
  <2>3. /\ DOMAIN job = DOMAIN FreshLoad /\ job.count \in Int /\ job.paid = old.paid
        /\ job.next + 1 \in Nat
    BY <1>2, <2>2 DEF FreshLoad
  <2> HIDE DEF job
  <2>4. Scan(job, job.next + 1, cache).paid = job.paid
    BY <2>3, ScanGoesOn
  <2> QED
    BY <1>3, <2>1, <2>3, <2>4
<1>8. ASSUME NEW pair \in Pairs, AnswerFlag(l, pair)
      PROVE  new.paid = old.paid
  BY <1>1, <1>2, <1>8 DEF AnswerFlag, FreshLoad
<1>9. ASSUME NEW pair \in Pairs, TakeFlag(l, pair) \/ FailFlag(l, pair)
      PROVE  new.paid = old.paid
  BY <1>9, FlagFacts
<1> QED
  BY <1>3, <1>4, <1>5, <1>6, <1>7, <1>8, <1>9 DEF LoadStep

(* A load begins with a write that is done, or with none.                  *)
LEMMA StartLoadPaid ==
    ASSUME PageInv, PaidJobInv, NEW l \in Loads, NEW job, NEW c,
           DOMAIN job = DOMAIN FreshLoad, c.count \in Int, FollowsPaid(job),
           StartLoad(l, job, c), UNCHANGED chainSettled
    PROVE  PaidJobInv'
<1> DEFINE asking  == [job EXCEPT !.phase = "count"]
           counted == [job EXCEPT !.count = c.count]
           begun   == IF c.count = Absent THEN asking ELSE Scan(counted, 1, c)
<1>1. /\ asking.paid = job.paid /\ counted.paid = job.paid
      /\ DOMAIN counted = DOMAIN FreshLoad /\ counted.count \in Int
  BY DEF FreshLoad
<1>2. load' = [load EXCEPT ![l] = begun]
  BY DEF StartLoad, Reach
<1> HIDE DEF asking, counted
<1>3. Scan(counted, 1, c).paid = counted.paid
  BY <1>1, ScanGoesOn
<1>4. begun.paid = job.paid
  BY <1>1, <1>3
<1> HIDE DEF begun
<1> QED
  BY <1>2, <1>4 DEF PaidJobInv, FollowsPaid, PageInv

(* Every step.                                                             *)
LEMMA PaidJobStep == PageInv /\ PaidJobInv /\ [PageNext]_pageVars => PaidJobInv'
<1> SUFFICES ASSUME PageInv, PaidJobInv, [PageNext]_pageVars
             PROVE  PaidJobInv'
  OBVIOUS
<1>1. ASSUME NEW l \in Loads, LoadStep(l)
      PROVE  PaidJobInv'
  <2>1. UNCHANGED chainSettled
    BY <1>1 DEF LoadStep, chainVars
  <2>2. \A m \in Loads : load'[m].paid = load[m].paid
    BY <1>1, LoadStepKeepsPaid
  <2> QED
    BY <2>1, <2>2 DEF PaidJobInv, FollowsPaid
<1>2. /\ cache.count \in Int /\ ForgetBills.count \in Int
      /\ \A id : ForgetSettled(id).count \in Int
  <2>1. Len(chainBills) \in Nat
    BY ChainFacts DEF PageInv
  <2> QED
    BY <2>1, ForgettingInv DEF CacheInv, Absent
<1>3. ASSUME NEW l \in Loads, NEW w, NEW id, NEW c, c.count \in Int,
             \/ StartLoad(l, [FreshLoad EXCEPT !.wallet = w], c)
             \/ StartLoad(l, [FreshLoad EXCEPT !.wallet = w, !.created = id], c),
             UNCHANGED chainSettled
      PROVE  PaidJobInv'
  <2>1. /\ DOMAIN [FreshLoad EXCEPT !.wallet = w] = DOMAIN FreshLoad
        /\ [FreshLoad EXCEPT !.wallet = w].paid = <<>>
        /\ DOMAIN [FreshLoad EXCEPT !.wallet = w, !.created = id] = DOMAIN FreshLoad
        /\ [FreshLoad EXCEPT !.wallet = w, !.created = id].paid = <<>>
    BY DEF FreshLoad
  <2> QED
    BY <1>3, <2>1, StartLoadPaid DEF FollowsPaid
<1>4. ASSUME NEW l \in Loads, SettleSucceeds(l)
      PROVE  PaidJobInv'
  <2> DEFINE pair == <<settleJob.id, settleJob.wallet>>
             job == [FreshLoad EXCEPT !.wallet = settleJob.wallet, !.paid = pair]
  <2>1. /\ pair \in chainSettled
        /\ StartLoad(l, job, ForgetSettled(settleJob.id))
        /\ UNCHANGED chainSettled
    BY <1>4 DEF SettleSucceeds, chainVars
  <2>2. DOMAIN job = DOMAIN FreshLoad /\ job.paid = pair
    BY DEF FreshLoad
  <2> HIDE DEF job
  <2>3. FollowsPaid(job)
    BY <2>1, <2>2 DEF FollowsPaid
  <2> QED
    BY <1>2, <2>1, <2>2, <2>3, StartLoadPaid
<1>5. ASSUME NEW l \in Loads,
             \/ \E a \in Wallets : Connect(l, a)
             \/ SplitSucceeds(l) \/ UnrecordedSplitSucceeds(l)
      PROVE  PaidJobInv'
  BY <1>2, <1>3, <1>5
     DEF Connect, SplitSucceeds, UnrecordedSplitSucceeds, chainVars
<1>6. ASSUME UNCHANGED load, chainSettled \subseteq chainSettled'
      PROVE  PaidJobInv'
  BY <1>6 DEF PaidJobInv, FollowsPaid
<1>7. CASE ChainMoves
  BY <1>6, <1>7 DEF ChainMoves, ChainNext, AppendBill, MarkSettled
<1> QED
  BY <1>1, <1>4, <1>5, <1>6, <1>7
     DEF PageNext, Disconnect, BeginSplit, SplitFails, BeginSettle, SettleFails,
         Expire, pageVars, chainVars

(* A load that is asking the chain about the share it was made to show is  *)
(* told that it is paid.                                                   *)
LEMMA AskedStep ==
    ASSUME PageInv, PaidJobInv, [PageNext]_pageVars, NEW l \in Loads,
           load[l].paid \in load[l].sent \cup load[l].heardYes
    PROVE  \/ load'[l].missed
           \/ /\ load'[l].paid = load[l].paid
              /\ load'[l].paid \in load'[l].sent \cup load'[l].heardYes
                                      \cup load'[l].yes
<1> DEFINE old == load[l]
           new == load'[l]
<1>1. /\ LoadInv(old, chainBills) /\ DOMAIN load = Loads
      /\ old.paid = <<>> \/ old.paid \in chainSettled
  BY DEF PageInv, PaidJobInv, FollowsPaid
<1>2. DOMAIN old = DOMAIN FreshLoad /\ old.phase = "flags"
  BY <1>1 DEF LoadInv, FoundInv, NothingAsked
<1>3. CASE new = old
  BY <1>3
<1>4. CASE new # old
  <2>1. LoadStep(l)
    BY <1>2, <1>4, OnlyItsOwnSteps DEF Running
  <2>2. PICK pair \in Pairs :
          AnswerFlag(l, pair) \/ TakeFlag(l, pair) \/ FailFlag(l, pair)
    BY <1>2, <2>1 DEF LoadStep, AnswerCount, TakeCount, FailCount, TakeBill, FailBill
  <2>3. CASE AnswerFlag(l, pair)
    <3>1. new = [old EXCEPT !.sent = @ \ {pair},
                            !.heardYes = @ \cup ({pair} \cap chainSettled),
                            !.heardNo  = @ \cup ({pair} \ chainSettled)]
      BY <1>1, <2>3 DEF AnswerFlag
    <3>2. pair # <<>>
      <4>1. PICK id \in 1 .. MaxBills, payer \in Address : pair = <<id, payer>>
        BY DEF Pairs
      <4>2. Len(<<id, payer>>) = 2 /\ Len(<<>>) = 0
        OBVIOUS
      <4> QED
        BY <4>1, <4>2
    <3>3. old.paid \in old.sent \cup old.heardYes
      OBVIOUS
    <3> HIDE DEF old, new
    <3>4. /\ new.paid = old.paid /\ new.sent = old.sent \ {pair}
          /\ new.heardYes = old.heardYes \cup ({pair} \cap chainSettled)
      BY <1>2, <3>1 DEF FreshLoad
    <3>5. new.paid = old.paid /\ new.paid \in new.sent \cup new.heardYes
      BY <1>1, <3>2, <3>3, <3>4
    <3> QED
      BY <3>5 DEF old, new
  <2>4. CASE TakeFlag(l, pair) \/ FailFlag(l, pair)
    <3>1. /\ new.paid = old.paid
          /\ \/ FlagPaid(new, old, pair)
             \/ FlagOwed(new, old, pair)
             \/ FlagMissed(new, old, pair)
      BY <2>4, FlagFacts
    <3> QED
      BY <3>1 DEF FlagPaid, FlagOwed, FlagMissed
  <2> QED
    BY <2>2, <2>3, <2>4
<1> QED
  BY <1>3, <1>4

(* What a load asks the chain itself is not stale, whatever other loads    *)
(* take from the cache and put there: what InvalidatedAfterWrites misses   *)
(* comes from cache hits alone.                                            *)
THEOREM WhatIsAskedIsHeard == PageSpec => AskedIsHeard
<1>1. PageInit => PaidJobInv
  BY DEF PageInit, PaidJobInv, FollowsPaid, FreshLoad
<1>2. PageInv /\ PaidJobInv /\ [PageNext]_pageVars
        => [\A l \in Loads :
              load[l].paid \in load[l].sent \cup load[l].heardYes
                => \/ load'[l].missed
                   \/ /\ load'[l].paid = load[l].paid
                      /\ load'[l].paid \in load'[l].sent \cup load'[l].heardYes
                                              \cup load'[l].yes]_pageVars
  BY AskedStep
<1> QED
  BY <1>1, <1>2, PaidJobStep, PageInvariant, PTL DEF PageSpec, AskedIsHeard
=============================================================================
