-------------------------- MODULE WalletCardProofs --------------------------
(***************************************************************************)
(* What the wallet card shows, for any wallets and any number of refreshes *)
(* that overlap.                                                           *)
(*                                                                         *)
(* What a refresh shows in the end it may have found when it began, been   *)
(* told since, or made up when it was told nothing.  So the balance that a *)
(* settle has led to is compared with all three places: it is no more than *)
(* the balance on chain while the request is out, and than the answer      *)
(* later.  It is never compared with the cache, which was emptied before   *)
(* that refresh began, and may have been filled with less since.           *)
(*                                                                         *)
(* Whose balances are shown is proved of everything that may still be      *)
(* shown: the refreshes waited for, the write that will start one, and the *)
(* card (OwnedInv).                                                        *)
(***************************************************************************)
EXTENDS WalletCardAudit, TLAPS

Refresh == [wallet : Wallets \cup {NoWallet}, open : BOOLEAN, xlm : Request,
            token : Request, after : 0 .. MaxChanges]

Write == [call : {"none", "split", "settle"}, wallet : Wallets \cup {NoWallet},
          led : 0 .. MaxChanges]

Balances == [Wallets -> 1 .. MaxChanges]

\* What is known of a balance was one: t are the balances on chain.
Known(job, t) ==
    CASE job.token.state = "asked"    -> job.after <= t[job.wallet]
      [] job.token.state = "answered" -> /\ job.token.value \in 1 .. t[job.wallet]
                                         /\ job.after <= job.token.value
      [] job.token.state = "here"     -> /\ job.token.value \in 0 .. t[job.wallet]
                                         /\ job.token.value # 0 =>
                                               job.after <= job.token.value
      [] OTHER -> TRUE

Sound(job, t) ==
    /\ job \in Refresh
    /\ job.token.state # "none" => job.wallet \in Wallets /\ Known(job, t)
    /\ job.open => job.token.state # "none"
    /\ job.open <=> job.xlm.state # "none"
    /\ job.after # 0 => job.open

RefreshInv(job, t) == Sound(job, t) /\ (job.open => ~Complete(job))

CacheInv(c, t) ==
    /\ c \in [Wallets -> Absent .. MaxChanges]
    /\ \A a \in Wallets : c[a] \in {Absent} \cup 1 .. t[a]

WriteInv(w, t) ==
    /\ w \in Write
    /\ w # NoWrite => w.wallet \in Wallets
    /\ w.led # 0 => w.led <= t[w.wallet]

LoadingInv(loading, jobs) ==
    /\ loading \in BOOLEAN
    /\ loading => \E r \in Refreshes : jobs[r].open

CardInv ==
    /\ token \in Balances
    /\ address \in Wallets \cup {NoWallet}
    /\ balanceError \in {"none", "unfunded", "failed"}
    /\ CacheInv(cache, token)
    /\ WriteInv(write, token)
    /\ refresh \in [Refreshes -> Refresh]
    /\ \A r \in Refreshes : RefreshInv(refresh[r], token)
    /\ LoadingInv(balanceLoading, refresh)

-----------------------------------------------------------------------------
\* Requests.

(* Requests that are not made, made and answered are requests.             *)
LEMMA RequestFacts ==
    /\ None \in Request /\ Asked \in Request
    /\ None.state = "none" /\ Asked.state = "asked"
    /\ \A v \in Absent .. MaxChanges :
          /\ Here(v) \in Request
          /\ Here(v).state = "here" /\ Here(v).value = v
    /\ Absent = -1 /\ Absent \in Absent .. MaxChanges
    /\ 0 .. MaxChanges \subseteq Absent .. MaxChanges
    /\ MaxChanges \in Nat \ {0}
  BY CardAssumption DEF None, Asked, Here, Request, Absent

(* A refresh that is over knows nothing and is waited for by nobody.       *)
LEMMA NoRefreshFacts ==
    ASSUME NEW t
    PROVE  RefreshInv(NoRefresh, t) /\ ~NoRefresh.open /\ NoRefresh.after = 0
<1>1. NoRefresh \in Refresh
  BY RequestFacts DEF NoRefresh, Refresh
<1> QED
  BY <1>1, RequestFacts DEF NoRefresh, RefreshInv, Sound

(* What is left of a refresh once its outcome is known.                    *)
Closed(job) ==
    IF job.token.state \in {"asked", "answered"}
    THEN [job EXCEPT !.open = FALSE, !.xlm = None, !.after = 0]
    ELSE NoRefresh

(* A token request that is still out leaves a refresh that waits for it    *)
(* alone.                                                                  *)
LEMMA ClosedFacts ==
    ASSUME NEW t \in Balances, NEW job, Sound(job, t)
    PROVE  RefreshInv(Closed(job), t) /\ ~Closed(job).open /\ Closed(job).after = 0
<1> DEFINE rest == [job EXCEPT !.open = FALSE, !.xlm = None, !.after = 0]
<1>1. job \in Refresh
  BY DEF Sound
<1>2. /\ rest \in Refresh
      /\ ~rest.open /\ rest.after = 0 /\ rest.xlm.state = "none"
      /\ rest.wallet = job.wallet /\ rest.token = job.token
  <2>1. None \in Request /\ None.state = "none" /\ 0 \in 0 .. MaxChanges
    BY RequestFacts
  <2> QED
    BY <1>1, <2>1 DEF Refresh
<1> HIDE DEF rest
<1>3. CASE job.token.state \in {"asked", "answered"}
  <2>1. job.wallet \in Wallets /\ Known(job, t)
    BY <1>3 DEF Sound
  <2>2. t[job.wallet] \in Nat /\ job.after \in Nat /\ job.token.value \in Int
    BY <1>1, <2>1, RequestFacts DEF Balances, Refresh, Request
  <2>3. Known(rest, t)
    BY <1>2, <1>3, <2>1, <2>2 DEF Known
  <2>4. RefreshInv(rest, t)
    BY <1>2, <2>1, <2>3 DEF RefreshInv, Sound
  <2> QED
    BY <1>2, <1>3, <2>4 DEF Closed, rest
<1>4. CASE job.token.state \notin {"asked", "answered"}
  BY <1>4, NoRefreshFacts DEF Closed
<1> QED
  BY <1>3, <1>4

(* What is known stays known while balances change.                        *)
LEMMA KnownStays ==
    ASSUME NEW t \in Balances, NEW u \in Balances, \A a \in Wallets : t[a] <= u[a],
           NEW job, RefreshInv(job, t)
    PROVE  RefreshInv(job, u)
<1>1. job \in Refresh
  BY DEF RefreshInv, Sound
<1>2. ASSUME job.token.state # "none"
      PROVE  Known(job, u)
  <2>1. job.wallet \in Wallets /\ Known(job, t)
    BY <1>2 DEF RefreshInv, Sound
  <2>2. /\ t[job.wallet] \in Nat /\ u[job.wallet] \in Nat
        /\ t[job.wallet] <= u[job.wallet]
        /\ job.after \in Nat /\ job.token.value \in Int
    BY <1>1, <2>1, RequestFacts DEF Balances, Refresh, Request
  <2>3. CASE job.token.state = "asked"
    BY <2>1, <2>2, <2>3 DEF Known
  <2>4. CASE job.token.state = "answered"
    BY <2>1, <2>2, <2>4 DEF Known
  <2>5. CASE job.token.state = "here"
    BY <2>1, <2>2, <2>5 DEF Known
  <2>6. CASE job.token.state \notin {"asked", "answered", "here"}
    BY <2>6 DEF Known
  <2> QED
    BY <2>3, <2>4, <2>5, <2>6
<1> QED
  BY <1>2 DEF RefreshInv, Sound

-----------------------------------------------------------------------------
\* The refreshes together.

(* One refresh moves on; the cache, the error and the card follow it.      *)
LEMMA RefreshMoves ==
    ASSUME CardInv, NEW r \in Refreshes, NEW job, RefreshInv(job, token),
           Set(r, job), CacheInv(cache', token),
           balanceError' \in {"none", "unfunded", "failed"},
           balanceLoading' \in BOOLEAN,
           balanceLoading' => job.open \/ (balanceLoading /\ ~refresh[r].open),
           address' \in Wallets \cup {NoWallet}, WriteInv(write', token),
           UNCHANGED token
    PROVE  CardInv'
<1>1. job \in Refresh
  BY DEF RefreshInv, Sound
<1>2. /\ refresh' \in [Refreshes -> Refresh]
      /\ refresh'[r] = job
      /\ \A q \in Refreshes : q # r => refresh'[q] = refresh[q]
  BY <1>1 DEF Set, CardInv
<1>3. \A q \in Refreshes : RefreshInv(refresh'[q], token)
  BY <1>2 DEF CardInv
<1>4. balanceLoading' => \E q \in Refreshes : refresh'[q].open
  BY <1>2 DEF CardInv, LoadingInv
<1> QED
  BY <1>2, <1>3, <1>4 DEF CardInv, LoadingInv

(* An answer that comes to a refresh that waits.                           *)
LEMMA ArriveInv ==
    ASSUME CardInv, NEW r \in Refreshes, NEW job, Sound(job, token), job.open,
           Arrive(r, job), CacheInv(cache', token),
           UNCHANGED <<token, address, write>>
    PROVE  CardInv'
<1>2. /\ balanceError' \in {"none", "unfunded", "failed"}
      /\ balanceLoading' \in BOOLEAN
      /\ balanceLoading' => ~Complete(job)
  BY DEF Arrive, CardInv, LoadingInv
<1>3. address' \in Wallets \cup {NoWallet} /\ WriteInv(write', token) /\ token \in Balances
  BY DEF CardInv
<1>4. CASE Complete(job)
  <2>1. Set(r, Closed(job))
    BY <1>4 DEF Arrive, Close, Closed
  <2>2. RefreshInv(Closed(job), token)
    BY <1>3, ClosedFacts
  <2> QED
    BY <1>2, <1>3, <1>4, <2>1, <2>2, RefreshMoves
<1>5. CASE ~Complete(job)
  <2>1. Set(r, job) /\ RefreshInv(job, token)
    BY <1>5 DEF Arrive, RefreshInv
  <2> QED
    BY <1>2, <1>3, <2>1, RefreshMoves
<1> QED
  BY <1>4, <1>5

(* Horizon answers, or fails.                                              *)
LEMMA XlmInv ==
    ASSUME CardInv, NEW r \in Refreshes, TakeXlm(r) \/ FailXlm(r),
           UNCHANGED <<token, address, write>>
    PROVE  CardInv'
<1> DEFINE old == refresh[r]
           job == [old EXCEPT !.xlm.state = "here"]
<1>1. old \in Refresh /\ RefreshInv(old, token) /\ token \in Balances /\ old.xlm = Asked
  BY DEF CardInv, TakeXlm, FailXlm
<1>2. CacheInv(cache', token)
  BY DEF TakeXlm, FailXlm, CardInv
<1>3. CASE TakeXlm(r)
  <2>1. Arrive(r, job)
    BY <1>3 DEF TakeXlm
  <2>2. /\ job \in Refresh /\ job.xlm.state = "here" /\ job.open = old.open
        /\ job.token = old.token /\ job.wallet = old.wallet /\ job.after = old.after
    BY <1>1 DEF Refresh, Request
  <2>3. old.open
    BY <1>1, RequestFacts DEF RefreshInv, Sound
  <2> HIDE DEF job
  <2>4. Known(job, token) <=> Known(old, token)
    BY <2>2 DEF Known
  <2>5. Sound(job, token)
    BY <1>1, <2>2, <2>3, <2>4 DEF RefreshInv, Sound
  <2> QED
    BY <1>2, <2>1, <2>2, <2>3, <2>5, ArriveInv
<1>4. CASE FailXlm(r)
  <2>1. /\ Set(r, Closed(old))
        /\ balanceLoading' = FALSE /\ balanceError' = "failed"
        /\ card' = card
    BY <1>4 DEF FailXlm, Close, Closed
  <2>2. RefreshInv(Closed(old), token)
    BY <1>1, ClosedFacts DEF RefreshInv
  <2>3. address' \in Wallets \cup {NoWallet}
        /\ WriteInv(write', token)
    BY <2>1 DEF CardInv
  <2> QED
    BY <1>2, <2>1, <2>2, <2>3, RefreshMoves
<1> QED
  BY <1>3, <1>4

(* The RPC server answers with the balance of that moment.                 *)
LEMMA AnswerTokenInv ==
    ASSUME CardInv, NEW r \in Refreshes, AnswerToken(r),
           UNCHANGED <<token, address, write>>
    PROVE  CardInv'
<1> DEFINE old == refresh[r]
           value == token[old.wallet]
           answer == [state |-> "answered", value |-> value]
           job == [old EXCEPT !.token = answer]
<1>1. /\ old \in Refresh /\ RefreshInv(old, token) /\ token \in Balances
      /\ old.token.state = "asked"
  BY DEF CardInv, AnswerToken
<1>2. old.wallet \in Wallets /\ Known(old, token)
  BY <1>1 DEF RefreshInv, Sound
<1>3. value \in 1 .. MaxChanges /\ old.after <= value
  BY <1>1, <1>2 DEF Balances, Known
<1>4. answer \in Request
  BY <1>3, RequestFacts DEF Request
<1>5. /\ job \in Refresh /\ job.token = answer /\ job.open = old.open
      /\ job.xlm = old.xlm /\ job.wallet = old.wallet /\ job.after = old.after
  BY <1>1, <1>4 DEF Refresh
<1>6. /\ Set(r, job)
      /\ UNCHANGED <<card, balanceLoading, balanceError, cache>>
  BY DEF AnswerToken
<1>7. answer.state = "answered" /\ answer.value = value
  OBVIOUS
<1> HIDE DEF job, answer
<1>8. Known(job, token)
  BY <1>3, <1>5, <1>7, RequestFacts DEF Known
<1>9. RefreshInv(job, token)
  BY <1>1, <1>2, <1>5, <1>7, <1>8 DEF RefreshInv, Sound, Complete
<1>10. /\ CacheInv(cache', token) /\ WriteInv(write', token)
       /\ balanceError' \in {"none", "unfunded", "failed"}
       /\ balanceLoading' \in BOOLEAN /\ balanceLoading' = balanceLoading
       /\ address' \in Wallets \cup {NoWallet}
  BY <1>6 DEF CardInv, LoadingInv
<1> QED
  BY <1>5, <1>6, <1>9, <1>10, RefreshMoves

(* A balance, or the zero that stands for none, comes to whoever waits.    *)
LEMMA DeliverInv ==
    ASSUME CardInv, NEW r \in Refreshes, NEW value, Deliver(r, value),
           refresh[r].token.state # "none",
           value \in 0 .. token[refresh[r].wallet],
           value # 0 => refresh[r].after <= value,
           CacheInv(cache', token), UNCHANGED <<token, address, write>>
    PROVE  CardInv'
<1> DEFINE old == refresh[r]
           job == [old EXCEPT !.token = Here(value)]
<1>1. old \in Refresh /\ RefreshInv(old, token) /\ token \in Balances
  BY DEF CardInv
<1>2. old.wallet \in Wallets
  BY <1>1 DEF RefreshInv, Sound
<1>3. value \in Absent .. MaxChanges
  BY <1>1, <1>2, RequestFacts DEF Balances
<1>4. Here(value) \in Request /\ Here(value).state = "here" /\ Here(value).value = value
  BY <1>3, RequestFacts
<1>5. CASE old.open
  <2>1. Arrive(r, job)
    BY <1>5 DEF Deliver
  <2>2. /\ job \in Refresh /\ job.token = Here(value) /\ job.open = old.open
        /\ job.xlm = old.xlm /\ job.wallet = old.wallet /\ job.after = old.after
    BY <1>1, <1>4 DEF Refresh
  <2> HIDE DEF job
  <2>3. Known(job, token)
    BY <1>4, <2>2 DEF Known
  <2>4. Sound(job, token)
    BY <1>1, <1>2, <1>4, <2>2, <2>3 DEF RefreshInv, Sound
  <2> QED
    BY <1>5, <2>1, <2>2, <2>4, ArriveInv
<1>6. CASE ~old.open
  <2>1. Set(r, NoRefresh) /\ UNCHANGED <<card, balanceLoading, balanceError>>
    BY <1>6 DEF Deliver
  <2>2. /\ WriteInv(write', token)
        /\ balanceError' \in {"none", "unfunded", "failed"}
        /\ balanceLoading' \in BOOLEAN /\ balanceLoading' = balanceLoading
        /\ address' \in Wallets \cup {NoWallet}
    BY <2>1 DEF CardInv, LoadingInv
  <2> QED
    BY <1>6, <2>1, <2>2, NoRefreshFacts, RefreshMoves
<1> QED
  BY <1>5, <1>6

(* The token's answer is taken, or its request fails.                      *)
LEMMA TokenInv ==
    ASSUME CardInv, NEW r \in Refreshes, TakeToken(r) \/ FailToken(r),
           UNCHANGED <<token, address, write>>
    PROVE  CardInv'
<1> DEFINE old == refresh[r]
           value == old.token.value
<1>1. old \in Refresh /\ RefreshInv(old, token) /\ token \in Balances
  BY DEF CardInv
<1>2. old.token.state \in {"asked", "answered"}
  BY DEF TakeToken, FailToken
<1>3. old.wallet \in Wallets /\ Known(old, token)
  BY <1>1, <1>2 DEF RefreshInv, Sound
<1>4. token[old.wallet] \in 1 .. MaxChanges
  BY <1>1, <1>3 DEF Balances
<1>5. CASE TakeToken(r)
  <2>1. /\ cache' = [cache EXCEPT ![old.wallet] = value]
        /\ Deliver(r, value)
        /\ old.token.state = "answered"
    BY <1>5 DEF TakeToken
  <2>2. value \in 1 .. token[old.wallet] /\ old.after <= value
    BY <1>3, <2>1 DEF Known
  <2>3. value \in 0 .. token[old.wallet] /\ value \in Absent .. MaxChanges
    BY <1>4, <2>2, RequestFacts
  <2>4. CacheInv(cache', token)
    BY <1>3, <2>1, <2>2, <2>3 DEF CardInv, CacheInv
  <2> QED
    BY <1>2, <2>1, <2>2, <2>3, <2>4, DeliverInv
<1>6. CASE FailToken(r)
  <2>1. Deliver(r, 0) /\ CacheInv(cache', token)
    BY <1>6 DEF FailToken, CardInv
  <2>2. 0 \in 0 .. token[old.wallet]
    BY <1>4, RequestFacts
  <2> QED
    BY <1>2, <2>1, <2>2, DeliverInv
<1> QED
  BY <1>5, <1>6

(* A refresh begins with what the cache has, or asks for it.               *)
LEMMA StartInv ==
    ASSUME CardInv, NEW r \in Refreshes, NEW a \in Wallets,
           NEW after \in 0 .. MaxChanges, NEW c, CacheInv(c, token),
           after <= token[a], after # 0 => c[a] = Absent,
           StartRefresh(r, a, after, c),
           address' \in Wallets \cup {NoWallet}, WriteInv(write', token),
           UNCHANGED <<token, card>>
    PROVE  CardInv'
<1> DEFINE request == IF c[a] = Absent THEN Asked ELSE Here(c[a])
           job == [wallet |-> a, open |-> TRUE, xlm |-> Asked, after |-> after,
                   token |-> request]
<1>1. /\ cache' = c /\ balanceLoading' = TRUE /\ balanceError' = "none"
      /\ Set(r, job)
  BY DEF StartRefresh
<1>2. token[a] \in 1 .. MaxChanges
  BY DEF CardInv, Balances
<1>3. c[a] # Absent => c[a] \in 1 .. token[a] /\ c[a] \in Absent .. MaxChanges
  BY DEF CacheInv
<1>4. /\ request \in Request
      /\ \/ request.state = "asked"
         \/ request.state = "here" /\ request.value = c[a] /\ c[a] # Absent
  BY <1>3, RequestFacts
<1> HIDE DEF request
<1>5. /\ job \in Refresh /\ job.token = request /\ job.open /\ job.xlm = Asked
      /\ job.wallet = a /\ job.after = after
  BY <1>4, RequestFacts DEF Refresh
<1> HIDE DEF job
<1>6. Known(job, token)
  BY <1>2, <1>3, <1>4, <1>5, RequestFacts DEF Known
<1>7. RefreshInv(job, token)
  BY <1>4, <1>5, <1>6, RequestFacts DEF RefreshInv, Sound, Complete
<1>8. CacheInv(cache', token)
  BY <1>1 DEF CardInv
<1> QED
  BY <1>1, <1>5, <1>7, <1>8, RefreshMoves

(* Connecting, asking again and a success each start a refresh; the one    *)
(* after a settle finds the cache empty.                                   *)
LEMMA StartsInv ==
    ASSUME CardInv, NEW r \in Refreshes,
           \/ \E a \in Wallets : Connect(r, a)
           \/ AskAgain(r) \/ SettleSucceeds(r) \/ SplitSucceeds(r)
    PROVE  CardInv'
<1>1. /\ CacheInv(cache, token) /\ WriteInv(write, token) /\ token \in Balances
      /\ address \in Wallets \cup {NoWallet}
  BY DEF CardInv
<1>2. 0 \in 0 .. MaxChanges /\ \A a \in Wallets : 0 <= token[a]
  BY <1>1, RequestFacts DEF Balances
<1>3. WriteInv(NoWrite, token)
  BY RequestFacts DEF WriteInv, Write, NoWrite
<1>4. CASE \E a \in Wallets : Connect(r, a)
  BY <1>1, <1>2, <1>4, StartInv DEF Connect
<1>5. CASE AskAgain(r)
  BY <1>1, <1>2, <1>5, StartInv DEF AskAgain
<1>6. CASE SplitSucceeds(r)
  <2>1. write.wallet \in Wallets
    BY <1>1, <1>6 DEF SplitSucceeds, WriteInv, NoWrite
  <2> QED
    BY <1>1, <1>2, <1>3, <1>6, <2>1, StartInv DEF SplitSucceeds
<1>7. CASE SettleSucceeds(r)
  <2>1. /\ write.wallet \in Wallets /\ write.led \in 0 .. MaxChanges
        /\ write.led <= token[write.wallet]
    BY <1>1, <1>7 DEF SettleSucceeds, WriteInv, NoWrite, Write
  <2>2. /\ CacheInv(ForgetBalances, token)
        /\ \A a \in Wallets : ForgetBalances[a] = Absent
    BY RequestFacts DEF ForgetBalances, CacheInv
  <2> QED
    BY <1>1, <1>3, <1>7, <2>1, <2>2, StartInv DEF SettleSucceeds
<1> QED
  BY <1>4, <1>5, <1>6, <1>7

(* A balance changes; the settle under way has led to it, or has not.      *)
LEMMA TokenMovesInv ==
    ASSUME CardInv, NEW a \in Wallets, TokenMoves(a)
    PROVE  CardInv'
<1>1. token \in Balances /\ token' = [token EXCEPT ![a] = @ + 1] /\ token[a] < MaxChanges
  BY DEF TokenMoves, CardInv
<1>2. token' \in Balances /\ \A b \in Wallets : token[b] <= token'[b]
  BY <1>1, RequestFacts DEF Balances
<1>3. UNCHANGED <<address, card, balanceLoading, balanceError, cache, refresh>>
  BY DEF TokenMoves
<1>4. \A r \in Refreshes : RefreshInv(refresh'[r], token')
  BY <1>1, <1>2, <1>3, KnownStays DEF CardInv
<1>5. CacheInv(cache', token')
  <2> SUFFICES ASSUME NEW b \in Wallets
               PROVE  cache[b] \in {Absent} \cup 1 .. token'[b]
    BY <1>3 DEF CardInv, CacheInv
  <2>1. cache[b] \in {Absent} \cup 1 .. token[b]
    BY DEF CardInv, CacheInv
  <2>2. token[b] \in Nat /\ token'[b] \in Nat /\ token[b] <= token'[b]
    BY <1>1, <1>2 DEF Balances
  <2> QED
    BY <2>1, <2>2
<1>6. WriteInv(write', token')
  <2>1. WriteInv(write, token)
    BY DEF CardInv
  <2>2. CASE UNCHANGED write
    <3>1. ASSUME write.led # 0
          PROVE  write.led <= token'[write.wallet]
      <4>1. write.wallet \in Wallets /\ write.led <= token[write.wallet]
        BY <2>1, <3>1 DEF WriteInv, NoWrite
      <4>2. /\ write.led \in Nat
            /\ token[write.wallet] \in Nat /\ token'[write.wallet] \in Nat
            /\ token[write.wallet] <= token'[write.wallet]
        BY <1>1, <1>2, <2>1, <4>1 DEF WriteInv, Write, Balances
      <4> QED
        BY <4>1, <4>2
    <3> QED
      BY <2>1, <2>2, <3>1 DEF WriteInv
  <2>3. CASE write.wallet = a /\ write' = [write EXCEPT !.led = token'[a]]
    <3>1. token'[a] \in 0 .. MaxChanges /\ token'[a] # 0
      BY <1>2 DEF Balances
    <3>2. write' \in Write /\ write'.wallet = a /\ write'.led = token'[a]
      BY <2>1, <2>3, <3>1 DEF WriteInv, Write
    <3>3. token'[a] <= token'[a]
      BY <3>1
    <3> QED
      BY <3>2, <3>3 DEF WriteInv
  <2> QED
    BY <2>2, <2>3 DEF TokenMoves
<1> QED
  BY <1>2, <1>3, <1>4, <1>5, <1>6 DEF CardInv, LoadingInv

(* Nothing is shown and nothing is asked for at first.                     *)
LEMMA CardInitInv == CardInit => CardInv
<1> SUFFICES ASSUME CardInit
             PROVE  CardInv
  OBVIOUS
<1>1. token \in Balances
  BY RequestFacts DEF CardInit, Balances
<1>2. CacheInv(cache, token)
  BY RequestFacts DEF CardInit, CacheInv
<1>3. WriteInv(write, token)
  BY RequestFacts DEF CardInit, WriteInv, Write, NoWrite
<1>4. /\ refresh \in [Refreshes -> Refresh]
      /\ \A r \in Refreshes : RefreshInv(refresh[r], token)
  <2>1. \A r \in Refreshes : refresh[r] = NoRefresh
    BY DEF CardInit
  <2>2. NoRefresh \in Refresh
    BY RequestFacts DEF NoRefresh, Refresh
  <2> QED
    BY <2>1, <2>2, NoRefreshFacts DEF CardInit
<1> QED
  BY <1>1, <1>2, <1>3, <1>4 DEF CardInit, CardInv, LoadingInv

(* Every step keeps CardInv.                                               *)
LEMMA CardStepInv == CardInv /\ [CardNext]_cardVars => CardInv'
<1> SUFFICES ASSUME CardInv, [CardNext]_cardVars
             PROVE  CardInv'
  OBVIOUS
<1>1. ASSUME NEW r \in Refreshes, RefreshStep(r)
      PROVE  CardInv'
  BY <1>1, XlmInv, AnswerTokenInv, TokenInv DEF RefreshStep
<1>2. ASSUME NEW r \in Refreshes,
             \/ \E a \in Wallets : Connect(r, a)
             \/ AskAgain(r) \/ SettleSucceeds(r) \/ SplitSucceeds(r)
      PROVE  CardInv'
  BY <1>2, StartsInv
<1>3. CASE Disconnect
  BY <1>3 DEF Disconnect, CardInv, LoadingInv
<1>4. ASSUME NEW call \in {"split", "settle"}, BeginWrite(call)
      PROVE  CardInv'
  <2>1. write' = [NoWrite EXCEPT !.call = call, !.wallet = address]
        /\ address \in Wallets
    BY <1>4 DEF BeginWrite, CardInv
  <2>2. write' = [call |-> call, wallet |-> address, led |-> 0]
    BY <2>1 DEF NoWrite
  <2>3. write' \in Write /\ write'.led = 0 /\ write'.wallet \in Wallets
    <3>1. 0 \in 0 .. MaxChanges /\ call \in {"none", "split", "settle"}
      BY <1>4, RequestFacts
    <3>2. [call |-> call, wallet |-> address, led |-> 0] \in Write
      BY <2>1, <3>1 DEF Write
    <3>3. write'.led = 0 /\ write'.wallet = address
      BY <2>2
    <3> QED
      BY <2>1, <2>2, <3>2, <3>3
  <2>4. WriteInv(write', token)
    BY <2>3 DEF WriteInv
  <2> QED
    BY <1>4, <2>4 DEF BeginWrite, CardInv
<1>5. CASE WriteFails
  <2>1. WriteInv(NoWrite, token)
    BY RequestFacts DEF WriteInv, Write, NoWrite
  <2> QED
    BY <1>5, <2>1 DEF WriteFails, CardInv
<1>6. ASSUME NEW a \in Wallets, Expire(a)
      PROVE  CardInv'
  <2>1. CacheInv(cache', token)
    BY <1>6, RequestFacts DEF Expire, CardInv, CacheInv
  <2> QED
    BY <1>6, <2>1 DEF Expire, CardInv
<1>7. CASE UNCHANGED cardVars
  BY <1>7 DEF cardVars, CardInv
<1> QED
  BY <1>1, <1>2, <1>3, <1>4, <1>5, <1>6, <1>7, TokenMovesInv DEF CardNext

(* Every reachable state of the card has CardInv.                          *)
THEOREM CardInvariant == CardSpec => []CardInv
  BY CardInitInv, CardStepInv, PTL DEF CardSpec

(* What is cached was a balance, and whoever waits has something to wait   *)
(* for.                                                                    *)
THEOREM CardTypeCorrect == CardSpec => []CardTypeOK
<1>1. CardInv => CardTypeOK
  BY DEF CardInv, CardTypeOK, CacheInv, LoadingInv, RefreshInv, Sound, Refresh,
     Complete
<1> QED
  BY <1>1, CardInvariant, PTL

-----------------------------------------------------------------------------
\* Whose balances are shown.

\* Wallets whose balances are shown or may be.
Shown == UnderWay \cup {card.of}

OwnedInv == Shown \subseteq {NoWallet, address} \cup left

(* One refresh moves on for its wallet, or begins for one.                 *)
LEMMA UnderWayMoves ==
    ASSUME CardInv, NEW r \in Refreshes, NEW job, Set(r, job),
           NEW w, w \in UnderWay'
    PROVE  \/ w \in UnderWay
           \/ job.open /\ w = job.wallet
           \/ w = write'.wallet
<1>1. /\ refresh'[r] = job
      /\ \A q \in Refreshes : q # r => refresh'[q] = refresh[q]
  BY DEF Set, CardInv
<1>2. CASE \E q \in Refreshes : refresh'[q].open /\ w = refresh'[q].wallet
  BY <1>1, <1>2 DEF UnderWay
<1>3. CASE w = write'.wallet
  BY <1>3
<1> QED
  BY <1>2, <1>3 DEF UnderWay

(* An open refresh is under way, and so is the write.                      *)
LEMMA UnderWayHas ==
    /\ \A r \in Refreshes : refresh[r].open => refresh[r].wallet \in UnderWay
    /\ write.wallet \in UnderWay \cup {NoWallet}
  BY DEF UnderWay

(* What happens to a refresh brings no other wallet into play.             *)
LEMMA RefreshStepShown ==
    ASSUME CardInv, NEW r \in Refreshes, RefreshStep(r)
    PROVE  Shown' \subseteq Shown \cup {NoWallet}
<1> DEFINE old == refresh[r]
<1>1. old \in Refresh /\ RefreshInv(old, token) /\ UNCHANGED write
  BY DEF CardInv, RefreshStep
<1>2. old.open <=> old.xlm.state # "none"
  BY <1>1 DEF RefreshInv, Sound
<1>3. ASSUME NEW job, Set(r, job), job.open => old.open /\ job.wallet = old.wallet,
             card'.of = card.of \/ (old.open /\ card'.of = old.wallet)
      PROVE  Shown' \subseteq Shown \cup {NoWallet}
  <2>1. ASSUME NEW w \in UnderWay'
        PROVE  w \in UnderWay \cup {NoWallet}
    BY <1>1, <1>3, <2>1, UnderWayMoves, UnderWayHas
  <2>2. card'.of \in Shown
    BY <1>3, UnderWayHas DEF Shown
  <2> QED
    BY <2>1, <2>2 DEF Shown
<1>4. ASSUME NEW job, "open" \in DOMAIN job, job.open = old.open,
             job.wallet = old.wallet, old.open, Arrive(r, job)
      PROVE  Shown' \subseteq Shown \cup {NoWallet}
  <2>1. card'.of = card.of \/ card'.of = old.wallet
    BY <1>4 DEF Arrive, Displayed
  <2>2. ~Closed(job).open
    <3>1. job.token.state \in {"asked", "answered"}
            => ~[job EXCEPT !.open = FALSE, !.xlm = None, !.after = 0].open
      BY <1>4
    <3> QED
      BY <3>1, NoRefreshFacts DEF Closed
  <2>3. Set(r, Closed(job)) \/ Set(r, job)
    BY <1>4 DEF Arrive, Close, Closed
  <2> QED
    BY <1>3, <1>4, <2>1, <2>2, <2>3
<1>5. CASE TakeXlm(r)
  <2> DEFINE job == [old EXCEPT !.xlm.state = "here"]
  <2>1. Arrive(r, job) /\ old.xlm = Asked
    BY <1>5 DEF TakeXlm
  <2>2. old.open /\ job.open = old.open /\ job.wallet = old.wallet
    BY <1>1, <1>2, <2>1, RequestFacts DEF Refresh
  <2>3. "open" \in DOMAIN job
    BY <1>1 DEF Refresh
  <2> HIDE DEF job
  <2> QED
    BY <1>4, <2>1, <2>2, <2>3
<1>6. CASE FailXlm(r)
  <2>1. Set(r, Closed(old)) /\ card' = card
    BY <1>6 DEF FailXlm, Close, Closed
  <2>2. ~Closed(old).open
    BY <1>1, ClosedFacts DEF RefreshInv, CardInv
  <2> QED
    BY <1>3, <2>1, <2>2
<1>7. CASE AnswerToken(r)
  <2> DEFINE job == [old EXCEPT !.token = [state |-> "answered",
                                           value |-> token[old.wallet]]]
  <2>1. Set(r, job) /\ card' = card
    BY <1>7 DEF AnswerToken
  <2>2. job.open = old.open /\ job.wallet = old.wallet
    BY <1>1 DEF Refresh
  <2> HIDE DEF job
  <2> QED
    BY <1>3, <2>1, <2>2
<1>8. CASE TakeToken(r) \/ FailToken(r)
  <2>1. PICK value : Deliver(r, value)
    BY <1>8 DEF TakeToken, FailToken
  <2> DEFINE job == [old EXCEPT !.token = Here(value)]
  <2>2. CASE old.open
    <3>1. Arrive(r, job)
      BY <2>1, <2>2 DEF Deliver
    <3>2. job.open = old.open /\ job.wallet = old.wallet
      BY <1>1 DEF Refresh
    <3>3. "open" \in DOMAIN job
      BY <1>1 DEF Refresh
    <3> HIDE DEF job
    <3> QED
      BY <1>4, <2>2, <3>1, <3>2, <3>3
  <2>3. CASE ~old.open
    <3>1. Set(r, NoRefresh) /\ card' = card
      BY <2>1, <2>3 DEF Deliver
    <3> QED
      BY <1>3, <3>1, NoRefreshFacts
  <2> QED
    BY <2>2, <2>3
<1> QED
  BY <1>5, <1>6, <1>7, <1>8 DEF RefreshStep

(* A refresh begins for the connected wallet or for that of a write.       *)
LEMMA StartsShown ==
    ASSUME CardInv, NEW r \in Refreshes,
           \/ \E a \in Wallets : Connect(r, a)
           \/ AskAgain(r) \/ SettleSucceeds(r) \/ SplitSucceeds(r)
    PROVE  /\ Shown' \subseteq Shown \cup {NoWallet, address'}
           /\ address = NoWallet \/ address' = address
<1>1. ASSUME NEW a, NEW after, NEW c, StartRefresh(r, a, after, c),
             a \in {address'} \cup Shown \cup {NoWallet},
             write'.wallet \in Shown \cup {NoWallet}, card' = card
      PROVE  Shown' \subseteq Shown \cup {NoWallet, address'}
  <2>1. PICK request : Set(r, [wallet |-> a, open |-> TRUE, xlm |-> Asked,
                               after |-> after, token |-> request])
    BY <1>1 DEF StartRefresh
  <2>2. ASSUME NEW w \in UnderWay'
        PROVE  w \in UnderWay \cup {a, write'.wallet}
    BY <2>1, <2>2, UnderWayMoves
  <2> QED
    BY <1>1, <2>2 DEF Shown
<1>2. write.wallet \in Shown \cup {NoWallet} /\ NoWrite.wallet = NoWallet
  BY UnderWayHas DEF Shown, NoWrite
<1>3. ASSUME NEW a \in Wallets, Connect(r, a)
      PROVE  Shown' \subseteq Shown \cup {NoWallet, address'} /\ address = NoWallet
  BY <1>1, <1>2, <1>3 DEF Connect
<1>4. CASE AskAgain(r)
  BY <1>1, <1>2, <1>4 DEF AskAgain
<1>5. CASE SettleSucceeds(r)
  BY <1>1, <1>2, <1>5 DEF SettleSucceeds
<1>6. CASE SplitSucceeds(r)
  BY <1>1, <1>2, <1>6 DEF SplitSucceeds
<1> QED
  BY <1>3, <1>4, <1>5, <1>6

(* Whatever goes on, only the connected wallet comes into play.            *)
LEMMA GoesOnShown ==
    ASSUME CardInv, CardGoesOn
    PROVE  /\ Shown' \subseteq Shown \cup {NoWallet, address'}
           /\ address = NoWallet \/ address' = address
<1>1. ASSUME NEW r \in Refreshes, RefreshStep(r)
      PROVE  Shown' \subseteq Shown \cup {NoWallet} /\ address' = address
  BY <1>1, RefreshStepShown DEF RefreshStep
<1>2. ASSUME NEW call \in {"split", "settle"}, BeginWrite(call)
      PROVE  Shown' \subseteq Shown \cup {address'} /\ address' = address
  <2>1. write'.wallet = address /\ UNCHANGED <<refresh, card, address>>
    BY <1>2 DEF BeginWrite, NoWrite
  <2> QED
    BY <2>1 DEF Shown, UnderWay
<1>3. ASSUME WriteFails
      PROVE  Shown' \subseteq Shown /\ address' = address
  <2>1. write'.wallet = NoWallet /\ UNCHANGED <<refresh, card, address>>
    BY <1>3 DEF WriteFails, NoWrite
  <2> QED
    BY <2>1 DEF Shown, UnderWay
<1>4. ASSUME NEW a \in Wallets, Expire(a) \/ TokenMoves(a)
      PROVE  Shown' \subseteq Shown /\ address' = address
  <2>1. write'.wallet = write.wallet
    BY <1>4 DEF Expire, TokenMoves, CardInv, WriteInv, Write
  <2>2. UNCHANGED <<refresh, card, address>>
    BY <1>4 DEF Expire, TokenMoves
  <2> QED
    BY <2>1, <2>2 DEF Shown, UnderWay
<1> QED
  BY <1>1, <1>2, <1>3, <1>4, StartsShown DEF CardGoesOn

(* The balances shown are the connected wallet's, or those of a wallet     *)
(* that was disconnected in the middle of a refresh or a write of its own, *)
(* however many of them overlap and however wallets are switched.          *)
THEOREM CardIsAlwaysYours == AuditSpec => []CardIsYours
<1>1. AuditInit => CardInit /\ OwnedInv
  <2> SUFFICES ASSUME AuditInit
               PROVE  CardInit /\ OwnedInv
    OBVIOUS
  <2>1. /\ \A r \in Refreshes : ~refresh[r].open
        /\ write.wallet = NoWallet /\ card.of = NoWallet
    BY NoRefreshFacts DEF AuditInit, CardInit, NoWrite, EmptyCard
  <2> QED
    BY <2>1 DEF AuditInit, OwnedInv, Shown, UnderWay
<1>2. [AuditNext]_auditVars => [CardNext]_cardVars
  BY DEF AuditNext, WalletLeaves, CardGoesOn, CardNext, auditVars
<1>3. CardInv /\ OwnedInv /\ [AuditNext]_auditVars => OwnedInv'
  <2> SUFFICES ASSUME CardInv, OwnedInv, [AuditNext]_auditVars
               PROVE  OwnedInv'
    OBVIOUS
  <2>1. CASE WalletLeaves
    <3>1. card'.of = NoWallet /\ left' = UnderWay /\ UNCHANGED <<refresh, write>>
      BY <2>1 DEF WalletLeaves, Disconnect, EmptyCard
    <3>2. UnderWay' = UnderWay
      BY <3>1 DEF UnderWay
    <3> QED
      BY <3>1, <3>2 DEF OwnedInv, Shown
  <2>2. CASE CardGoesOn
    <3> SUFFICES ASSUME NEW w \in Shown', w # NoWallet, w # address'
                 PROVE  w \in left'
      BY DEF OwnedInv
    <3>1. /\ w \in Shown
          /\ address = NoWallet \/ address' = address
      BY <2>2, GoesOnShown
    <3>2. w \in left
      BY <3>1 DEF OwnedInv
    <3>3. left' = left \cap Shown'
      BY <2>2 DEF CardGoesOn, Shown
    <3> QED
      BY <3>2, <3>3
  <2>3. CASE UNCHANGED auditVars
    <3>1. UNCHANGED <<refresh, write, card, address, left>>
      BY <2>3 DEF auditVars, cardVars
    <3> QED
      BY <3>1 DEF OwnedInv, Shown, UnderWay
  <2> QED
    BY <2>1, <2>2, <2>3 DEF AuditNext
<1>4. OwnedInv => CardIsYours
  BY DEF OwnedInv, Shown, CardIsYours
<1> QED
  BY <1>1, <1>2, <1>3, <1>4, CardInitInv, CardStepInv, PTL DEF AuditSpec

-----------------------------------------------------------------------------
\* What the refresh after a settle shows.

(* A refresh that follows a settle and ends with this step shows what the  *)
(* settle has led to, or more, or has been told nothing.                   *)
Shows(r) ==
    (refresh[r].after # 0 /\ ~refresh'[r].open)
      => \/ balanceError' = "failed"
         \/ card'.token = 0
         \/ card'.token >= refresh[r].after

(* The last answer ends it.                                                *)
LEMMA ArriveShows ==
    ASSUME CardInv, NEW r \in Refreshes, NEW job, job.open, Arrive(r, job),
           job.token.state = "here" => job.token.value = 0 \/
                                       job.token.value >= refresh[r].after
    PROVE  Shows(r)
<1>1. CASE Complete(job)
  BY <1>1 DEF Arrive, Displayed, Complete, Shows
<1>2. CASE ~Complete(job)
  BY <1>2 DEF Arrive, Set, CardInv, Shows
<1> QED
  BY <1>1, <1>2

(* Whatever step a refresh makes.                                          *)
LEMMA RefreshStepShows ==
    ASSUME CardInv, NEW r \in Refreshes, RefreshStep(r)
    PROVE  Shows(r)
<1> DEFINE old == refresh[r]
<1>1. /\ old \in Refresh /\ token \in Balances /\ Sound(old, token)
      /\ refresh \in [Refreshes -> Refresh]
  BY DEF CardInv, RefreshInv
<1>2. old.after # 0 => old.open
  BY <1>1 DEF Sound
<1>3. old.after \in Nat /\ old.token.value \in Int
  BY <1>1, RequestFacts DEF Refresh, Request
<1>4. CASE TakeXlm(r)
  <2> DEFINE job == [old EXCEPT !.xlm.state = "here"]
  <2>1. Arrive(r, job)
    BY <1>4 DEF TakeXlm
  <2>2. job.open = old.open /\ job.token = old.token
    BY <1>1 DEF Refresh
  <2>3. old.open
    BY <1>1, <1>4, RequestFacts DEF TakeXlm, Sound
  <2> HIDE DEF job
  <2>4. old.token.state = "here" => old.token.value = 0 \/ old.token.value >= old.after
    BY <1>1, <1>3 DEF Sound, Known
  <2> QED
    BY <2>1, <2>2, <2>3, <2>4, ArriveShows
<1>5. CASE FailXlm(r)
  BY <1>5 DEF FailXlm, Shows
<1>6. CASE AnswerToken(r)
  <2>1. refresh'[r].open = old.open
    BY <1>1, <1>6 DEF AnswerToken, Set, Refresh
  <2> QED
    BY <1>2, <2>1 DEF Shows
<1>7. ASSUME NEW value, Deliver(r, value), value = 0 \/ value >= old.after
      PROVE  Shows(r)
  <2> DEFINE job == [old EXCEPT !.token = Here(value)]
  <2>1. CASE old.open
    <3>1. Arrive(r, job)
      BY <1>7, <2>1 DEF Deliver
    <3>2. job.open = old.open /\ job.token = Here(value)
      BY <1>1 DEF Refresh
    <3>3. Here(value).value = value
      BY DEF Here
    <3> HIDE DEF job
    <3> QED
      BY <1>7, <2>1, <3>1, <3>2, <3>3, ArriveShows
  <2>2. CASE ~old.open
    BY <1>2, <2>2 DEF Shows
  <2> QED
    BY <2>1, <2>2
<1>8. CASE TakeToken(r)
  <2>1. Deliver(r, old.token.value) /\ old.token.state = "answered"
    BY <1>8 DEF TakeToken
  <2>2. old.token.value >= old.after
    BY <1>1, <1>3, <2>1 DEF Sound, Known
  <2> QED
    BY <1>7, <2>1, <2>2
<1>9. CASE FailToken(r)
  BY <1>7, <1>9 DEF FailToken
<1> QED
  BY <1>4, <1>5, <1>6, <1>8, <1>9 DEF RefreshStep

(* What happens to a refresh under way is a step of its own.               *)
LEMMA OnlyItsOwnSteps ==
    ASSUME CardInv, [CardNext]_cardVars, NEW r \in Refreshes,
           refresh[r] # NoRefresh, refresh'[r] # refresh[r]
    PROVE  RefreshStep(r)
<1>1. refresh \in [Refreshes -> Refresh]
  BY DEF CardInv
<1>2. ASSUME NEW q \in Refreshes, q # r, RefreshStep(q)
      PROVE  refresh'[r] = refresh[r]
  BY <1>1, <1>2 DEF RefreshStep, TakeXlm, FailXlm, AnswerToken, TakeToken,
     FailToken, Deliver, Arrive, Close, Set
<1>3. ASSUME NEW q \in Refreshes, NEW a, NEW after, NEW c,
             StartRefresh(q, a, after, c)
      PROVE  refresh'[r] = refresh[r]
  BY <1>1, <1>3 DEF StartRefresh, Set
<1> QED
  BY <1>2, <1>3 DEF CardNext, Connect, AskAgain, SettleSucceeds, SplitSucceeds,
     Disconnect, WriteFails, BeginWrite, Expire, TokenMoves, cardVars

(* "Settle moves stable-token balance, so invalidate those reads": the     *)
(* refresh that follows a settle shows the balance the settle has led to,  *)
(* or a later one, unless a request of its own fails.                      *)
THEOREM SettleAlwaysShowsInCard == CardSpec => SettleShowsInCard
<1>1. ASSUME CardInv, [CardNext]_cardVars, NEW r \in Refreshes
      PROVE  Shows(r)
  <2>1. CASE refresh'[r] = refresh[r]
    <3>1. refresh[r].after # 0 => refresh[r].open
      BY <1>1 DEF CardInv, RefreshInv, Sound
    <3> QED
      BY <2>1, <3>1 DEF Shows
  <2>2. CASE refresh[r] = NoRefresh
    BY <2>2, NoRefreshFacts DEF Shows
  <2> QED
    BY <1>1, <2>1, <2>2, OnlyItsOwnSteps, RefreshStepShows
<1>2. CardInv /\ [CardNext]_cardVars =>
        [ \A r \in Refreshes :
            LET job == refresh[r] IN
            (job.after # 0 /\ ~refresh'[r].open)
              => \/ balanceError' = "failed"
                 \/ card'.token = 0
                 \/ card'.token >= job.after ]_cardVars
  BY <1>1 DEF Shows
<1> QED
  BY <1>2, CardInvariant, PTL DEF CardSpec, SettleShowsInCard

-----------------------------------------------------------------------------
\* A refresh comes nearer to its end.

\* What the servers, or a failure, still have to do for a refresh: Horizon to
\* answer, the RPC server to answer and its answer to come.
XlmLeft(request) == IF request = Asked THEN 1 ELSE 0

TokenLeft(request) ==
    CASE request.state = "asked"    -> 2
      [] request.state = "answered" -> 1
      [] OTHER                      -> 0

StepsLeft(job) == XlmLeft(job.xlm) + TokenLeft(job.token)

(* No refresh asks the same thing twice: whatever happens to one, with one *)
(* of its answers here or not, leaves less to wait for, whichever other    *)
(* refreshes, wallets and writes come in between.                          *)
RefreshesComeNearer ==
    [][ \A r \in Refreshes :
          refresh[r] # NoRefresh =>
             \/ refresh'[r] = refresh[r]
             \/ StepsLeft(refresh'[r]) < StepsLeft(refresh[r]) ]_cardVars

(* What is left is a number, and nothing is left of a refresh that is over *)
(* or of a request whose answer is here.                                   *)
LEMMA LeftFacts ==
    /\ \A request : XlmLeft(request) \in {0, 1} /\ TokenLeft(request) \in {0, 1, 2}
    /\ XlmLeft(Asked) = 1 /\ XlmLeft(None) = 0 /\ StepsLeft(NoRefresh) = 0
    /\ \A request : request.state \in {"here", "none"}
                      => XlmLeft(request) = 0 /\ TokenLeft(request) = 0
<1>1. \A request : XlmLeft(request) \in {0, 1} /\ TokenLeft(request) \in {0, 1, 2}
  BY DEF XlmLeft, TokenLeft
<1>2. XlmLeft(Asked) = 1 /\ XlmLeft(None) = 0
  BY RequestFacts DEF XlmLeft
<1>3. \A request : request.state \in {"here", "none"}
                     => XlmLeft(request) = 0 /\ TokenLeft(request) = 0
  BY RequestFacts DEF XlmLeft, TokenLeft
<1>4. StepsLeft(NoRefresh) = 0
  <2>1. NoRefresh.xlm = None /\ NoRefresh.token = None /\ None.state = "none"
    BY RequestFacts DEF NoRefresh
  <2> QED
    BY <1>3, <2>1 DEF StepsLeft
<1> QED
  BY <1>1, <1>2, <1>3, <1>4

(* A refresh whose outcome is known waits at most for the token.           *)
LEMMA ClosedLeft ==
    ASSUME NEW r \in Refreshes, NEW job \in Refresh, Close(r, job),
           refresh \in [Refreshes -> Refresh]
    PROVE  StepsLeft(refresh'[r]) = TokenLeft(job.token)
<1> DEFINE rest == [job EXCEPT !.open = FALSE, !.xlm = None, !.after = 0]
<1>1. rest.xlm = None /\ rest.token = job.token
  BY DEF Refresh
<1>2. refresh'[r] = IF job.token.state \in {"asked", "answered"}
                    THEN rest ELSE NoRefresh
  BY DEF Close, Set
<1> HIDE DEF rest
<1>3. CASE job.token.state \in {"asked", "answered"}
  <2>1. refresh'[r].xlm = None /\ refresh'[r].token = job.token
    BY <1>1, <1>2, <1>3
  <2>2. StepsLeft(refresh'[r]) = 0 + TokenLeft(job.token)
    BY <2>1, LeftFacts DEF StepsLeft
  <2> QED
    BY <2>2, LeftFacts
<1>4. CASE job.token.state \notin {"asked", "answered"}
  <2>1. TokenLeft(job.token) = 0
    BY <1>4 DEF TokenLeft
  <2> QED
    BY <1>2, <1>4, <2>1, LeftFacts
<1> QED
  BY <1>3, <1>4

(* An answer that is here leaves what the refresh still lacks.             *)
LEMMA ArriveLeft ==
    ASSUME NEW r \in Refreshes, NEW job \in Refresh, Arrive(r, job),
           refresh \in [Refreshes -> Refresh]
    PROVE  StepsLeft(refresh'[r]) = XlmLeft(job.xlm) + TokenLeft(job.token)
<1>1. CASE Complete(job)
  <2>1. StepsLeft(refresh'[r]) = TokenLeft(job.token)
    BY <1>1, ClosedLeft DEF Arrive
  <2>2. XlmLeft(job.xlm) = 0 /\ TokenLeft(job.token) = 0
    BY <1>1, LeftFacts DEF Complete
  <2> QED
    BY <2>1, <2>2
<1>2. CASE ~Complete(job)
  <2>1. refresh'[r] = job
    BY <1>2 DEF Arrive, Set
  <2> QED
    BY <2>1 DEF StepsLeft
<1> QED
  BY <1>1, <1>2

(* Whatever step a refresh makes.                                          *)
LEMMA RefreshStepIsNearer ==
    ASSUME CardInv, NEW r \in Refreshes, RefreshStep(r)
    PROVE  StepsLeft(refresh'[r]) < StepsLeft(refresh[r])
<1> DEFINE old == refresh[r]
           awaited == XlmLeft(old.xlm) + TokenLeft(old.token)
<1>1. /\ refresh \in [Refreshes -> Refresh] /\ old \in Refresh
      /\ StepsLeft(old) = awaited
      /\ XlmLeft(old.xlm) \in {0, 1} /\ TokenLeft(old.token) \in {0, 1, 2}
  BY LeftFacts DEF CardInv, StepsLeft
<1>2. CASE TakeXlm(r)
  <2> DEFINE job == [old EXCEPT !.xlm.state = "here"]
  <2>1. Arrive(r, job) /\ XlmLeft(old.xlm) = 1
    BY <1>2, LeftFacts DEF TakeXlm
  <2>2. job \in Refresh /\ job.xlm.state = "here" /\ job.token = old.token
    <3>1. old.xlm \in Request
      BY <1>1 DEF Refresh
    <3>2. [old.xlm EXCEPT !.state = "here"] \in Request
      BY <3>1 DEF Request
    <3>3. [old.xlm EXCEPT !.state = "here"].state = "here"
      BY <3>1 DEF Request
    <3> QED
      BY <1>1, <3>2, <3>3 DEF Refresh
  <2> HIDE DEF job, old
  <2>3. StepsLeft(refresh'[r]) = XlmLeft(job.xlm) + TokenLeft(job.token)
    BY <1>1, <2>1, <2>2, ArriveLeft
  <2>4. XlmLeft(job.xlm) = 0
    BY <2>2, LeftFacts
  <2>5. StepsLeft(refresh'[r]) < StepsLeft(old)
    BY <1>1, <2>1, <2>2, <2>3, <2>4
  <2> QED
    BY <2>5 DEF old
<1>3. CASE FailXlm(r)
  <2>1. XlmLeft(old.xlm) = 1 /\ StepsLeft(refresh'[r]) = TokenLeft(old.token)
    BY <1>1, <1>3, LeftFacts, ClosedLeft DEF FailXlm
  <2> QED
    BY <1>1, <2>1
<1>4. CASE AnswerToken(r)
  <2> DEFINE answer == [state |-> "answered", value |-> token[old.wallet]]
             job == [old EXCEPT !.token = answer]
  <2>1. refresh'[r] = job /\ TokenLeft(old.token) = 2
    BY <1>1, <1>4 DEF AnswerToken, Set, TokenLeft
  <2>2. job.xlm = old.xlm /\ job.token = answer
    BY <1>1 DEF Refresh
  <2>3. TokenLeft(answer) = 1
    BY DEF TokenLeft
  <2> HIDE DEF job, answer, old
  <2>4. StepsLeft(refresh'[r]) = XlmLeft(old.xlm) + 1
    BY <2>1, <2>2, <2>3 DEF StepsLeft
  <2>5. StepsLeft(refresh'[r]) < StepsLeft(old)
    BY <1>1, <2>1, <2>4
  <2> QED
    BY <2>5 DEF old
<1>5. ASSUME NEW value \in Absent .. MaxChanges, Deliver(r, value),
             old.token.state \in {"asked", "answered"}
      PROVE  StepsLeft(refresh'[r]) < StepsLeft(old)
  <2> DEFINE job == [old EXCEPT !.token = Here(value)]
  <2>1. TokenLeft(old.token) \in {1, 2}
    BY <1>5 DEF TokenLeft
  <2>2. CASE old.open
    <3>1. Arrive(r, job)
      BY <1>5, <2>2 DEF Deliver
    <3>2. job \in Refresh /\ job.xlm = old.xlm /\ job.token = Here(value)
      BY <1>1, RequestFacts DEF Refresh
    <3> HIDE DEF job, old
    <3>3. StepsLeft(refresh'[r]) = XlmLeft(job.xlm) + TokenLeft(job.token)
      BY <1>1, <3>1, <3>2, ArriveLeft
    <3>4. TokenLeft(job.token) = 0
      BY <3>2, LeftFacts, RequestFacts
    <3>5. StepsLeft(refresh'[r]) < StepsLeft(old)
      BY <1>1, <2>1, <3>2, <3>3, <3>4
    <3> QED
      BY <3>5
  <2>3. CASE ~old.open
    <3>1. refresh'[r] = NoRefresh
      BY <1>1, <1>5, <2>3 DEF Deliver, Set
    <3> QED
      BY <1>1, <2>1, <3>1, LeftFacts
  <2> QED
    BY <2>2, <2>3
<1>6. CASE TakeToken(r)
  <2>1. Deliver(r, old.token.value) /\ old.token.state = "answered"
    BY <1>6 DEF TakeToken
  <2>2. old.token.value \in Absent .. MaxChanges
    BY <1>1 DEF Refresh, Request
  <2> QED
    BY <1>5, <2>1, <2>2
<1>7. CASE FailToken(r)
  <2>1. Deliver(r, 0) /\ old.token.state \in {"asked", "answered"}
    BY <1>7 DEF FailToken
  <2>2. 0 \in Absent .. MaxChanges
    BY RequestFacts
  <2> QED
    BY <1>5, <2>1, <2>2
<1> QED
  BY <1>2, <1>3, <1>4, <1>6, <1>7 DEF RefreshStep

(* The half of CardLoadingEnds that needs no fairness: a refresh has three *)
(* steps at most left, and none of them is undone.                         *)
THEOREM RefreshesAlwaysComeNearer == CardSpec => RefreshesComeNearer
<1>1. CardInv /\ [CardNext]_cardVars
        => [\A r \in Refreshes :
              refresh[r] # NoRefresh =>
                 \/ refresh'[r] = refresh[r]
                 \/ StepsLeft(refresh'[r]) < StepsLeft(refresh[r])]_cardVars
  BY OnlyItsOwnSteps, RefreshStepIsNearer
<1> QED
  BY <1>1, CardInvariant, PTL DEF CardSpec, RefreshesComeNearer
=============================================================================
