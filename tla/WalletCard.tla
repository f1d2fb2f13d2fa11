----------------------------- MODULE WalletCard -----------------------------
(***************************************************************************)
(* The wallet card of App.tsx: the balance of XLM and of the settlement    *)
(* token that refreshBalance reads when a wallet is connected, when the    *)
(* user asks for it and after each successful write, and the `stable:`     *)
(* entries of the read cache.                                              *)
(*                                                                         *)
(* A refresh sends both requests at once and waits for both (Promise.all), *)
(* but only for the first one when Horizon fails; the token's answer is    *)
(* then still cached when it comes.  Refreshes overlap.                    *)
(*                                                                         *)
(* A balance of tokens is abstracted to the number of times it has changed *)
(* from 1 on; 0 is what is shown when it cannot be read.  Of a balance of  *)
(* XLM only whose it is is kept, and whether the account is funded, about  *)
(* which Horizon may give any answer.  A token is configured.              *)
(* Of writes only the end is kept, as in BillPage.                         *)
(***************************************************************************)
EXTENDS Integers

CONSTANTS
    Wallets,        \* wallets that get connected to the page
    NoWallet,
    Refreshes,      \* bound: refreshes that overlap
    Moving,         \* bound: wallets whose balance of tokens changes
    MaxChanges      \* bound: changes of a balance

ASSUME CardAssumption ==
    /\ NoWallet \notin Wallets
    /\ Moving \subseteq Wallets
    /\ MaxChanges \in Nat \ {0}

VARIABLES
    token,          \* the balances of each wallet on chain
    address,        \* the connected wallet
    card,           \* balance and stableBalance, of the wallet read for
    balanceLoading,
    balanceError,
    cache,          \* readCache: `stable:${address}`, Absent when expired
    refresh,        \* the calls of refreshBalance
    write           \* the split or settle under way, one at a time (bound)

cardVars == <<token, address, card, balanceLoading, balanceError, cache,
              refresh, write>>

Absent == -1

\* The server may have been asked, may have answered, and the answer may be
\* here.  Horizon's has no value, and when it was given makes no difference.
Request == [state : {"none", "asked", "answered", "here"}, value : Absent .. MaxChanges]

None == [state |-> "none", value |-> Absent]

Asked == [None EXCEPT !.state = "asked"]

Here(value) == [state |-> "here", value |-> value]

\* `open` while Promise.all is waited for; `after` names the balance that the
\* settle before it has led to.
NoRefresh == [wallet |-> NoWallet, open |-> FALSE, xlm |-> None, token |-> None,
              after |-> 0]

EmptyCard == [of |-> NoWallet, token |-> Absent]

\* What a settle has led to: the balance of its wallet.
NoWrite == [call |-> "none", wallet |-> NoWallet, led |-> 0]

-----------------------------------------------------------------------------
\* One refresh.

Set(r, job) == refresh' = [refresh EXCEPT ![r] = job]

\* Once nothing is waited for, nothing is left of it.
Close(r, job) ==
    Set(r, IF job.token.state \in {"asked", "answered"}
           THEN [job EXCEPT !.open = FALSE, !.xlm = None, !.after = 0]
           ELSE NoRefresh)

StartRefresh(r, a, after, c) ==
    /\ refresh[r] = NoRefresh
    /\ cache' = c
    /\ balanceLoading' = TRUE
    /\ balanceError' = "none"
    /\ Set(r, [wallet |-> a, open |-> TRUE, xlm |-> Asked, after |-> after,
               token |-> IF c[a] = Absent THEN Asked ELSE Here(c[a])])

Complete(job) == job.xlm.state = "here" /\ job.token.state = "here"

\* The card is set once both answers are here, whichever wallet is connected.
Displayed(job) ==
    IF Complete(job)
    THEN [of |-> job.wallet, token |-> job.token.value]
    ELSE card

\* An answer is here.
Arrive(r, job) ==
    /\ card' = Displayed(job)
    /\ \/ UNCHANGED balanceError
       \/ Complete(job) /\ balanceError' = "unfunded"
    /\ balanceLoading' = (balanceLoading /\ ~Complete(job))
    /\ IF Complete(job) THEN Close(r, job) ELSE Set(r, job)

\* A 404 is an answer: the account is not funded.
TakeXlm(r) ==
    /\ refresh[r].xlm = Asked
    /\ Arrive(r, [refresh[r] EXCEPT !.xlm.state = "here"])
    /\ UNCHANGED cache

\* Mutant of FailXlm: leaves without the `finally`.
FailXlmLoading(r) ==
    /\ refresh[r].xlm = Asked
    /\ balanceError' = "failed"
    /\ Close(r, refresh[r])
    /\ UNCHANGED <<card, cache, balanceLoading>>

\* Promise.all is rejected at once; the card keeps what it shows.
FailXlm(r) ==
    /\ refresh[r].xlm = Asked
    /\ balanceError' = "failed"
    /\ balanceLoading' = FALSE
    /\ Close(r, refresh[r])
    /\ UNCHANGED <<card, cache>>

AnswerToken(r) ==
    /\ refresh[r].token.state = "asked"
    /\ Set(r, [refresh[r] EXCEPT !.token = [state |-> "answered",
                                            value |-> token[refresh[r].wallet]]])
    /\ UNCHANGED <<card, balanceLoading, balanceError, cache>>

\* It goes to a refresh that waits, or nowhere but the cache.
Deliver(r, value) ==
    IF refresh[r].open
    THEN Arrive(r, [refresh[r] EXCEPT !.token = Here(value)])
    ELSE Set(r, NoRefresh) /\ UNCHANGED <<card, balanceLoading, balanceError>>

TakeToken(r) ==
    LET answer == refresh[r].token IN
    /\ answer.state = "answered"
    /\ cache' = [cache EXCEPT ![refresh[r].wallet] = answer.value]
    /\ Deliver(r, answer.value)

\* Mutant of FailToken: the zero gets into the cache.
FailTokenCached(r) ==
    /\ refresh[r].token.state \in {"asked", "answered"}
    /\ Deliver(r, 0)
    /\ cache' = [cache EXCEPT ![refresh[r].wallet] = 0]

\* .catch(() => 0n)
FailToken(r) ==
    /\ refresh[r].token.state \in {"asked", "answered"}
    /\ Deliver(r, 0)
    /\ UNCHANGED cache

RefreshStep(r) ==
    /\ \/ TakeXlm(r) \/ FailXlm(r)
       \/ AnswerToken(r) \/ TakeToken(r) \/ FailToken(r)
    /\ UNCHANGED <<token, address, write>>

-----------------------------------------------------------------------------
\* The user.

Connect(r, a) ==
    /\ address = NoWallet
    /\ address' = a
    /\ StartRefresh(r, a, 0, cache)
    /\ UNCHANGED <<token, card, write>>

\* Mutant of Disconnect: the balances stay, as the bills of the list do.
DisconnectKeepsCard ==
    /\ address # NoWallet
    /\ address' = NoWallet
    /\ balanceError' = "none"
    /\ UNCHANGED <<token, card, balanceLoading, cache, refresh, write>>

\* Whatever is being read goes on being read.
Disconnect ==
    /\ address # NoWallet
    /\ address' = NoWallet
    /\ card' = EmptyCard
    /\ balanceError' = "none"
    /\ UNCHANGED <<token, balanceLoading, cache, refresh, write>>

\* The button of the card.
AskAgain(r) ==
    /\ address # NoWallet
    /\ StartRefresh(r, address, 0, cache)
    /\ UNCHANGED <<token, address, card, write>>

BeginWrite(call) ==
    /\ address # NoWallet
    /\ write = NoWrite
    /\ write' = [NoWrite EXCEPT !.call = call, !.wallet = address]
    /\ UNCHANGED <<token, address, card, balanceLoading, balanceError, cache,
                   refresh>>

\* Mutant of ForgetBalances: the entry stays.
ForgetNothing == cache

\* invalidateReads('stable:')
ForgetBalances == [a \in Wallets |-> Absent]

\* The refresh is for the wallet that settled, connected or not.
SettleSucceeds(r) ==
    /\ write.led # 0
    /\ write' = NoWrite
    /\ StartRefresh(r, write.wallet, write.led, ForgetBalances)
    /\ UNCHANGED <<token, address, card>>

\* A split moves no tokens and leaves the entries as they are.
SplitSucceeds(r) ==
    /\ write.call = "split"
    /\ write' = NoWrite
    /\ StartRefresh(r, write.wallet, 0, cache)
    /\ UNCHANGED <<token, address, card>>

\* The error is shown; the transaction may have been applied.
WriteFails ==
    /\ write # NoWrite
    /\ write' = NoWrite
    /\ UNCHANGED <<token, address, card, balanceLoading, balanceError, cache,
                   refresh>>

-----------------------------------------------------------------------------
\* Time and the chain.

Expire(a) ==
    /\ cache[a] # Absent
    /\ cache' = [cache EXCEPT ![a] = Absent]
    /\ UNCHANGED <<token, address, card, balanceLoading, balanceError,
                   refresh, write>>

\* The settle under way is applied, or somebody transfers tokens.
TokenMoves(a) ==
    /\ a \in Moving
    /\ token[a] < MaxChanges
    /\ token' = [token EXCEPT ![a] = @ + 1]
    /\ \/ UNCHANGED write
       \/ /\ write.call = "settle" /\ write.wallet = a /\ write.led = 0
          /\ write' = [write EXCEPT !.led = token'[a]]
    /\ UNCHANGED <<address, card, balanceLoading, balanceError, cache,
                   refresh>>

-----------------------------------------------------------------------------

CardInit ==
    /\ token = [a \in Wallets |-> 1]
    /\ address = NoWallet
    /\ card = EmptyCard
    /\ balanceLoading = FALSE
    /\ balanceError = "none"
    /\ cache = [a \in Wallets |-> Absent]
    /\ refresh = [r \in Refreshes |-> NoRefresh]
    /\ write = NoWrite

CardNext ==
    \/ \E r \in Refreshes :
          \/ RefreshStep(r)
          \/ \E a \in Wallets : Connect(r, a)
          \/ AskAgain(r)
          \/ SettleSucceeds(r) \/ SplitSucceeds(r)
    \/ Disconnect
    \/ \E call \in {"split", "settle"} : BeginWrite(call)
    \/ WriteFails
    \/ \E a \in Wallets : Expire(a) \/ TokenMoves(a)

\* Every request is answered or fails at some time.
CardFairness == \A r \in Refreshes : WF_cardVars(RefreshStep(r))

CardSpec == CardInit /\ [][CardNext]_cardVars /\ CardFairness

-----------------------------------------------------------------------------

(* What is cached was a balance once, never a failed read.  Whoever waits  *)
(* has something to wait for: while the card is loading a refresh is open, *)
(* and a refresh that is open lacks an answer.                             *)
CardTypeOK ==
    /\ address \in Wallets \cup {NoWallet}
    /\ balanceError \in {"none", "unfunded", "failed"}
    /\ \A a \in Wallets : cache[a] \in {Absent} \cup 1 .. token[a]
    /\ balanceLoading => \E r \in Refreshes : refresh[r].open
    /\ \A r \in Refreshes :
          LET job == refresh[r] IN
          /\ job.xlm \in Request /\ job.token \in Request
          /\ job.open => {job.xlm.state, job.token.state} # {"here"}
          /\ job.open <=> job.xlm.state # "none"

(* "Settle moves stable-token balance, so invalidate those reads": the     *)
(* refresh that follows a settle shows the balance the settle has led to,  *)
(* or a later one, unless a request of its own fails; reads that were in   *)
(* flight and fill the cache with older balances do not reach it.          *)
SettleShowsInCard ==
    [][ \A r \in Refreshes :
          LET job == refresh[r] IN
          (job.after # 0 /\ ~refresh'[r].open)
            => \/ balanceError' = "failed"
               \/ card'.token = 0
               \/ card'.token >= job.after ]_cardVars

(* The skeleton gives way to balances or an error, whichever requests fail *)
(* and whichever wallet is connected by then.                              *)
CardLoadingEnds == balanceLoading ~> ~balanceLoading
=============================================================================
