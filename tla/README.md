# Split Bill Calculator: specification, model checking and proofs

This directory specifies the Split Bill Calculator: two Soroban contracts (a
settlement token and a bill registry that calls it) and the web front end that
drives them through the Stellar network. It holds TLA+ modules for the parts
that carry behaviour, TLC configurations that check them on small instances, and
proofs checked by TLAPS. Paths below are relative to the repository (`src/`).

    tlc -config StableToken.cfg MCStableToken     (and so on, see "Runs")
    tlapm ContractProofs.tla                      (and so on, see "Proofs")

## 1. Inventory

### Components

| Component | State | Operations | Talks to |
|---|---|---|---|
| **Settlement token** `contracts/stable-token/src/lib.rs` | admin, total supply, balances, allowances with an expiration ledger | constructor, mint, set_admin, approve, transfer, transfer_from, burn, burn_from; views | called by the registry and by any account |
| **Bill registry** `contracts/bill-split/src/lib.rs` | bill counter, bills, settled marks, index by creator, index by payer | constructor, create_bill, settle; views | settle calls `transfer` of the token in the same transaction; publishes `created` and `settled` events |
| **Contract write pipeline** `frontend/src/contract.ts` `createBill`, `settleBill`, `invokeContract` | none of its own; reports a status | load account, simulate, sign, send, poll for the result | RPC server, wallet, network |
| **XLM split payment** `contract.ts` `sendXlmSplit` | none | one transaction of up to 100 payments, submitted to Horizon | Horizon, wallet |
| **Split and settle panels** `frontend/src/App.tsx` `handleSplit`, `handleSettle` | one status per panel, form fields | the two user operations; a panel in progress disables its button | the pipeline; refreshes the read side afterwards |
| **Read cache and views** `contract.ts` `cached`, `invalidateReads` | cache entries with an expiry of 10 s | view calls by simulation; clearing after writes | RPC server |
| **Bill list** `App.tsx` `onConnect`, `onDisconnect`, `loadBillsForCurrentUser` | address, bills, settled flags | connect, disconnect, load the list | views, wallet |
| **Wallet card** `App.tsx` `refreshBalance`, `contract.ts` `fetchXlmBalance`, `getStableBalance` | the two balances, loading, error | refresh on connecting, by its button and after writes | Horizon, the token's view, read cache |
| **Settled-event feed** `contract.ts` `fetchSettledEvents`, `App.tsx` polling effect | list of events | fetch every 5 s | RPC server, read cache |
| **Pure helpers** `frontend/src/lib.ts` | none | computeShares, xlmToStroops, stroopsToXlm, decodeSimError | the split form, `sendXlmSplit` |
| **Wallet wrapper** `frontend/src/wallet.ts` | the kit's selected wallet | pick, disconnect, sign | browser extension |
| **Configuration, entry point, build** `config.ts`, `main.tsx`, `vite.config.ts`, `ci.yml` | none | | |

### How they interact

A contract call is a transaction: it either takes effect as a whole or, on a panic, a
failed `require_auth` or an overflow, not at all. Transactions of all accounts are
totally ordered by the chain. The front end is one thread that gives up control at
every `await`; its two panels, the event poll, list loads and balance refreshes
interleave there, and between any two of its steps other accounts, or the same account
in another tab, change the chain. A transaction carries the sequence number its
account had when the transaction was built; of two with the same number at most one is
ever applied. Between sending and hearing lies a network that may apply, refuse, lose
or delay a transaction, and lose its answer.

### What is hard

- *Accounting across entries.* The token keeps balances and their total in
  separate entries; the registry keeps bills, two indexes, marks and an event
  log. Nothing but the order of writes keeps them together (self-transfers, a
  payer listed twice, a creator who is a payer, width limits, id exhaustion).
- *Authority over time.* Allowances expire, are replaced, are drawn by two entry
  points and may be dropped by the host early; admin rights are handed over.
- *Uncertain outcomes.* The page reports a timeout after 30 s while its
  transaction stays valid for 60 s; Horizon's and the RPC server's answers get
  lost; a user tries again what may have happened.
- *Sequence numbers.* Both panels may be at work for one account at once.
- *Stale reads.* A simulation runs on the state before signing; view answers are
  cached, cache fills race with invalidation, and loads, refreshes and fetches
  with those of their own kind.
- *Two amounts for one thing.* What is typed is divided, written as text, read by
  the network as payments and stored by the registry as one share for all.

`PROJECT.json` lists each hazard at its line with the properties that cover it.

### What makes each component correct

- Token: numbers in their width and never negative; supply = sum of balances;
  nobody's balance falls without their signature or an unexpired allowance that
  falls with it; no more is drawn than was granted; only the admin of the moment
  mints; the allowance view tells what can be drawn.
- Registry: a bill is never rewritten and a mark never removed; each debt is paid
  at most once, by its debtor, to its creditor, in its amount; indexes and events
  tell what storage tells; whoever owes and has the tokens can pay.
- Write side of the page: a success banner is true; a definite error is definite;
  trying again never settles twice and never records a bill that nobody paid for;
  every attempt ends.
- Read side: what is shown as paid is paid; loading ends; the list belongs to the
  connected wallet; a write is seen by the reads after it.
- Wallet card: the balances are the connected wallet's, but for one known race; a
  settle shows; loading ends.
- Event feed: what is shown happened, in that order and without gaps; the feed
  catches up.
- Helpers: payments add up to the total typed, and what a bill records was paid.

## 2. Modules

| Module | What it is |
|---|---|
| `StableToken` | the token: state, one operator per entry point, the ledger clock and the eviction of temporary entries; its state properties |
| `StableTokenHistory` | `StableToken` with history variables (signer, successor, granted, drawn) and the properties about authority |
| `BillSplit` | EXTENDS `StableToken`: the registry composed with its token; direct token calls interleave with registry calls |
| `Obligations` | abstract specification: a book of debts, entered bill by bill and discharged once each |
| `BillChain` | abstract specification: what a reader of the registry may rely on |
| `BillSplitAudit` | `BillSplit` with one history variable and the refinement mappings to `Obligations` and `BillChain` |
| `Amounts` | decimal texts, stroops and shares: the arithmetic of `lib.ts` |
| `SplitClient` | EXTENDS `BillSplit`, `Amounts`: both panels, the pipeline, the network, other wallets and tabs |
| `SplitClientAudit` | `SplitClient` with one history variable, the number of bills when the split panel's attempt began |
| `BillPage` | EXTENDS `BillChain`: read cache and bill list, overlapping loads, wallet switches |
| `WalletCard` | the balances of the connected wallet: overlapping refreshes of two requests each, and their cache entries |
| `WalletCardAudit` | `WalletCard` with one history variable, the wallets disconnected in the middle of something of their own |
| `EventFeed` | the polled event feed: overlapping fetches, window, limit, cache entry |
| `MCStableToken`, `MCBillSplit`, `MCSplitClient`, `MCSplitAttempt`, `MCBillPage`, `MCWalletCard`, `MCEventFeed` | instances for TLC |
| `SumTheorems` | lemmas on `SumFunction`, the sum of a function over a finite set, and on smallest counterexamples |
| `ContractProofs` | the proofs about `StableToken` and `BillSplit` |
| `HistoryProofs` | the proofs about `StableTokenHistory` and `BillSplitAudit`: authority, and both refinements |
| `ObligationsProofs` | the proof about the book of debts |
| `SplitClientProofs` | the proofs about `Amounts`, `SplitClient` and `SplitClientAudit`, and that the page keeps to `BillChain` |
| `BillPageProofs`, `WalletCardProofs`, `EventFeedProofs` | the proofs about the read side |

The read side is three modules and not one because the cache keys they use are
disjoint (`bills:`, `settled:` and `count`; `stable:`; `events:`) and none of them
reads what another has set.

### Token and code

Variables are the storage keys (`balance[a]` is `DataKey::Balance(a)`, absent
entries read as zero). `auth` is the one address whose signature the transaction
carries. Each entry point is an operator of the same name with the code's checks
in order; a call that would panic is not enabled. `MoveBalance` keeps the order of
`transfer`: the sender's entry is written before the recipient's is read, which
matters when the two are the same entry. `BumpSupply` panics beyond i128, whose
width is the constant `MaxI128`. `EvictAllowance` is the host dropping a temporary
entry, which it may do early because `approve` never extends its lifetime;
`CloseLedger` advances the ledger sequence. Metadata and token events are left
out: nothing depends on them.

### Registry and code

`CreateBill` is `create_bill` with its four checks, the u32 id increment that
panics at the end of the range (`MaxU32`), the stored bill, the creator's index,
the loop that files the id under each payer once *per listing*, and the event.
`Settle` is `settle`: bill exists, payer is listed, not yet settled, the token
`Transfer` as an inter-contract call, the mark, the event. A memo is its length;
the timestamp is left out. `settled` holds the pairs whose mark is set; the code
only ever writes `true`.

### Front end and code

Each panel is a state machine over the awaits of `invokeContract` and
`sendXlmSplit`: *load* (account and sequence number), *simulate*, *sign*, *send*,
*confirm*. A step ends in the next phase or in a failure with the `ContractError`
category that the code throws there, `other` standing for an exception that is
thrown raw. The split panel first pays in XLM and then, when the user asked for
it, runs the pipeline for `create_bill` (`handleSplit`); the settle panel runs it
for `settle`. `txs` are the transactions built, with what became of them; `Apply`
commits one if its sequence number is next, or fails it; `Drop` is expiry or loss.
`GiveUp` is the confirmation loop reaching its limit, which leaves the
transaction alive. Horizon answers a submission only after applying it, so for a
payment "confirm" is the pending HTTP request and `GiveUp` is its exception.
A form is its payers, the total as it was typed and a memo. `ValidForm` is what
enables the button; `Payments` are the texts that `computeShares` and the
conversions of `Amounts` make of the total, one per payer, which the network reads
again (`Worth`); `Recorded` is the one share that goes to the registry. `Payable` is
what the SDK refuses while the payments are put together: a share of no stroop, an
amount beyond 64 bits, a memo of too many bytes. A memo is its number of UTF-16
code units, the bytes that each takes, and whether it is blank. The page limits the
code units twice (the field's `maxLength` of 28, and the cut in `sendXlmSplit`, which
therefore cuts nothing); the SDK and the registry count the bytes. A blank memo is
left out of the payment (`memo.trim()`), but `create_bill` is sent it as it is. Of an
XLM payment only whether it was applied is kept; the XLM ledger is not modelled.

A text of `Amounts` is sign, whole part and fraction digits. Padding to seven
digits, the digits of the remainder and the stripping of trailing zeros are
modelled by what they do (`Padded`, `Fraction`), with `Decimals` for the seven.

### Read side and code

`BillPage` has the module-level `readCache` for the keys the list uses, up to two
calls of `loadBillsForCurrentUser` at once, and the React state they set. Between
two requests the code does not wait: a run of cache hits (`Scan`), or
invalidating and starting the next load, is one step. A request is sent, answered
by the chain of that moment (`AnswerCount`, `AnswerFlag`) and taken later, when
its answer is cached and used (`TakeCount`, `TakeFlag`); it may fail instead. Bills
never change, so the answer to a bill request is not kept apart from its taking.
All flags of a list are looked up together before any answer comes, as
`Promise.all` over the synchronous part of `cached` does. `Expire` stands for the
TTL. A write is its beginning and its end: the success that `SplitClient` shows to
be real, or a failure. The chain is `BillChain`, which the contracts implement.

### Wallet card and code

A call of `refreshBalance` is a record in `refresh`: both requests go out at once,
`Promise.all` waits for both (`open`) but ends at once when Horizon's fails, and a
token answer that comes later still fills the cache (`Close`, `Deliver`). A token
balance that cannot be read becomes 0 on the card and is not cached. Horizon's 404
is an answer (the account is not funded). A token balance is how often it has
changed, which is all that "not older than" needs; of the XLM balance only whose it
is is kept. `AskAgain` is the card's button; `SettleSucceeds` invalidates `stable:`
and refreshes for the wallet that settled, in one step as in the code, and
remembers in `after` which balance that settle has led to.

### Event feed and code

`Tick` is the interval's callback: a fresh cache entry is shown, else a fetch is
started, whether or not another is running. `AnswerLedger` and `AnswerEvents` are
its two requests, answered at different times; `WindowStart` is the clamped
subtraction; `Answer` is the oldest `Limit` events of the window, filtered for
`settled` and reversed. `Take` caches and shows the result unless the effect has
been cleaned up (React's StrictMode runs it twice in development). An event is its
position in the log: `EventsTellState` of `BillSplit` says what the log is worth.

## 3. Runs

| Run | Module, cfg | States | Shows |
|---|---|---|---|
| `token` | `MCStableToken`, `StableToken.cfg` | 68,640 | token properties with every entry point |
| `bills` | `MCBillSplit`, `BillSplit.cfg` | 137,844 | registry and token together, refinement of `Obligations` and `BillChain` |
| `client_split` | `MCSplitAttempt`, `ClientSplit.cfg` | 284,968 | the split form with failures, retries and competing creators; amounts typed, paid and recorded; the bill that is named |
| `client_both` | `MCSplitClient`, `ClientBoth.cfg` | 352,722 | both panels at work on one account; progress and liveness |
| `page_one` | `MCBillPage`, `PageOne.cfg` | 348,439 | flags of two payers, one load at a time; loading ends |
| `page_two` | `MCBillPage`, `PageTwo.cfg` | 1,744,167 | overlapping loads, of one wallet or two; progress of each |
| `card` | `MCWalletCard`, `WalletCard.cfg` | 492,999 | whose balances are shown, with two wallets in turn and overlapping refreshes; loading ends |
| `feed` | `MCEventFeed`, `EventFeed.cfg` | 107,032 | overlapping fetches of a growing log; the feed catches up |
| `client_rejected` | `MCSplitClient`, `ClientRejected.cfg` | violation | "Submission rejected" is not always true |
| `page_invalidated` | `MCBillPage`, `PageInvalidated.cfg` | violation | a late answer undoes an invalidation |
| `page_yours` | `MCBillPage`, `PageYours.cfg` | violation | the list may belong to another wallet |
| `feed_newest` | `MCEventFeed`, `FeedNewest.cfg` | violation | the newest settlement may be left out |

### Bounds

- `token`: three addresses (holder, spender, bystander), a supply of at most 2 so
  that a mint reaches the width limit, amounts -1 to 2 so that negative, zero and
  excessive amounts occur. Two pairs get approvals, one of them an owner that is
  its own spender. Expirations 0 and 2 with a clock from 1 to 3: an allowance is
  met before, in and after its last ledger, and granted when already expired.
- `bills`: two addresses, both of which create and pay; two bills, which is also
  the u32 limit, so that id exhaustion occurs; lists that are empty, name one
  payer, one twice, both, and more than `MaxPayers` = 2; shares 0, 1 and 2 against
  a supply of at most 2, so that a payer has too little, just enough, and enough
  for two. Every property relates at most two bills and two addresses.
- `client_split`: three transactions are a failed attempt and a complete one
  after it; two bill ids let another creator's bill come first. Three transactions
  never hold two `create_bill`, so that recording twice what was paid once rests on
  `BillsAreAlwaysPaidFirst`; and there are no tokens to settle with, so that the half
  of `SuccessIsReal` about settling rests on `SuccessIsAlwaysReal`. Amounts have two
  decimals: 0.03 divides among two with a remainder, and 0.31 among three into 0.10,
  0.10 and 0.11, of which a zero is stripped. There is a form for every check on the
  way: one that the button refuses, one with more than `MaxOps` payers, two that the
  SDK refuses (a share of nothing, a memo of too many bytes), two that the registry
  refuses (too many payers, a blank memo of too many bytes), and two that pass.
  `MaxMemoText` is below `MaxMemoLen` as 28 is below 80.
- `client_both`: three transactions let one panel pay and record while the other
  settles, and let settling be tried three times. One bill id is enough: the
  property about settling is about one bill. Amounts are whole.
- `page_*`: one bill, since the properties speak of one bill, its flags and the
  count; two overlapping loads (`Loads`), since a third adds no new pair. `page_one`
  has two payers, whose flags must not be confused, and one load; `page_two` two
  loads and one payer. The one case of `LoadsComeNearer` that one bill does not meet,
  going from one bill to the next, is covered by its proof.
  A load can only start when one of the two slots is free.
- `card`: two wallets and two refreshes, since every property is about a refresh
  and one other that races with it; a balance changes once (`MaxChanges`), before
  or by the settle, and one write is under way at a time.
- `feed`: two fetches; a window of three ledgers (`LedgersBack` = 2), an answer of
  three events (`Limit`) and five ledgers of up to two events, so that the window
  starts at ledger 1, moves, overflows and empties.

`MaxLedger`, `MaxTx`, `MaxBills`, `MaxChanges`, `Loads`, `Refreshes`, `Fetches` and the
sets callers choose from are bounds of the model; `MaxI128`, `MaxI64`, `MaxU32`,
`MaxPayers`, `MaxMemoLen`, `MaxMemoText`, `MaxOps`, `PollLimit`, `Decimals`,
`LedgersBack` and `Limit` are constants of the code made small. The client runs do
not check deadlock: when all `MaxTx` transactions are used the model stops, as a
user may.

### Fairness

Only the front end assumes any. In `SplitClient`, `WF(Proceed(p))`: the await a panel
is in is answered some time, by a failure if nothing else. HTTP requests fail or
return and the wallet's prompt is signed or dismissed. `WF(Tick(p))`: the sleep in the
confirmation loop ends. Nothing is assumed of the network: a transaction may be
pending for ever, and `PollThrows`, a poll request that fails, never has to happen.
`EveryAttemptEnds` therefore rests on the limit of the confirmation loop and on
nothing the network does; take the limit away and it fails (its mutant). In
`BillPage`, `WF(LoadStep(l))`, and in `WalletCard`, `WF(RefreshStep(r))`: every
request is answered or fails some time. Neither the user nor the chain has to do
anything.

`EventFeed` needs more, because a feed whose requests all fail shows nothing new:
`WF(Tick)` is the interval, `WF(Expire)` the TTL, and strong fairness of
`AnswerLedger`, `AnswerEvents` and `Take` says that no request fails every time it is
made. That is an assumption about the server, not something the code ensures.
Which fetch is answered first stays open, and ledgers may close at any time;
`FeedCatchesUp` speaks of the time after the last one.

### What the properties say of the code

Every property has a mutant of the code that breaks it, in `PROJECT.json`. Those
worth pointing out:

- `SupplyIsSum`, `CreditsNeverOverflow`: transfers cannot overflow the recipient
  because the mint has already checked the *supply* against the width. Without
  that check the recipient's addition could panic.
- `ImplementsBook`, `SettlementBooksBalance`: balances say exactly which debts
  were discharged, for duplicates in the payer list and creators who pay
  themselves too.
- `PayerCanAlwaysSettle`: no sequence of calls by others locks a payer out.
- `ErrorsLeaveNothing`: for registry calls, errors that sound final are final.
  This needs the sequence number: a transaction that the server refused was never
  queued, and after a timeout the category is `rpc`, which promises nothing.
- `PaymentsAddUp`, `RecordedIsPaid`: text, stroops, shares and text again lose
  nothing; what a bill records was paid to each payer before, and the surplus is
  less than a stroop per payer. The first goes through the copy of `stroopsToXlm`
  in `contract.ts`, which no test covers.
- `PaidFormsAreRecordable`: after the payment `create_bill` refuses the number of
  payers or a blank memo, and nothing else. No share is refused, because one that can
  be paid is positive, and no memo that was put into the payment, because 28 bytes are
  less than 80. Were the SDK to count code units, as the page does, any memo of wide
  characters might be paid for and then refused. A blank one is: see below.
- `SupplyChangesAreOwned`: it goes by what `set_admin` was *told*, not by the admin
  that is stored, so that a handover which leaves the old admin in place breaks it.
- `CardIsYours`: `refreshBalance` sets the balances of the wallet it was started for,
  whichever is connected in the end. Overlapping refreshes, writes that end late and
  wallets that come back still leave one way only for another wallet's balances to be
  shown: that it was disconnected in the middle of a refresh or a write of its own.
- `SuccessIsNew`: the id in a success banner is that of a bill created since the
  attempt began. It is not enough that the bill has the contents that were typed:
  an earlier attempt at the same form may have left one just like it.
- `AskedIsHeard`: a load after a settle that asks for that share's flag itself is
  told that it is paid. A stale flag can only come from the cache, which is the
  case that `page_invalidated` shows.
- `AnswersAreProgress`, `LoadsComeNearer`: no retry, loop or cache fill sends an
  attempt or a load back, so that it waits for a bounded number of answers.
- `SettleShowsInCard`: the answer of a refresh that began before the settle may
  re-enter the cache after the invalidation, but the refresh that follows the
  settle has looked the entry up in the very step that cleared it.
- `FeedCatchesUp`: an older answer may replace a newer feed, but not for good.
- `BillsArePaidFirst` holds with an inequality only: when recording fails after
  the payment, or the payment's answer is lost, trying again pays again.

### Disagreements found

Each is one violation run; the quoted lines are in `PROJECT.json`.

- `client_rejected`: any exception of Horizon's `submitTransaction` becomes
  "Submission rejected: ..." (`contract.ts:235-240`), a gateway timeout and a lost
  connection included, after which the payments may still be applied. The
  counterexample reports a payment as rejected while it is pending.
- `page_invalidated`: "Invalidated after writes", but a read that was asked before
  the write and answered late re-enters the cache after the invalidation. The
  list loaded after a successful settle then shows the share as owed. The same race
  cannot hide a bill just recorded (`OwnBillListed`): the count is looked up in the
  very step that invalidates it, and the load uses its own answer.
- `page_yours`: "Bills you created or were named in", but a load started for the
  previous wallet may end last.
- `feed_newest`: "Real-time stream of settled events", but `getEvents` returns the
  *oldest* `limit` events of the window, `created` ones included, and the page
  filters and reverses only then. With more than 50 events in 5,000 ledgers the
  newest settlements do not show until older events leave the window.

Read in the code without a run of their own, because they concern wording, or a
promise nothing in the repository makes:

- The memo of the payment is cut to 28 code units "to keep submission valid"
  (`contract.ts`), but the limit is 28 *bytes*; a longer memo of wide characters ends
  in an exception before anything is sent.
- `.env.example` and the page promise that without a token address settling "just
  records"; the contract always transfers.
- The comment in `handleSplit` gives the remainder to the first payer;
  `computeShares` gives it to the last.
- A blank memo is left out of the payment (`contract.ts:211`), and `create_bill` is
  then sent it all the same and counts its bytes: 28 wide spaces, which the field
  allows, are 84. The payment goes through and the record is refused, and trying again
  pays again. It is reached in `client_split`, where `PaidFormsAreRecordable` excepts
  it. The "80-char memo" of `README.md:33` is one of 80 bytes.
- The wallet card has the same race as the list: a refresh for the previous wallet
  may end last and show that wallet's balances, which is the exception in
  `CardIsYours`. And "not funded" may stay next to a balance that another refresh has
  read.

## 4. Proofs

Every safety invariant and every action property that a run checks is proved for
all values of the constants, but for two that speak of ENABLED (see the end of this
section). Assumptions are named in the module that declares the constants:
`TokenAssumption` (addresses finite, widths natural numbers, inputs in their types),
`BillAssumption` (limits natural numbers, callers' lists and shares in their types),
`AmountsAssumption` (a natural number of decimals), `ClientAssumption` (the wallet is
an address, forms are forms; the page's limit on memos is not above the
registry's, 28 and 80, and an XLM amount is not wider than a share, 64 and 128 bits),
`PageAssumption`, `CardAssumption` and `FeedAssumption` (wallets are addresses, bounds
and limits in their ranges). `PillsAreTrue` uses none of them.

### The contracts (`ContractProofs`)

The token, for every finite set of addresses, every width and every choice of
amounts, expirations and approvals:

- `TokenTypeCorrect`: `TokenSpec => []TokenTypeOK`
- `SupplyAlwaysSum`: `TokenSpec => []SupplyIsSum`
- `TransfersNeverOverflow`: `TokenSpec => []CreditsNeverOverflow`

All three follow from one inductive invariant, `TokenInv = TokenTypeOK /\
SupplyIsSum`. Neither conjunct is inductive alone: `burn` checks the holder's
balance only, so that the supply stays non-negative because it is the sum of
balances; and the sum lemmas need balances to be numbers. There is one lemma per
entry point, for an arbitrary i128 amount and without the bound on callers'
inputs, so that the registry's proofs can cite it for the transfer inside
`settle`; the step theorem only collects them. `TransfersNeverOverflow`: two
different balances add up to at most the supply, which is within the width.

The registry together with its token, for any number of bills, payers and interleaved
token calls:

- `BillTypeCorrect`: `BillSpec => []BillTypeOK`
- `SupplySurvivesSettling`: `BillSpec => []SupplyIsSum`, which the run `bills` leaves
  to the run on the token alone and to this proof
- `BillsStayAsCreated`: `BillSpec => BillsNeverRewritten`
- `IndexesAlwaysMatch`: `BillSpec => []IndexesMatchBills`
- `EventsAlwaysTell`: `BillSpec => []EventsTellState`

The invariant is `BillInv = TokenInv /\ RegistryTypeOK`. A token call keeps the
token's half by the token's lemmas; `settle` keeps it because the transfer inside it
is `Transfer` itself, with the stored share, which the registry's half says is a
positive amount of its width, as its argument. That ids are dense is what makes
`create_bill` write to a fresh index, and so never over an older bill. It also puts
a new id behind everything the indexes hold (`IndexInv`), where the loop of
`create_bill` appends it as often as the address is listed.

`EventsTellState` gives a "created" event its id by counting those before it, and
says nothing of which bills have one. `LogInv` adds that the ids of created events
are bills and that every bill has one, without which a settled event could not be
shown to come after its bill's; and that the settled pairs are finitely many, so that
their number and that of the events grow together.

Two theorems say without ENABLED what two properties say with it. They take the
values that a call writes and prove that the step which writes them is one the call
makes, that is, that none of its checks fails; together with the invariant, which
holds in every reachable state, this is what the properties mean:

- `NobodyIsLockedOut`: whoever is listed on a bill, has not settled it and holds the
  share can settle (`PayerCanAlwaysSettle`)
- `ViewIsWhatCanBeDrawn`: what the allowance view shows can be drawn, as far as the
  balance goes, and no more (`AllowanceViewIsSpendable`, for the whole of
  `transfer_from`)

Both rest on `CreditFits`: without it the recipient's addition might panic.

### Authority and the refinements (`HistoryProofs`, `ObligationsProofs`)

- `DrawsStayWithinGrants`: `HistorySpec => []DrawnWithinGrant`
- `DebitsAlwaysAuthorised`: `HistorySpec => DebitsAuthorised`
- `SupplyChangesAlwaysOwned`: `HistorySpec => SupplyChangesAreOwned`

A step of `HistoryNext` is a step of `TokenNext` (`HistoryStepsAreTokenSteps`), so
`TokenInv` carries over. `DrawnWithinGrant` says nothing about what is drawn plus
what is left once the host has dropped an entry, so it is strengthened by
`drawn + allowance <= granted`, which holds then too; with that and the types it is
inductive (`GrantInv`). `HistoryInv` adds that the stored admin is the one that
`set_admin` was last told. The two action properties follow from these and what a
step does: `MoveDebitsSender` shows that a transfer lowers the sender's balance
alone and by the amount, a transfer to oneself included, where nothing falls.

- `PositionsAreBooked`: `BookSpec => []PositionIsBooks`
- `ContractsImplementChain`: `AuditSpec => ImplementsChain`
- `ContractsImplementBook`: `AuditSpec => ImplementsBook`
- `BooksAlwaysBalance`: `AuditSpec => []SettlementBooksBalance`

In the book, discharging adds the gain of one debt to each position, so that the sums
over the debts paid stay equal to the positions (`BookInv`; the sum lemmas need the
debts paid to be finite). For the contracts there is one lemma per action:
`create_bill` is `Open` with a set of new debts, none of them entered before because
the id is new; `settle` is `Discharge` of one of them; a token call moves balances and
`external` alike, and so leaves every position alone. `BooksAlwaysBalance` is not
proved from the code again: it is the book's theorem, read through the refinement.

### The write side (`SplitClientProofs`)

The arithmetic, for every total, number of payers and number of decimals: shares add
up to the total (`SharesAddUp`); all but the last are the share that is recorded,
which the last exceeds by less than a stroop per payer (`SharesAreFair`); the text
written of an amount is read as that amount (`TextsKeepTheirWorth`). The last one is
an argument about digits. What a string of digits spells is a recursive function of
its prefixes; that writing and reading cancel out is shown by the smallest prefix on
which they would not, and that stripping zeros is undone by padding by the fact
that the zeros counted are the last ones.

The pipeline, for any accounts, forms, amounts and numbers of transactions, with both
panels at work and others using the contracts and the same wallet meanwhile:

- `ClientTypeCorrect`: `ClientSpec => []ClientTypeOK`
- `SuccessIsAlwaysReal`: `ClientSpec => []SuccessIsReal`
- `BillsAreAlwaysPaidFirst`: `ClientSpec => []BillsArePaidFirst`
- `AlwaysSettledAtMostOnce`: `ClientSpec => []SettledAtMostOnce`
- `ErrorsAlwaysLeaveNothing`: `ClientSpec => []ErrorsLeaveNothing`
- `PaymentsAlwaysAddUp`: `ClientSpec => []PaymentsAddUp`
- `RecordedIsAlwaysPaid`: `ClientSpec => []RecordedIsPaid`
- `PaidFormsAreAlwaysRecordable`: `ClientSpec => []PaidFormsAreRecordable`

One invariant carries them, `ClientInv`. `TxInv` says what a transaction is: a payment
is of a form that was sendable, a `create_bill` stands behind an applied payment of
its form, and what was applied can be seen on chain, where nothing is rewritten.
`JobInv` says what a panel knows: the transaction it remembers is of its own calls,
so that the two panels never share one, is the one it works on, and is not out
before it is sent. `CountInv` is `BillsArePaidFirst` made inductive in two ways. It
counts the `create_bill` transactions that were *built*, not those that were applied,
because a pending one may be applied at any time; and it counts one more while the
split panel has paid and is about to build one (`Owing`), because that is what
excludes a second `create_bill` for one payment. That no error is wrong about what is
out is proved in the same invariant, since it needs to know which transaction the
panel means. `SettledAtMostOnce` needs no count: two applied settlements of one bill
would both have found it unmarked.

Four theorems close gaps between the modules, and between safety and liveness:

- `SuccessIsAlwaysNew`: `AttemptSpec => []SuccessIsNew`
- `PageKeepsItsChain`: `ClientSpec => ClientImplementsChain`
- `AnswersAreAlwaysProgress`: `ClientSpec => AnswersAreProgress`
- `NoAttemptIsStuck`: in every state that the invariant allows, a panel at work has a
  step of `Proceed` or `Tick` that changes it

`BillPage` takes two things for granted. That the chain only ever appends bills and
adds marks is what the contracts do when they are called (`ContractsImplementChain`),
and `PageKeepsItsChain` says that the write side of the same page, with its
transactions that are applied late, other tabs and other wallets, is nothing but such
calls. That a split which succeeds has recorded a bill of the connected wallet, newer
than the attempt, is `SuccessIsAlwaysReal` together with `SuccessIsAlwaysNew`. The
latter follows the attempt: a `create_bill` that the panel waits for was built in this
attempt, and is given an id when it is applied, which is after the attempt began;
the payments and bills of earlier attempts are other transactions (`NewInv`).

`EveryAttemptEnds` needs fairness and stays with TLC, but it has two halves that need
none. `StepsLeft` counts the answers and rounds of the confirmation loop that an
attempt may still take; `AnswersAreProgress` says that whatever happens to a panel at
work makes it smaller, which needs to know that the loop never counts beyond its
limit (`RoundsInv`). `NoAttemptIsStuck` says that there is always something that may
happen: it names the value that the worst answer leaves the panel with and proves
that the step which writes it is one of the code's.

### The read side (`BillPageProofs`, `WalletCardProofs`, `EventFeedProofs`)

For any number of loads, refreshes and fetches that overlap, and any wallets, bills and
events:

- `PageTypeCorrect`: `PageSpec => []PageTypeOK`
- `PillsAreTrue`: `PageSpec => []PaidIsTrue`
- `OwnBillAlwaysListed`: `PageSpec => []OwnBillListed`
- `WhatIsAskedIsHeard`: `PageSpec => AskedIsHeard`
- `LoadsAlwaysComeNearer`: `PageSpec => LoadsComeNearer`
- `CardTypeCorrect`: `CardSpec => []CardTypeOK`
- `CardIsAlwaysYours`: `AuditSpec => []CardIsYours` (of `WalletCardAudit`)
- `SettleAlwaysShowsInCard`: `CardSpec => SettleShowsInCard`
- `RefreshesAlwaysComeNearer`: `CardSpec => RefreshesComeNearer`
- `FeedTypeCorrect`: `FeedSpec => []FeedTypeOK`
- `FeedIsAlwaysTrue`: `FeedSpec => []FeedIsTrue`
- `FittingWindowsAreWhole`: `FeedSpec => AnswersAreWhole`

*Pills.* Four places can hold the knowledge that a share is paid: the cache, an answer
that has come and is not taken yet, what a load has found, and the list on the
screen. `PaidInv` says that each of them is a subset of the marks on the chain. Each
is filled from another or from the chain itself, and marks are never taken back
(`BillsStayAsCreated`, through `BillChain`), so that no delay, expiry or invalidation
matters.

*The bill just recorded.* `PageInv` follows the load that a split has started: its bill
is found, or is among the ids still to come, or a request failed (`missed`). What
makes the first step true is that `createBill` forgets the count in the very step that
starts the load: the load has to ask, and the chain has the bill. A late answer of an
older load may fill the cache with a smaller count meanwhile, but the load uses its
own answer.

*The share just settled.* The same argument does not give `InvalidatedAfterWrites`,
which is false: by the time the flags are looked up, a late answer may have filled
the cache again. What is true of it is `AskedIsHeard`. `PaidJobInv` says that the share a
load follows up on had its mark on chain before the load began, so that whatever the
chain answers to it says that it is paid.

*Coming to an end.* `Nearer` orders what a load goes through: the count, the bills in
the order of their ids, the flags, each of which leaves `sent` and then `heardYes` or
`heardNo`. A refresh of the card has at most three things to wait for (`StepsLeft`).
With `LoadingInv`, that the list says "loading" because of a load at work, this is
what `LoadingEnds` and `CardLoadingEnds` rest on besides fairness. `RefreshesComeNearer`
and `AnswersAreWhole` are stated with their proofs and are not among the runs'
properties.

*The card.* What a refresh shows in the end it has found in the cache when it began,
was told since, or made up when it was told nothing. `CardInv` therefore compares the
balance that a settle has led to with the balance on chain while the request is out,
and with the answer once it has come. It never compares it with the cache, which was
emptied before that refresh began and may since have been filled with less.

Whose balances are shown is a matter of what may still be shown: `OwnedInv` says that
every refresh that is waited for, the write under way, which will start one, and the
card itself are of the connected wallet or of one that left in the middle of
something. A refresh keeps its wallet, and a new one begins for the connected wallet or
for that of the write.

*The feed.* Events are logged in the order of their ledgers, so that a window of
ledgers is a stretch of the log, and so are the first `Limit` events of a window.
`FeedInv` says that what is shown, cached or on its way is the settlements of a stretch,
newest first; the log grows at its end only, so a stretch remains one.
`NewestFirstIsSorted` says what "newest first" is worth: every position once, in
falling order. `FeedShowsNewest` is false, and `AnswersAreWhole` is what holds instead:
an answer to a window of at most `Limit` events holds all the settlements of the
window, the newest first. So the limit is the only way to miss the newest one.

### Sums and smallest counterexamples (`SumTheorems`)

`SumTheorems` proves what the module `Functions` of the community modules leaves
unproved: that `SumFunction` over a finite set is an integer, is additive and
monotone, and changes by the difference when the function changes at one index.
`SumFunction` is a `CHOOSE` of a recursive function over sets, and induction over
data is out of the prover's reach, so the argument goes by smallest
counterexample: a measure into the integers exists that follows the recursion
(`MeasureExists`), it is unique (`FoldUnique`), and a set on which a claim fails
has a subset of least cardinality on which it fails (`SmallestSubset`). The same
argument for natural numbers (`LeastNatural`) serves the digits of `Amounts`.

### Only model-checked

Out of the prover's reach, and left to TLC: liveness (`EveryAttemptEnds`,
`LoadingEnds`, `CardLoadingEnds`, `FeedCatchesUp`) and the two properties with ENABLED
as they stand (`AllowanceViewIsSpendable`, `PayerCanAlwaysSettle`); their content is
proved as said above, and so are the parts of liveness that need no fairness: progress
at every step (`AnswersAreProgress`, `LoadsComeNearer`, `RefreshesComeNearer`) and, for the
panels, that there always is a step (`NoAttemptIsStuck`). The four properties of the
violation runs are false.

## 5. Plan

1. *Done*: the contracts (`StableToken`, its history, `BillSplit`), their abstract
   specifications (`Obligations`, `BillChain`) and the refinements.
2. *Done*: the write side (`SplitClient`, with `Amounts`) and the read side
   (`BillPage`, `WalletCard`, `EventFeed`).
3. *Done*: proofs of every safety invariant and action property that does not speak of
   ENABLED, and of both refinements.
4. *Done*: what holds in place of the properties that the violation runs refute
   (`AskedIsHeard`, `AnswersAreWhole`), the parts of liveness that need no fairness, and
   that what the read side takes for granted is what the write side does
   (`SuccessIsNew`, `PageKeepsItsChain`).

Of interest beyond this: editing the form and changing the wallet during an attempt
(see below), which would bring `SplitClient` and `BillPage` together in one state.

## 6. Not modelled

- Changing the wallet, or editing the form, while a split or a settle is under way,
  in `SplitClient`. The handlers work on what they captured; wallet changes during
  loads, refreshes and fetches are modelled on the read side.
- `decodeSimError` and all other wording: it chooses messages and changes no state.
- `getBillsByPayer` and `getBillsByCreator` of `contract.ts`, which nothing calls, and
  views that return a stored value unchanged.
- Token metadata and the token's own events, which nothing in the repository reads.
- Formatting, CSS, configuration values, build and deployment files.
- The XLM ledger, fees, storage rent and archival of persistent entries: outside the
  repository's code.
