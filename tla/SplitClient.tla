---------------------------- MODULE SplitClient ----------------------------
(***************************************************************************)
(* The write side of the front end over the contracts: the split and the   *)
(* settle panel of App.tsx, each running the pipeline of contract.ts       *)
(* (load account, simulate, sign, send, wait) for one wallet, and the      *)
(* network between them and the chain.                                     *)
(*                                                                         *)
(* JavaScript yields at every await, so each await is a step of its own    *)
(* and the two panels, the network, other wallets and the same wallet in   *)
(* another tab interleave between them.  A transaction carries the         *)
(* sequence number read when it was built and is applied, if it is, when   *)
(* that number is the account's next one.  A confirmation that does not    *)
(* come in time is given up; the transaction is not.                       *)
(*                                                                         *)
(* The XLM ledger is left out: a payment is what the network reads off the *)
(* amounts the page wrote, and whether it was applied.                     *)
(***************************************************************************)
EXTENDS BillSplit, Amounts

CONSTANTS
    User,           \* the connected wallet
    Forms,          \* what the split form may hold when it is sent
    MaxMemoText,    \* bytes Memo.text takes, and code units the field takes
    MaxOps,         \* payments sendXlmSplit takes
    MaxI64,         \* largest amount of a payment
    PollLimit,      \* rounds of the confirmation loop before it gives up
    MaxTx           \* bound: transactions built

\* A memo of so many UTF-16 code units, which take this many bytes each; of a
\* blank one trim() leaves nothing.
Memo == [units : Nat, width : 1 .. 3, blank : BOOLEAN]

ASSUME ClientAssumption ==
    /\ User \in Address
    /\ Forms \subseteq [payers : Seq(Address), total : Text, memo : Memo]
    /\ \A form \in Forms : form.memo.units <= MaxMemoText
    /\ MaxMemoText \in 0 .. MaxMemoLen     \* 28 and 80
    /\ MaxOps \in Nat /\ MaxI64 \in 0 .. MaxI128
    /\ PollLimit \in Nat /\ MaxTx \in Nat

VARIABLES
    accountSeq,     \* sequence number of User's account
    txs,            \* transactions built so far, in order
    panel           \* what each panel is doing

clientVars == <<billVars, accountSeq, txs, panel>>

Panels == {"split", "settle"}

\* "xlm" pays the form's payees in XLM, the others call the registry.
Calls == {"xlm", "create_bill", "settle"}

Working == {"load", "simulate", "sign", "send", "confirm"}

Categories == {"validation", "rejected", "submission", "rpc", "simulation",
               "other"}     \* what is thrown without being a ContractError

NoForm == [payers |-> <<>>, total |-> [neg |-> FALSE, whole |-> 0, frac |-> <<>>],
           memo |-> [units |-> 0, width |-> 1, blank |-> TRUE]]

Idle == [phase |-> "idle", call |-> "xlm", form |-> NoForm, bill |-> 0,
         record |-> FALSE, cur |-> 0, waited |-> 0, error |-> "other",
         result |-> 0]

Bytes(memo) == memo.units * memo.width

\* The summary exists and nothing is wrong with the form.
ValidForm(form) == form.payers # <<>> /\ ValidAmount(form.total)

\* The amounts of the form's payments as they are written, one per payer.
Payments(form) ==
    LET shares == ComputeShares(Worth(form.total), Len(form.payers))
    IN  [k \in DOMAIN form.payers |-> StroopsToXlm(shares[k])]

\* The share the page records, the same for all.
Recorded(form) == BaseShare(Worth(form.total), Len(form.payers))

\* A status of kind 'progress': the panel's button is disabled.
InProgress(p) == panel[p].phase \in Working

\* Transactions that panels at work may still build.
Reserved == 2 * Cardinality({p \in Panels : InProgress(p)})

-----------------------------------------------------------------------------
\* One panel.

Become(p, job) == panel' = [panel EXCEPT ![p] = job]

Go(p, phase) == Become(p, [panel[p] EXCEPT !.phase = phase])

Fail(p, category) ==
    Become(p, [panel[p] EXCEPT !.phase = "failed", !.error = category])

Mark(i, state) == txs' = [txs EXCEPT ![i].state = state]

StartSplit(form, record) ==
    /\ ~InProgress("split")
    /\ ValidForm(form)
    /\ Len(txs) + Reserved + 2 <= MaxTx
    /\ Become("split", [Idle EXCEPT !.phase = "load", !.form = form,
                                    !.record = record])
    /\ UNCHANGED <<billVars, accountSeq, txs>>

\* The settled flags on the page may be stale: any bill that lists the
\* wallet may be offered for settling.
StartSettle(id) ==
    /\ ~InProgress("settle")
    /\ Len(txs) + Reserved + 1 <= MaxTx
    /\ id \in DOMAIN bills
    /\ IsPayer(id, User)
    /\ Become("settle", [Idle EXCEPT !.phase = "load", !.call = "settle",
                                     !.bill = id])
    /\ UNCHANGED <<billVars, accountSeq, txs>>

\* Mutant of Payable: the memo is measured in code units.
PayableByUnits(form) ==
    /\ form.memo.blank \/ form.memo.units <= MaxMemoText
    /\ \A k \in DOMAIN form.payers : Worth(Payments(form)[k]) \in 1 .. MaxI64

\* What the SDK accepts while the payments are put together.  The cut to
\* MaxMemoText code units leaves the memo as it is, which the field has
\* limited to as many; its bytes are counted here.  A blank memo is not put
\* into the payment at all.
Payable(form) ==
    /\ form.memo.blank \/ Bytes(form.memo) <= MaxMemoText
    /\ \A k \in DOMAIN form.payers : Worth(Payments(form)[k]) \in 1 .. MaxI64

\* The transaction of a panel's call, as it is built.
Transaction(job) ==
    [call |-> job.call, form |-> job.form, bill |-> job.bill,
     share |-> IF job.call = "create_bill" THEN Recorded(job.form) ELSE 0,
     seq |-> accountSeq + 1, state |-> "built", result |-> 0]

\* Mutant of Build: goes on with the transaction built before.
BuildKeepsOld(p) ==
    /\ txs' = Append(txs, Transaction(panel[p]))
    /\ Go(p, IF panel[p].call = "xlm" THEN "sign" ELSE "simulate")

Build(p) ==
    /\ txs' = Append(txs, Transaction(panel[p]))
    /\ Become(p, [panel[p] EXCEPT
                    !.phase = IF panel[p].call = "xlm" THEN "sign" ELSE "simulate",
                    !.cur = Len(txs) + 1])

LoadAccount(p) ==
    LET payments == panel[p].call = "xlm"
        form == panel[p].form
    IN
    /\ panel[p].phase = "load"
    /\ UNCHANGED <<billVars, accountSeq>>
    /\ \/ payments /\ Len(form.payers) > MaxOps
          /\ Fail(p, "validation") /\ UNCHANGED txs
       \/ payments /\ Len(form.payers) <= MaxOps /\ ~Payable(form)
          /\ Fail(p, "other") /\ UNCHANGED txs
       \/ (payments => Len(form.payers) <= MaxOps /\ Payable(form))
          /\ Build(p)
       \/ Fail(p, "rpc") /\ UNCHANGED txs       \* the account did not load

ChainCall(t) ==
    \/ /\ t.call = "create_bill"
       /\ CreateBill(User, User, t.form.payers, t.share, Bytes(t.form.memo))
    \/ /\ t.call = "settle"
       /\ Settle(User, t.bill, User)

\* Runs the call on the state of the moment, without committing it.
Simulate(p) ==
    /\ panel[p].phase = "simulate"
    /\ UNCHANGED <<billVars, accountSeq, txs>>
    /\ \/ ENABLED ChainCall(txs[panel[p].cur]) /\ Go(p, "sign")
       \/ ~ENABLED ChainCall(txs[panel[p].cur]) /\ Fail(p, "simulation")
       \/ Fail(p, "other")                      \* the request failed

Sign(p) ==
    /\ panel[p].phase = "sign"
    /\ Go(p, "send") \/ Fail(p, "rejected")
    /\ UNCHANGED <<billVars, accountSeq, txs>>

\* Mutant of Send: starts over as long as the server says TRY_AGAIN_LATER.
SendAgain(p) ==
    /\ panel[p].phase = "send"
    /\ UNCHANGED <<billVars, accountSeq>>
    /\ \/ Mark(panel[p].cur, "pending")
          /\ Become(p, [panel[p] EXCEPT !.phase = "confirm", !.waited = 0])
       \/ panel[p].call # "xlm" /\ UNCHANGED txs /\ Go(p, "load")
       \/ UNCHANGED txs /\ Fail(p, "submission")

\* Horizon answers a payment only when it was applied, refused or timed out;
\* the RPC server answers at once.  Whatever goes wrong with Horizon, a lost
\* answer included, is thrown as a submission error.
Send(p) ==
    LET cur == panel[p].cur
        payments == panel[p].call = "xlm"
    IN
    /\ panel[p].phase = "send"
    /\ UNCHANGED <<billVars, accountSeq>>
    /\ \/ Mark(cur, "pending")                  \* PENDING
          /\ Become(p, [panel[p] EXCEPT !.phase = "confirm", !.waited = 0])
       \/ ~payments /\ UNCHANGED txs            \* TRY_AGAIN_LATER
          /\ Become(p, [panel[p] EXCEPT !.phase = "confirm", !.waited = 0])
       \/ UNCHANGED txs                         \* ERROR
          /\ Fail(p, "submission")
       \/ (UNCHANGED txs \/ Mark(cur, "pending"))   \* no answer
          /\ Fail(p, IF payments THEN "submission" ELSE "other")

\* Mutant of HearSuccess: takes the newest bill for the one just created.
HearSuccessNewest(p) ==
    /\ panel[p].phase = "confirm"
    /\ txs[panel[p].cur].state = "SUCCESS"
    /\ Become(p, IF panel[p].call = "xlm" /\ panel[p].record
                 THEN [panel[p] EXCEPT !.phase = "load", !.call = "create_bill"]
                 ELSE [panel[p] EXCEPT !.phase = "success", !.result = billCount])
    /\ UNCHANGED <<billVars, accountSeq, txs>>

\* Mutant of HearSuccess: looks the bill up by what it says.
HearSuccessByContent(p) ==
    LET form  == panel[p].form
        alike == {id \in DOMAIN bills : /\ bills[id].creator = User
                                        /\ bills[id].payers = form.payers}
        first == CHOOSE id \in alike : \A n \in alike : id <= n
    IN
    /\ panel[p].phase = "confirm"
    /\ txs[panel[p].cur].state = "SUCCESS"
    /\ Become(p, IF panel[p].call = "xlm" /\ panel[p].record
                 THEN [panel[p] EXCEPT !.phase = "load", !.call = "create_bill"]
                 ELSE [panel[p] EXCEPT !.phase = "success",
                         !.result = IF panel[p].call = "create_bill"
                                    THEN first ELSE 0])
    /\ UNCHANGED <<billVars, accountSeq, txs>>

\* After the payments of a form to be recorded comes its create_bill.
HearSuccess(p) ==
    /\ panel[p].phase = "confirm"
    /\ txs[panel[p].cur].state = "SUCCESS"
    /\ Become(p, IF panel[p].call = "xlm" /\ panel[p].record
                 THEN [panel[p] EXCEPT !.phase = "load", !.call = "create_bill"]
                 ELSE [panel[p] EXCEPT !.phase = "success",
                                       !.result = txs[panel[p].cur].result])
    /\ UNCHANGED <<billVars, accountSeq, txs>>

HearFailure(p) ==
    /\ panel[p].phase = "confirm"
    /\ txs[panel[p].cur].state = "FAILED"
    /\ Fail(p, "submission")
    /\ UNCHANGED <<billVars, accountSeq, txs>>

\* Mutant of GiveUp: records the bill although Horizon did not confirm.
GiveUpRecords(p) ==
    /\ panel[p].phase = "confirm"
    /\ \/ /\ panel[p].call = "xlm"
          /\ Become(p, [panel[p] EXCEPT !.phase = "load", !.call = "create_bill"])
       \/ panel[p].waited > PollLimit /\ Fail(p, "rpc")
    /\ UNCHANGED <<billVars, accountSeq, txs>>

\* Mutant of GiveUp: reports a timeout as a refused submission.
GiveUpAsRefused(p) ==
    /\ panel[p].phase = "confirm"
    /\ panel[p].call = "xlm" \/ panel[p].waited > PollLimit
    /\ Fail(p, "submission")
    /\ UNCHANGED <<billVars, accountSeq, txs>>

\* Mutant of GiveUp: the loop has no limit.
GiveUpNever(p) ==
    /\ panel[p].phase = "confirm"
    /\ panel[p].call = "xlm" /\ Fail(p, "submission")
    /\ UNCHANGED <<billVars, accountSeq, txs>>

\* The node may still say NOT_FOUND when the transaction was just applied.
GiveUp(p) ==
    /\ panel[p].phase = "confirm"
    /\ \/ panel[p].call = "xlm" /\ Fail(p, "submission")
       \/ panel[p].waited > PollLimit /\ Fail(p, "rpc")
    /\ UNCHANGED <<billVars, accountSeq, txs>>

PollThrows(p) ==
    /\ panel[p].phase = "confirm"
    /\ panel[p].call # "xlm"
    /\ Fail(p, "other")
    /\ UNCHANGED <<billVars, accountSeq, txs>>

-----------------------------------------------------------------------------
\* The network and everybody else.

\* A registry call may still fail when it is applied although it passed the
\* simulation: the chain, and with it the call's footprint, has moved on.
Apply(i) ==
    /\ txs[i].state = "pending"
    /\ txs[i].seq = accountSeq + 1
    /\ accountSeq' = accountSeq + 1
    /\ \/ txs[i].call = "xlm" /\ Mark(i, "SUCCESS") /\ UNCHANGED billVars
       \/ /\ ChainCall(txs[i])
          /\ txs' = [txs EXCEPT ![i].state = "SUCCESS", ![i].result = billCount']
       \/ Mark(i, "FAILED") /\ UNCHANGED billVars
    /\ UNCHANGED panel

\* It expires (setTimeout(60)) or the network loses it.
Drop(i) ==
    /\ txs[i].state = "pending"
    /\ Mark(i, "dropped")
    /\ UNCHANGED <<billVars, accountSeq, panel>>

\* Time passes for a loop that waits.
Tick(p) ==
    /\ panel[p].phase = "confirm"
    /\ panel[p].call # "xlm"
    /\ panel[p].waited <= PollLimit
    /\ Become(p, [panel[p] EXCEPT !.waited = @ + 1])
    /\ UNCHANGED <<billVars, accountSeq, txs>>

\* The same wallet in another tab or device.
OtherTab ==
    /\ RegistryCall(User)
    /\ accountSeq' = accountSeq + 1
    /\ UNCHANGED <<txs, panel>>

OtherWallet ==
    /\ \E auth \in Address \ {User} :
          \/ RegistryCall(auth)
          \/ TokenCall(auth) /\ UNCHANGED registryVars
    /\ UNCHANGED <<accountSeq, txs, panel>>

-----------------------------------------------------------------------------

ClientInit ==
    /\ BillInit
    /\ accountSeq = 0
    /\ txs = <<>>
    /\ panel = [p \in Panels |-> Idle]

\* What is answered in the end, by the code, the servers or the user.
Proceed(p) ==
    \/ LoadAccount(p)
    \/ Simulate(p)
    \/ Sign(p)
    \/ Send(p)
    \/ HearSuccess(p)
    \/ HearFailure(p)
    \/ GiveUp(p)

ClientNext ==
    \/ \E form \in Forms, record \in BOOLEAN : StartSplit(form, record)
    \/ \E id \in 1 .. MaxU32 : StartSettle(id)
    \/ \E p \in Panels : Proceed(p) \/ PollThrows(p) \/ Tick(p)
    \/ \E i \in DOMAIN txs : Apply(i) \/ Drop(i)
    \/ OtherTab
    \/ OtherWallet

\* Every await is answered at some time, by a failure if nothing else, the
\* wallet's prompt is signed or dismissed, and time passes.  Nothing is
\* assumed of the network: a transaction may stay pending for ever.
ClientFairness ==
    \A p \in Panels : WF_clientVars(Proceed(p)) /\ WF_clientVars(Tick(p))

ClientSpec == ClientInit /\ [][ClientNext]_clientVars /\ ClientFairness

-----------------------------------------------------------------------------

TxRecord == [call : Calls, form : Forms \cup {NoForm}, bill : 0 .. MaxU32,
             share : Nat, seq : Nat,
             state : {"built", "pending", "SUCCESS", "FAILED", "dropped"},
             result : 0 .. MaxU32]

(* The page is always in one of its states; whatever waits for an answer   *)
(* has a transaction it waits for, and the "settle" panel only settles.    *)
ClientTypeOK ==
    /\ txs \in Seq(TxRecord)
    /\ \A p \in Panels :
          /\ panel[p].phase \in Working \cup {"idle", "success", "failed"}
          /\ panel[p].error \in Categories
          /\ panel[p].call \in IF p = "split" THEN {"xlm", "create_bill"}
                               ELSE {"xlm", "settle"}
          /\ panel[p].phase \in {"simulate", "sign", "send", "confirm"} =>
                /\ panel[p].cur \in DOMAIN txs
                /\ txs[panel[p].cur].call = panel[p].call

\* Transactions of a call with these contents that were applied.
Applied(call, form, id) ==
    {i \in DOMAIN txs : /\ txs[i].call = call /\ txs[i].form = form
                        /\ txs[i].bill = id /\ txs[i].state = "SUCCESS"}

(* A success banner is true: the payments were applied; the bill it names  *)
(* is on chain and is this form's bill of this wallet, whoever else        *)
(* creates bills meanwhile; the settled share is marked.                   *)
SuccessIsReal ==
    /\ panel["split"].phase = "success" =>
          LET job == panel["split"] IN
          /\ Applied("xlm", job.form, 0) # {}
          /\ job.record => /\ job.result \in DOMAIN bills
                           /\ bills[job.result].creator = User
                           /\ bills[job.result].payers = job.form.payers
                           /\ bills[job.result].share = Recorded(job.form)
    /\ panel["settle"].phase = "success" =>
          <<panel["settle"].bill, User>> \in settled

(* No bill is recorded for money that was not sent: of each form at most   *)
(* as many bills are created as payments were applied, however often an    *)
(* attempt fails half way and is repeated.                                 *)
BillsArePaidFirst ==
    \A form \in Forms :
        Cardinality(Applied("create_bill", form, 0))
            <= Cardinality(Applied("xlm", form, 0))

\* What the network reads off the form's payments and moves.
Moved(form) == [k \in DOMAIN form.payers |-> Worth(Payments(form)[k])]

(* No stroop is lost or made up between the text typed into the form and   *)
(* the texts the network reads: rounding, padding and stripping of zeros   *)
(* included, the payments add up to the total.                             *)
PaymentsAddUp ==
    \A i \in DOMAIN txs :
        txs[i].call = "xlm" =>
            SumFunction(Moved(txs[i].form)) = Worth(txs[i].form.total)

(* What a bill says of its payers was paid before: each got at least the   *)
(* share that is recorded, and less than a stroop per payer was paid over. *)
RecordedIsPaid ==
    \A i \in DOMAIN txs :
        (txs[i].call = "create_bill" /\ txs[i].state = "SUCCESS") =>
            LET form  == txs[i].form
                n     == Len(form.payers)
                share == bills[txs[i].result].share
            IN  \E j \in 1 .. i - 1 :
                    /\ j \in Applied("xlm", form, 0)
                    /\ \A k \in 1 .. n : Moved(txs[j].form)[k] >= share
                    /\ SumFunction(Moved(txs[j].form)) - n * share \in 0 .. n - 1

(* What is paid for can be recorded, but for two kinds of forms: those     *)
(* with more payers than the registry takes, and those with a blank memo   *)
(* of more bytes than it takes, which the payment leaves out and the call  *)
(* sends.  No share and no other memo is refused after the payment.        *)
PaidFormsAreRecordable ==
    \A i \in DOMAIN txs :
        (txs[i].call = "xlm" /\ txs[i].state = "SUCCESS") =>
            LET form == txs[i].form IN
            \/ ValidBill(form.payers, Recorded(form), Bytes(form.memo))
            \/ Len(form.payers) > MaxPayers
            \/ form.memo.blank /\ Bytes(form.memo) > MaxMemoLen

(* Settling again after a timeout is harmless: of all settle transactions  *)
(* sent for a bill, in this page, at most one is ever applied.             *)
SettledAtMostOnce ==
    \A id \in DOMAIN bills : Cardinality(Applied("settle", NoForm, id)) <= 1

\* The attempt ended in an error of this category and its last transaction
\* may have taken effect, or may still.
Effective(p, category) ==
    /\ panel[p].phase = "failed"
    /\ panel[p].error = category
    /\ panel[p].cur # 0
    /\ txs[panel[p].cur].call = panel[p].call
    /\ txs[panel[p].cur].state \in {"pending", "SUCCESS"}

(* When a registry call is reported as rejected, refused or failing in     *)
(* simulation, it has had no effect and never will; only a timeout (rpc)   *)
(* or a broken connection leaves that open.                                *)
ErrorsLeaveNothing ==
    \A p \in Panels, category \in {"validation", "rejected", "simulation", "submission"} :
        panel[p].call # "xlm" => ~Effective(p, category)

(* "Submission rejected" is what it says, for the XLM payments too.        *)
SubmissionRejectedIsTrue ==
    \A p \in Panels : ~Effective(p, "submission")

\* Answers, and rounds of the confirmation loop, that a leg may still take.
LeftOfLeg(job) ==
    CASE job.phase = "load"     -> PollLimit + 6
      [] job.phase = "simulate" -> PollLimit + 5
      [] job.phase = "sign"     -> PollLimit + 4
      [] job.phase = "send"     -> PollLimit + 3
      [] job.phase = "confirm"  -> PollLimit + 2 - job.waited
      [] OTHER                  -> 0

\* And an attempt, which may have its create_bill still to come.
StepsLeft(job) ==
    LeftOfLeg(job)
        + IF job.phase \in Working /\ job.call = "xlm" /\ job.record
          THEN PollLimit + 6 ELSE 0

(* No loop, retry or second leg goes on for ever: whatever happens to a    *)
(* panel at work, an answer, a failure or a round of the confirmation      *)
(* loop, brings the attempt nearer to its end, whoever else moves.         *)
AnswersAreProgress ==
    [][\A p \in Panels :
          InProgress(p) => \/ panel'[p] = panel[p]
                           \/ StepsLeft(panel'[p]) < StepsLeft(panel[p])]_clientVars

(* The button comes back: every attempt ends in success or in an error     *)
(* even if the network drops or never applies the transaction.             *)
EveryAttemptEnds == \A p \in Panels : InProgress(p) ~> ~InProgress(p)
=============================================================================
