-------------------------- MODULE PayoutRefinement --------------------------
(* How the states of PayoutPipeline map to those of the abstract ledger:   *)
(* the balance is MongoDB's until Redis has it, a payout is paid when its  *)
(* amount has been deducted and declined when the gateway turned it down.  *)
EXTENDS PayoutPipeline

LedgerBalance ==
    [u \in Users |-> IF redis[u] = NoKey THEN mongo[u] ELSE redis[u]]

LedgerOutcome ==
    [t \in Txns |-> IF deducted[t] > 0 THEN "paid"
                    ELSE IF pc[t] = "rejected" THEN "declined"
                    ELSE "open"]

Ledger == INSTANCE PayoutLedger
          WITH balance <- LedgerBalance, outcome <- LedgerOutcome

(* Undisturbed, the pipeline of initiatePayout and processMessage          *)
(* implements the ledger: each payout is paid at most once, from a balance *)
(* that covers it, or declined, and nothing else moves a balance.          *)
ImplementsLedger == Ledger!LedgerSpec
=============================================================================
