---------------------------- MODULE PayoutLedger ----------------------------
(***************************************************************************)
(* What the payout pipeline promises, with no lock, no queue and no worker:*)
(* a payout is asked for, then either paid, once, from a balance that      *)
(* covers it, or turned down; nothing else moves a balance.                *)
(***************************************************************************)
EXTENDS Integers

CONSTANTS Users, Txns, Owner, Amount, InitBalance

VARIABLES
    balance,    \* balance[u]: what user u has
    outcome     \* outcome[t]: "open", "paid" or "declined"

ledger == <<balance, outcome>>

LedgerInit ==
    /\ balance = InitBalance
    /\ outcome = [t \in Txns |-> "open"]

Pay(t) ==
    /\ outcome[t] = "open"
    /\ balance[Owner[t]] >= Amount[t]
    /\ balance' = [balance EXCEPT ![Owner[t]] = @ - Amount[t]]
    /\ outcome' = [outcome EXCEPT ![t] = "paid"]

Decline(t) ==
    /\ outcome[t] = "open"
    /\ outcome' = [outcome EXCEPT ![t] = "declined"]
    /\ UNCHANGED balance

LedgerNext == \E t \in Txns : Pay(t) \/ Decline(t)

LedgerSpec == LedgerInit /\ [][LedgerNext]_ledger
=============================================================================
