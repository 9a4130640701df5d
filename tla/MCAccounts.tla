----------------------------- MODULE MCAccounts -----------------------------
(***************************************************************************)
(* Accounts for TLC: two payouts that fit the limit one by one but not     *)
(* together, and as many requests as the .cfg names.                       *)
(***************************************************************************)
EXTENDS Accounts, TLC

CONSTANTS t1, t2

MCAmount == t1 :> 2 @@ t2 :> 1
MCLimits == {3, 4}

(* Profiles and wallets; then adjustments, and then limits, against two    *)
(* payouts; and any two requests against one.                              *)
MCScenes == {
    [txns |-> {}, most |-> 3, kinds |-> {"wallet", "profile"}],
    [txns |-> {t1, t2}, most |-> 2, kinds |-> {"adjust"}],
    [txns |-> {t1, t2}, most |-> 2, kinds |-> {"limit"}],
    [txns |-> {t1}, most |-> 2,
     kinds |-> {"wallet", "adjust", "profile", "limit"}]}

(* Two payouts, and nobody else.                                           *)
MCPayoutsOnly == {[txns |-> {t1, t2}, most |-> 0, kinds |-> {}]}

RequestSymmetry == Permutations(Requests) \cup Permutations(Currencies)
=============================================================================
