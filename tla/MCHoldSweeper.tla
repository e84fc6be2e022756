----------------------------- MODULE MCHoldSweeper -----------------------------
(* Small instances of HoldSweeper for TLC. *)
EXTENDS HoldSweeper, TLC

CONSTANTS a1, m1, t0

\* An account funded with two cents, its deposit's record lapsed, and a merchant.
FundedSweepInit ==
    /\ account = (a1 :> AccountImage(2, 2))
    /\ merchant = (m1 :> 0)
    /\ authorization = [i \in {} |-> i]
    /\ entries = DepositEntries(t0, a1, 2)
    /\ idem = [k \in {} |-> k]
    /\ ClockInit

FundedSweepSpec == FundedSweepInit /\ [][SweeperNext]_vars /\ Fairness

Interchangeable ==
    Permutations(Sweepers) \cup Permutations(AuthorizationIds) \cup Permutations(TransactionIds \ {t0})

================================================================================
