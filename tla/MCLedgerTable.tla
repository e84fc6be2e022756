---------------------------- MODULE MCLedgerTable ----------------------------
(* Small instances of LedgerTable for TLC. *)
EXTENDS LedgerTable, TLC

\* The ids uuid4 draws, the merchants and the keys are interchangeable.
Interchangeable ==
    Permutations(AuthorizationIds) \cup Permutations(TransactionIds)
    \cup Permutations(Keys) \cup Permutations(Accounts) \cup Permutations(Merchants)

================================================================================
