--------------------------- MODULE MCPaymentService ---------------------------
(* Small instances of PaymentService for TLC. *)
EXTENDS PaymentService, TLC

CONSTANTS a1, a2, m1, m2, h1, t0, k1, k2, k3, k4, k5

\* The state after an account's first deposit of OpeningFunds, its record lapsed.
CONSTANT OpeningFunds

FundedInit ==
    /\ account = (a1 :> AccountImage(OpeningFunds, OpeningFunds))
    /\ merchant = (m1 :> 0)
    /\ authorization = [i \in {} |-> i]
    /\ entries = DepositEntries(t0, a1, OpeningFunds)
    /\ idem = [k \in {} |-> k]
    /\ CallInit
    /\ SignupInit
    /\ replica = Current

\* The same, with a hold of one cent of the merchant placed and its record lapsed.
HoldInit ==
    /\ account = (a1 :> AccountImage(OpeningFunds, OpeningFunds - 1))
    /\ merchant = (m1 :> 0)
    /\ authorization = (h1 :> AuthorizationItem(h1, a1, m1, 1, 0))
    /\ entries = DepositEntries(t0, a1, OpeningFunds)
    /\ idem = [k \in {} |-> k]
    /\ CallInit
    /\ SignupInit
    /\ replica = Current

FundedSpec == FundedInit /\ [][ServiceNext]_vars /\ Fairness
HoldSpec == HoldInit /\ [][ServiceNext]_vars /\ Fairness

\* Capture and void of one hold under three keys, a stranger's attempt, and two
\* deposits whose reads the others overtake.
ResolveRequests ==
    {ResolveRequest("capture", a1, h1, k1), ResolveRequest("capture", a1, h1, k2),
     ResolveRequest("void", a1, h1, k3), ResolveRequest("capture", a2, h1, k4),
     DepositRequest(a1, 1, k4), DepositRequest(a1, 1, k5)}

\* Two deposits that move one account's balances, and their keys used again for
\* other operations, as a client must not, and a body the schema refuses.
DepositRequests ==
    {DepositRequest(a1, 1, k1), DepositRequest(a1, 2, k2), DepositRequest(a1, 0, k3),
     AuthorizeRequest(a1, m1, 1, k2), ResolveRequest("void", a1, h1, k1)}

\* A user who signs up and deposits, once without a key.
OpeningRequests ==
    {DepositRequest(a1, 1, k1), DepositRequest(a1, 2, k2), DepositRequest(a1, 1, Nothing)}

\* The life of a hold, with another competing for the same funds, of a
\* merchant that may not be there yet.
LifecycleRequests ==
    {AuthorizeRequest(a1, m1, 2, k1), AuthorizeRequest(a1, m2, 1, k2),
     ResolveRequest("capture", a1, h1, k3), ResolveRequest("void", a1, h1, k4),
     DepositRequest(a1, 1, k5), MerchantRequest(m2)}

\* An empty ledger: the merchant and the account appear while they are asked
\* for, then a hold, its capture and a void.
StartRequests ==
    {MerchantRequest(m1), DepositRequest(a1, 1, k1), AuthorizeRequest(a1, m1, 1, k2),
     ResolveRequest("capture", a1, h1, k3), ResolveRequest("void", a1, h1, k4)}

\* One capture, retried, and a void, when records may lapse between.
CaptureTwice ==
    {ResolveRequest("capture", a1, h1, k1), ResolveRequest("void", a1, h1, k2)}

\* One authorization and its retry.
AuthorizeTwice == {AuthorizeRequest(a1, m1, 2, k1)}

\* One key, two bodies.
TwoBodies == {AuthorizeRequest(a1, m1, 1, k1), AuthorizeRequest(a1, m1, 2, k1)}

InterchangeableCalls == Permutations(Calls)

================================================================================
