------------------------------ MODULE LedgerTable ------------------------------
(***************************************************************************)
(* The single DynamoDB table behind PayLedger and the transactions that    *)
(* src/layers/shared/ledger.py commits against it.  Every mutation of the  *)
(* ledger is one TransactWriteItems call, atomic and serialisable, so each *)
(* is one action here; the interleaving of the Lambda invocations that     *)
(* build those calls from earlier, possibly stale, reads is the subject of *)
(* PaymentService.                                                         *)
(*                                                                         *)
(* An item collection is a function whose domain is the set of items that  *)
(* exist.  Amounts are whole cents.  The attributes no condition and no    *)
(* property looks at (names, created_at, updated_at, ttl) are left out.    *)
(***************************************************************************)
EXTENDS Integers, FiniteSets

CONSTANTS
    Accounts,          \* Cognito subs an account may be opened for
    Merchants,         \* merchant ids
    AuthorizationIds,  \* what uuid4 yields for authorizations
    TransactionIds,    \* what uuid4 yields for transactions
    Keys,              \* idempotency keys the clients send
    Amounts,           \* amounts a request may ask for
    Balances,          \* values a balance read from an account item may have
    Days               \* values of datetime.date.today()

ASSUME AmountsAssumption == Amounts \subseteq Int
ASSUME BalancesAssumption == Balances \subseteq Int
ASSUME DaysAssumption == Days \subseteq Nat

VARIABLES
    account,        \* ACCT#<id> / META
    merchant,       \* MERCHANT#<id> / META, its payable_balance
    authorization,  \* ACCT#<id> / AUTH#<created_at>#<authorization id>
    entries,        \* .../ TXN#<now>#<transaction id>#<seq>, immutable
    idem            \* IDEM#<key> / META

tableVars == <<account, merchant, authorization, entries, idem>>

--------------------------------------------------------------------------------
(* Items, requests and responses.                                            *)

Statuses == {"PENDING", "CAPTURED", "VOIDED", "EXPIRED", "REVERSED"}

\* A date in the model is a number of days; a hold lives for a week.
HoldDays == 7

\* (Definitions named ..._Fault are never used by the specification.  Each is the
\* definition below it with one plausible slip, by which a property is tested.)

ValidAmount_Fault(amt) == amt >= 0

\* The body schemas: `amount: int = Field(gt=0)`.
ValidAmount(amt) == amt > 0

\* A Put, or an Update of an item that may not exist: DynamoDB upserts.
Put(items, key, item) ==
    [x \in DOMAIN items \cup {key} |-> IF x = key THEN item ELSE items[x]]

AccountImage(current, available) ==
    [current_balance |-> current, available_balance |-> available]

AuthorizationItem(i, a, m, amt, today) ==
    [authorization_id |-> i, account_id |-> a, merchant_id |-> m, amount |-> amt,
     expires_at |-> today + HoldDays, status |-> "PENDING"]

AuthorizationResponse(auth, code) ==
    [status_code |-> code,
     body |-> [authorization_id |-> auth.authorization_id, status |-> auth.status,
               amount |-> auth.amount, merchant_id |-> auth.merchant_id]]

DepositResponse(image) == [status_code |-> 201, body |-> image]

\* get_model_hash of the two request schemas; capture and void send no request.
NoHash == <<>>
DepositHash(amt) == <<amt>>
AuthorizationHash(m, amt) == <<m, amt>>

IdempotencyRecord(hash, response) == [request_hash |-> hash, response |-> response]

Entry(txn, seq, party, type, amt, source) ==
    [transaction_id |-> txn, seq |-> seq, party |-> party, entry_type |-> type,
     amount |-> amt, source_auth_id |-> source]

DepositEntries_Fault(txn, a, amt) ==
    {Entry(txn, 0, <<"ACCOUNT", a>>, "DEBIT", amt, {})}

DepositEntries(txn, a, amt) ==
    {Entry(txn, 0, <<"ACCOUNT", a>>, "DEBIT", amt, {}),
     Entry(txn, 1, <<"EXTERNAL", "funding">>, "CREDIT", amt, {})}

CaptureEntries_Fault(txn, auth, a) ==
    {Entry(txn, 0, <<"ACCOUNT", a>>, "DEBIT", auth.amount, {auth.authorization_id}),
     Entry(txn, 1, <<"MERCHANT", auth.merchant_id>>, "CREDIT", auth.amount + 1,
           {auth.authorization_id})}

CaptureEntries(txn, auth, a) ==
    {Entry(txn, 0, <<"ACCOUNT", a>>, "DEBIT", auth.amount, {auth.authorization_id}),
     Entry(txn, 1, <<"MERCHANT", auth.merchant_id>>, "CREDIT", auth.amount,
           {auth.authorization_id})}

\* uuid4 never repeats.
NewTransactionId(txn) == \A e \in entries : e.transaction_id # txn
NewAuthorizationId(i) == i \notin DOMAIN authorization

--------------------------------------------------------------------------------
(* The ConditionExpressions, and the CancellationReasons of a transaction:   *)
(* the positions whose condition the table rejects.  A transaction commits   *)
(* exactly when that set is empty.                                           *)

SufficientFunds_Fault(a, amt) ==
    a \in DOMAIN account /\ account[a].current_balance >= amt

\* available_balance >= :amt, false too when there is no such account
SufficientFunds(a, amt) ==
    a \in DOMAIN account /\ account[a].available_balance >= amt

KeyUnused_Fault(k) == TRUE

\* attribute_not_exists(PK) on the idempotency record
KeyUnused(k) == k \notin DOMAIN idem

StillPending_Fault(i, a) ==
    i \in DOMAIN authorization /\ authorization[i].account_id = a

\* #status = :pending on the item at ACCT#<a> and the sort key that was read
StillPending(i, a) ==
    /\ i \in DOMAIN authorization
    /\ authorization[i].account_id = a
    /\ authorization[i].status = "PENDING"

BalanceAsRead_Fault(a, read) ==
    a \in DOMAIN account /\ account[a].available_balance = read.available_balance

BalanceAsRead_PostedOnly(a, read) ==
    a \in DOMAIN account /\ account[a].current_balance = read.current_balance

\* available_balance = :old_avail AND current_balance = :old_cur
BalanceAsRead(a, read) == a \in DOMAIN account /\ account[a] = read

Failed(position, condition) == IF condition THEN {} ELSE {position}

AuthorizeReasons(a, amt, k) ==
    Failed(0, SufficientFunds(a, amt)) \cup Failed(2, KeyUnused(k))

CaptureReasons_Fault(auth, a, k) == Failed(5, KeyUnused(k))

CaptureReasons(auth, a, k) ==
    Failed(4, StillPending(auth.authorization_id, a)) \cup Failed(5, KeyUnused(k))

VoidReasons_Fault(auth, a, k) == Failed(2, KeyUnused(k))

VoidReasons(auth, a, k) ==
    Failed(1, StillPending(auth.authorization_id, a)) \cup Failed(2, KeyUnused(k))

ExpireReasons_Fault(auth) == {}

ExpireReasons(auth) == Failed(1, StillPending(auth.authorization_id, auth.account_id))

DepositReasons_Fault(a, read, k) == Failed(0, BalanceAsRead(a, read))

DepositReasons(a, read, k) ==
    Failed(0, BalanceAsRead(a, read)) \cup Failed(3, KeyUnused(k))

--------------------------------------------------------------------------------
(* The transactions.                                                         *)

InsertAccount_Fault(a) ==
    /\ account' = Put(account, a, AccountImage(0, 0))
    /\ UNCHANGED <<merchant, authorization, entries, idem>>

InsertAccount(a) ==
    /\ a \notin DOMAIN account
    /\ account' = Put(account, a, AccountImage(0, 0))
    /\ UNCHANGED <<merchant, authorization, entries, idem>>

InsertMerchant(m) ==
    /\ m \notin DOMAIN merchant
    /\ merchant' = Put(merchant, m, 0)
    /\ UNCHANGED <<account, authorization, entries, idem>>

InsertAuthorization(i, a, m, amt, today, k) ==
    LET hold == AuthorizationItem(i, a, m, amt, today)
    IN  /\ NewAuthorizationId(i)
        /\ AuthorizeReasons(a, amt, k) = {}
        /\ account' = [account EXCEPT ![a].available_balance = @ - amt]
        /\ authorization' = Put(authorization, i, hold)
        /\ idem' = Put(idem, k, IdempotencyRecord(AuthorizationHash(m, amt),
                                                  AuthorizationResponse(hold, 201)))
        /\ UNCHANGED <<merchant, entries>>

\* `auth` is the image the handler read; only the status can have moved since.
CaptureAuthorization(auth, a, txn, k) ==
    LET i == auth.authorization_id
        m == auth.merchant_id
        captured == [auth EXCEPT !.status = "CAPTURED"]
    IN  /\ NewTransactionId(txn)
        /\ CaptureReasons(auth, a, k) = {}
        /\ account' = [account EXCEPT ![a].current_balance = @ - auth.amount]
        /\ merchant' = [merchant EXCEPT ![m] = @ + auth.amount]
        /\ entries' = entries \cup CaptureEntries(txn, auth, a)
        /\ authorization' = [authorization EXCEPT ![i].status = "CAPTURED"]
        /\ idem' = Put(idem, k, IdempotencyRecord(NoHash, AuthorizationResponse(captured, 200)))

VoidAuthorization(auth, a, k) ==
    LET i == auth.authorization_id
        voided == [auth EXCEPT !.status = "VOIDED"]
    IN  /\ VoidReasons(auth, a, k) = {}
        /\ account' = [account EXCEPT ![a].available_balance = @ + auth.amount]
        /\ authorization' = [authorization EXCEPT ![i].status = "VOIDED"]
        /\ idem' = Put(idem, k, IdempotencyRecord(NoHash, AuthorizationResponse(voided, 200)))
        /\ UNCHANGED <<merchant, entries>>

\* One iteration of update_expired_holds.
ExpireHold(auth) ==
    LET i == auth.authorization_id
    IN  /\ ExpireReasons(auth) = {}
        /\ account' = [account EXCEPT ![auth.account_id].available_balance = @ + auth.amount]
        /\ authorization' = [authorization EXCEPT ![i].status = "EXPIRED"]
        /\ UNCHANGED <<merchant, entries, idem>>

Deposit(a, amt, read, txn, k) ==
    LET image == AccountImage(read.current_balance + amt, read.available_balance + amt)
    IN  /\ NewTransactionId(txn)
        /\ DepositReasons(a, read, k) = {}
        /\ account' = [account EXCEPT ![a] = image]
        /\ entries' = entries \cup DepositEntries(txn, a, amt)
        /\ idem' = Put(idem, k, IdempotencyRecord(DepositHash(amt), DepositResponse(image)))
        /\ UNCHANGED <<merchant, authorization>>

\* DynamoDB's TTL deletes a record some time after its 24 hours.
LapseRecord(k) ==
    /\ k \in DOMAIN idem
    /\ idem' = [x \in DOMAIN idem \ {k} |-> idem[x]]
    /\ UNCHANGED <<account, merchant, authorization, entries>>

--------------------------------------------------------------------------------
(* The table on its own, driven by every transaction the handlers can build: *)
(* a merchant that get_merchant found, an authorization that was read and    *)
(* found to be the caller's, an account image that may be stale in any way.  *)

TableInit ==
    /\ account = [a \in {} |-> AccountImage(0, 0)]
    /\ merchant = [m \in {} |-> 0]
    /\ authorization = [i \in {} |-> i]
    /\ entries = {}
    /\ idem = [k \in {} |-> k]

CreateStep ==
    \/ \E a \in Accounts : InsertAccount(a)
    \/ \E m \in Merchants : InsertMerchant(m)

AuthorizeStep ==
    \E i \in AuthorizationIds, a \in Accounts, m \in DOMAIN merchant,
       amt \in Amounts, today \in Days, k \in Keys :
        ValidAmount(amt) /\ InsertAuthorization(i, a, m, amt, today, k)

CaptureStep ==
    \E i \in DOMAIN authorization, txn \in TransactionIds, k \in Keys :
        CaptureAuthorization(authorization[i], authorization[i].account_id, txn, k)

VoidStep ==
    \E i \in DOMAIN authorization, k \in Keys :
        VoidAuthorization(authorization[i], authorization[i].account_id, k)

ExpireStep == \E i \in DOMAIN authorization : ExpireHold(authorization[i])

DepositStep ==
    \E a \in Accounts, amt \in Amounts, read \in [current_balance : Balances,
                                                  available_balance : Balances],
       txn \in TransactionIds, k \in Keys :
        ValidAmount(amt) /\ Deposit(a, amt, read, txn, k)

LapseStep == \E k \in Keys : LapseRecord(k)

TableNext ==
    \/ CreateStep
    \/ AuthorizeStep
    \/ CaptureStep
    \/ VoidStep
    \/ ExpireStep
    \/ DepositStep
    \/ LapseStep

TableSpec == TableInit /\ [][TableNext]_tableVars

--------------------------------------------------------------------------------
(* What the ledger promises.  An amount is counted as a set of cents so that *)
(* sums over items are cardinalities.                                        *)

AuthorizationBody ==
    [authorization_id : AuthorizationIds, status : {"PENDING", "CAPTURED", "VOIDED"},
     amount : Nat \ {0}, merchant_id : Merchants]

Parties ==
    ({"ACCOUNT"} \X Accounts) \cup ({"MERCHANT"} \X Merchants) \cup {<<"EXTERNAL", "funding">>}

AccountType == [current_balance : Int, available_balance : Int]

AuthorizationType ==
    [authorization_id : AuthorizationIds, account_id : Accounts, merchant_id : Merchants,
     amount : Nat \ {0}, expires_at : Nat, status : Statuses]

EntryType ==
    [transaction_id : TransactionIds, seq : {0, 1}, party : Parties,
     entry_type : {"DEBIT", "CREDIT"}, amount : Nat \ {0},
     source_auth_id : {{}} \cup {{i} : i \in AuthorizationIds}]

RecordType ==
    [request_hash : {NoHash} \cup {DepositHash(amt) : amt \in Amounts}
                    \cup {AuthorizationHash(m, amt) : m \in Merchants, amt \in Amounts},
     response : [status_code : {200, 201}, body : AuthorizationBody \cup AccountType]]

\* Every item has the shape its writers give it, under the key it names, and
\* no amount in the ledger is zero or negative: what the schemas' gt=0
\* (authorization_schemas.py:12, deposit_schemas.py:9) is for.
TypeOK ==
    /\ DOMAIN account \subseteq Accounts
    /\ account \in [DOMAIN account -> AccountType]
    /\ DOMAIN merchant \subseteq Merchants
    /\ merchant \in [DOMAIN merchant -> Nat]
    /\ DOMAIN authorization \subseteq AuthorizationIds
    /\ authorization \in [DOMAIN authorization -> AuthorizationType]
    /\ \A i \in DOMAIN authorization :
          /\ authorization[i].authorization_id = i
          /\ authorization[i].account_id \in DOMAIN account
          /\ authorization[i].merchant_id \in DOMAIN merchant
    /\ entries \subseteq EntryType
    /\ DOMAIN idem \subseteq Keys
    /\ idem \in [DOMAIN idem -> RecordType]

\* The cents an account has reserved: one block per PENDING hold.
PendingHolds(a) ==
    {i \in DOMAIN authorization :
        authorization[i].account_id = a /\ authorization[i].status = "PENDING"}

HeldCents(a) == UNION {{i} \X (1..authorization[i].amount) : i \in PendingHolds(a)}

\* The cents a set of ledger entries moves.
PostedCents(es) == UNION {{<<e.transaction_id, e.seq>>} \X (1..e.amount) : e \in es}

EntriesOf(party) == {e \in entries : e.party = party}
DepositsTo(a) == {e \in EntriesOf(<<"ACCOUNT", a>>) : e.source_auth_id = {}}
CapturesFrom(a) == {e \in EntriesOf(<<"ACCOUNT", a>>) : e.source_auth_id # {}}

\* The posted balance is the available balance plus the PENDING holds: an
\* authorize, capture, void, expiry or deposit that moved the two balances
\* differently from the hold, or a lost update between two of them, breaks it.
HoldsBalance ==
    \A a \in DOMAIN account :
        account[a].current_balance
            = account[a].available_balance + Cardinality(HeldCents(a))

\* Funds are never promised twice: whatever transactions interleave, what is
\* left to authorize against is not negative (the guard of ledger.py:319).
NoOverdraft == \A a \in DOMAIN account : account[a].available_balance >= 0

\* The two denormalised balances are what the immutable entries add up to:
\* an account's is what was deposited less what was captured, a merchant's
\* is what was captured for it.
BalancesBackedByEntries ==
    /\ \A a \in DOMAIN account :
          account[a].current_balance = Cardinality(PostedCents(DepositsTo(a)))
                                       - Cardinality(PostedCents(CapturesFrom(a)))
    /\ \A m \in DOMAIN merchant :
          merchant[m] = Cardinality(PostedCents(EntriesOf(<<"MERCHANT", m>>)))

\* Every transaction's entries sum to zero (README.md, first ledger invariant):
\* each leg has the one opposite leg of the same amount on another party.
TransactionsBalance ==
    \A e \in entries :
        LET others == {f \in entries : f.transaction_id = e.transaction_id /\ f # e}
        IN  /\ Cardinality(others) = 1
            /\ \A f \in others : /\ f.amount = e.amount
                                 /\ f.entry_type # e.entry_type
                                 /\ f.party # e.party

\* A CAPTURED hold has exactly one transfer behind it, of the held amount,
\* from the account that placed it to the merchant it was placed for; a hold
\* in any other state has none.
CaptureIsOneTransfer ==
    \A i \in DOMAIN authorization :
        LET auth == authorization[i]
            legs == {e \in entries : i \in e.source_auth_id}
        IN  IF auth.status = "CAPTURED"
            THEN /\ Cardinality(legs) = 2
                 /\ \A e, f \in legs : e.transaction_id = f.transaction_id
                 /\ \A e \in legs : e.amount = auth.amount
                 /\ \E e \in legs : e.party = <<"ACCOUNT", auth.account_id>>
                                   /\ e.entry_type = "DEBIT"
                 /\ \E e \in legs : e.party = <<"MERCHANT", auth.merchant_id>>
                                   /\ e.entry_type = "CREDIT"
            ELSE legs = {}

IsAuthorizationBody(body) == "authorization_id" \in DOMAIN body

\* A stored response never lies: the authorization it shows exists as shown,
\* and a capture or void it confirms is the state that authorization is in,
\* however long afterwards the record is replayed.
RecordsTellTheTruth ==
    \A k \in DOMAIN idem :
        LET body == idem[k].response.body
        IN  IsAuthorizationBody(body) =>
                /\ body.authorization_id \in DOMAIN authorization
                /\ LET auth == authorization[body.authorization_id]
                   IN  /\ auth.amount = body.amount
                       /\ auth.merchant_id = body.merchant_id
                       /\ body.status # "PENDING" => auth.status = body.status

\* One effect has one record: no two live keys confirm the same hold, the
\* same capture or the same void, even when several keys raced for it.
OneRecordPerEffect ==
    \A k, l \in DOMAIN idem :
        /\ k # l
        /\ IsAuthorizationBody(idem[k].response.body)
        => idem[k].response # idem[l].response

\* A hold leaves PENDING at most once, never loses or changes its terms, and
\* is never deleted; a late sweep or void cannot overwrite a capture.
HoldsResolveOnce ==
    [][\A i \in DOMAIN authorization :
          /\ i \in DOMAIN authorization'
          /\ [authorization'[i] EXCEPT !.status = "PENDING"]
                = [authorization[i] EXCEPT !.status = "PENDING"]
          /\ authorization[i].status # "PENDING"
                => authorization'[i].status = authorization[i].status]_tableVars

\* An effect a client can ask for and its idempotency record are one write
\* under a key that had none: no hold, capture, void or posting happens
\* without the record, and no key that still has its record gets a second one.
EffectsAreRecorded ==
    [][LET resolved == {i \in DOMAIN authorization :
                           authorization'[i].status # authorization[i].status}
           placed == DOMAIN authorization' \ DOMAIN authorization
           expired == {i \in resolved : authorization'[i].status = "EXPIRED"}
       IN  entries' # entries \/ placed \cup (resolved \ expired) # {}
              => \E k \in Keys : /\ k \notin DOMAIN idem
                                /\ DOMAIN idem' = DOMAIN idem \cup {k}]_tableVars

--------------------------------------------------------------------------------
(* The promise the table keeps: its items, read as a card ledger.            *)

HoldState ==
    [PENDING |-> "held", CAPTURED |-> "settled", VOIDED |-> "released", EXPIRED |-> "expired"]

AsHold(auth) ==
    [account |-> auth.account_id, merchant |-> auth.merchant_id, amount |-> auth.amount,
     state |-> HoldState[auth.status]]

\* The effect that a stored response confirms.
AsEffect(body) ==
    IF IsAuthorizationBody(body)
    THEN <<HoldState[body.status], body.authorization_id>>
    ELSE <<"funded", body.current_balance, body.available_balance>>

Posted == [a \in DOMAIN account |-> account[a].current_balance]
Holds == [i \in DOMAIN authorization |-> AsHold(authorization[i])]
Effects == [k \in DOMAIN idem |-> AsEffect(idem[k].response.body)]

Card == INSTANCE CardLedger
            WITH posted <- Posted, payable <- merchant, hold <- Holds, answered <- Effects

\* Every transaction, built from whatever stale read, is one step of the promise
\* in CardLedger or changes nothing a client can see.  In it an account's
\* available funds are derived from its holds and the amounts are added to what
\* is there: a lost update, funds reserved twice, a hold settled and released
\* or a key answered twice is no step of it.
KeepsThePromise == Card!Spec

================================================================================
