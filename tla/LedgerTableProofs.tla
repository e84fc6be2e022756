-------------------------- MODULE LedgerTableProofs ---------------------------
(***************************************************************************)
(* Theorems about LedgerTable, for every set of accounts, merchants, keys  *)
(* and amounts.                                                            *)
(***************************************************************************)
EXTENDS LedgerTable, FiniteSetTheorems, TLAPS

--------------------------------------------------------------------------------
(* What the actions do to the items, one fact per helper.                    *)

\* A Put writes one item and leaves the others: the result's domain and values.
LEMMA PutFunction ==
    ASSUME NEW items, NEW key, NEW item, NEW S, NEW T,
           DOMAIN items \subseteq S, items \in [DOMAIN items -> T],
           key \in S, item \in T
    PROVE  /\ DOMAIN Put(items, key, item) = DOMAIN items \cup {key}
           /\ DOMAIN Put(items, key, item) \subseteq S
           /\ Put(items, key, item) \in [DOMAIN Put(items, key, item) -> T]
           /\ Put(items, key, item)[key] = item
           /\ \A x \in DOMAIN items : x # key => Put(items, key, item)[x] = items[x]
    BY DEF Put

\* A transaction commits only when each of its conditions holds.
LEMMA NoFailure ==
    ASSUME NEW p, NEW q, NEW P \in BOOLEAN, NEW Q \in BOOLEAN,
           Failed(p, P) \cup Failed(q, Q) = {}
    PROVE  P /\ Q
    BY DEF Failed

--------------------------------------------------------------------------------
(* Type correctness: one lemma per transaction.                              *)

LEMMA TypeInit == TableInit => TypeOK
    BY DEF TableInit, TypeOK

LEMMA TypeCreate == TypeOK /\ CreateStep => TypeOK'
    <1> SUFFICES ASSUME TypeOK, CreateStep PROVE TypeOK'
        OBVIOUS
    <1>1. CASE \E a \in Accounts : InsertAccount(a)
        <2> PICK a \in Accounts : InsertAccount(a)
            BY <1>1
        <2>1. AccountImage(0, 0) \in AccountType
            BY DEF AccountImage, AccountType
        <2>2. /\ DOMAIN account' = DOMAIN account \cup {a}
              /\ DOMAIN account' \subseteq Accounts
              /\ account' \in [DOMAIN account' -> AccountType]
            BY <2>1, PutFunction DEF TypeOK, InsertAccount
        <2> QED
            BY <2>2 DEF TypeOK, InsertAccount
    <1>2. CASE \E m \in Merchants : InsertMerchant(m)
        <2> PICK m \in Merchants : InsertMerchant(m)
            BY <1>2
        <2>1. /\ DOMAIN merchant' = DOMAIN merchant \cup {m}
              /\ DOMAIN merchant' \subseteq Merchants
              /\ merchant' \in [DOMAIN merchant' -> Nat]
            BY PutFunction DEF TypeOK, InsertMerchant
        <2> QED
            BY <2>1 DEF TypeOK, InsertMerchant
    <1> QED
        BY <1>1, <1>2 DEF CreateStep

LEMMA TypeAuthorize ==
    ASSUME TypeOK,
           NEW i \in AuthorizationIds, NEW a \in Accounts, NEW m \in DOMAIN merchant,
           NEW amt \in Amounts, NEW today \in Days, NEW k \in Keys,
           ValidAmount(amt), InsertAuthorization(i, a, m, amt, today, k)
    PROVE  TypeOK'
    <1> DEFINE hold == AuthorizationItem(i, a, m, amt, today)
               record == IdempotencyRecord(AuthorizationHash(m, amt),
                                           AuthorizationResponse(hold, 201))
    <1>1. m \in Merchants /\ amt \in Nat \ {0} /\ today \in Nat
        BY AmountsAssumption, DaysAssumption DEF TypeOK, ValidAmount
    <1>2. a \in DOMAIN account /\ k \notin DOMAIN idem
        BY NoFailure DEF InsertAuthorization, AuthorizeReasons, SufficientFunds, KeyUnused
    <1>3. hold \in AuthorizationType
        BY <1>1 DEF AuthorizationItem, AuthorizationType, Statuses, HoldDays
    <1>4. record \in RecordType
        BY <1>1 DEF AuthorizationItem, AuthorizationResponse, AuthorizationBody,
                    IdempotencyRecord, RecordType
    <1>5. account' \in [DOMAIN account -> AccountType] /\ DOMAIN account' = DOMAIN account
        BY <1>1, <1>2 DEF TypeOK, InsertAuthorization, AccountType
    <1>6. /\ DOMAIN authorization' = DOMAIN authorization \cup {i}
          /\ DOMAIN authorization' \subseteq AuthorizationIds
          /\ authorization' \in [DOMAIN authorization' -> AuthorizationType]
          /\ authorization'[i] = hold
          /\ \A j \in DOMAIN authorization : j # i => authorization'[j] = authorization[j]
        <2>1. authorization' = Put(authorization, i, hold)
            BY DEF InsertAuthorization
        <2>2. /\ DOMAIN authorization \subseteq AuthorizationIds
              /\ authorization \in [DOMAIN authorization -> AuthorizationType]
            BY DEF TypeOK
        <2> HIDE DEF hold
        <2> QED
            BY <1>3, <2>1, <2>2 DEF Put
    <1>7. /\ DOMAIN idem' \subseteq Keys
          /\ idem' \in [DOMAIN idem' -> RecordType]
        <2>1. idem' = Put(idem, k, record)
            BY DEF InsertAuthorization
        <2>2. DOMAIN idem \subseteq Keys /\ idem \in [DOMAIN idem -> RecordType]
            BY DEF TypeOK
        <2> HIDE DEF record
        <2> QED
            BY <1>4, <2>1, <2>2, PutFunction
    <1>8. \A j \in DOMAIN authorization' :
              /\ authorization'[j].authorization_id = j
              /\ authorization'[j].account_id \in DOMAIN account
              /\ authorization'[j].merchant_id \in DOMAIN merchant
        BY <1>2, <1>6 DEF TypeOK, AuthorizationItem
    <1>9. merchant' = merchant /\ entries' = entries
        BY DEF InsertAuthorization
    <1> QED
        BY <1>5, <1>6, <1>7, <1>8, <1>9 DEF TypeOK

\* Resolving a hold changes its status and nothing else.
LEMMA StatusChanged ==
    ASSUME TypeOK, NEW i \in DOMAIN authorization, NEW s \in Statuses,
           authorization' = [authorization EXCEPT ![i].status = s]
    PROVE  /\ DOMAIN authorization' = DOMAIN authorization
           /\ authorization' \in [DOMAIN authorization' -> AuthorizationType]
           /\ authorization'[i].status = s
           /\ \A j \in DOMAIN authorization :
                 /\ authorization'[j].authorization_id = authorization[j].authorization_id
                 /\ authorization'[j].account_id = authorization[j].account_id
                 /\ authorization'[j].merchant_id = authorization[j].merchant_id
                 /\ authorization'[j].amount = authorization[j].amount
                 /\ j # i => authorization'[j] = authorization[j]
           /\ DOMAIN authorization' \subseteq AuthorizationIds
           /\ \A j \in DOMAIN authorization' :
                 /\ authorization'[j].authorization_id = j
                 /\ authorization'[j].account_id \in DOMAIN account
                 /\ authorization'[j].merchant_id \in DOMAIN merchant
    BY DEF TypeOK, AuthorizationType, Statuses

LEMMA TypeCapture ==
    ASSUME TypeOK,
           NEW i \in DOMAIN authorization, NEW txn \in TransactionIds, NEW k \in Keys,
           CaptureAuthorization(authorization[i], authorization[i].account_id, txn, k)
    PROVE  TypeOK'
    <1> DEFINE auth == authorization[i]
               a == auth.account_id
               m == auth.merchant_id
               captured == [auth EXCEPT !.status = "CAPTURED"]
               record == IdempotencyRecord(NoHash, AuthorizationResponse(captured, 200))
    <1>1. /\ auth \in AuthorizationType
          /\ auth.authorization_id = i
          /\ a \in DOMAIN account
          /\ m \in DOMAIN merchant
          /\ i \in AuthorizationIds
          /\ a \in Accounts
          /\ m \in Merchants
          /\ auth.amount \in Nat \ {0}
        BY DEF TypeOK, AuthorizationType
    <1>2. /\ account' = [account EXCEPT ![a].current_balance = @ - auth.amount]
          /\ merchant' = [merchant EXCEPT ![m] = @ + auth.amount]
          /\ entries' = entries \cup CaptureEntries(txn, auth, a)
          /\ authorization' = [authorization EXCEPT ![i].status = "CAPTURED"]
          /\ idem' = Put(idem, k, record)
        BY <1>1 DEF CaptureAuthorization
    <1>3. account' \in [DOMAIN account -> AccountType] /\ DOMAIN account' = DOMAIN account
        BY <1>1, <1>2 DEF TypeOK, AccountType
    <1>4. merchant' \in [DOMAIN merchant -> Nat] /\ DOMAIN merchant' = DOMAIN merchant
        BY <1>1, <1>2 DEF TypeOK
    <1>5. entries' \subseteq EntryType
        <2>1. CaptureEntries(txn, auth, a) \subseteq EntryType
            BY <1>1 DEF CaptureEntries, Entry, EntryType, Parties
        <2> QED
            BY <1>2, <2>1 DEF TypeOK
    <1>6. record \in RecordType
        BY <1>1 DEF AuthorizationResponse, AuthorizationBody, AuthorizationType,
                    IdempotencyRecord, RecordType
    <1>7. DOMAIN idem' \subseteq Keys /\ idem' \in [DOMAIN idem' -> RecordType]
        <2>1. DOMAIN idem \subseteq Keys /\ idem \in [DOMAIN idem -> RecordType]
            BY DEF TypeOK
        <2> HIDE DEF record
        <2> QED
            BY <1>2, <1>6, <2>1, PutFunction
    <1>8. /\ DOMAIN authorization' \subseteq AuthorizationIds
          /\ authorization' \in [DOMAIN authorization' -> AuthorizationType]
          /\ \A j \in DOMAIN authorization' :
                /\ authorization'[j].authorization_id = j
                /\ authorization'[j].account_id \in DOMAIN account
                /\ authorization'[j].merchant_id \in DOMAIN merchant
        <2>1. "CAPTURED" \in Statuses
            BY DEF Statuses
        <2> QED
            BY <1>2, <2>1, StatusChanged
    <1> QED
        BY <1>3, <1>4, <1>5, <1>7, <1>8 DEF TypeOK

LEMMA TypeVoid ==
    ASSUME TypeOK, NEW i \in DOMAIN authorization, NEW k \in Keys,
           VoidAuthorization(authorization[i], authorization[i].account_id, k)
    PROVE  TypeOK'
    <1> DEFINE auth == authorization[i]
               a == auth.account_id
               voided == [auth EXCEPT !.status = "VOIDED"]
               record == IdempotencyRecord(NoHash, AuthorizationResponse(voided, 200))
    <1>1. /\ auth \in AuthorizationType
          /\ auth.authorization_id = i
          /\ a \in DOMAIN account
          /\ auth.amount \in Nat \ {0}
        BY DEF TypeOK, AuthorizationType
    <1>2. /\ account' = [account EXCEPT ![a].available_balance = @ + auth.amount]
          /\ authorization' = [authorization EXCEPT ![i].status = "VOIDED"]
          /\ idem' = Put(idem, k, record)
          /\ merchant' = merchant
          /\ entries' = entries
        BY <1>1 DEF VoidAuthorization
    <1>3. account' \in [DOMAIN account -> AccountType] /\ DOMAIN account' = DOMAIN account
        BY <1>1, <1>2 DEF TypeOK, AccountType
    <1>4. record \in RecordType
        BY <1>1 DEF AuthorizationResponse, AuthorizationBody, AuthorizationType,
                    IdempotencyRecord, RecordType
    <1>5. DOMAIN idem' \subseteq Keys /\ idem' \in [DOMAIN idem' -> RecordType]
        <2>1. DOMAIN idem \subseteq Keys /\ idem \in [DOMAIN idem -> RecordType]
            BY DEF TypeOK
        <2> HIDE DEF record
        <2> QED
            BY <1>2, <1>4, <2>1, PutFunction
    <1>6. /\ DOMAIN authorization' \subseteq AuthorizationIds
          /\ authorization' \in [DOMAIN authorization' -> AuthorizationType]
          /\ \A j \in DOMAIN authorization' :
                /\ authorization'[j].authorization_id = j
                /\ authorization'[j].account_id \in DOMAIN account
                /\ authorization'[j].merchant_id \in DOMAIN merchant
        <2>1. "VOIDED" \in Statuses
            BY DEF Statuses
        <2> QED
            BY <1>2, <2>1, StatusChanged
    <1> QED
        BY <1>2, <1>3, <1>5, <1>6 DEF TypeOK

LEMMA TypeExpire ==
    ASSUME TypeOK, NEW i \in DOMAIN authorization, ExpireHold(authorization[i])
    PROVE  TypeOK'
    <1> DEFINE auth == authorization[i]
    <1>1. /\ auth.authorization_id = i
          /\ auth.account_id \in DOMAIN account
          /\ auth.amount \in Nat \ {0}
        BY DEF TypeOK, AuthorizationType
    <1>2. /\ account' = [account EXCEPT ![auth.account_id].available_balance = @ + auth.amount]
          /\ authorization' = [authorization EXCEPT ![i].status = "EXPIRED"]
          /\ merchant' = merchant
          /\ entries' = entries
          /\ idem' = idem
        BY <1>1 DEF ExpireHold
    <1>3. account' \in [DOMAIN account -> AccountType] /\ DOMAIN account' = DOMAIN account
        BY <1>1, <1>2 DEF TypeOK, AccountType
    <1>4. /\ DOMAIN authorization' \subseteq AuthorizationIds
          /\ authorization' \in [DOMAIN authorization' -> AuthorizationType]
          /\ \A j \in DOMAIN authorization' :
                /\ authorization'[j].authorization_id = j
                /\ authorization'[j].account_id \in DOMAIN account
                /\ authorization'[j].merchant_id \in DOMAIN merchant
        <2>1. "EXPIRED" \in Statuses
            BY DEF Statuses
        <2> QED
            BY <1>2, <2>1, StatusChanged
    <1> QED
        BY <1>2, <1>3, <1>4 DEF TypeOK

LEMMA TypeDeposit ==
    ASSUME TypeOK, NEW a \in Accounts, NEW amt \in Amounts,
           NEW read \in [current_balance : Balances, available_balance : Balances],
           NEW txn \in TransactionIds, NEW k \in Keys,
           ValidAmount(amt), Deposit(a, amt, read, txn, k)
    PROVE  TypeOK'
    <1> DEFINE image == AccountImage(read.current_balance + amt, read.available_balance + amt)
               record == IdempotencyRecord(DepositHash(amt), DepositResponse(image))
    <1>1. amt \in Nat \ {0} /\ image \in AccountType
        <2>1. amt \in Nat \ {0}
            BY AmountsAssumption DEF ValidAmount
        <2>2. read.current_balance \in Int /\ read.available_balance \in Int
            BY BalancesAssumption
        <2> QED
            BY <2>1, <2>2 DEF AccountImage, AccountType
    <1>2. a \in DOMAIN account
        <2>1. Failed(0, BalanceAsRead(a, read)) \cup Failed(3, KeyUnused(k)) = {}
            BY DEF Deposit, DepositReasons
        <2> QED
            BY <2>1 DEF Failed, BalanceAsRead
    <1>3. /\ account' = [account EXCEPT ![a] = image]
          /\ entries' = entries \cup DepositEntries(txn, a, amt)
          /\ idem' = Put(idem, k, record)
          /\ merchant' = merchant
          /\ authorization' = authorization
        BY DEF Deposit
    <1>4. account' \in [DOMAIN account -> AccountType] /\ DOMAIN account' = DOMAIN account
        BY <1>1, <1>2, <1>3 DEF TypeOK
    <1>5. entries' \subseteq EntryType
        <2>1. DepositEntries(txn, a, amt) \subseteq EntryType
            BY <1>1 DEF DepositEntries, Entry, EntryType, Parties
        <2> QED
            BY <1>3, <2>1 DEF TypeOK
    <1>6. record \in RecordType
        BY <1>1 DEF DepositResponse, IdempotencyRecord, RecordType
    <1>7. DOMAIN idem' \subseteq Keys /\ idem' \in [DOMAIN idem' -> RecordType]
        <2>1. DOMAIN idem \subseteq Keys /\ idem \in [DOMAIN idem -> RecordType]
            BY DEF TypeOK
        <2> HIDE DEF record
        <2> QED
            BY <1>3, <1>6, <2>1, PutFunction
    <1> QED
        BY <1>3, <1>4, <1>5, <1>7 DEF TypeOK

LEMMA TypeLapse == ASSUME TypeOK, NEW k \in Keys, LapseRecord(k) PROVE TypeOK'
    BY DEF TypeOK, LapseRecord

\* The type invariant is inductive: no transaction, lapse or creation breaks it.
LEMMA TypeStep == TypeOK /\ [TableNext]_tableVars => TypeOK'
    <1> SUFFICES ASSUME TypeOK, [TableNext]_tableVars PROVE TypeOK'
        OBVIOUS
    <1>1. CASE CreateStep
        BY <1>1, TypeCreate
    <1>2. CASE AuthorizeStep
        BY <1>2, TypeAuthorize DEF AuthorizeStep
    <1>3. CASE CaptureStep
        BY <1>3, TypeCapture DEF CaptureStep
    <1>4. CASE VoidStep
        BY <1>4, TypeVoid DEF VoidStep
    <1>5. CASE ExpireStep
        BY <1>5, TypeExpire DEF ExpireStep
    <1>6. CASE DepositStep
        BY <1>6, TypeDeposit DEF DepositStep
    <1>7. CASE LapseStep
        BY <1>7, TypeLapse DEF LapseStep
    <1>8. CASE UNCHANGED tableVars
        BY <1>8 DEF TypeOK, tableVars
    <1> QED
        BY <1>1, <1>2, <1>3, <1>4, <1>5, <1>6, <1>7, <1>8 DEF TableNext

\* Every item the code writes keeps its shape, and every amount that reaches a
\* hold or a ledger entry is positive, for every instance of the constants.
THEOREM TypeCorrect == TableSpec => []TypeOK
    BY TypeInit, TypeStep, PTL DEF TableSpec

--------------------------------------------------------------------------------
(* The cents a hold reserves.                                                *)

\* The cents of one hold of n cents are n in number.
LEMMA BlockSize ==
    ASSUME NEW x, NEW n \in Nat
    PROVE  IsFiniteSet({x} \X (1..n)) /\ Cardinality({x} \X (1..n)) = n
    <1>1. IsFiniteSet({x}) /\ Cardinality({x}) = 1
        BY FS_Singleton
    <1>2. IsFiniteSet(1..n) /\ Cardinality(1..n) = n
        BY FS_Interval
    <1>3. /\ IsFiniteSet({x} \X (1..n))
          /\ Cardinality({x} \X (1..n)) = Cardinality({x}) * Cardinality(1..n)
        BY <1>1, <1>2, FS_Product
    <1> QED
        BY <1>1, <1>2, <1>3

\* Adding a block to a finite set that had none of it adds its size; taking
\* away a block the set contains takes its size away.
LEMMA AddBlock ==
    ASSUME NEW S, NEW x, NEW n \in Nat, IsFiniteSet(S), S \cap ({x} \X (1..n)) = {}
    PROVE  /\ IsFiniteSet(S \cup ({x} \X (1..n)))
           /\ Cardinality(S) \in Nat
           /\ Cardinality(S \cup ({x} \X (1..n))) = Cardinality(S) + n
    <1>1. IsFiniteSet({x} \X (1..n)) /\ Cardinality({x} \X (1..n)) = n
        BY BlockSize
    <1>2. Cardinality({}) = 0 /\ Cardinality(S) \in Nat
        BY FS_EmptySet, FS_CardinalityType
    <1>3. /\ IsFiniteSet(S \cup ({x} \X (1..n)))
          /\ Cardinality(S \cup ({x} \X (1..n)))
               = Cardinality(S) + Cardinality({x} \X (1..n)) - Cardinality(S \cap ({x} \X (1..n)))
        BY <1>1, FS_Union
    <1> QED
        BY <1>1, <1>2, <1>3

LEMMA RemoveBlock ==
    ASSUME NEW S, NEW x, NEW n \in Nat, IsFiniteSet(S), ({x} \X (1..n)) \subseteq S
    PROVE  /\ IsFiniteSet(S \ ({x} \X (1..n)))
           /\ Cardinality(S) \in Nat
           /\ Cardinality(S \ ({x} \X (1..n))) = Cardinality(S) - n
    <1> DEFINE block == {x} \X (1..n)
               rest == S \ block
    <1>1. IsFiniteSet(rest)
        BY FS_Subset
    <1>2. rest \cap block = {} /\ rest \cup block = S
        OBVIOUS
    <1>3. Cardinality(S) = Cardinality(rest) + n /\ Cardinality(rest) \in Nat
        <2> HIDE DEF rest
        <2> QED
            BY <1>1, <1>2, AddBlock
    <1> QED
        BY <1>1, <1>3

\* Placing a hold reserves a block of new cents on its account only.
LEMMA HeldPlaced ==
    ASSUME TypeOK, NEW i, i \notin DOMAIN authorization,
           NEW hold \in AuthorizationType, hold.status = "PENDING",
           authorization' = Put(authorization, i, hold), NEW b
    PROVE  LET block == {i} \X (1..hold.amount)
           IN  /\ HeldCents(b) \cap block = {}
               /\ HeldCents(b)' = IF b = hold.account_id
                                  THEN HeldCents(b) \cup block ELSE HeldCents(b)
    <1>1. /\ DOMAIN authorization' = DOMAIN authorization \cup {i}
          /\ authorization'[i] = hold
          /\ \A j \in DOMAIN authorization : authorization'[j] = authorization[j]
        BY DEF Put
    <1>2. PendingHolds(b)' = IF b = hold.account_id
                             THEN PendingHolds(b) \cup {i} ELSE PendingHolds(b)
        BY <1>1 DEF PendingHolds
    <1>3. i \notin PendingHolds(b)
        BY DEF PendingHolds
    <1>4. \A j \in PendingHolds(b) : authorization'[j] = authorization[j]
        BY <1>1 DEF PendingHolds
    <1> QED
        BY <1>1, <1>2, <1>3, <1>4 DEF HeldCents

\* Resolving a hold releases exactly its block, on its account only.
LEMMA HeldReleased ==
    ASSUME TypeOK, NEW i \in DOMAIN authorization, NEW s \in Statuses, s # "PENDING",
           authorization[i].status = "PENDING",
           authorization' = [authorization EXCEPT ![i].status = s], NEW b
    PROVE  LET block == {i} \X (1..authorization[i].amount)
               a == authorization[i].account_id
           IN  /\ b = a => block \subseteq HeldCents(b)
               /\ HeldCents(b)' = IF b = a THEN HeldCents(b) \ block ELSE HeldCents(b)
    <1>1. /\ DOMAIN authorization' = DOMAIN authorization
          /\ authorization'[i].status = s
          /\ \A j \in DOMAIN authorization :
                /\ authorization'[j].account_id = authorization[j].account_id
                /\ authorization'[j].amount = authorization[j].amount
                /\ j # i => authorization'[j] = authorization[j]
        BY StatusChanged
    <1>2. PendingHolds(b)' = PendingHolds(b) \ {i}
        BY <1>1 DEF PendingHolds
    <1>3. i \in PendingHolds(b) <=> b = authorization[i].account_id
        BY DEF PendingHolds
    <1>4. \A j \in PendingHolds(b) : authorization'[j].amount = authorization[j].amount
        BY <1>1 DEF PendingHolds
    <1> QED
        BY <1>1, <1>2, <1>3, <1>4 DEF HeldCents

\* The same holds reserve the same cents.
LEMMA HeldUnchanged == ASSUME UNCHANGED authorization, NEW b PROVE HeldCents(b)' = HeldCents(b)
    BY DEF HeldCents, PendingHolds

--------------------------------------------------------------------------------
(* The posted balance is the available balance plus the holds.               *)

\* HoldsBalance for one account, with the finiteness its sum needs.
Backed(b) ==
    /\ IsFiniteSet(HeldCents(b))
    /\ account[b].current_balance = account[b].available_balance + Cardinality(HeldCents(b))

\* The inductive invariant behind HoldsBalance.
FundsInv == TypeOK /\ \A b \in DOMAIN account : Backed(b)

LEMMA FundsInit == TableInit => FundsInv
    BY TypeInit DEF TableInit, FundsInv

\* An account is untouched by a step that changes neither it nor any hold.
LEMMA BackedUnchanged ==
    ASSUME UNCHANGED authorization, NEW b, Backed(b), account'[b] = account[b]
    PROVE  Backed(b)'
    BY HeldUnchanged DEF Backed

LEMMA FundsCreate == FundsInv /\ CreateStep => FundsInv'
    <1> SUFFICES ASSUME FundsInv, CreateStep, NEW b \in DOMAIN account' PROVE Backed(b)'
        BY TypeCreate DEF FundsInv
    <1>1. UNCHANGED authorization
        BY DEF CreateStep, InsertAccount, InsertMerchant
    <1>2. CASE b \in DOMAIN account
        <2>1. account'[b] = account[b]
            BY <1>2 DEF CreateStep, InsertAccount, InsertMerchant, Put
        <2> QED
            BY <1>1, <1>2, <2>1, BackedUnchanged DEF FundsInv
    <1>3. CASE b \notin DOMAIN account
        <2>1. account'[b] = AccountImage(0, 0)
            BY <1>3 DEF CreateStep, InsertAccount, InsertMerchant, Put
        <2>2. HeldCents(b)' = {}
            BY <1>1, <1>3 DEF HeldCents, PendingHolds, FundsInv, TypeOK
        <2> QED
            BY <2>1, <2>2, FS_EmptySet DEF Backed, AccountImage
    <1> QED
        BY <1>2, <1>3

\* An authorize moves the held amount out of the available balance.
LEMMA FundsAuthorize ==
    ASSUME FundsInv,
           NEW i \in AuthorizationIds, NEW a \in Accounts, NEW m \in DOMAIN merchant,
           NEW amt \in Amounts, NEW today \in Days, NEW k \in Keys,
           ValidAmount(amt), InsertAuthorization(i, a, m, amt, today, k)
    PROVE  FundsInv'
    <1> DEFINE hold == AuthorizationItem(i, a, m, amt, today)
    <1> SUFFICES ASSUME NEW b \in DOMAIN account' PROVE Backed(b)'
        BY TypeAuthorize DEF FundsInv
    <1>1. /\ i \notin DOMAIN authorization
          /\ account' = [account EXCEPT ![a].available_balance = @ - amt]
          /\ authorization' = Put(authorization, i, hold)
        BY DEF InsertAuthorization, NewAuthorizationId
    <1>2. /\ m \in Merchants
          /\ amt \in Nat \ {0}
          /\ hold \in AuthorizationType
          /\ hold.status = "PENDING"
          /\ hold.account_id = a
          /\ hold.amount = amt
        BY AmountsAssumption, DaysAssumption
           DEF FundsInv, TypeOK, ValidAmount, AuthorizationItem, AuthorizationType, Statuses,
               HoldDays
    <1>3. /\ b \in DOMAIN account
          /\ account[b] \in AccountType
          /\ account'[b] = IF b = a THEN [account[a] EXCEPT !.available_balance = @ - amt]
                                    ELSE account[b]
          /\ Backed(b)
        BY <1>1 DEF FundsInv, TypeOK
    <1>4. /\ HeldCents(b) \cap ({i} \X (1..amt)) = {}
          /\ HeldCents(b)' = IF b = a THEN HeldCents(b) \cup ({i} \X (1..amt)) ELSE HeldCents(b)
        <2> HIDE DEF hold
        <2> QED
            BY <1>1, <1>2, HeldPlaced DEF FundsInv
    <1>5. CASE b = a
        <2>1. /\ IsFiniteSet(HeldCents(b)')
              /\ Cardinality(HeldCents(b)) \in Nat
              /\ Cardinality(HeldCents(b)') = Cardinality(HeldCents(b)) + amt
            <3>1. /\ amt \in Nat
                  /\ IsFiniteSet(HeldCents(b))
                  /\ HeldCents(b) \cap ({i} \X (1..amt)) = {}
                BY <1>2, <1>3, <1>4 DEF Backed
            <3>2. /\ IsFiniteSet(HeldCents(b) \cup ({i} \X (1..amt)))
                  /\ Cardinality(HeldCents(b)) \in Nat
                  /\ Cardinality(HeldCents(b) \cup ({i} \X (1..amt)))
                       = Cardinality(HeldCents(b)) + amt
                BY <3>1, AddBlock
            <3>3. HeldCents(b)' = HeldCents(b) \cup ({i} \X (1..amt))
                BY <1>4, <1>5
            <3> QED
                BY <3>2, <3>3
        <2>2. /\ account'[b].current_balance = account[b].current_balance
              /\ account'[b].available_balance = account[b].available_balance - amt
            BY <1>3, <1>5 DEF AccountType
        <2> QED
            BY <1>2, <1>3, <2>1, <2>2 DEF Backed, AccountType
    <1>6. CASE b # a
        BY <1>3, <1>4, <1>6 DEF Backed
    <1> QED
        BY <1>5, <1>6

\* Resolving a hold keeps an account backed when the two balances of its owner
\* close the gap the hold made between them: a capture lowers the posted one, a
\* void or an expiry raises the available one.
LEMMA BackedResolved ==
    ASSUME FundsInv,
           NEW i \in DOMAIN authorization, NEW s \in Statuses, s # "PENDING",
           authorization[i].status = "PENDING",
           authorization' = [authorization EXCEPT ![i].status = s],
           NEW b \in DOMAIN account,
           account'[b] \in AccountType,
           b # authorization[i].account_id => account'[b] = account[b],
           b = authorization[i].account_id =>
               account'[b].current_balance - account'[b].available_balance
                 = account[b].current_balance - account[b].available_balance
                   - authorization[i].amount
    PROVE  Backed(b)'
    <1> DEFINE n == authorization[i].amount
               a == authorization[i].account_id
    <1>1. n \in Nat /\ account[b] \in AccountType /\ Backed(b)
        BY DEF FundsInv, TypeOK, AuthorizationType
    <1>2. /\ b = a => ({i} \X (1..n)) \subseteq HeldCents(b)
          /\ HeldCents(b)' = IF b = a THEN HeldCents(b) \ ({i} \X (1..n)) ELSE HeldCents(b)
        BY HeldReleased DEF FundsInv
    <1>3. CASE b = a
        <2>1. /\ IsFiniteSet(HeldCents(b)')
              /\ Cardinality(HeldCents(b)) \in Nat
              /\ Cardinality(HeldCents(b)') = Cardinality(HeldCents(b)) - n
            <3>1. /\ IsFiniteSet(HeldCents(b))
                  /\ ({i} \X (1..n)) \subseteq HeldCents(b)
                BY <1>1, <1>2, <1>3 DEF Backed
            <3>2. /\ IsFiniteSet(HeldCents(b) \ ({i} \X (1..n)))
                  /\ Cardinality(HeldCents(b)) \in Nat
                  /\ Cardinality(HeldCents(b) \ ({i} \X (1..n))) = Cardinality(HeldCents(b)) - n
                <4> HIDE DEF n
                <4> QED
                    BY <1>1, <3>1, RemoveBlock
            <3>3. HeldCents(b)' = HeldCents(b) \ ({i} \X (1..n))
                BY <1>2, <1>3
            <3> QED
                BY <3>2, <3>3
        <2> QED
            BY <1>1, <1>3, <2>1 DEF Backed, AccountType
    <1>4. CASE b # a
        BY <1>1, <1>2, <1>4 DEF Backed
    <1> QED
        BY <1>3, <1>4

LEMMA FundsCapture ==
    ASSUME FundsInv,
           NEW i \in DOMAIN authorization, NEW txn \in TransactionIds, NEW k \in Keys,
           CaptureAuthorization(authorization[i], authorization[i].account_id, txn, k)
    PROVE  FundsInv'
    <1> DEFINE a == authorization[i].account_id
               n == authorization[i].amount
    <1>1. TypeOK'
        BY TypeCapture DEF FundsInv
    <1>2. authorization[i].authorization_id = i /\ n \in Nat /\ a \in DOMAIN account
        BY DEF FundsInv, TypeOK, AuthorizationType
    <1>3. authorization[i].status = "PENDING"
        BY <1>2 DEF CaptureAuthorization, CaptureReasons, Failed, StillPending
    <1>4. /\ account' = [account EXCEPT ![a].current_balance = @ - n]
          /\ authorization' = [authorization EXCEPT ![i].status = "CAPTURED"]
        BY <1>2 DEF CaptureAuthorization
    <1>5. ASSUME NEW b \in DOMAIN account' PROVE Backed(b)'
        <2>1. /\ b \in DOMAIN account
              /\ account[b] \in AccountType
              /\ account'[b] \in AccountType
            BY <1>1, <1>4, <1>5 DEF FundsInv, TypeOK
        <2>2. b # a => account'[b] = account[b]
            BY <1>4
        <2>3. b = a => /\ account'[b].current_balance = account[b].current_balance - n
                       /\ account'[b].available_balance = account[b].available_balance
            BY <1>4, <2>1 DEF AccountType
        <2>4. "CAPTURED" \in Statuses
            BY DEF Statuses
        <2>5. b = a => account'[b].current_balance - account'[b].available_balance
                         = account[b].current_balance - account[b].available_balance - n
            BY <1>2, <2>1, <2>3 DEF AccountType
        <2> QED
            BY <1>3, <1>4, <2>1, <2>2, <2>4, <2>5, BackedResolved
    <1> QED
        BY <1>1, <1>5 DEF FundsInv

LEMMA FundsVoid ==
    ASSUME FundsInv,
           NEW i \in DOMAIN authorization, NEW k \in Keys,
           VoidAuthorization(authorization[i], authorization[i].account_id, k)
    PROVE  FundsInv'
    <1> DEFINE a == authorization[i].account_id
               n == authorization[i].amount
    <1>1. TypeOK'
        BY TypeVoid DEF FundsInv
    <1>2. authorization[i].authorization_id = i /\ n \in Nat /\ a \in DOMAIN account
        BY DEF FundsInv, TypeOK, AuthorizationType
    <1>3. authorization[i].status = "PENDING"
        BY <1>2 DEF VoidAuthorization, VoidReasons, Failed, StillPending
    <1>4. /\ account' = [account EXCEPT ![a].available_balance = @ + n]
          /\ authorization' = [authorization EXCEPT ![i].status = "VOIDED"]
        BY <1>2 DEF VoidAuthorization
    <1>5. ASSUME NEW b \in DOMAIN account' PROVE Backed(b)'
        <2>1. /\ b \in DOMAIN account
              /\ account[b] \in AccountType
              /\ account'[b] \in AccountType
            BY <1>1, <1>4, <1>5 DEF FundsInv, TypeOK
        <2>2. b # a => account'[b] = account[b]
            BY <1>4
        <2>3. b = a => /\ account'[b].current_balance = account[b].current_balance
                       /\ account'[b].available_balance = account[b].available_balance + n
            BY <1>4, <2>1 DEF AccountType
        <2>4. "VOIDED" \in Statuses
            BY DEF Statuses
        <2>5. b = a => account'[b].current_balance - account'[b].available_balance
                         = account[b].current_balance - account[b].available_balance - n
            BY <1>2, <2>1, <2>3 DEF AccountType
        <2> QED
            BY <1>3, <1>4, <2>1, <2>2, <2>4, <2>5, BackedResolved
    <1> QED
        BY <1>1, <1>5 DEF FundsInv

LEMMA FundsExpire ==
    ASSUME FundsInv,
           NEW i \in DOMAIN authorization,
           ExpireHold(authorization[i])
    PROVE  FundsInv'
    <1> DEFINE a == authorization[i].account_id
               n == authorization[i].amount
    <1>1. TypeOK'
        BY TypeExpire DEF FundsInv
    <1>2. authorization[i].authorization_id = i /\ n \in Nat /\ a \in DOMAIN account
        BY DEF FundsInv, TypeOK, AuthorizationType
    <1>3. authorization[i].status = "PENDING"
        BY <1>2 DEF ExpireHold, ExpireReasons, Failed, StillPending
    <1>4. /\ account' = [account EXCEPT ![a].available_balance = @ + n]
          /\ authorization' = [authorization EXCEPT ![i].status = "EXPIRED"]
        BY <1>2 DEF ExpireHold
    <1>5. ASSUME NEW b \in DOMAIN account' PROVE Backed(b)'
        <2>1. /\ b \in DOMAIN account
              /\ account[b] \in AccountType
              /\ account'[b] \in AccountType
            BY <1>1, <1>4, <1>5 DEF FundsInv, TypeOK
        <2>2. b # a => account'[b] = account[b]
            BY <1>4
        <2>3. b = a => /\ account'[b].current_balance = account[b].current_balance
                       /\ account'[b].available_balance = account[b].available_balance + n
            BY <1>4, <2>1 DEF AccountType
        <2>4. "EXPIRED" \in Statuses
            BY DEF Statuses
        <2>5. b = a => account'[b].current_balance - account'[b].available_balance
                         = account[b].current_balance - account[b].available_balance - n
            BY <1>2, <2>1, <2>3 DEF AccountType
        <2> QED
            BY <1>3, <1>4, <2>1, <2>2, <2>4, <2>5, BackedResolved
    <1> QED
        BY <1>1, <1>5 DEF FundsInv

\* A deposit raises both balances by the same amount: its compare-and-swap makes
\* the image it read the one it overwrites.
LEMMA FundsDeposit ==
    ASSUME FundsInv, NEW a \in Accounts, NEW amt \in Amounts,
           NEW read \in [current_balance : Balances, available_balance : Balances],
           NEW txn \in TransactionIds, NEW k \in Keys,
           ValidAmount(amt), Deposit(a, amt, read, txn, k)
    PROVE  FundsInv'
    <1> SUFFICES ASSUME NEW b \in DOMAIN account' PROVE Backed(b)'
        BY TypeDeposit DEF FundsInv
    <1>1. a \in DOMAIN account /\ account[a] = read
        <2>1. Failed(0, BalanceAsRead(a, read)) \cup Failed(3, KeyUnused(k)) = {}
            BY DEF Deposit, DepositReasons
        <2> QED
            BY <2>1 DEF Failed, BalanceAsRead
    <1>2. /\ account' = [account EXCEPT ![a] = AccountImage(read.current_balance + amt,
                                                           read.available_balance + amt)]
          /\ UNCHANGED authorization
        BY DEF Deposit
    <1>3. b \in DOMAIN account /\ account[b] \in AccountType /\ Backed(b)
        BY <1>2 DEF FundsInv, TypeOK
    <1>4. CASE b = a
        <2>1. /\ account'[b].current_balance = account[b].current_balance + amt
              /\ account'[b].available_balance = account[b].available_balance + amt
            BY <1>1, <1>2, <1>4 DEF AccountImage
        <2>2. HeldCents(b)' = HeldCents(b) /\ Cardinality(HeldCents(b)) \in Nat
            BY <1>2, <1>3, HeldUnchanged, FS_CardinalityType DEF Backed
        <2>3. amt \in Int
            BY AmountsAssumption
        <2> QED
            BY <1>3, <2>1, <2>2, <2>3 DEF Backed, AccountType
    <1>5. CASE b # a
        BY <1>2, <1>3, <1>5, BackedUnchanged
    <1> QED
        BY <1>4, <1>5

LEMMA FundsLapse == ASSUME FundsInv, NEW k \in Keys, LapseRecord(k) PROVE FundsInv'
    <1>1. UNCHANGED <<account, authorization>>
        BY DEF LapseRecord
    <1> QED
        BY <1>1, TypeLapse, BackedUnchanged DEF FundsInv

LEMMA FundsStep == FundsInv /\ [TableNext]_tableVars => FundsInv'
    <1> SUFFICES ASSUME FundsInv, [TableNext]_tableVars PROVE FundsInv'
        OBVIOUS
    <1>1. CASE CreateStep
        BY <1>1, FundsCreate
    <1>2. CASE AuthorizeStep
        BY <1>2, FundsAuthorize DEF AuthorizeStep
    <1>3. CASE CaptureStep
        BY <1>3, FundsCapture DEF CaptureStep
    <1>4. CASE VoidStep
        BY <1>4, FundsVoid DEF VoidStep
    <1>5. CASE ExpireStep
        BY <1>5, FundsExpire DEF ExpireStep
    <1>6. CASE DepositStep
        BY <1>6, FundsDeposit DEF DepositStep
    <1>7. CASE LapseStep
        BY <1>7, FundsLapse DEF LapseStep
    <1>8. CASE UNCHANGED tableVars
        <2>1. UNCHANGED <<account, authorization>>
            BY <1>8 DEF tableVars
        <2> QED
            BY <1>8, <2>1, TypeStep, BackedUnchanged DEF FundsInv
    <1> QED
        BY <1>1, <1>2, <1>3, <1>4, <1>5, <1>6, <1>7, <1>8 DEF TableNext

\* Whatever transactions commit, in whatever order, every account's posted
\* balance is its available balance plus its PENDING holds (README.md, second
\* ledger invariant): neither a stale deposit read, nor a race between a
\* capture, a void and a sweep of one hold, makes money appear or vanish.
THEOREM HoldsAreBacked == TableSpec => []HoldsBalance
    <1>1. FundsInv => HoldsBalance
        BY DEF FundsInv, Backed, HoldsBalance
    <1> QED
        BY <1>1, FundsInit, FundsStep, PTL DEF TableSpec

--------------------------------------------------------------------------------
(* Funds are never promised twice.                                           *)

\* The only transaction that lowers an available balance is the authorize, and
\* its condition leaves the balance it lowers at zero or above.
LEMMA OverdraftStep ==
    TypeOK /\ NoOverdraft /\ [TableNext]_tableVars => NoOverdraft'
    <1> SUFFICES ASSUME TypeOK, NoOverdraft, [TableNext]_tableVars,
                        NEW b \in DOMAIN account'
                 PROVE  account'[b].available_balance >= 0
        BY DEF NoOverdraft
    <1> USE DEF AccountType
    <1>1. CASE CreateStep
        <2>1. CASE b \in DOMAIN account
            BY <1>1, <2>1 DEF CreateStep, InsertAccount, InsertMerchant, Put, NoOverdraft
        <2>2. CASE b \notin DOMAIN account
            <3>1. account'[b] = AccountImage(0, 0)
                BY <1>1, <2>2 DEF CreateStep, InsertAccount, InsertMerchant, Put
            <3> QED
                BY <3>1 DEF AccountImage
        <2> QED
            BY <2>1, <2>2
    <1>2. CASE AuthorizeStep
        <2> PICK i \in AuthorizationIds, a \in Accounts, m \in DOMAIN merchant,
                 amt \in Amounts, today \in Days, k \in Keys :
                   ValidAmount(amt) /\ InsertAuthorization(i, a, m, amt, today, k)
            BY <1>2 DEF AuthorizeStep
        <2>1. amt \in Int
            BY AmountsAssumption
        <2>2. account' = [account EXCEPT ![a].available_balance = @ - amt]
            BY DEF InsertAuthorization
        <2>3. a \in DOMAIN account /\ account[a].available_balance >= amt
            BY DEF InsertAuthorization, AuthorizeReasons, Failed, SufficientFunds
        <2> QED
            BY <2>1, <2>2, <2>3 DEF TypeOK, NoOverdraft
    <1>3. CASE CaptureStep
        <2> PICK i \in DOMAIN authorization, txn \in TransactionIds, k \in Keys :
                   CaptureAuthorization(authorization[i], authorization[i].account_id, txn, k)
            BY <1>3 DEF CaptureStep
        <2>1. account' = [account EXCEPT ![authorization[i].account_id].current_balance =
                                              @ - authorization[i].amount]
            BY DEF CaptureAuthorization
        <2> QED
            BY <2>1 DEF TypeOK, NoOverdraft
    <1>4. CASE VoidStep \/ ExpireStep
        <2> PICK i \in DOMAIN authorization :
                   account' = [account EXCEPT ![authorization[i].account_id].available_balance =
                                                @ + authorization[i].amount]
            BY <1>4 DEF VoidStep, ExpireStep, VoidAuthorization, ExpireHold
        <2>1. authorization[i].amount \in Nat
            BY DEF TypeOK, AuthorizationType
        <2> QED
            BY <2>1 DEF TypeOK, NoOverdraft
    <1>5. CASE DepositStep
        <2> PICK a \in Accounts, amt \in Amounts,
                 read \in [current_balance : Balances, available_balance : Balances],
                 txn \in TransactionIds, k \in Keys :
                   ValidAmount(amt) /\ Deposit(a, amt, read, txn, k)
            BY <1>5 DEF DepositStep
        <2>1. account' = [account EXCEPT ![a] = AccountImage(read.current_balance + amt,
                                                            read.available_balance + amt)]
            BY DEF Deposit
        <2>2. a \in DOMAIN account /\ account[a] = read
            <3>1. Failed(0, BalanceAsRead(a, read)) \cup Failed(3, KeyUnused(k)) = {}
                BY DEF Deposit, DepositReasons
            <3> QED
                BY <3>1 DEF Failed, BalanceAsRead
        <2>3. amt \in Nat
            BY AmountsAssumption DEF ValidAmount
        <2>4. account[a].available_balance \in Int
            BY <2>2 DEF TypeOK
        <2> QED
            BY <2>1, <2>2, <2>3, <2>4 DEF NoOverdraft, AccountImage
    <1>6. CASE LapseStep \/ UNCHANGED tableVars
        BY <1>6 DEF LapseStep, LapseRecord, tableVars, NoOverdraft
    <1> QED
        BY <1>1, <1>2, <1>3, <1>4, <1>5, <1>6 DEF TableNext

\* No interleaving of authorizations, sweeps and deposits lets an account's
\* available balance go below zero: what ledger.py:319 checks inside the
\* transaction cannot be undone by any other writer.
THEOREM NeverOverdrawn == TableSpec => []NoOverdraft
    <1>1. TableInit => NoOverdraft
        BY DEF TableInit, NoOverdraft
    <1> QED
        BY <1>1, TypeCorrect, OverdraftStep, PTL DEF TableSpec

--------------------------------------------------------------------------------
(* A hold is resolved once.                                                  *)

LEMMA ResolveOnceStep ==
    ASSUME TypeOK, TableNext, NEW i \in DOMAIN authorization
    PROVE  /\ i \in DOMAIN authorization'
           /\ [authorization'[i] EXCEPT !.status = "PENDING"]
                 = [authorization[i] EXCEPT !.status = "PENDING"]
           /\ authorization[i].status # "PENDING"
                 => authorization'[i].status = authorization[i].status
    <1>1. CASE UNCHANGED authorization
        BY <1>1
    <1>2. CASE AuthorizeStep
        BY <1>2 DEF AuthorizeStep, InsertAuthorization, NewAuthorizationId, Put
    <1>3. CASE CaptureStep \/ VoidStep \/ ExpireStep
        <2>1. PICK j \in DOMAIN authorization, s \in Statuses :
                   /\ authorization[j].status = "PENDING"
                   /\ authorization' = [authorization EXCEPT ![j].status = s]
            <3>1. \A j \in DOMAIN authorization : authorization[j].authorization_id = j
                BY DEF TypeOK
            <3>2. {"CAPTURED", "VOIDED", "EXPIRED"} \subseteq Statuses
                BY DEF Statuses
            <3>3. CASE CaptureStep
                BY <3>1, <3>2, <3>3 DEF CaptureStep, CaptureAuthorization, CaptureReasons,
                                         Failed, StillPending
            <3>4. CASE VoidStep
                BY <3>1, <3>2, <3>4 DEF VoidStep, VoidAuthorization, VoidReasons,
                                         Failed, StillPending
            <3>5. CASE ExpireStep
                BY <3>1, <3>2, <3>5 DEF ExpireStep, ExpireHold, ExpireReasons,
                                         Failed, StillPending
            <3> QED
                BY <1>3, <3>3, <3>4, <3>5
        <2> QED
            BY <2>1 DEF TypeOK, AuthorizationType
    <1>4. CASE CreateStep \/ DepositStep \/ LapseStep
        BY <1>1, <1>4 DEF CreateStep, InsertAccount, InsertMerchant, DepositStep, Deposit,
                          LapseStep, LapseRecord
    <1> QED
        BY <1>2, <1>3, <1>4 DEF TableNext

\* A capture, a void and a sweep racing for one hold resolve it once, and its
\* terms (account, merchant, amount, expiry) never change.
THEOREM HoldsAreResolvedOnce == TableSpec => HoldsResolveOnce
    <1>1. TypeOK /\ [TableNext]_tableVars =>
            [\A i \in DOMAIN authorization :
                /\ i \in DOMAIN authorization'
                /\ [authorization'[i] EXCEPT !.status = "PENDING"]
                      = [authorization[i] EXCEPT !.status = "PENDING"]
                /\ authorization[i].status # "PENDING"
                      => authorization'[i].status = authorization[i].status]_tableVars
        BY ResolveOnceStep
    <1> QED
        BY <1>1, TypeCorrect, PTL DEF TableSpec, HoldsResolveOnce

--------------------------------------------------------------------------------
(* Effects and records are one write.                                        *)

\* The transactions a client asks for write one record, under a key that had none.
LEMMA RecordWriter ==
    ASSUME AuthorizeStep \/ CaptureStep \/ VoidStep \/ DepositStep
    PROVE  \E k \in Keys : \E record : KeyUnused(k) /\ idem' = Put(idem, k, record)
    <1>1. CASE AuthorizeStep
        BY <1>1 DEF AuthorizeStep, InsertAuthorization, AuthorizeReasons, Failed
    <1>2. CASE CaptureStep
        BY <1>2 DEF CaptureStep, CaptureAuthorization, CaptureReasons, Failed
    <1>3. CASE VoidStep
        BY <1>3 DEF VoidStep, VoidAuthorization, VoidReasons, Failed
    <1>4. CASE DepositStep
        BY <1>4 DEF DepositStep, Deposit, DepositReasons, Failed
    <1> QED
        BY <1>1, <1>2, <1>3, <1>4

LEMMA RecordWritten ==
    ASSUME AuthorizeStep \/ CaptureStep \/ VoidStep \/ DepositStep
    PROVE  \E k \in Keys : k \notin DOMAIN idem /\ DOMAIN idem' = DOMAIN idem \cup {k}
    BY RecordWriter DEF KeyUnused, Put

\* The transactions that write no record place nothing and post nothing, and
\* the one hold they may resolve is EXPIRED.
LEMMA NothingUnrecorded ==
    ASSUME TypeOK, CreateStep \/ ExpireStep \/ LapseStep
    PROVE  /\ entries' = entries
           /\ DOMAIN authorization' = DOMAIN authorization
           /\ \A i \in DOMAIN authorization :
                 authorization'[i].status # authorization[i].status
                    => authorization'[i].status = "EXPIRED"
    <1>1. CASE CreateStep \/ LapseStep
        BY <1>1 DEF CreateStep, InsertAccount, InsertMerchant, LapseStep, LapseRecord
    <1>2. CASE ExpireStep
        <2> PICK j \in DOMAIN authorization : ExpireHold(authorization[j])
            BY <1>2 DEF ExpireStep
        <2>1. authorization' = [authorization EXCEPT ![j].status = "EXPIRED"]
            BY DEF ExpireHold, TypeOK
        <2> QED
            BY <2>1 DEF ExpireHold, TypeOK, AuthorizationType
    <1> QED
        BY <1>1, <1>2

\* No transaction moves money, places a hold or resolves one for a client
\* without writing the record of its key, and none writes a second record.
THEOREM EffectsHaveRecords == TableSpec => EffectsAreRecorded
    <1>1. TypeOK /\ TableNext =>
            LET resolved == {i \in DOMAIN authorization :
                                authorization'[i].status # authorization[i].status}
                placed == DOMAIN authorization' \ DOMAIN authorization
                expired == {i \in resolved : authorization'[i].status = "EXPIRED"}
            IN  entries' # entries \/ placed \cup (resolved \ expired) # {}
                   => \E k \in Keys : /\ k \notin DOMAIN idem
                                     /\ DOMAIN idem' = DOMAIN idem \cup {k}
        <2> SUFFICES ASSUME TypeOK, CreateStep \/ ExpireStep \/ LapseStep
                     PROVE  LET resolved == {i \in DOMAIN authorization :
                                    authorization'[i].status # authorization[i].status}
                                placed == DOMAIN authorization' \ DOMAIN authorization
                                expired == {i \in resolved :
                                               authorization'[i].status = "EXPIRED"}
                            IN  entries' = entries /\ placed \cup (resolved \ expired) = {}
            BY RecordWritten DEF TableNext
        <2> QED
            BY NothingUnrecorded
    <1> QED
        BY <1>1, TypeCorrect, PTL DEF TableSpec, EffectsAreRecorded

--------------------------------------------------------------------------------
(* Stored responses stay true.                                               *)

\* What a stored body claims of the authorizations: the conjunct of
\* RecordsTellTheTruth for one record.
TrueOf(body, auths) ==
    IsAuthorizationBody(body) =>
        /\ body.authorization_id \in DOMAIN auths
        /\ auths[body.authorization_id].amount = body.amount
        /\ auths[body.authorization_id].merchant_id = body.merchant_id
        /\ body.status # "PENDING" => auths[body.authorization_id].status = body.status

\* A claim stays true: terms never change, and a status it names is final.
LEMMA TruthKept ==
    ASSUME TypeOK, TableNext
    PROVE  \A body : TrueOf(body, authorization) => TrueOf(body, authorization')
    <1>1. SUFFICES ASSUME NEW i \in DOMAIN authorization
                   PROVE  /\ i \in DOMAIN authorization'
                          /\ authorization'[i].amount = authorization[i].amount
                          /\ authorization'[i].merchant_id = authorization[i].merchant_id
                          /\ authorization[i].status # "PENDING"
                                => authorization'[i].status = authorization[i].status
        BY <1>1 DEF TrueOf
    <1>2. /\ i \in DOMAIN authorization'
          /\ [authorization'[i] EXCEPT !.status = "PENDING"]
                = [authorization[i] EXCEPT !.status = "PENDING"]
          /\ authorization[i].status # "PENDING"
                => authorization'[i].status = authorization[i].status
        BY ResolveOnceStep
    <1>3. authorization[i] \in AuthorizationType
        BY DEF TypeOK
    <1>4. authorization'[i] \in AuthorizationType
        BY <1>2, TypeStep DEF TypeOK
    <1> QED
        BY <1>2, <1>3, <1>4 DEF AuthorizationType

\* A response built from a hold and put beside it tells the truth of it.
LEMMA TruthWritten ==
    ASSUME NEW auths, NEW i \in DOMAIN auths, NEW auth, NEW code, NEW hash,
           auth.authorization_id = i, auths[i].amount = auth.amount,
           auths[i].merchant_id = auth.merchant_id, auths[i].status = auth.status
    PROVE  TrueOf(IdempotencyRecord(hash, AuthorizationResponse(auth, code)).response.body, auths)
    BY DEF TrueOf, IdempotencyRecord, AuthorizationResponse

\* Every record after a step was there before it or is true of the new table.
LEMMA RecordsAfter ==
    ASSUME TypeOK, TableNext, NEW k \in DOMAIN idem'
    PROVE  \/ k \in DOMAIN idem /\ idem'[k] = idem[k]
           \/ TrueOf(idem'[k].response.body, authorization')
    <1>1. CASE CreateStep \/ ExpireStep \/ LapseStep
        BY <1>1 DEF CreateStep, InsertAccount, InsertMerchant, ExpireStep, ExpireHold,
                    LapseStep, LapseRecord
    <1>2. CASE AuthorizeStep
        <2> PICK i \in AuthorizationIds, a \in Accounts, m \in DOMAIN merchant,
                 amt \in Amounts, today \in Days, l \in Keys :
                   ValidAmount(amt) /\ InsertAuthorization(i, a, m, amt, today, l)
            BY <1>2 DEF AuthorizeStep
        <2> DEFINE hold == AuthorizationItem(i, a, m, amt, today)
                   record == IdempotencyRecord(AuthorizationHash(m, amt),
                                               AuthorizationResponse(hold, 201))
        <2>1. authorization' = Put(authorization, i, hold) /\ idem' = Put(idem, l, record)
            BY DEF InsertAuthorization
        <2>2. hold.authorization_id = i
            BY DEF AuthorizationItem
        <2>3. i \in DOMAIN authorization' /\ authorization'[i] = hold
            BY <2>1 DEF Put
        <2>4. TrueOf(record.response.body, authorization')
            BY <2>2, <2>3, TruthWritten
        <2> HIDE DEF record
        <2> QED
            BY <2>1, <2>4 DEF Put
    <1>3. CASE CaptureStep
        <2> PICK i \in DOMAIN authorization, txn \in TransactionIds, l \in Keys :
                   CaptureAuthorization(authorization[i], authorization[i].account_id, txn, l)
            BY <1>3 DEF CaptureStep
        <2> DEFINE captured == [authorization[i] EXCEPT !.status = "CAPTURED"]
                   record == IdempotencyRecord(NoHash, AuthorizationResponse(captured, 200))
        <2>1. authorization[i] \in AuthorizationType /\ authorization[i].authorization_id = i
            BY DEF TypeOK
        <2>2. /\ authorization' = [authorization EXCEPT ![i].status = "CAPTURED"]
              /\ idem' = Put(idem, l, record)
            BY <2>1 DEF CaptureAuthorization
        <2>3. i \in DOMAIN authorization' /\ authorization'[i] = captured
            BY <2>2
        <2>4. captured.authorization_id = i
            BY <2>1 DEF AuthorizationType
        <2>5. TrueOf(record.response.body, authorization')
            <3> HIDE DEF captured
            <3> QED
                BY <2>3, <2>4, TruthWritten
        <2> HIDE DEF record
        <2> QED
            BY <2>2, <2>5 DEF Put
    <1>4. CASE VoidStep
        <2> PICK i \in DOMAIN authorization, l \in Keys :
                   VoidAuthorization(authorization[i], authorization[i].account_id, l)
            BY <1>4 DEF VoidStep
        <2> DEFINE voided == [authorization[i] EXCEPT !.status = "VOIDED"]
                   record == IdempotencyRecord(NoHash, AuthorizationResponse(voided, 200))
        <2>1. authorization[i] \in AuthorizationType /\ authorization[i].authorization_id = i
            BY DEF TypeOK
        <2>2. /\ authorization' = [authorization EXCEPT ![i].status = "VOIDED"]
              /\ idem' = Put(idem, l, record)
            BY <2>1 DEF VoidAuthorization
        <2>3. i \in DOMAIN authorization' /\ authorization'[i] = voided
            BY <2>2
        <2>4. voided.authorization_id = i
            BY <2>1 DEF AuthorizationType
        <2>5. TrueOf(record.response.body, authorization')
            <3> HIDE DEF voided
            <3> QED
                BY <2>3, <2>4, TruthWritten
        <2> HIDE DEF record
        <2> QED
            BY <2>2, <2>5 DEF Put
    <1>5. CASE DepositStep
        <2> PICK a \in Accounts, amt \in Amounts,
                 read \in [current_balance : Balances, available_balance : Balances],
                 txn \in TransactionIds, l \in Keys :
                   ValidAmount(amt) /\ Deposit(a, amt, read, txn, l)
            BY <1>5 DEF DepositStep
        <2> DEFINE balances == AccountImage(read.current_balance + amt,
                                            read.available_balance + amt)
                   record == IdempotencyRecord(DepositHash(amt), DepositResponse(balances))
        <2>1. idem' = Put(idem, l, record)
            BY DEF Deposit
        <2>2. ~IsAuthorizationBody(record.response.body)
            BY DEF IsAuthorizationBody, AccountImage, IdempotencyRecord, DepositResponse
        <2> HIDE DEF record
        <2> QED
            BY <2>1, <2>2 DEF Put, TrueOf
    <1> QED
        BY <1>1, <1>2, <1>3, <1>4, <1>5 DEF TableNext

\* RecordsTellTheTruth, record by record.
LEMMA TruthByRecord ==
    RecordsTellTheTruth
        <=> \A k \in DOMAIN idem : TrueOf(idem[k].response.body, authorization)
    BY DEF RecordsTellTheTruth, TrueOf

LEMMA TruthStep ==
    TypeOK /\ RecordsTellTheTruth /\ [TableNext]_tableVars => RecordsTellTheTruth'
    <1> SUFFICES ASSUME TypeOK, RecordsTellTheTruth, [TableNext]_tableVars
                 PROVE  RecordsTellTheTruth'
        OBVIOUS
    <1>1. CASE TableNext
        <2>1. \A k \in DOMAIN idem : TrueOf(idem[k].response.body, authorization)
            BY TruthByRecord
        <2>2. \A k \in DOMAIN idem' : TrueOf(idem'[k].response.body, authorization')
            BY <1>1, <2>1, TruthKept, RecordsAfter
        <2> QED
            BY <2>2 DEF RecordsTellTheTruth, TrueOf
    <1>2. CASE UNCHANGED tableVars
        BY <1>2 DEF tableVars, RecordsTellTheTruth
    <1> QED
        BY <1>1, <1>2

\* However late a client sends its key again, while the record lives, the
\* response it is replayed is still true of the table: no later capture, void,
\* sweep or deposit contradicts it.
THEOREM RecordsStayTrue == TableSpec => []RecordsTellTheTruth
    <1>1. TableInit => RecordsTellTheTruth
        BY DEF TableInit, RecordsTellTheTruth
    <1> QED
        BY <1>1, TypeCorrect, TruthStep, PTL DEF TableSpec

--------------------------------------------------------------------------------
(* One effect, one record.                                                   *)

\* A record that survives a step is the same record: keys are never rewritten.
LEMMA RecordsKept ==
    ASSUME TableNext, NEW k \in DOMAIN idem, k \in DOMAIN idem'
    PROVE  idem'[k] = idem[k]
    <1>1. CASE CreateStep \/ ExpireStep \/ LapseStep
        BY <1>1 DEF CreateStep, InsertAccount, InsertMerchant, ExpireStep, ExpireHold,
                    LapseStep, LapseRecord
    <1>2. CASE \E l \in Keys : \E record : KeyUnused(l) /\ idem' = Put(idem, l, record)
        BY <1>2 DEF KeyUnused, Put
    <1> QED
        BY <1>1, <1>2, RecordWriter DEF TableNext

\* A step adds at most one key.
LEMMA OneKeyAdded ==
    ASSUME TableNext, NEW k \in DOMAIN idem' \ DOMAIN idem, NEW l \in DOMAIN idem' \ DOMAIN idem
    PROVE  k = l
    <1>1. CASE CreateStep \/ ExpireStep \/ LapseStep
        BY <1>1 DEF CreateStep, InsertAccount, InsertMerchant, ExpireStep, ExpireHold,
                    LapseStep, LapseRecord
    <1>2. CASE AuthorizeStep \/ CaptureStep \/ VoidStep \/ DepositStep
        <2> PICK m \in Keys : m \notin DOMAIN idem /\ DOMAIN idem' = DOMAIN idem \cup {m}
            BY <1>2, RecordWritten
        <2> QED
            OBVIOUS
    <1> QED
        BY <1>1, <1>2 DEF TableNext

\* A new record about a hold says what was not true before it: the hold did not
\* exist, or it was still PENDING.
LEMMA NewsIsNew ==
    ASSUME TypeOK, TableNext, NEW k \in DOMAIN idem' \ DOMAIN idem,
           IsAuthorizationBody(idem'[k].response.body)
    PROVE  ~TrueOf(idem'[k].response.body, authorization)
    <1>1. CASE CreateStep \/ ExpireStep \/ LapseStep
        BY <1>1 DEF CreateStep, InsertAccount, InsertMerchant, ExpireStep, ExpireHold,
                    LapseStep, LapseRecord
    <1>2. CASE AuthorizeStep
        <2> PICK i \in AuthorizationIds, a \in Accounts, m \in DOMAIN merchant,
                 amt \in Amounts, today \in Days, l \in Keys :
                   ValidAmount(amt) /\ InsertAuthorization(i, a, m, amt, today, l)
            BY <1>2 DEF AuthorizeStep
        <2> DEFINE hold == AuthorizationItem(i, a, m, amt, today)
                   record == IdempotencyRecord(AuthorizationHash(m, amt),
                                               AuthorizationResponse(hold, 201))
        <2>1. i \notin DOMAIN authorization /\ idem' = Put(idem, l, record)
            BY DEF InsertAuthorization, NewAuthorizationId
        <2>2. record.response.body.authorization_id = i
            BY DEF IdempotencyRecord, AuthorizationResponse, AuthorizationItem
        <2> HIDE DEF record
        <2>3. idem'[k] = record
            BY <2>1 DEF Put
        <2> QED
            BY <2>1, <2>2, <2>3 DEF TrueOf
    <1>3. CASE CaptureStep \/ VoidStep
        <2>1. PICK i \in DOMAIN authorization, l \in Keys, s \in {"CAPTURED", "VOIDED"} :
                   /\ authorization[i].status = "PENDING"
                   /\ idem' = Put(idem, l, IdempotencyRecord(NoHash,
                                 AuthorizationResponse([authorization[i] EXCEPT !.status = s], 200)))
            <3>1. \A j \in DOMAIN authorization : authorization[j].authorization_id = j
                BY DEF TypeOK
            <3>2. CASE CaptureStep
                <4> PICK i \in DOMAIN authorization, txn \in TransactionIds, l \in Keys :
                           CaptureAuthorization(authorization[i], authorization[i].account_id, txn, l)
                    BY <3>2 DEF CaptureStep
                <4>1. authorization[i].status = "PENDING"
                    BY <3>1 DEF CaptureAuthorization, CaptureReasons, Failed, StillPending
                <4>2. idem' = Put(idem, l, IdempotencyRecord(NoHash,
                          AuthorizationResponse([authorization[i] EXCEPT !.status = "CAPTURED"], 200)))
                    BY DEF CaptureAuthorization
                <4> QED
                    BY <4>1, <4>2
            <3>3. CASE VoidStep
                <4> PICK i \in DOMAIN authorization, l \in Keys :
                           VoidAuthorization(authorization[i], authorization[i].account_id, l)
                    BY <3>3 DEF VoidStep
                <4>1. authorization[i].status = "PENDING"
                    BY <3>1 DEF VoidAuthorization, VoidReasons, Failed, StillPending
                <4>2. idem' = Put(idem, l, IdempotencyRecord(NoHash,
                          AuthorizationResponse([authorization[i] EXCEPT !.status = "VOIDED"], 200)))
                    BY DEF VoidAuthorization
                <4> QED
                    BY <4>1, <4>2
            <3> QED
                BY <1>3, <3>2, <3>3
        <2> DEFINE auth == [authorization[i] EXCEPT !.status = s]
                   record == IdempotencyRecord(NoHash, AuthorizationResponse(auth, 200))
        <2>2. auth.authorization_id = i /\ auth.status = s
            BY DEF TypeOK, AuthorizationType
        <2>3. record.response.body.authorization_id = i /\ record.response.body.status = s
            <3> HIDE DEF auth
            <3> QED
                BY <2>2 DEF IdempotencyRecord, AuthorizationResponse
        <2> HIDE DEF record
        <2>4. idem'[k] = record
            BY <2>1 DEF Put, record
        <2> QED
            BY <2>1, <2>3, <2>4 DEF TrueOf
    <1>4. CASE DepositStep
        <2> PICK a \in Accounts, amt \in Amounts,
                 read \in [current_balance : Balances, available_balance : Balances],
                 txn \in TransactionIds, l \in Keys :
                   ValidAmount(amt) /\ Deposit(a, amt, read, txn, l)
            BY <1>4 DEF DepositStep
        <2> DEFINE balances == AccountImage(read.current_balance + amt,
                                            read.available_balance + amt)
                   record == IdempotencyRecord(DepositHash(amt), DepositResponse(balances))
        <2>1. idem' = Put(idem, l, record)
            BY DEF Deposit
        <2>2. ~IsAuthorizationBody(record.response.body)
            BY DEF IsAuthorizationBody, AccountImage, IdempotencyRecord, DepositResponse
        <2> HIDE DEF record
        <2> QED
            BY <2>1, <2>2 DEF Put
    <1> QED
        BY <1>1, <1>2, <1>3, <1>4 DEF TableNext

LEMMA OneRecordStep ==
    TypeOK /\ RecordsTellTheTruth /\ OneRecordPerEffect /\ [TableNext]_tableVars
        => OneRecordPerEffect'
    <1> SUFFICES ASSUME TypeOK, RecordsTellTheTruth, OneRecordPerEffect, [TableNext]_tableVars
                 PROVE  OneRecordPerEffect'
        OBVIOUS
    <1>1. CASE TableNext
        <2>1. \A j \in DOMAIN idem : TrueOf(idem[j].response.body, authorization)
            BY TruthByRecord
        <2>2. ASSUME NEW k \in DOMAIN idem', NEW l \in DOMAIN idem', k # l,
                     IsAuthorizationBody(idem'[k].response.body),
                     idem'[k].response = idem'[l].response
              PROVE  FALSE
            <3>1. CASE k \in DOMAIN idem /\ l \in DOMAIN idem
                BY <1>1, <2>2, <3>1, RecordsKept DEF OneRecordPerEffect
            <3>2. CASE k \notin DOMAIN idem /\ l \in DOMAIN idem
                BY <1>1, <2>1, <2>2, <3>2, RecordsKept, NewsIsNew
            <3>3. CASE k \in DOMAIN idem /\ l \notin DOMAIN idem
                BY <1>1, <2>1, <2>2, <3>3, RecordsKept, NewsIsNew
            <3>4. CASE k \notin DOMAIN idem /\ l \notin DOMAIN idem
                BY <1>1, <2>2, <3>4, OneKeyAdded
            <3> QED
                BY <3>1, <3>2, <3>3, <3>4
        <2> QED
            BY <2>2 DEF OneRecordPerEffect
    <1>2. CASE UNCHANGED tableVars
        BY <1>2 DEF tableVars, OneRecordPerEffect
    <1> QED
        BY <1>1, <1>2

\* Keys that race for one hold leave one record of its placing, capture or void:
\* the losers' transactions are cancelled whole, their records with them.
THEOREM OneRecordForEach == TableSpec => []OneRecordPerEffect
    <1>1. TableInit => OneRecordPerEffect
        BY DEF TableInit, OneRecordPerEffect
    <1> QED
        BY <1>1, TypeCorrect, RecordsStayTrue, OneRecordStep, PTL DEF TableSpec

================================================================================
