--------------------------- MODULE CardLedgerProofs ---------------------------
(***************************************************************************)
(* LedgerTable implements CardLedger, for every instance: the initial      *)
(* table is the initial card ledger, and each transaction is one of its    *)
(* steps.                                                                  *)
(***************************************************************************)
EXTENDS LedgerTableProofs

\* Nothing in the code writes the fifth status, which no CardLedger state is for.
NeverReversed == \A i \in DOMAIN authorization : authorization[i].status # "REVERSED"

\* What the mapping rests on.
PromiseInv == FundsInv /\ NeverReversed

LEMMA NeverReversedStep == TypeOK /\ NeverReversed /\ [TableNext]_tableVars => NeverReversed'
    <1> SUFFICES ASSUME TypeOK, NeverReversed, [TableNext]_tableVars PROVE NeverReversed'
        OBVIOUS
    <1>1. CASE UNCHANGED authorization
        BY <1>1 DEF NeverReversed
    <1>2. CASE AuthorizeStep
        <2> PICK i \in AuthorizationIds, a \in Accounts, m \in DOMAIN merchant,
                 amt \in Amounts, today \in Days, k \in Keys :
                     InsertAuthorization(i, a, m, amt, today, k)
            BY <1>2 DEF AuthorizeStep
        <2>1. authorization' = Put(authorization, i, AuthorizationItem(i, a, m, amt, today))
            BY DEF InsertAuthorization
        <2>2. AuthorizationItem(i, a, m, amt, today).status = "PENDING"
            BY DEF AuthorizationItem
        <2> QED
            BY <2>1, <2>2 DEF NeverReversed, Put
    <1>3. CASE CaptureStep \/ VoidStep \/ ExpireStep
        <2>1. PICK i \in DOMAIN authorization, s \in {"CAPTURED", "VOIDED", "EXPIRED"} :
                  authorization' = [authorization EXCEPT ![i].status = s]
            <3>1. \A i \in DOMAIN authorization : authorization[i].authorization_id = i
                BY DEF TypeOK
            <3> QED
                BY <1>3, <3>1 DEF CaptureStep, VoidStep, ExpireStep, CaptureAuthorization,
                                  VoidAuthorization, ExpireHold
        <2>2. s \in Statuses
            BY DEF Statuses
        <2>3. \A j \in DOMAIN authorization' :
                  j \in DOMAIN authorization
                  /\ (authorization'[j].status = s \/ authorization'[j] = authorization[j])
            BY <2>1, <2>2, StatusChanged
        <2> QED
            BY <2>3 DEF NeverReversed
    <1>4. CASE CreateStep \/ DepositStep \/ LapseStep
        BY <1>1, <1>4 DEF CreateStep, DepositStep, LapseStep, InsertAccount, InsertMerchant,
                          Deposit, LapseRecord
    <1> QED
        BY <1>1, <1>2, <1>3, <1>4 DEF TableNext, tableVars

LEMMA PromiseInvStep == PromiseInv /\ [TableNext]_tableVars => PromiseInv'
    BY FundsStep, NeverReversedStep DEF PromiseInv, FundsInv

\* A hold is held exactly while its authorization is PENDING.
LEMMA HeldIsPending ==
    ASSUME TypeOK, NeverReversed, NEW i \in DOMAIN authorization
    PROVE  /\ Holds[i].account = authorization[i].account_id
           /\ Holds[i].amount = authorization[i].amount
           /\ Holds[i].merchant = authorization[i].merchant_id
           /\ Holds[i].state = HoldState[authorization[i].status]
           /\ Holds[i].state = "held" <=> authorization[i].status = "PENDING"
    <1>1. authorization[i].status \in {"PENDING", "CAPTURED", "VOIDED", "EXPIRED"}
        BY DEF TypeOK, NeverReversed, AuthorizationType, Statuses
    <1> QED
        BY <1>1 DEF Holds, AsHold, HoldState

\* The cents the promise reserves are the cents the table holds.
LEMMA ReservedIsHeld ==
    ASSUME TypeOK, NeverReversed, NEW a
    PROVE  Card!Reserved(a) = HeldCents(a)
    <1>1. {j \in DOMAIN Holds : Holds[j].account = a /\ Holds[j].state = "held"} = PendingHolds(a)
        BY HeldIsPending DEF Holds, PendingHolds
    <1>2. \A i \in PendingHolds(a) : Holds[i].amount = authorization[i].amount
        BY HeldIsPending DEF PendingHolds
    <1> HIDE DEF Holds
    <1> QED
        BY <1>1, <1>2 DEF Card!Reserved, HeldCents

\* The instance has a copy of the library's operator.
LEMMA SameCardinality == ASSUME NEW S PROVE Card!Cardinality(S) = Cardinality(S)
    BY DEF Card!Cardinality, Cardinality

\* What the table stores as available is what the promise derives.
LEMMA AvailableIsDerived ==
    ASSUME PromiseInv, NEW a \in DOMAIN account
    PROVE  Card!Available(a) = account[a].available_balance
    <1>1. /\ Cardinality(HeldCents(a)) \in Nat
          /\ account[a].current_balance = account[a].available_balance + Cardinality(HeldCents(a))
        BY FS_CardinalityType DEF PromiseInv, FundsInv, Backed
    <1>2. account[a].available_balance \in Int
        BY DEF PromiseInv, FundsInv, TypeOK, AccountType
    <1>3. Card!Reserved(a) = HeldCents(a)
        BY ReservedIsHeld DEF PromiseInv, FundsInv
    <1> QED
        BY <1>1, <1>2, <1>3, SameCardinality DEF Card!Available, Posted

--------------------------------------------------------------------------------
(* How the mapped state moves.                                               *)

\* A new record answers its key.
LEMMA KeyAnswered ==
    ASSUME NEW k, NEW hash, NEW response, KeyUnused(k),
           idem' = Put(idem, k, IdempotencyRecord(hash, response))
    PROVE  Card!Answers(k, AsEffect(response.body))
    <1>1. /\ DOMAIN idem' = DOMAIN idem \cup {k}
          /\ idem'[k].response = response
          /\ \A l \in DOMAIN idem : l # k => idem'[l] = idem[l]
        BY DEF Put, IdempotencyRecord
    <1> QED
        BY <1>1 DEF Card!Answers, Card!Extend, Effects, KeyUnused

\* Resolving an authorization changes its hold's state and nothing else.
LEMMA HoldMoved ==
    ASSUME TypeOK, NEW i \in DOMAIN authorization, NEW s \in Statuses,
           authorization' = [authorization EXCEPT ![i].status = s]
    PROVE  Holds' = [Holds EXCEPT ![i].state = HoldState[s]]
    <1>1. DOMAIN authorization' = DOMAIN authorization
        OBVIOUS
    <1>2. authorization \in [DOMAIN authorization -> AuthorizationType]
        BY DEF TypeOK
    <1>3. \A j \in DOMAIN authorization : j # i => authorization'[j] = authorization[j]
        OBVIOUS
    <1>4. AsHold(authorization'[i]) = [AsHold(authorization[i]) EXCEPT !.state = HoldState[s]]
        BY <1>2 DEF AsHold, AuthorizationType
    <1>5. Holds = [j \in DOMAIN authorization |-> AsHold(authorization[j])]
        BY DEF Holds
    <1>6. Holds' = [j \in DOMAIN authorization |-> AsHold(authorization'[j])]
        BY <1>1 DEF Holds
    <1> HIDE DEF AsHold
    <1> QED
        BY <1>3, <1>4, <1>5, <1>6

\* Placing an authorization adds a hold that is held.
LEMMA HoldAdded ==
    ASSUME NEW i, NEW a, NEW m, NEW amt, NEW today,
           authorization' = Put(authorization, i, AuthorizationItem(i, a, m, amt, today))
    PROVE  Holds' = Card!Extend(Holds, i, [account |-> a, merchant |-> m, amount |-> amt,
                                           state |-> "held"])
    <1> DEFINE item == AuthorizationItem(i, a, m, amt, today)
    <1>1. /\ DOMAIN authorization' = DOMAIN authorization \cup {i}
          /\ authorization'[i] = item
          /\ \A j \in DOMAIN authorization : j # i => authorization'[j] = authorization[j]
        BY DEF Put
    <1>2. AsHold(item) = [account |-> a, merchant |-> m, amount |-> amt, state |-> "held"]
        BY DEF AsHold, AuthorizationItem, HoldState
    <1>3. Holds = [j \in DOMAIN authorization |-> AsHold(authorization[j])]
        BY DEF Holds
    <1>4. Holds' = [j \in DOMAIN authorization \cup {i} |-> AsHold(authorization'[j])]
        BY <1>1 DEF Holds
    <1> HIDE DEF AsHold, item
    <1> QED
        BY <1>1, <1>2, <1>3, <1>4 DEF Card!Extend

\* What a record of the two kinds says.
LEMMA AuthorizationAnswer ==
    ASSUME NEW auth, NEW code
    PROVE  AsEffect(AuthorizationResponse(auth, code).body)
             = <<HoldState[auth.status], auth.authorization_id>>
    BY DEF AsEffect, AuthorizationResponse, IsAuthorizationBody

LEMMA DepositAnswer ==
    ASSUME NEW current, NEW available
    PROVE  AsEffect(DepositResponse(AccountImage(current, available)).body)
             = <<"funded", current, available>>
    BY DEF AsEffect, DepositResponse, AccountImage, IsAuthorizationBody

--------------------------------------------------------------------------------
(* Each transaction is a step of the promise.                                *)

LEMMA OpenStep ==
    ASSUME NEW a \in Accounts, InsertAccount(a) PROVE Card!Open(a)
    <1>1. /\ DOMAIN account' = DOMAIN account \cup {a} /\ a \notin DOMAIN account
          /\ account'[a].current_balance = 0
          /\ \A b \in DOMAIN account : account'[b] = account[b]
        BY DEF InsertAccount, Put, AccountImage
    <1> QED
        BY <1>1 DEF InsertAccount, Card!Open, Card!Extend, Posted, Holds, Effects

LEMMA EnrollStep ==
    ASSUME NEW m \in Merchants, InsertMerchant(m) PROVE Card!Enroll(m)
    BY DEF InsertMerchant, Put, Card!Enroll, Card!Extend, Posted, Holds, Effects

LEMMA ReserveStep ==
    ASSUME PromiseInv, NEW i \in AuthorizationIds, NEW a \in Accounts,
           NEW m \in DOMAIN merchant, NEW amt \in Amounts, NEW today \in Days, NEW k \in Keys,
           InsertAuthorization(i, a, m, amt, today, k)
    PROVE  Card!Reserve(i, a, m, amt, k)
    <1> DEFINE item == AuthorizationItem(i, a, m, amt, today)
    <1>1. /\ i \notin DOMAIN authorization
          /\ AuthorizeReasons(a, amt, k) = {}
          /\ account' = [account EXCEPT ![a].available_balance = @ - amt]
          /\ authorization' = Put(authorization, i, item)
          /\ idem' = Put(idem, k, IdempotencyRecord(AuthorizationHash(m, amt),
                                                    AuthorizationResponse(item, 201)))
          /\ merchant' = merchant
        BY DEF InsertAuthorization, NewAuthorizationId
    <1>2. SufficientFunds(a, amt) /\ KeyUnused(k)
        BY <1>1, NoFailure DEF AuthorizeReasons, SufficientFunds, KeyUnused
    <1>3. a \in DOMAIN account /\ amt <= Card!Available(a)
        <2>1. /\ a \in DOMAIN account
              /\ account[a].available_balance >= amt
              /\ account[a].available_balance \in Int
              /\ amt \in Int
            BY <1>2, AmountsAssumption DEF SufficientFunds, PromiseInv, FundsInv, TypeOK, AccountType
        <2>2. Card!Available(a) = account[a].available_balance
            BY <2>1, AvailableIsDerived
        <2> QED
            BY <2>1, <2>2
    <1>4. Posted' = Posted
        BY <1>1, <1>3 DEF Posted, PromiseInv, FundsInv, TypeOK, AccountType
    <1>5. Holds' = Card!Extend(Holds, i, [account |-> a, merchant |-> m, amount |-> amt,
                                          state |-> "held"])
        BY <1>1, HoldAdded
    <1>6. Card!Answers(k, <<"held", i>>)
        <2>1. Card!Answers(k, AsEffect(AuthorizationResponse(item, 201).body))
            BY <1>1, <1>2, KeyAnswered
        <2>2. HoldState[item.status] = "held" /\ item.authorization_id = i
            BY DEF AuthorizationItem, HoldState
        <2> HIDE DEF item
        <2> QED
            BY <2>1, <2>2, AuthorizationAnswer
    <1>7. DOMAIN Holds = DOMAIN authorization /\ DOMAIN Posted = DOMAIN account
        BY DEF Holds, Posted
    <1> QED
        BY <1>1, <1>3, <1>4, <1>5, <1>6, <1>7 DEF Card!Reserve

\* What capture, void and expiry have in common: the guard held, and the hold
\* is held in the promise.
LEMMA PendingIsHeld ==
    ASSUME PromiseInv, NEW i \in DOMAIN authorization, NEW a, StillPending(i, a)
    PROVE  i \in DOMAIN Holds /\ Holds[i].state = "held"
    BY HeldIsPending DEF StillPending, PromiseInv, FundsInv, Holds

LEMMA SettleStep ==
    ASSUME PromiseInv, NEW i \in DOMAIN authorization, NEW txn \in TransactionIds, NEW k \in Keys,
           CaptureAuthorization(authorization[i], authorization[i].account_id, txn, k)
    PROVE  Card!Settle(i, k)
    <1> DEFINE auth == authorization[i]
               a == auth.account_id
               m == auth.merchant_id
               captured == [auth EXCEPT !.status = "CAPTURED"]
    <1>1. /\ auth \in AuthorizationType /\ auth.authorization_id = i
          /\ a \in DOMAIN account /\ m \in DOMAIN merchant
        BY DEF PromiseInv, FundsInv, TypeOK
    <1>2. /\ CaptureReasons(auth, a, k) = {}
          /\ account' = [account EXCEPT ![a].current_balance = @ - auth.amount]
          /\ merchant' = [merchant EXCEPT ![m] = @ + auth.amount]
          /\ authorization' = [authorization EXCEPT ![i].status = "CAPTURED"]
          /\ idem' = Put(idem, k, IdempotencyRecord(NoHash, AuthorizationResponse(captured, 200)))
        BY <1>1 DEF CaptureAuthorization
    <1>3. StillPending(i, a) /\ KeyUnused(k)
        BY <1>1, <1>2, NoFailure DEF CaptureReasons, StillPending, KeyUnused
    <1>4. i \in DOMAIN Holds /\ Holds[i].state = "held"
        BY <1>3, PendingIsHeld
    <1>5. Holds[i].account = a /\ Holds[i].merchant = m /\ Holds[i].amount = auth.amount
        BY HeldIsPending DEF PromiseInv, FundsInv
    <1>6. Posted' = [Posted EXCEPT ![a] = @ - auth.amount]
        BY <1>1, <1>2 DEF Posted, PromiseInv, FundsInv, TypeOK, AccountType
    <1>7. Holds' = [Holds EXCEPT ![i].state = "settled"]
        BY <1>2, HoldMoved DEF PromiseInv, FundsInv, Statuses, HoldState
    <1>8. Card!Answers(k, <<"settled", i>>)
        <2>1. Card!Answers(k, AsEffect(AuthorizationResponse(captured, 200).body))
            BY <1>2, <1>3, KeyAnswered
        <2>2. HoldState[captured.status] = "settled" /\ captured.authorization_id = i
            BY <1>1 DEF HoldState, AuthorizationType
        <2> HIDE DEF captured
        <2> QED
            BY <2>1, <2>2, AuthorizationAnswer
    <1> QED
        BY <1>2, <1>4, <1>5, <1>6, <1>7, <1>8 DEF Card!Settle

LEMMA ReleaseStep ==
    ASSUME PromiseInv, NEW i \in DOMAIN authorization, NEW k \in Keys,
           VoidAuthorization(authorization[i], authorization[i].account_id, k)
    PROVE  Card!Release(i, k)
    <1> DEFINE auth == authorization[i]
               a == auth.account_id
               voided == [auth EXCEPT !.status = "VOIDED"]
    <1>1. /\ auth \in AuthorizationType /\ auth.authorization_id = i
          /\ a \in DOMAIN account
        BY DEF PromiseInv, FundsInv, TypeOK
    <1>2. /\ VoidReasons(auth, a, k) = {}
          /\ account' = [account EXCEPT ![a].available_balance = @ + auth.amount]
          /\ authorization' = [authorization EXCEPT ![i].status = "VOIDED"]
          /\ idem' = Put(idem, k, IdempotencyRecord(NoHash, AuthorizationResponse(voided, 200)))
          /\ merchant' = merchant
        BY <1>1 DEF VoidAuthorization
    <1>3. StillPending(i, a) /\ KeyUnused(k)
        BY <1>1, <1>2, NoFailure DEF VoidReasons, StillPending, KeyUnused
    <1>4. i \in DOMAIN Holds /\ Holds[i].state = "held"
        BY <1>3, PendingIsHeld
    <1>5. Posted' = Posted
        BY <1>1, <1>2 DEF Posted, PromiseInv, FundsInv, TypeOK, AccountType
    <1>6. Holds' = [Holds EXCEPT ![i].state = "released"]
        BY <1>2, HoldMoved DEF PromiseInv, FundsInv, Statuses, HoldState
    <1>7. Card!Answers(k, <<"released", i>>)
        <2>1. Card!Answers(k, AsEffect(AuthorizationResponse(voided, 200).body))
            BY <1>2, <1>3, KeyAnswered
        <2>2. HoldState[voided.status] = "released" /\ voided.authorization_id = i
            BY <1>1 DEF HoldState, AuthorizationType
        <2> HIDE DEF voided
        <2> QED
            BY <2>1, <2>2, AuthorizationAnswer
    <1> QED
        BY <1>2, <1>4, <1>5, <1>6, <1>7 DEF Card!Release

LEMMA ExpiryStep ==
    ASSUME PromiseInv, NEW i \in DOMAIN authorization, ExpireHold(authorization[i])
    PROVE  Card!Expire(i)
    <1> DEFINE auth == authorization[i]
               a == auth.account_id
    <1>1. /\ auth \in AuthorizationType /\ auth.authorization_id = i
          /\ a \in DOMAIN account
        BY DEF PromiseInv, FundsInv, TypeOK
    <1>2. /\ ExpireReasons(auth) = {}
          /\ account' = [account EXCEPT ![a].available_balance = @ + auth.amount]
          /\ authorization' = [authorization EXCEPT ![i].status = "EXPIRED"]
          /\ merchant' = merchant /\ idem' = idem
        BY <1>1 DEF ExpireHold
    <1>3. StillPending(i, a)
        BY <1>1, <1>2 DEF ExpireReasons, Failed
    <1>4. i \in DOMAIN Holds /\ Holds[i].state = "held"
        BY <1>3, PendingIsHeld
    <1>5. Posted' = Posted
        BY <1>1, <1>2 DEF Posted, PromiseInv, FundsInv, TypeOK, AccountType
    <1>6. Holds' = [Holds EXCEPT ![i].state = "expired"]
        BY <1>2, HoldMoved DEF PromiseInv, FundsInv, Statuses, HoldState
    <1>7. Effects' = Effects
        BY <1>2 DEF Effects
    <1> QED
        BY <1>2, <1>4, <1>5, <1>6, <1>7 DEF Card!Expire

\* The compare-and-swap: the image the deposit was built from is the account's.
LEMMA FundStep ==
    ASSUME PromiseInv, NEW a \in Accounts, NEW amt \in Amounts, NEW read,
           NEW txn \in TransactionIds, NEW k \in Keys, Deposit(a, amt, read, txn, k)
    PROVE  Card!Fund(a, amt, k)
    <1> DEFINE current == read.current_balance + amt
               available == read.available_balance + amt
               image == AccountImage(current, available)
    <1>1. /\ DepositReasons(a, read, k) = {}
          /\ account' = [account EXCEPT ![a] = image]
          /\ idem' = Put(idem, k, IdempotencyRecord(DepositHash(amt), DepositResponse(image)))
          /\ merchant' = merchant /\ authorization' = authorization
        BY DEF Deposit
    <1>2. BalanceAsRead(a, read) /\ KeyUnused(k)
        BY <1>1, NoFailure DEF DepositReasons, BalanceAsRead, KeyUnused
    <1>3. a \in DOMAIN account /\ account[a] = read
        BY <1>2 DEF BalanceAsRead
    <1>4. /\ DOMAIN Posted = DOMAIN account
          /\ current = Posted[a] + amt
          /\ available = Card!Available(a) + amt
        BY <1>3, AvailableIsDerived DEF Posted
    <1>5. Posted' = [Posted EXCEPT ![a] = @ + amt]
        BY <1>1, <1>3, <1>4 DEF Posted, AccountImage
    <1>6. Card!Answers(k, <<"funded", current, available>>)
        <2> HIDE DEF current, available
        <2> QED
            BY <1>1, <1>2, KeyAnswered, DepositAnswer
    <1>7. Holds' = Holds
        BY <1>1 DEF Holds
    <1> QED
        BY <1>1, <1>3, <1>4, <1>5, <1>6, <1>7 DEF Card!Fund

LEMMA ForgetStep == ASSUME NEW k \in Keys, LapseRecord(k) PROVE Card!Forget(k)
    BY DEF LapseRecord, Card!Forget, Posted, Holds, Effects

LEMMA PromiseStep == PromiseInv /\ [TableNext]_tableVars => [Card!Next]_(Card!cardVars)
    <1> SUFFICES ASSUME PromiseInv, [TableNext]_tableVars PROVE [Card!Next]_(Card!cardVars)
        OBVIOUS
    <1>1. CASE CreateStep
        BY <1>1, OpenStep, EnrollStep DEF CreateStep, Card!Next
    <1>2. CASE AuthorizeStep
        <2> PICK i \in AuthorizationIds, a \in Accounts, m \in DOMAIN merchant,
                 amt \in Amounts, today \in Days, k \in Keys :
                     ValidAmount(amt) /\ InsertAuthorization(i, a, m, amt, today, k)
            BY <1>2 DEF AuthorizeStep
        <2>1. m \in Merchants
            BY DEF PromiseInv, FundsInv, TypeOK
        <2> QED
            BY <2>1, ReserveStep DEF Card!Next, ValidAmount
    <1>3. CASE CaptureStep
        <2> PICK i \in DOMAIN authorization, txn \in TransactionIds, k \in Keys :
                     CaptureAuthorization(authorization[i], authorization[i].account_id, txn, k)
            BY <1>3 DEF CaptureStep
        <2>1. i \in AuthorizationIds
            BY DEF PromiseInv, FundsInv, TypeOK
        <2> QED
            BY <2>1, SettleStep DEF Card!Next
    <1>4. CASE VoidStep
        <2> PICK i \in DOMAIN authorization, k \in Keys :
                     VoidAuthorization(authorization[i], authorization[i].account_id, k)
            BY <1>4 DEF VoidStep
        <2>1. i \in AuthorizationIds
            BY DEF PromiseInv, FundsInv, TypeOK
        <2> QED
            BY <2>1, ReleaseStep DEF Card!Next
    <1>5. CASE ExpireStep
        <2> PICK i \in DOMAIN authorization : ExpireHold(authorization[i])
            BY <1>5 DEF ExpireStep
        <2>1. i \in AuthorizationIds
            BY DEF PromiseInv, FundsInv, TypeOK
        <2> QED
            BY <2>1, ExpiryStep DEF Card!Next
    <1>6. CASE DepositStep
        <2> PICK a \in Accounts, amt \in Amounts,
                 read \in [current_balance : Balances, available_balance : Balances],
                 txn \in TransactionIds, k \in Keys :
                     ValidAmount(amt) /\ Deposit(a, amt, read, txn, k)
            BY <1>6 DEF DepositStep
        <2> QED
            BY FundStep DEF Card!Next, ValidAmount
    <1>7. CASE LapseStep
        BY <1>7, ForgetStep DEF LapseStep, Card!Next
    <1>8. CASE UNCHANGED tableVars
        BY <1>8 DEF tableVars, Card!cardVars, Posted, Holds, Effects
    <1> QED
        BY <1>1, <1>2, <1>3, <1>4, <1>5, <1>6, <1>7, <1>8 DEF TableNext

LEMMA PromiseInit == TableInit => Card!Init /\ PromiseInv
    BY FundsInit DEF TableInit, Card!Init, PromiseInv, NeverReversed, Posted, Holds, Effects

\* The table keeps its promise: every transaction, built from whatever stale
\* image (the guards of ledger.py:138-150, 319, 503, 607, 703), is one step of
\* the abstract card ledger, or changes nothing a client can see.
THEOREM TableKeepsThePromise == TableSpec => KeepsThePromise
    <1>1. PromiseInv /\ [TableNext]_tableVars => PromiseInv'
        BY PromiseInvStep
    <1> QED
        BY <1>1, PromiseInit, PromiseStep, PTL DEF TableSpec, KeepsThePromise, Card!Spec

================================================================================
