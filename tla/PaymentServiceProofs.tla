------------------------- MODULE PaymentServiceProofs -------------------------
(***************************************************************************)
(* Theorems about PaymentService: whatever the calls, their interleaving,  *)
(* lagging reads, crashes and conflicts, the table takes only the steps of *)
(* LedgerTable, so every theorem about that module holds under it.         *)
(***************************************************************************)
EXTENDS PaymentService, LedgerEntriesProofs, CardLedgerProofs

--------------------------------------------------------------------------------
(* Requests and replies.                                                     *)

KeyedOps == {"authorize", "capture", "void", "deposit"}

\* What each kind of request carries.
LEMMA RequestShape ==
    ASSUME NEW r \in Requests
    PROVE  /\ r # Nothing
           /\ r.op \in KeyedOps \cup {"merchant"}
           /\ r.op \in KeyedOps => r.account \in Accounts /\ r.key \in Keys \cup {Nothing}
           /\ r.op = "authorize" => r.merchant \in Merchants /\ r.amount \in Amounts
           /\ r.op \in {"capture", "void"} => r.target \in AuthorizationIds
           /\ r.op = "deposit" => r.amount \in Amounts
           /\ r.op = "merchant" => r.merchant \in Merchants
    <1>1. r \in RequestType
        BY RequestsAssumption
    <1>2. CASE \E a \in Accounts, m \in Merchants, amt \in Amounts, k \in Keys \cup {Nothing} :
                  r = AuthorizeRequest(a, m, amt, k)
        BY <1>2 DEF AuthorizeRequest, KeyedOps, Nothing
    <1>3. CASE \E op \in {"capture", "void"}, a \in Accounts, i \in AuthorizationIds,
                  k \in Keys \cup {Nothing} : r = ResolveRequest(op, a, i, k)
        BY <1>3 DEF ResolveRequest, KeyedOps, Nothing
    <1>4. CASE \E a \in Accounts, amt \in Amounts, k \in Keys \cup {Nothing} :
                  r = DepositRequest(a, amt, k)
        BY <1>4 DEF DepositRequest, KeyedOps, Nothing
    <1>5. CASE \E m \in Merchants : r = MerchantRequest(m)
        BY <1>5 DEF MerchantRequest, KeyedOps, Nothing
    <1> QED
        BY <1>1, <1>2, <1>3, <1>4, <1>5 DEF RequestType

\* Where an invocation works on a keyed request it has accepted.
Working == {"merchant", "authorization", "account", "write", "resolve", "status"}

\* The operations that a handler's read, re-read or status check belongs to.
OpsAt(label) ==
    CASE label = "merchant"                -> {"authorize"}
      [] label \in {"authorization", "status"} -> {"capture", "void"}
      [] label = "account"                 -> {"deposit"}
      [] label \in {"check", "resolve"}     -> KeyedOps
      [] OTHER                             -> KeyedOps \cup {"merchant"}

\* The control state of one invocation.
ControlOK(c) ==
    /\ pc[c] = "idle" <=> request[c] = Nothing
    /\ pc[c] # "idle" => request[c] \in Requests /\ request[c].op \in OpsAt(pc[c])
    /\ pc[c] \in Working /\ request[c].op # "merchant"
          => ValidBody(request[c]) /\ request[c].key \in Keys \ {Nothing}
    /\ attempts[c] > 0 => pc[c] # "idle" /\ request[c].op = "deposit"
    /\ committed[c] => pc[c] \in {"reply", "done"}

Control ==
    /\ pc \in [Calls -> Labels]
    /\ request \in [Calls -> Requests \cup {Nothing}]
    /\ attempts \in [Calls -> 0..(MaxAttempts - 1)]
    /\ committed \in [Calls -> BOOLEAN]
    /\ DOMAIN image = Calls
    /\ DOMAIN reply = Calls
    /\ \A c \in Calls : ControlOK(c)

LEMMA ControlInit == ServiceInit => Control
    BY MaxAttemptsAssumption
       DEF ServiceInit, CallInit, Control, ControlOK, Labels, Nothing, Working

\* What an invocation's step does to the others: nothing.
LEMMA OthersKept ==
    ASSUME Control, NEW c \in Calls, Receive(c) \/ Serve(c) \/ Crash(c),
           NEW d \in Calls, d # c
    PROVE  /\ pc'[d] = pc[d]
           /\ request'[d] = request[d]
           /\ image'[d] = image[d]
           /\ attempts'[d] = attempts[d]
           /\ reply'[d] = reply[d]
           /\ committed'[d] = committed[d]
    <1> USE DEF Control, Answer, Goto, Commit, NoCommit
    <1>1. CASE Receive(c)
        BY <1>1 DEF Receive
    <1>2. CASE RejectBody(c) \/ MissingKey(c) \/ CheckReplay(c)
        BY <1>2 DEF RejectBody, MissingKey, CheckReplay
    <1>3. CASE ReadMerchant(c) \/ ReadAuthorization(c) \/ ReadAccount(c)
        BY <1>3 DEF ReadMerchant, ReadAuthorization, ReadAccount
    <1>4. CASE WriteAuthorization(c)
        BY <1>4 DEF WriteAuthorization
    <1>5. CASE WriteCapture(c) \/ WriteVoid(c)
        BY <1>5 DEF WriteCapture, WriteVoid, ExplainResolve
    <1>6. CASE WriteDeposit(c)
        BY <1>6 DEF WriteDeposit, RetryDeposit
    <1>7. CASE WriteMerchant(c) \/ WriteConflicts(c)
        BY <1>7 DEF WriteMerchant, WriteConflicts
    <1>8. CASE Resolve(c) \/ ReadStatus(c) \/ Deliver(c)
        BY <1>8 DEF Resolve, ReadStatus, Deliver
    <1>9. CASE Crash(c)
        BY <1>9 DEF Crash
    <1> QED
        BY <1>1, <1>2, <1>3, <1>4, <1>5, <1>6, <1>7, <1>8, <1>9 DEF Serve

\* An invocation's own step follows its handler.
LEMMA ControlOwn ==
    ASSUME Control, NEW c \in Calls, Receive(c) \/ Serve(c) \/ Crash(c)
    PROVE  /\ ControlOK(c)'
           /\ attempts'[c] \in 0..(MaxAttempts - 1)
    <1> USE DEF Control
    <1>0. /\ ControlOK(c)
          /\ attempts[c] \in 0..(MaxAttempts - 1)
          /\ request[c] \in Requests => /\ request[c] # Nothing
                                        /\ request[c].op \in KeyedOps \cup {"merchant"}
                                        /\ request[c].op \in KeyedOps =>
                                              request[c].key \in Keys \cup {Nothing}
          /\ \A r \in Requests : r # Nothing /\ r.op \in KeyedOps \cup {"merchant"}
        BY RequestShape
    <1>1. CASE Receive(c)
        BY <1>0, <1>1, MaxAttemptsAssumption DEF Receive, NoCommit, ControlOK, OpsAt, Working
    <1>2. CASE RejectBody(c) \/ MissingKey(c)
        BY <1>0, <1>2, MaxAttemptsAssumption
           DEF RejectBody, MissingKey, Answer, NoCommit, ControlOK, OpsAt, Working
    <1>3. CASE CheckReplay(c)
        BY <1>0, <1>3, MaxAttemptsAssumption
           DEF CheckReplay, Answer, Goto, NoCommit, ControlOK, OpsAt, Working, FirstRead, KeyedOps
    <1>4. CASE ReadMerchant(c) \/ ReadAuthorization(c) \/ ReadAccount(c)
        BY <1>0, <1>4, MaxAttemptsAssumption
           DEF ReadMerchant, ReadAuthorization, ReadAccount, Answer, Goto, NoCommit,
               ControlOK, OpsAt, Working, KeyedOps
    <1>5. CASE WriteAuthorization(c)
        BY <1>0, <1>5, MaxAttemptsAssumption
           DEF WriteAuthorization, Answer, Goto, Commit, NoCommit, ControlOK, OpsAt, Working,
               KeyedOps
    <1>6. CASE WriteCapture(c) \/ WriteVoid(c)
        BY <1>0, <1>6, MaxAttemptsAssumption
           DEF WriteCapture, WriteVoid, ExplainResolve, Answer, Goto, Commit, NoCommit,
               ControlOK, OpsAt, Working, KeyedOps
    <1>7. CASE WriteDeposit(c)
        BY <1>0, <1>7, MaxAttemptsAssumption
           DEF WriteDeposit, RetryDeposit, Answer, Goto, Commit, NoCommit, ControlOK, OpsAt,
               Working, KeyedOps
    <1>8. CASE WriteMerchant(c) \/ WriteConflicts(c)
        BY <1>0, <1>8, MaxAttemptsAssumption
           DEF WriteMerchant, WriteConflicts, Answer, Commit, NoCommit, ControlOK, OpsAt, Working
    <1>9. CASE Resolve(c) \/ ReadStatus(c) \/ Deliver(c)
        BY <1>0, <1>9, MaxAttemptsAssumption
           DEF Resolve, ReadStatus, Deliver, Answer, NoCommit, ControlOK, OpsAt, Working, KeyedOps
    <1>10. CASE Crash(c)
        BY <1>0, <1>10, MaxAttemptsAssumption DEF Crash, NoCommit, ControlOK, OpsAt, Working
    <1> QED
        BY <1>1, <1>2, <1>3, <1>4, <1>5, <1>6, <1>7, <1>8, <1>9, <1>10 DEF Serve

\* The bookkeeping of the calls stays functions over the calls.
LEMMA ControlTyped ==
    ASSUME Control, NEW c \in Calls, Receive(c) \/ Serve(c) \/ Crash(c)
    PROVE  /\ pc' \in [Calls -> Labels]
           /\ request' \in [Calls -> Requests \cup {Nothing}]
           /\ DOMAIN attempts' = Calls /\ attempts' = [d \in Calls |-> attempts'[d]]
           /\ committed' \in [Calls -> BOOLEAN]
           /\ DOMAIN image' = Calls
           /\ DOMAIN reply' = Calls
    <1> USE DEF Control, Answer, Goto, Commit, NoCommit, Labels
    <1>1. CASE Receive(c)
        BY <1>1 DEF Receive
    <1>2. CASE RejectBody(c) \/ MissingKey(c)
        BY <1>2 DEF RejectBody, MissingKey
    <1>3. CASE CheckReplay(c)
        BY <1>3 DEF CheckReplay, FirstRead
    <1>4. CASE ReadMerchant(c) \/ ReadAuthorization(c) \/ ReadAccount(c)
        BY <1>4 DEF ReadMerchant, ReadAuthorization, ReadAccount
    <1>5. CASE WriteAuthorization(c)
        BY <1>5 DEF WriteAuthorization
    <1>6. CASE WriteCapture(c) \/ WriteVoid(c)
        BY <1>6 DEF WriteCapture, WriteVoid, ExplainResolve
    <1>7. CASE WriteDeposit(c)
        BY <1>7 DEF WriteDeposit, RetryDeposit
    <1>8. CASE WriteMerchant(c) \/ WriteConflicts(c)
        BY <1>8 DEF WriteMerchant, WriteConflicts
    <1>9. CASE Resolve(c) \/ ReadStatus(c) \/ Deliver(c)
        BY <1>9 DEF Resolve, ReadStatus, Deliver
    <1>10. CASE Crash(c)
        BY <1>10 DEF Crash
    <1> QED
        BY <1>1, <1>2, <1>3, <1>4, <1>5, <1>6, <1>7, <1>8, <1>9, <1>10 DEF Serve

\* The steps that are no invocation's.
LEMMA OtherSteps ==
    ASSUME [ServiceNext]_vars, ~\E c \in Calls : Receive(c) \/ Serve(c) \/ Crash(c)
    PROVE  UNCHANGED callVars
    BY DEF ServiceNext, Finished, SignUp, Replicate, Sweep, Lapse, vars

LEMMA ControlStep == Control /\ [ServiceNext]_vars => Control'
    <1> SUFFICES ASSUME Control, [ServiceNext]_vars PROVE Control'
        OBVIOUS
    <1>1. ASSUME NEW c \in Calls, Receive(c) \/ Serve(c) \/ Crash(c)
          PROVE  Control'
        <2>1. \A d \in Calls : ControlOK(d)' /\ attempts'[d] \in 0..(MaxAttempts - 1)
            <3> TAKE d \in Calls
            <3>1. CASE d = c
                BY <1>1, <3>1, ControlOwn
            <3>2. CASE d # c
                BY <1>1, <3>2, OthersKept DEF Control, ControlOK
            <3> QED
                BY <3>1, <3>2
        <2> QED
            BY <1>1, <2>1, ControlTyped DEF Control
    <1>2. CASE UNCHANGED callVars
        BY <1>2 DEF Control, ControlOK, callVars
    <1> QED
        BY <1>1, <1>2, OtherSteps

--------------------------------------------------------------------------------
(* Every step of the service is a step of the table.                         *)

\* An image of a hold as it was at some time: its terms are the hold's, only
\* the status may have moved on since.
PastHold(auth, i) ==
    /\ i \in DOMAIN authorization
    /\ auth \in AuthorizationType
    /\ [auth EXCEPT !.status = "PENDING"] = [authorization[i] EXCEPT !.status = "PENDING"]

\* What an invocation that is about to write knows of the table, however long
\* ago it read it.
ItemsOK(c) ==
    /\ pc[c] = "write" /\ request[c].op = "authorize" => request[c].merchant \in DOMAIN merchant
    /\ pc[c] \in {"write", "status"} /\ request[c].op \in {"capture", "void"} =>
          PastHold(image[c], request[c].target) /\ image[c].account_id = request[c].account

\* A lagging read returns what the table held at some time.
ReplicasOK ==
    /\ DOMAIN replica = {"account", "merchant", "authorization", "idem"}
    /\ DOMAIN replica.merchant \subseteq DOMAIN merchant
    /\ \A i \in DOMAIN replica.authorization : PastHold(replica.authorization[i], i)
    /\ \A k \in DOMAIN replica.idem : replica.idem[k] \in RecordType

\* The inductive invariant of the service.
ServiceInv ==
    /\ TypeOK
    /\ Control
    /\ ReplicasOK
    /\ \A c \in Calls : ItemsOK(c)

\* Two images of a hold differ in status only.
LEMMA PastTerms ==
    ASSUME TypeOK, NEW auth, NEW i, PastHold(auth, i)
    PROVE  /\ auth.authorization_id = i
           /\ authorization[i].authorization_id = i
           /\ auth.account_id = authorization[i].account_id
           /\ auth.merchant_id = authorization[i].merchant_id
           /\ auth.amount = authorization[i].amount
           /\ \A s : [auth EXCEPT !.status = s] = [authorization[i] EXCEPT !.status = s]
    <1>1. /\ authorization[i] \in AuthorizationType
          /\ authorization[i].authorization_id = i
          /\ auth \in AuthorizationType
          /\ [auth EXCEPT !.status = "PENDING"] = [authorization[i] EXCEPT !.status = "PENDING"]
        BY DEF TypeOK, PastHold
    <1>2. /\ auth.authorization_id = authorization[i].authorization_id
          /\ auth.account_id = authorization[i].account_id
          /\ auth.merchant_id = authorization[i].merchant_id
          /\ auth.amount = authorization[i].amount
          /\ auth.expires_at = authorization[i].expires_at
        BY <1>1 DEF AuthorizationType
    <1> QED
        BY <1>1, <1>2 DEF AuthorizationType

\* A capture or void built from an image is the one built from the hold itself.
LEMMA CaptureByImage ==
    ASSUME TypeOK, NEW auth, NEW i, PastHold(auth, i), NEW a, auth.account_id = a,
           NEW txn, NEW k, CaptureAuthorization(auth, a, txn, k)
    PROVE  CaptureAuthorization(authorization[i], authorization[i].account_id, txn, k)
    <1>1. /\ auth.authorization_id = authorization[i].authorization_id
          /\ a = authorization[i].account_id
          /\ auth.merchant_id = authorization[i].merchant_id
          /\ auth.amount = authorization[i].amount
          /\ [auth EXCEPT !.status = "CAPTURED"] = [authorization[i] EXCEPT !.status = "CAPTURED"]
        BY PastTerms
    <1> DEFINE hold == authorization[i]
               captured(x) == [x EXCEPT !.status = "CAPTURED"]
    <1>2. CaptureReasons(auth, a, k) = CaptureReasons(hold, a, k)
        BY <1>1 DEF CaptureReasons
    <1>3. CaptureEntries(txn, auth, a) = CaptureEntries(txn, hold, a)
        BY <1>1 DEF CaptureEntries
    <1>4. captured(auth) = captured(hold)
        BY <1>1
    <1>5. idem' = Put(idem, k, IdempotencyRecord(NoHash, AuthorizationResponse(captured(hold), 200)))
        <2>1. idem' = Put(idem, k,
                          IdempotencyRecord(NoHash, AuthorizationResponse(captured(auth), 200)))
            BY DEF CaptureAuthorization
        <2> HIDE DEF captured
        <2> QED
            BY <1>4, <2>1
    <1>6. /\ NewTransactionId(txn)
          /\ CaptureReasons(hold, a, k) = {}
          /\ account' = [account EXCEPT ![a].current_balance = @ - hold.amount]
          /\ merchant' = [merchant EXCEPT ![hold.merchant_id] = @ + hold.amount]
          /\ entries' = entries \cup CaptureEntries(txn, hold, a)
          /\ authorization' = [authorization EXCEPT ![hold.authorization_id].status = "CAPTURED"]
        BY <1>1, <1>2, <1>3 DEF CaptureAuthorization
    <1> QED
        BY <1>1, <1>5, <1>6 DEF CaptureAuthorization

LEMMA VoidByImage ==
    ASSUME TypeOK, NEW auth, NEW i, PastHold(auth, i), NEW a, auth.account_id = a,
           NEW k, VoidAuthorization(auth, a, k)
    PROVE  VoidAuthorization(authorization[i], authorization[i].account_id, k)
    <1>1. /\ auth.authorization_id = authorization[i].authorization_id
          /\ a = authorization[i].account_id
          /\ auth.amount = authorization[i].amount
          /\ [auth EXCEPT !.status = "VOIDED"] = [authorization[i] EXCEPT !.status = "VOIDED"]
        BY PastTerms
    <1> DEFINE hold == authorization[i]
               voided(x) == [x EXCEPT !.status = "VOIDED"]
    <1>2. VoidReasons(auth, a, k) = VoidReasons(hold, a, k)
        BY <1>1 DEF VoidReasons
    <1>3. voided(auth) = voided(hold)
        BY <1>1
    <1>4. idem' = Put(idem, k, IdempotencyRecord(NoHash, AuthorizationResponse(voided(hold), 200)))
        <2>1. idem' = Put(idem, k,
                          IdempotencyRecord(NoHash, AuthorizationResponse(voided(auth), 200)))
            BY DEF VoidAuthorization
        <2> HIDE DEF voided
        <2> QED
            BY <1>3, <2>1
    <1>5. /\ VoidReasons(hold, a, k) = {}
          /\ account' = [account EXCEPT ![a].available_balance = @ + hold.amount]
          /\ authorization' = [authorization EXCEPT ![hold.authorization_id].status = "VOIDED"]
          /\ UNCHANGED <<merchant, entries>>
        BY <1>1, <1>2 DEF VoidAuthorization
    <1> QED
        BY <1>1, <1>4, <1>5 DEF VoidAuthorization

\* A call's commit, whatever it read before, is a transaction of LedgerTable.
LEMMA CallIsTableStep ==
    ASSUME Balances = Int, ServiceInv, NEW c \in Calls, Receive(c) \/ Serve(c) \/ Crash(c)
    PROVE  [TableNext]_tableVars
    <1> DEFINE r == request[c]
    <1>1. /\ TypeOK
          /\ pc[c] # "idle" => r \in Requests
          /\ pc[c] = "write" /\ r.op # "merchant" => ValidBody(r) /\ r.key \in Keys
        BY DEF ServiceInv, Control, ControlOK, Working
    <1>2. CASE NoCommit
        BY <1>2 DEF NoCommit
    <1>3. CASE WriteAuthorization(c)
        <2>1. ASSUME NEW i \in AuthorizationIds, NEW today \in Days,
                     InsertAuthorization(i, r.account, r.merchant, r.amount, today, r.key)
              PROVE  AuthorizeStep
            <3>1. pc[c] = "write" /\ r.op = "authorize"
                BY <1>3 DEF WriteAuthorization
            <3>2. /\ r.account \in Accounts
                  /\ r.merchant \in DOMAIN merchant
                  /\ r.amount \in Amounts
                  /\ r.key \in Keys
                  /\ ValidAmount(r.amount)
                BY <1>1, <3>1, RequestShape DEF ServiceInv, ItemsOK, ValidBody, KeyedOps
            <3> QED
                BY <2>1, <3>2 DEF AuthorizeStep
        <2> QED
            BY <1>2, <1>3, <2>1 DEF WriteAuthorization, TableNext
    <1>4. CASE WriteCapture(c)
        <2>1. ASSUME NEW txn \in TransactionIds,
                     CaptureAuthorization(image[c], r.account, txn, r.key)
              PROVE  CaptureStep
            <3>1. pc[c] = "write" /\ r.op = "capture"
                BY <1>4 DEF WriteCapture
            <3>2. /\ PastHold(image[c], r.target)
                  /\ image[c].account_id = r.account
                  /\ r.key \in Keys
                BY <1>1, <3>1 DEF ServiceInv, ItemsOK
            <3>3. CaptureAuthorization(authorization[r.target], authorization[r.target].account_id,
                                       txn, r.key)
                BY <1>1, <2>1, <3>2, CaptureByImage
            <3> QED
                BY <3>2, <3>3 DEF CaptureStep, PastHold
        <2> QED
            BY <1>2, <1>4, <2>1 DEF WriteCapture, ExplainResolve, TableNext
    <1>5. CASE WriteVoid(c)
        <2>1. ASSUME VoidAuthorization(image[c], r.account, r.key)
              PROVE  VoidStep
            <3>1. pc[c] = "write" /\ r.op = "void"
                BY <1>5 DEF WriteVoid
            <3>2. /\ PastHold(image[c], r.target)
                  /\ image[c].account_id = r.account
                  /\ r.key \in Keys
                BY <1>1, <3>1 DEF ServiceInv, ItemsOK
            <3>3. VoidAuthorization(authorization[r.target], authorization[r.target].account_id,
                                    r.key)
                BY <1>1, <2>1, <3>2, VoidByImage
            <3> QED
                BY <3>2, <3>3 DEF VoidStep, PastHold
        <2> QED
            BY <1>2, <1>5, <2>1 DEF WriteVoid, ExplainResolve, TableNext
    <1>6. CASE WriteDeposit(c)
        <2>1. ASSUME NEW txn \in TransactionIds,
                     Deposit(r.account, r.amount, image[c], txn, r.key)
              PROVE  DepositStep
            <3>1. pc[c] = "write" /\ r.op = "deposit"
                BY <1>6 DEF WriteDeposit
            <3>2. /\ r.account \in Accounts
                  /\ r.amount \in Amounts
                  /\ r.key \in Keys
                  /\ ValidAmount(r.amount)
                BY <1>1, <3>1, RequestShape DEF ValidBody, KeyedOps
            <3>3. r.account \in DOMAIN account /\ account[r.account] = image[c]
                <4>1. Failed(0, BalanceAsRead(r.account, image[c]))
                        \cup Failed(3, KeyUnused(r.key)) = {}
                    BY <2>1 DEF Deposit, DepositReasons
                <4> QED
                    BY <4>1 DEF Failed, BalanceAsRead
            <3>4. image[c] \in [current_balance : Balances, available_balance : Balances]
                BY <1>1, <3>3 DEF TypeOK, AccountType
            <3> QED
                BY <2>1, <3>2, <3>4 DEF DepositStep
        <2> QED
            BY <1>2, <1>6, <2>1 DEF WriteDeposit, TableNext
    <1>7. CASE WriteMerchant(c)
        <2>1. r.merchant \in Merchants
            BY <1>1, <1>7, RequestShape DEF WriteMerchant
        <2> QED
            BY <1>2, <1>7, <2>1 DEF WriteMerchant, CreateStep, TableNext
    <1>8. CASE Receive(c) \/ RejectBody(c) \/ MissingKey(c) \/ CheckReplay(c) \/ ReadMerchant(c)
               \/ ReadAuthorization(c) \/ ReadAccount(c) \/ WriteConflicts(c) \/ Resolve(c)
               \/ ReadStatus(c) \/ Deliver(c) \/ Crash(c)
        <2>1. NoCommit
            BY <1>8 DEF Receive, RejectBody, MissingKey, CheckReplay, ReadMerchant,
                        ReadAuthorization, ReadAccount, WriteConflicts, Resolve, ReadStatus,
                        Deliver, Crash
        <2> QED
            BY <1>2, <2>1
    <1> QED
        BY <1>3, <1>4, <1>5, <1>6, <1>7, <1>8 DEF Serve

LEMMA ServiceIsTableStep ==
    ASSUME Balances = Int, ServiceInv, [ServiceNext]_vars
    PROVE  [TableNext]_tableVars
    <1>1. CASE \E c \in Calls : Receive(c) \/ Serve(c) \/ Crash(c)
        BY <1>1, CallIsTableStep
    <1>2. CASE \E s \in Signups : SignUp(s)
        BY <1>2 DEF SignUp, SignupStep, Confirm, Run, Insert, LoseContact, WakeUp, TimeOut,
                    CreateStep, TableNext
    <1>3. CASE Sweep \/ Lapse
        BY <1>3 DEF Sweep, Lapse, TableNext
    <1>4. CASE Finished \/ (\E kind \in DOMAIN replica : Replicate(kind)) \/ UNCHANGED vars
        BY <1>4 DEF Finished, Replicate, vars
    <1> QED
        BY <1>1, <1>2, <1>3, <1>4 DEF ServiceNext

--------------------------------------------------------------------------------
(* What was read stays true enough.                                          *)

\* Accounts and merchants stay.
LEMMA ItemsStay ==
    ASSUME TypeOK, [TableNext]_tableVars
    PROVE  DOMAIN account \subseteq DOMAIN account' /\ DOMAIN merchant \subseteq DOMAIN merchant'
    <1>1. CASE CreateStep
        BY <1>1 DEF CreateStep, InsertAccount, InsertMerchant, Put
    <1>2. CASE AuthorizeStep
        BY <1>2 DEF AuthorizeStep, InsertAuthorization
    <1>3. CASE CaptureStep
        BY <1>3 DEF CaptureStep, CaptureAuthorization
    <1>4. CASE VoidStep
        BY <1>4 DEF VoidStep, VoidAuthorization
    <1>5. CASE ExpireStep
        BY <1>5 DEF ExpireStep, ExpireHold
    <1>6. CASE DepositStep
        BY <1>6 DEF DepositStep, Deposit
    <1>7. CASE LapseStep \/ UNCHANGED tableVars
        BY <1>7 DEF LapseStep, LapseRecord, tableVars
    <1> QED
        BY <1>1, <1>2, <1>3, <1>4, <1>5, <1>6, <1>7 DEF TableNext

\* An image of a hold stays one: terms never change and holds stay.
LEMMA PastHoldKept ==
    ASSUME TypeOK, [TableNext]_tableVars, NEW auth, NEW i, PastHold(auth, i)
    PROVE  PastHold(auth, i)'
    <1>1. CASE TableNext
        BY <1>1, ResolveOnceStep DEF PastHold
    <1>2. CASE UNCHANGED tableVars
        BY <1>2 DEF PastHold, tableVars
    <1> QED
        BY <1>1, <1>2

\* A hold is an image of itself.
LEMMA HoldIsPast ==
    ASSUME TypeOK
    PROVE  \A i \in DOMAIN authorization : PastHold(authorization[i], i)
    BY DEF PastHold, TypeOK

\* What an invocation reads, current or lagging, is an image of the table.
LEMMA SeenItems ==
    ASSUME TypeOK, ReplicasOK
    PROVE  /\ \A merchants \in Seen(merchant, replica.merchant) :
                 DOMAIN merchants \subseteq DOMAIN merchant
           /\ \A holds \in Seen(authorization, replica.authorization) :
                 \A i \in DOMAIN holds : PastHold(holds[i], i)
           /\ \A records \in Seen(idem, replica.idem) :
                 \A k \in DOMAIN records : records[k] \in RecordType
    <1>1. /\ \A i \in DOMAIN authorization : PastHold(authorization[i], i)
          /\ \A k \in DOMAIN idem : idem[k] \in RecordType
        BY HoldIsPast DEF TypeOK
    <1> QED
        BY <1>1 DEF Seen, ReplicasOK

LEMMA ReplicasStep ==
    ASSUME TypeOK, TypeOK', ReplicasOK, [TableNext]_tableVars, [ServiceNext]_vars
    PROVE  ReplicasOK'
    <1>1. /\ DOMAIN merchant \subseteq DOMAIN merchant'
          /\ \A auth, i : PastHold(auth, i) => PastHold(auth, i)'
        BY ItemsStay, PastHoldKept
    <1>2. CASE replica' = replica
        BY <1>1, <1>2 DEF ReplicasOK
    <1>3. CASE \E kind \in DOMAIN replica : Replicate(kind)
        <2> PICK kind \in DOMAIN replica : Replicate(kind)
            BY <1>3
        <2>1. UNCHANGED tableVars /\ replica' = [replica EXCEPT ![kind] = Current[kind]]
            BY DEF Replicate
        <2>2. /\ Current.merchant = merchant
              /\ Current.authorization = authorization
              /\ Current.idem = idem
            BY DEF Current
        <2>3. /\ replica'.merchant \in {replica.merchant, merchant}
              /\ replica'.authorization \in {replica.authorization, authorization}
              /\ replica'.idem \in {replica.idem, idem}
              /\ DOMAIN replica' = DOMAIN replica
            BY <2>1, <2>2 DEF ReplicasOK
        <2>4. merchant' = merchant /\ authorization' = authorization
            BY <2>1 DEF tableVars
        <2>5. \A i \in DOMAIN replica'.authorization : PastHold(replica'.authorization[i], i)
            BY <2>3, HoldIsPast DEF ReplicasOK
        <2>6. \A k \in DOMAIN replica'.idem : replica'.idem[k] \in RecordType
            BY <2>3 DEF ReplicasOK, TypeOK
        <2>7. DOMAIN replica'.merchant \subseteq DOMAIN merchant
            BY <2>3 DEF ReplicasOK
        <2>8. \A i \in DOMAIN replica'.authorization : PastHold(replica.authorization[i], i)'
            BY <2>4, <2>5 DEF PastHold
        <2> QED
            BY <2>3, <2>4, <2>6, <2>7, <2>8 DEF ReplicasOK
    <1>4. CASE \E c \in Calls : Receive(c) \/ Serve(c) \/ Crash(c)
        <2>1. replica' = replica
            BY <1>4 DEF Receive, Serve, Crash, RejectBody, MissingKey, CheckReplay, ReadMerchant,
               ReadAuthorization, ReadAccount, WriteAuthorization, WriteCapture, WriteVoid,
               WriteDeposit, WriteMerchant, WriteConflicts, Resolve, ReadStatus, Deliver
        <2> QED
            BY <1>2, <2>1
    <1>5. CASE Finished \/ (\E s \in Signups : SignUp(s)) \/ Sweep \/ Lapse \/ UNCHANGED vars
        BY <1>2, <1>5 DEF Finished, SignUp, Sweep, Lapse, vars
    <1> QED
        BY <1>3, <1>4, <1>5 DEF ServiceNext

\* An invocation reaches its write only with what that write relies on.
LEMMA ItemsOwn ==
    ASSUME ServiceInv, [TableNext]_tableVars, NEW c \in Calls,
           Receive(c) \/ Serve(c) \/ Crash(c)
    PROVE  ItemsOK(c)'
    <1> USE DEF Control
    <1>1. /\ TypeOK
          /\ Control
          /\ ReplicasOK
          /\ ItemsOK(c)
          /\ \A r \in Requests : r.op \in KeyedOps \cup {"merchant"}
          /\ pc[c] # "idle" => request[c] \in Requests /\ request[c].op \in OpsAt(pc[c])
        BY RequestShape DEF ServiceInv, ControlOK
    <1>2. CASE Receive(c)
        BY <1>1, <1>2 DEF Receive, ItemsOK
    <1>3. CASE RejectBody(c) \/ MissingKey(c)
        BY <1>1, <1>3 DEF RejectBody, MissingKey, Answer, ItemsOK
    <1>4. CASE CheckReplay(c)
        BY <1>1, <1>4 DEF CheckReplay, Goto, Answer, FirstRead, ItemsOK
    <1>5. CASE ReadMerchant(c)
        <2>1. /\ request' = request
              /\ merchant' = merchant
              /\ request[c].op = "authorize"
              /\ \/ pc' = [pc EXCEPT ![c] = "reply"]
                 \/ /\ pc' = [pc EXCEPT ![c] = "write"]
                    /\ request[c].merchant \in DOMAIN merchant
            BY <1>1, <1>5, SeenItems
               DEF ReadMerchant, Goto, Answer, NoCommit, OpsAt, tableVars
        <2> QED
            BY <1>1, <2>1 DEF ItemsOK
    <1>6. CASE ReadAuthorization(c)
        <2>1. /\ request' = request
              /\ authorization' = authorization
              /\ request[c].op \in {"capture", "void"}
              /\ \/ pc' = [pc EXCEPT ![c] = "reply"]
                 \/ /\ pc' = [pc EXCEPT ![c] = "write"]
                    /\ PastHold(image'[c], request[c].target)
                    /\ image'[c].account_id = request[c].account
            BY <1>1, <1>6, SeenItems
               DEF ReadAuthorization, Goto, Answer, NoCommit, OpsAt, tableVars
        <2> QED
            BY <1>1, <2>1 DEF ItemsOK, PastHold
    <1>7. CASE ReadAccount(c)
        BY <1>1, <1>7 DEF ReadAccount, Goto, Answer, OpsAt, ItemsOK
    <1>8. CASE WriteAuthorization(c) \/ WriteDeposit(c)
        <2>1. pc'[c] \in {"reply", "resolve", "account"}
            BY <1>1, <1>8
               DEF WriteAuthorization, WriteDeposit, RetryDeposit, Goto, Answer, Commit
        <2> QED
            BY <2>1 DEF ItemsOK
    <1>9. CASE WriteCapture(c) \/ WriteVoid(c)
        <2>1. \/ pc'[c] \in {"reply", "resolve"}
              \/ /\ pc' = [pc EXCEPT ![c] = "status"]
                 /\ request' = request
                 /\ image' = image
                 /\ authorization' = authorization
                 /\ pc[c] = "write"
            BY <1>1, <1>9
               DEF WriteCapture, WriteVoid, ExplainResolve, Goto, Answer, Commit, NoCommit, tableVars
        <2> QED
            BY <1>1, <2>1 DEF ItemsOK, PastHold
    <1>10. CASE WriteMerchant(c) \/ WriteConflicts(c)
        BY <1>1, <1>10 DEF WriteMerchant, WriteConflicts, Answer, Commit, ItemsOK
    <1>11. CASE Resolve(c) \/ ReadStatus(c) \/ Deliver(c) \/ Crash(c)
        BY <1>1, <1>11 DEF Resolve, ReadStatus, Deliver, Crash, Answer, ItemsOK
    <1> QED
        BY <1>2, <1>3, <1>4, <1>5, <1>6, <1>7, <1>8, <1>9, <1>10, <1>11 DEF Serve

LEMMA ServiceInvInit == ServiceInit => ServiceInv
    <1> SUFFICES ASSUME ServiceInit PROVE ServiceInv
        OBVIOUS
    <1>1. TypeOK /\ Control
        BY TypeInit, ControlInit DEF ServiceInit
    <1>2. ReplicasOK
        BY DEF ServiceInit, TableInit, ReplicasOK, Current
    <1>3. \A c \in Calls : ItemsOK(c)
        BY DEF ServiceInit, CallInit, ItemsOK
    <1> QED
        BY <1>1, <1>2, <1>3 DEF ServiceInv

LEMMA ServiceInvStep ==
    ASSUME Balances = Int, ServiceInv, [ServiceNext]_vars
    PROVE  ServiceInv' /\ [TableNext]_tableVars
    <1>1. [TableNext]_tableVars
        BY ServiceIsTableStep
    <1>2. TypeOK' /\ Control'
        BY <1>1, TypeStep, ControlStep DEF ServiceInv
    <1>3. ReplicasOK'
        BY <1>1, <1>2, ReplicasStep DEF ServiceInv
    <1>4. ASSUME NEW d \in Calls, pc'[d] = pc[d], request'[d] = request[d], image'[d] = image[d]
          PROVE  ItemsOK(d)'
        BY <1>1, <1>4, ItemsStay, PastHoldKept DEF ServiceInv, ItemsOK
    <1>5. ASSUME NEW c \in Calls, Receive(c) \/ Serve(c) \/ Crash(c), NEW d \in Calls
          PROVE  ItemsOK(d)'
        <2>1. CASE d = c
            BY <1>1, <1>5, <2>1, ItemsOwn
        <2>2. CASE d # c
            BY <1>4, <1>5, <2>2, OthersKept DEF ServiceInv
        <2> QED
            BY <2>1, <2>2
    <1>6. CASE UNCHANGED callVars
        BY <1>1, <1>2, <1>3, <1>4, <1>6 DEF ServiceInv, callVars
    <1> QED
        BY <1>1, <1>2, <1>3, <1>5, <1>6, OtherSteps DEF ServiceInv

\* However calls interleave, lag, die and are retried, the table takes the
\* transactions of LedgerTable and nothing else: a capture built from a stale
\* image is the capture of the hold, an authorize pays a merchant that exists,
\* a deposit overwrites only what it read.  A stored balance may be any integer.
THEOREM ServiceImplementsTable ==
    ASSUME Balances = Int
    PROVE  ServiceSpec => TableSpec
    <1>1. ServiceInit => ServiceInv /\ TableInit
        BY ServiceInvInit DEF ServiceInit
    <1>2. ServiceInv /\ [ServiceNext]_vars => ServiceInv' /\ [TableNext]_tableVars
        BY ServiceInvStep
    <1> QED
        BY <1>1, <1>2, PTL DEF ServiceSpec, TableSpec

\* Under the service the books stay right: each account's posted balance is its
\* available balance plus its PENDING holds, no account is overdrawn, and each
\* balance is what the entries add up to (ledger.py:274-339, 455-512, 566-610).
THEOREM ServiceKeepsTheBooks ==
    ASSUME Balances = Int
    PROVE  ServiceSpec => [](HoldsBalance /\ NoOverdraft /\ BalancesBackedByEntries)
    BY ServiceImplementsTable, HoldsAreBacked, NeverOverdrawn, EntriesBackBalances, PTL

\* Under the service a client sees the card ledger of CardLedger and no other.
THEOREM ServiceKeepsThePromise ==
    ASSUME Balances = Int
    PROVE  ServiceSpec => KeepsThePromise
    BY ServiceImplementsTable, TableKeepsThePromise, PTL

--------------------------------------------------------------------------------
(* The trigger that opens accounts.                                          *)

\* Invocations of the trigger, and the accounts of those that returned.
SignupOK ==
    /\ signup \in [Signups -> [phase : {"none", "inserting", "sleeping", "returned", "raised"},
                               user : SUBSET Accounts, attempt : Int]]
    /\ ReturnedMeansOpened

LEMMA SignupKept ==
    ASSUME TypeOK, SignupOK, [TableNext]_tableVars, UNCHANGED signup
    PROVE  SignupOK'
    BY ItemsStay DEF SignupOK, ReturnedMeansOpened

LEMMA SignupMoves ==
    ASSUME TypeOK, SignupOK, [TableNext]_tableVars, NEW s \in Signups, SignupStep(s)
    PROVE  SignupOK'
    <1>1. DOMAIN account \subseteq DOMAIN account'
        BY ItemsStay
    <1>2. ASSUME NEW phase \in {"sleeping", "raised"}, Move(s, phase)
          PROVE  SignupOK'
        BY <1>1, <1>2 DEF Move, SignupOK, ReturnedMeansOpened
    <1>3. CASE Confirm(s)
        BY <1>1, <1>3 DEF Confirm, SignupOK, ReturnedMeansOpened
    <1>4. CASE Insert(s)
        <2> PICK a \in Accounts : /\ Inserting(s, a)
                                  /\ InsertAccount(a) \/ (a \in DOMAIN account /\ UNCHANGED tableVars)
                                  /\ Move(s, "returned")
            BY <1>4 DEF Insert
        <2>1. a \in DOMAIN account' /\ signup[s].user = {a}
            BY DEF InsertAccount, Put, tableVars, Inserting
        <2> QED
            BY <1>1, <2>1 DEF Move, SignupOK, ReturnedMeansOpened
    <1>5. CASE LoseContact(s)
        BY <1>2, <1>5 DEF LoseContact, Retry
    <1>6. CASE WakeUp(s)
        BY <1>1, <1>6 DEF WakeUp, SignupOK, ReturnedMeansOpened
    <1>7. CASE TimeOut(s)
        BY <1>2, <1>7 DEF TimeOut
    <1> QED
        BY <1>3, <1>4, <1>5, <1>6, <1>7 DEF SignupStep, Run

LEMMA SignupOKStep ==
    ASSUME Balances = Int, ServiceInv, SignupOK, [ServiceNext]_vars
    PROVE  SignupOK'
    <1>1. TypeOK /\ [TableNext]_tableVars
        BY ServiceInvStep DEF ServiceInv
    <1>2. CASE \E c \in Calls : Receive(c) \/ Serve(c) \/ Crash(c)
        <2>1. UNCHANGED signup
            BY <1>2 DEF Receive, Serve, Crash, RejectBody, MissingKey, CheckReplay, ReadMerchant,
               ReadAuthorization, ReadAccount, WriteAuthorization, WriteCapture, WriteVoid,
               WriteDeposit, WriteMerchant, WriteConflicts, Resolve, ReadStatus, Deliver
        <2> QED
            BY <1>1, <2>1, SignupKept
    <1>3. CASE \E s \in Signups : SignUp(s)
        BY <1>1, <1>3, SignupMoves DEF SignUp
    <1>4. CASE Finished \/ (\E kind \in DOMAIN replica : Replicate(kind)) \/ Sweep \/ Lapse
               \/ UNCHANGED vars
        BY <1>1, <1>4, SignupKept DEF Finished, Replicate, Sweep, Lapse, vars
    <1> QED
        BY <1>2, <1>3, <1>4 DEF ServiceNext

\* A trigger that returned to Cognito has left its user an account, whichever
\* of its attempts, or of the other deliveries of one confirmation, wrote it
\* (create_account/handler.py), and whatever else the table served meanwhile.
THEOREM SignUpsOpenAccounts ==
    ASSUME Balances = Int
    PROVE  ServiceSpec => []ReturnedMeansOpened
    <1>1. ServiceInit => ServiceInv /\ SignupOK
        BY ServiceInvInit DEF ServiceInit, SignupInit, SignupOK, ReturnedMeansOpened
    <1>2. ServiceInv /\ SignupOK /\ [ServiceNext]_vars => ServiceInv' /\ SignupOK'
        BY ServiceInvStep, SignupOKStep
    <1>3. SignupOK => ReturnedMeansOpened
        BY DEF SignupOK
    <1> QED
        BY <1>1, <1>2, <1>3, PTL DEF ServiceSpec

================================================================================
