------------------------- MODULE PaymentAnswersProofs -------------------------
(***************************************************************************)
(* Theorems about what PaymentService tells its clients: one effect and    *)
(* one answer for a key, one winner for a hold, conflicts that are true.   *)
(***************************************************************************)
EXTENDS PaymentServiceProofs

--------------------------------------------------------------------------------
(* The four ways an invocation comes by its response.                        *)

Own(c) == Receive(c) \/ Serve(c) \/ Crash(c)

\* Its transaction committed, and its key's record holds the response.
CommitsReply(c) ==
    /\ pc[c] = "write"
    /\ ~committed[c] /\ committed'[c]
    /\ request[c].op \in KeyedOps =>
          /\ request[c].key \notin DOMAIN idem
          /\ request[c].key \in DOMAIN idem'
          /\ idem'[request[c].key].response = reply'[c]
    /\ request[c].op = "merchant" => reply'[c] # Nothing

\* It replays a record it has read.
ReplaysReply(c) ==
    /\ NoCommit
    /\ request[c].op \in KeyedOps
    /\ \E records \in Seen(idem, replica.idem) :
          /\ request[c].key \in DOMAIN records
          /\ reply'[c] = records[request[c].key].response

\* It names the status that the hold it lost is in.
NamesStatus(c) ==
    /\ NoCommit
    /\ pc[c] = "status"
    /\ request[c].op \in {"capture", "void"}
    /\ request[c].target \in DOMAIN authorization
    /\ authorization[request[c].target].status # "PENDING"
    /\ reply'[c] = TerminalStatusError[authorization[request[c].target].status]

\* It refuses or fails for another reason.  A capture or a void has no other
\* conflict to tell of.
Refusals(op) ==
    {Error(400, "InvalidRequest"), Error(400, "MissingIdempotencyKey"),
     Error(422, "IdempotencyKeyReuse"), Error(400, "UnknownMerchant"),
     Error(404, "AuthorizationNotFound"), Error(404, "NotFound"), InternalServerError}
    \cup (IF op = "authorize" THEN {Error(409, "InsufficientFunds")} ELSE {})
    \cup (IF op = "merchant" THEN {Error(400, "MerchantAlreadyExists")} ELSE {})

RefusesReply(c) ==
    /\ NoCommit
    /\ reply'[c] \in Refusals(request[c].op)

\* Nothing answers but these, and what is delivered is what was answered.
LEMMA ReplyOwn ==
    ASSUME ServiceInv, NEW c \in Calls, Own(c)
    PROVE  /\ pc[c] # "idle" => request'[c] = request[c]
           /\ \/ pc'[c] \notin {"reply", "done"} /\ NoCommit
              \/ pc'[c] = "done" /\ reply'[c] = Nothing /\ NoCommit
              \/ pc[c] = "reply" /\ pc'[c] = "done" /\ reply'[c] = reply[c] /\ NoCommit
              \/ pc'[c] = "reply" /\ pc[c] \notin {"idle", "reply", "done"} /\
                    (CommitsReply(c) \/ ReplaysReply(c) \/ NamesStatus(c) \/ RefusesReply(c))
    <1> USE DEF Own, Control
    <1>1. /\ TypeOK
          /\ Control
          /\ pc[c] # "idle" => request[c] \in Requests /\ request[c].op \in OpsAt(pc[c])
          /\ committed[c] => pc[c] \in {"reply", "done"}
          /\ ItemsOK(c)
        BY DEF ServiceInv, ControlOK
    <1>2. CASE Receive(c)
        BY <1>1, <1>2 DEF Receive
    <1>3. CASE Deliver(c) \/ Crash(c)
        BY <1>1, <1>3 DEF Deliver, Crash
    <1>4. CASE RejectBody(c) \/ MissingKey(c) \/ WriteConflicts(c)
        BY <1>1, <1>4 DEF RejectBody, MissingKey, WriteConflicts, Answer, RefusesReply, Refusals
    <1>5. CASE CheckReplay(c)
        BY <1>1, <1>5
           DEF CheckReplay, Answer, Goto, FirstRead, RefusesReply, Refusals, ReplaysReply, OpsAt
    <1>6. CASE ReadMerchant(c) \/ ReadAuthorization(c) \/ ReadAccount(c)
        BY <1>1, <1>6
           DEF ReadMerchant, ReadAuthorization, ReadAccount, Answer, Goto, RefusesReply, Refusals
    <1>7. CASE Resolve(c)
        BY <1>1, <1>7
           DEF Resolve, Answer, RefusesReply, Refusals, ReplaysReply, OpsAt
    <1>8. CASE ReadStatus(c)
        <2>1. image[c].authorization_id = request[c].target
            BY <1>1, <1>8, PastTerms DEF ReadStatus, ItemsOK, OpsAt
        <2> QED
            BY <1>1, <1>8, <2>1
               DEF ReadStatus, Answer, RefusesReply, Refusals, NamesStatus, OpsAt
    <1>9. CASE WriteAuthorization(c)
        <2>1. ASSUME NEW i \in AuthorizationIds, NEW today \in Days,
                     InsertAuthorization(i, request[c].account, request[c].merchant,
                                         request[c].amount, today, request[c].key),
                     Commit(c, AuthorizationResponse(authorization'[i], 201)),
                     pc[c] = "write"
              PROVE  pc'[c] = "reply" /\ request' = request /\ CommitsReply(c)
            <3> DEFINE hold == AuthorizationItem(i, request[c].account, request[c].merchant,
                                                 request[c].amount, today)
                       record == IdempotencyRecord(
                                    AuthorizationHash(request[c].merchant, request[c].amount),
                                    AuthorizationResponse(hold, 201))
            <3>1. /\ authorization' = Put(authorization, i, hold)
                  /\ idem' = Put(idem, request[c].key, record)
                  /\ request[c].key \notin DOMAIN idem
                BY <2>1 DEF InsertAuthorization, AuthorizeReasons, Failed, KeyUnused
            <3>2. authorization'[i] = hold
                <4> HIDE DEF hold
                <4> QED
                    BY <3>1 DEF Put
            <3>3. record.response = AuthorizationResponse(hold, 201)
                BY DEF IdempotencyRecord
            <3>4. /\ pc'[c] = "reply" /\ request' = request
                  /\ committed'[c]
                  /\ reply'[c] = AuthorizationResponse(authorization'[i], 201)
                BY <1>1, <2>1 DEF Commit, Answer
            <3> HIDE DEF record, hold
            <3>5. request[c].key \in DOMAIN idem' /\ idem'[request[c].key] = record
                BY <3>1 DEF Put
            <3> QED
                BY <1>1, <1>9, <2>1, <3>1, <3>2, <3>3, <3>4, <3>5
                   DEF CommitsReply, WriteAuthorization
        <2> QED
            BY <1>1, <1>9, <2>1
               DEF WriteAuthorization, Goto, Answer, RefusesReply, Refusals
    <1>10. CASE WriteCapture(c)
        <2>1. ASSUME NEW txn \in TransactionIds,
                     CaptureAuthorization(image[c], request[c].account, txn, request[c].key),
                     Commit(c, AuthorizationResponse([image[c] EXCEPT !.status = "CAPTURED"], 200)),
                     pc[c] = "write"
              PROVE  pc'[c] = "reply" /\ request' = request /\ CommitsReply(c)
            <3> DEFINE resp == AuthorizationResponse([image[c] EXCEPT !.status = "CAPTURED"], 200)
                       record == IdempotencyRecord(NoHash, resp)
            <3>1. /\ idem' = Put(idem, request[c].key, record)
                  /\ request[c].key \notin DOMAIN idem
                BY <2>1 DEF CaptureAuthorization, CaptureReasons, Failed, KeyUnused
            <3>2. record.response = resp
                BY DEF IdempotencyRecord
            <3>3. pc'[c] = "reply" /\ request' = request /\ committed'[c] /\ reply'[c] = resp
                BY <1>1, <2>1 DEF Commit, Answer
            <3> HIDE DEF record, resp
            <3>4. request[c].key \in DOMAIN idem' /\ idem'[request[c].key] = record
                BY <3>1 DEF Put
            <3> QED
                BY <1>1, <1>10, <2>1, <3>1, <3>2, <3>3, <3>4 DEF CommitsReply, WriteCapture
        <2> QED
            BY <1>1, <1>10, <2>1 DEF WriteCapture, ExplainResolve, Goto
    <1>11. CASE WriteVoid(c)
        <2>1. ASSUME VoidAuthorization(image[c], request[c].account, request[c].key),
                     Commit(c, AuthorizationResponse([image[c] EXCEPT !.status = "VOIDED"], 200)),
                     pc[c] = "write"
              PROVE  pc'[c] = "reply" /\ request' = request /\ CommitsReply(c)
            <3> DEFINE resp == AuthorizationResponse([image[c] EXCEPT !.status = "VOIDED"], 200)
                       record == IdempotencyRecord(NoHash, resp)
            <3>1. /\ idem' = Put(idem, request[c].key, record)
                  /\ request[c].key \notin DOMAIN idem
                BY <2>1 DEF VoidAuthorization, VoidReasons, Failed, KeyUnused
            <3>2. record.response = resp
                BY DEF IdempotencyRecord
            <3>3. pc'[c] = "reply" /\ request' = request /\ committed'[c] /\ reply'[c] = resp
                BY <1>1, <2>1 DEF Commit, Answer
            <3> HIDE DEF record, resp
            <3>4. request[c].key \in DOMAIN idem' /\ idem'[request[c].key] = record
                BY <3>1 DEF Put
            <3> QED
                BY <1>1, <1>11, <2>1, <3>1, <3>2, <3>3, <3>4 DEF CommitsReply, WriteVoid
        <2> QED
            BY <1>1, <1>11, <2>1 DEF WriteVoid, ExplainResolve, Goto
    <1>12. CASE WriteDeposit(c)
        <2> DEFINE resp == DepositResponse(
                              AccountImage(image[c].current_balance + request[c].amount,
                                           image[c].available_balance + request[c].amount))
        <2>1. ASSUME NEW txn \in TransactionIds,
                     Deposit(request[c].account, request[c].amount, image[c], txn, request[c].key),
                     Commit(c, resp),
                     pc[c] = "write"
              PROVE  pc'[c] = "reply" /\ request' = request /\ CommitsReply(c)
            <3> DEFINE record == IdempotencyRecord(DepositHash(request[c].amount), resp)
            <3>1. /\ idem' = Put(idem, request[c].key, record)
                  /\ request[c].key \notin DOMAIN idem
                BY <2>1 DEF Deposit, DepositReasons, Failed, KeyUnused
            <3> HIDE DEF resp
            <3>2. record.response = resp
                BY DEF IdempotencyRecord
            <3>3. pc'[c] = "reply" /\ request' = request /\ committed'[c] /\ reply'[c] = resp
                BY <1>1, <2>1 DEF Commit, Answer
            <3> HIDE DEF record
            <3>4. request[c].key \in DOMAIN idem' /\ idem'[request[c].key] = record
                BY <3>1 DEF Put
            <3> QED
                BY <1>1, <1>12, <2>1, <3>1, <3>2, <3>3, <3>4 DEF CommitsReply, WriteDeposit
        <2> QED
            BY <1>1, <1>12, <2>1
               DEF WriteDeposit, RetryDeposit, Goto, Answer, RefusesReply, Refusals
    <1>13. CASE WriteMerchant(c)
        <2>1. \A body : [status_code |-> 201, body |-> body] # Nothing
            BY DEF Nothing
        <2>2. Error(400, "MerchantAlreadyExists") # Nothing
            BY DEF Error, Nothing
        <2> QED
            BY <1>1, <1>13, <2>1, <2>2
               DEF WriteMerchant, Answer, Commit, CommitsReply, KeyedOps, RefusesReply, Refusals
    <1> QED
        BY <1>2, <1>3, <1>4, <1>5, <1>6, <1>7, <1>8, <1>9, <1>10, <1>11, <1>12, <1>13 DEF Serve

\* A stored response is a success, and no error or replay is no answer.
LEMMA StoredIsSuccess ==
    ASSUME NEW record \in RecordType
    PROVE  record.response.status_code \in {200, 201} /\ record.response # Nothing
    BY DEF RecordType, Nothing

LEMMA ErrorIsNoSuccess ==
    ASSUME NEW code \in Nat, NEW name
    PROVE  Error(code, name).status_code = code /\ Error(code, name) # Nothing
    BY DEF Error, Nothing

\* What an answer of each kind looks like to the client.
LEMMA ReplyKinds ==
    ASSUME ServiceInv, TypeOK', NEW c \in Calls
    PROVE  /\ CommitsReply(c) /\ request[c].op \in KeyedOps
                => reply'[c].status_code \in {200, 201} /\ reply'[c] # Nothing
           /\ ReplaysReply(c) => reply'[c].status_code \in {200, 201} /\ reply'[c] # Nothing
           /\ NamesStatus(c) => reply'[c].status_code = 409 /\ reply'[c] # Nothing
           /\ RefusesReply(c) => /\ reply'[c].status_code \in {400, 404, 409, 422, 500}
                                 /\ reply'[c] # Nothing
                                 /\ request[c].op \in {"capture", "void"}
                                       => reply'[c].status_code # 409
    <1>1. CommitsReply(c) /\ request[c].op \in KeyedOps => idem'[request[c].key] \in RecordType
        BY DEF CommitsReply, TypeOK
    <1>2. \A records \in Seen(idem, replica.idem) :
              \A k \in DOMAIN records : records[k] \in RecordType
        BY SeenItems DEF ServiceInv
    <1>3. NamesStatus(c) => /\ reply'[c].status_code = 409
                            /\ reply'[c] # Nothing
        <2>1. NamesStatus(c) => authorization[request[c].target].status \in
                                  {"CAPTURED", "VOIDED", "EXPIRED", "REVERSED"}
            BY DEF NamesStatus, ServiceInv, TypeOK, AuthorizationType, Statuses
        <2>2. \A s \in {"CAPTURED", "VOIDED", "EXPIRED", "REVERSED"} :
                  TerminalStatusError[s].status_code = 409 /\ TerminalStatusError[s] # Nothing
            BY ErrorIsNoSuccess DEF TerminalStatusError
        <2> QED
            BY <2>1, <2>2 DEF NamesStatus
    <1>4. \A op : \A e \in Refusals(op) :
              /\ e.status_code \in {400, 404, 409, 422, 500}
              /\ e # Nothing
              /\ op \in {"capture", "void"} => e.status_code # 409
        BY ErrorIsNoSuccess DEF Refusals, InternalServerError
    <1> QED
        BY <1>1, <1>2, <1>3, <1>4, StoredIsSuccess DEF CommitsReply, ReplaysReply, RefusesReply

--------------------------------------------------------------------------------
(* The state of an invocation.                                               *)

\* A response that is about to be delivered exists.
Answered == \A c \in Calls : pc[c] = "reply" => reply[c] # Nothing

LEMMA AnsweredStep ==
    ASSUME Balances = Int, ServiceInv, Answered, [ServiceNext]_vars
    PROVE  Answered'
    <1>1. TypeOK' /\ Control
        BY ServiceInvStep DEF ServiceInv
    <1>2. ASSUME NEW c \in Calls, Own(c), NEW d \in Calls
          PROVE  pc'[d] = "reply" => reply'[d] # Nothing
        <2>1. CASE d = c
            <3>1. request[c].op \in KeyedOps \cup {"merchant"} \/ pc[c] = "idle"
                BY <1>1, RequestShape DEF Control, ControlOK
            <3> QED
                BY <1>1, <1>2, <2>1, <3>1, ReplyOwn, ReplyKinds DEF CommitsReply
        <2>2. CASE d # c
            BY <1>1, <1>2, <2>2, OthersKept DEF Own, Answered
        <2> QED
            BY <2>1, <2>2
    <1>3. CASE UNCHANGED callVars
        BY <1>3 DEF Answered, callVars
    <1> QED
        BY <1>2, <1>3, OtherSteps DEF Answered, Own

\* An invocation is never where its handler cannot be: it answers when there is
\* something to answer, works on a request it accepted, counts only rounds it
\* lost, and writes only what its caller owns, however its reads lag.
THEOREM CallsAreInOrder ==
    ASSUME Balances = Int
    PROVE  ServiceSpec => []ServiceTypeOK
    <1>1. ServiceInit => ServiceInv /\ Answered
        BY ServiceInvInit DEF ServiceInit, CallInit, Answered
    <1>2. ServiceInv /\ Answered /\ [ServiceNext]_vars => ServiceInv' /\ Answered'
        BY ServiceInvStep, AnsweredStep
    <1>3. ServiceInv /\ Answered => ServiceTypeOK
        BY DEF ServiceInv, Control, ControlOK, ItemsOK, Answered, Resolving, Keyed, ServiceTypeOK
    <1> QED
        BY <1>1, <1>2, <1>3, PTL DEF ServiceSpec

--------------------------------------------------------------------------------
(* Conflicts are true.                                                       *)

\* A 409 to a capture or a void names the status the hold has.
TrueConflict(c) ==
    Resolving(c) /\ Replied(c) /\ reply[c].status_code = 409 =>
        /\ request[c].target \in DOMAIN authorization
        /\ authorization[request[c].target].status # "PENDING"
        /\ reply[c] = TerminalStatusError[authorization[request[c].target].status]

TrueConflicts == \A c \in Calls : TrueConflict(c)

\* A hold that left PENDING keeps its status.
LEMMA StatusIsFinal ==
    ASSUME TypeOK, [TableNext]_tableVars, NEW i \in DOMAIN authorization,
           authorization[i].status # "PENDING"
    PROVE  i \in DOMAIN authorization' /\ authorization'[i].status = authorization[i].status
    BY ResolveOnceStep DEF tableVars

LEMMA ConflictsStep ==
    ASSUME Balances = Int, ServiceInv, TrueConflicts, [ServiceNext]_vars
    PROVE  TrueConflicts'
    <1>1. TypeOK /\ TypeOK' /\ Control /\ [TableNext]_tableVars
        BY ServiceInvStep DEF ServiceInv
    <1>2. ASSUME NEW d \in Calls, TrueConflict(d), pc[d] \in {"reply", "done"},
                 request'[d] = request[d], reply'[d] = reply[d]
          PROVE  TrueConflict(d)'
        BY <1>1, <1>2, StatusIsFinal DEF TrueConflict, Resolving, Keyed, Replied
    <1>3. ASSUME NEW d \in Calls, TrueConflict(d), pc'[d] = pc[d],
                 request'[d] = request[d], reply'[d] = reply[d]
          PROVE  TrueConflict(d)'
        BY <1>2, <1>3 DEF TrueConflict, Replied
    <1>4. ASSUME NEW c \in Calls, Own(c)
          PROVE  TrueConflict(c)'
        <2>1. CASE pc[c] = "reply" /\ reply'[c] = reply[c] /\ request'[c] = request[c]
            BY <1>2, <2>1 DEF TrueConflicts
        <2>2. CASE NamesStatus(c) /\ request'[c] = request[c]
            BY <2>2 DEF TrueConflict, NamesStatus, NoCommit, tableVars
        <2>3. CASE /\ request'[c] = request[c]
                   /\ CommitsReply(c) \/ ReplaysReply(c) \/ RefusesReply(c)
            <3>1. Resolving(c)' => reply'[c].status_code # 409
                BY <1>1, <2>3, ReplyKinds DEF Resolving, Keyed, KeyedOps
            <3> QED
                BY <3>1 DEF TrueConflict
        <2>4. CASE pc'[c] \notin {"reply", "done"} \/ reply'[c] = Nothing
            BY <2>4 DEF TrueConflict, Replied
        <2> QED
            BY <1>4, <2>1, <2>2, <2>3, <2>4, ReplyOwn
    <1>5. ASSUME NEW c \in Calls, Own(c), NEW d \in Calls
          PROVE  TrueConflict(d)'
        <2>1. CASE d = c
            BY <1>4, <1>5, <2>1
        <2>2. CASE d # c
            BY <1>1, <1>3, <1>5, <2>2, OthersKept DEF Own, TrueConflicts
        <2> QED
            BY <2>1, <2>2
    <1>6. CASE UNCHANGED callVars
        BY <1>3, <1>6 DEF TrueConflicts, callVars
    <1> QED
        BY <1>5, <1>6, OtherSteps DEF TrueConflicts, Own

\* A client told AlreadyCaptured, AlreadyVoided or AuthorizationExpired is told
\* the state its hold is in and stays in, although the status is read after the
\* transaction it explains (ledger.py:535-541) and others act in between.
THEOREM ConflictsTellTheTruth ==
    ASSUME Balances = Int
    PROVE  ServiceSpec => []ConflictsAreTrue
    <1>1. ServiceInit => ServiceInv /\ TrueConflicts
        BY ServiceInvInit DEF ServiceInit, CallInit, TrueConflicts, TrueConflict, Replied
    <1>2. ServiceInv /\ TrueConflicts /\ [ServiceNext]_vars => ServiceInv' /\ TrueConflicts'
        BY ServiceInvStep, ConflictsStep
    <1>3. ASSUME ServiceInv, TrueConflicts, NEW c \in Calls, Resolving(c), Replied(c),
                 NEW name, NEW status,
                 <<name, status>> \in {<<"AlreadyCaptured", "CAPTURED">>,
                                       <<"AlreadyVoided", "VOIDED">>,
                                       <<"AuthorizationExpired", "EXPIRED">>},
                 reply[c] = Error(409, name)
          PROVE  /\ request[c].target \in DOMAIN authorization
                 /\ authorization[request[c].target].status = status
        <2> DEFINE s == authorization[request[c].target].status
        <2>1. /\ request[c].target \in DOMAIN authorization
              /\ s # "PENDING"
              /\ Error(409, name) = TerminalStatusError[s]
            BY <1>3, ErrorIsNoSuccess DEF TrueConflicts, TrueConflict
        <2>2. s \in {"CAPTURED", "VOIDED", "EXPIRED", "REVERSED"}
            BY <1>3, <2>1 DEF ServiceInv, TypeOK, AuthorizationType, Statuses
        <2>3. \A n, m : Error(409, n) = Error(409, m) => n = m
            BY DEF Error
        <2> QED
            BY <1>3, <2>1, <2>2, <2>3 DEF TerminalStatusError
    <1>4. ServiceInv /\ TrueConflicts => ConflictsAreTrue
        BY <1>3 DEF ConflictsAreTrue
    <1> QED
        BY <1>1, <1>2, <1>4, PTL DEF ServiceSpec

--------------------------------------------------------------------------------
(* Deposits.                                                                 *)

\* Only its own step commits a call.
LEMMA CommittedByOwn ==
    ASSUME ServiceInv, [ServiceNext]_vars, NEW c \in Calls, committed'[c] # committed[c]
    PROVE  Own(c)
    <1>1. Control
        BY DEF ServiceInv
    <1>2. ASSUME NEW d \in Calls, Own(d), d # c PROVE FALSE
        BY <1>1, <1>2, OthersKept DEF Own
    <1>3. CASE UNCHANGED callVars
        BY <1>3 DEF callVars
    <1> QED
        BY <1>2, <1>3, OtherSteps DEF Own

\* A deposit that commits has overwritten the balances it read, and says so.
LEMMA DepositCommit ==
    ASSUME ServiceInv, NEW c \in Calls, Own(c), request[c].op = "deposit",
           pc[c] # "idle", committed'[c], ~committed[c]
    PROVE  LET before == account[request[c].account]
               after == AccountImage(before.current_balance + request[c].amount,
                                     before.available_balance + request[c].amount)
           IN  account'[request[c].account] = after /\ reply'[c].body = after
    <1> DEFINE a == request[c].account
               after == AccountImage(image[c].current_balance + request[c].amount,
                                     image[c].available_balance + request[c].amount)
    <1>1. Control
        BY DEF ServiceInv
    <1>2. WriteDeposit(c)
        <2>1. ~NoCommit
            BY DEF NoCommit
        <2> QED
            BY <2>1 DEF Own, Serve, Receive, RejectBody, MissingKey, CheckReplay, ReadMerchant,
               ReadAuthorization, ReadAccount, WriteAuthorization, WriteCapture, WriteVoid,
               WriteMerchant, WriteConflicts, Resolve, ReadStatus, Deliver, Crash
    <1>3. \E txn \in TransactionIds :
              /\ Deposit(a, request[c].amount, image[c], txn, request[c].key)
              /\ Commit(c, DepositResponse(after))
        BY <1>2 DEF WriteDeposit, NoCommit
    <1>4. a \in DOMAIN account /\ account[a] = image[c]
        BY <1>3 DEF Deposit, DepositReasons, Failed, BalanceAsRead
    <1>5. account' = [account EXCEPT ![a] = after]
        BY <1>3 DEF Deposit
    <1>6. reply'[c] = DepositResponse(after)
        BY <1>1, <1>3 DEF Commit, Answer, Control
    <1> HIDE DEF after
    <1>7. account'[a] = after /\ reply'[c].body = after
        BY <1>4, <1>5, <1>6 DEF DepositResponse
    <1> QED
        BY <1>4, <1>7 DEF after

\* A deposit adds its amount to both balances as they are when it commits,
\* however stale the image it computed from, and its response shows the sums:
\* the compare-and-swap of ledger.py:138-150.
THEOREM DepositsAddUp ==
    ASSUME Balances = Int
    PROVE  ServiceSpec => DepositReplyIsExact
    <1> DEFINE Exact(c) ==
                   Keyed(c) /\ request[c].op = "deposit" /\ committed'[c] /\ ~committed[c] =>
                       LET before == account[request[c].account]
                           after == AccountImage(before.current_balance + request[c].amount,
                                                 before.available_balance + request[c].amount)
                       IN  account'[request[c].account] = after /\ reply'[c].body = after
    <1>1. ServiceInv /\ [ServiceNext]_vars => [\A c \in Calls : Exact(c)]_vars
        <2> SUFFICES ASSUME ServiceInv, [ServiceNext]_vars, NEW c \in Calls
                     PROVE  Exact(c)
            OBVIOUS
        <2> QED
            BY CommittedByOwn, DepositCommit DEF Keyed
    <1>2. ServiceInit => ServiceInv
        BY ServiceInvInit
    <1>3. ServiceInv /\ [ServiceNext]_vars => ServiceInv'
        BY ServiceInvStep
    <1> QED
        BY <1>1, <1>2, <1>3, PTL DEF ServiceSpec, DepositReplyIsExact

--------------------------------------------------------------------------------
(* One winner for a hold.                                                    *)

Won == {"CAPTURED", "VOIDED"}

Winner(c) == Resolving(c) /\ committed[c]

\* A committed call stays committed to the request it served.
LEMMA CommittedStays ==
    ASSUME ServiceInv, [ServiceNext]_vars, NEW c \in Calls, committed[c]
    PROVE  committed'[c] /\ request'[c] = request[c] /\ pc[c] # "idle" /\ pc'[c] # "idle"
    <1>1. Control /\ pc[c] \in {"reply", "done"}
        BY DEF ServiceInv, Control, ControlOK
    <1>2. CASE Own(c)
        <2>1. committed'[c] => pc'[c] \in {"reply", "done"}
            BY <1>1, ControlStep DEF Control, ControlOK
        <2>2. NoCommit
            BY <1>1, <1>2, ReplyOwn
        <2> QED
            BY <1>1, <1>2, <2>1, <2>2, ReplyOwn DEF NoCommit
    <1>3. ASSUME NEW d \in Calls, Own(d), d # c
          PROVE  committed'[c] = committed[c] /\ request'[c] = request[c] /\ pc'[c] = pc[c]
        BY <1>1, <1>3, OthersKept DEF Own
    <1>4. CASE UNCHANGED callVars
        BY <1>1, <1>4 DEF callVars
    <1> QED
        BY <1>1, <1>2, <1>3, <1>4, OtherSteps DEF Own

\* A call commits in the step that answers it, for the request it has.
LEMMA CommitStep ==
    ASSUME ServiceInv, [ServiceNext]_vars, NEW c \in Calls, committed'[c], ~committed[c]
    PROVE  Own(c) /\ pc[c] = "write" /\ pc'[c] = "reply" /\ request'[c] = request[c]
           /\ CommitsReply(c)
    <1>1. Own(c)
        BY CommittedByOwn
    <1>2. ~NoCommit
        BY DEF NoCommit
    <1>3. ~ReplaysReply(c) /\ ~NamesStatus(c) /\ ~RefusesReply(c)
        BY <1>2 DEF ReplaysReply, NamesStatus, RefusesReply
    <1> QED
        BY <1>1, <1>2, <1>3, ReplyOwn DEF CommitsReply

\* The write of a capture or a void takes its hold out of PENDING.
LEMMA CommitResolves ==
    ASSUME ServiceInv, NEW c \in Calls, Own(c), Resolving(c), committed'[c], ~committed[c]
    PROVE  /\ request[c].target \in DOMAIN authorization
           /\ authorization[request[c].target].status = "PENDING"
           /\ \E s \in Won : authorization' = [authorization EXCEPT ![request[c].target].status = s]
    <1>1. ~NoCommit
        BY DEF NoCommit
    <1>2. pc[c] = "write" => image[c].authorization_id = request[c].target
        BY PastTerms DEF ServiceInv, ItemsOK, Resolving
    <1>3. WriteCapture(c) \/ WriteVoid(c)
        BY <1>1 DEF Own, Serve, Receive, RejectBody, MissingKey, CheckReplay, ReadMerchant,
           ReadAuthorization, ReadAccount, WriteAuthorization, WriteDeposit, Resolving,
           WriteMerchant, WriteConflicts, Resolve, ReadStatus, Deliver, Crash
    <1>4. CASE WriteCapture(c)
        <2> PICK txn \in TransactionIds :
                     CaptureAuthorization(image[c], request[c].account, txn, request[c].key)
            BY <1>1, <1>4 DEF WriteCapture, ExplainResolve
        <2> QED
            BY <1>2, <1>4
               DEF WriteCapture, CaptureAuthorization, CaptureReasons, Failed, StillPending, Won
    <1>5. CASE WriteVoid(c)
        <2>1. VoidAuthorization(image[c], request[c].account, request[c].key)
            BY <1>1, <1>5 DEF WriteVoid, ExplainResolve
        <2> QED
            BY <1>2, <1>5, <2>1
               DEF WriteVoid, VoidAuthorization, VoidReasons, Failed, StillPending, Won
    <1> QED
        BY <1>3, <1>4, <1>5

\* No other step captures or voids a hold.
LEMMA OnlyWinnersResolve ==
    ASSUME ServiceInv, [ServiceNext]_vars,
           \A c \in Calls : ~(Resolving(c) /\ committed'[c] /\ ~committed[c]),
           NEW i \in DOMAIN authorization', authorization'[i].status \in Won
    PROVE  i \in DOMAIN authorization /\ authorization[i].status = authorization'[i].status
    <1>1. TypeOK /\ Control
        BY DEF ServiceInv
    <1>2. CASE UNCHANGED authorization
        BY <1>2
    <1>3. ASSUME NEW c \in Calls, WriteAuthorization(c), ~NoCommit
          PROVE  i \in DOMAIN authorization /\ authorization[i].status = authorization'[i].status
        <2> PICK j \in AuthorizationIds, today \in Days :
                     InsertAuthorization(j, request[c].account, request[c].merchant,
                                         request[c].amount, today, request[c].key)
            BY <1>3 DEF WriteAuthorization
        <2> DEFINE hold == AuthorizationItem(j, request[c].account, request[c].merchant,
                                             request[c].amount, today)
        <2>1. authorization' = Put(authorization, j, hold) /\ hold.status = "PENDING"
            BY DEF InsertAuthorization, AuthorizationItem
        <2> HIDE DEF hold
        <2> QED
            BY <2>1 DEF Put, Won
    <1>4. ASSUME NEW c \in Calls, WriteCapture(c) \/ WriteVoid(c), ~NoCommit
          PROVE  FALSE
        <2>1. Commit(c, AuthorizationResponse([image[c] EXCEPT !.status = "CAPTURED"], 200))
              \/ Commit(c, AuthorizationResponse([image[c] EXCEPT !.status = "VOIDED"], 200))
            BY <1>4 DEF WriteCapture, WriteVoid, ExplainResolve
        <2>2. committed'[c] /\ pc[c] = "write" /\ request[c].op \in {"capture", "void"}
            BY <1>1, <1>4, <2>1 DEF Commit, Control, WriteCapture, WriteVoid
        <2>3. ~committed[c] /\ Resolving(c)
            BY <1>1, <2>2 DEF Control, ControlOK, Resolving, Keyed
        <2> QED
            BY <2>2, <2>3
    <1>5. CASE \E c \in Calls : Own(c)
        <2> PICK c \in Calls : Own(c)
            BY <1>5
        <2>1. CASE NoCommit
            BY <1>2, <2>1 DEF NoCommit, tableVars
        <2>2. CASE WriteDeposit(c) \/ WriteMerchant(c)
            <3>1. UNCHANGED authorization
                BY <2>2 DEF WriteDeposit, WriteMerchant, Deposit, InsertMerchant, NoCommit, tableVars
            <3> QED
                BY <1>2, <3>1
        <2>3. CASE ~NoCommit /\ ~WriteDeposit(c) /\ ~WriteMerchant(c)
            BY <1>3, <1>4, <2>3
               DEF Own, Serve, Receive, RejectBody, MissingKey, CheckReplay, ReadMerchant,
               ReadAuthorization, ReadAccount, WriteConflicts, Resolve, ReadStatus, Deliver, Crash
        <2> QED
            BY <2>1, <2>2, <2>3
    <1>6. CASE Sweep
        <2> PICK j \in DOMAIN authorization : ExpireHold(authorization[j])
            BY <1>6 DEF Sweep, ExpireStep
        <2>1. authorization' = [authorization EXCEPT ![j].status = "EXPIRED"]
            BY <1>1 DEF ExpireHold, TypeOK
        <2> QED
            BY <1>1, <2>1 DEF TypeOK, AuthorizationType, Won
    <1>7. CASE Lapse \/ Finished \/ (\E kind \in DOMAIN replica : Replicate(kind)) \/ UNCHANGED vars
        <2>1. UNCHANGED authorization
            BY <1>7 DEF Lapse, LapseStep, LapseRecord, Finished, Replicate, vars, tableVars
        <2> QED
            BY <1>2, <2>1
    <1>8. CASE \E s \in Signups : SignUp(s)
        <2>1. UNCHANGED authorization
            BY <1>8 DEF SignUp, SignupStep, Confirm, Run, Insert, LoseContact, WakeUp, TimeOut,
                    InsertAccount, tableVars
        <2> QED
            BY <1>2, <2>1
    <1> QED
        BY <1>5, <1>6, <1>7, <1>8 DEF ServiceNext, Own

\* Each call that committed a capture or a void has resolved its hold, none has
\* resolved another's, and every hold so resolved has its call.
WinnersInv ==
    /\ \A c \in Calls :
          Winner(c) => /\ request[c].target \in DOMAIN authorization
                       /\ authorization[request[c].target].status \in Won
    /\ \A c, d \in Calls :
          Winner(c) /\ Winner(d) /\ request[c].target = request[d].target => c = d
    /\ \A i \in DOMAIN authorization :
          authorization[i].status \in Won => \E c \in Calls : Winner(c) /\ request[c].target = i

\* Who has won, after a step: those who had, and whose capture or void commits.
LEMMA WinnersAfter ==
    ASSUME ServiceInv, [ServiceNext]_vars, NEW c \in Calls
    PROVE  /\ Winner(c) => Winner(c)' /\ request'[c].target = request[c].target
           /\ ~Winner(c) /\ Winner(c)' =>
                 /\ Own(c)
                 /\ Resolving(c) /\ committed'[c] /\ ~committed[c]
                 /\ request'[c] = request[c]
           /\ Resolving(c) /\ committed'[c] /\ ~committed[c] => Winner(c)'
    <1>1. CASE committed[c]
        BY <1>1, CommittedStays DEF Winner, Resolving, Keyed
    <1>2. CASE ~committed[c] /\ committed'[c]
        BY <1>2, CommitStep DEF Winner, Resolving, Keyed
    <1>3. CASE ~committed[c] /\ ~committed'[c]
        BY <1>3 DEF Winner
    <1>4. committed \in [Calls -> BOOLEAN] /\ committed' \in [Calls -> BOOLEAN]
        BY ControlStep DEF ServiceInv, Control
    <1> QED
        BY <1>1, <1>2, <1>3, <1>4

LEMMA WinnersStep ==
    ASSUME Balances = Int, ServiceInv, WinnersInv, [ServiceNext]_vars
    PROVE  WinnersInv'
    <1>1. TypeOK /\ Control /\ [TableNext]_tableVars
        BY ServiceInvStep DEF ServiceInv
    <1>2. CASE \E c \in Calls : Resolving(c) /\ committed'[c] /\ ~committed[c]
        <2> PICK c \in Calls : Resolving(c) /\ committed'[c] /\ ~committed[c]
            BY <1>2
        <2> DEFINE t == request[c].target
        <2>1. Own(c)
            BY CommittedByOwn
        <2>2. PICK s \in Won : /\ t \in DOMAIN authorization
                               /\ authorization[t].status = "PENDING"
                               /\ authorization' = [authorization EXCEPT ![t].status = s]
            BY <2>1, CommitResolves
        <2>3. /\ DOMAIN authorization' = DOMAIN authorization
              /\ authorization'[t].status = s
              /\ \A i \in DOMAIN authorization \ {t} : authorization'[i] = authorization[i]
            BY <1>1, <2>2 DEF TypeOK, AuthorizationType
        <2>4. \A d \in Calls \ {c} : Winner(d)' <=> Winner(d)
            <3> TAKE d \in Calls \ {c}
            <3>1. committed'[d] = committed[d]
                BY <1>1, <2>1, OthersKept DEF Own
            <3> QED
                BY <3>1, WinnersAfter
        <2>5. \A d \in Calls : Winner(d) => request[d].target # t
            BY <2>2 DEF WinnersInv, Won
        <2>6. Winner(c)' /\ ~Winner(c) /\ request'[c] = request[c]
            BY WinnersAfter DEF Winner
        <2>7. \A d \in Calls \ {c} : Winner(d)' => request'[d].target = request[d].target
            BY <2>4, WinnersAfter
        <2>8. \A d \in Calls :
                  Winner(d)' => /\ request'[d].target \in DOMAIN authorization'
                                /\ authorization'[request'[d].target].status \in Won
            BY <2>2, <2>3, <2>4, <2>5, <2>6, <2>7 DEF WinnersInv
        <2>9. \A d, e \in Calls :
                  Winner(d)' /\ Winner(e)' /\ request'[d].target = request'[e].target => d = e
            BY <2>4, <2>5, <2>6, <2>7 DEF WinnersInv
        <2>10. ASSUME NEW i \in DOMAIN authorization', authorization'[i].status \in Won
               PROVE  \E d \in Calls : Winner(d)' /\ request'[d].target = i
            <3>1. CASE i = t
                BY <2>6, <3>1
            <3>2. CASE i # t
                <4> PICK d \in Calls : Winner(d) /\ request[d].target = i
                    BY <2>3, <2>10, <3>2 DEF WinnersInv
                <4> QED
                    BY WinnersAfter
            <3> QED
                BY <3>1, <3>2
        <2> QED
            BY <2>8, <2>9, <2>10 DEF WinnersInv
    <1>3. CASE \A c \in Calls : ~(Resolving(c) /\ committed'[c] /\ ~committed[c])
        <2>1. \A d \in Calls : /\ Winner(d)' <=> Winner(d)
                               /\ Winner(d) => request'[d].target = request[d].target
            BY <1>3, WinnersAfter
        <2>2. \A d \in Calls :
                  Winner(d) => /\ request[d].target \in DOMAIN authorization'
                               /\ authorization'[request[d].target].status \in Won
            BY <1>1, StatusIsFinal DEF WinnersInv, Won
        <2>3. \A i \in DOMAIN authorization' :
                  authorization'[i].status \in Won
                      => i \in DOMAIN authorization /\ authorization[i].status \in Won
            BY <1>3, OnlyWinnersResolve
        <2> QED
            BY <2>1, <2>2, <2>3 DEF WinnersInv
    <1> QED
        BY <1>2, <1>3

\* A hold that was captured or voided was so by exactly one call, under
\* whatever keys its rivals came, and one that expired or is PENDING by none:
\* the status guard of ledger.py:503, 599 lets one transaction through.
THEOREM HoldsHaveOneWinner ==
    ASSUME Balances = Int
    PROVE  ServiceSpec => []OneWinnerPerHold
    <1>1. ServiceInit => ServiceInv /\ WinnersInv
        BY ServiceInvInit
           DEF ServiceInit, TableInit, CallInit, WinnersInv, Winner
    <1>2. ServiceInv /\ WinnersInv /\ [ServiceNext]_vars => ServiceInv' /\ WinnersInv'
        BY ServiceInvStep, WinnersStep
    <1>3. ASSUME WinnersInv, NEW i \in DOMAIN authorization
          PROVE  LET winners == {c \in Calls : Resolving(c) /\ committed[c] /\ request[c].target = i}
                 IN  Cardinality(winners)
                       = IF authorization[i].status \in {"CAPTURED", "VOIDED"} THEN 1 ELSE 0
        <2> DEFINE winners == {c \in Calls : Resolving(c) /\ committed[c] /\ request[c].target = i}
        <2>1. CASE authorization[i].status \in Won
            <3> PICK c \in Calls : Winner(c) /\ request[c].target = i
                BY <1>3, <2>1 DEF WinnersInv
            <3>1. winners = {c}
                BY <1>3 DEF WinnersInv, Winner
            <3> QED
                BY <2>1, <3>1, FS_Singleton DEF Won
        <2>2. CASE authorization[i].status \notin Won
            <3>1. winners = {}
                BY <1>3, <2>2 DEF WinnersInv, Winner
            <3> QED
                BY <2>2, <3>1, FS_EmptySet DEF Won
        <2> QED
            BY <2>1, <2>2
    <1>4. WinnersInv => OneWinnerPerHold
        BY <1>3 DEF OneWinnerPerHold
    <1> QED
        BY <1>1, <1>2, <1>4, PTL DEF ServiceSpec

================================================================================
