---------------------------- MODULE PaymentService ----------------------------
(***************************************************************************)
(* The Lambda invocations that serve the HTTP API (authorization_service   *)
(* and deposit_service) over the ledger table.  Each call is a process: it *)
(* looks its idempotency key up, reads what its transaction is built from, *)
(* commits or is cancelled, and explains a cancellation by further reads.  *)
(* Between any two of those steps other calls, the sweeper and DynamoDB's  *)
(* TTL and replication act, and the invocation may die.                    *)
(*                                                                         *)
(* A retry is one more call with the same request.                         *)
(***************************************************************************)
EXTENDS AccountTrigger

CONSTANTS
    Calls,         \* invocations
    Requests,      \* what a call may ask: see RequestType
    MaxAttempts,   \* max_attempts of AccountRepository.deposit
    StaleReads,    \* may eventually consistent reads lag?
    Crashes,       \* may an invocation die, or its response be lost?
    Contention,    \* may concurrent transactions be cancelled as conflicting?
    Sweeping,      \* does the expired-hold sweeper run?
    RecordsLapse   \* do idempotency records reach their TTL?

ASSUME MaxAttemptsAssumption == MaxAttempts \in Nat \ {0}
ASSUME SwitchesAssumption ==
    {StaleReads, Crashes, Contention, Sweeping, RecordsLapse} \subseteq BOOLEAN

VARIABLES
    pc,         \* where each invocation is
    request,    \* the request it serves
    image,      \* the item it read to build its transaction from
    attempts,   \* compare-and-swap rounds a deposit has lost
    reply,      \* the response it has built
    committed,  \* has its own transaction committed?
    replica     \* what a lagging read of each kind of item still returns

callVars == <<pc, request, image, attempts, reply, committed>>
vars == <<tableVars, callVars, replica, signup>>

--------------------------------------------------------------------------------
(* Requests, replies and reads.                                              *)

Nothing == <<>>

AuthorizeRequest(a, m, amt, k) ==
    [op |-> "authorize", account |-> a, key |-> k, merchant |-> m, amount |-> amt]
ResolveRequest(op, a, i, k) == [op |-> op, account |-> a, key |-> k, target |-> i]
DepositRequest(a, amt, k) == [op |-> "deposit", account |-> a, key |-> k, amount |-> amt]
MerchantRequest(m) == [op |-> "merchant", merchant |-> m]

\* A request may come without an Idempotency-Key.
RequestType ==
    {AuthorizeRequest(a, m, amt, k) :
        a \in Accounts, m \in Merchants, amt \in Amounts, k \in Keys \cup {Nothing}}
    \cup {ResolveRequest(op, a, i, k) :
        op \in {"capture", "void"}, a \in Accounts, i \in AuthorizationIds,
        k \in Keys \cup {Nothing}}
    \cup {DepositRequest(a, amt, k) : a \in Accounts, amt \in Amounts, k \in Keys \cup {Nothing}}
    \cup {MerchantRequest(m) : m \in Merchants}

ASSUME RequestsAssumption == Requests \subseteq RequestType

Error(code, name) == [status_code |-> code, body |-> [error |-> name]]

InternalServerError == Error(500, "InternalServerError")

\* check_replay hashes the body the handler gives it; capture and void give none.
RequestHash(r) ==
    IF r.op = "authorize" THEN AuthorizationHash(r.merchant, r.amount)
    ELSE IF r.op = "deposit" THEN DepositHash(r.amount)
    ELSE NoHash

TerminalStatusError_Fault ==
    [CAPTURED |-> Error(409, "AlreadyCaptured"), VOIDED |-> Error(409, "AlreadyCaptured"),
     EXPIRED |-> Error(409, "AuthorizationExpired"),
     REVERSED |-> Error(409, "AuthorizationReversed")]

\* _TERMINAL_STATUS_ERRORS
TerminalStatusError ==
    [CAPTURED |-> Error(409, "AlreadyCaptured"), VOIDED |-> Error(409, "AlreadyVoided"),
     EXPIRED |-> Error(409, "AuthorizationExpired"),
     REVERSED |-> Error(409, "AuthorizationReversed")]

\* get_item without ConsistentRead, and every query of an index.
Seen(items, lagging) == IF StaleReads THEN {items, lagging} ELSE {items}

--------------------------------------------------------------------------------
(* Control of one invocation.                                                *)

Goto(c, label) ==
    /\ pc' = [pc EXCEPT ![c] = label]
    /\ UNCHANGED <<request, attempts, reply>>

Answer(c, response) ==
    /\ pc' = [pc EXCEPT ![c] = "reply"]
    /\ reply' = [reply EXCEPT ![c] = response]
    /\ image' = [image EXCEPT ![c] = Nothing]
    /\ attempts' = [attempts EXCEPT ![c] = 0]
    /\ UNCHANGED request

Commit(c, response) ==
    /\ Answer(c, response)
    /\ committed' = [committed EXCEPT ![c] = TRUE]

NoCommit == UNCHANGED <<tableVars, committed>>

\* The first read after the idempotency check.
FirstRead(op) ==
    CASE op = "authorize" -> "merchant"
      [] op = "deposit"   -> "account"
      [] OTHER            -> "authorization"

Receive(c) ==
    /\ pc[c] = "idle"
    /\ \E r \in Requests :
          /\ request' = [request EXCEPT ![c] = r]
          /\ pc' = [pc EXCEPT ![c] = IF r.op = "merchant" THEN "write" ELSE "check"]
    /\ UNCHANGED <<image, attempts, reply, replica, signup>>
    /\ NoCommit

\* model_validate: the one field of a well-formed body a property is about.
ValidBody(r) == r.op \in {"authorize", "deposit"} => ValidAmount(r.amount)

RejectBody(c) ==
    /\ pc[c] = "check"
    /\ ~ValidBody(request[c])
    /\ Answer(c, Error(400, "InvalidRequest"))
    /\ UNCHANGED <<replica, signup>>
    /\ NoCommit

\* idempotency.require_key
MissingKey(c) ==
    /\ pc[c] = "check"
    /\ ValidBody(request[c])
    /\ request[c].key = Nothing
    /\ Answer(c, Error(400, "MissingIdempotencyKey"))
    /\ UNCHANGED <<replica, signup>>
    /\ NoCommit

\* idempotency.check_replay
CheckReplay(c) ==
    /\ pc[c] = "check"
    /\ ValidBody(request[c]) /\ request[c].key # Nothing
    /\ \E records \in Seen(idem, replica.idem) :
          LET k == request[c].key
              hash == RequestHash(request[c])
          IN  IF k \notin DOMAIN records
              THEN Goto(c, FirstRead(request[c].op)) /\ UNCHANGED image
              ELSE IF hash # NoHash /\ records[k].request_hash # hash
              THEN Answer(c, Error(422, "IdempotencyKeyReuse"))
              ELSE Answer(c, records[k].response)
    /\ UNCHANGED <<replica, signup>>
    /\ NoCommit

ReadMerchant_Fault(c) ==
    /\ pc[c] = "merchant"
    /\ Goto(c, "write")
    /\ UNCHANGED <<image, replica, signup>>
    /\ NoCommit

ReadMerchant(c) ==
    /\ pc[c] = "merchant"
    /\ \E merchants \in Seen(merchant, replica.merchant) :
          IF request[c].merchant \in DOMAIN merchants
          THEN Goto(c, "write") /\ UNCHANGED image
          ELSE Answer(c, Error(400, "UnknownMerchant"))
    /\ UNCHANGED <<replica, signup>>
    /\ NoCommit

ReadAuthorization_Fault(c) ==
    /\ pc[c] = "authorization"
    /\ \E holds \in Seen(authorization, replica.authorization) :
          LET i == request[c].target
          IN  IF i \in DOMAIN holds
              THEN /\ Goto(c, "write")
                   /\ image' = [image EXCEPT ![c] = holds[i]]
              ELSE Answer(c, Error(404, "AuthorizationNotFound"))
    /\ UNCHANGED <<replica, signup>>
    /\ NoCommit

\* get_authorization, and the check that the caller owns what it returned
ReadAuthorization(c) ==
    /\ pc[c] = "authorization"
    /\ \E holds \in Seen(authorization, replica.authorization) :
          LET i == request[c].target
          IN  IF i \in DOMAIN holds /\ holds[i].account_id = request[c].account
              THEN /\ Goto(c, "write")
                   /\ image' = [image EXCEPT ![c] = holds[i]]
              ELSE Answer(c, Error(404, "AuthorizationNotFound"))
    /\ UNCHANGED <<replica, signup>>
    /\ NoCommit

ReadAccount(c) ==
    /\ pc[c] = "account"
    /\ \E accounts \in Seen(account, replica.account) :
          LET a == request[c].account
          IN  IF a \in DOMAIN accounts
              THEN /\ Goto(c, "write")
                   /\ image' = [image EXCEPT ![c] = accounts[a]]
              ELSE Answer(c, Error(404, "NotFound"))
    /\ UNCHANGED <<replica, signup>>
    /\ NoCommit

--------------------------------------------------------------------------------
(* The transactions, and what the except clauses make of a cancelled one.    *)

WriteAuthorization(c) ==
    LET r == request[c]
        reasons == AuthorizeReasons(r.account, r.amount, r.key)
    IN  /\ pc[c] = "write" /\ r.op = "authorize"
        /\ UNCHANGED <<replica, signup>>
        /\ \/ \E i \in AuthorizationIds, today \in Days :
                 /\ InsertAuthorization(i, r.account, r.merchant, r.amount, today, r.key)
                 /\ Commit(c, AuthorizationResponse(authorization'[i], 201))
           \/ /\ 0 \in reasons
              /\ Answer(c, Error(409, "InsufficientFunds"))
              /\ NoCommit
           \/ /\ 0 \notin reasons /\ 2 \in reasons
              /\ Goto(c, "resolve") /\ UNCHANGED image
              /\ NoCommit

ExplainResolve_Fault(c, reasons, guard, record) ==
    \/ /\ guard \in reasons
       /\ Goto(c, "status") /\ UNCHANGED image
       /\ NoCommit
    \/ /\ guard \notin reasons /\ record \in reasons
       /\ Goto(c, "resolve") /\ UNCHANGED image
       /\ NoCommit

\* capture_authorization and void_authorization share the shape of the except
\* clause: the idempotency record first, the status guard after it.
ExplainResolve(c, reasons, guard, record) ==
    \/ /\ record \in reasons
       /\ Goto(c, "resolve") /\ UNCHANGED image
       /\ NoCommit
    \/ /\ record \notin reasons /\ guard \in reasons
       /\ Goto(c, "status") /\ UNCHANGED image
       /\ NoCommit

WriteCapture(c) ==
    LET r == request[c]
        auth == image[c]
    IN  /\ pc[c] = "write" /\ r.op = "capture"
        /\ UNCHANGED <<replica, signup>>
        /\ \/ \E txn \in TransactionIds :
                 /\ CaptureAuthorization(auth, r.account, txn, r.key)
                 /\ Commit(c, AuthorizationResponse([auth EXCEPT !.status = "CAPTURED"], 200))
           \/ ExplainResolve(c, CaptureReasons(auth, r.account, r.key), 4, 5)

WriteVoid(c) ==
    LET r == request[c]
        auth == image[c]
    IN  /\ pc[c] = "write" /\ r.op = "void"
        /\ UNCHANGED <<replica, signup>>
        /\ \/ /\ VoidAuthorization(auth, r.account, r.key)
              /\ Commit(c, AuthorizationResponse([auth EXCEPT !.status = "VOIDED"], 200))
           \/ ExplainResolve(c, VoidReasons(auth, r.account, r.key), 1, 2)

RetryDeposit_Forever(c) ==
    /\ pc' = [pc EXCEPT ![c] = "account"]
    /\ image' = [image EXCEPT ![c] = Nothing]
    /\ UNCHANGED <<request, attempts, reply>>

RetryDeposit_Never(c) == Answer(c, InternalServerError)

\* A deposit whose compare-and-swap lost reads the balances again, so often.
RetryDeposit(c) ==
    IF attempts[c] + 1 < MaxAttempts
    THEN /\ pc' = [pc EXCEPT ![c] = "account"]
         /\ attempts' = [attempts EXCEPT ![c] = @ + 1]
         /\ image' = [image EXCEPT ![c] = Nothing]
         /\ UNCHANGED <<request, reply>>
    ELSE Answer(c, InternalServerError)

WriteDeposit(c) ==
    LET r == request[c]
        read == image[c]
        reasons == DepositReasons(r.account, read, r.key)
    IN  /\ pc[c] = "write" /\ r.op = "deposit"
        /\ UNCHANGED <<replica, signup>>
        /\ \/ \E txn \in TransactionIds :
                 /\ Deposit(r.account, r.amount, read, txn, r.key)
                 /\ Commit(c, DepositResponse(AccountImage(read.current_balance + r.amount,
                                                          read.available_balance + r.amount)))
           \/ /\ 3 \in reasons
              /\ Goto(c, "resolve") /\ UNCHANGED image
              /\ NoCommit
           \/ /\ 3 \notin reasons /\ 0 \in reasons
              /\ RetryDeposit(c)
              /\ NoCommit

\* A put is not a transaction with a token: when its response is lost, the
\* client library's retry (dynamo.py:33) finds the merchant it has just written.
WriteMerchant(c) ==
    LET m == request[c].merchant
    IN  /\ pc[c] = "write" /\ request[c].op = "merchant"
        /\ UNCHANGED <<replica, signup>>
        /\ \/ /\ InsertMerchant(m)
              /\ Commit(c, [status_code |-> 201,
                            body |-> [merchant |-> m, payable_balance |-> 0]])
           \/ /\ Crashes /\ InsertMerchant(m)
              /\ Commit(c, Error(400, "MerchantAlreadyExists"))
           \/ /\ m \in DOMAIN merchant
              /\ Answer(c, Error(400, "MerchantAlreadyExists"))
              /\ NoCommit

\* The transactions of two invocations have an item in common: the account, the
\* idempotency record, or the merchant two captures pay.
Overlap(c, d) ==
    \/ request[c].account = request[d].account
    \/ request[c].key = request[d].key
    \/ /\ request[c].op = "capture" /\ request[d].op = "capture"
       /\ image[c].merchant_id = image[d].merchant_id

\* Two transactions on one item at the same time: DynamoDB cancels one with
\* TransactionConflict, no position holds ConditionalCheckFailed, and every
\* except clause re-raises.
WriteConflicts(c) ==
    /\ Contention
    /\ pc[c] = "write" /\ request[c].op # "merchant"
    /\ \E d \in Calls \ {c} :
          pc[d] = "write" /\ request[d].op # "merchant" /\ Overlap(c, d)
    /\ Answer(c, InternalServerError)
    /\ UNCHANGED <<replica, signup>>
    /\ NoCommit

\* resolve_conflict: replay what the winner of the key recorded.  Its assert
\* fails on a read that does not show the record yet, and create_authorization
\* needs the replayed body to name an authorization.
Resolve(c) ==
    /\ pc[c] = "resolve"
    /\ \E records \in Seen(idem, replica.idem) :
          LET k == request[c].key
              replayable == k \in DOMAIN records
                            /\ (request[c].op = "authorize"
                                  => IsAuthorizationBody(records[k].response.body))
          IN  Answer(c, IF replayable THEN records[k].response ELSE InternalServerError)
    /\ UNCHANGED <<replica, signup>>
    /\ NoCommit

\* _read_status is strongly consistent.  A status the guard cannot have
\* rejected re-raises for the 500.
ReadStatus(c) ==
    LET i == image[c].authorization_id
        stored == i \in DOMAIN authorization
                  /\ authorization[i].account_id = request[c].account
    IN  /\ pc[c] = "status"
        /\ Answer(c, IF stored /\ authorization[i].status # "PENDING"
                     THEN TerminalStatusError[authorization[i].status]
                     ELSE InternalServerError)
        /\ UNCHANGED <<replica, signup>>
        /\ NoCommit

Deliver(c) ==
    /\ pc[c] = "reply"
    /\ pc' = [pc EXCEPT ![c] = "done"]
    /\ UNCHANGED <<request, image, attempts, reply, replica, signup>>
    /\ NoCommit

\* The function times out or is killed, or the connection drops: whatever it
\* committed stays committed, and the client learns nothing.
Crash(c) ==
    /\ Crashes
    /\ pc[c] \notin {"idle", "done"}
    /\ pc' = [pc EXCEPT ![c] = "done"]
    /\ reply' = [reply EXCEPT ![c] = Nothing]
    /\ image' = [image EXCEPT ![c] = Nothing]
    /\ attempts' = [attempts EXCEPT ![c] = 0]
    /\ UNCHANGED <<request, replica, signup>>
    /\ NoCommit

--------------------------------------------------------------------------------
(* Everything else that touches the table.                                   *)

\* The post-confirmation trigger.
SignUp(s) == SignupStep(s) /\ UNCHANGED <<callVars, replica>>

\* The sweeper commits one hold's expiry; HoldsBalance needs no clock.
Sweep == Sweeping /\ ExpireStep /\ UNCHANGED <<callVars, replica, signup>>

Lapse == RecordsLapse /\ LapseStep /\ UNCHANGED <<callVars, replica, signup>>

\* Replicas and the index catch up, one kind of item at a time.
Current == [account |-> account, merchant |-> merchant,
            authorization |-> authorization, idem |-> idem]

Replicate(kind) ==
    /\ StaleReads
    /\ replica[kind] # Current[kind]
    /\ replica' = [replica EXCEPT ![kind] = Current[kind]]
    /\ UNCHANGED <<tableVars, callVars, signup>>

--------------------------------------------------------------------------------

CallInit ==
    /\ pc = [c \in Calls |-> "idle"]
    /\ request = [c \in Calls |-> Nothing]
    /\ image = [c \in Calls |-> Nothing]
    /\ attempts = [c \in Calls |-> 0]
    /\ reply = [c \in Calls |-> Nothing]
    /\ committed = [c \in Calls |-> FALSE]

ServiceInit == TableInit /\ CallInit /\ SignupInit /\ replica = Current

\* The steps an invocation takes by itself once the request is in.
Serve(c) ==
    \/ RejectBody(c)
    \/ MissingKey(c)
    \/ CheckReplay(c)
    \/ ReadMerchant(c)
    \/ ReadAuthorization(c)
    \/ ReadAccount(c)
    \/ WriteAuthorization(c)
    \/ WriteCapture(c)
    \/ WriteVoid(c)
    \/ WriteDeposit(c)
    \/ WriteMerchant(c)
    \/ WriteConflicts(c)
    \/ Resolve(c)
    \/ ReadStatus(c)
    \/ Deliver(c)

\* The instance's calls are finite in number; a real system goes on.
Finished == (\A c \in Calls : pc[c] = "done") /\ UNCHANGED vars

ServiceNext ==
    \/ \E c \in Calls : Receive(c) \/ Serve(c) \/ Crash(c)
    \/ Finished
    \/ \E s \in Signups : SignUp(s)
    \/ \E kind \in DOMAIN replica : Replicate(kind)
    \/ Sweep
    \/ Lapse

\* An invocation that has started runs to its end: it is CPU and DynamoDB time
\* only.  Nothing makes clients call, replicas catch up, or the sweeper run.
Fairness ==
    /\ \A c \in Calls : WF_vars(Serve(c))
    /\ \A s \in Signups : WF_vars(Run(s) /\ SignUp(s))

ServiceSpec == ServiceInit /\ [][ServiceNext]_vars /\ Fairness

--------------------------------------------------------------------------------
(* What a client may rely on.                                                *)

Labels == {"idle", "check", "merchant", "authorization", "account", "write",
           "resolve", "status", "reply", "done"}

Replied(c) == pc[c] \in {"reply", "done"} /\ reply[c] # Nothing
Succeeded(c) == Replied(c) /\ reply[c].status_code < 300
Keyed(c) == pc[c] # "idle" /\ request[c].op # "merchant"
Resolving(c) == Keyed(c) /\ request[c].op \in {"capture", "void"}

\* An invocation is never anywhere its handler cannot be: it holds an image
\* only on the way from the read to the end of the write, of an authorization
\* its caller owns or of an account, and counts only the rounds it lost.
ServiceTypeOK ==
    /\ pc \in [Calls -> Labels]
    /\ \A c \in Calls :
          /\ pc[c] = "idle" <=> request[c] = Nothing
          /\ pc[c] # "idle" => request[c] \in Requests
          /\ pc[c] = "reply" => reply[c] # Nothing
          /\ attempts[c] \in 0..(MaxAttempts - 1)
          /\ attempts[c] > 0 => request[c].op = "deposit"
          /\ pc[c] = "write" /\ Resolving(c) => image[c].account_id = request[c].account
    /\ committed \in [Calls -> BOOLEAN]

\* However often a client sends a key, and wherever its earlier calls died, the
\* key has one effect (IDEM# Put, idempotency.py:134).
OneEffectPerKey ==
    \A c, d \in Calls :
        c # d /\ Keyed(c) /\ Keyed(d) /\ committed[c] /\ committed[d]
            => request[c].key # request[d].key

\* Every success a client is told under one key is the same response, byte for
\* byte: the one its effect recorded (idempotency.py:101-105, 166-170).
SameKeySameAnswer ==
    \A c, d \in Calls :
        Keyed(c) /\ Keyed(d) /\ Succeeded(c) /\ Succeeded(d)
            /\ request[c].key = request[d].key
                => reply[c] = reply[d]

\* The response that a request of this kind earns when it succeeds.
AnswersRequest(r, body) ==
    CASE r.op = "authorize" -> /\ IsAuthorizationBody(body)
                               /\ body.status = "PENDING"
                               /\ body.merchant_id = r.merchant
                               /\ body.amount = r.amount
      [] r.op = "capture"   -> /\ IsAuthorizationBody(body)
                               /\ body.status = "CAPTURED"
                               /\ body.authorization_id = r.target
      [] r.op = "void"      -> /\ IsAuthorizationBody(body)
                               /\ body.status = "VOIDED"
                               /\ body.authorization_id = r.target
      [] OTHER              -> "current_balance" \in DOMAIN body

\* A success is an answer to the request that was sent, and the table holds
\* what it says: the hold with its amount and merchant, the capture or void.
SuccessIsWhatWasAsked ==
    \A c \in Calls :
        Keyed(c) /\ Succeeded(c) =>
            LET body == reply[c].body
            IN  /\ AnswersRequest(request[c], body)
                /\ IsAuthorizationBody(body) =>
                      /\ body.authorization_id \in DOMAIN authorization
                      /\ LET auth == authorization[body.authorization_id]
                         IN  /\ auth.account_id = request[c].account
                             /\ auth.amount = body.amount
                             /\ body.status # "PENDING" => auth.status = body.status

\* A 409 names the state the hold is in for good, although the read that
\* explains the failed guard happens after the write it explains
\* (ledger.py:535-541, handler.py:193-197).
ConflictsAreTrue ==
    \A c \in Calls :
        Resolving(c) /\ Replied(c) =>
            \A told \in {<<"AlreadyCaptured", "CAPTURED">>, <<"AlreadyVoided", "VOIDED">>,
                         <<"AuthorizationExpired", "EXPIRED">>} :
                reply[c] = Error(409, told[1])
                    => /\ request[c].target \in DOMAIN authorization
                       /\ authorization[request[c].target].status = told[2]

\* A capture and a void of one hold, under whatever keys, and the sweeper:
\* exactly one of them resolves it, and an invocation that resolved it exists
\* unless the sweeper did.
OneWinnerPerHold ==
    \A i \in DOMAIN authorization :
        LET winners == {c \in Calls : Resolving(c) /\ committed[c] /\ request[c].target = i}
        IN  Cardinality(winners)
              = IF authorization[i].status \in {"CAPTURED", "VOIDED"} THEN 1 ELSE 0

\* What may have moved the balances a call has read: another call's commit or
\* an expiry, each of which does so once.
Committers(c) == {d \in Calls \ {c} : committed[d]}
Sweepable == IF Sweeping THEN AuthorizationIds ELSE {}
Expired == {i \in Sweepable \cap DOMAIN authorization : authorization[i].status = "EXPIRED"}
Rivals(c) == Cardinality(Committers(c)) + Cardinality(Expired)

\* Another transaction on an item of this call's is under way.
InConflict(c) ==
    /\ Contention
    /\ \E d \in Calls \ {c} : pc[d] = "write" /\ request[d].op # "merchant" /\ Overlap(c, d)

\* A deposit loses the last of its attempts: either its reads lag, or it has
\* met as many rivals as it has attempts (ledger.py:151, 257).
OutOfAttempts(c) ==
    /\ request[c].op = "deposit"
    /\ ~BalanceAsRead(request[c].account, image[c])
    /\ attempts[c] = MaxAttempts - 1
    /\ StaleReads \/ Rivals(c) >= MaxAttempts

\* The record that the call lost to is there, but lags, or another operation's.
RecordUnusable(c) ==
    /\ request[c].key \in DOMAIN idem
    /\ \/ \E records \in Seen(idem, replica.idem) : request[c].key \notin DOMAIN records
       \/ /\ request[c].op = "authorize"
          /\ ~IsAuthorizationBody(idem[request[c].key].response.body)

\* A 500 is told for these causes only, whatever reads lag, transactions
\* conflict, invocations die and sweeps intervene.  The reads that follow a
\* cancellation otherwise always explain it: the record is there to replay and
\* the hold's status is one that rejects the guard, so the re-raises of
\* ledger.py:543-558 and 626-635 are never taken for want of an explanation.
FailuresHaveCauses ==
    [][\A c \in Calls :
          pc[c] # "reply" /\ pc'[c] = "reply" /\ reply'[c] = InternalServerError
              => \/ pc[c] = "write" /\ (InConflict(c) \/ OutOfAttempts(c))
                 \/ pc[c] = "resolve" /\ RecordUnusable(c)]_vars

\* A deposit adds its amount to both balances as they are when it commits, not
\* as they were when it read them, and its response shows the sums: what the
\* compare-and-swap is for (ledger.py:138-150).
DepositReplyIsExact ==
    [][\A c \in Calls :
          Keyed(c) /\ request[c].op = "deposit" /\ committed'[c] /\ ~committed[c] =>
              LET before == account[request[c].account]
                  after == AccountImage(before.current_balance + request[c].amount,
                                        before.available_balance + request[c].amount)
              IN  account'[request[c].account] = after /\ reply'[c].body = after]_vars

\* A client whose key already took effect is never told that its capture or
\* void came too late (ledger.py:521-527), however its two calls interleave.
OwnWorkIsNoConflict ==
    \A c, d \in Calls :
        Resolving(c) /\ Resolving(d) /\ Replied(d) /\ committed[c] /\ request[c] = request[d]
            => reply[d].status_code # 409

\* Every call comes to an end, however its reads lag and its writes lose:
\* deposit's retry loop is the only one, and it is bounded (ledger.py:151).
EveryCallEnds == \A c \in Calls : pc[c] # "idle" ~> pc[c] = "done"

\* What a client that asked has been told, in the terms of CardService.
Told(c) ==
    IF pc[c] \notin {"reply", "done"} THEN Nothing
    ELSE IF reply[c] = Nothing THEN <<"lost">>
    ELSE IF reply[c].status_code >= 300 THEN <<"refused", reply[c].body.error>>
    ELSE IF request[c].op = "merchant" THEN <<"enrolled", request[c].merchant>>
    ELSE AsEffect(reply[c].body)

\* What clients have to keep to (04-api.md, "Idempotency"): a key is for one
\* request.  A capture or a void carries no hash by which another could be told.
KeysAreOwn ==
    \A r, s \in Requests :
        r.op # "merchant" /\ s.op # "merchant" /\ r.key = s.key /\ r.key # Nothing => r = s

\* A deposit has more attempts than there can be rivals (ledger.py:151).
FewRivals ==
    /\ IsFiniteSet(Calls) /\ IsFiniteSet(Sweepable)
    /\ Cardinality(Calls) + Cardinality(Sweepable) <= MaxAttempts

\* Where one of these fails, FailuresHaveCauses says what a 500 comes from.
NeverFails == ~StaleReads /\ ~Contention /\ KeysAreOwn /\ FewRivals

Promise == INSTANCE CardService
               WITH posted <- Posted, payable <- merchant, hold <- Holds, answered <- Effects,
                    asked <- request, told <- [c \in Calls |-> Told(c)],
                    Lagging <- StaleReads, Failing <- ~NeverFails

\* The calls behave as if each were answered in one step (CardService): by its
\* effect, by the effect its key already stands for, or by a refusal that is
\* true when it is given.  No lost races and re-reads in between show.  Reads
\* that lag show only as a lookup that misses what is there or as a failure,
\* and a failure never hides an effect of the call that is told of it.
CallsAreAtomic == [][Promise!ServiceNext]_Promise!serviceVars

--------------------------------------------------------------------------------
(* What the documents say and the code does not do.                          *)

\* 05-design-decisions.md:85-87 and 04-api.md:141-142: a failed balance guard
\* is not to be reported when the key's own record is what the retry lost to.
RetryIsNotRefusedForFunds ==
    [][\A c \in Calls :
          pc[c] = "write" /\ pc'[c] = "reply" /\ reply'[c] = Error(409, "InsufficientFunds")
              => request[c].key \notin DOMAIN idem]_vars

\* 04-api.md:115-117: present with a different hash is a 422, never a replay.
OtherBodyIsRefused ==
    \A c \in Calls :
        Keyed(c) /\ Succeeded(c) => AnswersRequest(request[c], reply[c].body)

\* idempotency.py:161-164: the winner's record must already be readable.
WinnersRecordIsReadable ==
    \A c \in Calls :
        pc[c] = "resolve" => \A records \in Seen(idem, replica.idem) :
                                request[c].key \in DOMAIN records

================================================================================
