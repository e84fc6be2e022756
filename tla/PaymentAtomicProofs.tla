-------------------------- MODULE PaymentAtomicProofs --------------------------
(***************************************************************************)
(* The proof that PaymentService implements CardService: every call looks  *)
(* as if it were answered in one step.                                     *)
(***************************************************************************)
EXTENDS PaymentKeysProofs

--------------------------------------------------------------------------------
(* The promise of the service contains that of the table.                    *)

LEMMA SameAvailable == ASSUME NEW a PROVE Promise!Available(a) = Card!Available(a)
    <1>1. Promise!Reserved(a) = Card!Reserved(a)
        BY DEF Promise!Reserved, Card!Reserved
    <1>2. \A S : Promise!Cardinality(S) = Card!Cardinality(S)
        BY DEF Promise!Cardinality, Card!Cardinality
    <1> QED
        BY <1>1, <1>2 DEF Promise!Available, Card!Available

LEMMA SameAnswers ==
    ASSUME NEW k, NEW effect, Card!Answers(k, effect) PROVE Promise!Answers(k, effect)
    BY DEF Card!Answers, Promise!Answers, Card!Extend, Promise!Extend

LEMMA SameOpen == ASSUME NEW a, Card!Open(a) PROVE Promise!Open(a)
    BY DEF Card!Open, Promise!Open, Card!Extend, Promise!Extend

LEMMA SameEnroll == ASSUME NEW m, Card!Enroll(m) PROVE Promise!Enroll(m)
    BY DEF Card!Enroll, Promise!Enroll, Card!Extend, Promise!Extend

LEMMA SameFund ==
    ASSUME NEW a, NEW amt, NEW k, Card!Fund(a, amt, k) PROVE Promise!Fund(a, amt, k)
    BY SameAnswers, SameAvailable DEF Card!Fund, Promise!Fund

LEMMA SameReserve ==
    ASSUME NEW i, NEW a, NEW m, NEW amt, NEW k, Card!Reserve(i, a, m, amt, k)
    PROVE  Promise!Reserve(i, a, m, amt, k)
    BY SameAnswers, SameAvailable
    DEF Card!Reserve, Promise!Reserve, Card!Extend, Promise!Extend

LEMMA SameSettle == ASSUME NEW i, NEW k, Card!Settle(i, k) PROVE Promise!Settle(i, k)
    BY SameAnswers DEF Card!Settle, Promise!Settle

LEMMA SameRelease == ASSUME NEW i, NEW k, Card!Release(i, k) PROVE Promise!Release(i, k)
    BY SameAnswers DEF Card!Release, Promise!Release

LEMMA SameExpire == ASSUME NEW i, Card!Expire(i) PROVE Promise!Expire(i)
    BY DEF Card!Expire, Promise!Expire

--------------------------------------------------------------------------------
(* What the client of a call is told.                                        *)

\* What every client has been told.
AllTold == [c \in Calls |-> Told(c)]

\* A call tells only its own client.
LEMMA ToldKept ==
    ASSUME ServiceInv, NEW c \in Calls, Own(c), NEW d \in Calls \ {c}
    PROVE  Told(d)' = Told(d) /\ request'[d] = request[d]
    BY OthersKept DEF ServiceInv, Own, Told

\* A call that has not answered and now does tells its client.
LEMMA Tells ==
    ASSUME ServiceInv, NEW c \in Calls, Own(c), pc[c] \notin {"idle", "reply", "done"},
           NEW answer, Told(c)' = answer
    PROVE  Promise!Tell(c, answer)
    <1>1. Control
        BY DEF ServiceInv
    <1>2. request[c] # Nothing /\ Told(c) = Nothing
        BY <1>1 DEF Control, ControlOK, Told
    <1>3. request' = request
        <2>1. ~Receive(c)
            BY DEF Receive
        <2> QED
            BY <2>1 DEF Own, Serve, RejectBody, MissingKey, CheckReplay, ReadMerchant,
               ReadAuthorization, ReadAccount, WriteAuthorization, WriteCapture, WriteVoid,
               ExplainResolve, WriteDeposit, RetryDeposit, WriteMerchant, WriteConflicts, Resolve,
               ReadStatus, Deliver, Crash, Goto, Answer, Commit
    <1>4. AllTold' = [AllTold EXCEPT ![c] = answer]
        BY ToldKept DEF AllTold
    <1> QED
        BY <1>2, <1>3, <1>4 DEF Promise!Tell, AllTold, Nothing

\* The table's part of the promise is still while the table is.
LEMMA TableStill ==
    ASSUME UNCHANGED tableVars PROVE UNCHANGED Promise!cardVars
    BY DEF tableVars, Promise!cardVars, Posted, Holds, Effects

--------------------------------------------------------------------------------
(* Refusals.                                                                 *)

\* What makes a refusal true.
LEMMA TrueReasons ==
    ASSUME NEW r
    PROVE  LET resolves == r.op \in {"capture", "void"}
               moves == r.op \in {"authorize", "deposit"}
           IN  /\ r.op # "merchant" /\ r.key = <<>>
                     => "MissingIdempotencyKey" \in Promise!Reasons(r)
               /\ moves /\ r.amount <= 0 => "InvalidRequest" \in Promise!Reasons(r)
               /\ moves /\ Promise!Keyed(r) => "IdempotencyKeyReuse" \in Promise!Reasons(r)
               /\ r.op = "authorize" /\ (StaleReads \/ r.merchant \notin DOMAIN merchant)
                     => "UnknownMerchant" \in Promise!Reasons(r)
               /\ r.op = "authorize"
                  /\ (r.account \in DOMAIN Posted => r.amount > Promise!Available(r.account))
                     => "InsufficientFunds" \in Promise!Reasons(r)
               /\ r.op = "deposit" /\ (StaleReads \/ r.account \notin DOMAIN Posted)
                     => "NotFound" \in Promise!Reasons(r)
               /\ r.op = "merchant" /\ r.merchant \in DOMAIN merchant
                     => "MerchantAlreadyExists" \in Promise!Reasons(r)
               /\ resolves /\ (StaleReads \/ ~Promise!Owns(r))
                     => "AuthorizationNotFound" \in Promise!Reasons(r)
               /\ resolves /\ Promise!InState(r, "settled")
                     => "AlreadyCaptured" \in Promise!Reasons(r)
               /\ resolves /\ Promise!InState(r, "released")
                     => "AlreadyVoided" \in Promise!Reasons(r)
               /\ resolves /\ Promise!InState(r, "expired")
                     => "AuthorizationExpired" \in Promise!Reasons(r)
               /\ r.op # "merchant" /\ ~NeverFails
                     => "InternalServerError" \in Promise!Reasons(r)
    BY DEF Promise!Reasons

LEMMA Refusal ==
    ASSUME ServiceInv, NEW c \in Calls, Own(c), pc[c] \notin {"idle", "reply", "done"},
           pc'[c] = "reply", NoCommit, NEW code \in Nat, code >= 300, NEW name,
           reply'[c] = Error(code, name), name \in Promise!Reasons(request[c])
    PROVE  Promise!Refuse(c)
    <1>1. Told(c)' = <<"refused", name>>
        BY ErrorIsNoSuccess DEF Told, Error
    <1>2. Promise!Tell(c, <<"refused", name>>)
        BY <1>1, Tells
    <1> QED
        BY <1>2, TableStill DEF Promise!Refuse, NoCommit

\* A 409 for a capture or a void names the state the hold is in.
LEMMA StatusIsTrue ==
    ASSUME ServiceInv, NeverReversed, NEW c \in Calls, Own(c), pc'[c] = "reply", NamesStatus(c)
    PROVE  Promise!Refuse(c)
    <1> DEFINE r == request[c]
               i == request[c].target
    <1>1. /\ TypeOK /\ NoCommit
          /\ pc[c] = "status" /\ r.op \in {"capture", "void"}
          /\ i \in DOMAIN authorization
          /\ authorization[i].account_id = r.account
        BY PastTerms DEF ServiceInv, ItemsOK, NamesStatus
    <1>2. authorization[i].status \in {"CAPTURED", "VOIDED", "EXPIRED"}
        BY <1>1 DEF NamesStatus, NeverReversed, TypeOK, AuthorizationType, Statuses
    <1>3. Promise!InState(r, HoldState[authorization[i].status])
        BY <1>1, HeldIsPending DEF Promise!InState, Promise!Owns, Holds
    <1>4. CASE authorization[i].status = "CAPTURED"
        <2>1. "AlreadyCaptured" \in Promise!Reasons(r)
            BY <1>1, <1>3, <1>4, TrueReasons DEF HoldState
        <2>2. reply'[c] = Error(409, "AlreadyCaptured")
            BY <1>4 DEF NamesStatus, TerminalStatusError
        <2> QED
            BY <1>1, <2>1, <2>2, Refusal
    <1>5. CASE authorization[i].status = "VOIDED"
        <2>1. "AlreadyVoided" \in Promise!Reasons(r)
            BY <1>1, <1>3, <1>5, TrueReasons DEF HoldState
        <2>2. reply'[c] = Error(409, "AlreadyVoided")
            BY <1>5 DEF NamesStatus, TerminalStatusError
        <2> QED
            BY <1>1, <2>1, <2>2, Refusal
    <1>6. CASE authorization[i].status = "EXPIRED"
        <2>1. "AuthorizationExpired" \in Promise!Reasons(r)
            BY <1>1, <1>3, <1>6, TrueReasons DEF HoldState
        <2>2. reply'[c] = Error(409, "AuthorizationExpired")
            BY <1>6 DEF NamesStatus, TerminalStatusError
        <2> QED
            BY <1>1, <2>1, <2>2, Refusal
    <1> QED
        BY <1>2, <1>4, <1>5, <1>6

\* Every other refusal is for a reason that holds when it is given.
LEMMA RefusalIsTrue ==
    ASSUME ServiceInv, LaggingRecords, PromiseInv, NEW c \in Calls, Own(c),
           pc[c] \notin {"idle", "reply", "done"}, pc'[c] = "reply",
           NoCommit, ~ReplaysReply(c), ~NamesStatus(c), reply'[c] # InternalServerError
    PROVE  Promise!Refuse(c)
    <1> DEFINE r == request[c]
    <1>1. /\ TypeOK /\ Control
          /\ r \in Requests /\ r.op \in OpsAt(pc[c])
        BY DEF ServiceInv, Control, ControlOK
    <1>2. CASE RejectBody(c)
        <2>1. pc[c] = "check" /\ ~ValidBody(r) /\ reply'[c] = Error(400, "InvalidRequest")
            BY <1>1, <1>2 DEF RejectBody, Answer, Control
        <2>2. r.op \in {"authorize", "deposit"} /\ r.amount <= 0
            <3>1. r.op \in {"authorize", "deposit"} => r.amount \in Int
                BY <1>1, RequestShape, AmountsAssumption
            <3> QED
                BY <2>1, <3>1 DEF ValidBody, ValidAmount
        <2>3. "InvalidRequest" \in Promise!Reasons(r)
            BY <2>2, TrueReasons
        <2> QED
            BY <2>1, <2>3, Refusal
    <1>3. CASE MissingKey(c)
        <2>1. pc[c] = "check" /\ r.key = Nothing /\ reply'[c] = Error(400, "MissingIdempotencyKey")
            BY <1>1, <1>3 DEF MissingKey, Answer, Control
        <2>2. "MissingIdempotencyKey" \in Promise!Reasons(r)
            BY <1>1, <2>1, TrueReasons DEF OpsAt, KeyedOps, Nothing
        <2> QED
            BY <2>1, <2>2, Refusal
    <1>4. CASE CheckReplay(c)
        <2>1. ~Goto(c, FirstRead(r.op))
            BY <1>1 DEF Goto, FirstRead, Control
        <2>2. /\ pc[c] = "check" /\ r.key \in DOMAIN idem
              /\ RequestHash(r) # NoHash /\ reply'[c] = Error(422, "IdempotencyKeyReuse")
            <3>1. PICK records \in Seen(idem, replica.idem) :
                      /\ pc[c] = "check" /\ r.key \in DOMAIN records
                      /\ \/ RequestHash(r) # NoHash /\ reply'[c] = Error(422, "IdempotencyKeyReuse")
                         \/ reply'[c] = records[r.key].response
                BY <1>1, <1>4, <2>1 DEF CheckReplay, Answer, Control
            <3>2. r.op \in KeyedOps
                BY <1>1, <3>1 DEF OpsAt
            <3>3. r.key \in DOMAIN idem
                BY <3>1 DEF Seen, LaggingRecords
            <3> QED
                BY <3>1, <3>2, <3>3 DEF ReplaysReply
        <2>3. r.op \in {"authorize", "deposit"} /\ Promise!Keyed(r)
            BY <1>1, <2>2 DEF OpsAt, KeyedOps, RequestHash, Promise!Keyed, Effects
        <2>4. "IdempotencyKeyReuse" \in Promise!Reasons(r)
            BY <2>3, TrueReasons
        <2> QED
            BY <2>2, <2>4, Refusal
    <1>5. CASE ReadMerchant(c)
        <2>1. pc[c] = "merchant" /\ (StaleReads \/ r.merchant \notin DOMAIN merchant)
              /\ reply'[c] = Error(400, "UnknownMerchant")
            BY <1>1, <1>5 DEF ReadMerchant, Goto, Answer, Seen, Control
        <2>2. "UnknownMerchant" \in Promise!Reasons(r)
            BY <1>1, <2>1, TrueReasons DEF OpsAt
        <2> QED
            BY <2>1, <2>2, Refusal
    <1>6. CASE ReadAuthorization(c)
        <2>1. /\ pc[c] = "authorization"
              /\ \/ StaleReads
                 \/ ~(r.target \in DOMAIN authorization
                         /\ authorization[r.target].account_id = r.account)
              /\ reply'[c] = Error(404, "AuthorizationNotFound")
            BY <1>1, <1>6 DEF ReadAuthorization, Goto, Answer, Seen, Control
        <2>2. StaleReads \/ ~Promise!Owns(r)
            BY <1>1, <2>1, HeldIsPending DEF Promise!Owns, Holds, AsHold
        <2>3. "AuthorizationNotFound" \in Promise!Reasons(r)
            BY <1>1, <2>1, <2>2, TrueReasons DEF OpsAt
        <2> QED
            BY <2>1, <2>3, Refusal
    <1>7. CASE ReadAccount(c)
        <2>1. pc[c] = "account" /\ (StaleReads \/ r.account \notin DOMAIN account)
              /\ reply'[c] = Error(404, "NotFound")
            BY <1>1, <1>7 DEF ReadAccount, Goto, Answer, Seen, Control
        <2>2. "NotFound" \in Promise!Reasons(r)
            BY <1>1, <2>1, TrueReasons DEF OpsAt, Posted
        <2> QED
            BY <2>1, <2>2, Refusal
    <1>8. CASE WriteAuthorization(c)
        <2>1. pc[c] = "write" /\ r.op = "authorize" /\ ~\E response : Commit(c, response)
            BY <1>1, <1>8 DEF WriteAuthorization, Commit, NoCommit, Control, ControlOK
        <2>2. ~SufficientFunds(r.account, r.amount) /\ reply'[c] = Error(409, "InsufficientFunds")
            BY <1>1, <1>8, <2>1 DEF WriteAuthorization, AuthorizeReasons, Failed, Goto, Answer,
               Control
        <2>3. r.account \in DOMAIN Posted => r.amount > Promise!Available(r.account)
            <3>1. r.amount \in Int
                BY <1>1, <2>1, RequestShape, AmountsAssumption
            <3>2. ASSUME r.account \in DOMAIN account
                  PROVE  r.amount > Promise!Available(r.account)
                <4>1. Promise!Available(r.account) = account[r.account].available_balance
                    BY <3>2, AvailableIsDerived, SameAvailable
                <4>2. account[r.account].available_balance \in Int
                    BY <1>1, <3>2, BalancesAssumption DEF TypeOK, AccountType
                <4> QED
                    BY <2>2, <3>1, <3>2, <4>1, <4>2 DEF SufficientFunds
            <3> QED
                BY <3>2 DEF Posted
        <2>4. "InsufficientFunds" \in Promise!Reasons(r)
            BY <2>1, <2>3, TrueReasons
        <2> QED
            BY <2>2, <2>4, Refusal
    <1>9. CASE WriteMerchant(c)
        <2>1. ~\E response : Commit(c, response)
            BY <1>1, <1>9 DEF WriteMerchant, Commit, NoCommit, Control, ControlOK
        <2>2. r.op = "merchant" /\ r.merchant \in DOMAIN merchant
              /\ reply'[c] = Error(400, "MerchantAlreadyExists")
            BY <1>1, <1>9, <2>1 DEF WriteMerchant, Answer, Control
        <2>3. "MerchantAlreadyExists" \in Promise!Reasons(r)
            BY <2>2, TrueReasons
        <2> QED
            BY <2>2, <2>3, Refusal
    <1>10. ~(WriteCapture(c) \/ WriteVoid(c))
        <2>1. ASSUME WriteCapture(c) PROVE FALSE
            <3>1. ~\E response : Commit(c, response)
                BY <1>1, <2>1 DEF WriteCapture, Commit, NoCommit, Control, ControlOK
            <3> QED
                BY <1>1, <2>1, <3>1 DEF WriteCapture, ExplainResolve, Goto, Control
        <2>2. ASSUME WriteVoid(c) PROVE FALSE
            <3>1. ~\E response : Commit(c, response)
                BY <1>1, <2>2 DEF WriteVoid, Commit, NoCommit, Control, ControlOK
            <3> QED
                BY <1>1, <2>2, <3>1 DEF WriteVoid, ExplainResolve, Goto, Control
        <2> QED
            BY <2>1, <2>2
    <1>11. ~WriteDeposit(c)
        <2> SUFFICES ASSUME WriteDeposit(c) PROVE FALSE
            OBVIOUS
        <2>1. ~\E response : Commit(c, response)
            BY <1>1 DEF WriteDeposit, Commit, NoCommit, Control, ControlOK
        <2>2. RetryDeposit(c)
            BY <1>1, <2>1 DEF WriteDeposit, Goto, Control
        <2>3. Answer(c, InternalServerError)
            BY <1>1, <2>2 DEF RetryDeposit, Control
        <2> QED
            BY <1>1, <2>3 DEF Answer, Control
    <1>12. ~(WriteConflicts(c) \/ Resolve(c) \/ ReadStatus(c))
        <2>1. ~WriteConflicts(c)
            BY <1>1 DEF WriteConflicts, Answer, Control
        <2>2. ~Resolve(c)
            BY <1>1 DEF Resolve, Answer, Control, ReplaysReply, OpsAt
        <2>3. ~ReadStatus(c)
            <3> SUFFICES ASSUME ReadStatus(c) PROVE FALSE
                OBVIOUS
            <3>1. /\ pc[c] = "status" /\ r.op \in {"capture", "void"}
                  /\ r.target \in DOMAIN authorization
                  /\ image[c].authorization_id = r.target
                <4>1. pc[c] = "status" /\ r.op \in {"capture", "void"}
                    BY <1>1 DEF ReadStatus, OpsAt
                <4>2. PastHold(image[c], r.target)
                    BY <4>1 DEF ServiceInv, ItemsOK
                <4>3. r.target \in DOMAIN authorization
                    BY <4>2 DEF PastHold
                <4> QED
                    BY <1>1, <4>1, <4>2, <4>3, PastTerms
            <3> QED
                <4>1. CASE authorization[r.target].account_id = r.account
                               /\ authorization[r.target].status # "PENDING"
                    <5>1. reply'[c] = TerminalStatusError[authorization[r.target].status]
                        BY <1>1, <3>1, <4>1 DEF ReadStatus, Answer, Control
                    <5> QED
                        BY <3>1, <4>1, <5>1 DEF NamesStatus
                <4>2. CASE ~(authorization[r.target].account_id = r.account
                               /\ authorization[r.target].status # "PENDING")
                    <5>1. reply'[c] = InternalServerError
                        BY <1>1, <3>1, <4>2 DEF ReadStatus, Answer, Control
                    <5> QED
                        BY <5>1
                <4> QED
                    BY <4>1, <4>2
        <2> QED
            BY <2>1, <2>2, <2>3
    <1>13. ~(Receive(c) \/ Deliver(c) \/ Crash(c))
        BY <1>1 DEF Receive, Deliver, Crash, Control
    <1> QED
        BY <1>2, <1>3, <1>4, <1>5, <1>6, <1>7, <1>8, <1>9, <1>10, <1>11, <1>12, <1>13 DEF Own, Serve

\* A failure is a refusal where calls may fail.
LEMMA FailureIsAllowed ==
    ASSUME ~NeverFails, ServiceInv, NEW c \in Calls, Own(c),
           pc[c] \notin {"idle", "reply", "done"}, pc'[c] = "reply", NoCommit,
           reply'[c] = InternalServerError
    PROVE  Promise!Refuse(c)
    <1>1. Control /\ request[c] \in Requests /\ request[c].op \in OpsAt(pc[c])
        BY DEF ServiceInv, Control, ControlOK
    <1>2. request[c].op # "merchant"
        <2> SUFFICES ASSUME request[c].op = "merchant" PROVE FALSE
            OBVIOUS
        <2>1. pc[c] = "write"
            <3>1. pc[c] \in {"check", "merchant", "authorization", "account", "write", "resolve",
                             "status"}
                BY <1>1 DEF Control, Labels
            <3>2. OpsAt("check") = KeyedOps /\ OpsAt("resolve") = KeyedOps
                BY DEF OpsAt
            <3>3. /\ OpsAt("merchant") = {"authorize"} /\ OpsAt("account") = {"deposit"}
                  /\ OpsAt("authorization") = {"capture", "void"}
                  /\ OpsAt("status") = {"capture", "void"}
                BY DEF OpsAt
            <3> QED
                BY <1>1, <3>1, <3>2, <3>3 DEF KeyedOps
        <2>2. WriteMerchant(c)
            BY <1>1, <2>1 DEF Control, Own, Serve, Receive, RejectBody, MissingKey, CheckReplay, ReadMerchant,
               ReadAuthorization, ReadAccount, WriteAuthorization, WriteCapture, WriteVoid,
               WriteDeposit, WriteConflicts, Resolve, ReadStatus, Deliver, Crash
        <2>3. reply'[c].status_code \in {201, 400}
            <3>1. reply'[c] \in {Error(400, "MerchantAlreadyExists"),
                                 [status_code |-> 201,
                                  body |-> [merchant |-> request[c].merchant,
                                            payable_balance |-> 0]]}
                BY <1>1, <2>2 DEF WriteMerchant, Commit, Answer, Control
            <3> QED
                BY <3>1, ErrorIsNoSuccess
        <2> QED
            BY <2>3, ErrorIsNoSuccess DEF InternalServerError
    <1>3. "InternalServerError" \in Promise!Reasons(request[c])
        BY <1>2, TrueReasons
    <1> QED
        BY <1>3, Refusal DEF InternalServerError

\* A deposit has more attempts than it has rivals.
LEMMA FewerRivalsThanAttempts ==
    ASSUME FewRivals, NEW c \in Calls
    PROVE  Rivals(c) < MaxAttempts
    <1>1. IsFiniteSet(Calls \ {c}) /\ Cardinality(Calls \ {c}) = Cardinality(Calls) - 1
        BY FS_RemoveElement DEF FewRivals
    <1>2. /\ Cardinality(Committers(c)) <= Cardinality(Calls \ {c})
          /\ Cardinality(Expired) <= Cardinality(Sweepable)
        BY <1>1, FS_Subset DEF Committers, Expired, FewRivals
    <1>3. /\ Cardinality(Committers(c)) \in Nat /\ Cardinality(Expired) \in Nat
          /\ Cardinality(Calls) \in Nat /\ Cardinality(Sweepable) \in Nat
        BY RivalsAreFinite, FS_CardinalityType DEF FewRivals, FinitelyMany
    <1> QED
        BY <1>1, <1>2, <1>3, MaxAttemptsAssumption DEF FewRivals, Rivals

\* Where calls never fail, none of the causes of a failure is there.
LEMMA NoCause ==
    ASSUME NeverFails, ExplainedInv, AnswersInv, NEW c \in Calls
    PROVE  ~Cause(c)
    <1>1. FinitelyMany /\ ~StaleReads /\ ~Contention
        BY DEF NeverFails, FewRivals, FinitelyMany
    <1>2. ~InConflict(c)
        BY <1>1 DEF InConflict
    <1>3. ~OutOfAttempts(c)
        <2>1. Rivals(c) < MaxAttempts /\ Rivals(c) \in Nat /\ MaxAttempts \in Nat
            BY <1>1, FewerRivalsThanAttempts, RivalsAreFinite, MaxAttemptsAssumption DEF NeverFails
        <2> QED
            BY <1>1, <2>1 DEF OutOfAttempts
    <1>4. ~(pc[c] = "resolve" /\ RecordUnusable(c))
        <2> SUFFICES ASSUME pc[c] = "resolve", RecordUnusable(c) PROVE FALSE
            OBVIOUS
        <2>1. request[c] \in Requests /\ request[c].op \in KeyedOps
            BY DEF ExplainedInv, ServiceInv, Control, ControlOK, OpsAt
        <2>2. Seen(idem, replica.idem) = {idem}
            BY <1>1 DEF Seen
        <2>3. /\ request[c].key \in DOMAIN idem
              /\ request[c].op = "authorize"
              /\ ~IsAuthorizationBody(idem[request[c].key].response.body)
            BY <2>2 DEF RecordUnusable
        <2>4. Earned(request[c], idem[request[c].key].response.body, authorization)
            BY <2>1, <2>3 DEF AnswersInv, RecordsAnswer
        <2> QED
            BY <2>3, <2>4 DEF Earned, AnswersRequest
    <1> QED
        BY <1>2, <1>3, <1>4 DEF Cause

\* A replay tells of the effect that the key stands for.
LEMMA ReplayIsTrue ==
    ASSUME ServiceInv, LaggingRecords, NEW c \in Calls, Own(c),
           pc[c] \notin {"idle", "reply", "done"}, pc'[c] = "reply", ReplaysReply(c)
    PROVE  Promise!Replay(c)
    <1> DEFINE k == request[c].key
    <1>1. /\ request[c].op # "merchant" /\ k \in DOMAIN idem
          /\ reply'[c] = idem[k].response
        BY DEF ReplaysReply, Seen, LaggingRecords, KeyedOps
    <1>2. idem[k].response.status_code \in {200, 201} /\ idem[k].response # Nothing
        BY <1>1, StoredIsSuccess DEF ServiceInv, TypeOK
    <1>3. Told(c)' = Effects[k]
        BY <1>1, <1>2, ReplyOwn DEF Told, Effects
    <1>4. Promise!Tell(c, Effects[k])
        BY <1>3, Tells
    <1> QED
        BY <1>1, <1>4, TableStill DEF Promise!Replay, Promise!Keyed, Effects, ReplaysReply, NoCommit

--------------------------------------------------------------------------------
(* Effects.                                                                  *)

\* What a write works with.
LEMMA WriteTerms ==
    ASSUME ServiceInv, NEW c \in Calls, pc[c] = "write"
    PROVE  LET r == request[c]
           IN  /\ r.op \in KeyedOps => r.account \in Accounts /\ r.key \in Keys
               /\ r.op = "authorize" => r.merchant \in DOMAIN merchant /\ r.amount \in Amounts
               /\ r.op = "deposit" => r.amount \in Amounts
               /\ r.op = "merchant" => r.merchant \in Merchants
               /\ r.op \in {"capture", "void"} =>
                     /\ PastHold(image[c], r.target)
                     /\ image[c].account_id = r.account
                     /\ r.target \in DOMAIN authorization
                     /\ authorization[r.target].account_id = r.account
    <1> DEFINE r == request[c]
    <1>1. /\ r \in Requests
          /\ r.op # "merchant" => r.key \in Keys
        BY DEF ServiceInv, Control, ControlOK, Working
    <1>2. ASSUME r.op \in {"capture", "void"}
          PROVE  /\ PastHold(image[c], r.target) /\ image[c].account_id = r.account
                 /\ r.target \in DOMAIN authorization
                 /\ authorization[r.target].account_id = r.account
        <2>1. PastHold(image[c], r.target) /\ image[c].account_id = r.account
            BY <1>2 DEF ServiceInv, ItemsOK
        <2>2. r.target \in DOMAIN authorization
            BY <2>1 DEF PastHold
        <2> QED
            BY <2>1, <2>2, PastTerms DEF ServiceInv
    <1>3. r.op = "authorize" => r.merchant \in DOMAIN merchant
        BY DEF ServiceInv, ItemsOK
    <1> QED
        BY <1>1, <1>2, <1>3, RequestShape DEF KeyedOps

LEMMA CommitHasEffect ==
    ASSUME ServiceInv, PromiseInv, NEW c \in Calls, Own(c), committed'[c], ~committed[c],
           pc[c] = "write"
    PROVE  Promise!Effect(request[c])
    <1> DEFINE r == request[c]
    <1>1. TypeOK /\ ~NoCommit
        BY DEF ServiceInv, NoCommit
    <1>2. CASE WriteAuthorization(c)
        <2>1. r.op = "authorize"
            BY <1>2 DEF WriteAuthorization
        <2>2. PICK i \in AuthorizationIds, today \in Days :
                  InsertAuthorization(i, r.account, r.merchant, r.amount, today, r.key)
            BY <1>1, <1>2 DEF WriteAuthorization
        <2>3. Card!Reserve(i, r.account, r.merchant, r.amount, r.key)
            BY <2>1, <2>2, WriteTerms, ReserveStep DEF KeyedOps
        <2> QED
            BY <2>1, <2>3, SameReserve DEF Promise!Effect
    <1>3. CASE WriteCapture(c)
        <2>1. r.op = "capture"
            BY <1>3 DEF WriteCapture
        <2>2. PICK txn \in TransactionIds :
                  CaptureAuthorization(image[c], r.account, txn, r.key)
            BY <1>1, <1>3 DEF WriteCapture, ExplainResolve
        <2>3. /\ PastHold(image[c], r.target) /\ image[c].account_id = r.account
              /\ r.target \in DOMAIN authorization /\ r.key \in Keys
              /\ authorization[r.target].account_id = r.account
            BY <2>1, WriteTerms DEF KeyedOps
        <2>4. CaptureAuthorization(authorization[r.target], authorization[r.target].account_id,
                                   txn, r.key)
            BY <1>1, <2>2, <2>3, CaptureByImage
        <2>5. Card!Settle(r.target, r.key)
            BY <2>3, <2>4, SettleStep
        <2>6. Promise!Owns(r)
            BY <1>1, <2>3, HeldIsPending DEF Promise!Owns, PromiseInv, Holds
        <2> QED
            BY <2>1, <2>5, <2>6, SameSettle DEF Promise!Effect
    <1>4. CASE WriteVoid(c)
        <2>1. r.op = "void"
            BY <1>4 DEF WriteVoid
        <2>2. VoidAuthorization(image[c], r.account, r.key)
            BY <1>1, <1>4 DEF WriteVoid, ExplainResolve
        <2>3. /\ PastHold(image[c], r.target) /\ image[c].account_id = r.account
              /\ r.target \in DOMAIN authorization /\ r.key \in Keys
              /\ authorization[r.target].account_id = r.account
            BY <2>1, WriteTerms DEF KeyedOps
        <2>4. VoidAuthorization(authorization[r.target], authorization[r.target].account_id, r.key)
            BY <1>1, <2>2, <2>3, VoidByImage
        <2>5. Card!Release(r.target, r.key)
            BY <2>3, <2>4, ReleaseStep
        <2>6. Promise!Owns(r)
            BY <1>1, <2>3, HeldIsPending DEF Promise!Owns, PromiseInv, Holds
        <2> QED
            BY <2>1, <2>5, <2>6, SameRelease DEF Promise!Effect
    <1>5. CASE WriteDeposit(c)
        <2>1. r.op = "deposit"
            BY <1>5 DEF WriteDeposit
        <2>2. PICK txn \in TransactionIds : Deposit(r.account, r.amount, image[c], txn, r.key)
            BY <1>1, <1>5 DEF WriteDeposit
        <2>3. Card!Fund(r.account, r.amount, r.key)
            BY <2>1, <2>2, WriteTerms, FundStep DEF KeyedOps
        <2> QED
            BY <2>1, <2>3, SameFund DEF Promise!Effect
    <1>6. CASE WriteMerchant(c)
        <2>1. r.op = "merchant" /\ InsertMerchant(r.merchant)
            BY <1>1, <1>6 DEF WriteMerchant
        <2>2. Card!Enroll(r.merchant)
            BY <2>1, WriteTerms, EnrollStep
        <2> QED
            BY <2>1, <2>2, SameEnroll DEF Promise!Effect
    <1> QED
        BY <1>1, <1>2, <1>3, <1>4, <1>5, <1>6
        DEF Own, Serve, Receive, RejectBody, MissingKey, CheckReplay, ReadMerchant,
            ReadAuthorization, ReadAccount, WriteConflicts, Resolve, ReadStatus, Deliver, Crash

\* A commit takes effect and tells of it, in one step.
LEMMA CommitPerforms ==
    ASSUME ServiceInv, TypeOK', PromiseInv, NEW c \in Calls, Own(c), pc'[c] = "reply",
           CommitsReply(c)
    PROVE  Promise!Perform(c)
    <1> DEFINE r == request[c]
    <1>1. Promise!Effect(r)
        BY CommitHasEffect DEF CommitsReply
    <1>2. pc[c] = "write" /\ r \in Requests /\ request'[c] = r
        BY ReplyOwn DEF CommitsReply, ServiceInv, Control, ControlOK
    <1>3. CASE r.op = "merchant"
        <2>1. reply'[c] \in {Error(400, "MerchantAlreadyExists"),
                             [status_code |-> 201,
                              body |-> [merchant |-> r.merchant, payable_balance |-> 0]]}
            <3>1. WriteMerchant(c)
                BY <1>2, <1>3 DEF Own, Serve, Receive, RejectBody, MissingKey, CheckReplay,
                   ReadMerchant, ReadAuthorization, ReadAccount, WriteAuthorization, WriteCapture,
                   WriteVoid, WriteDeposit, WriteConflicts, Resolve, ReadStatus, Deliver, Crash,
                   CommitsReply, NoCommit
            <3> QED
                BY <3>1 DEF WriteMerchant, Commit, Answer, ServiceInv, Control
        <2>2. Told(c)' \in {<<"enrolled", r.merchant>>, <<"refused", "MerchantAlreadyExists">>}
            <3>1. CASE reply'[c] = Error(400, "MerchantAlreadyExists")
                BY <3>1, ErrorIsNoSuccess DEF Told, Error
            <3>2. CASE reply'[c] = [status_code |-> 201,
                                    body |-> [merchant |-> r.merchant, payable_balance |-> 0]]
                <4>1. reply'[c].status_code = 201 /\ reply'[c] # Nothing
                    BY <3>2 DEF Nothing
                <4> QED
                    BY <1>2, <1>3, <4>1 DEF Told
            <3> QED
                BY <2>1, <3>1, <3>2
        <2>3. Promise!Tell(c, Told(c)')
            BY <1>2, Tells
        <2> QED
            BY <1>1, <1>3, <2>2, <2>3 DEF Promise!Perform
    <1>4. CASE r.op # "merchant"
        <2>1. r.key \in DOMAIN idem' /\ idem'[r.key].response = reply'[c]
            BY <1>2, <1>4, RequestShape DEF CommitsReply
        <2>2. reply'[c].status_code \in {200, 201} /\ reply'[c] # Nothing
            <3>1. idem'[r.key] \in RecordType
                BY <2>1 DEF TypeOK
            <3> QED
                BY <2>1, <3>1, StoredIsSuccess
        <2>3. Told(c)' = Effects'[r.key]
            BY <1>2, <1>4, <2>1, <2>2 DEF Told, Effects
        <2>4. Promise!Tell(c, Effects'[r.key])
            BY <1>2, <2>3, Tells
        <2> QED
            BY <1>1, <1>4, <2>4 DEF Promise!Perform
    <1> QED
        BY <1>3, <1>4

--------------------------------------------------------------------------------
(* Every step of the service is one of the promise, or does not show.        *)

\* A call that is not done answering stays so, and its answer exists.
LEMMA UnansweredBefore ==
    ASSUME ServiceInv, NEW c \in Calls, Own(c), pc'[c] \notin {"reply", "done"}
    PROVE  pc[c] \notin {"reply", "done"}
    <1>1. Control
        BY DEF ServiceInv
    <1> QED
        BY <1>1 DEF Own, Serve, Receive, RejectBody, MissingKey, CheckReplay, ReadMerchant,
           ReadAuthorization, ReadAccount, WriteAuthorization, WriteCapture, WriteVoid,
           WriteDeposit, WriteMerchant, WriteConflicts, Resolve, ReadStatus, Deliver, Crash,
           Control

LEMMA AnswerIsThere ==
    ASSUME ServiceInv, TypeOK', NEW c \in Calls, Own(c),
           pc[c] \notin {"idle", "reply", "done"}, pc'[c] = "reply"
    PROVE  reply'[c] # Nothing
    <1>1. request[c] \in Requests
        BY DEF ServiceInv, Control, ControlOK
    <1> QED
        BY <1>1, ReplyOwn, ReplyKinds, RequestShape DEF CommitsReply

\* A step of a call is the promise's, or does not show.
LEMMA CallIsPromiseStep ==
    ASSUME ServiceInv, LaggingRecords, TypeOK', PromiseInv, NEW c \in Calls, Own(c),
           NeverFails /\ pc[c] # "reply" /\ pc'[c] = "reply" => reply'[c] # InternalServerError
    PROVE  [Promise!ServiceNext]_(Promise!serviceVars)
    <1>1. /\ Control /\ DOMAIN request = Calls
          /\ Promise!Ask(c) \/ Promise!Lose(c) \/ (request[c] # Nothing /\ Promise!Answer(c))
                => Promise!ServiceNext
        BY DEF ServiceInv, Control, Promise!ServiceNext, Nothing
    <1>2. \A d \in Calls \ {c} : Told(d)' = Told(d) /\ request'[d] = request[d]
        BY ToldKept
    <1>3. CASE Receive(c)
        <2>1. /\ NoCommit /\ request[c] = Nothing
              /\ \E r \in Requests : request' = [request EXCEPT ![c] = r]
              /\ Told(c) = Nothing /\ Told(c)' = Nothing
            BY <1>1, <1>3 DEF Receive, Control, ControlOK, Told
        <2>2. AllTold' = AllTold
            BY <1>2, <2>1 DEF AllTold
        <2>3. Promise!Ask(c)
            BY <2>1, <2>2, TableStill DEF Promise!Ask, AllTold, NoCommit, Nothing
        <2> QED
            BY <1>1, <2>3
    <1>4. CASE ~Receive(c)
        <2>1. pc[c] # "idle" /\ request[c] # Nothing
            BY <1>1, <1>4 DEF Own, Serve, RejectBody, MissingKey, CheckReplay, ReadMerchant,
               ReadAuthorization, ReadAccount, WriteAuthorization, WriteCapture, WriteVoid,
               WriteDeposit, WriteMerchant, WriteConflicts, Resolve, ReadStatus, Deliver, Crash,
               Control, ControlOK
        <2>2. request' = request
            <3>1. request'[c] = request[c]
                BY <2>1, ReplyOwn
            <3>2. DOMAIN request = Calls /\ request' \in [Calls -> Requests \cup {Nothing}]
                BY <1>1, ControlStep, OwnIsNext DEF Control
            <3> QED
                BY <1>1, <1>2, <3>1, <3>2 DEF Control
        <2>3. CASE pc'[c] = "reply" /\ pc[c] \notin {"idle", "reply", "done"}
            <3>1. RefusesReply(c) /\ reply'[c] = InternalServerError => Promise!Refuse(c)
                BY <2>3, FailureIsAllowed DEF RefusesReply
            <3>2. Promise!Perform(c) \/ Promise!Replay(c) \/ Promise!Refuse(c)
                BY <2>3, <3>1, ReplyOwn, CommitPerforms, ReplayIsTrue, StatusIsTrue, RefusalIsTrue
                DEF PromiseInv, RefusesReply
            <3> QED
                BY <1>1, <2>1, <3>2 DEF Promise!Answer
        <2>4. CASE pc'[c] = "done" /\ reply'[c] = Nothing /\ NoCommit
            <3>1. Told(c)' = <<"lost">>
                BY <2>4 DEF Told
            <3>2. AllTold' = [AllTold EXCEPT ![c] = <<"lost">>]
                BY <1>2, <3>1 DEF AllTold
            <3>3. Promise!Lose(c)
                BY <2>1, <2>2, <2>4, <3>2, TableStill DEF Promise!Lose, AllTold, NoCommit, Nothing
            <3> QED
                BY <1>1, <3>3
        <2>5. CASE /\ NoCommit
                   /\ \/ pc'[c] \notin {"reply", "done"}
                      \/ pc[c] = "reply" /\ pc'[c] = "done" /\ reply'[c] = reply[c]
            <3>1. Told(c)' = Told(c)
                BY <2>2, <2>5, UnansweredBefore DEF Told
            <3>2. AllTold' = AllTold
                BY <1>2, <3>1 DEF AllTold
            <3> QED
                BY <2>2, <2>5, <3>2, TableStill DEF Promise!serviceVars, AllTold, NoCommit
        <2> QED
            BY <2>3, <2>4, <2>5, ReplyOwn
    <1> QED
        BY <1>3, <1>4

\* Sign-ups open accounts and the sweeper lets holds expire; no client is told.
LEMMA OtherIsPromiseStep ==
    ASSUME RecordsLapse = FALSE, ServiceInv, PromiseInv,
           [ServiceNext]_vars, ~\E c \in Calls : Own(c)
    PROVE  [Promise!ServiceNext]_(Promise!serviceVars)
    <1>1. UNCHANGED <<request, AllTold>>
        <2>1. UNCHANGED callVars
            BY OtherSteps DEF Own
        <2> QED
            BY <2>1 DEF callVars, AllTold, Told
    <1>2. CASE UNCHANGED tableVars
        BY <1>1, <1>2, TableStill DEF Promise!serviceVars, AllTold
    <1>3. CASE \E a \in Accounts : InsertAccount(a)
        BY <1>1, <1>3, OpenStep, SameOpen DEF Promise!ServiceNext, AllTold
    <1>4. CASE Sweep
        <2>1. PICK i \in DOMAIN authorization : ExpireHold(authorization[i])
            BY <1>4 DEF Sweep, ExpireStep
        <2>2. i \in AuthorizationIds
            BY DEF ServiceInv, TypeOK
        <2>3. Promise!Expire(i)
            BY <2>1, ExpiryStep, SameExpire
        <2> QED
            BY <1>1, <2>2, <2>3 DEF Promise!ServiceNext, AllTold
    <1>5. UNCHANGED tableVars \/ (\E a \in Accounts : InsertAccount(a)) \/ Sweep
        BY DEF ServiceNext, Finished, SignUp, SignupStep, Confirm, Run, Insert, LoseContact,
           WakeUp, TimeOut, Replicate, Lapse, vars, Own
    <1> QED
        BY <1>2, <1>3, <1>4, <1>5

\* A step of anyone is the promise's, or does not show.
LEMMA StepIsPromiseStep ==
    ASSUME Balances = Int, RecordsLapse = FALSE, ServiceInv, LaggingRecords, PromiseInv,
           [ServiceNext]_vars,
           NeverFails => ExplainedInv /\ AnswersInv
    PROVE  [Promise!ServiceNext]_(Promise!serviceVars)
    <1>1. TypeOK'
        BY ServiceInvStep DEF ServiceInv
    <1>2. ASSUME NEW c \in Calls, Own(c)
          PROVE  [Promise!ServiceNext]_(Promise!serviceVars)
        <2>1. ASSUME NeverFails, pc[c] # "reply", pc'[c] = "reply"
              PROVE  reply'[c] # InternalServerError
            <3>1. FinitelyMany /\ ~Cause(c)
                BY <2>1, NoCause DEF NeverFails, FewRivals, FinitelyMany
            <3> QED
                BY <2>1, <3>1, FailingStep
        <2> QED
            BY <1>1, <1>2, <2>1, CallIsPromiseStep
    <1>3. CASE ~\E c \in Calls : Own(c)
        BY <1>3, OtherIsPromiseStep
    <1> QED
        BY <1>2, <1>3

\* While records live, every call is as good as one step of CardService:
\* whatever its handler reads, loses and reads again (idempotency.py:85-170,
\* ledger.py:151-258, 319-635), it takes effect at one moment and tells of it, or
\* tells of the effect its key stands for, or refuses for a reason that holds
\* when it does.  Reads may lag, transactions conflict and clients share keys:
\* that shows only as a lookup that misses what is there, or as a 500 that
\* leaves no effect of the call it is told to.  Where they do not (NeverFails),
\* no call is told 500.
THEOREM EveryCallIsOneStep ==
    ASSUME Balances = Int, RecordsLapse = FALSE
    PROVE  ServiceSpec => CallsAreAtomic
    <1>1. CASE ~NeverFails
        <2> DEFINE Inv == ServiceInv /\ LaggingRecords /\ PromiseInv
        <2>1. ServiceInit => Inv
            BY ServiceInvInit, KeysInit, PromiseInit DEF ServiceInit, KeysInv
        <2>2. Inv /\ [ServiceNext]_vars => Inv'
            BY ServiceInvStep, LaggingRecordsStep, PromiseInvStep DEF ServiceInv
        <2>3. Inv /\ [ServiceNext]_vars => [Promise!ServiceNext]_(Promise!serviceVars)
            BY <1>1, StepIsPromiseStep
        <2> QED
            BY <2>1, <2>2, <2>3, PTL DEF ServiceSpec, CallsAreAtomic
    <1>2. CASE NeverFails
        <2> DEFINE Inv == ExplainedInv /\ AnswersInv /\ PromiseInv
        <2>1. FinitelyMany /\ KeysAreOwn
            BY <1>2 DEF NeverFails, FewRivals, FinitelyMany
        <2>2. ServiceInit => Inv
            BY <2>1, ExplainedInvInit, AnswersInit, PromiseInit DEF ServiceInit
        <2>3. Inv /\ [ServiceNext]_vars => Inv'
            BY <2>1, ExplainedInvStep, AnswersStep, ServiceInvStep, PromiseInvStep
               DEF ExplainedInv, ServiceInv
        <2>4. Inv /\ [ServiceNext]_vars => [Promise!ServiceNext]_(Promise!serviceVars)
            BY <1>2, StepIsPromiseStep DEF ExplainedInv
        <2> QED
            BY <2>2, <2>3, <2>4, PTL DEF ServiceSpec, CallsAreAtomic
    <1> QED
        BY <1>1, <1>2

================================================================================
