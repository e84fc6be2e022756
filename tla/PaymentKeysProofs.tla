--------------------------- MODULE PaymentKeysProofs ---------------------------
(***************************************************************************)
(* Theorems about what an idempotency key stands for in PaymentService:    *)
(* while its record lives, one effect and one answer, whichever calls the  *)
(* client sends and wherever they die.                                     *)
(***************************************************************************)
EXTENDS PaymentAnswersProofs

--------------------------------------------------------------------------------
(* Records.                                                                  *)

\* Nothing but its TTL removes a record or changes it.
LEMMA RecordsStand ==
    ASSUME RecordsLapse = FALSE, [ServiceNext]_vars, NEW k \in DOMAIN idem
    PROVE  k \in DOMAIN idem' /\ idem'[k] = idem[k]
    <1>1. CASE UNCHANGED idem
        BY <1>1
    <1>2. ASSUME NEW l, NEW record, l \notin DOMAIN idem, idem' = Put(idem, l, record)
          PROVE  k \in DOMAIN idem' /\ idem'[k] = idem[k]
        BY <1>2 DEF Put
    <1>3. ASSUME NEW c \in Calls, Own(c)
          PROVE  idem' = idem \/ \E l : \E record : l \notin DOMAIN idem /\ idem' = Put(idem, l, record)
        <2>1. CASE WriteAuthorization(c)
            BY <2>1 DEF WriteAuthorization, InsertAuthorization, AuthorizeReasons, Failed,
                        KeyUnused, NoCommit, tableVars
        <2>2. CASE WriteCapture(c)
            BY <2>2 DEF WriteCapture, CaptureAuthorization, CaptureReasons, Failed, KeyUnused,
                        ExplainResolve, NoCommit, tableVars
        <2>3. CASE WriteVoid(c)
            BY <2>3 DEF WriteVoid, VoidAuthorization, VoidReasons, Failed, KeyUnused,
                        ExplainResolve, NoCommit, tableVars
        <2>4. CASE WriteDeposit(c)
            BY <2>4 DEF WriteDeposit, Deposit, DepositReasons, Failed, KeyUnused,
                        NoCommit, tableVars
        <2>5. CASE WriteMerchant(c)
            BY <2>5 DEF WriteMerchant, InsertMerchant, NoCommit, tableVars
        <2>6. CASE NoCommit
            BY <2>6 DEF NoCommit, tableVars
        <2> QED
            BY <1>3, <2>1, <2>2, <2>3, <2>4, <2>5, <2>6
               DEF Own, Serve, Receive, RejectBody, MissingKey, CheckReplay, ReadMerchant,
               ReadAuthorization, ReadAccount, WriteConflicts, Resolve, ReadStatus, Deliver, Crash
    <1>4. CASE \E s \in Signups : SignUp(s)
        BY <1>1, <1>4 DEF SignUp, SignupStep, Confirm, Run, Insert, LoseContact, WakeUp, TimeOut,
                    InsertAccount, tableVars
    <1>5. CASE Sweep \/ Lapse \/ Finished \/ (\E kind \in DOMAIN replica : Replicate(kind))
               \/ UNCHANGED vars
        BY <1>1, <1>5 DEF Sweep, ExpireStep, ExpireHold, Lapse, Finished, Replicate, vars, tableVars
    <1> QED
        BY <1>1, <1>2, <1>3, <1>4, <1>5 DEF ServiceNext, Own

\* A lagging read of the records shows some of them, as they are.
LaggingRecords ==
    \A k \in DOMAIN replica.idem : k \in DOMAIN idem /\ replica.idem[k] = idem[k]

LEMMA LaggingRecordsStep ==
    ASSUME RecordsLapse = FALSE, ServiceInv, LaggingRecords, [ServiceNext]_vars
    PROVE  LaggingRecords'
    <1>1. CASE replica' = replica
        BY <1>1, RecordsStand DEF LaggingRecords
    <1>2. CASE \E kind \in DOMAIN replica : Replicate(kind)
        <2> PICK kind \in DOMAIN replica : Replicate(kind)
            BY <1>2
        <2>1. Current.idem = idem /\ idem' = idem
            BY DEF Current, Replicate, tableVars
        <2>2. replica'.idem \in {replica.idem, idem}
            BY <2>1 DEF Replicate, ServiceInv, ReplicasOK
        <2> QED
            BY <2>1, <2>2 DEF LaggingRecords
    <1>3. CASE \E c \in Calls : Own(c)
        <2>1. replica' = replica
            BY <1>3 DEF Own, Receive, Serve, Crash, RejectBody, MissingKey, CheckReplay,
               ReadMerchant, ReadAuthorization, ReadAccount, WriteAuthorization, WriteCapture,
               WriteVoid, WriteDeposit, WriteMerchant, WriteConflicts, Resolve, ReadStatus, Deliver
        <2> QED
            BY <1>1, <2>1
    <1>4. CASE Finished \/ (\E s \in Signups : SignUp(s)) \/ Sweep \/ Lapse \/ UNCHANGED vars
        BY <1>1, <1>4 DEF Finished, SignUp, Sweep, Lapse, vars
    <1> QED
        BY <1>2, <1>3, <1>4 DEF ServiceNext, Own

--------------------------------------------------------------------------------
(* One effect and one answer.                                                *)

\* What a call took effect under, or was told a success under, is on record.
OnRecord(c) ==
    Keyed(c) =>
        /\ committed[c] => request[c].key \in DOMAIN idem
        /\ Succeeded(c) => /\ request[c].key \in DOMAIN idem
                           /\ reply[c] = idem[request[c].key].response

KeysInv ==
    /\ LaggingRecords
    /\ \A c \in Calls : OnRecord(c)
    /\ OneEffectPerKey

LEMMA KeyedOp ==
    ASSUME ServiceInv, NEW c \in Calls, Keyed(c)
    PROVE  request[c].op \in KeyedOps
    BY RequestShape DEF ServiceInv, Control, ControlOK, Keyed

\* A call that keeps its request, commit and answer stays on record.
LEMMA OnRecordKept ==
    ASSUME RecordsLapse = FALSE, [ServiceNext]_vars, NEW d \in Calls, OnRecord(d),
           pc[d] # "idle", request'[d] = request[d], committed'[d] = committed[d],
           Succeeded(d)' => Succeeded(d) /\ reply'[d] = reply[d]
    PROVE  OnRecord(d)'
    BY RecordsStand DEF OnRecord, Keyed

LEMMA OnRecordOwn ==
    ASSUME Balances = Int, RecordsLapse = FALSE, ServiceInv, KeysInv, [ServiceNext]_vars,
           NEW c \in Calls, Own(c)
    PROVE  OnRecord(c)'
    <1>1. /\ TypeOK' /\ Control'
          /\ committed \in [Calls -> BOOLEAN]
          /\ OnRecord(c) /\ LaggingRecords
          /\ committed[c] => pc[c] \in {"reply", "done"}
          /\ committed'[c] => pc'[c] \in {"reply", "done"}
        BY ServiceInvStep DEF ServiceInv, Control, ControlOK, KeysInv
    <1>2. CASE pc'[c] \notin {"reply", "done"}
        BY <1>1, <1>2 DEF OnRecord, Succeeded, Replied
    <1>3. CASE pc'[c] = "done" /\ reply'[c] = Nothing /\ NoCommit
        <2>1. ~Succeeded(c)'
            BY <1>3 DEF Succeeded, Replied
        <2>2. CASE pc[c] = "idle"
            BY <1>1, <1>3, <2>1, <2>2 DEF OnRecord, NoCommit
        <2>3. CASE pc[c] # "idle"
            BY <1>1, <1>3, <2>1, <2>3, ReplyOwn, OnRecordKept DEF NoCommit
        <2> QED
            BY <2>2, <2>3
    <1>4. CASE pc[c] = "reply" /\ pc'[c] = "done" /\ reply'[c] = reply[c] /\ NoCommit
        <2>1. Succeeded(c)' => Succeeded(c)
            BY <1>4 DEF Succeeded, Replied
        <2> QED
            BY <1>1, <1>4, <2>1, ReplyOwn, OnRecordKept DEF NoCommit
    <1>5. CASE pc'[c] = "reply" /\ pc[c] \notin {"idle", "reply", "done"}
        <2>1. /\ request'[c] = request[c] /\ ~committed[c]
              /\ CommitsReply(c) \/ ReplaysReply(c) \/ NamesStatus(c) \/ RefusesReply(c)
            BY <1>1, <1>5, ReplyOwn
        <2>2. CASE CommitsReply(c)
            BY <1>5, <2>1, <2>2, KeyedOp DEF CommitsReply, OnRecord, Keyed
        <2>3. CASE ReplaysReply(c)
            <3> PICK records \in Seen(idem, replica.idem) :
                     /\ request[c].key \in DOMAIN records
                     /\ reply'[c] = records[request[c].key].response
                BY <2>3 DEF ReplaysReply
            <3>1. request[c].key \in DOMAIN idem /\ records[request[c].key] = idem[request[c].key]
                BY <1>1 DEF Seen, LaggingRecords
            <3> QED
                BY <2>1, <2>3, <3>1 DEF ReplaysReply, OnRecord, NoCommit, tableVars
        <2>4. CASE NamesStatus(c) \/ RefusesReply(c)
            <3>1. ~Succeeded(c)'
                BY <1>1, <2>4, ReplyKinds DEF Succeeded
            <3>2. committed'[c] = committed[c]
                BY <2>4 DEF NamesStatus, RefusesReply, NoCommit
            <3> QED
                BY <2>1, <3>1, <3>2 DEF OnRecord
        <2> QED
            BY <2>1, <2>2, <2>3, <2>4
    <1> QED
        BY <1>2, <1>3, <1>4, <1>5, ReplyOwn

LEMMA KeysStep ==
    ASSUME Balances = Int, RecordsLapse = FALSE, ServiceInv, KeysInv, [ServiceNext]_vars
    PROVE  KeysInv'
    <1>1. Control /\ committed \in [Calls -> BOOLEAN]
        BY DEF ServiceInv, Control
    <1>2. LaggingRecords'
        BY LaggingRecordsStep DEF KeysInv
    <1>3. ASSUME NEW d \in Calls, pc'[d] = pc[d], request'[d] = request[d], reply'[d] = reply[d],
                 committed'[d] = committed[d]
          PROVE  OnRecord(d)'
        <2>1. Succeeded(d)' => Succeeded(d)
            BY <1>3 DEF Succeeded, Replied
        <2>2. CASE pc[d] = "idle"
            BY <1>3, <2>2 DEF OnRecord, Keyed
        <2>3. CASE pc[d] # "idle"
            BY <1>3, <2>1, <2>3, OnRecordKept DEF KeysInv
        <2> QED
            BY <2>2, <2>3
    <1>4. \A d \in Calls : OnRecord(d)'
        <2>1. ASSUME NEW c \in Calls, Own(c), NEW d \in Calls
              PROVE  OnRecord(d)'
            <3>1. CASE d = c
                BY <2>1, <3>1, OnRecordOwn
            <3>2. CASE d # c
                BY <1>1, <1>3, <2>1, <3>2, OthersKept DEF Own
            <3> QED
                BY <3>1, <3>2
        <2>2. CASE UNCHANGED callVars
            BY <1>3, <2>2 DEF callVars
        <2> QED
            BY <2>1, <2>2, OtherSteps DEF Own
    <1>5. ASSUME NEW c \in Calls, NEW d \in Calls, c # d, Keyed(c)', Keyed(d)',
                 committed'[c], committed'[d], ~committed[c]
          PROVE  request'[c].key # request'[d].key
        <2>1. Own(c) /\ request'[c] = request[c] /\ CommitsReply(c)
            BY <1>5, CommitStep
        <2>2. committed[d]
            BY <1>1, <1>5, <2>1, OthersKept DEF Own
        <2>3. request'[d] = request[d] /\ pc[d] # "idle"
            BY <2>2, CommittedStays
        <2>4. request[d].key \in DOMAIN idem
            BY <1>5, <2>2, <2>3 DEF KeysInv, OnRecord, Keyed
        <2>5. request[c].key \notin DOMAIN idem
            <3>1. Keyed(c)
                BY <1>5, <2>1 DEF CommitsReply, Keyed
            <3> QED
                BY <2>1, <3>1, KeyedOp DEF CommitsReply
        <2> QED
            BY <2>1, <2>3, <2>4, <2>5
    <1>6. OneEffectPerKey'
        <2> SUFFICES ASSUME NEW c \in Calls, NEW d \in Calls, c # d, Keyed(c)', Keyed(d)',
                            committed'[c], committed'[d]
                     PROVE  request'[c].key # request'[d].key
            BY DEF OneEffectPerKey
        <2>1. CASE committed[c] /\ committed[d]
            BY <2>1, CommittedStays DEF KeysInv, OneEffectPerKey, Keyed
        <2>2. CASE ~committed[c]
            BY <1>5, <2>2
        <2>3. CASE ~committed[d]
            BY <1>5, <2>3
        <2> QED
            BY <2>1, <2>2, <2>3
    <1> QED
        BY <1>2, <1>4, <1>6 DEF KeysInv

LEMMA KeysInit == ServiceInit => KeysInv
    BY DEF ServiceInit, TableInit, CallInit, KeysInv, LaggingRecords, Current, OnRecord, Keyed,
           OneEffectPerKey

\* While its record lives a key has one effect, however often the client sends
\* it and wherever its earlier calls died (attribute_not_exists on the IDEM# Put,
\* idempotency.py:134).  No record reaches its TTL: retries come within its day.
THEOREM OneEffectForEachKey ==
    ASSUME Balances = Int, RecordsLapse = FALSE
    PROVE  ServiceSpec => []OneEffectPerKey
    <1>1. ServiceInit => ServiceInv /\ KeysInv
        BY ServiceInvInit, KeysInit
    <1>2. ServiceInv /\ KeysInv /\ [ServiceNext]_vars => ServiceInv' /\ KeysInv'
        BY ServiceInvStep, KeysStep
    <1>3. KeysInv => OneEffectPerKey
        BY DEF KeysInv
    <1> QED
        BY <1>1, <1>2, <1>3, PTL DEF ServiceSpec

\* Every success told under one key is the same response: the one its effect
\* recorded, whether it comes from the call that took effect, from the lookup
\* that opens a retry (idempotency.py:101-105) or from the loser's re-read
\* (idempotency.py:166-170), and however that read lags.
THEOREM OneAnswerForEachKey ==
    ASSUME Balances = Int, RecordsLapse = FALSE
    PROVE  ServiceSpec => []SameKeySameAnswer
    <1>1. ServiceInit => ServiceInv /\ KeysInv
        BY ServiceInvInit, KeysInit
    <1>2. ServiceInv /\ KeysInv /\ [ServiceNext]_vars => ServiceInv' /\ KeysInv'
        BY ServiceInvStep, KeysStep
    <1>3. KeysInv => SameKeySameAnswer
        BY DEF KeysInv, OnRecord, SameKeySameAnswer
    <1> QED
        BY <1>1, <1>2, <1>3, PTL DEF ServiceSpec

--------------------------------------------------------------------------------
(* A client's own capture or void is no conflict.                            *)

\* A handler reads the status only when its key had no record and its hold was
\* no longer PENDING.
LEMMA EntersStatus ==
    ASSUME ServiceInv, NEW c \in Calls, Own(c), pc'[c] = "status"
    PROVE  /\ pc[c] = "write" /\ request[c].op \in {"capture", "void"}
           /\ request'[c] = request[c]
           /\ authorization' = authorization
           /\ request[c].key \notin DOMAIN idem
           /\ request[c].target \in DOMAIN authorization
           /\ authorization[request[c].target].status # "PENDING"
    <1>1. Control /\ TypeOK
        BY DEF ServiceInv
    <1>2. WriteCapture(c) \/ WriteVoid(c)
        <2>1. ~(Receive(c) \/ RejectBody(c) \/ MissingKey(c) \/ CheckReplay(c) \/ ReadMerchant(c)
                \/ ReadAuthorization(c) \/ ReadAccount(c))
            BY <1>1 DEF Receive, RejectBody, MissingKey, CheckReplay, ReadMerchant,
               ReadAuthorization, ReadAccount, Goto, Answer, FirstRead, Control
        <2>2. ~(WriteAuthorization(c) \/ WriteDeposit(c) \/ WriteMerchant(c) \/ WriteConflicts(c))
            BY <1>1 DEF WriteAuthorization, WriteDeposit, WriteMerchant, WriteConflicts,
               Goto, Answer, Commit, RetryDeposit, Control
        <2>3. ~(Resolve(c) \/ ReadStatus(c) \/ Deliver(c) \/ Crash(c))
            BY <1>1 DEF Resolve, ReadStatus, Deliver, Crash, Answer, Control
        <2> QED
            BY <2>1, <2>2, <2>3 DEF Own, Serve
    <1>3. pc[c] = "write" /\ request[c].op \in {"capture", "void"}
        BY <1>2 DEF WriteCapture, WriteVoid
    <1>4. /\ image[c].authorization_id = request[c].target
          /\ request[c].target \in DOMAIN authorization
          /\ authorization[request[c].target].account_id = request[c].account
        <2>1. /\ PastHold(image[c], request[c].target)
              /\ image[c].account_id = request[c].account
            BY <1>3 DEF ServiceInv, ItemsOK
        <2>2. request[c].target \in DOMAIN authorization
            BY <2>1 DEF PastHold
        <2> QED
            BY <1>1, <2>1, <2>2, PastTerms
    <1>5. /\ Goto(c, "status") /\ NoCommit
          /\ ~StillPending(image[c].authorization_id, request[c].account)
          /\ KeyUnused(request[c].key)
        BY <1>1, <1>2 DEF WriteCapture, WriteVoid, ExplainResolve, Goto, Commit, Answer, Control,
           CaptureReasons, VoidReasons, Failed
    <1> QED
        BY <1>3, <1>4, <1>5 DEF Goto, NoCommit, tableVars, KeyUnused, StillPending

\* While a handler is about to name the status of its hold, or has named it,
\* no call with the same request has committed.
Conflicted(d) == Replied(d) /\ reply[d].status_code = 409

OwnWork(c, d) ==
    Resolving(c) /\ Resolving(d) /\ committed[c] /\ request[c] = request[d]
        => pc[d] # "status" /\ ~Conflicted(d)

OwnWorkInv ==
    /\ \A d \in Calls : pc[d] = "status" => authorization[request[d].target].status # "PENDING"
    /\ \A c, d \in Calls : OwnWork(c, d)

\* The hold of a call that commits now is PENDING, so none of its equals has
\* found it otherwise.
LEMMA OwnWorkCommit ==
    ASSUME ServiceInv, TrueConflicts, OwnWorkInv,
           NEW c \in Calls, Own(c), Resolving(c), committed'[c], ~committed[c],
           NEW d \in Calls, Resolving(d), request[c] = request[d]
    PROVE  pc[d] # "status" /\ ~Conflicted(d)
    <1>1. authorization[request[d].target].status = "PENDING"
        BY CommitResolves
    <1> QED
        BY <1>1 DEF TrueConflicts, TrueConflict, OwnWorkInv, Conflicted

\* A call that comes to its status, or answers from it, has no committed equal.
LEMMA OwnWorkConflict ==
    ASSUME Balances = Int, RecordsLapse = FALSE, ServiceInv, KeysInv, OwnWorkInv,
           [ServiceNext]_vars, NEW c \in Calls, NEW d \in Calls,
           Winner(c), Own(d), Resolving(d), request'[d] = request[d], request[c] = request[d]
    PROVE  pc'[d] # "status" /\ ~Conflicted(d)'
    <1>1. TypeOK' /\ Control
        BY ServiceInvStep DEF ServiceInv
    <1>2. pc'[d] # "status"
        BY EntersStatus DEF KeysInv, OnRecord, Winner, Resolving
    <1>3. pc[d] # "status" /\ ~Conflicted(d)
        BY DEF OwnWorkInv, OwnWork, Winner
    <1>4. ASSUME Conflicted(d)' PROVE FALSE
        <2>1. ~(pc[d] = "reply" /\ pc'[d] = "done" /\ reply'[d] = reply[d])
            BY <1>3, <1>4 DEF Conflicted, Replied
        <2>2. CommitsReply(d) \/ ReplaysReply(d) \/ NamesStatus(d) \/ RefusesReply(d)
            BY <1>4, <2>1, ReplyOwn DEF Conflicted, Replied
        <2>3. request[d].op \in KeyedOps /\ request[d].op \in {"capture", "void"}
            BY KeyedOp DEF Resolving
        <2> QED
            BY <1>1, <1>3, <1>4, <2>2, <2>3, ReplyKinds DEF NamesStatus, Conflicted
    <1> QED
        BY <1>2, <1>4

LEMMA OwnWorkStep ==
    ASSUME Balances = Int, RecordsLapse = FALSE, ServiceInv, TrueConflicts, KeysInv, OwnWorkInv,
           [ServiceNext]_vars
    PROVE  OwnWorkInv'
    <1>1. TypeOK /\ TypeOK' /\ Control /\ Control' /\ [TableNext]_tableVars
        BY ServiceInvStep DEF ServiceInv
    <1>2. ASSUME NEW d \in Calls, pc[d] = "status", request'[d] = request[d]
          PROVE  authorization'[request'[d].target].status # "PENDING"
        <2>1. request[d].target \in DOMAIN authorization
            BY <1>1, <1>2 DEF ServiceInv, ItemsOK, PastHold, Control, ControlOK, OpsAt
        <2> QED
            BY <1>1, <1>2, <2>1, StatusIsFinal DEF OwnWorkInv
    <1>3. ASSUME NEW d \in Calls, pc'[d] = "status"
          PROVE  authorization'[request'[d].target].status # "PENDING"
        <2>1. CASE Own(d)
            BY <1>3, <2>1, EntersStatus
        <2>2. CASE \E c \in Calls : c # d /\ Own(c)
            BY <1>1, <1>2, <1>3, <2>2, OthersKept DEF Own
        <2>3. CASE UNCHANGED callVars
            BY <1>2, <1>3, <2>3 DEF callVars
        <2> QED
            BY <2>1, <2>2, <2>3, OtherSteps DEF Own
    <1>4. ASSUME NEW c \in Calls, NEW d \in Calls, Winner(c)', Resolving(d)',
                 request'[c] = request'[d]
          PROVE  pc'[d] # "status" /\ ~Conflicted(d)'
        <2>1. ASSUME pc'[d] = pc[d], reply'[d] = reply[d], request'[d] = request[d]
              PROVE  pc'[d] # "status" /\ ~Conflicted(d)'
            <3>1. Resolving(d) /\ (Conflicted(d)' <=> Conflicted(d))
                BY <1>4, <2>1 DEF Resolving, Keyed, Conflicted, Replied
            <3>2. CASE Winner(c)
                <4>1. request'[c] = request[c]
                    BY <3>2, CommittedStays DEF Winner
                <4> QED
                    BY <1>4, <2>1, <3>1, <3>2, <4>1 DEF OwnWorkInv, OwnWork, Winner
            <3>3. CASE ~Winner(c)
                BY <1>4, <2>1, <3>1, <3>3, WinnersAfter, OwnWorkCommit
            <3> QED
                BY <3>2, <3>3
        <2>2. CASE Own(d)
            <3>1. CASE pc[d] = "idle"
                <4>1. pc'[d] # "status"
                    BY <2>2, <3>1, EntersStatus
                <4>2. ~Conflicted(d)'
                    BY <2>2, <3>1, ReplyOwn DEF Conflicted, Replied
                <4> QED
                    BY <4>1, <4>2
            <3>2. CASE pc[d] # "idle"
                <4>1. request'[d] = request[d] /\ Resolving(d)
                    BY <1>4, <2>2, <3>2, ReplyOwn DEF Resolving, Keyed
                <4>2. CASE Winner(c)
                    <5>1. request'[c] = request[c]
                        BY <4>2, CommittedStays DEF Winner
                    <5> QED
                        BY <1>4, <2>2, <4>1, <4>2, <5>1, OwnWorkConflict
                <4>3. CASE ~Winner(c)
                    <5>1. Own(c) /\ committed'[c] /\ ~committed[c] /\ Resolving(c)
                        BY <1>4, <4>3, WinnersAfter
                    <5>2. c = d
                        BY <1>1, <2>2, <5>1, OthersKept DEF Own
                    <5>3. CommitsReply(d) /\ pc'[d] = "reply"
                        BY <5>1, <5>2, CommitStep
                    <5>4. request[d].op \in KeyedOps
                        BY <4>1, KeyedOp DEF Resolving
                    <5> QED
                        BY <1>1, <5>3, <5>4, ReplyKinds DEF Conflicted
                <4> QED
                    BY <4>2, <4>3
            <3> QED
                BY <3>1, <3>2
        <2>3. CASE \E e \in Calls : e # d /\ Own(e)
            BY <1>1, <2>1, <2>3, OthersKept DEF Own
        <2>4. CASE UNCHANGED callVars
            BY <2>1, <2>4 DEF callVars
        <2> QED
            BY <2>2, <2>3, <2>4, OtherSteps DEF Own
    <1>5. \A c, d \in Calls : OwnWork(c, d)'
        BY <1>4 DEF OwnWork, Winner
    <1> QED
        BY <1>3, <1>5 DEF OwnWorkInv

\* A client whose capture or void took effect is never told by another of its
\* calls, with the same key, that it came too late: the record's reason is
\* looked at before the status guard's (ledger.py:521-527, 618-624).
THEOREM OwnWorkNeverConflicts ==
    ASSUME Balances = Int, RecordsLapse = FALSE
    PROVE  ServiceSpec => []OwnWorkIsNoConflict
    <1>1. ServiceInit => ServiceInv /\ TrueConflicts /\ KeysInv /\ OwnWorkInv
        BY ServiceInvInit, KeysInit
           DEF ServiceInit, CallInit, TrueConflicts, TrueConflict, Replied, OwnWorkInv, OwnWork,
               Conflicted
    <1>2. ServiceInv /\ TrueConflicts /\ KeysInv /\ OwnWorkInv /\ [ServiceNext]_vars
            => ServiceInv' /\ TrueConflicts' /\ KeysInv' /\ OwnWorkInv'
        BY ServiceInvStep, ConflictsStep, KeysStep, OwnWorkStep
    <1>3. OwnWorkInv => OwnWorkIsNoConflict
        BY DEF OwnWorkInv, OwnWork, Conflicted, OwnWorkIsNoConflict
    <1> QED
        BY <1>1, <1>2, <1>3, PTL DEF ServiceSpec

--------------------------------------------------------------------------------
(* A success is what was asked.                                              *)

\* The conjunct of SuccessIsWhatWasAsked for a request and the body that answers it.
Earned(r, body, auths) ==
    /\ AnswersRequest(r, body)
    /\ IsAuthorizationBody(body) =>
          /\ body.authorization_id \in DOMAIN auths
          /\ auths[body.authorization_id].account_id = r.account
          /\ auths[body.authorization_id].amount = body.amount
          /\ body.status # "PENDING" => auths[body.authorization_id].status = body.status

LEMMA TermsKept ==
    ASSUME TypeOK, TypeOK', [TableNext]_tableVars, NEW i \in DOMAIN authorization
    PROVE  /\ i \in DOMAIN authorization'
           /\ authorization'[i].account_id = authorization[i].account_id
           /\ authorization'[i].amount = authorization[i].amount
    <1>1. CASE TableNext
        <2>1. /\ i \in DOMAIN authorization'
              /\ authorization[i] \in AuthorizationType
              /\ authorization'[i] \in AuthorizationType
              /\ [authorization'[i] EXCEPT !.status = "PENDING"]
                    = [authorization[i] EXCEPT !.status = "PENDING"]
            BY <1>1, ResolveOnceStep DEF TypeOK
        <2> QED
            BY <2>1 DEF AuthorizationType
    <1>2. CASE UNCHANGED tableVars
        BY <1>2 DEF tableVars
    <1> QED
        BY <1>1, <1>2

\* What was earned stays earned: a hold keeps its terms and its final status.
LEMMA EarnedKept ==
    ASSUME TypeOK, TypeOK', [TableNext]_tableVars, NEW r, NEW body,
           Earned(r, body, authorization)
    PROVE  Earned(r, body, authorization')
    <1>1. CASE ~IsAuthorizationBody(body)
        BY <1>1 DEF Earned
    <1>2. CASE IsAuthorizationBody(body)
        <2> DEFINE i == body.authorization_id
        <2>1. i \in DOMAIN authorization
            BY <1>2 DEF Earned
        <2>2. /\ i \in DOMAIN authorization'
              /\ authorization'[i].account_id = authorization[i].account_id
              /\ authorization'[i].amount = authorization[i].amount
              /\ authorization[i].status # "PENDING"
                    => authorization'[i].status = authorization[i].status
            BY <2>1, TermsKept, StatusIsFinal
        <2> QED
            BY <1>2, <2>2 DEF Earned
    <1> QED
        BY <1>1, <1>2

\* A call that commits earns the response it builds.
LEMMA CommitEarns ==
    ASSUME ServiceInv, NEW c \in Calls, Own(c), Keyed(c), committed'[c], ~committed[c]
    PROVE  Earned(request[c], reply'[c].body, authorization')
    <1> DEFINE r == request[c]
    <1>1. TypeOK /\ Control
        BY DEF ServiceInv
    <1>2. ~NoCommit
        BY DEF NoCommit
    <1>3. WriteAuthorization(c) \/ WriteCapture(c) \/ WriteVoid(c) \/ WriteDeposit(c)
        BY <1>2 DEF Own, Serve, Receive, RejectBody, MissingKey, CheckReplay, ReadMerchant,
           ReadAuthorization, ReadAccount, Keyed, WriteMerchant, WriteConflicts, Resolve,
           ReadStatus, Deliver, Crash
    <1>4. CASE WriteAuthorization(c)
        <2> PICK i \in AuthorizationIds, today \in Days :
                     /\ InsertAuthorization(i, r.account, r.merchant, r.amount, today, r.key)
                     /\ Commit(c, AuthorizationResponse(authorization'[i], 201))
            BY <1>2, <1>4 DEF WriteAuthorization
        <2> DEFINE hold == AuthorizationItem(i, r.account, r.merchant, r.amount, today)
        <2>1. authorization' = Put(authorization, i, hold)
            BY DEF InsertAuthorization
        <2>2. /\ hold.authorization_id = i /\ hold.account_id = r.account
              /\ hold.merchant_id = r.merchant /\ hold.amount = r.amount
              /\ hold.status = "PENDING"
            BY DEF AuthorizationItem
        <2> HIDE DEF hold
        <2>3. i \in DOMAIN authorization' /\ authorization'[i] = hold
            BY <2>1 DEF Put
        <2>4. reply'[c].body = [authorization_id |-> i, status |-> "PENDING",
                                amount |-> r.amount, merchant_id |-> r.merchant]
            BY <1>1, <2>2, <2>3 DEF Commit, Answer, Control, AuthorizationResponse
        <2>5. r.op = "authorize"
            BY <1>4 DEF WriteAuthorization
        <2> QED
            BY <2>2, <2>3, <2>4, <2>5 DEF Earned, AnswersRequest, IsAuthorizationBody
    <1>5. ASSUME NEW s \in Won, r.op \in {"capture", "void"},
                 r.op = "capture" <=> s = "CAPTURED",
                 PastHold(image[c], r.target), image[c].account_id = r.account,
                 authorization' = [authorization EXCEPT ![image[c].authorization_id].status = s],
                 Commit(c, AuthorizationResponse([image[c] EXCEPT !.status = s], 200))
          PROVE  Earned(r, reply'[c].body, authorization')
        <2>1. /\ image[c].authorization_id = r.target
              /\ image[c].amount = authorization[r.target].amount
              /\ authorization[r.target].account_id = r.account
              /\ r.target \in DOMAIN authorization
            <3>1. r.target \in DOMAIN authorization
                BY <1>5 DEF PastHold
            <3> QED
                BY <1>1, <1>5, <3>1, PastTerms
        <2>2. image[c] \in AuthorizationType /\ authorization[r.target] \in AuthorizationType
            BY <1>1, <1>5, <2>1 DEF PastHold, TypeOK
        <2>3. reply'[c].body = [authorization_id |-> r.target, status |-> s,
                                amount |-> image[c].amount, merchant_id |-> image[c].merchant_id]
            BY <1>1, <1>5, <2>1, <2>2
               DEF Commit, Answer, Control, AuthorizationResponse, AuthorizationType
        <2>4. /\ r.target \in DOMAIN authorization'
              /\ authorization'[r.target].account_id = r.account
              /\ authorization'[r.target].amount = image[c].amount
              /\ authorization'[r.target].status = s
            BY <1>1, <1>5, <2>1, <2>2 DEF TypeOK, AuthorizationType
        <2>5. IsAuthorizationBody(reply'[c].body)
            BY <2>3 DEF IsAuthorizationBody
        <2> QED
            BY <1>5, <2>3, <2>4, <2>5 DEF Earned, AnswersRequest, Won
    <1>6. CASE WriteCapture(c)
        <2>1. pc[c] = "write" /\ r.op = "capture"
            BY <1>6 DEF WriteCapture
        <2> PICK txn \in TransactionIds :
                     /\ CaptureAuthorization(image[c], r.account, txn, r.key)
                     /\ Commit(c, AuthorizationResponse([image[c] EXCEPT !.status = "CAPTURED"], 200))
            BY <1>2, <1>6 DEF WriteCapture, ExplainResolve
        <2>2. PastHold(image[c], r.target) /\ image[c].account_id = r.account
            BY <2>1 DEF ServiceInv, ItemsOK
        <2>3. authorization' = [authorization EXCEPT ![image[c].authorization_id].status = "CAPTURED"]
            BY DEF CaptureAuthorization
        <2> QED
            BY <1>5, <2>1, <2>2, <2>3 DEF Won
    <1>7. CASE WriteVoid(c)
        <2>1. pc[c] = "write" /\ r.op = "void"
            BY <1>7 DEF WriteVoid
        <2>2. /\ VoidAuthorization(image[c], r.account, r.key)
              /\ Commit(c, AuthorizationResponse([image[c] EXCEPT !.status = "VOIDED"], 200))
            BY <1>2, <1>7 DEF WriteVoid, ExplainResolve
        <2>3. PastHold(image[c], r.target) /\ image[c].account_id = r.account
            BY <2>1 DEF ServiceInv, ItemsOK
        <2>4. authorization' = [authorization EXCEPT ![image[c].authorization_id].status = "VOIDED"]
            BY <2>2 DEF VoidAuthorization
        <2> QED
            BY <1>5, <2>1, <2>2, <2>3, <2>4 DEF Won
    <1>8. CASE WriteDeposit(c)
        <2>1. \E current, available : Commit(c, DepositResponse(AccountImage(current, available)))
            BY <1>2, <1>8 DEF WriteDeposit
        <2>2. \E current, available : reply'[c].body = AccountImage(current, available)
            BY <1>1, <2>1 DEF Commit, Answer, Control, DepositResponse
        <2>3. r.op = "deposit"
            BY <1>8 DEF WriteDeposit
        <2> QED
            BY <2>2, <2>3 DEF AccountImage, Earned, AnswersRequest, IsAuthorizationBody
    <1> QED
        BY <1>3, <1>4, <1>6, <1>7, <1>8

\* A new record is that of a call which commits under its key.
LEMMA RecordIsOfCall ==
    ASSUME ServiceInv, [ServiceNext]_vars, NEW k \in DOMAIN idem' \ DOMAIN idem
    PROVE  \E c \in Calls : /\ Own(c) /\ Keyed(c) /\ committed'[c] /\ ~committed[c]
                            /\ request[c].key = k
    <1>1. Control
        BY DEF ServiceInv
    <1>2. CASE UNCHANGED idem
        BY <1>2
    <1>3. ASSUME NEW c \in Calls, Own(c)
          PROVE  Keyed(c) /\ committed'[c] /\ ~committed[c] /\ request[c].key = k
        <2>1. CASE NoCommit \/ WriteMerchant(c)
            BY <1>2, <2>1 DEF NoCommit, WriteMerchant, InsertMerchant, tableVars
        <2>2. CASE ~NoCommit /\ ~WriteMerchant(c)
            <3>1. WriteAuthorization(c) \/ WriteCapture(c) \/ WriteVoid(c) \/ WriteDeposit(c)
                BY <1>3, <2>2
                   DEF Own, Serve, Receive, RejectBody, MissingKey, CheckReplay, ReadMerchant,
                   ReadAuthorization, ReadAccount, WriteConflicts, Resolve, ReadStatus, Deliver,
                   Crash
            <3>2. /\ pc[c] = "write" /\ request[c].op # "merchant"
                  /\ \E response : Commit(c, response)
                BY <2>2, <3>1
                   DEF WriteAuthorization, WriteCapture, WriteVoid, WriteDeposit, ExplainResolve
            <3>3. Keyed(c) /\ committed'[c] /\ ~committed[c]
                BY <1>1, <3>2 DEF Control, ControlOK, Keyed, Commit
            <3>4. DOMAIN idem' = DOMAIN idem \cup {request[c].key}
                BY <2>2, <3>1
                   DEF WriteAuthorization, WriteCapture, WriteVoid, WriteDeposit, ExplainResolve,
                   InsertAuthorization, CaptureAuthorization, VoidAuthorization, Deposit, Put
            <3> QED
                BY <3>3, <3>4
        <2> QED
            BY <2>1, <2>2
    <1>4. CASE \E s \in Signups : SignUp(s)
        BY <1>2, <1>4 DEF SignUp, SignupStep, Confirm, Run, Insert, LoseContact, WakeUp, TimeOut,
                    InsertAccount, tableVars
    <1>5. CASE Lapse
        BY <1>5 DEF Lapse, LapseStep, LapseRecord
    <1>6. CASE Sweep \/ Finished \/ (\E kind \in DOMAIN replica : Replicate(kind)) \/ UNCHANGED vars
        BY <1>2, <1>6 DEF Sweep, ExpireStep, ExpireHold, Finished, Replicate, vars, tableVars
    <1> QED
        BY <1>3, <1>4, <1>5, <1>6 DEF ServiceNext, Own

\* A record under a key answers the request that the key is for.
RecordsAnswer(records, auths) ==
    \A k \in DOMAIN records : \A r \in Requests :
        r.op # "merchant" /\ r.key = k => Earned(r, records[k].response.body, auths)

AnswersInv ==
    /\ RecordsAnswer(idem, authorization)
    /\ RecordsAnswer(replica.idem, authorization)
    /\ \A c \in Calls :
          Keyed(c) /\ Succeeded(c) => Earned(request[c], reply[c].body, authorization)

LEMMA RecordsAnswerStep ==
    ASSUME Balances = Int, KeysAreOwn, ServiceInv, AnswersInv, [ServiceNext]_vars
    PROVE  /\ RecordsAnswer(idem', authorization')
           /\ RecordsAnswer(replica'.idem, authorization')
    <1>1. TypeOK /\ TypeOK' /\ [TableNext]_tableVars /\ Control /\ ReplicasOK
        BY ServiceInvStep DEF ServiceInv
    <1>2. RecordsAnswer(idem, authorization') /\ RecordsAnswer(replica.idem, authorization')
        BY <1>1, EarnedKept DEF AnswersInv, RecordsAnswer
    <1>3. ASSUME NEW k \in DOMAIN idem', NEW r \in Requests, r.op # "merchant", r.key = k
          PROVE  Earned(r, idem'[k].response.body, authorization')
        <2>1. CASE k \in DOMAIN idem
            <3>1. idem'[k] = idem[k]
                BY <1>1, <2>1, RecordsKept DEF tableVars
            <3> QED
                BY <1>2, <1>3, <2>1, <3>1 DEF RecordsAnswer
        <2>2. CASE k \notin DOMAIN idem
            <3> PICK c \in Calls : /\ Own(c) /\ Keyed(c) /\ committed'[c] /\ ~committed[c]
                                   /\ request[c].key = k
                BY <2>2, RecordIsOfCall
            <3>1. Earned(request[c], reply'[c].body, authorization')
                BY CommitEarns
            <3>2. request[c] \in Requests /\ request[c].op # "merchant"
                BY <1>1 DEF Control, ControlOK, Keyed
            <3>3. k # Nothing
                BY <1>1, <3>2, CommitStep DEF Control, ControlOK, Working
            <3>4. r = request[c]
                BY <1>3, <3>2, <3>3 DEF KeysAreOwn
            <3>5. idem'[k].response = reply'[c]
                BY CommitStep, KeyedOp DEF CommitsReply
            <3> QED
                BY <3>1, <3>4, <3>5
        <2> QED
            BY <2>1, <2>2
    <1>4. RecordsAnswer(idem', authorization')
        BY <1>3 DEF RecordsAnswer
    <1>5. CASE replica' = replica
        BY <1>2, <1>4, <1>5
    <1>6. CASE \E kind \in DOMAIN replica : Replicate(kind)
        <2> PICK kind \in DOMAIN replica : Replicate(kind)
            BY <1>6
        <2>1. Current.idem = idem /\ idem' = idem
            BY DEF Current, Replicate, tableVars
        <2>2. replica'.idem \in {replica.idem, idem'}
            BY <1>1, <2>1 DEF Replicate, ReplicasOK
        <2> QED
            BY <1>2, <1>4, <2>2
    <1>7. CASE \E c \in Calls : Own(c)
        <2>1. replica' = replica
            BY <1>7 DEF Own, Receive, Serve, Crash, RejectBody, MissingKey, CheckReplay,
               ReadMerchant, ReadAuthorization, ReadAccount, WriteAuthorization, WriteCapture,
               WriteVoid, WriteDeposit, WriteMerchant, WriteConflicts, Resolve, ReadStatus, Deliver
        <2> QED
            BY <1>5, <2>1
    <1>8. CASE Finished \/ (\E s \in Signups : SignUp(s)) \/ Sweep \/ Lapse \/ UNCHANGED vars
        BY <1>5, <1>8 DEF Finished, SignUp, Sweep, Lapse, vars
    <1> QED
        BY <1>6, <1>7, <1>8 DEF ServiceNext, Own

LEMMA AnswersStep ==
    ASSUME Balances = Int, KeysAreOwn, ServiceInv, AnswersInv, [ServiceNext]_vars
    PROVE  AnswersInv'
    <1>1. TypeOK /\ TypeOK' /\ [TableNext]_tableVars /\ Control
        BY ServiceInvStep DEF ServiceInv
    <1>2. ASSUME NEW d \in Calls, request'[d] = request[d], reply'[d] = reply[d],
                 pc[d] \in {"reply", "done"} \/ pc'[d] = pc[d],
                 Keyed(d)', Succeeded(d)'
          PROVE  Earned(request'[d], reply'[d].body, authorization')
        <2>1. Keyed(d) /\ Succeeded(d)
            BY <1>2 DEF Keyed, Succeeded, Replied
        <2>2. Earned(request[d], reply[d].body, authorization)
            BY <2>1 DEF AnswersInv
        <2> QED
            BY <1>1, <1>2, <2>2, EarnedKept
    <1>3. ASSUME NEW c \in Calls, Own(c), Keyed(c)', Succeeded(c)'
          PROVE  Earned(request'[c], reply'[c].body, authorization')
        <2>1. CASE pc[c] = "reply" /\ reply'[c] = reply[c] /\ request'[c] = request[c]
            BY <1>2, <1>3, <2>1
        <2>2. CASE pc'[c] = "reply" /\ pc[c] \notin {"idle", "reply", "done"}
                   /\ request'[c] = request[c]
            <3>1. Keyed(c)
                BY <1>3, <2>2 DEF Keyed
            <3>2. CASE CommitsReply(c)
                BY <1>3, <2>2, <3>1, <3>2, CommitEarns DEF CommitsReply
            <3>3. CASE ReplaysReply(c)
                <4> PICK records \in Seen(idem, replica.idem) :
                         /\ request[c].key \in DOMAIN records
                         /\ reply'[c] = records[request[c].key].response
                    BY <3>3 DEF ReplaysReply
                <4>1. RecordsAnswer(records, authorization)
                    BY DEF Seen, AnswersInv
                <4>2. request[c] \in Requests /\ request[c].op # "merchant"
                    BY <1>1, <3>1 DEF Control, ControlOK, Keyed
                <4>3. Earned(request[c], reply'[c].body, authorization)
                    BY <4>1, <4>2 DEF RecordsAnswer
                <4> QED
                    BY <1>1, <2>2, <4>3, EarnedKept
            <3>4. CASE NamesStatus(c) \/ RefusesReply(c)
                <4>1. ~Succeeded(c)'
                    BY <1>1, <3>4, ReplyKinds DEF Succeeded
                <4> QED
                    BY <1>3, <4>1
            <3> QED
                BY <1>3, <2>2, <3>2, <3>3, <3>4, ReplyOwn
        <2>3. CASE pc'[c] \notin {"reply", "done"} \/ reply'[c] = Nothing
            BY <1>3, <2>3 DEF Succeeded, Replied
        <2> QED
            BY <1>3, <2>1, <2>2, <2>3, ReplyOwn
    <1>4. ASSUME NEW d \in Calls, Keyed(d)', Succeeded(d)'
          PROVE  Earned(request'[d], reply'[d].body, authorization')
        <2>1. CASE Own(d)
            BY <1>3, <1>4, <2>1
        <2>2. CASE \E c \in Calls : c # d /\ Own(c)
            BY <1>1, <1>2, <1>4, <2>2, OthersKept DEF Own
        <2>3. CASE UNCHANGED callVars
            BY <1>2, <1>4, <2>3 DEF callVars
        <2> QED
            BY <2>1, <2>2, <2>3, OtherSteps DEF Own
    <1> QED
        BY <1>4, RecordsAnswerStep DEF AnswersInv

LEMMA AnswersInit == ServiceInit => AnswersInv
    BY DEF ServiceInit, TableInit, CallInit, Current, AnswersInv, RecordsAnswer, Keyed

\* A success answers the request that was sent, and the table holds what it
\* says: also when it is a replay, read late, after its record has lapsed or
\* the call that took effect has died (idempotency.py:85-106, 143-170).
\* OtherBodyIsRefused shows that clients must keep to KeysAreOwn for it.
THEOREM SuccessesAnswerTheirRequests ==
    ASSUME Balances = Int, KeysAreOwn
    PROVE  ServiceSpec => []SuccessIsWhatWasAsked
    <1>1. ServiceInit => ServiceInv /\ AnswersInv
        BY ServiceInvInit, AnswersInit
    <1>2. ServiceInv /\ AnswersInv /\ [ServiceNext]_vars => ServiceInv' /\ AnswersInv'
        BY ServiceInvStep, AnswersStep
    <1>3. AnswersInv => SuccessIsWhatWasAsked
        BY DEF AnswersInv, Earned, SuccessIsWhatWasAsked
    <1> QED
        BY <1>1, <1>2, <1>3, PTL DEF ServiceSpec

--------------------------------------------------------------------------------
(* Failures have causes.                                                     *)

\* A deposit has lost no more attempts than it has had rivals, and fewer when it
\* is about to lose one more.
Outrun(c) ==
    /\ attempts[c] <= Rivals(c)
    /\ pc[c] = "write" /\ request[c].op = "deposit" /\ ~BalanceAsRead(request[c].account, image[c])
          => attempts[c] < Rivals(c)

\* A system has finitely many calls, and holds for the sweeper to expire.
FinitelyMany == IsFiniteSet(Calls) /\ IsFiniteSet(Sweepable)

LEMMA RivalsAreFinite ==
    ASSUME FinitelyMany, NEW c \in Calls
    PROVE  /\ IsFiniteSet(Committers(c)) /\ Cardinality(Committers(c)) \in Nat
           /\ IsFiniteSet(Expired) /\ Cardinality(Expired) \in Nat
           /\ Rivals(c) \in Nat
    <1>1. IsFiniteSet(Committers(c)) /\ IsFiniteSet(Expired)
        BY FS_Subset DEF Committers, Expired, FinitelyMany
    <1> QED
        BY <1>1, FS_CardinalityType DEF Rivals

\* Rivals that have been there have been.
LEMMA RivalsStay ==
    ASSUME FinitelyMany, ServiceInv, [TableNext]_tableVars, NEW c \in Calls,
           \A d \in Calls \ {c} : committed[d] => committed'[d]
    PROVE  Rivals(c) <= Rivals(c)' /\ Rivals(c)' \in Nat
    <1>1. /\ IsFiniteSet(Committers(c)') /\ Cardinality(Committers(c)') \in Nat
          /\ IsFiniteSet(Expired') /\ Cardinality(Expired') \in Nat
          /\ Rivals(c)' \in Nat
        <2>1. IsFiniteSet(Committers(c)') /\ IsFiniteSet(Expired')
            BY FS_Subset, FS_RemoveElement DEF Committers, Expired, FinitelyMany
        <2> QED
            BY <2>1, FS_CardinalityType DEF Rivals
    <1>2. Committers(c) \subseteq Committers(c)'
        BY DEF Committers
    <1>3. Expired \subseteq Expired'
        BY StatusIsFinal DEF Expired, ServiceInv
    <1>4. /\ Cardinality(Committers(c)) <= Cardinality(Committers(c)')
          /\ Cardinality(Expired) <= Cardinality(Expired')
        BY <1>1, <1>2, <1>3, FS_Subset
    <1> QED
        BY <1>1, <1>4, RivalsAreFinite DEF Rivals

\* A step of the call itself: a read brings its image up to date, and an
\* attempt is counted only where the image was behind.
LEMMA OutrunOwn ==
    ASSUME StaleReads = FALSE, FinitelyMany, ServiceInv, [TableNext]_tableVars,
           NEW c \in Calls, Own(c), Outrun(c)
    PROVE  Outrun(c)'
    <1>1. Control /\ Rivals(c) <= Rivals(c)' /\ Rivals(c)' \in Nat
        <2>1. \A d \in Calls \ {c} : committed'[d] = committed[d]
            BY OthersKept DEF Own, ServiceInv
        <2> QED
            BY <2>1, RivalsStay DEF ServiceInv
    <1>2. /\ Rivals(c) \in Nat
          /\ attempts[c] \in Nat
          /\ MaxAttempts \in Nat
        BY <1>1, RivalsAreFinite, MaxAttemptsAssumption DEF Control
    <1>3. CASE attempts'[c] = 0 /\ pc'[c] # "write"
        BY <1>1, <1>2, <1>3 DEF Outrun
    <1>4. CASE attempts'[c] = attempts[c] /\ pc'[c] # "write"
        BY <1>1, <1>2, <1>4 DEF Outrun
    <1>5. CASE attempts'[c] = attempts[c] /\ request'[c].op # "deposit"
        BY <1>1, <1>2, <1>5 DEF Outrun
    <1>6. CASE Receive(c)
        <2>1. pc[c] = "idle" /\ attempts'[c] = 0 /\ pc'[c] \in {"write", "check"}
              /\ (pc'[c] = "write" => request'[c].op = "merchant")
            BY <1>1, <1>6 DEF Receive, Control, ControlOK
        <2> QED
            BY <1>1, <1>2, <2>1 DEF Outrun
    <1>7. CASE CheckReplay(c) \/ RejectBody(c) \/ MissingKey(c)
        BY <1>1, <1>3, <1>4, <1>7 DEF CheckReplay, RejectBody, MissingKey, Goto, Answer, FirstRead,
           Control
    <1>8. CASE ReadMerchant(c) \/ ReadAuthorization(c)
        <2>1. request[c].op # "deposit"
            BY <1>1, <1>8 DEF ReadMerchant, ReadAuthorization, Control, ControlOK, OpsAt
        <2> QED
            BY <1>1, <1>3, <1>5, <1>8, <2>1 DEF ReadMerchant, ReadAuthorization, Goto, Answer,
               Control
    <1>9. CASE ReadAccount(c)
        <2>1. CASE pc'[c] = "reply"
            BY <1>1, <1>3, <1>9, <2>1 DEF ReadAccount, Goto, Answer, Control
        <2>2. CASE pc'[c] # "reply"
            <3>1. /\ Goto(c, "write") /\ request' = request /\ attempts' = attempts
                  /\ account' = account
                  /\ request[c].account \in DOMAIN account
                  /\ image' = [image EXCEPT ![c] = account[request[c].account]]
                BY <1>1, <1>9, <2>2 DEF ReadAccount, Goto, Answer, NoCommit, tableVars, Seen, Control
            <3>2. image'[c] = account'[request'[c].account]
                BY <1>1, <3>1 DEF Control
            <3>3. BalanceAsRead(request[c].account, image[c])'
                BY <3>1, <3>2 DEF BalanceAsRead
            <3> QED
                BY <1>1, <1>2, <3>1, <3>3 DEF Outrun
        <2> QED
            BY <2>1, <2>2
    <1>10. CASE WriteDeposit(c)
        <2>1. CASE \E response : Answer(c, response)
            BY <1>1, <1>3, <2>1 DEF Answer, Control
        <2>2. CASE Goto(c, "resolve")
            BY <1>1, <1>4, <2>2 DEF Goto, Control
        <2>3. CASE ~BalanceAsRead(request[c].account, image[c]) /\ RetryDeposit(c)
            <3>1. CASE \E response : Answer(c, response)
                BY <2>1, <3>1
            <3>2. CASE /\ pc' = [pc EXCEPT ![c] = "account"]
                       /\ attempts' = [attempts EXCEPT ![c] = @ + 1]
                <4>1. pc'[c] = "account" /\ attempts'[c] = attempts[c] + 1
                    BY <1>1, <3>2 DEF Control
                <4>2. attempts[c] < Rivals(c)
                    BY <1>10, <2>3 DEF WriteDeposit, Outrun
                <4> QED
                    BY <1>1, <1>2, <4>1, <4>2 DEF Outrun
            <3> QED
                BY <2>3, <3>1, <3>2 DEF RetryDeposit
        <2>4. (\E response : Answer(c, response)) \/ Goto(c, "resolve")
              \/ (~BalanceAsRead(request[c].account, image[c]) /\ RetryDeposit(c))
            BY <1>10 DEF WriteDeposit, Commit, DepositReasons, Failed
        <2> QED
            BY <2>1, <2>2, <2>3, <2>4
    <1>11. CASE WriteAuthorization(c) \/ WriteCapture(c) \/ WriteVoid(c) \/ WriteMerchant(c)
        <2>1. (\E response : Answer(c, response)) \/ Goto(c, "resolve") \/ Goto(c, "status")
            BY <1>11 DEF WriteAuthorization, WriteCapture, WriteVoid, ExplainResolve, WriteMerchant,
               Commit
        <2> QED
            BY <1>1, <1>3, <1>4, <2>1 DEF Answer, Goto, Control
    <1>12. CASE WriteConflicts(c) \/ Resolve(c) \/ ReadStatus(c)
        BY <1>1, <1>3, <1>12 DEF WriteConflicts, Resolve, ReadStatus, Answer, Control
    <1>13. CASE Deliver(c) \/ Crash(c)
        BY <1>1, <1>3, <1>4, <1>13 DEF Deliver, Crash, Control
    <1> QED
        BY <1>6, <1>7, <1>8, <1>9, <1>10, <1>11, <1>12, <1>13 DEF Own, Serve

\* An invocation changes the table once, when its write commits.
LEMMA CommitsOrNot ==
    ASSUME ServiceInv, NEW c \in Calls, Own(c)
    PROVE  NoCommit \/ (committed'[c] /\ ~committed[c])
    <1>1. Control
        BY DEF ServiceInv
    <1>2. ASSUME pc[c] = "write", \E response : Commit(c, response)
          PROVE  committed'[c] /\ ~committed[c]
        BY <1>1, <1>2 DEF Commit, Control, ControlOK
    <1>3. NoCommit \/ (pc[c] = "write" /\ \E response : Commit(c, response))
        BY DEF Own, Serve, Receive, RejectBody, MissingKey, CheckReplay, ReadMerchant,
           ReadAuthorization, ReadAccount, WriteAuthorization, WriteCapture, WriteVoid,
           ExplainResolve, WriteDeposit, WriteMerchant, WriteConflicts, Resolve, ReadStatus,
           Deliver, Crash
    <1> QED
        BY <1>2, <1>3

\* A step of another invocation moves the balances only when it commits, and
\* then it is one rival more.
LEMMA OutrunOthers ==
    ASSUME FinitelyMany, ServiceInv, [TableNext]_tableVars,
           NEW d \in Calls, Own(d), NEW c \in Calls, c # d, Outrun(c)
    PROVE  Outrun(c)'
    <1>1. /\ Control /\ \A e \in Calls \ {d} : committed'[e] = committed[e]
          /\ pc'[c] = pc[c] /\ request'[c] = request[c] /\ image'[c] = image[c]
          /\ attempts'[c] = attempts[c]
        BY OthersKept DEF Own, ServiceInv
    <1>2. /\ Rivals(c) \in Nat /\ Rivals(c)' \in Nat /\ Rivals(c) <= Rivals(c)'
          /\ attempts[c] \in Nat
        <2>1. \A e \in Calls \ {c} : committed[e] => committed'[e]
            BY <1>1, CommitsOrNot DEF NoCommit
        <2> QED
            BY <1>1, <2>1, RivalsAreFinite, RivalsStay DEF Control
    <1>3. CASE NoCommit
        <2>1. account' = account
            BY <1>3 DEF NoCommit, tableVars
        <2>2. BalanceAsRead(request[c].account, image[c])
                  => BalanceAsRead(request[c].account, image[c])'
            BY <1>1, <2>1 DEF BalanceAsRead
        <2> QED
            BY <1>1, <1>2, <2>2 DEF Outrun
    <1>4. CASE committed'[d] /\ ~committed[d]
        <2>1. Committers(c)' = Committers(c) \cup {d} /\ d \notin Committers(c)
            BY <1>1, <1>4 DEF Committers
        <2>2. Cardinality(Committers(c)') = Cardinality(Committers(c)) + 1
            BY <2>1, FS_AddElement, RivalsAreFinite
        <2>3. IsFiniteSet(Expired') /\ Expired \subseteq Expired'
            BY StatusIsFinal, FS_Subset DEF Expired, ServiceInv, FinitelyMany
        <2>4. Cardinality(Expired) <= Cardinality(Expired') /\ Cardinality(Expired') \in Nat
            BY <2>3, FS_Subset, FS_CardinalityType
        <2>5. Rivals(c) < Rivals(c)'
            BY <2>2, <2>4, RivalsAreFinite DEF Rivals
        <2> QED
            BY <1>1, <1>2, <2>5 DEF Outrun
    <1> QED
        BY <1>3, <1>4, CommitsOrNot

\* An expiry moves the balances of one account, and is one rival more.
LEMMA OutrunSweep ==
    ASSUME FinitelyMany, ServiceInv, [TableNext]_tableVars, Sweep, NEW c \in Calls, Outrun(c)
    PROVE  Outrun(c)'
    <1>1. PICK i \in DOMAIN authorization : ExpireHold(authorization[i])
        BY DEF Sweep, ExpireStep
    <1>2. /\ i \in AuthorizationIds /\ authorization[i].authorization_id = i
          /\ authorization[i].status = "PENDING"
          /\ authorization' = [authorization EXCEPT ![i].status = "EXPIRED"]
        <2>1. i \in AuthorizationIds /\ authorization[i].authorization_id = i
            BY DEF ServiceInv, TypeOK
        <2>2. Failed(1, StillPending(i, authorization[i].account_id)) = {}
            BY <1>1, <2>1 DEF ExpireHold, ExpireReasons
        <2>3. StillPending(i, authorization[i].account_id)
            BY <2>2 DEF Failed
        <2> QED
            BY <1>1, <2>1, <2>3 DEF ExpireHold, StillPending
    <1>3. Expired' = Expired \cup {i} /\ i \notin Expired
        <2>1. authorization'[i].status = "EXPIRED" /\ DOMAIN authorization' = DOMAIN authorization
            BY <1>2 DEF ServiceInv, TypeOK, AuthorizationType
        <2>2. \A j \in DOMAIN authorization : j # i => authorization'[j] = authorization[j]
            BY <1>2
        <2>3. i \in Sweepable
            BY <1>2 DEF Sweepable, Sweep
        <2> QED
            BY <1>2, <2>1, <2>2, <2>3 DEF Expired
    <1>4. Cardinality(Expired') = Cardinality(Expired) + 1
        BY <1>3, FS_AddElement, RivalsAreFinite
    <1>5. UNCHANGED callVars
        BY DEF Sweep
    <1>6. Rivals(c)' = Rivals(c) + 1
        <2>1. Committers(c)' = Committers(c)
            BY <1>5 DEF Committers, callVars
        <2> QED
            BY <1>4, <2>1, RivalsAreFinite DEF Rivals
    <1>7. attempts[c] \in Nat /\ Rivals(c) \in Nat
        BY RivalsAreFinite DEF ServiceInv, Control
    <1> QED
        BY <1>5, <1>6, <1>7 DEF Outrun, callVars

LEMMA OutrunStep ==
    ASSUME Balances = Int, StaleReads = FALSE, RecordsLapse = FALSE, FinitelyMany,
           ServiceInv, \A c \in Calls : Outrun(c), [ServiceNext]_vars
    PROVE  \A c \in Calls : Outrun(c)'
    <1>1. [TableNext]_tableVars
        BY ServiceIsTableStep
    <1>2. ASSUME NEW d \in Calls, Own(d), NEW c \in Calls
          PROVE  Outrun(c)'
        BY <1>1, <1>2, OutrunOwn, OutrunOthers
    <1>3. CASE Sweep
        BY <1>1, <1>3, OutrunSweep
    <1>4. CASE ~Sweep /\ ~\E d \in Calls : Own(d)
        <2>1. UNCHANGED callVars
            BY <1>4, OtherSteps DEF Own
        <2>2. UNCHANGED account \/ \E a \in Accounts : InsertAccount(a)
            BY <1>4 DEF ServiceNext, Finished, SignUp, SignupStep, Confirm, Run, Insert,
               LoseContact, WakeUp, TimeOut, Replicate, Lapse, tableVars, vars, Own
        <2>3. ASSUME NEW a, NEW read, BalanceAsRead(a, read)
              PROVE  a \in DOMAIN account' /\ account'[a] = read
            BY <2>2, <2>3 DEF InsertAccount, Put, BalanceAsRead
        <2>4. ASSUME NEW c \in Calls
              PROVE  Outrun(c)'
            <3>1. /\ pc'[c] = pc[c] /\ request'[c] = request[c] /\ image'[c] = image[c]
                  /\ attempts'[c] = attempts[c] /\ committed' = committed
                BY <2>1 DEF callVars
            <3>2. BalanceAsRead(request[c].account, image[c])
                      => BalanceAsRead(request[c].account, image[c])'
                BY <3>1, <2>3 DEF BalanceAsRead
            <3>3. Rivals(c) <= Rivals(c)' /\ Rivals(c) \in Nat /\ Rivals(c)' \in Nat
                BY <1>1, <3>1, RivalsStay, RivalsAreFinite
            <3>4. attempts[c] \in Nat
                BY DEF ServiceInv, Control
            <3> QED
                BY <3>1, <3>2, <3>3, <3>4 DEF Outrun
        <2> QED
            BY <2>4
    <1> QED
        BY <1>2, <1>3, <1>4

\* The reads that are taken after a cancellation find what it was for.
Explained(c) ==
    /\ pc[c] = "resolve" => request[c].key \in DOMAIN idem
    /\ pc[c] = "status" => authorization[request[c].target].status # "PENDING"

\* The call's transaction was cancelled for its key's record, which is there.
LEMMA EntersResolve ==
    ASSUME ServiceInv, NEW c \in Calls, Own(c), pc'[c] = "resolve"
    PROVE  request'[c] = request[c] /\ request[c].key \in DOMAIN idem
    <1>1. Control
        BY DEF ServiceInv
    <1>2. WriteAuthorization(c) \/ WriteCapture(c) \/ WriteVoid(c) \/ WriteDeposit(c)
        <2>1. ~(Receive(c) \/ RejectBody(c) \/ MissingKey(c) \/ CheckReplay(c) \/ ReadMerchant(c)
                \/ ReadAuthorization(c) \/ ReadAccount(c))
            BY <1>1 DEF Receive, RejectBody, MissingKey, CheckReplay, ReadMerchant,
               ReadAuthorization, ReadAccount, Goto, Answer, FirstRead, Control
        <2>2. ~(WriteMerchant(c) \/ WriteConflicts(c))
            BY <1>1 DEF WriteMerchant, WriteConflicts, Answer, Commit, Control
        <2>3. ~(Resolve(c) \/ ReadStatus(c) \/ Deliver(c) \/ Crash(c))
            BY <1>1 DEF Resolve, ReadStatus, Deliver, Crash, Answer, Control
        <2> QED
            BY <2>1, <2>2, <2>3 DEF Own, Serve
    <1>3. Goto(c, "resolve") /\ ~KeyUnused(request[c].key)
        <2>1. CASE WriteAuthorization(c)
            BY <1>1, <2>1 DEF WriteAuthorization, AuthorizeReasons, Failed, Goto, Commit, Answer,
               Control
        <2>2. CASE WriteCapture(c)
            BY <1>1, <2>2 DEF WriteCapture, ExplainResolve, CaptureReasons, Failed, Goto, Commit,
               Answer, Control
        <2>3. CASE WriteVoid(c)
            BY <1>1, <2>3 DEF WriteVoid, ExplainResolve, VoidReasons, Failed, Goto, Commit,
               Answer, Control
        <2>4. CASE WriteDeposit(c)
            BY <1>1, <2>4 DEF WriteDeposit, RetryDeposit, DepositReasons, Failed, Goto, Commit,
               Answer, Control
        <2> QED
            BY <1>2, <2>1, <2>2, <2>3, <2>4
    <1> QED
        BY <1>3 DEF Goto, KeyUnused

IsFailure(response) == response.status_code = 500

\* What FailuresHaveCauses allows a 500 for.
Cause(c) ==
    \/ pc[c] = "write" /\ (InConflict(c) \/ OutOfAttempts(c))
    \/ pc[c] = "resolve" /\ RecordUnusable(c)

\* A deposit that loses its last attempt has had as many rivals.
LEMMA LastAttempt ==
    ASSUME FinitelyMany, ServiceInv, NEW c \in Calls, StaleReads \/ Outrun(c),
           WriteDeposit(c), NoCommit, pc'[c] = "reply"
    PROVE  OutOfAttempts(c)
    <1>1. /\ Control /\ attempts[c] \in 0..(MaxAttempts - 1)
          /\ MaxAttempts \in Nat \ {0} /\ Rivals(c) \in Nat
        BY RivalsAreFinite, MaxAttemptsAssumption DEF ServiceInv, Control
    <1>2. /\ pc[c] = "write" /\ request[c].op = "deposit"
          /\ ~\E response : Commit(c, response)
        BY <1>1 DEF WriteDeposit, Commit, NoCommit, Control, ControlOK
    <1>3. RetryDeposit(c) /\ ~BalanceAsRead(request[c].account, image[c])
        BY <1>1, <1>2 DEF WriteDeposit, DepositReasons, Failed, Goto, Control
    <1>4. attempts[c] = MaxAttempts - 1
        <2>1. ~(attempts[c] + 1 < MaxAttempts)
            BY <1>1, <1>3 DEF RetryDeposit, Control
        <2> QED
            BY <1>1, <2>1
    <1>5. StaleReads \/ Rivals(c) >= MaxAttempts
        <2>1. ASSUME Outrun(c) PROVE Rivals(c) >= MaxAttempts
            <3>1. attempts[c] < Rivals(c)
                BY <1>2, <1>3, <2>1 DEF Outrun
            <3> QED
                BY <1>1, <1>4, <3>1
        <2> QED
            BY <2>1
    <1> QED
        BY <1>2, <1>3, <1>4, <1>5 DEF OutOfAttempts

\* A record that cannot be replayed is one that lags, or another operation's.
LEMMA NoReplay ==
    ASSUME ServiceInv, LaggingRecords, NEW c \in Calls, Explained(c), Resolve(c),
           IsFailure(reply'[c])
    PROVE  RecordUnusable(c)
    <1> DEFINE k == request[c].key
    <1>1. DOMAIN reply = Calls /\ pc[c] = "resolve" /\ k \in DOMAIN idem
        BY DEF ServiceInv, Control, Resolve, Explained
    <1>2. \A records \in Seen(idem, replica.idem) :
              \A l \in DOMAIN records : records[l].response.status_code # 500
        BY SeenItems, StoredIsSuccess DEF ServiceInv
    <1>3. PICK records \in Seen(idem, replica.idem) :
              ~(/\ k \in DOMAIN records
                /\ (request[c].op = "authorize" => IsAuthorizationBody(records[k].response.body)))
        BY <1>1, <1>2 DEF Resolve, Answer, IsFailure
    <1>4. k \in DOMAIN records => records[k] = idem[k]
        BY DEF Seen, LaggingRecords
    <1> QED
        BY <1>1, <1>3, <1>4 DEF RecordUnusable

LEMMA OwnIsNext == ASSUME NEW c \in Calls, Own(c) PROVE [ServiceNext]_vars
    BY DEF Own, ServiceNext

\* A call answers 500 for a cause.
LEMMA FailureHasCause ==
    ASSUME FinitelyMany, ServiceInv, TypeOK', LaggingRecords,
           NEW c \in Calls, Own(c), Explained(c), StaleReads \/ Outrun(c),
           pc[c] \notin {"idle", "reply", "done"}, pc'[c] = "reply", IsFailure(reply'[c])
    PROVE  Cause(c)
    <1> USE DEF IsFailure
    <1>1. /\ TypeOK /\ TypeOK' /\ Control /\ ItemsOK(c)
          /\ request[c] \in Requests /\ request[c].op \in OpsAt(pc[c])
          /\ DOMAIN reply = Calls
        BY DEF ServiceInv, Control, ControlOK
    <1>2. \A code \in Nat : \A name : Error(code, name).status_code = code
        BY ErrorIsNoSuccess
    <1>3. \A records \in Seen(idem, replica.idem) :
              \A k \in DOMAIN records : records[k].response.status_code # 500
        BY SeenItems, StoredIsSuccess DEF ServiceInv
    <1>4. ~(RejectBody(c) \/ MissingKey(c) \/ CheckReplay(c))
        <2>1. ~(RejectBody(c) \/ MissingKey(c))
            BY <1>1, <1>2 DEF RejectBody, MissingKey, Answer
        <2>2. ASSUME CheckReplay(c) PROVE FALSE
            <3>1. ~Goto(c, FirstRead(request[c].op))
                BY <1>1 DEF Goto, FirstRead, Control
            <3>2. PICK records \in Seen(idem, replica.idem) :
                      \/ reply'[c] = Error(422, "IdempotencyKeyReuse")
                      \/ /\ request[c].key \in DOMAIN records
                         /\ reply'[c] = records[request[c].key].response
                BY <1>1, <2>2, <3>1 DEF CheckReplay, Answer
            <3> QED
                BY <1>2, <1>3, <3>2
        <2> QED
            BY <2>1, <2>2
    <1>5. ~(ReadMerchant(c) \/ ReadAuthorization(c) \/ ReadAccount(c))
        BY <1>1, <1>2 DEF ReadMerchant, ReadAuthorization, ReadAccount, Goto, Answer, Control
    <1>6. ~(committed'[c] /\ ~committed[c] /\ request[c].op \in KeyedOps)
        BY <1>1, CommitStep, ReplyKinds, OwnIsNext
    <1>7. ~(WriteAuthorization(c) /\ NoCommit)
        <2> SUFFICES ASSUME WriteAuthorization(c), NoCommit PROVE FALSE
            OBVIOUS
        <2>1. pc[c] = "write" /\ ~\E response : Commit(c, response)
            BY <1>1 DEF WriteAuthorization, Commit, NoCommit, Control, ControlOK
        <2>2. reply'[c] = Error(409, "InsufficientFunds")
            BY <1>1, <2>1 DEF WriteAuthorization, Goto, Answer, Control
        <2> QED
            BY <1>2, <2>2
    <1>8. ~((WriteCapture(c) \/ WriteVoid(c)) /\ NoCommit)
        BY <1>1 DEF WriteCapture, WriteVoid, ExplainResolve, Commit, Goto, Control, NoCommit,
           ControlOK
    <1>9. ~WriteMerchant(c)
        <2> SUFFICES ASSUME WriteMerchant(c) PROVE FALSE
            OBVIOUS
        <2>1. reply'[c] \in {Error(400, "MerchantAlreadyExists"),
                             [status_code |-> 201,
                              body |-> [merchant |-> request[c].merchant, payable_balance |-> 0]]}
            BY <1>1 DEF WriteMerchant, Commit, Answer
        <2> QED
            BY <1>2, <2>1
    <1>10. CASE Resolve(c)
        BY <1>10, NoReplay DEF Resolve, Cause
    <1>11. ~ReadStatus(c)
        <2> SUFFICES ASSUME ReadStatus(c) PROVE FALSE
            OBVIOUS
        <2>1. /\ pc[c] = "status" /\ request[c].op \in {"capture", "void"}
              /\ PastHold(image[c], request[c].target)
              /\ image[c].account_id = request[c].account
            BY <1>1 DEF ReadStatus, OpsAt, ItemsOK
        <2>2. /\ image[c].authorization_id = request[c].target
              /\ authorization[request[c].target].account_id = request[c].account
            BY <1>1, <2>1, PastTerms
        <2> DEFINE s == authorization[request[c].target].status
        <2>3. reply'[c] = TerminalStatusError[s] /\ s # "PENDING"
            BY <1>1, <2>1, <2>2 DEF ReadStatus, Answer, Explained, PastHold
        <2>4. s \in {"CAPTURED", "VOIDED", "EXPIRED", "REVERSED"}
            BY <1>1, <2>1, <2>3 DEF PastHold, TypeOK, AuthorizationType, Statuses
        <2>5. TerminalStatusError[s].status_code = 409
            BY <1>2, <2>4 DEF TerminalStatusError
        <2> QED
            BY <2>3, <2>5
    <1>12. ~(Receive(c) \/ Deliver(c) \/ Crash(c))
        BY <1>1 DEF Receive, Deliver, Crash, Control
    <1>13. ~(~NoCommit /\ (WriteAuthorization(c) \/ WriteCapture(c) \/ WriteVoid(c)
                              \/ WriteDeposit(c)))
        <2> SUFFICES ASSUME ~NoCommit, WriteAuthorization(c) \/ WriteCapture(c) \/ WriteVoid(c)
                                          \/ WriteDeposit(c)
                     PROVE  FALSE
            OBVIOUS
        <2>1. request[c].op \in KeyedOps /\ pc[c] = "write" /\ \E response : Commit(c, response)
            BY DEF WriteAuthorization, WriteCapture, WriteVoid, ExplainResolve, WriteDeposit,
               KeyedOps
        <2>2. committed'[c] /\ ~committed[c]
            BY <1>1, <2>1 DEF Commit, Control, ControlOK
        <2> QED
            BY <1>6, <2>1, <2>2
    <1>14. CASE WriteDeposit(c) /\ NoCommit
        BY <1>14, LastAttempt DEF WriteDeposit, Cause
    <1>15. CASE WriteConflicts(c)
        BY <1>15 DEF WriteConflicts, InConflict, Cause
    <1> QED
        BY <1>4, <1>5, <1>7, <1>8, <1>9, <1>10, <1>11, <1>12, <1>13, <1>14, <1>15 DEF Own, Serve

LEMMA ExplainedStep ==
    ASSUME Balances = Int, RecordsLapse = FALSE, ServiceInv, \A c \in Calls : Explained(c),
           [ServiceNext]_vars
    PROVE  \A d \in Calls : Explained(d)'
    <1>1. TypeOK /\ TypeOK' /\ Control /\ [TableNext]_tableVars
        BY ServiceInvStep DEF ServiceInv
    <1>2. ASSUME NEW d \in Calls, pc[d] = "status"
          PROVE  request[d].target \in DOMAIN authorization
        BY <1>1, <1>2 DEF ServiceInv, ItemsOK, PastHold, Control, ControlOK, OpsAt
    <1>3. ASSUME NEW d \in Calls, pc'[d] = pc[d], request'[d] = request[d]
          PROVE  Explained(d)'
        <2>1. pc[d] = "resolve" => request[d].key \in DOMAIN idem'
            BY RecordsStand DEF Explained
        <2>2. pc[d] = "status" => authorization'[request[d].target].status # "PENDING"
            BY <1>1, <1>2, StatusIsFinal DEF Explained
        <2> QED
            BY <1>3, <2>1, <2>2 DEF Explained
    <1>4. ASSUME NEW c \in Calls, Own(c)
          PROVE  Explained(c)'
        <2>1. pc'[c] = "resolve" => request'[c].key \in DOMAIN idem'
            BY <1>4, EntersResolve, RecordsStand
        <2>2. pc'[c] = "status" => authorization'[request'[c].target].status # "PENDING"
            BY <1>4, EntersStatus
        <2> QED
            BY <2>1, <2>2 DEF Explained
    <1>5. ASSUME NEW c \in Calls, Own(c), NEW d \in Calls
          PROVE  Explained(d)'
        <2>1. CASE d = c
            BY <1>4, <1>5, <2>1
        <2>2. CASE d # c
            BY <1>1, <1>3, <1>5, <2>2, OthersKept DEF Own
        <2> QED
            BY <2>1, <2>2
    <1>6. CASE UNCHANGED callVars
        BY <1>3, <1>6 DEF callVars
    <1> QED
        BY <1>5, <1>6, OtherSteps DEF Own

\* What makes FailuresHaveCauses inductive.
ExplainedInv ==
    /\ ServiceInv
    /\ LaggingRecords
    /\ \A c \in Calls : Explained(c)
    /\ StaleReads \/ \A c \in Calls : Outrun(c)

LEMMA ExplainedInvInit ==
    ASSUME FinitelyMany, ServiceInit PROVE ExplainedInv
    <1>1. ASSUME NEW c \in Calls PROVE Outrun(c)
        BY RivalsAreFinite DEF ServiceInit, CallInit, Outrun
    <1> QED
        BY <1>1, ServiceInvInit
        DEF ExplainedInv, ServiceInit, CallInit, Explained, LaggingRecords, Current

LEMMA ExplainedInvStep ==
    ASSUME Balances = Int, RecordsLapse = FALSE, FinitelyMany, ExplainedInv, [ServiceNext]_vars
    PROVE  ExplainedInv'
    <1> USE DEF ExplainedInv
    <1>1. StaleReads \/ \A c \in Calls : Outrun(c)'
        BY OutrunStep, SwitchesAssumption
    <1> QED
        BY <1>1, ServiceInvStep, LaggingRecordsStep, ExplainedStep

\* A step by which a call comes to answer 500 has its cause.
LEMMA FailingStep ==
    ASSUME Balances = Int, FinitelyMany, ExplainedInv, [ServiceNext]_vars, NEW c \in Calls,
           pc[c] # "reply", pc'[c] = "reply", reply'[c] = InternalServerError
    PROVE  Cause(c)
    <1> USE DEF ExplainedInv
    <1>1. Control /\ TypeOK'
        BY ServiceInvStep DEF ServiceInv
    <1>2. Own(c)
        <2>1. ASSUME NEW d \in Calls, Own(d), d # c PROVE FALSE
            BY <1>1, <2>1, OthersKept DEF Own
        <2>2. ~UNCHANGED callVars
            BY DEF callVars
        <2> QED
            BY <2>1, <2>2, OtherSteps DEF Own
    <1>3. pc[c] \notin {"idle", "reply", "done"}
        BY <1>2, ReplyOwn
    <1>4. IsFailure(reply'[c])
        BY ErrorIsNoSuccess DEF IsFailure, InternalServerError
    <1> QED
        BY <1>1, <1>2, <1>3, <1>4, FailureHasCause

\* A 500 is told for a transaction that met another, for a deposit whose reads
\* lag or which met as many rivals as it has attempts, or for a record that lags
\* or is another operation's: never because the reads after a cancellation find
\* nothing to explain it by (ledger.py:362, 543-558, 626-635, idempotency.py:160).
\* Reads may lag, transactions conflict, clients share keys, invocations die and
\* the sweeper run; no record reaches its TTL in the seconds of a call.
THEOREM EveryFailureHasItsCause ==
    ASSUME Balances = Int, RecordsLapse = FALSE, IsFiniteSet(Calls), IsFiniteSet(Sweepable)
    PROVE  ServiceSpec => FailuresHaveCauses
    <1>1. FinitelyMany
        BY DEF FinitelyMany
    <1>2. ServiceInit => ExplainedInv
        BY <1>1, ExplainedInvInit
    <1>3. ExplainedInv /\ [ServiceNext]_vars => ExplainedInv'
        BY <1>1, ExplainedInvStep
    <1>4. ExplainedInv /\ [ServiceNext]_vars
              => [\A c \in Calls :
                    pc[c] # "reply" /\ pc'[c] = "reply" /\ reply'[c] = InternalServerError
                      => \/ pc[c] = "write" /\ (InConflict(c) \/ OutOfAttempts(c))
                         \/ pc[c] = "resolve" /\ RecordUnusable(c)]_vars
        BY <1>1, FailingStep DEF Cause
    <1> QED
        BY <1>2, <1>3, <1>4, PTL DEF ServiceSpec, FailuresHaveCauses

================================================================================
