# PayLedger: specifications, model checking and proofs

PayLedger is a card-payment ledger: AWS Lambda functions behind an HTTP API, over
one DynamoDB table. A client opens an account, deposits money, places a hold with a
merchant (authorize), and the hold is captured (the merchant is paid), voided, or
expires. This directory holds TLA+ models of that code, the TLC configurations that
check them on small instances, and proofs that TLAPS checks for every instance.

Paths below are relative to the repository (`src/layers/...` is the code,
`docs/design/...` the design). In `PROJECT.json` the same files carry the prefix
`src/` of this checkout.

## 1. Inventory

| Component | Code | State it keeps | Operations |
|---|---|---|---|
| Ledger table and its transactions | `src/layers/shared/ledger.py`, `domain.py`, `infra/dynamodb.tf` | account items (posted and available balance), merchant items (payable balance), authorization items (terms and status), immutable ledger entries | `insert_account`, `insert_merchant`, `insert_authorization`, `capture_authorization`, `void_authorization`, `update_expired_holds`, `deposit`; reads `get_account`, `get_merchant`, `get_authorization` (an index), `_read_status` (consistent) |
| Idempotency layer | `src/layers/shared/idempotency.py`, `utils.py` | one `IDEM#<key>` item per key: request hash, response, TTL of 24 h | `check_replay`, `transact_item`, `resolve_conflict`; DynamoDB deletes the item some time after its TTL |
| Authorization service | `src/lambdas/authorization_service/` | nothing between invocations | routes authorize, capture, void, create merchant |
| Deposit service | `src/lambdas/deposit_service/` | nothing between invocations | route deposit: a compare-and-swap loop, five attempts |
| Create-account trigger | `src/lambdas/create_account/` | nothing | on sign-up: insert the account, three tries on connection errors, five seconds in all |
| Expired-hold sweeper | `src/lambdas/expired_hold_sweeper/`, `get_expired_holds` and `update_expired_holds` in `ledger.py`, `infra/eventbridge.tf` | nothing | every 15 minutes: scan the expiry index page by page, then one transaction per hold |
| Request parsing, error envelope | `utils.py`, `errors.py`, the schema modules | nothing | validation, hash of a body, status code and name of an error |
| DynamoDB access, configuration | `dynamo.py`, `table.py` | a cached client | none on the ledger |
| Settlement saga, compensation, history and balance services | only in `docs/design/` | | not implemented |

**How they interact.** Only through the table. Every mutation is one
`TransactWriteItems` (or one conditional `PutItem`): atomic and serialisable. What
the code must get right is everything around it: a handler builds its transaction
from reads made earlier, some of them eventually consistent (`get_item` without
`ConsistentRead`, every index query); it guards the write with ConditionExpressions;
and when DynamoDB cancels the transaction it looks at the positions of
`CancellationReasons`, and then reads once more, to decide what to tell the client.

**What is hard.** Two invocations on one hold, account or key, in any order between
any two of those steps; a client that sends its request again because the response
was lost, perhaps while the first is still running; reads that lag; a function that
dies after its commit; the sweeper working from an old scan of a lagging index,
overlapping itself, or dying half-way through its batch; a sign-up whose insert is
tried again after the new account has been used; an idempotency record that reaches
its TTL between a request and its retry; a compare-and-swap loop that loses.

**What makes each part correct.**
- Table: `README.md:83-92` lists the ledger invariants: entries of a transaction sum
  to zero, entries are immutable, a hold is released or captured exactly once, balances
  agree with entries. To those the code adds `posted = available + pending holds`.
- Idempotency: one effect per key; every success under a key is the same response.
- Services: a success is true and is an answer to what was asked; a 409 names the
  state the hold really is in; a 500 has one of few causes, and leaves no effect.
- All of these together: every call behaves as one atomic step of a simple ledger.
- Sweeper: never undoes a capture or a void, never releases early; a sweep that ends
  leaves nothing due behind; every overdue hold is released in the end.
- Trigger: one that returned left an account, and never resets one.

`PROJECT.json` lists the hazards one by one, each at its line, with the properties
that cover it.

## 2. Modules

| Module | What it is |
|---|---|
| `CardLedger` | the promise: posted funds, holds against them, keys that stand for one effect each. Available funds are derived, not stored |
| `CardService` | the promise of the API over a `CardLedger`: each call is answered in one step |
| `LedgerTable` | the table: one action per transaction the code commits, one operator per ConditionExpression, the invariants of the ledger; shown to implement `CardLedger` |
| `AccountTrigger` | extends `LedgerTable` with the invocations of the sign-up trigger, lost responses and timeouts |
| `PaymentService` | extends `AccountTrigger` with the invocations that serve the API, one process per call, and with the environment: crashes, lagging reads, transaction conflicts, the sweeper's commits, the TTL; shown to implement `LedgerTable` and `CardService` |
| `HoldSweeper` | extends `LedgerTable` with a clock, the expiry index, overlapping sweeps and their failures |
| `MCLedgerTable`, `MCPaymentService`, `MCHoldSweeper` | instances for TLC: starting states, sets of requests, symmetry |
| `LedgerTableProofs` | theorems about holds, funds and records in `LedgerTable`, and their proofs |
| `LedgerEntriesProofs` | extends it with theorems about the ledger entries |
| `CardLedgerProofs` | the proof that `LedgerTable` implements `CardLedger` |
| `PaymentServiceProofs` | the proof that `PaymentService` implements `LedgerTable`, and what carries over; the trigger |
| `PaymentAnswersProofs` | theorems about what clients are told: conflicts, deposits, winners |
| `PaymentKeysProofs` | theorems about idempotency keys, and when nobody is told 500 |
| `PaymentAtomicProofs` | the proof that `PaymentService` implements `CardService` |
| `HoldSweeperProofs` | the proof that `HoldSweeper` implements `LedgerTable`, and its safety properties |

### `LedgerTable` and the code

A collection of items is a function whose domain is the set of items that exist:
`account`, `merchant`, `authorization`, `idem`; the ledger entries are a set. The
guards of the repositories are `SufficientFunds`, `KeyUnused`, `StillPending`,
`BalanceAsRead`. `AuthorizeReasons`, `CaptureReasons`, `VoidReasons`,
`ExpireReasons`, `DepositReasons` give the positions of the failing conditions, with
the position numbers of the item lists in the code: a transaction commits iff that
set is empty, and the except clauses of `PaymentService` inspect the same set.
`InsertAccount`, `InsertMerchant`, `InsertAuthorization`, `CaptureAuthorization`,
`VoidAuthorization`, `ExpireHold`, `Deposit` are the commits, each with all its items,
the idempotency record included. `LapseRecord` is the TTL.

`TableSpec` lets *any* transaction happen that some handler could have built: any
deposit carries any image of the balances, however stale, and any authorization of the
table can be captured, voided or expired at any time. This is coarser than the
services: `PaymentService` is checked (run `start`) and proved to implement it.

### `CardLedger`, `CardService` and the refinements

`CardLedger` knows nothing of items, guards, reads or entries. `LedgerTable` implements
it under the mapping at the end of that module:

| `CardLedger` | from the table |
|---|---|
| `posted[a]` | the account's `current_balance` (`Posted`) |
| `payable` | `merchant` |
| `hold[i]` | the authorization, its status read as held, settled, released or expired (`Holds`) |
| `answered[k]` | the effect that the stored response confirms (`Effects`) |

`available_balance` is absent on purpose: `CardLedger` reserves against what it derives
from its own holds, and adds a deposit to what is there. A compare-and-swap on a stale
image, a hold released twice or a key answered twice is therefore no step of it
(`KeepsThePromise`).

`CardService` adds the calls: in one step a call takes effect (`Perform`), or is told the
effect its key already stands for (`Replay`), or is refused for one of `Reasons`, the
reasons that hold *at that moment* (`Refuse`), or its client learns nothing (`Lose`).
`CallsAreAtomic` says that every step of `PaymentService` is one of those, under the same
mapping with `Told(c)` for the answer. Two constants of `CardService` say what the API
cannot promise while its reads are eventually consistent and its transactions can meet:
`Lagging` (the mapping gives it `StaleReads`) lets a lookup miss a merchant, an account or
a hold, and `Failing` (`~NeverFails`) adds 500 to the reasons of any call but a merchant's
creation. Everything else must be exact however reads lag and transactions conflict: what
commits, what is replayed, a 409's reason, and that a 500 or a 404 leaves no effect of the
call that is told of it. `NeverFails` (current reads, no conflicts, keys that are not
shared, more deposit attempts than rivals) is where a 500 is excluded altogether.
`FailuresHaveCauses` covers the rest: it names what a 500 can come from.

Some refusals of the code are looser than one would like, and `Reasons` says so rather
than promise more than there is: a merchant whose put was applied but not acknowledged is
told `MerchantAlreadyExists`; an authorize on an account that is not open is told
`InsufficientFunds`; so is a retry whose own key is answered, if the funds are gone
(finding 1, section 4); `IdempotencyKeyReuse` asks only that the key is answered, since
effects carry no hash (which answers do and do not fit a request is
`SuccessIsWhatWasAsked`).

### `AccountTrigger` and the code

`signup[s]` is an invocation's phase, its user and its attempt. `Insert` is a
`put_item` that was answered, with `AccountAlreadyExists` swallowed as in the code;
`LoseContact` is one that was not, applied or not. It is coarser than the code there: only
a client library that ends in a failure to connect is tried again (`handler.py:48`), and
other lost responses, a read timeout for one, are raised at once. `Retry` is the `except` clause and
`WakeUp` the end of its sleep; `TimeOut` is Cognito's five seconds or a killed function.
Two confirmations of one user are two sign-ups (`Confirm` picks any account).

### `HoldSweeper` and the code

| Action | Code |
|---|---|
| `StartSweep` | the handler is invoked: by the schedule, again by the platform after a failure, or by hand; `today` is computed once |
| `ReadItem`, `LastPage` | `get_expired_holds`: one scanned item at a time in an order of the index's own, `Due` the filter; the scan ends when there is no `LastEvaluatedKey` |
| `ReleaseHold`, `SkipHold` | one iteration of `update_expired_holds`: the transaction, or `continue` on a failed status guard |
| `Finish` | the handler returns |
| `Fail` | any other error, or the timeout: the rest of the batch is dropped |
| `IndexCatchesUp` | a hold's latest image reaches the index, per hold |
| `DateHold` | `insert_authorization` draws the id and reads the clock, from which it dates the hold |
| `PlaceHold` | its transaction commits later, at most `CallTicks` after |
| `OtherWrites` | every other transaction of the table |
| `Tick` | the clock goes to the next of `Instants` |

A day has `TicksPerDay` instants, so a hold can be placed late on a day, and dated on one
day and committed on the next: between the clock's reading (`ledger.py:287-288`) and the
commit (305) lie the sending of the transaction and boto3's retries of it. `CallTicks`
bounds that by the life of the function (10 s, `infra/modules/lambda_function/variables.tf:38`).
`dated` is when the clock was read for an id; `placed` (when the hold was committed) and `listed` (what the index held when a scan began) are history.

### `PaymentService` and the code

A call goes `idle -> check -> (merchant | authorization | account) -> write ->
(resolve | status | account) -> reply -> done`. Those are the places between which
the code waits for DynamoDB:

| Label | Action | Code |
|---|---|---|
| `check` | `RejectBody`, `MissingKey`, `CheckReplay` | `model_validate`, `require_key`, `check_replay` |
| `merchant` | `ReadMerchant` | `get_merchant` in `create_authorization` |
| `authorization` | `ReadAuthorization` | `get_authorization` and the owner check |
| `account` | `ReadAccount` | `get_account` in the deposit loop |
| `write` | `WriteAuthorization`, `WriteCapture`, `WriteVoid`, `WriteDeposit`, `WriteMerchant`, `WriteConflicts` | the transaction, and the except clause's reading of the reasons |
| `resolve` | `Resolve` | `resolve_conflict` |
| `status` | `ReadStatus` | `_read_status` and `_TERMINAL_STATUS_ERRORS` |
| `reply` | `Deliver` | `lambda_handler` returns |

`replica` holds what a lagging read may still return, per kind of item; `Replicate`
lets a kind catch up. A lagging read returns either the current items or the
replica's (`Seen`). `Crash` ends a call anywhere: what it committed stays, the
client gets nothing. A retry is another call with the same request. `committed` is a
history variable: it says whether a call's own transaction took effect.

### Abstractions

- Amounts are whole cents. A hold or an entry of *n* is also counted as *n* elements
  of a set (`HeldCents`, `PostedCents`), so that a sum over items is a cardinality:
  no recursion is needed and the provers can work with it. DynamoDB numbers have 38
  digits, so there is no overflow to model.
- uuids never repeat (`NewTransactionId`, `NewAuthorizationId`); the hash of a body is
  the body (`DepositHash`, `AuthorizationHash`); capture and void pass no request, hence
  `NoHash`, and their replay compares nothing.
- Names, timestamps, TTL values and the wording of messages are left out; so are JSON
  parsing, other headers and the token claims.
- In `PaymentService` no clock runs: the sweeper's commit (`Sweep`) may happen to any
  PENDING hold at any time, a superset of what `HoldSweeper` does. The clock is
  `HoldSweeper`'s, where `expires_at` is computed in a step before the commit.
- boto3's own retry of a transaction whose response was lost carries a
  `ClientRequestToken`, so it is one commit and is not modelled apart. A plain
  `put_item` has none: the lost responses of the two inserts are modelled
  (`LoseContact`, and the second disjunct of `WriteMerchant`).
- A page of the sweeper's scan is read item by item: pages only group items between
  two places where others may act, so this allows every size of page.
- Lag is per kind of item, not per item: a replica is some earlier state of that kind.
- The account item of `insert_authorization` exists iff its guard can hold; an
  `Update` of an absent item upserts, which `Put` models.

Definitions named `..._Fault`, `BalanceAsRead_PostedOnly`, `RetryDeposit_Forever`,
`RetryDeposit_Never`, `Retry_Forever`, `Retry_Swallow` and `Due_OnTheDay` are
never used by the specifications. Each is the definition below it with one plausible
slip (a guard dropped, the wrong balance compared, the order of two checks swapped);
`PROJECT.json` pairs each with a run and a property that must then fail, to show the
property can see a mistake in the code.

## 3. Runs

| Run | Instance | Asks |
|---|---|---|
| `table` | 2 accounts, 2 merchants, 2 holds, 3 postings, 2 keys; amounts 0..2 | do the ledger's invariants survive every order of transactions, TTL included, and is each transaction a step of `CardLedger`? (refinement) |
| `resolve` | one hold; two captures, a void and a stranger's capture under four keys, two deposits, 3 calls; crashes; sweeper | one winner per hold; are the losers told the truth; is a retry of one's own work never a conflict; has every 500 its cause? |
| `deposits` | two deposits, an invalid body, an authorization and a void that use the deposits' keys again, 3 calls; a repeated sign-up; stale reads, crashes, conflicts | one effect and one answer per key; does a deposit add its amount to the balances as they are, and say so; has every 500 its cause; is every call one step of `CardService`, whatever its reads and conflicts? (refinement) |
| `lifecycle` | two authorizations for the same funds, one with a merchant being created, a capture, a void, a deposit, 3 calls, the source's five attempts; crashes; sweeper | does every call behave as one atomic step of `CardService`, and is none told 500? (refinement) are successes true? |
| `start` | empty ledger, a sign-up; a merchant's creation, a deposit, an authorization, its capture and a void, 4 calls; stale reads, sweeper | does the service only ever take `TableSpec` steps? (refinement) |
| `lapse` | one hold; capture and void, retried, 3 calls; stale reads, crashes, sweeper, TTL | does the status guard stand in for a record that lapsed? |
| `liveness` | a sign-up with the source's three attempts and lost responses, the new account's deposits, one without a key, 2 calls, reads that may stay stale for ever | does every call and every trigger end; did a trigger that returned leave an account; does no retried insert reset a balance? |
| `sweep` | 2 sweepers, 2 holds, one account with funds for two; the days 0, 1, 6 and 7 in half days, authorizations that may take half a day; no failed sweep | is nothing released early or twice, is each list what it should be, does a sweep that ends leave nothing due? |
| `sweep_liveness` | 1 sweeper, 2 holds; the days 0, 7 and 8; one failed sweep | is every overdue hold resolved in the end? |

Three more runs end in a counterexample, see section 4. Every property is a definition
with a comment that states it, and each has a mutant. `MaxAttempts` is 2 where the point
is to reach the end of the deposit loop, and 5, as in the source, in `lifecycle`, where
the point is that fewer rivals than attempts cannot exhaust it.

**Bounds, and why they are enough.** A race needs two calls and a retry of the loser a
third: `Calls` has three. In `start`, where nothing exists yet, it has four: a merchant, a
deposit and an authorization, so that the fourth can capture or void the hold from an
image that the sweeper or the lag of the index has made old; when the sign-up and the
merchant come late, the reads that miss them are there as well. A hold is captured, voided or expired, so one hold with one
contender for each is every conflict on it; two holds on scarce funds are every
conflict on a balance. Amounts 1 and 2 against an opening 2 give "exactly enough",
"not enough" and "left over"; 0 is there to be refused. `Balances` bounds only the
images `TableSpec`'s deposits may carry, and covers every balance the instance
can reach (0 to 6: three postings of two cents). `TransactionIds` and
`AuthorizationIds` bound the number of commits; in the `LedgerTable` instance the ids
run out, which is why that configuration does not check for deadlock. All the others
do: a state in which every call is done stutters (`Finished`) and a sweeper can always
start, so any other state without a step would be an error. Funded instances start after
an account's first deposit whose record has lapsed, and some with a hold placed, states
that the code reaches and that `start` reaches from nothing. `InsertAttempts` is 3 in
`liveness`, as in the source, and 1 elsewhere.

In the sweeper's runs `Instants` bounds the clock. In `sweep`, with two instants to a
day, the instant 1 is the last of day 0, so a hold dated then is due on day 7, which
begins at 14: 13 is the last instant at which it must not be released, 14 the first at
which it may. It may be committed at 1, or at 2, on day 1, and still be due on day 7: that
is the case in which it lives its shortest, and in which a filter that is one day early is
found out. Two sweepers are every overlap of two; two holds make a batch in which one
hold can be resolved by another while the next waits. In `sweep_liveness` the clock
passes the day a hold is due (14) and goes to another (16), on which a filter that asked
for today's date would find nothing. `MaxFaults` there is one failed sweep, anywhere in it;
liveness needs only that failures stop. In `sweep` it is 0: a failed sweep only drops its
list, which safety cannot tell from one that never began.

**Fairness.** `WF_vars(Serve(c))` for each call: an invocation that has started goes on,
since it waits for nothing but DynamoDB and the runtime; likewise for each running
trigger (`Run(s)`), whose failures are as good a step as its successes. Nothing is
assumed of clients, replicas, the TTL or the sweeper there. Under it `EveryCallEnds` says
that the only loop of the API, the deposit's, ends, even when each of its reads is stale,
and `EverySignUpEnds` that the trigger's does. That run has no crashes and no
transaction conflicts, since either would only end a call sooner.
`HoldSweeper` assumes that the schedule keeps firing (`StartSweep`; the EventBridge rule
is `rate(15 minutes)`), that a sweep which runs goes on (`SweepStep`), that
the index catches up hold by hold (DynamoDB's eventual consistency) and that time passes
(`Tick`). It does not assume that any client acts, nor that a particular sweep succeeds.

**Reads and what they break.** `ServiceTypeOK`, `ConflictsAreTrue` and `OwnWorkIsNoConflict` are
checked with current reads and proved for any. Everything else is checked with lagging reads too, apart
from what `NeverFails` says: that nobody is told 500 needs current reads (finding 3), and
run `lifecycle` has them. After a record lapses, a second authorize or deposit under its key is a
second effect; that is the design (24 h), so `lapse` asks only about capture and void.

## 4. Where the documents and the code disagree

Three runs end in a counterexample on purpose; each checks one sentence of a document
or comment against the code.

1. `retry_refused`: two sends of one authorization run side by side; the first takes
   the funds; the second fails both guards, and `ledger.py:355` looks at the balance
   first. The client is told `InsufficientFunds` for what succeeded, which
   `docs/design/04-api.md:141-142` calls the worst failure mode. (Capture and void look
   at the record first and are right: `OwnWorkIsNoConflict`.)
2. `other_body`: two different bodies race under one key. Both pass `check_replay`;
   the loser is given the winner's response, not the 422 of `04-api.md:117`, since
   `resolve_conflict` compares no hash.
3. `winners_record`: `resolve_conflict` re-reads the winner's record with an eventually
   consistent read and asserts that it is there.

Seen while modelling and not given a run: a capture right after its authorize can be told
404, because the hold is looked up in an index (`ledger.py:370`); a deposit's entry on the
account is a DEBIT, like a capture's, so credits less debits do not give the balance, and
`BalancesBackedByEntries` is stated by origin (deposit or capture), not by direction; a
taken merchant id is a 400, not the 409 of `04-api.md:78`; contention is a 500, not the
503 of `04-api.md:87`; the two entries of a transaction are in two GSI1 partitions
(`ledger.py:203`), so the "one query" zero-sum check of `05-design-decisions.md:31-35`
finds none; the request has no `expires_in_days`; terminal holds keep `expires_at` and stay
in the expiry index, which is therefore not the sparse index of the documents, and every
sweep reads all of them; `05-design-decisions.md:72` shows an `expires_at` with a time of
day, seven days on, but the code stores a date, so a hold may be released a little more than
six days after it was dated, and, since it is dated before its transaction is sent, that less
the length of the call after it was placed (`HoldsLiveSixDays`).

## 5. Theorems

The proofs hold for every choice of the constants that satisfies the assumptions of
the modules: amounts and balances are integers, days and instants are natural numbers,
every instant falls on one of `Days`, a day has at least one tick, `MaxFaults` and
`CallTicks` are natural numbers. Where a theorem needs more, the table says so and why.

`LedgerTableProofs`:

| Theorem | Statement | Argument |
|---|---|---|
| `TypeCorrect` | `TableSpec => []TypeOK` | `TypeOK` is inductive; one lemma per action (`TypeCreate`, ...). The guards matter: a capture writes the account of a hold that `StillPending` says exists, and the type says whose it is. |
| `HoldsAreBacked` | `TableSpec => []HoldsBalance` | from `FundsInv` below |
| `NeverOverdrawn` | `TableSpec => []NoOverdraft` | the guards of each step against `OverdraftStep`; an authorize takes no more than there is, every other step gives back |
| `HoldsAreResolvedOnce` | `TableSpec => HoldsResolveOnce` | an action property: each step, given the type invariant |
| `EffectsHaveRecords` | `TableSpec => EffectsAreRecorded` | an action property: `RecordWritten` for the four client transactions, `NothingUnrecorded` for the rest |
| `RecordsStayTrue` | `TableSpec => []RecordsTellTheTruth` | inductive with `TypeOK`: `TruthKept` (a claim about a hold is not undone, which is `ResolveOnceStep`) and `RecordsAfter` (a new record is true of the table it is written with) |
| `OneRecordForEach` | `TableSpec => []OneRecordPerEffect` | inductive with `TypeOK` *and* `RecordsTellTheTruth`: a new record says what was not true before (`NewsIsNew`), and every old one is true, so they differ |

`HoldsBalance` is an equation about the cardinality of a set, and a cardinality means
something only for a finite set, so it is not inductive as it stands. `FundsInv` adds
what is missing: `TypeOK`, and for each account that the set of its held cents is
*finite* as well as of the right size (`Backed`). The argument then is about sets of
cents: `BlockSize` (a hold of *n* is a block of *n* cents), `AddBlock` and
`RemoveBlock` (placing a hold adds a disjoint block, releasing it removes one),
`HeldPlaced`, `HeldReleased`, `HeldUnchanged` (what each action does to `HeldCents`),
and one lemma per action that combines them with what the action does to the two
balances. `BackedResolved` is shared by capture, void and expiry: each resolves one
hold and moves one of the balances by its amount.

`LedgerEntriesProofs`, about the same specification:

| Theorem | Statement | Argument |
|---|---|---|
| `EntriesSumToZero` | `TableSpec => []TransactionsBalance` | inductive with `TypeOK`: a commit posts a debit and a credit of one amount under a fresh id (`BalancedPosting`), and uuids never meet |
| `CapturesMoveMoneyOnce` | `TableSpec => []CaptureIsOneTransfer` | `TransferInv` adds `SourcesExist`: an entry's source hold exists, so a new hold has no entries yet; a capture finds its hold PENDING, hence without any |
| `EntriesBackBalances` | `TableSpec => []BalancesBackedByEntries` | `BackingInv`: `PartiesExist` (entries of an account or merchant only once it exists), and every set of posted cents is *finite* and of the right size; a new entry adds a disjoint block of cents (`PostedAdded`) |

`CardLedgerProofs` proves one theorem, `TableKeepsThePromise`
(`TableSpec => KeepsThePromise`). The mapping is sound because of `PromiseInv`: `FundsInv`,
and that no authorization is `REVERSED` (`NeverReversed`), the one status the promise has no
state for. From it, the promise's `Reserved` is the table's `HeldCents`
(`ReservedIsHeld`), so what the promise derives as available is what the table stores
(`AvailableIsDerived`). That is where the guard of the authorize becomes the promise's, and
where the compare-and-swap makes the deposit's image the promise's sums. Three lemmas say
how the mapped state moves (`KeyAnswered`, `HoldMoved`, `HoldAdded`), then there is one lemma
per transaction (`OpenStep`, ..., `ForgetStep`) and `PromiseStep` puts them together.

**The service.** Three hypotheses recur in what follows. `Balances = Int` lets the table
take deposits with any integers as the balances that were read: `Balances` is a bound for
TLC, not a limit of the code. `RecordsLapse = FALSE`: the calls of one key fall within its
record's 24 hours; after them a second effect is the design. `KeysAreOwn`: two keyed
requests with one key are one request. `docs/design/04-api.md:117` promises a 422 for
any other body under a key, but a capture and a void store no hash that could tell, and
two bodies that race both pass `check_replay` before either is stored (the run
`other_body`). Stale reads, crashes, conflicts, sweeps
and sign-ups are all free unless a theorem says otherwise, and so are the numbers of
calls, requests, attempts and items.

`PaymentServiceProofs`, under `Balances = Int`:

| Theorem | Statement | Argument |
|---|---|---|
| `ServiceImplementsTable` | `ServiceSpec => TableSpec` | `ServiceInv` below; a transaction built from an old image is the one built from the item itself (`CaptureByImage`, `VoidByImage`, `CallIsTableStep`) |
| `ServiceKeepsTheBooks` | `ServiceSpec => [](HoldsBalance /\ NoOverdraft /\ BalancesBackedByEntries)` | the table's theorems, through the one above; the others carry over the same way |
| `ServiceKeepsThePromise` | `ServiceSpec => KeepsThePromise` | likewise |
| `SignUpsOpenAccounts` | `ServiceSpec => []ReturnedMeansOpened` | `SignupOK`: the type of `signup` with the property itself; accounts stay (`ItemsStay`) |

`ServiceInv` is what a refinement of a program that reads, waits and writes needs. `TypeOK`
and `Control` (which requests can be at which label, with a valid body and a key) are not
enough: a capture commits from an image read long ago. `ItemsOK` says what an invocation
still knows at its write: the merchant that it found is there, and the image of its hold
is a *past* image of it (`PastHold`: same terms, perhaps another status), of the caller's
account. `ReplicasOK` says the same of whatever a lagging read may return. Both survive
every transaction because `LedgerTable` never changes a hold's terms (`ResolveOnceStep`).

`PaymentAnswersProofs`, under `Balances = Int`. All rest on `ReplyOwn`, which sorts the
answers into four kinds: of a commit, of a replay, the name of a status, a refusal.

| Theorem | Statement | Argument |
|---|---|---|
| `CallsAreInOrder` | `ServiceSpec => []ServiceTypeOK` | `ServiceInv`, and that an answer to be delivered exists (`Answered`) |
| `ConflictsTellTheTruth` | `ServiceSpec => []ConflictsAreTrue` | the consistent re-read names a terminal status, and that is final (`StatusIsFinal`). No assumption about the other reads: stale ones cannot break it |
| `DepositsAddUp` | `ServiceSpec => DepositReplyIsExact` | an action property: the compare-and-swap says that the image is current (`DepositCommit`) |
| `HoldsHaveOneWinner` | `ServiceSpec => []OneWinnerPerHold` | `WinnersInv`: a hold is CAPTURED or VOIDED iff a committed call resolved it, and no two did; stated without cardinalities, and turned into the property at the end |

`PaymentKeysProofs`:

| Theorem | Beyond `Balances = Int` | Statement | Argument |
|---|---|---|---|
| `OneEffectForEachKey` | `RecordsLapse = FALSE` | `[]OneEffectPerKey` | `KeysInv`: the record of a committed call is there, so no other passes `KeyUnused`; it holds what was told; a replica's records are records (`LaggingRecords`) |
| `OneAnswerForEachKey` | `RecordsLapse = FALSE` | `[]SameKeySameAnswer` | `KeysInv`: each success is the response on record |
| `OwnWorkNeverConflicts` | `RecordsLapse = FALSE` | `[]OwnWorkIsNoConflict` | `OwnWorkInv`: when a call goes to ask for the status, its key has no record and its hold is not PENDING, so no equal call has committed, and none ever will |
| `SuccessesAnswerTheirRequests` | `KeysAreOwn` | `[]SuccessIsWhatWasAsked` | `AnswersInv`: every record, current or lagging, answers every request with its key. Records may lapse |
| `EveryFailureHasItsCause` | `RecordsLapse = FALSE`, finitely many calls and sweepable holds | `FailuresHaveCauses` | an action property, from `ExplainedInv`: a call at `resolve` has a record in the table, one at `status` a terminal status; unless reads lag, a deposit has lost no more attempts than it has had rivals (`Outrun`), each of which commits once (`LastAttempt`) |
| `EveryCallIsOneStep` (in `PaymentAtomicProofs`) | `RecordsLapse = FALSE` | `ServiceSpec => CallsAreAtomic` | `PromiseInv` of the table, and `ExplainedInv` where `NeverFails`; below |

Neither assumes anything of the reads, of conflicts or of clients: those are named in the
statements instead. A 500 comes from a transaction that met another, from a deposit whose
last compare-and-swap lost to a stale read or to as many rivals as it has attempts
(`ledger.py:257`), from a winner's record that lags (finding 3) or, for an authorize, is
another operation's, and from nothing else. In particular the re-raises after `_read_status`
(`ledger.py:543-558`, `626-635`) are never reached for want of a status, whatever lags.
"Finitely many" is there because a theorem about all instances has to say that rivals can
be counted.

`EveryCallIsOneStep` is the theorem the others lead to. Of a step it asks what a client
can see of it. A step that neither commits nor answers does not show. A commit is
`CardService`'s `Perform`: the step lemmas of `CardLedgerProofs` give the effect, and the
answer is the one on record (`CommitPerforms`). A replay is `Replay` (`ReplayIsTrue`), the
status a loser is given is the state of its hold *now* (`StatusIsTrue`), and each other
refusal's reason holds in the state in which it is given (`RefusalIsTrue`): that is where
`AvailableIsDerived` turns the guard on the stored balance into the promise's reason. What
is left is a 500. Where `NeverFails` does not hold it is a refusal like any other, and must
leave the table alone (`FailureIsAllowed`); where it does, `NoCause` shows from
`ExplainedInv` that none of its causes can come about. A crash is `Lose`; sign-ups and sweeps are
`Open` and `Expire`.

`HoldSweeperProofs`, for any number of sweepers, holds and instants:

| Theorem | Statement | Argument |
|---|---|---|
| `SweeperImplementsTable` | `SweeperSpec => TableSpec` | the image a sweep releases is the item itself once the guard has found it PENDING (`ReleaseIsExpiry`) |
| `SweptHoldsAreBacked` | `SweeperSpec => []HoldsBalance` | the table's theorem, through the one above |
| `SweepsAreInOrder` | `SweeperSpec => []SweepTypeOK` | `SweepInv` |
| `NothingIsReleasedEarly` | `SweeperSpec => HoldsLiveSixDays` | only a sweep expires a hold (`OnlySweepsExpire`), its batch is due (`BatchIsDue`), a week of dates is more than six days of ticks (`AWeekIsSixDays`), and the commit is at most `CallTicks` after the dating (`DatedByItsDay`) |
| `EndedSweepsLeaveNothing` | `SweeperSpec => SweepLeavesNothingDue` | `MissInv`: what a sweep has covered is in its batch while it is PENDING and due |

`SweepInv` adds to `SweepTypeOK` what makes it inductive: the types, that every listed
image was due on the sweep's day and that day is not in the future, that a scanning sweep has
marked what it listed as seen (so no item is listed twice), and that a hold expires a week
after the day its clock was read, at most `CallTicks` before it was placed. `ImagesKept` is why other writers do not disturb it: by
`ResolveOnceStep` a transaction changes a status away from PENDING and nothing else.
`MissInv` is proved beside it, step by step: a head that leaves the batch is PENDING no
more, released or skipped (`TailMissesNothing`).

**Only model-checked.** `EveryCallEnds`, `EverySignUpEnds` and `OverdueHoldsAreReleased`
are liveness under fairness, which the provers cannot do. Every other property of a
passing run is a theorem. Runs that start from a funded account or a placed hold
(`FundedSpec`, `HoldSpec`) check more than the theorems say, since those are of `ServiceSpec`,
which starts from nothing. Nothing here is recursive.

## 6. Not modelled

- DynamoDB access and configuration (`dynamo.py`, `table.py`): clients and names, no
  ledger state.
- Terraform and the packaging script: declarations. What matters of them (the TTL, the
  indexes and their lag, the schedule) is in the environment of the models.
- Metrics, logging, JSON and token parsing; the helpers of `utils.py` that shape
  requests and responses without deciding anything the ledger depends on.
- `Account.has_sufficient_funds` (`domain.py`): no handler calls it; the guard of the
  transaction decides.
- The settlement saga, compensation, history projection and balance services: documents
  without code. `REVERSED` is therefore a status that nothing writes.
- Two limits of the sweeper: a hold whose transaction fails in *every* sweep keeps those
  listed after it waiting (`Fail` is bounded by `MaxFaults`), and a scan that grows with
  every hold ever placed will one day outlast the function's timeout. Nothing in the
  code prevents either, so there is no property to check.

## 7. Plan

Done, in this order: `LedgerTable` (the most important behaviour: what commits), its
invariants and proofs; `PaymentService` over it; `CardLedger` and `CardService`, the
promises, and the refinements; `AccountTrigger`; `HoldSweeper`.

Proved: the ledger's invariants and the refinement of `CardLedger`; the sweeper's
refinement of the table and its safety; the service's refinement of the table and of
`CardService`, and every safety property its runs check.

Next, if the code grows: lag per item rather than per kind, a promise for clients whose
keys outlive their records, and, should the sweeper get one, a property for a limit on
what one scan reads.
