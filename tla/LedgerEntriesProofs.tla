-------------------------- MODULE LedgerEntriesProofs --------------------------
(***************************************************************************)
(* Theorems about the immutable ledger entries of LedgerTable: the double  *)
(* entry, and the denormalised balances they stand behind.                 *)
(***************************************************************************)
EXTENDS LedgerTableProofs

--------------------------------------------------------------------------------
(* What a transaction posts.                                                 *)

\* A capture takes a PENDING hold and does what ledger.py:431-509 lists.
LEMMA CaptureEffect ==
    ASSUME TypeOK,
           NEW i \in DOMAIN authorization, NEW txn \in TransactionIds, NEW k \in Keys,
           CaptureAuthorization(authorization[i], authorization[i].account_id, txn, k)
    PROVE  LET auth == authorization[i]
               a == auth.account_id
           IN  /\ auth \in AuthorizationType
               /\ auth.authorization_id = i
               /\ auth.status = "PENDING"
               /\ a \in DOMAIN account
               /\ auth.merchant_id \in DOMAIN merchant
               /\ NewTransactionId(txn)
               /\ account' = [account EXCEPT ![a].current_balance = @ - auth.amount]
               /\ merchant' = [merchant EXCEPT ![auth.merchant_id] = @ + auth.amount]
               /\ entries' = entries \cup CaptureEntries(txn, auth, a)
               /\ authorization' = [authorization EXCEPT ![i].status = "CAPTURED"]
    BY DEF TypeOK, CaptureAuthorization, CaptureReasons, Failed, StillPending

\* A deposit that commits overwrites the very image it read.
LEMMA DepositEffect ==
    ASSUME TypeOK, NEW a \in Accounts, NEW amt \in Amounts,
           NEW read \in [current_balance : Balances, available_balance : Balances],
           NEW txn \in TransactionIds, NEW k \in Keys,
           ValidAmount(amt), Deposit(a, amt, read, txn, k)
    PROVE  /\ amt \in Nat \ {0}
           /\ a \in DOMAIN account
           /\ account[a] = read
           /\ NewTransactionId(txn)
           /\ account' = [account EXCEPT ![a] = AccountImage(account[a].current_balance + amt,
                                                            account[a].available_balance + amt)]
           /\ entries' = entries \cup DepositEntries(txn, a, amt)
           /\ UNCHANGED <<merchant, authorization>>
    <1>1. Failed(0, BalanceAsRead(a, read)) \cup Failed(3, KeyUnused(k)) = {}
        BY DEF Deposit, DepositReasons
    <1>2. a \in DOMAIN account /\ account[a] = read
        BY <1>1 DEF Failed, BalanceAsRead
    <1>3. amt \in Nat \ {0}
        BY AmountsAssumption DEF ValidAmount
    <1> QED
        BY <1>2, <1>3 DEF Deposit

\* No other step posts.
LEMMA NothingPosted ==
    ASSUME CreateStep \/ AuthorizeStep \/ VoidStep \/ ExpireStep \/ LapseStep
           \/ UNCHANGED tableVars
    PROVE  entries' = entries
    <1>1. CASE CreateStep
        BY <1>1 DEF CreateStep, InsertAccount, InsertMerchant
    <1>2. CASE AuthorizeStep
        BY <1>2 DEF AuthorizeStep, InsertAuthorization
    <1>3. CASE VoidStep
        BY <1>3 DEF VoidStep, VoidAuthorization
    <1>4. CASE ExpireStep
        BY <1>4 DEF ExpireStep, ExpireHold
    <1>5. CASE LapseStep \/ UNCHANGED tableVars
        BY <1>5 DEF LapseStep, LapseRecord, tableVars
    <1> QED
        BY <1>1, <1>2, <1>3, <1>4, <1>5

--------------------------------------------------------------------------------
(* The entries of one transaction sum to zero.                               *)

\* Two opposite legs of one amount under an id no entry has keep every
\* transaction balanced.
LEMMA BalancedPosting ==
    ASSUME TransactionsBalance, NEW txn, NewTransactionId(txn), NEW d, NEW c,
           d.transaction_id = txn, c.transaction_id = txn, d.amount = c.amount,
           d.entry_type # c.entry_type, d.party # c.party,
           entries' = entries \cup {d, c}
    PROVE  TransactionsBalance'
    <1> DEFINE others(e) == {f \in entries : f.transaction_id = e.transaction_id /\ f # e}
               othersAfter(e) == {f \in entries' : f.transaction_id = e.transaction_id /\ f # e}
    <1>1. d # c
        OBVIOUS
    <1>2. ASSUME NEW e \in entries
          PROVE  othersAfter(e) = others(e)
        BY DEF NewTransactionId
    <1>3. othersAfter(d) = {c} /\ othersAfter(c) = {d}
        BY <1>1 DEF NewTransactionId
    <1>4. Cardinality(othersAfter(d)) = 1 /\ Cardinality(othersAfter(c)) = 1
        BY <1>3, FS_Singleton
    <1>5. ASSUME NEW e \in entries'
          PROVE  /\ Cardinality(othersAfter(e)) = 1
                 /\ \A f \in othersAfter(e) : /\ f.amount = e.amount
                                              /\ f.entry_type # e.entry_type
                                              /\ f.party # e.party
        <2>1. CASE e \in entries
            <3>1. /\ Cardinality(others(e)) = 1
                  /\ \A f \in others(e) : /\ f.amount = e.amount
                                          /\ f.entry_type # e.entry_type
                                          /\ f.party # e.party
                BY <2>1 DEF TransactionsBalance
            <3> QED
                BY <1>2, <2>1, <3>1
        <2>2. CASE e = d
            BY <1>3, <1>4, <2>2
        <2>3. CASE e = c
            BY <1>3, <1>4, <2>3
        <2> QED
            BY <1>5, <2>1, <2>2, <2>3
    <1> QED
        BY <1>5 DEF TransactionsBalance

LEMMA BalanceStep ==
    TypeOK /\ TransactionsBalance /\ [TableNext]_tableVars => TransactionsBalance'
    <1> SUFFICES ASSUME TypeOK, TransactionsBalance, [TableNext]_tableVars
                 PROVE  TransactionsBalance'
        OBVIOUS
    <1>1. CASE CreateStep \/ AuthorizeStep \/ VoidStep \/ ExpireStep \/ LapseStep
               \/ UNCHANGED tableVars
        BY <1>1, NothingPosted DEF TransactionsBalance
    <1>2. CASE CaptureStep
        <2> PICK i \in DOMAIN authorization, txn \in TransactionIds, k \in Keys :
                   CaptureAuthorization(authorization[i], authorization[i].account_id, txn, k)
            BY <1>2 DEF CaptureStep
        <2> DEFINE auth == authorization[i]
                   d == Entry(txn, 0, <<"ACCOUNT", auth.account_id>>, "DEBIT", auth.amount,
                              {auth.authorization_id})
                   c == Entry(txn, 1, <<"MERCHANT", auth.merchant_id>>, "CREDIT", auth.amount,
                              {auth.authorization_id})
        <2>1. NewTransactionId(txn) /\ entries' = entries \cup {d, c}
            BY CaptureEffect DEF CaptureEntries
        <2>2. /\ d.transaction_id = txn /\ c.transaction_id = txn /\ d.amount = c.amount
              /\ d.entry_type # c.entry_type /\ d.party # c.party
            BY DEF Entry
        <2> HIDE DEF d, c
        <2> QED
            BY <2>1, <2>2, BalancedPosting
    <1>3. CASE DepositStep
        <2> PICK a \in Accounts, amt \in Amounts,
                 read \in [current_balance : Balances, available_balance : Balances],
                 txn \in TransactionIds, k \in Keys :
                   ValidAmount(amt) /\ Deposit(a, amt, read, txn, k)
            BY <1>3 DEF DepositStep
        <2> DEFINE d == Entry(txn, 0, <<"ACCOUNT", a>>, "DEBIT", amt, {})
                   c == Entry(txn, 1, <<"EXTERNAL", "funding">>, "CREDIT", amt, {})
        <2>1. NewTransactionId(txn) /\ entries' = entries \cup {d, c}
            BY DepositEffect DEF DepositEntries
        <2>2. /\ d.transaction_id = txn /\ c.transaction_id = txn /\ d.amount = c.amount
              /\ d.entry_type # c.entry_type /\ d.party # c.party
            BY DEF Entry
        <2> HIDE DEF d, c
        <2> QED
            BY <2>1, <2>2, BalancedPosting
    <1> QED
        BY <1>1, <1>2, <1>3 DEF TableNext

\* Every transaction's entries sum to zero (README.md, first ledger invariant):
\* the legs that ledger.py:182-211 and 462-491 put are written together, under an
\* id no other transaction has, so no later posting can unbalance them.
THEOREM EntriesSumToZero == TableSpec => []TransactionsBalance
    <1>1. TableInit => TransactionsBalance
        BY DEF TableInit, TransactionsBalance
    <1> QED
        BY <1>1, TypeCorrect, BalanceStep, PTL DEF TableSpec

--------------------------------------------------------------------------------
(* A capture is one transfer.                                                *)

\* Every entry that names a hold names one that exists.
SourcesExist == \A e \in entries : e.source_auth_id \subseteq DOMAIN authorization

\* The inductive invariant behind CaptureIsOneTransfer.
TransferInv == TypeOK /\ SourcesExist /\ CaptureIsOneTransfer

\* The entries a hold is the source of.
Legs(i) == {e \in entries : i \in e.source_auth_id}

\* The conjunct of CaptureIsOneTransfer for a CAPTURED hold.
Transfer(legs, auth) ==
    /\ Cardinality(legs) = 2
    /\ \A e, f \in legs : e.transaction_id = f.transaction_id
    /\ \A e \in legs : e.amount = auth.amount
    /\ \E e \in legs : e.party = <<"ACCOUNT", auth.account_id>> /\ e.entry_type = "DEBIT"
    /\ \E e \in legs : e.party = <<"MERCHANT", auth.merchant_id>> /\ e.entry_type = "CREDIT"

LEMMA TransferByHold ==
    CaptureIsOneTransfer
        <=> \A i \in DOMAIN authorization :
                IF authorization[i].status = "CAPTURED"
                THEN Transfer(Legs(i), authorization[i])
                ELSE Legs(i) = {}
    BY DEF CaptureIsOneTransfer, Transfer, Legs

\* A step that neither posts nor captures keeps what each hold's legs say.
LEMMA TransferKept ==
    ASSUME TransferInv, entries' = entries, DOMAIN authorization \subseteq DOMAIN authorization',
           \A i \in DOMAIN authorization :
              /\ authorization'[i].amount = authorization[i].amount
              /\ authorization'[i].account_id = authorization[i].account_id
              /\ authorization'[i].merchant_id = authorization[i].merchant_id
              /\ authorization'[i].status = "CAPTURED" <=> authorization[i].status = "CAPTURED",
           \A i \in DOMAIN authorization' \ DOMAIN authorization :
              authorization'[i].status = "PENDING"
    PROVE  SourcesExist' /\ CaptureIsOneTransfer'
    <1>1. SourcesExist'
        BY DEF TransferInv, SourcesExist
    <1>2. ASSUME NEW i \in DOMAIN authorization'
          PROVE  IF authorization'[i].status = "CAPTURED"
                 THEN Transfer(Legs(i), authorization[i])
                 ELSE Legs(i) = {}
        <2>1. CASE i \in DOMAIN authorization
            BY <2>1, TransferByHold DEF TransferInv
        <2>2. CASE i \notin DOMAIN authorization
            BY <1>2, <2>2 DEF TransferInv, SourcesExist, Legs
        <2> QED
            BY <2>1, <2>2
    <1>3. ASSUME NEW i \in DOMAIN authorization', authorization'[i].status = "CAPTURED"
          PROVE  Transfer(Legs(i), authorization'[i])
        <2>1. i \in DOMAIN authorization
            BY <1>3
        <2>2. Transfer(Legs(i), authorization[i])
            BY <1>2, <1>3
        <2> QED
            BY <2>1, <2>2 DEF Transfer
    <1>4. \A i : Legs(i)' = Legs(i)
        BY DEF Legs
    <1>5. \A i \in DOMAIN authorization' : IF authorization'[i].status = "CAPTURED"
                                           THEN Transfer(Legs(i)', authorization'[i])
                                           ELSE Legs(i)' = {}
        BY <1>2, <1>3, <1>4
    <1> QED
        BY <1>1, <1>5 DEF CaptureIsOneTransfer, Transfer, Legs

\* The capture's two entries are a transfer of the held amount.
LEMMA CaptureTransfers ==
    ASSUME NEW txn, NEW auth, NEW a, a = auth.account_id
    PROVE  Transfer(CaptureEntries(txn, auth, a), auth)
    <1> DEFINE d == Entry(txn, 0, <<"ACCOUNT", a>>, "DEBIT", auth.amount,
                          {auth.authorization_id})
               c == Entry(txn, 1, <<"MERCHANT", auth.merchant_id>>, "CREDIT", auth.amount,
                          {auth.authorization_id})
    <1>1. CaptureEntries(txn, auth, a) = {d, c}
        BY DEF CaptureEntries
    <1>2. /\ d.transaction_id = txn /\ c.transaction_id = txn
          /\ d.amount = auth.amount /\ c.amount = auth.amount
          /\ d.party = <<"ACCOUNT", a>> /\ d.entry_type = "DEBIT"
          /\ c.party = <<"MERCHANT", auth.merchant_id>> /\ c.entry_type = "CREDIT"
        BY DEF Entry
    <1>3. Cardinality({d, c}) = 2
        <2> HIDE DEF d, c
        <2>1. d # c
            BY <1>2
        <2>2. IsFiniteSet({d}) /\ Cardinality({d}) = 1
            BY FS_Singleton
        <2>3. Cardinality({d} \cup {c}) = 2
            BY <2>1, <2>2, FS_AddElement
        <2> QED
            BY <2>3
    <1> HIDE DEF d, c
    <1> QED
        BY <1>1, <1>2, <1>3 DEF Transfer

LEMMA TransferCapture ==
    ASSUME TransferInv,
           NEW i \in DOMAIN authorization, NEW txn \in TransactionIds, NEW k \in Keys,
           CaptureAuthorization(authorization[i], authorization[i].account_id, txn, k)
    PROVE  SourcesExist' /\ CaptureIsOneTransfer'
    <1> DEFINE auth == authorization[i]
               new == CaptureEntries(txn, auth, auth.account_id)
    <1>1. /\ auth \in AuthorizationType /\ auth.authorization_id = i /\ auth.status = "PENDING"
          /\ entries' = entries \cup new
          /\ authorization' = [authorization EXCEPT ![i].status = "CAPTURED"]
        BY CaptureEffect DEF TransferInv
    <1>2. \A e \in new : e.source_auth_id = {i}
        BY <1>1 DEF CaptureEntries, Entry
    <1>3. /\ DOMAIN authorization' = DOMAIN authorization
          /\ authorization'[i].status = "CAPTURED"
          /\ authorization'[i].amount = auth.amount
          /\ authorization'[i].account_id = auth.account_id
          /\ authorization'[i].merchant_id = auth.merchant_id
          /\ \A j \in DOMAIN authorization : j # i => authorization'[j] = authorization[j]
        BY <1>1, StatusChanged DEF TransferInv, Statuses
    <1>4. SourcesExist'
        BY <1>1, <1>2, <1>3 DEF TransferInv, SourcesExist
    <1>5. \A j \in DOMAIN authorization : IF authorization[j].status = "CAPTURED"
                                          THEN Transfer(Legs(j), authorization[j])
                                          ELSE Legs(j) = {}
        BY TransferByHold DEF TransferInv
    <1>6. Legs(i)' = new
        <2>1. Legs(i) = {}
            BY <1>1, <1>5
        <2> HIDE DEF new
        <2> QED
            BY <1>1, <1>2, <2>1 DEF Legs
    <1>7. \A j \in DOMAIN authorization : j # i => Legs(j)' = Legs(j)
        <2> HIDE DEF new
        <2> QED
            BY <1>1, <1>2 DEF Legs
    <1>8. Transfer(new, authorization'[i])
        <2>1. Transfer(new, auth)
            BY CaptureTransfers
        <2> HIDE DEF new
        <2> QED
            BY <1>3, <2>1 DEF Transfer
    <1>9. ASSUME NEW j \in DOMAIN authorization'
          PROVE  IF authorization'[j].status = "CAPTURED"
                 THEN Transfer(Legs(j)', authorization'[j])
                 ELSE Legs(j)' = {}
        <2> HIDE DEF new
        <2>1. CASE j = i
            BY <1>3, <1>6, <1>8, <2>1
        <2>2. CASE j # i
            BY <1>3, <1>5, <1>7, <2>2
        <2> QED
            BY <2>1, <2>2
    <1> QED
        BY <1>4, <1>9 DEF CaptureIsOneTransfer, Transfer, Legs

LEMMA TransferStep == TransferInv /\ [TableNext]_tableVars => TransferInv'
    <1> SUFFICES ASSUME TransferInv, [TableNext]_tableVars
                 PROVE  SourcesExist' /\ CaptureIsOneTransfer'
        BY TypeStep DEF TransferInv
    <1>1. CASE UNCHANGED <<authorization, entries>>
        BY <1>1, TransferKept
    <1>2. CASE AuthorizeStep
        <2> PICK i \in AuthorizationIds, a \in Accounts, m \in DOMAIN merchant,
                 amt \in Amounts, today \in Days, k \in Keys :
                   InsertAuthorization(i, a, m, amt, today, k)
            BY <1>2 DEF AuthorizeStep
        <2>1. /\ i \notin DOMAIN authorization /\ entries' = entries
              /\ authorization' = Put(authorization, i, AuthorizationItem(i, a, m, amt, today))
            BY DEF InsertAuthorization, NewAuthorizationId
        <2>2. /\ DOMAIN authorization' = DOMAIN authorization \cup {i}
              /\ authorization'[i].status = "PENDING"
              /\ \A j \in DOMAIN authorization : authorization'[j] = authorization[j]
            BY <2>1 DEF Put, AuthorizationItem
        <2> QED
            BY <2>1, <2>2, TransferKept
    <1>3. CASE CaptureStep
        BY <1>3, TransferCapture DEF CaptureStep
    <1>4. CASE VoidStep \/ ExpireStep
        <2>1. PICK i \in DOMAIN authorization, s \in {"VOIDED", "EXPIRED"} :
                   /\ authorization[i].status = "PENDING"
                   /\ authorization' = [authorization EXCEPT ![i].status = s]
            <3>1. \A j \in DOMAIN authorization : authorization[j].authorization_id = j
                BY DEF TransferInv, TypeOK
            <3>2. CASE VoidStep
                BY <3>1, <3>2 DEF VoidStep, VoidAuthorization, VoidReasons, Failed, StillPending
            <3>3. CASE ExpireStep
                BY <3>1, <3>3 DEF ExpireStep, ExpireHold, ExpireReasons, Failed, StillPending
            <3> QED
                BY <1>4, <3>2, <3>3
        <2>2. /\ DOMAIN authorization' = DOMAIN authorization
              /\ authorization'[i].status = s
              /\ \A j \in DOMAIN authorization :
                    /\ authorization'[j].account_id = authorization[j].account_id
                    /\ authorization'[j].merchant_id = authorization[j].merchant_id
                    /\ authorization'[j].amount = authorization[j].amount
                    /\ j # i => authorization'[j] = authorization[j]
            BY <2>1, StatusChanged DEF TransferInv, Statuses
        <2>3. entries' = entries
            BY <1>4, NothingPosted
        <2> QED
            BY <2>1, <2>2, <2>3, TransferKept
    <1>5. CASE DepositStep
        <2> PICK a \in Accounts, amt \in Amounts,
                 read \in [current_balance : Balances, available_balance : Balances],
                 txn \in TransactionIds, k \in Keys :
                   ValidAmount(amt) /\ Deposit(a, amt, read, txn, k)
            BY <1>5 DEF DepositStep
        <2>1. entries' = entries \cup DepositEntries(txn, a, amt) /\ authorization' = authorization
            BY DepositEffect DEF TransferInv
        <2>2. \A e \in DepositEntries(txn, a, amt) : e.source_auth_id = {}
            BY DEF DepositEntries, Entry
        <2>3. SourcesExist'
            BY <2>1, <2>2 DEF TransferInv, SourcesExist
        <2>4. \A i : Legs(i)' = Legs(i)
            BY <2>1, <2>2 DEF Legs
        <2>5. \A i \in DOMAIN authorization' : IF authorization'[i].status = "CAPTURED"
                                               THEN Transfer(Legs(i)', authorization'[i])
                                               ELSE Legs(i)' = {}
            BY <2>1, <2>4, TransferByHold DEF TransferInv
        <2> QED
            BY <2>3, <2>5 DEF CaptureIsOneTransfer, Transfer, Legs
    <1>6. CASE CreateStep \/ LapseStep \/ UNCHANGED tableVars
        BY <1>1, <1>6 DEF CreateStep, InsertAccount, InsertMerchant, LapseStep, LapseRecord,
                          tableVars
    <1> QED
        BY <1>2, <1>3, <1>4, <1>5, <1>6 DEF TableNext

\* A CAPTURED hold has exactly one transfer behind it, of its amount, between its
\* own account and its own merchant, and no other hold has any: captures that
\* race under several keys move the money once (ledger.py:493-509).
THEOREM CapturesMoveMoneyOnce == TableSpec => []CaptureIsOneTransfer
    <1>1. TableInit => TransferInv
        BY TypeInit DEF TableInit, TransferInv, SourcesExist, CaptureIsOneTransfer
    <1>2. TransferInv => CaptureIsOneTransfer
        BY DEF TransferInv
    <1> QED
        BY <1>1, <1>2, TransferStep, PTL DEF TableSpec

--------------------------------------------------------------------------------
(* The balances are what the entries add up to.                              *)

\* An entry under an id no other has adds its amount to the cents they move.
LEMMA PostedAdded ==
    ASSUME NEW es, IsFiniteSet(PostedCents(es)),
           NEW e, e.amount \in Nat, \A f \in es : f.transaction_id # e.transaction_id
    PROVE  /\ IsFiniteSet(PostedCents(es \cup {e}))
           /\ Cardinality(PostedCents(es)) \in Nat
           /\ Cardinality(PostedCents(es \cup {e})) = Cardinality(PostedCents(es)) + e.amount
    <1> DEFINE x == <<e.transaction_id, e.seq>>
               n == e.amount
               before == PostedCents(es)
    <1>1. PostedCents(es \cup {e}) = before \cup ({x} \X (1..n))
        BY DEF PostedCents
    <1>2. before \cap ({x} \X (1..n)) = {}
        BY DEF PostedCents
    <1>3. IsFiniteSet(before) /\ n \in Nat
        OBVIOUS
    <1>4. /\ IsFiniteSet(before \cup ({x} \X (1..n)))
          /\ Cardinality(before) \in Nat
          /\ Cardinality(before \cup ({x} \X (1..n))) = Cardinality(before) + n
        <2> HIDE DEF x, n, before
        <2> QED
            BY <1>2, <1>3, AddBlock
    <1> QED
        BY <1>1, <1>4

\* BalancesBackedByEntries for one account and one merchant, with the
\* finiteness their sums need.
AccountBacked(a) ==
    /\ IsFiniteSet(PostedCents(DepositsTo(a)))
    /\ IsFiniteSet(PostedCents(CapturesFrom(a)))
    /\ account[a].current_balance = Cardinality(PostedCents(DepositsTo(a)))
                                    - Cardinality(PostedCents(CapturesFrom(a)))

MerchantBacked(m) ==
    /\ IsFiniteSet(PostedCents(EntriesOf(<<"MERCHANT", m>>)))
    /\ merchant[m] = Cardinality(PostedCents(EntriesOf(<<"MERCHANT", m>>)))

\* An entry's party is an item that exists.
PartiesExist ==
    /\ \A a \in Accounts : EntriesOf(<<"ACCOUNT", a>>) # {} => a \in DOMAIN account
    /\ \A m \in Merchants : EntriesOf(<<"MERCHANT", m>>) # {} => m \in DOMAIN merchant

\* The inductive invariant behind BalancesBackedByEntries.  Without
\* PartiesExist an account could be opened, at zero, over entries it has.
BackingInv ==
    /\ TypeOK
    /\ PartiesExist
    /\ \A a \in DOMAIN account : AccountBacked(a)
    /\ \A m \in DOMAIN merchant : MerchantBacked(m)

\* A step that posts nothing may open accounts and merchants at zero and move
\* no posted balance.
LEMMA BackingUnposted ==
    ASSUME BackingInv, TypeOK', entries' = entries,
           DOMAIN account \subseteq DOMAIN account',
           DOMAIN merchant \subseteq DOMAIN merchant',
           \A a \in DOMAIN account : account'[a].current_balance = account[a].current_balance,
           \A a \in DOMAIN account' \ DOMAIN account : account'[a].current_balance = 0,
           \A m \in DOMAIN merchant : merchant'[m] = merchant[m],
           \A m \in DOMAIN merchant' \ DOMAIN merchant : merchant'[m] = 0
    PROVE  BackingInv'
    <1>1. \A party : EntriesOf(party)' = EntriesOf(party)
        BY DEF EntriesOf
    <1>2. \A a : DepositsTo(a)' = DepositsTo(a) /\ CapturesFrom(a)' = CapturesFrom(a)
        BY <1>1 DEF DepositsTo, CapturesFrom
    <1>3. PartiesExist'
        BY <1>1 DEF BackingInv, PartiesExist
    <1>4. PostedCents({}) = {} /\ IsFiniteSet({}) /\ Cardinality({}) = 0
        BY FS_EmptySet DEF PostedCents
    <1>5. ASSUME NEW a \in DOMAIN account' PROVE AccountBacked(a)'
        <2>1. CASE a \in DOMAIN account
            BY <1>2, <2>1 DEF BackingInv, AccountBacked, PostedCents
        <2>2. CASE a \notin DOMAIN account
            <3>1. EntriesOf(<<"ACCOUNT", a>>) = {}
                BY <1>5, <2>2 DEF TypeOK, BackingInv, PartiesExist
            <3>2. DepositsTo(a) = {} /\ CapturesFrom(a) = {}
                BY <3>1 DEF DepositsTo, CapturesFrom
            <3>3. DepositsTo(a)' = {} /\ CapturesFrom(a)' = {}
                BY <1>2, <3>2
            <3>4. PostedCents(DepositsTo(a))' = {} /\ PostedCents(CapturesFrom(a))' = {}
                BY <3>3 DEF PostedCents
            <3> QED
                BY <1>4, <2>2, <3>4 DEF AccountBacked
        <2> QED
            BY <2>1, <2>2
    <1>6. ASSUME NEW m \in DOMAIN merchant' PROVE MerchantBacked(m)'
        <2>1. CASE m \in DOMAIN merchant
            BY <1>1, <2>1 DEF BackingInv, MerchantBacked, PostedCents
        <2>2. CASE m \notin DOMAIN merchant
            <3>1. EntriesOf(<<"MERCHANT", m>>)' = {}
                BY <1>1, <1>6, <2>2 DEF TypeOK, BackingInv, PartiesExist
            <3>2. PostedCents(EntriesOf(<<"MERCHANT", m>>))' = {}
                BY <3>1 DEF PostedCents
            <3> QED
                BY <1>4, <2>2, <3>2 DEF MerchantBacked
        <2> QED
            BY <2>1, <2>2
    <1> QED
        BY <1>3, <1>5, <1>6 DEF BackingInv

LEMMA BackingCapture ==
    ASSUME BackingInv,
           NEW i \in DOMAIN authorization, NEW txn \in TransactionIds, NEW k \in Keys,
           CaptureAuthorization(authorization[i], authorization[i].account_id, txn, k)
    PROVE  BackingInv'
    <1> DEFINE auth == authorization[i]
               a == auth.account_id
               m == auth.merchant_id
               n == auth.amount
               d == Entry(txn, 0, <<"ACCOUNT", a>>, "DEBIT", n, {auth.authorization_id})
               c == Entry(txn, 1, <<"MERCHANT", m>>, "CREDIT", n, {auth.authorization_id})
    <1>1. /\ NewTransactionId(txn)
          /\ n \in Nat
          /\ a \in DOMAIN account
          /\ m \in DOMAIN merchant
          /\ account' = [account EXCEPT ![a].current_balance = @ - n]
          /\ merchant' = [merchant EXCEPT ![m] = @ + n]
          /\ entries' = entries \cup {d, c}
        BY CaptureEffect DEF BackingInv, AuthorizationType, CaptureEntries
    <1>2. /\ d.transaction_id = txn /\ c.transaction_id = txn
          /\ d.amount = n /\ c.amount = n
          /\ d.party = <<"ACCOUNT", a>> /\ c.party = <<"MERCHANT", m>>
          /\ d.source_auth_id # {}
        BY DEF Entry
    <1> HIDE DEF d, c
    <1>3. \A x : EntriesOf(<<"ACCOUNT", x>>)' = EntriesOf(<<"ACCOUNT", x>>)
                                                  \cup (IF x = a THEN {d} ELSE {})
        BY <1>1, <1>2 DEF EntriesOf
    <1>4. \A x : EntriesOf(<<"MERCHANT", x>>)' = EntriesOf(<<"MERCHANT", x>>)
                                                   \cup (IF x = m THEN {c} ELSE {})
        BY <1>1, <1>2 DEF EntriesOf
    <1>5. \A x : /\ DepositsTo(x)' = DepositsTo(x)
                 /\ CapturesFrom(x)' = CapturesFrom(x) \cup (IF x = a THEN {d} ELSE {})
        BY <1>2, <1>3 DEF DepositsTo, CapturesFrom
    <1>6. \A party : \A f \in EntriesOf(party) : f.transaction_id # txn
        BY <1>1 DEF EntriesOf, NewTransactionId
    <1>7. /\ TypeOK'
          /\ account \in [DOMAIN account -> AccountType]
          /\ merchant \in [DOMAIN merchant -> Nat]
          /\ DOMAIN account' = DOMAIN account
          /\ DOMAIN merchant' = DOMAIN merchant
        BY <1>1, TypeCapture DEF BackingInv, TypeOK
    <1>8. PartiesExist'
        BY <1>1, <1>3, <1>4, <1>7 DEF BackingInv, PartiesExist
    <1>9. ASSUME NEW x \in DOMAIN account' PROVE AccountBacked(x)'
        <2>1. AccountBacked(x)
            BY <1>7, <1>9 DEF BackingInv
        <2>2. CASE x = a
            <3>1. /\ IsFiniteSet(PostedCents(CapturesFrom(x) \cup {d}))
                  /\ Cardinality(PostedCents(CapturesFrom(x))) \in Nat
                  /\ Cardinality(PostedCents(CapturesFrom(x) \cup {d}))
                       = Cardinality(PostedCents(CapturesFrom(x))) + n
                <4>1. \A f \in CapturesFrom(x) : f.transaction_id # d.transaction_id
                    BY <1>2, <1>6 DEF CapturesFrom
                <4> QED
                    BY <1>1, <1>2, <2>1, <4>1, PostedAdded DEF AccountBacked
            <3>2. /\ PostedCents(CapturesFrom(x))' = PostedCents(CapturesFrom(x) \cup {d})
                  /\ PostedCents(DepositsTo(x))' = PostedCents(DepositsTo(x))
                BY <1>5, <2>2 DEF PostedCents
            <3>3. account'[x].current_balance = account[x].current_balance - n
                BY <1>1, <1>7, <2>2 DEF AccountType
            <3>4. Cardinality(PostedCents(DepositsTo(x))) \in Nat
                BY <2>1, FS_CardinalityType DEF AccountBacked
            <3> QED
                BY <1>1, <2>1, <3>1, <3>2, <3>3, <3>4 DEF AccountBacked
        <2>3. CASE x # a
            <3>1. /\ PostedCents(CapturesFrom(x))' = PostedCents(CapturesFrom(x))
                  /\ PostedCents(DepositsTo(x))' = PostedCents(DepositsTo(x))
                BY <1>5, <2>3 DEF PostedCents
            <3>2. account'[x] = account[x]
                BY <1>1, <1>7, <1>9, <2>3
            <3> QED
                BY <2>1, <3>1, <3>2 DEF AccountBacked
        <2> QED
            BY <2>2, <2>3
    <1>10. ASSUME NEW x \in DOMAIN merchant' PROVE MerchantBacked(x)'
        <2> DEFINE es == EntriesOf(<<"MERCHANT", x>>)
        <2>1. MerchantBacked(x)
            BY <1>7, <1>10 DEF BackingInv
        <2>2. CASE x = m
            <3>1. /\ IsFiniteSet(PostedCents(es \cup {c}))
                  /\ Cardinality(PostedCents(es \cup {c})) = Cardinality(PostedCents(es)) + n
                <4>1. \A f \in es : f.transaction_id # c.transaction_id
                    BY <1>2, <1>6
                <4>2. IsFiniteSet(PostedCents(es))
                    BY <2>1 DEF MerchantBacked
                <4> HIDE DEF es
                <4> QED
                    BY <1>1, <1>2, <4>1, <4>2, PostedAdded
            <3>2. PostedCents(EntriesOf(<<"MERCHANT", x>>))' = PostedCents(es \cup {c})
                BY <1>4, <2>2 DEF PostedCents
            <3>3. merchant'[x] = merchant[x] + n
                BY <1>1, <1>7, <2>2
            <3> QED
                BY <2>1, <3>1, <3>2, <3>3 DEF MerchantBacked
        <2>3. CASE x # m
            <3>1. PostedCents(EntriesOf(<<"MERCHANT", x>>))' = PostedCents(es)
                BY <1>4, <2>3 DEF PostedCents
            <3>2. merchant'[x] = merchant[x]
                BY <1>1, <1>7, <1>10, <2>3
            <3> QED
                BY <2>1, <3>1, <3>2 DEF MerchantBacked
        <2> QED
            BY <2>2, <2>3
    <1> QED
        BY <1>7, <1>8, <1>9, <1>10 DEF BackingInv

LEMMA BackingDeposit ==
    ASSUME BackingInv, NEW a \in Accounts, NEW amt \in Amounts,
           NEW read \in [current_balance : Balances, available_balance : Balances],
           NEW txn \in TransactionIds, NEW k \in Keys,
           ValidAmount(amt), Deposit(a, amt, read, txn, k)
    PROVE  BackingInv'
    <1> DEFINE d == Entry(txn, 0, <<"ACCOUNT", a>>, "DEBIT", amt, {})
               c == Entry(txn, 1, <<"EXTERNAL", "funding">>, "CREDIT", amt, {})
    <1>1. /\ NewTransactionId(txn)
          /\ amt \in Nat
          /\ a \in DOMAIN account
          /\ account' = [account EXCEPT ![a] = AccountImage(account[a].current_balance + amt,
                                                           account[a].available_balance + amt)]
          /\ merchant' = merchant
          /\ entries' = entries \cup {d, c}
        BY DepositEffect DEF BackingInv, DepositEntries
    <1>2. /\ d.transaction_id = txn
          /\ d.amount = amt
          /\ d.party = <<"ACCOUNT", a>>
          /\ \A x : c.party # <<"ACCOUNT", x>> /\ c.party # <<"MERCHANT", x>>
          /\ d.source_auth_id = {}
        BY DEF Entry
    <1> HIDE DEF d, c
    <1>3. \A x : EntriesOf(<<"ACCOUNT", x>>)' = EntriesOf(<<"ACCOUNT", x>>)
                                                  \cup (IF x = a THEN {d} ELSE {})
        BY <1>1, <1>2 DEF EntriesOf
    <1>4. \A x : EntriesOf(<<"MERCHANT", x>>)' = EntriesOf(<<"MERCHANT", x>>)
        BY <1>1, <1>2 DEF EntriesOf
    <1>5. \A x : /\ CapturesFrom(x)' = CapturesFrom(x)
                 /\ DepositsTo(x)' = DepositsTo(x) \cup (IF x = a THEN {d} ELSE {})
        BY <1>2, <1>3 DEF DepositsTo, CapturesFrom
    <1>6. \A f \in DepositsTo(a) : f.transaction_id # d.transaction_id
        BY <1>1, <1>2 DEF DepositsTo, EntriesOf, NewTransactionId
    <1>7. /\ TypeOK'
          /\ account \in [DOMAIN account -> AccountType]
          /\ DOMAIN account' = DOMAIN account
        BY <1>1, TypeDeposit DEF BackingInv, TypeOK
    <1>8. PartiesExist'
        BY <1>1, <1>3, <1>4, <1>7 DEF BackingInv, PartiesExist
    <1>9. ASSUME NEW x \in DOMAIN account' PROVE AccountBacked(x)'
        <2>1. AccountBacked(x)
            BY <1>7, <1>9 DEF BackingInv
        <2>2. CASE x = a
            <3>1. /\ IsFiniteSet(PostedCents(DepositsTo(x) \cup {d}))
                  /\ Cardinality(PostedCents(DepositsTo(x))) \in Nat
                  /\ Cardinality(PostedCents(DepositsTo(x) \cup {d}))
                       = Cardinality(PostedCents(DepositsTo(x))) + amt
                BY <1>1, <1>2, <1>6, <2>1, <2>2, PostedAdded DEF AccountBacked
            <3>2. /\ PostedCents(DepositsTo(x))' = PostedCents(DepositsTo(x) \cup {d})
                  /\ PostedCents(CapturesFrom(x))' = PostedCents(CapturesFrom(x))
                BY <1>5, <2>2 DEF PostedCents
            <3>3. account'[x].current_balance = account[x].current_balance + amt
                BY <1>1, <1>7, <2>2 DEF AccountImage
            <3>4. Cardinality(PostedCents(CapturesFrom(x))) \in Nat
                BY <2>1, FS_CardinalityType DEF AccountBacked
            <3> QED
                BY <1>1, <2>1, <3>1, <3>2, <3>3, <3>4 DEF AccountBacked
        <2>3. CASE x # a
            <3>1. /\ PostedCents(CapturesFrom(x))' = PostedCents(CapturesFrom(x))
                  /\ PostedCents(DepositsTo(x))' = PostedCents(DepositsTo(x))
                BY <1>5, <2>3 DEF PostedCents
            <3>2. account'[x] = account[x]
                BY <1>1, <1>7, <1>9, <2>3
            <3> QED
                BY <2>1, <3>1, <3>2 DEF AccountBacked
        <2> QED
            BY <2>2, <2>3
    <1>10. ASSUME NEW x \in DOMAIN merchant' PROVE MerchantBacked(x)'
        <2>1. PostedCents(EntriesOf(<<"MERCHANT", x>>))' = PostedCents(EntriesOf(<<"MERCHANT", x>>))
            BY <1>4 DEF PostedCents
        <2> QED
            BY <1>1, <1>10, <2>1 DEF BackingInv, MerchantBacked
    <1> QED
        BY <1>7, <1>8, <1>9, <1>10 DEF BackingInv

LEMMA BackingStep == BackingInv /\ [TableNext]_tableVars => BackingInv'
    <1> SUFFICES ASSUME BackingInv, [TableNext]_tableVars PROVE BackingInv'
        OBVIOUS
    <1>1. TypeOK /\ TypeOK'
        BY TypeStep DEF BackingInv
    <1>2. CASE CaptureStep
        BY <1>2, BackingCapture DEF CaptureStep
    <1>3. CASE DepositStep
        BY <1>3, BackingDeposit DEF DepositStep
    <1>4. CASE CreateStep
        <2>1. CASE \E a \in Accounts : InsertAccount(a)
            BY <1>1, <2>1, BackingUnposted DEF InsertAccount, Put, AccountImage
        <2>2. CASE \E m \in Merchants : InsertMerchant(m)
            BY <1>1, <2>2, BackingUnposted DEF InsertMerchant, Put
        <2> QED
            BY <1>4, <2>1, <2>2 DEF CreateStep
    <1>5. CASE AuthorizeStep \/ VoidStep \/ ExpireStep
        <2>1. \E a, n : account' = [account EXCEPT ![a].available_balance = n]
            <3>1. CASE AuthorizeStep
                <4> PICK i \in AuthorizationIds, a \in Accounts, m \in DOMAIN merchant,
                         amt \in Amounts, today \in Days, k \in Keys :
                           InsertAuthorization(i, a, m, amt, today, k)
                    BY <3>1 DEF AuthorizeStep
                <4> QED
                    BY DEF InsertAuthorization
            <3>2. CASE VoidStep
                BY <3>2 DEF VoidStep, VoidAuthorization
            <3>3. CASE ExpireStep
                BY <3>3 DEF ExpireStep, ExpireHold
            <3> QED
                BY <1>5, <3>1, <3>2, <3>3
        <2>2. merchant' = merchant /\ entries' = entries
            <3>1. CASE AuthorizeStep
                BY <3>1 DEF AuthorizeStep, InsertAuthorization
            <3>2. CASE VoidStep
                BY <3>2 DEF VoidStep, VoidAuthorization
            <3>3. CASE ExpireStep
                BY <3>3 DEF ExpireStep, ExpireHold
            <3> QED
                BY <1>5, <3>1, <3>2, <3>3
        <2>3. /\ DOMAIN account' = DOMAIN account
              /\ \A b \in DOMAIN account : account'[b].current_balance = account[b].current_balance
            BY <1>1, <2>1 DEF TypeOK, AccountType
        <2> QED
            BY <1>1, <2>2, <2>3, BackingUnposted
    <1>6. CASE LapseStep \/ UNCHANGED tableVars
        BY <1>1, <1>6, BackingUnposted DEF LapseStep, LapseRecord, tableVars
    <1> QED
        BY <1>2, <1>3, <1>4, <1>5, <1>6 DEF TableNext

\* The denormalised balances never drift from the entries: an account's posted
\* balance is what was deposited less what was captured, a merchant's payable
\* balance what was captured for it, whatever stale reads the transactions were
\* built from and however often an account's creation is repeated.
THEOREM EntriesBackBalances == TableSpec => []BalancesBackedByEntries
    <1>1. TableInit => BackingInv
        BY TypeInit DEF TableInit, BackingInv, PartiesExist, EntriesOf
    <1>2. BackingInv => BalancesBackedByEntries
        BY DEF BackingInv, AccountBacked, MerchantBacked, BalancesBackedByEntries
    <1> QED
        BY <1>1, <1>2, BackingStep, PTL DEF TableSpec

================================================================================
