------------------------------- MODULE CardLedger -------------------------------
(***************************************************************************)
(* What the ledger promises its clients, with none of how it is kept:      *)
(* posted funds, holds against them, and each idempotency key answered by  *)
(* one effect.  What an account has available is not stored but derived,   *)
(* and a hold is held, then settled, released or expired, once.            *)
(* LedgerTable is shown to implement this.                                 *)
(***************************************************************************)
EXTENDS Integers, FiniteSets

CONSTANTS Accounts, Merchants, AuthorizationIds, Amounts, Keys

VARIABLES
    posted,    \* what each open account owns
    payable,   \* what each enrolled merchant is owed
    hold,      \* every hold ever placed
    answered   \* the effect that each key in use stands for

cardVars == <<posted, payable, hold, answered>>

Extend(f, x, v) == [y \in DOMAIN f \cup {x} |-> IF y = x THEN v ELSE f[y]]

\* The cents an account may not spend: one block per hold that is held.
Reserved(a) ==
    UNION {{i} \X (1..hold[i].amount) :
              i \in {j \in DOMAIN hold : hold[j].account = a /\ hold[j].state = "held"}}

Available(a) == posted[a] - Cardinality(Reserved(a))

\* An effect takes its key, and no key is taken twice.
Answers(k, effect) ==
    /\ k \notin DOMAIN answered
    /\ answered' = Extend(answered, k, effect)

--------------------------------------------------------------------------------

Open(a) ==
    /\ a \in Accounts \ DOMAIN posted
    /\ posted' = Extend(posted, a, 0)
    /\ UNCHANGED <<payable, hold, answered>>

Enroll(m) ==
    /\ m \in Merchants \ DOMAIN payable
    /\ payable' = Extend(payable, m, 0)
    /\ UNCHANGED <<posted, hold, answered>>

Fund(a, amt, k) ==
    /\ a \in DOMAIN posted
    /\ posted' = [posted EXCEPT ![a] = @ + amt]
    /\ Answers(k, <<"funded", posted[a] + amt, Available(a) + amt>>)
    /\ UNCHANGED <<payable, hold>>

Reserve(i, a, m, amt, k) ==
    /\ i \in AuthorizationIds \ DOMAIN hold
    /\ a \in DOMAIN posted /\ m \in DOMAIN payable
    /\ amt <= Available(a)
    /\ hold' = Extend(hold, i, [account |-> a, merchant |-> m, amount |-> amt,
                                state |-> "held"])
    /\ Answers(k, <<"held", i>>)
    /\ UNCHANGED <<posted, payable>>

Settle(i, k) ==
    /\ i \in DOMAIN hold /\ hold[i].state = "held"
    /\ hold' = [hold EXCEPT ![i].state = "settled"]
    /\ posted' = [posted EXCEPT ![hold[i].account] = @ - hold[i].amount]
    /\ payable' = [payable EXCEPT ![hold[i].merchant] = @ + hold[i].amount]
    /\ Answers(k, <<"settled", i>>)

Release(i, k) ==
    /\ i \in DOMAIN hold /\ hold[i].state = "held"
    /\ hold' = [hold EXCEPT ![i].state = "released"]
    /\ Answers(k, <<"released", i>>)
    /\ UNCHANGED <<posted, payable>>

Expire(i) ==
    /\ i \in DOMAIN hold /\ hold[i].state = "held"
    /\ hold' = [hold EXCEPT ![i].state = "expired"]
    /\ UNCHANGED <<posted, payable, answered>>

\* A day later a key may be taken again.
Forget(k) ==
    /\ k \in DOMAIN answered
    /\ answered' = [x \in DOMAIN answered \ {k} |-> answered[x]]
    /\ UNCHANGED <<posted, payable, hold>>

Init ==
    /\ posted = [a \in {} |-> 0]
    /\ payable = [m \in {} |-> 0]
    /\ hold = [i \in {} |-> i]
    /\ answered = [k \in {} |-> k]

Next ==
    \/ \E a \in Accounts : Open(a)
    \/ \E m \in Merchants : Enroll(m)
    \/ \E a \in Accounts, amt \in Amounts, k \in Keys : amt > 0 /\ Fund(a, amt, k)
    \/ \E i \in AuthorizationIds, a \in Accounts, m \in Merchants, amt \in Amounts, k \in Keys :
          amt > 0 /\ Reserve(i, a, m, amt, k)
    \/ \E i \in AuthorizationIds, k \in Keys : Settle(i, k) \/ Release(i, k)
    \/ \E i \in AuthorizationIds : Expire(i)
    \/ \E k \in Keys : Forget(k)

Spec == Init /\ [][Next]_cardVars

================================================================================
