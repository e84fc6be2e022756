------------------------------ MODULE CardService ------------------------------
(***************************************************************************)
(* What the API promises over a CardLedger: each call is answered in one   *)
(* step.  It takes effect then and there, or is told the effect its key    *)
(* already stands for, or is refused for a reason that holds at that       *)
(* moment.  A client may also learn nothing, before the effect or after.   *)
(* Where reads lag, what is looked up may be missed; where calls may fail, *)
(* a failure is one more refusal, and as any other it leaves no effect.    *)
(***************************************************************************)
EXTENDS CardLedger

CONSTANTS
    Requests,
    Lagging,  \* may a lookup show what once was?
    Failing   \* may a call fail for no reason of its request's?

VARIABLES
    asked,  \* the request of each call, or <<>>
    told    \* its answer, or <<>>

serviceVars == <<cardVars, asked, told>>

Ask(c) ==
    /\ asked[c] = <<>>
    /\ \E r \in Requests : asked' = [asked EXCEPT ![c] = r]
    /\ UNCHANGED <<cardVars, told>>

Tell(c, answer) ==
    /\ asked[c] # <<>> /\ told[c] = <<>>
    /\ told' = [told EXCEPT ![c] = answer]
    /\ UNCHANGED asked

\* The hold a capture or void names is the caller's own.
Owns(r) == r.target \in DOMAIN hold /\ hold[r.target].account = r.account

Effect(r) ==
    CASE r.op = "authorize" ->
            \E i \in AuthorizationIds : Reserve(i, r.account, r.merchant, r.amount, r.key)
      [] r.op = "capture"   -> Owns(r) /\ Settle(r.target, r.key)
      [] r.op = "void"      -> Owns(r) /\ Release(r.target, r.key)
      [] r.op = "deposit"   -> Fund(r.account, r.amount, r.key)
      [] r.op = "merchant"  -> Enroll(r.merchant)

\* A merchant's creation has no key: told late, it may be told as a refusal.
Perform(c) ==
    /\ Effect(asked[c])
    /\ IF asked[c].op = "merchant"
       THEN \E answer \in {<<"enrolled", asked[c].merchant>>,
                           <<"refused", "MerchantAlreadyExists">>} : Tell(c, answer)
       ELSE Tell(c, answered'[asked[c].key])

Keyed(r) == r.op # "merchant" /\ r.key \in DOMAIN answered

Replay(c) ==
    /\ Keyed(asked[c])
    /\ Tell(c, answered[asked[c].key])
    /\ UNCHANGED cardVars

InState(r, state) == Owns(r) /\ hold[r.target].state = state

\* The reasons that hold of a request.  Nothing that is looked up is ever
\* removed: what a lagging lookup misses was once not there.
Reasons(r) ==
    LET resolves == r.op \in {"capture", "void"}
        moves == r.op \in {"authorize", "deposit"}
        onlyIf(condition, name) == IF condition THEN {name} ELSE {}
    IN  onlyIf(r.op # "merchant" /\ r.key = <<>>, "MissingIdempotencyKey")
        \cup onlyIf(moves /\ r.amount <= 0, "InvalidRequest")
        \cup onlyIf(moves /\ Keyed(r), "IdempotencyKeyReuse")
        \cup onlyIf(r.op = "authorize" /\ (Lagging \/ r.merchant \notin DOMAIN payable),
                    "UnknownMerchant")
        \cup onlyIf(r.op = "authorize" /\ (r.account \in DOMAIN posted
                                              => r.amount > Available(r.account)),
                    "InsufficientFunds")
        \cup onlyIf(r.op = "deposit" /\ (Lagging \/ r.account \notin DOMAIN posted), "NotFound")
        \cup onlyIf(r.op = "merchant" /\ r.merchant \in DOMAIN payable, "MerchantAlreadyExists")
        \cup onlyIf(resolves /\ (Lagging \/ ~Owns(r)), "AuthorizationNotFound")
        \cup onlyIf(resolves /\ InState(r, "settled"), "AlreadyCaptured")
        \cup onlyIf(resolves /\ InState(r, "released"), "AlreadyVoided")
        \cup onlyIf(resolves /\ InState(r, "expired"), "AuthorizationExpired")
        \cup onlyIf(Failing /\ r.op # "merchant", "InternalServerError")

Refuse(c) ==
    /\ \E reason \in Reasons(asked[c]) : Tell(c, <<"refused", reason>>)
    /\ UNCHANGED cardVars

Lose(c) ==
    /\ asked[c] # <<>>
    /\ told' = [told EXCEPT ![c] = <<"lost">>]
    /\ UNCHANGED <<cardVars, asked>>

Answer(c) == Perform(c) \/ Replay(c) \/ Refuse(c)

ServiceNext ==
    \/ \E c \in DOMAIN asked : Ask(c) \/ Lose(c) \/ (asked[c] # <<>> /\ Answer(c))
    \/ /\ \/ \E a \in Accounts : Open(a)
          \/ \E i \in AuthorizationIds : Expire(i)
          \/ \E k \in Keys : Forget(k)
       /\ UNCHANGED <<asked, told>>

================================================================================
