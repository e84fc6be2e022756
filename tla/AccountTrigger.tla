----------------------------- MODULE AccountTrigger -----------------------------
(***************************************************************************)
(* The create_account Lambda: Cognito calls it when a user has confirmed a *)
(* sign-up, and it inserts the user's account.  A put that cannot reach    *)
(* DynamoDB, or whose response is lost after it was applied, is tried      *)
(* again; Cognito gives the whole flow five seconds and may deliver one    *)
(* confirmation twice.                                                     *)
(***************************************************************************)
EXTENDS LedgerTable

CONSTANTS
    Signups,        \* invocations of the trigger
    InsertAttempts  \* INSERT_ACCOUNT_MAX_ATTEMPTS

ASSUME InsertAttemptsAssumption == InsertAttempts \in Nat \ {0}

VARIABLE signup  \* where each invocation is, for whom, in which attempt

--------------------------------------------------------------------------------

Inserting(s, a) == signup[s].phase = "inserting" /\ signup[s].user = {a}

Move(s, phase) == signup' = [signup EXCEPT ![s].phase = phase]

Confirm(s) ==
    /\ signup[s].phase = "none"
    /\ \E a \in Accounts :
          signup' = [signup EXCEPT ![s] = [phase |-> "inserting", user |-> {a}, attempt |-> 1]]
    /\ UNCHANGED tableVars

\* The put commits, or finds the account (AccountAlreadyExists): both return.
Insert(s) ==
    \E a \in Accounts :
        /\ Inserting(s, a)
        /\ InsertAccount(a) \/ (a \in DOMAIN account /\ UNCHANGED tableVars)
        /\ Move(s, "returned")

Retry_Forever(s) ==
    signup' = [signup EXCEPT ![s].phase = "sleeping", ![s].attempt = 0]

Retry_Swallow(s) ==
    IF signup[s].attempt = InsertAttempts THEN Move(s, "returned") ELSE Move(s, "sleeping")

\* `except BotoConnectionError`: raise after the last attempt.
Retry(s) ==
    IF signup[s].attempt = InsertAttempts THEN Move(s, "raised") ELSE Move(s, "sleeping")

\* DynamoDB was not reached, or it was and the response is lost.  Coarser than
\* the code, which retries only when the client library ends in a failure to
\* connect; a lost response that it reports otherwise is raised at once, which
\* to the account is this step and then TimeOut.
LoseContact(s) ==
    \E a \in Accounts :
        /\ Inserting(s, a)
        /\ InsertAccount(a) \/ UNCHANGED tableVars
        /\ Retry(s)

\* After time.sleep, the next attempt.
WakeUp(s) ==
    /\ signup[s].phase = "sleeping"
    /\ signup' = [signup EXCEPT ![s].phase = "inserting",
                                ![s].attempt = @ + 1]
    /\ UNCHANGED tableVars

\* Cognito's five seconds are over, or the function is killed.
TimeOut(s) ==
    /\ signup[s].phase \in {"inserting", "sleeping"}
    /\ Move(s, "raised")
    /\ UNCHANGED tableVars

SignupInit == signup = [s \in Signups |-> [phase |-> "none", user |-> {}, attempt |-> 0]]

Run(s) == Insert(s) \/ LoseContact(s) \/ WakeUp(s)

SignupStep(s) == Confirm(s) \/ Run(s) \/ TimeOut(s)

--------------------------------------------------------------------------------

\* A trigger that returned to Cognito has left its user an account, whichever of
\* its attempts or its rivals wrote it: there is no later chance, since Cognito
\* does not call again (03-data-model.md:18-25).
ReturnedMeansOpened ==
    \A s \in Signups : signup[s].phase = "returned" => signup[s].user \subseteq DOMAIN account

\* Every invocation returns or raises: the attempts are bounded
\* (create_account/handler.py:44).
EverySignUpEnds ==
    \A s \in Signups : signup[s].phase # "none" ~> signup[s].phase \in {"returned", "raised"}

================================================================================
