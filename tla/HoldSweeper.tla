------------------------------ MODULE HoldSweeper ------------------------------
(***************************************************************************)
(* The expired-hold sweeper: a Lambda on a 15-minute schedule that scans   *)
(* the expiry index page by page and then releases what it found, one      *)
(* transaction per hold (get_expired_holds and update_expired_holds in     *)
(* src/layers/shared/ledger.py).  The index lags the table, the clients go *)
(* on capturing and voiding, sweeps overlap when one outlasts the schedule *)
(* or is invoked again, and a sweep may fail anywhere.                     *)
(*                                                                         *)
(* Time is a clock that jumps from one of the Instants to the next; a date *)
(* is a whole number of days of TicksPerDay.                               *)
(***************************************************************************)
EXTENDS LedgerTable, Sequences

CONSTANTS
    Sweepers,     \* concurrent invocations of the sweeper
    Instants,     \* the times at which anything may happen: bounds the clock
    TicksPerDay,  \* how finely a day is divided
    CallTicks,    \* the longest an invocation lives: the function's timeout
    MaxFaults     \* how many sweeps fail: bounds the faults

\* datetime.date.today()
Day(t) == t \div TicksPerDay

ASSUME InstantsAssumption == Instants \subseteq Nat
ASSUME TicksAssumption == TicksPerDay \in Nat \ {0}
ASSUME CallAssumption == CallTicks \in Nat
ASSUME FaultsAssumption == MaxFaults \in Nat
ASSUME CalendarAssumption == {Day(t) : t \in Instants} \subseteq Days

VARIABLES
    now,     \* the time
    dated,   \* when each authorize read the clock, by the id it drew then
    placed,  \* when each hold was placed: a history variable
    index,   \* what EXPIRED_GSI shows of each authorization
    sweep,   \* what each invocation of the sweeper is doing
    faults   \* sweeps that have failed

sweepVars == <<now, dated, placed, index, sweep, faults>>
vars == <<tableVars, sweepVars>>

--------------------------------------------------------------------------------

\* An invocation scans, then releases what it listed.  `listed` is a history
\* field: what the index held when the scan began, all of which the scan reads.
NoSweep == [phase |-> "off", today |-> 0, listed |-> {}, seen |-> {}, batch |-> <<>>]

Due_Fault(item, today) == item.status = "PENDING" /\ item.expires_at <= today + 1

Due_OnTheDay(item, today) == item.status = "PENDING" /\ item.expires_at = today

\* FilterExpression: #status = :pending AND expires_at <= :today
Due(item, today) == item.status = "PENDING" /\ item.expires_at <= today

StartSweep(s) ==
    /\ sweep[s].phase = "off"
    /\ sweep' = [sweep EXCEPT ![s] = [NoSweep EXCEPT !.phase = "scan",
                                                     !.today = Day(now),
                                                     !.listed = DOMAIN index]]
    /\ UNCHANGED <<tableVars, now, dated, placed, index, faults>>

ReadItem_Fault(s) ==
    /\ sweep[s].phase = "scan"
    /\ \E i \in DOMAIN index :
          sweep' = [sweep EXCEPT ![s].seen = @ \cup {i},
                                 ![s].batch = IF Due(index[i], sweep[s].today)
                                              THEN Append(@, index[i]) ELSE @]
    /\ UNCHANGED <<tableVars, now, dated, placed, index, faults>>

\* The next item of a page, in an order of the index's own; the next page goes
\* on from ExclusiveStartKey.
ReadItem(s) ==
    /\ sweep[s].phase = "scan"
    /\ \E i \in DOMAIN index \ sweep[s].seen :
          sweep' = [sweep EXCEPT ![s].seen = @ \cup {i},
                                 ![s].batch = IF Due(index[i], sweep[s].today)
                                              THEN Append(@, index[i]) ELSE @]
    /\ UNCHANGED <<tableVars, now, dated, placed, index, faults>>

\* No LastEvaluatedKey: items that reached the index meanwhile may be missed.
LastPage(s) ==
    /\ sweep[s].phase = "scan"
    /\ sweep[s].listed \subseteq sweep[s].seen
    /\ sweep' = [sweep EXCEPT ![s].phase = "release", ![s].seen = {}]
    /\ UNCHANGED <<tableVars, now, dated, placed, index, faults>>

ReleaseHold(s) ==
    /\ sweep[s].phase = "release" /\ sweep[s].batch # <<>>
    /\ ExpireHold(Head(sweep[s].batch))
    /\ sweep' = [sweep EXCEPT ![s].batch = Tail(@)]
    /\ UNCHANGED <<now, dated, placed, index, faults>>

SkipHold_Fault(s) ==
    /\ sweep[s].phase = "release" /\ sweep[s].batch # <<>>
    /\ 1 \in ExpireReasons(Head(sweep[s].batch))
    /\ sweep' = [sweep EXCEPT ![s].batch = <<>>]
    /\ UNCHANGED <<tableVars, now, dated, placed, index, faults>>

\* No longer PENDING by sweep time: `continue`.
SkipHold(s) ==
    /\ sweep[s].phase = "release" /\ sweep[s].batch # <<>>
    /\ 1 \in ExpireReasons(Head(sweep[s].batch))
    /\ sweep' = [sweep EXCEPT ![s].batch = Tail(@)]
    /\ UNCHANGED <<tableVars, now, dated, placed, index, faults>>

Finish(s) ==
    /\ sweep[s].phase = "release" /\ sweep[s].batch = <<>>
    /\ sweep' = [sweep EXCEPT ![s] = NoSweep]
    /\ UNCHANGED <<tableVars, now, dated, placed, index, faults>>

\* A scan or a transaction raises for any other reason (a conflict, a throttle),
\* or the function times out: the rest of the batch is dropped.
Fail(s) ==
    /\ faults < MaxFaults
    /\ sweep[s].phase # "off"
    /\ faults' = faults + 1
    /\ sweep' = [sweep EXCEPT ![s] = NoSweep]
    /\ UNCHANGED <<tableVars, now, dated, placed, index>>

--------------------------------------------------------------------------------
(* The clock, the index and the clients.                                     *)

Tick ==
    /\ \E t \in Instants :
          /\ t > now
          /\ \A u \in Instants : u > now => t <= u
          /\ now' = t
    /\ UNCHANGED <<tableVars, dated, placed, index, sweep, faults>>

\* The index shows an item's latest image some time after each write of it.
IndexCatchesUp(i) ==
    /\ i \in DOMAIN authorization
    /\ i \in DOMAIN index => index[i] # authorization[i]
    /\ index' = Put(index, i, authorization[i])
    /\ UNCHANGED <<tableVars, now, dated, placed, sweep, faults>>

\* insert_authorization draws the id and reads the clock, from which it dates
\* the hold ...
DateHold(i) ==
    /\ i \notin DOMAIN dated
    /\ dated' = Put(dated, i, now)
    /\ UNCHANGED <<tableVars, now, placed, index, sweep, faults>>

\* ... and commits some time after, over midnight perhaps, or never.
PlaceHold(i) ==
    /\ i \in DOMAIN dated
    /\ now <= dated[i] + CallTicks
    /\ \E a \in Accounts, m \in DOMAIN merchant, amt \in Amounts, k \in Keys :
          /\ ValidAmount(amt)
          /\ InsertAuthorization(i, a, m, amt, Day(dated[i]), k)
    /\ placed' = Put(placed, i, now)
    /\ UNCHANGED <<now, dated, index, sweep, faults>>

\* Captures and voids are accepted past expires_at, until a sweep gets there.
OtherWrites ==
    /\ CreateStep \/ CaptureStep \/ VoidStep \/ DepositStep \/ LapseStep
    /\ UNCHANGED sweepVars

--------------------------------------------------------------------------------

ClockInit ==
    /\ now \in Instants
    /\ dated = [i \in {} |-> 0]
    /\ placed = [i \in {} |-> 0]
    /\ index = [i \in {} |-> i]
    /\ sweep = [s \in Sweepers |-> NoSweep]
    /\ faults = 0

SweeperInit == TableInit /\ ClockInit

SweepStep(s) ==
    \/ ReadItem(s)
    \/ LastPage(s)
    \/ ReleaseHold(s)
    \/ SkipHold(s)
    \/ Finish(s)

SweeperNext ==
    \/ \E s \in Sweepers : StartSweep(s) \/ SweepStep(s) \/ Fail(s)
    \/ \E i \in AuthorizationIds : IndexCatchesUp(i) \/ DateHold(i) \/ PlaceHold(i)
    \/ Tick
    \/ OtherWrites

\* The schedule keeps firing, a sweep that runs goes on, the index catches up
\* and time passes.  Nothing makes clients act or record their holds' ends.
Fairness ==
    /\ WF_vars(Tick)
    /\ \A i \in AuthorizationIds : WF_vars(IndexCatchesUp(i))
    /\ \A s \in Sweepers : WF_vars(StartSweep(s)) /\ WF_vars(SweepStep(s))

SweeperSpec == SweeperInit /\ [][SweeperNext]_vars /\ Fairness

--------------------------------------------------------------------------------
(* What the schedule is trusted with.                                        *)

\* Everything a sweep works from is an earlier image of a hold: same terms,
\* PENDING when it was read; a sweep lists no hold twice.
SweepTypeOK ==
    /\ now \in Instants
    /\ DOMAIN index \subseteq DOMAIN authorization
    /\ DOMAIN placed = DOMAIN authorization /\ DOMAIN placed \subseteq DOMAIN dated
    /\ \A i \in DOMAIN index :
          index[i] \in {authorization[i], [authorization[i] EXCEPT !.status = "PENDING"]}
    /\ \A s \in Sweepers :
          /\ sweep[s].phase \in {"off", "scan", "release"}
          /\ sweep[s].today \in Days \cup {0}
          /\ sweep[s].listed \cup sweep[s].seen \subseteq DOMAIN index
          /\ \A n \in DOMAIN sweep[s].batch :
                LET hold == sweep[s].batch[n]
                    i == hold.authorization_id
                IN  /\ i \in DOMAIN authorization
                    /\ hold = [authorization[i] EXCEPT !.status = "PENDING"]
                    /\ \A m \in DOMAIN sweep[s].batch :
                          m # n => sweep[s].batch[m].authorization_id # i
    /\ faults \in 0..MaxFaults

\* A hold's funds stay reserved for more than six days from the commit, by the
\* clock, less the time the authorize took to get there, whatever sweep
\* releases it: expires_at is a date a week after the clock was read, and the
\* filter takes it from that date's first hour (ledger.py:288, 305, 653).
HoldsLiveSixDays ==
    [][\A i \in DOMAIN authorization :
          authorization[i].status = "PENDING" /\ authorization'[i].status = "EXPIRED"
              => now + CallTicks > placed[i] + (HoldDays - 1) * TicksPerDay]_vars

\* A sweep that ends normally has left no hold behind that the index held when
\* it began and that was due: a hold resolved in between costs it nothing but
\* that hold (ledger.py:717-725).
SweepLeavesNothingDue ==
    [][\A s \in Sweepers : Finish(s) =>
          \A i \in sweep[s].listed :
              authorization[i].expires_at <= sweep[s].today
                  => authorization[i].status # "PENDING"]_vars

\* Every hold past its date is resolved in the end, whatever sweeps were
\* skipped, overlapped or failed, and however late the index shows the hold:
\* the filter takes every date up to today, not today's (ledger.py:642-653).
Overdue(i) ==
    /\ i \in DOMAIN authorization
    /\ authorization[i].status = "PENDING"
    /\ authorization[i].expires_at <= Day(now)

OverdueHoldsAreReleased == \A i \in AuthorizationIds : Overdue(i) ~> ~Overdue(i)

================================================================================
