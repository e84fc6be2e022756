--------------------------- MODULE HoldSweeperProofs ---------------------------
(***************************************************************************)
(* Theorems about HoldSweeper: it implements LedgerTable, and never        *)
(* releases a hold early, for every number of sweepers, holds and instants.*)
(***************************************************************************)
EXTENDS HoldSweeper, LedgerTableProofs, SequenceTheorems

SweepType ==
    [phase : {"off", "scan", "release"}, today : Days \cup {0},
     listed : SUBSET AuthorizationIds, seen : SUBSET AuthorizationIds,
     batch : Seq(AuthorizationType)]

\* An image of a hold that was PENDING when it was taken.
PendingImage(item) ==
    /\ item.authorization_id \in DOMAIN authorization
    /\ item = [authorization[item.authorization_id] EXCEPT !.status = "PENDING"]

\* A hold is dated by the day on which its authorize read the clock, and placed
\* no later than that invocation can live.
DatedByItsDay ==
    /\ dated \in [DOMAIN dated -> Instants]
    /\ DOMAIN placed = DOMAIN authorization /\ DOMAIN placed \subseteq DOMAIN dated
    /\ placed \in [DOMAIN placed -> Instants]
    /\ \A i \in DOMAIN authorization :
          /\ authorization[i].expires_at = Day(dated[i]) + HoldDays
          /\ placed[i] <= dated[i] + CallTicks

\* The index shows earlier images of holds.
IndexLags ==
    /\ index \in [DOMAIN index -> AuthorizationType]
    /\ DOMAIN index \subseteq DOMAIN authorization
    /\ \A i \in DOMAIN index :
          index[i] \in {authorization[i], [authorization[i] EXCEPT !.status = "PENDING"]}

\* A sweep's batch is of images of holds that were PENDING and due when they
\* were read; while it scans, each is of an item it has read.
BatchIsDue(s) ==
    \A n \in DOMAIN sweep[s].batch :
        /\ PendingImage(sweep[s].batch[n])
        /\ sweep[s].batch[n].expires_at <= sweep[s].today
        /\ sweep[s].phase = "scan" => sweep[s].batch[n].authorization_id \in sweep[s].seen

BatchIsDistinct(s) ==
    \A m, n \in DOMAIN sweep[s].batch :
        sweep[s].batch[m].authorization_id = sweep[s].batch[n].authorization_id => m = n

SweepInv ==
    /\ TypeOK
    /\ now \in Instants /\ faults \in 0..MaxFaults
    /\ DatedByItsDay
    /\ IndexLags
    /\ sweep \in [Sweepers -> SweepType]
    /\ \A s \in Sweepers :
          /\ sweep[s].today <= Day(now)
          /\ sweep[s].listed \cup sweep[s].seen \subseteq DOMAIN index
          /\ BatchIsDue(s)
          /\ BatchIsDistinct(s)

--------------------------------------------------------------------------------
(* The calendar.                                                             *)

\* Days follow the instants, and begin at the multiples of TicksPerDay.
LEMMA DayType == ASSUME NEW t \in Nat PROVE Day(t) \in Nat
    BY TicksAssumption DEF Day

LEMMA DayBounds ==
    ASSUME NEW t \in Nat
    PROVE  Day(t) * TicksPerDay <= t /\ t < (Day(t) + 1) * TicksPerDay
    BY TicksAssumption DEF Day

LEMMA DayMonotone ==
    ASSUME NEW t \in Nat, NEW u \in Nat, t <= u PROVE Day(t) <= Day(u)
    BY TicksAssumption DEF Day

\* From a hold's placing to the day that is a week later, more than six days.
LEMMA AWeekIsSixDays ==
    ASSUME NEW t \in Nat, NEW u \in Nat, Day(t) + HoldDays <= Day(u)
    PROVE  u > t + (HoldDays - 1) * TicksPerDay
    <1> DEFINE d == Day(t)
               e == Day(u)
    <1>1. d \in Nat /\ e \in Nat /\ TicksPerDay \in Nat /\ d + 7 <= e
        BY DayType, TicksAssumption DEF HoldDays
    <1>2. t < (d + 1) * TicksPerDay /\ e * TicksPerDay <= u
        BY DayBounds
    <1>3. (d + 1) * TicksPerDay + 6 * TicksPerDay = (d + 7) * TicksPerDay
        <2> HIDE DEF d
        <2> QED
            BY <1>1
    <1>4. (d + 7) * TicksPerDay <= e * TicksPerDay
        <2> HIDE DEF d, e
        <2>1. \A x, y, z \in Nat : x <= y => x * z <= y * z
            OBVIOUS
        <2>2. d + 7 \in Nat
            BY <1>1
        <2> QED
            BY <1>1, <2>1, <2>2
    <1>5. \A a, b, c, x, y, z \in Int : x < a /\ a + b = c /\ c <= y /\ y <= z => z > x + b
        OBVIOUS
    <1>6. /\ (d + 1) * TicksPerDay \in Int /\ 6 * TicksPerDay \in Int
          /\ (d + 7) * TicksPerDay \in Int /\ e * TicksPerDay \in Int
        <2> HIDE DEF d, e
        <2> QED
            BY <1>1
    <1>7. u > t + 6 * TicksPerDay
        <2> HIDE DEF d, e
        <2> QED
            BY <1>2, <1>3, <1>4, <1>5, <1>6
    <1> QED
        BY <1>7 DEF HoldDays

--------------------------------------------------------------------------------
(* Every step of the sweeper is a step of the table, or leaves it alone.     *)

\* The sweeper releases the hold as it is: its image differs from the item in
\* nothing but a status, and the guard has found the item PENDING.
LEMMA ReleaseIsExpiry ==
    ASSUME SweepInv, NEW s \in Sweepers, ReleaseHold(s) PROVE ExpireStep
    <1> DEFINE hold == Head(sweep[s].batch)
               i == hold.authorization_id
    <1>1. sweep[s].batch # <<>> /\ sweep[s].batch \in Seq(AuthorizationType)
        BY DEF ReleaseHold, SweepInv, SweepType
    <1>2. 1 \in DOMAIN sweep[s].batch /\ hold = sweep[s].batch[1]
        BY <1>1
    <1>3. PendingImage(hold)
        BY <1>2 DEF SweepInv, BatchIsDue
    <1>4. ExpireHold(hold)
        BY DEF ReleaseHold
    <1>5. authorization[i].status = "PENDING"
        BY <1>4 DEF ExpireHold, ExpireReasons, Failed, StillPending
    <1>6. i \in DOMAIN authorization /\ authorization[i] \in AuthorizationType
        BY <1>3 DEF PendingImage, SweepInv, TypeOK
    <1>7. hold = authorization[i]
        BY <1>3, <1>5, <1>6 DEF PendingImage, AuthorizationType
    <1> HIDE DEF hold
    <1> QED
        BY <1>4, <1>6, <1>7 DEF ExpireStep

LEMMA PlacingIsAuthorize ==
    ASSUME SweepInv, NEW i \in AuthorizationIds, PlaceHold(i) PROVE AuthorizeStep
    <1> PICK a \in Accounts, m \in DOMAIN merchant, amt \in Amounts, k \in Keys :
                 ValidAmount(amt) /\ InsertAuthorization(i, a, m, amt, Day(dated[i]), k)
        BY DEF PlaceHold
    <1>1. Day(dated[i]) \in Days
        <2>1. dated[i] \in Instants
            BY DEF SweepInv, DatedByItsDay, PlaceHold
        <2> QED
            BY <2>1, CalendarAssumption
    <1> QED
        BY <1>1 DEF AuthorizeStep

LEMMA SweeperTable == SweepInv /\ [SweeperNext]_vars => [TableNext]_tableVars
    <1> SUFFICES ASSUME SweepInv, [SweeperNext]_vars PROVE [TableNext]_tableVars
        OBVIOUS
    <1>1. CASE \E s \in Sweepers : ReleaseHold(s)
        BY <1>1, ReleaseIsExpiry DEF TableNext
    <1>2. CASE \E i \in AuthorizationIds : PlaceHold(i)
        BY <1>2, PlacingIsAuthorize DEF TableNext
    <1>3. CASE OtherWrites
        BY <1>3 DEF OtherWrites, TableNext
    <1>4. CASE UNCHANGED tableVars
        BY <1>4
    <1>5. ASSUME NEW s \in Sweepers,
                 \/ StartSweep(s) \/ ReadItem(s) \/ LastPage(s) \/ SkipHold(s)
                 \/ Finish(s) \/ Fail(s)
          PROVE  UNCHANGED tableVars
        BY <1>5 DEF StartSweep, ReadItem, LastPage, SkipHold, Finish, Fail
    <1>6. ASSUME NEW i \in AuthorizationIds, IndexCatchesUp(i) \/ DateHold(i)
          PROVE  UNCHANGED tableVars
        BY <1>6 DEF IndexCatchesUp, DateHold
    <1>7. Tick => UNCHANGED tableVars
        BY DEF Tick
    <1> QED
        BY <1>1, <1>2, <1>3, <1>4, <1>5, <1>6, <1>7 DEF SweeperNext, SweepStep, vars

--------------------------------------------------------------------------------
(* The invariant of the sweeps.                                              *)

LEMMA SameTermsSameItem ==
    ASSUME NEW x \in AuthorizationType, NEW y \in AuthorizationType, x.status = y.status,
           [x EXCEPT !.status = "PENDING"] = [y EXCEPT !.status = "PENDING"]
    PROVE  x = y
    <1> DEFINE terms == DOMAIN x \ {"status"}
    <1>1. \A f \in terms : x[f] = y[f]
        <2>1. \A f \in terms : [x EXCEPT !.status = "PENDING"][f] = x[f]
            OBVIOUS
        <2>2. \A f \in terms : [y EXCEPT !.status = "PENDING"][f] = y[f]
            BY DEF AuthorizationType
        <2> QED
            BY <2>1, <2>2
    <1> QED
        BY <1>1 DEF AuthorizationType

\* A transaction leaves every image the image of a hold that was PENDING, and
\* the index behind the table by a status at most.
LEMMA ImagesKept ==
    ASSUME TypeOK, IndexLags, [TableNext]_tableVars, UNCHANGED index
    PROVE  /\ IndexLags'
           /\ \A item : PendingImage(item) => PendingImage(item)'
    <1>1. TypeOK'
        BY TypeStep
    <1>2. \A i \in DOMAIN authorization :
              /\ i \in DOMAIN authorization'
              /\ [authorization'[i] EXCEPT !.status = "PENDING"]
                    = [authorization[i] EXCEPT !.status = "PENDING"]
              /\ authorization[i].status # "PENDING"
                    => authorization'[i].status = authorization[i].status
        BY ResolveOnceStep DEF tableVars
    <1>3. \A i \in DOMAIN authorization :
              authorization[i] \in AuthorizationType /\ authorization'[i] \in AuthorizationType
        BY <1>1, <1>2 DEF TypeOK
    <1>4. \A i \in DOMAIN authorization :
              authorization[i].status # "PENDING" => authorization'[i] = authorization[i]
        BY <1>2, <1>3, SameTermsSameItem
    <1>5. \A i \in DOMAIN authorization :
              authorization[i].status = "PENDING"
                => authorization[i] = [authorization[i] EXCEPT !.status = "PENDING"]
        BY <1>3 DEF AuthorizationType
    <1>6. \A item : PendingImage(item) => PendingImage(item)'
        BY <1>2 DEF PendingImage
    <1>7. IndexLags'
        <2> SUFFICES ASSUME NEW i \in DOMAIN index
                     PROVE  index[i] \in {authorization'[i],
                                          [authorization'[i] EXCEPT !.status = "PENDING"]}
            BY <1>2 DEF IndexLags
        <2>1. i \in DOMAIN authorization
              /\ index[i] \in {authorization[i], [authorization[i] EXCEPT !.status = "PENDING"]}
            BY DEF IndexLags
        <2> QED
            BY <1>2, <1>4, <1>5, <2>1
    <1> QED
        BY <1>6, <1>7

\* Transactions other than an authorize place no hold and change no date.
LEMMA DatesKept ==
    ASSUME TypeOK, DatedByItsDay, [TableNext]_tableVars, UNCHANGED <<dated, placed>>,
           DOMAIN authorization' = DOMAIN authorization
    PROVE  DatedByItsDay'
    <1>1. \A i \in DOMAIN authorization :
              [authorization'[i] EXCEPT !.status = "PENDING"].expires_at
                = [authorization[i] EXCEPT !.status = "PENDING"].expires_at
        BY ResolveOnceStep DEF tableVars
    <1>2. \A i \in DOMAIN authorization :
              authorization[i] \in AuthorizationType /\ authorization'[i] \in AuthorizationType
        BY TypeStep DEF TypeOK
    <1>3. \A i \in DOMAIN authorization : authorization'[i].expires_at = authorization[i].expires_at
        BY <1>1, <1>2 DEF AuthorizationType
    <1> QED
        BY <1>3 DEF DatedByItsDay

LEMMA DatesAfterPlacing ==
    ASSUME TypeOK, DatedByItsDay, now \in Instants, NEW i \in AuthorizationIds, PlaceHold(i)
    PROVE  DatedByItsDay'
    <1> PICK a \in Accounts, m \in DOMAIN merchant, amt \in Amounts, k \in Keys :
                 InsertAuthorization(i, a, m, amt, Day(dated[i]), k)
        BY DEF PlaceHold
    <1>1. /\ authorization' = Put(authorization, i, AuthorizationItem(i, a, m, amt, Day(dated[i])))
          /\ i \notin DOMAIN authorization
        BY DEF InsertAuthorization, NewAuthorizationId
    <1>2. AuthorizationItem(i, a, m, amt, Day(dated[i])).expires_at = Day(dated[i]) + HoldDays
        BY DEF AuthorizationItem
    <1>3. /\ i \in DOMAIN dated /\ now <= dated[i] + CallTicks
          /\ placed' = Put(placed, i, now) /\ dated' = dated
        BY DEF PlaceHold
    <1> QED
        BY <1>1, <1>2, <1>3 DEF DatedByItsDay, Put

\* Reading the clock for another hold dates none that is placed.
LEMMA DatesAfterDating ==
    ASSUME DatedByItsDay, now \in Instants, NEW i \in AuthorizationIds, DateHold(i)
    PROVE  DatedByItsDay'
    <1>1. /\ i \notin DOMAIN dated /\ dated' = Put(dated, i, now)
          /\ UNCHANGED <<authorization, placed>>
        BY DEF DateHold, tableVars
    <1>2. /\ DOMAIN dated' = DOMAIN dated \cup {i} /\ dated'[i] = now
          /\ \A j \in DOMAIN dated : dated'[j] = dated[j]
          /\ dated' \in [DOMAIN dated' -> Instants]
        BY <1>1 DEF Put, DatedByItsDay
    <1> QED
        BY <1>1, <1>2 DEF DatedByItsDay

\* What SweepInv says of one sweep.
SweepOK(s) ==
    /\ sweep[s] \in SweepType
    /\ sweep[s].today <= Day(now)
    /\ sweep[s].listed \cup sweep[s].seen \subseteq DOMAIN index
    /\ BatchIsDue(s)
    /\ BatchIsDistinct(s)

\* A sweep that does not move stays in order while time passes, the index
\* grows and transactions commit.
LEMMA SweepUndisturbed ==
    ASSUME NEW s, SweepOK(s), sweep'[s] = sweep[s], now \in Nat, now' \in Nat, now <= now',
           DOMAIN index \subseteq DOMAIN index',
           \A item : PendingImage(item) => PendingImage(item)'
    PROVE  SweepOK(s)'
    <1>1. Day(now) \in Nat /\ Day(now') \in Nat /\ Day(now) <= Day(now')
        BY DayType, DayMonotone
    <1>2. sweep[s].today \in Nat
        <2>1. sweep[s].today \in Days \cup {0}
            BY DEF SweepOK, SweepType
        <2>2. \A d \in Days \cup {0} : d \in Nat
            BY DaysAssumption
        <2> QED
            BY <2>1, <2>2
    <1>3. sweep'[s].today <= Day(now')
        BY <1>1, <1>2 DEF SweepOK
    <1>4. BatchIsDue(s)' /\ BatchIsDistinct(s)'
        BY DEF SweepOK, BatchIsDue, BatchIsDistinct
    <1> QED
        BY <1>3, <1>4 DEF SweepOK

LEMMA InvBySweep ==
    SweepInv <=> /\ TypeOK
                 /\ now \in Instants /\ faults \in 0..MaxFaults
                 /\ DatedByItsDay
                 /\ IndexLags
                 /\ sweep \in [Sweepers -> SweepType]
                 /\ \A s \in Sweepers : SweepOK(s)
    BY DEF SweepInv, SweepOK

\* An idle sweep.
LEMMA NoSweepOK ==
    ASSUME NEW s, sweep[s] = NoSweep, now \in Instants PROVE SweepOK(s)
    <1>1. Day(now) \in Nat
        BY DayType, InstantsAssumption
    <1>2. <<>> \in Seq(AuthorizationType)
        BY EmptySeq
    <1>3. NoSweep \in SweepType
        BY <1>2 DEF NoSweep, SweepType
    <1> QED
        BY <1>1, <1>3 DEF NoSweep, SweepOK, BatchIsDue, BatchIsDistinct
--------------------------------------------------------------------------------
(* The sweep that moves stays in order.                                      *)

LEMMA StartOK ==
    ASSUME SweepInv, NEW s \in Sweepers, StartSweep(s) PROVE SweepOK(s)' /\ sweep'[s] \in SweepType
    <1>1. sweep'[s] = [phase |-> "scan", today |-> Day(now), listed |-> DOMAIN index,
                       seen |-> {}, batch |-> <<>>]
        BY DEF StartSweep, SweepInv, NoSweep
    <1>2. Day(now) \in Days /\ Day(now) \in Nat /\ DOMAIN index \subseteq AuthorizationIds
        BY CalendarAssumption, DaysAssumption DEF SweepInv, IndexLags, TypeOK
    <1>3. <<>> \in Seq(AuthorizationType)
        BY EmptySeq
    <1>4. sweep'[s] \in SweepType
        BY <1>1, <1>2, <1>3 DEF SweepType
    <1>5. now' = now /\ index' = index
        BY DEF StartSweep
    <1> QED
        BY <1>1, <1>2, <1>4, <1>5 DEF SweepOK, BatchIsDue, BatchIsDistinct

\* An item's image joins the batch if it is PENDING and due, and only once,
\* since its item had not been read.
LEMMA ReadOK ==
    ASSUME SweepInv, NEW s \in Sweepers, ReadItem(s) PROVE SweepOK(s)' /\ sweep'[s] \in SweepType
    <1> DEFINE old == sweep[s].batch
               seen == sweep[s].seen
               today == sweep[s].today
    <1>1. PICK i \in DOMAIN index \ seen :
              sweep' = [sweep EXCEPT ![s].seen = @ \cup {i},
                                     ![s].batch = IF Due(index[i], today)
                                                  THEN Append(@, index[i]) ELSE @]
        BY DEF ReadItem
    <1>2. /\ sweep[s] \in SweepType /\ sweep[s].phase = "scan"
          /\ UNCHANGED <<authorization, now, index>>
        BY DEF ReadItem, SweepInv, tableVars
    <1>3. /\ sweep'[s].phase = "scan" /\ sweep'[s].today = today
          /\ sweep'[s].listed = sweep[s].listed /\ sweep'[s].seen = seen \cup {i}
          /\ sweep'[s].batch = IF Due(index[i], today) THEN Append(old, index[i]) ELSE old
          /\ DOMAIN sweep'[s] = DOMAIN sweep[s]
        BY <1>1, <1>2 DEF SweepInv, SweepType
    <1>4. /\ old \in Seq(AuthorizationType) /\ index[i] \in AuthorizationType
          /\ i \in DOMAIN authorization /\ i \in AuthorizationIds
          /\ authorization[i] \in AuthorizationType /\ authorization[i].authorization_id = i
          /\ index[i] \in {authorization[i], [authorization[i] EXCEPT !.status = "PENDING"]}
        BY <1>2 DEF SweepInv, SweepType, IndexLags, TypeOK
    <1>5. index[i].authorization_id = i
        BY <1>4 DEF AuthorizationType
    <1>6. sweep'[s].batch \in Seq(AuthorizationType)
        BY <1>3, <1>4, AppendProperties
    <1>7. sweep'[s] \in SweepType
        <2>1. sweep'[s] = [sweep[s] EXCEPT !.seen = sweep'[s].seen, !.batch = sweep'[s].batch]
            BY <1>1, <1>2, <1>3 DEF SweepInv, SweepType
        <2>2. sweep'[s].seen \in SUBSET AuthorizationIds
            BY <1>2, <1>3, <1>4 DEF SweepType
        <2> QED
            BY <1>2, <1>6, <2>1, <2>2 DEF SweepType
    <1>8. /\ sweep'[s].today <= Day(now')
          /\ sweep'[s].listed \cup sweep'[s].seen \subseteq DOMAIN index'
        BY <1>2, <1>3 DEF SweepInv
    <1>9. \A n \in DOMAIN old :
              /\ PendingImage(old[n]) /\ old[n].expires_at <= today
              /\ old[n].authorization_id \in seen
        BY <1>2 DEF SweepInv, BatchIsDue
    <1>10. \A m, n \in DOMAIN old : old[m].authorization_id = old[n].authorization_id => m = n
        BY DEF SweepInv, BatchIsDistinct
    <1>11. \A item : PendingImage(item)' <=> PendingImage(item)
        BY <1>2 DEF PendingImage
    <1>12. CASE ~Due(index[i], today)
        <2>1. sweep'[s].batch = old
            BY <1>3, <1>12
        <2> QED
            BY <1>3, <1>7, <1>8, <1>9, <1>10, <1>11, <2>1 DEF SweepOK, BatchIsDue, BatchIsDistinct
    <1>13. CASE Due(index[i], today)
        <2> DEFINE new == sweep'[s].batch
                   last == Len(old) + 1
        <2>1. /\ new = Append(old, index[i]) /\ Len(old) \in Nat
              /\ DOMAIN old = 1..Len(old) /\ DOMAIN new = 1..last
              /\ \A n \in 1..Len(old) : new[n] = old[n]
              /\ new[last] = index[i]
            BY <1>3, <1>4, <1>13, AppendProperties, LenProperties
        <2>2. \A n \in DOMAIN new : \/ n \in DOMAIN old /\ new[n] = old[n]
                                    \/ n = last /\ new[n] = index[i]
            BY <2>1
        <2>3. PendingImage(index[i]) /\ index[i].expires_at <= today
            BY <1>4, <1>5, <1>13 DEF PendingImage, Due, AuthorizationType
        <2>4. BatchIsDue(s)'
            <3> SUFFICES ASSUME NEW n \in DOMAIN new
                         PROVE  /\ PendingImage(new[n])
                                /\ new[n].expires_at <= today
                                /\ new[n].authorization_id \in seen \cup {i}
                BY <1>3, <1>11 DEF BatchIsDue
            <3> HIDE DEF new, old
            <3> QED
                BY <1>5, <1>9, <2>2, <2>3
        <2>5. BatchIsDistinct(s)'
            <3> SUFFICES ASSUME NEW m \in DOMAIN new, NEW n \in DOMAIN new,
                                new[m].authorization_id = new[n].authorization_id
                         PROVE  m = n
                BY DEF BatchIsDistinct
            <3> HIDE DEF new, old
            <3> QED
                BY <1>1, <1>5, <1>9, <1>10, <2>2
        <2> QED
            BY <1>7, <1>8, <2>4, <2>5 DEF SweepOK
    <1> QED
        BY <1>7, <1>12, <1>13

\* The batch loses its first item, or the sweep its listing.
LEMMA TailOK ==
    ASSUME SweepInv, NEW s \in Sweepers, sweep[s].phase = "release", sweep[s].batch # <<>>,
           sweep' = [sweep EXCEPT ![s].batch = Tail(@)], UNCHANGED <<now, index>>,
           \A item : PendingImage(item) => PendingImage(item)'
    PROVE  SweepOK(s)' /\ sweep'[s] \in SweepType
    <1> DEFINE old == sweep[s].batch
               new == sweep'[s].batch
    <1>1. /\ sweep[s] \in SweepType /\ old \in Seq(AuthorizationType)
        BY DEF SweepInv, SweepType
    <1>2. /\ sweep'[s].phase = "release" /\ sweep'[s].today = sweep[s].today
          /\ sweep'[s].listed = sweep[s].listed /\ sweep'[s].seen = sweep[s].seen
          /\ new = Tail(old)
        BY <1>1 DEF SweepInv, SweepType
    <1>3. new \in Seq(AuthorizationType)
        BY <1>1, <1>2, HeadTailProperties
    <1>4. sweep'[s] \in SweepType
        BY <1>1, <1>3 DEF SweepInv, SweepType
    <1>5. \A n \in DOMAIN new : n \in Nat /\ n + 1 \in DOMAIN old /\ new[n] = old[n + 1]
        <2>1. /\ Len(new) = Len(old) - 1 /\ Len(old) \in Nat
              /\ DOMAIN new = 1..Len(new) /\ DOMAIN old = 1..Len(old)
              /\ \A n \in 1..Len(new) : new[n] = old[n + 1]
            <3> HIDE DEF new, old
            <3> QED
                BY <1>1, <1>2, <1>3, HeadTailProperties, LenProperties
        <2> QED
            BY <2>1
    <1>6. /\ \A n \in DOMAIN old : PendingImage(old[n]) /\ old[n].expires_at <= sweep[s].today
          /\ \A m, n \in DOMAIN old : old[m].authorization_id = old[n].authorization_id => m = n
        BY DEF SweepInv, BatchIsDue, BatchIsDistinct
    <1>7. BatchIsDue(s)'
        BY <1>2, <1>5, <1>6 DEF BatchIsDue
    <1>8. BatchIsDistinct(s)'
        <2> SUFFICES ASSUME NEW m \in DOMAIN new, NEW n \in DOMAIN new,
                            new[m].authorization_id = new[n].authorization_id
                     PROVE  m = n
            BY DEF BatchIsDistinct
        <2>1. m + 1 = n + 1
            <3> HIDE DEF new, old
            <3> QED
                BY <1>5, <1>6
        <2> QED
            BY <1>5, <2>1
    <1>9. sweep'[s].today <= Day(now') /\ sweep'[s].listed \cup sweep'[s].seen \subseteq DOMAIN index'
        BY <1>2 DEF SweepInv
    <1> QED
        BY <1>4, <1>7, <1>8, <1>9 DEF SweepOK

LEMMA LastPageOK ==
    ASSUME SweepInv, NEW s \in Sweepers, LastPage(s) PROVE SweepOK(s)' /\ sweep'[s] \in SweepType
    <1>1. /\ sweep[s] \in SweepType /\ UNCHANGED <<authorization, now, index>>
          /\ sweep' = [sweep EXCEPT ![s].phase = "release", ![s].seen = {}]
        BY DEF LastPage, SweepInv, tableVars
    <1>2. /\ sweep'[s].phase = "release" /\ sweep'[s].today = sweep[s].today
          /\ sweep'[s].listed = sweep[s].listed /\ sweep'[s].seen = {}
          /\ sweep'[s].batch = sweep[s].batch
          /\ sweep'[s] \in SweepType
        BY <1>1 DEF SweepInv, SweepType
    <1>3. \A item : PendingImage(item)' <=> PendingImage(item)
        BY <1>1 DEF PendingImage
    <1> QED
        BY <1>1, <1>2, <1>3 DEF SweepOK, SweepInv, BatchIsDue, BatchIsDistinct
--------------------------------------------------------------------------------
(* The invariant holds.                                                      *)

\* A step in which one sweep moves, and the table perhaps.
LEMMA OneSweepMoves ==
    ASSUME SweepInv, NEW s \in Sweepers, [TableNext]_tableVars,
           DOMAIN authorization' = DOMAIN authorization,
           UNCHANGED <<now, dated, placed, index>>, faults' \in 0..MaxFaults,
           sweep' = [sweep EXCEPT ![s] = sweep'[s]], SweepOK(s)'
    PROVE  SweepInv'
    <1>1. TypeOK' /\ IndexLags' /\ \A item : PendingImage(item) => PendingImage(item)'
        BY TypeStep, ImagesKept DEF SweepInv
    <1>2. DatedByItsDay'
        BY DatesKept DEF SweepInv
    <1>3. now \in Nat /\ now' = now
        BY InstantsAssumption DEF SweepInv
    <1>4. ASSUME NEW r \in Sweepers \ {s} PROVE SweepOK(r)'
        <2>1. sweep'[r] = sweep[r] /\ SweepOK(r)
            BY InvBySweep DEF SweepInv
        <2> QED
            BY <1>1, <1>3, <2>1, SweepUndisturbed
    <1>5. sweep' \in [Sweepers -> SweepType]
        BY DEF SweepInv, SweepOK
    <1>6. \A r \in Sweepers : SweepOK(r)'
        BY <1>4
    <1> QED
        BY <1>1, <1>2, <1>3, <1>5, <1>6 DEF SweepInv, SweepOK

\* A step in which none does.
LEMMA NoSweepMoves ==
    ASSUME SweepInv, TypeOK', UNCHANGED <<sweep, faults>>, now' \in Instants, now <= now',
           DatedByItsDay', IndexLags', DOMAIN index \subseteq DOMAIN index',
           \A item : PendingImage(item) => PendingImage(item)'
    PROVE  SweepInv'
    <1>1. now \in Nat /\ now' \in Nat
        BY InstantsAssumption DEF SweepInv
    <1>2. ASSUME NEW r \in Sweepers PROVE SweepOK(r)'
        <2>1. SweepOK(r) /\ sweep'[r] = sweep[r]
            BY InvBySweep
        <2> QED
            BY <1>1, <2>1, SweepUndisturbed
    <1> QED
        BY <1>2 DEF SweepInv, SweepOK

LEMMA MoveOfOneSweep ==
    ASSUME SweepInv, NEW s \in Sweepers, StartSweep(s) \/ SweepStep(s) \/ Fail(s)
    PROVE  SweepInv'
    <1>1. /\ UNCHANGED <<now, dated, placed, index>>
          /\ DOMAIN authorization' = DOMAIN authorization
          /\ [TableNext]_tableVars
        <2>1. CASE ReleaseHold(s)
            BY <2>1, ReleaseIsExpiry DEF ReleaseHold, ExpireHold, TableNext
        <2>2. CASE ~ReleaseHold(s)
            BY <2>2 DEF SweepStep, StartSweep, ReadItem, LastPage, SkipHold, Finish, Fail, tableVars
        <2> QED
            BY <2>1, <2>2
    <1>2. sweep \in [Sweepers -> SweepType] /\ faults \in 0..MaxFaults /\ now \in Instants
        BY DEF SweepInv
    <1>3. \A item : PendingImage(item) => PendingImage(item)'
        BY <1>1, ImagesKept DEF SweepInv
    <1>4. faults' \in 0..MaxFaults
        BY <1>2, FaultsAssumption
           DEF SweepStep, StartSweep, ReadItem, LastPage, ReleaseHold, SkipHold, Finish, Fail
    <1>5. sweep' = [sweep EXCEPT ![s] = sweep'[s]]
        BY <1>2 DEF SweepStep, StartSweep, ReadItem, LastPage, ReleaseHold, SkipHold, Finish, Fail
    <1>6. SweepOK(s)'
        <2>1. CASE StartSweep(s)
            BY <2>1, StartOK
        <2>2. CASE ReadItem(s)
            BY <2>2, ReadOK
        <2>3. CASE LastPage(s)
            BY <2>3, LastPageOK
        <2>4. CASE ReleaseHold(s) \/ SkipHold(s)
            BY <1>1, <1>3, <2>4, TailOK DEF ReleaseHold, SkipHold
        <2>5. CASE Finish(s) \/ Fail(s)
            <3>1. sweep'[s] = NoSweep /\ now' \in Instants
                BY <1>1, <1>2, <2>5 DEF Finish, Fail
            <3>2. Day(now') \in Nat /\ NoSweep \in SweepType
                BY <3>1, DayType, InstantsAssumption, EmptySeq DEF NoSweep, SweepType
            <3> QED
                BY <3>1, <3>2 DEF NoSweep, SweepOK, BatchIsDue, BatchIsDistinct
        <2> QED
            BY <2>1, <2>2, <2>3, <2>4, <2>5 DEF SweepStep
    <1> QED
        BY <1>1, <1>4, <1>5, <1>6, OneSweepMoves

LEMMA MoveOfOthers ==
    ASSUME SweepInv,
           \/ \E i \in AuthorizationIds : IndexCatchesUp(i) \/ DateHold(i) \/ PlaceHold(i)
           \/ Tick \/ OtherWrites
    PROVE  SweepInv'
    <1>0. now \in Nat
        BY InstantsAssumption DEF SweepInv
    <1>1. CASE \E i \in AuthorizationIds : IndexCatchesUp(i)
        <2> PICK i \in AuthorizationIds : IndexCatchesUp(i)
            BY <1>1
        <2>1. /\ UNCHANGED <<tableVars, now, dated, placed, sweep, faults>>
              /\ i \in DOMAIN authorization
              /\ DOMAIN index' = DOMAIN index \cup {i} /\ index'[i] = authorization[i]
              /\ \A j \in DOMAIN index : j # i => index'[j] = index[j]
              /\ index' = [j \in DOMAIN index' |-> index'[j]]
            BY DEF IndexCatchesUp, Put
        <2>2. UNCHANGED <<account, merchant, authorization, entries, idem>>
            BY <2>1 DEF tableVars
        <2>3. IndexLags'
            BY <2>1, <2>2 DEF SweepInv, IndexLags, TypeOK
        <2>4. TypeOK' /\ DatedByItsDay' /\ \A item : PendingImage(item) => PendingImage(item)'
            BY <2>1, <2>2 DEF SweepInv, TypeOK, DatedByItsDay, PendingImage
        <2> QED
            BY <1>0, <2>1, <2>3, <2>4, NoSweepMoves DEF SweepInv
    <1>2. CASE Tick
        <2>1. UNCHANGED <<tableVars, dated, placed, index, sweep, faults>> /\ now' \in Instants /\ now' > now
            BY <1>2 DEF Tick
        <2>2. now <= now'
            BY <1>0, <2>1, InstantsAssumption
        <2>3. /\ TypeOK' /\ IndexLags'
              /\ \A item : PendingImage(item) => PendingImage(item)'
            BY <2>1, TypeStep, ImagesKept DEF SweepInv
        <2>4. DatedByItsDay'
            BY <2>1, DatesKept DEF SweepInv, tableVars
        <2> QED
            BY <2>1, <2>2, <2>3, <2>4, NoSweepMoves
    <1>3. CASE (\E i \in AuthorizationIds : PlaceHold(i)) \/ OtherWrites
        <2>1. /\ [TableNext]_tableVars
              /\ UNCHANGED <<now, index, sweep, faults>>
            BY <1>3, PlacingIsAuthorize
               DEF PlaceHold, OtherWrites, TableNext, sweepVars
        <2>2. /\ TypeOK' /\ IndexLags'
              /\ \A item : PendingImage(item) => PendingImage(item)'
            BY <2>1, TypeStep, ImagesKept DEF SweepInv
        <2>3. DatedByItsDay'
            <3>1. CASE \E i \in AuthorizationIds : PlaceHold(i)
                BY <3>1, DatesAfterPlacing DEF SweepInv
            <3>2. CASE OtherWrites
                <4>1. UNCHANGED <<dated, placed>> /\ DOMAIN authorization' = DOMAIN authorization
                    BY <3>2 DEF OtherWrites, sweepVars, CreateStep, CaptureStep, VoidStep,
                                DepositStep, LapseStep, InsertAccount, InsertMerchant,
                                CaptureAuthorization, VoidAuthorization, Deposit, LapseRecord
                <4> QED
                    BY <2>1, <4>1, DatesKept DEF SweepInv
            <3> QED
                BY <1>3, <3>1, <3>2
        <2> QED
            BY <1>0, <2>1, <2>2, <2>3, NoSweepMoves DEF SweepInv
    <1>4. CASE \E i \in AuthorizationIds : DateHold(i)
        <2>1. UNCHANGED <<tableVars, now, index, sweep, faults>>
            BY <1>4 DEF DateHold
        <2>2. DatedByItsDay'
            BY <1>4, DatesAfterDating DEF SweepInv
        <2>3. TypeOK' /\ IndexLags' /\ \A item : PendingImage(item) => PendingImage(item)'
            BY <2>1, TypeStep, ImagesKept DEF SweepInv
        <2> QED
            BY <1>0, <2>1, <2>2, <2>3, NoSweepMoves DEF SweepInv
    <1> QED
        BY <1>1, <1>2, <1>3, <1>4

LEMMA SweepInvInit == SweeperInit => SweepInv
    <1> SUFFICES ASSUME SweeperInit PROVE SweepInv
        OBVIOUS
    <1>1. TypeOK
        BY TypeInit DEF SweeperInit
    <1>2. now \in Instants /\ faults \in 0..MaxFaults
        BY FaultsAssumption DEF SweeperInit, ClockInit
    <1>3. DatedByItsDay /\ IndexLags
        BY DEF SweeperInit, ClockInit, TableInit, DatedByItsDay, IndexLags
    <1>4. sweep = [s \in Sweepers |-> NoSweep]
        BY DEF SweeperInit, ClockInit
    <1>5. \A s \in Sweepers : SweepOK(s)
        BY <1>2, <1>4, NoSweepOK
    <1> QED
        BY <1>1, <1>2, <1>3, <1>4, <1>5 DEF SweepInv, SweepOK

LEMMA SweepInvStep == SweepInv /\ [SweeperNext]_vars => SweepInv'
    <1> SUFFICES ASSUME SweepInv, [SweeperNext]_vars PROVE SweepInv'
        OBVIOUS
    <1>1. CASE \E s \in Sweepers : StartSweep(s) \/ SweepStep(s) \/ Fail(s)
        BY <1>1, MoveOfOneSweep
    <1>2. CASE \/ \E i \in AuthorizationIds : IndexCatchesUp(i) \/ DateHold(i) \/ PlaceHold(i)
               \/ Tick \/ OtherWrites
        BY <1>2, MoveOfOthers
    <1>3. CASE UNCHANGED vars
        <2>1. UNCHANGED <<tableVars, now, dated, placed, index, sweep, faults>>
            BY <1>3 DEF vars, sweepVars
        <2>2. UNCHANGED <<account, merchant, authorization, entries, idem>>
            BY <2>1 DEF tableVars
        <2> QED
            BY <2>1, <2>2, TypeStep
               DEF SweepInv, DatedByItsDay, IndexLags, BatchIsDue, BatchIsDistinct, PendingImage
    <1> QED
        BY <1>1, <1>2, <1>3 DEF SweeperNext

\* Whatever the index shows, whenever sweeps start, overlap or die, the sweeper
\* only takes the table's transactions: what is proved of LedgerTable holds
\* of a table that is being swept.
THEOREM SweeperImplementsTable == SweeperSpec => TableSpec
    <1>1. SweeperInit => TableInit
        BY DEF SweeperInit
    <1> QED
        BY <1>1, SweepInvInit, SweepInvStep, SweeperTable, PTL DEF SweeperSpec, TableSpec

\* Overlapping sweeps that work from old scans neither make funds nor lose any.
THEOREM SweptHoldsAreBacked == SweeperSpec => []HoldsBalance
    BY SweeperImplementsTable, HoldsAreBacked, PTL

\* A sweep works from earlier images of holds, and lists none of them twice
\* (ledger.py:649-668).
THEOREM SweepsAreInOrder == SweeperSpec => []SweepTypeOK
    <1>1. SweepInv => SweepTypeOK
        <2> SUFFICES ASSUME SweepInv PROVE SweepTypeOK
            OBVIOUS
        <2>1. \A s \in Sweepers : sweep[s] \in SweepType
            BY DEF SweepInv
        <2>2. \A s \in Sweepers : sweep[s].phase \in {"off", "scan", "release"}
                                  /\ sweep[s].today \in Days \cup {0}
            BY <2>1 DEF SweepType
        <2>3. ASSUME NEW s \in Sweepers, NEW n \in DOMAIN sweep[s].batch
              PROVE  LET hold == sweep[s].batch[n]
                         i == hold.authorization_id
                     IN  /\ i \in DOMAIN authorization
                         /\ hold = [authorization[i] EXCEPT !.status = "PENDING"]
                         /\ \A m \in DOMAIN sweep[s].batch :
                               m # n => sweep[s].batch[m].authorization_id # i
            BY DEF SweepInv, BatchIsDue, BatchIsDistinct, PendingImage
        <2> QED
            BY <2>2, <2>3 DEF SweepTypeOK, SweepInv, IndexLags, DatedByItsDay
    <1> QED
        BY <1>1, SweepInvInit, SweepInvStep, PTL DEF SweeperSpec
--------------------------------------------------------------------------------
(* Nothing is released early.                                                *)

\* The only step that expires a hold is a sweep's, of the head of its batch.
LEMMA OnlySweepsExpire ==
    ASSUME SweepInv, SweeperNext, NEW i \in DOMAIN authorization,
           authorization[i].status = "PENDING", authorization'[i].status = "EXPIRED"
    PROVE  \E s \in Sweepers :
              /\ sweep[s].batch # <<>>
              /\ Head(sweep[s].batch).authorization_id = i
    <1>1. CASE UNCHANGED authorization
        BY <1>1
    <1>2. CASE \E j \in AuthorizationIds : PlaceHold(j)
        <2> PICK j \in AuthorizationIds, a \in Accounts, m \in DOMAIN merchant,
                 amt \in Amounts, k \in Keys : InsertAuthorization(j, a, m, amt, Day(dated[j]), k)
            BY <1>2 DEF PlaceHold
        <2>1. authorization'[i] = authorization[i]
            BY DEF InsertAuthorization, NewAuthorizationId, Put
        <2> QED
            BY <2>1
    <1>3. CASE OtherWrites
        <2>1. CASE CaptureStep \/ VoidStep
            <3>1. PICK j \in DOMAIN authorization, t \in {"CAPTURED", "VOIDED"} :
                      authorization' = [authorization EXCEPT ![j].status = t]
                <4>1. \A j \in DOMAIN authorization : authorization[j].authorization_id = j
                    BY DEF SweepInv, TypeOK
                <4> QED
                    BY <2>1, <4>1 DEF CaptureStep, VoidStep, CaptureAuthorization, VoidAuthorization
            <3>2. authorization[j] \in AuthorizationType
                BY DEF SweepInv, TypeOK
            <3> QED
                BY <3>1, <3>2 DEF AuthorizationType
        <2>2. CASE CreateStep \/ DepositStep \/ LapseStep
            BY <1>1, <2>2 DEF CreateStep, DepositStep, LapseStep, InsertAccount, InsertMerchant,
                              Deposit, LapseRecord
        <2> QED
            BY <1>3, <2>1, <2>2 DEF OtherWrites
    <1>4. ASSUME NEW s \in Sweepers, ReleaseHold(s)
          PROVE  sweep[s].batch # <<>> /\ Head(sweep[s].batch).authorization_id = i
        <2> DEFINE j == Head(sweep[s].batch).authorization_id
        <2>1. /\ sweep[s].batch # <<>>
              /\ authorization' = [authorization EXCEPT ![j].status = "EXPIRED"]
            BY <1>4 DEF ReleaseHold, ExpireHold
        <2>2. j # i => authorization'[i] = authorization[i]
            BY <2>1
        <2> QED
            BY <2>1, <2>2
    <1>5. ASSUME NEW s \in Sweepers,
                 \/ StartSweep(s) \/ ReadItem(s) \/ LastPage(s) \/ SkipHold(s)
                 \/ Finish(s) \/ Fail(s)
          PROVE  UNCHANGED authorization
        BY <1>5 DEF StartSweep, ReadItem, LastPage, SkipHold, Finish, Fail, tableVars
    <1>6. ASSUME NEW j \in AuthorizationIds, IndexCatchesUp(j) \/ DateHold(j)
          PROVE  UNCHANGED authorization
        BY <1>6 DEF IndexCatchesUp, DateHold, tableVars
    <1>7. Tick => UNCHANGED authorization
        BY DEF Tick, tableVars
    <1> QED
        BY <1>1, <1>2, <1>3, <1>4, <1>5, <1>6, <1>7 DEF SweeperNext, SweepStep

\* Every hold keeps its funds for more than six days from its commit, less the
\* time its authorize took to get there, however finely a day is divided and
\* whatever sweep gets to it first (ledger.py:288, 305, 653).
THEOREM NothingIsReleasedEarly == SweeperSpec => HoldsLiveSixDays
    <1>1. ASSUME SweepInv, SweeperNext, NEW i \in DOMAIN authorization,
                 authorization[i].status = "PENDING", authorization'[i].status = "EXPIRED"
          PROVE  now + CallTicks > placed[i] + (HoldDays - 1) * TicksPerDay
        <2>1. PICK s \in Sweepers :
                  /\ sweep[s].batch # <<>>
                  /\ Head(sweep[s].batch).authorization_id = i
            BY <1>1, OnlySweepsExpire
        <2> DEFINE hold == Head(sweep[s].batch)
        <2>2. sweep[s].batch \in Seq(AuthorizationType) /\ sweep[s].today \in Days \cup {0}
            BY <1>1 DEF SweepInv, SweepType
        <2>3. 1 \in DOMAIN sweep[s].batch /\ hold = sweep[s].batch[1]
            BY <2>1, <2>2
        <2>4. PendingImage(hold) /\ hold.expires_at <= sweep[s].today
            BY <1>1, <2>3 DEF SweepInv, BatchIsDue
        <2>5. hold.expires_at = Day(dated[i]) + HoldDays
            <3>1. authorization[i] \in AuthorizationType
                BY <1>1 DEF SweepInv, TypeOK
            <3>2. hold.expires_at = authorization[i].expires_at
                BY <2>1, <2>4, <3>1 DEF PendingImage, AuthorizationType
            <3> QED
                BY <1>1, <3>2 DEF SweepInv, DatedByItsDay
        <2>6. /\ dated[i] \in Nat /\ placed[i] \in Nat /\ now \in Nat
              /\ placed[i] <= dated[i] + CallTicks
            BY <1>1, InstantsAssumption DEF SweepInv, DatedByItsDay
        <2>7. Day(dated[i]) + HoldDays <= Day(now)
            <3>1. Day(dated[i]) \in Nat /\ Day(now) \in Nat
                BY <2>6, DayType
            <3>2. \A d \in Days \cup {0} : d \in Nat
                BY DaysAssumption
            <3>3. sweep[s].today \in Nat /\ sweep[s].today <= Day(now)
                BY <1>1, <2>2, <3>2 DEF SweepInv
            <3> QED
                BY <2>4, <2>5, <3>1, <3>3 DEF HoldDays
        <2>8. now > dated[i] + (HoldDays - 1) * TicksPerDay
            BY <2>6, <2>7, AWeekIsSixDays
        <2>9. (HoldDays - 1) * TicksPerDay \in Int
            BY TicksAssumption DEF HoldDays
        <2> DEFINE span == (HoldDays - 1) * TicksPerDay
        <2> HIDE DEF span
        <2>10. now + CallTicks > placed[i] + span
            BY <2>6, <2>8, <2>9, CallAssumption DEF span
        <2> QED
            BY <2>10 DEF span
    <1>2. SweepInv /\ [SweeperNext]_vars =>
            [\A i \in DOMAIN authorization :
                authorization[i].status = "PENDING" /\ authorization'[i].status = "EXPIRED"
                    => now + CallTicks > placed[i] + (HoldDays - 1) * TicksPerDay]_vars
        BY <1>1
    <1> QED
        BY <1>2, SweepInvInit, SweepInvStep, PTL DEF SweeperSpec, HoldsLiveSixDays

--------------------------------------------------------------------------------
(* A sweep that ends has missed nothing.                                     *)

\* What a sweep has read and still has to answer for.
Covered(s) ==
    IF sweep[s].phase = "scan" THEN sweep[s].seen
    ELSE IF sweep[s].phase = "release" THEN sweep[s].listed ELSE {}

InBatch(s, i) == \E n \in DOMAIN sweep[s].batch : sweep[s].batch[n].authorization_id = i

MissesNothing(s) ==
    \A i \in Covered(s) :
        authorization[i].status = "PENDING" /\ authorization[i].expires_at <= sweep[s].today
            => InBatch(s, i)

MissInv == SweepInv /\ \A s \in Sweepers : MissesNothing(s)

\* A transaction makes no resolved hold PENDING and moves no date.
LEMMA PendingBefore ==
    ASSUME SweepInv, [SweeperNext]_vars, NEW i \in DOMAIN authorization,
           authorization'[i].status = "PENDING"
    PROVE  /\ authorization[i].status = "PENDING"
           /\ authorization'[i].expires_at = authorization[i].expires_at
    <1>1. [TableNext]_tableVars /\ TypeOK /\ TypeOK'
        BY SweeperTable, TypeStep DEF SweepInv
    <1>2. /\ i \in DOMAIN authorization'
          /\ [authorization'[i] EXCEPT !.status = "PENDING"]
                = [authorization[i] EXCEPT !.status = "PENDING"]
          /\ authorization[i].status # "PENDING"
                => authorization'[i].status = authorization[i].status
        BY <1>1, ResolveOnceStep DEF tableVars
    <1>3. authorization[i] \in AuthorizationType /\ authorization'[i] \in AuthorizationType
        BY <1>1, <1>2 DEF TypeOK
    <1>4. [authorization'[i] EXCEPT !.status = "PENDING"].expires_at
            = [authorization[i] EXCEPT !.status = "PENDING"].expires_at
        BY <1>2
    <1> QED
        BY <1>2, <1>3, <1>4 DEF AuthorizationType

\* What is covered is in the index, hence in the table.
LEMMA CoveredExists ==
    ASSUME SweepInv, NEW s \in Sweepers PROVE Covered(s) \subseteq DOMAIN index
    BY DEF SweepInv, Covered

LEMMA MissesNothingKept ==
    ASSUME SweepInv, [SweeperNext]_vars, NEW s \in Sweepers, MissesNothing(s),
           sweep'[s] = sweep[s]
    PROVE  MissesNothing(s)'
    <1> SUFFICES ASSUME NEW i \in Covered(s),
                        authorization'[i].status = "PENDING",
                        authorization'[i].expires_at <= sweep[s].today
                 PROVE  InBatch(s, i)
        BY DEF MissesNothing, InBatch, Covered
    <1>1. i \in DOMAIN authorization
        BY CoveredExists DEF SweepInv, IndexLags
    <1>2. authorization[i].status = "PENDING" /\ authorization[i].expires_at <= sweep[s].today
        BY <1>1, PendingBefore
    <1> QED
        BY <1>2 DEF MissesNothing

LEMMA ReadMissesNothing ==
    ASSUME SweepInv, NEW s \in Sweepers, MissesNothing(s), ReadItem(s) PROVE MissesNothing(s)'
    <1> DEFINE old == sweep[s].batch
               today == sweep[s].today
    <1>1. PICK j \in DOMAIN index \ sweep[s].seen :
              sweep' = [sweep EXCEPT ![s].seen = @ \cup {j},
                                     ![s].batch = IF Due(index[j], today)
                                                  THEN Append(@, index[j]) ELSE @]
        BY DEF ReadItem
    <1>2. /\ sweep[s] \in SweepType /\ sweep[s].phase = "scan" /\ authorization' = authorization
          /\ old \in Seq(AuthorizationType)
        BY DEF ReadItem, SweepInv, SweepType, tableVars
    <1>3. /\ sweep'[s].phase = "scan" /\ sweep'[s].today = today
          /\ sweep'[s].seen = sweep[s].seen \cup {j}
          /\ sweep'[s].batch = IF Due(index[j], today) THEN Append(old, index[j]) ELSE old
        BY <1>1, <1>2 DEF SweepInv, SweepType
    <1>4. /\ index[j] \in AuthorizationType
          /\ authorization[j] \in AuthorizationType /\ authorization[j].authorization_id = j
          /\ index[j] \in {authorization[j], [authorization[j] EXCEPT !.status = "PENDING"]}
        BY DEF SweepInv, IndexLags, TypeOK
    <1>5. \A n \in DOMAIN old : n \in DOMAIN sweep'[s].batch /\ sweep'[s].batch[n] = old[n]
        <2>1. CASE Due(index[j], today)
            BY <1>2, <1>3, <1>4, <2>1, AppendProperties, LenProperties
        <2>2. CASE ~Due(index[j], today)
            BY <1>3, <2>2
        <2> QED
            BY <2>1, <2>2
    <1> SUFFICES ASSUME NEW i \in sweep[s].seen \cup {j},
                        authorization[i].status = "PENDING", authorization[i].expires_at <= today
                 PROVE  InBatch(s, i)'
        BY <1>2, <1>3 DEF MissesNothing, Covered
    <1>6. CASE i \in sweep[s].seen
        <2>1. InBatch(s, i)
            BY <1>2, <1>6 DEF MissesNothing, Covered
        <2> HIDE DEF old
        <2> QED
            BY <1>5, <2>1 DEF InBatch, old
    <1>7. CASE i = j
        <2>1. Due(index[j], today)
            BY <1>4, <1>7 DEF Due, AuthorizationType
        <2>2. index[j].authorization_id = i
            BY <1>4, <1>7 DEF AuthorizationType
        <2>3. /\ Len(old) + 1 \in DOMAIN sweep'[s].batch
              /\ sweep'[s].batch[Len(old) + 1] = index[j]
            <3>1. sweep'[s].batch = Append(old, index[j])
                BY <1>3, <2>1
            <3> HIDE DEF old
            <3> QED
                BY <1>2, <1>4, <3>1, AppendProperties, LenProperties
        <2> QED
            BY <2>2, <2>3 DEF InBatch
    <1> QED
        BY <1>6, <1>7

\* The head that leaves the batch is PENDING no more.
LEMMA TailMissesNothing ==
    ASSUME SweepInv, NEW s \in Sweepers, MissesNothing(s), [SweeperNext]_vars,
           ReleaseHold(s) \/ SkipHold(s)
    PROVE  MissesNothing(s)'
    <1> DEFINE old == sweep[s].batch
               new == sweep'[s].batch
               j == Head(old).authorization_id
    <1>1. /\ sweep[s] \in SweepType /\ sweep[s].phase = "release" /\ old # <<>>
          /\ old \in Seq(AuthorizationType)
          /\ sweep' = [sweep EXCEPT ![s].batch = Tail(@)]
        BY DEF ReleaseHold, SkipHold, SweepInv, SweepType
    <1>2. /\ sweep'[s].phase = "release" /\ sweep'[s].today = sweep[s].today
          /\ sweep'[s].listed = sweep[s].listed /\ new = Tail(old)
        BY <1>1 DEF SweepInv, SweepType
    <1>3. 1 \in DOMAIN old /\ Head(old) = old[1]
        BY <1>1
    <1>4. PendingImage(Head(old))
        BY <1>3 DEF SweepInv, BatchIsDue
    <1>5. j \in DOMAIN authorization /\ authorization[j] \in AuthorizationType
        BY <1>4 DEF PendingImage, SweepInv, TypeOK
    <1>6. authorization'[j].status # "PENDING"
        <2>1. CASE ReleaseHold(s)
            <3>1. authorization' = [authorization EXCEPT ![j].status = "EXPIRED"]
                BY <2>1 DEF ReleaseHold, ExpireHold
            <3> QED
                BY <1>5, <3>1 DEF AuthorizationType
        <2>2. CASE SkipHold(s)
            <3>1. ~StillPending(j, Head(old).account_id) /\ authorization' = authorization
                BY <2>2 DEF SkipHold, ExpireReasons, Failed, tableVars
            <3>2. Head(old).account_id = authorization[j].account_id
                BY <1>4, <1>5 DEF PendingImage, AuthorizationType
            <3> QED
                BY <1>5, <3>1, <3>2 DEF StillPending
        <2> QED
            BY <2>1, <2>2
    <1> SUFFICES ASSUME NEW i \in sweep[s].listed, authorization'[i].status = "PENDING",
                        authorization'[i].expires_at <= sweep[s].today
                 PROVE  InBatch(s, i)'
        BY <1>2 DEF MissesNothing, Covered
    <1>7. i \in DOMAIN authorization
        BY DEF SweepInv, IndexLags
    <1>8. InBatch(s, i)
        BY <1>1, <1>7, PendingBefore DEF MissesNothing, Covered
    <1>9. PICK n \in DOMAIN old : old[n].authorization_id = i
        BY <1>8 DEF InBatch
    <1>10. n # 1
        BY <1>3, <1>6, <1>9
    <1>11. n - 1 \in DOMAIN new /\ new[n - 1] = old[n]
        <2>1. new \in Seq(AuthorizationType) /\ Len(new) = Len(old) - 1
              /\ \A l \in 1..Len(new) : new[l] = old[l + 1]
            <3> HIDE DEF old, new
            <3> QED
                BY <1>1, <1>2, HeadTailProperties
        <2>2. /\ DOMAIN new = 1..Len(new) /\ DOMAIN old = 1..Len(old) /\ Len(old) \in Nat
            <3> HIDE DEF old, new
            <3> QED
                BY <1>1, <2>1, LenProperties
        <2>3. n \in 1..Len(old) /\ n - 1 \in 1..Len(new) /\ (n - 1) + 1 = n
            <3> HIDE DEF old, new
            <3> QED
                BY <1>10, <2>1, <2>2
        <2> HIDE DEF old, new
        <2> QED
            BY <2>1, <2>2, <2>3
    <1> QED
        BY <1>9, <1>11 DEF InBatch

LEMMA MissInvStep == MissInv /\ [SweeperNext]_vars => MissInv'
    <1> SUFFICES ASSUME MissInv, [SweeperNext]_vars, NEW s \in Sweepers PROVE MissesNothing(s)'
        BY SweepInvStep DEF MissInv
    <1>1. SweepInv /\ MissesNothing(s) /\ sweep \in [Sweepers -> SweepType] /\ sweep[s] \in SweepType
        BY DEF MissInv, SweepInv
    <1>2. CASE sweep'[s] = sweep[s]
        BY <1>1, <1>2, MissesNothingKept
    <1>3. CASE StartSweep(s)
        <2>1. sweep'[s].phase = "scan" /\ sweep'[s].seen = {}
            BY <1>1, <1>3 DEF StartSweep, NoSweep
        <2> QED
            BY <2>1 DEF MissesNothing, Covered
    <1>4. CASE ReadItem(s)
        BY <1>1, <1>4, ReadMissesNothing
    <1>5. CASE LastPage(s)
        <2>1. /\ sweep'[s].phase = "release" /\ sweep'[s].listed \subseteq sweep[s].seen
              /\ sweep'[s].batch = sweep[s].batch /\ sweep'[s].today = sweep[s].today
              /\ sweep[s].phase = "scan" /\ authorization' = authorization
            BY <1>1, <1>5 DEF LastPage, SweepType, tableVars
        <2> QED
            BY <1>1, <2>1 DEF MissesNothing, Covered, InBatch
    <1>6. CASE ReleaseHold(s) \/ SkipHold(s)
        BY <1>1, <1>6, TailMissesNothing
    <1>7. CASE Finish(s) \/ Fail(s)
        <2>1. sweep'[s].phase = "off"
            BY <1>1, <1>7 DEF Finish, Fail, NoSweep
        <2> QED
            BY <2>1 DEF MissesNothing, Covered
    <1>8. ASSUME NEW r \in Sweepers \ {s}, StartSweep(r) \/ SweepStep(r) \/ Fail(r)
          PROVE  sweep'[s] = sweep[s]
        BY <1>1, <1>8 DEF SweepStep, StartSweep, ReadItem, LastPage, ReleaseHold, SkipHold,
                          Finish, Fail
    <1>9. ASSUME \/ \E i \in AuthorizationIds : IndexCatchesUp(i) \/ DateHold(i) \/ PlaceHold(i)
                 \/ Tick \/ OtherWrites \/ UNCHANGED vars
          PROVE  sweep'[s] = sweep[s]
        BY <1>9 DEF IndexCatchesUp, DateHold, Tick, PlaceHold, OtherWrites, vars, sweepVars
    <1> QED
        BY <1>2, <1>3, <1>4, <1>5, <1>6, <1>7, <1>8, <1>9 DEF SweeperNext, SweepStep

\* A sweep that ends normally has left nothing due behind of what the index
\* held when it began, whatever else was resolved meanwhile (ledger.py:717-725).
THEOREM EndedSweepsLeaveNothing == SweeperSpec => SweepLeavesNothingDue
    <1>1. SweeperInit => MissInv
        BY SweepInvInit DEF SweeperInit, ClockInit, NoSweep, MissInv, MissesNothing, Covered
    <1>2. ASSUME MissInv, NEW s \in Sweepers, Finish(s), NEW i \in sweep[s].listed,
                 authorization[i].expires_at <= sweep[s].today
          PROVE  authorization[i].status # "PENDING"
        <2>1. sweep[s].phase = "release" /\ sweep[s].batch = <<>>
            BY <1>2 DEF Finish
        <2>2. ~InBatch(s, i)
            BY <2>1 DEF InBatch
        <2> QED
            BY <1>2, <2>1, <2>2 DEF MissInv, MissesNothing, Covered
    <1>3. MissInv /\ [SweeperNext]_vars =>
            [\A s \in Sweepers : Finish(s) =>
                \A i \in sweep[s].listed :
                    authorization[i].expires_at <= sweep[s].today
                        => authorization[i].status # "PENDING"]_vars
        BY <1>2
    <1> QED
        BY <1>1, <1>3, MissInvStep, PTL DEF SweeperSpec, SweepLeavesNothingDue

================================================================================
