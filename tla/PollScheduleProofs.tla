------------------------- MODULE PollScheduleProofs -------------------------
(***************************************************************************)
(* Proofs about PollSchedule, for every value of its constants.            *)
(*                                                                         *)
(* One invariant carries everything: the types, the item being polled, the *)
(* configured statuses, and the counting of AUTO replies.  Hysteresis is   *)
(* then a fact about the one step that moves a status.                     *)
(***************************************************************************)
EXTENDS PollSchedule, FiniteSetTheorems, TLAPS

-----------------------------------------------------------------------------
(* The invariant. *)

SomeoneIsPolled == phase = "polling" => claimed \in Item

\* The runs the code counts did ask for the candidate, one after the other.
RunsWereAsked ==
    \A i \in Item : candidate[i] = asked[i].status /\ runs[i] <= asked[i].times

Inv == TypeOK /\ SomeoneIsPolled /\ ExplicitStatusStands /\ RunsWereAsked

-----------------------------------------------------------------------------
(* Lemmas about the operators. *)

\* The lease of a claimed item is within MaxDue (worker.py _claim_next_history).
LEMMA LeaseBound == MaxDue \in Nat /\ Lease \in 1 .. MaxDue
  BY IntervalsAssumption, SMT DEF MaxDue, Greater

\* An interval of any effective status is within MaxDue (worker.py _poll_interval).
LEMMA IntervalBound ==
  ASSUME NEW status \in Status \ {AUTO}
  PROVE  PollInterval(status) \in 1 .. MaxDue
<1>1. {HotInterval, NormalInterval, RareInterval, ExtremelyRareInterval} \subseteq 1 .. MaxDue
  BY IntervalsAssumption, SMT DEF MaxDue, Greater
<1> QED
  BY <1>1, SMT DEF PollInterval, Status, AUTO, HOT, NORMAL, RARE, IGNORE, EXTREMELY_RARE

\* So is the backoff after any number of errors (worker.py _save_history_error).
LEMMA BackoffBound ==
  ASSUME NEW count \in Nat
  PROVE  Backoff(count) \in 1 .. MaxDue
<1>1. BackoffBase * 2 ^ count \in Int
  BY IntervalsAssumption, SMT
<1>2. Backoff(count) \in 1 .. Greater(RetryAfter, BackoffCap)
  BY <1>1, IntervalsAssumption, SMT DEF Backoff, Greater, Lesser
<1> QED
  BY <1>2, IntervalsAssumption, SMT DEF MaxDue, Greater

\* The overdue items are at most N, so their ranks are (Tick).
LEMMA RankBound ==
  ASSUME NEW S \in SUBSET Item, NEW T, NEW f \in [S -> T], T = {f[j] : j \in S}
  PROVE  Cardinality(T) \in 0 .. N
<1>1. IsFiniteSet(Item) /\ Cardinality(Item) = N
  BY FS_Interval, ItemsAssumption, SMT DEF Item
<1>2. IsFiniteSet(S) /\ Cardinality(S) <= N
  BY <1>1, FS_Subset
<1>3. f \in Surjection(S, T)
  BY DEF Surjection
<1>4. IsFiniteSet(T) /\ Cardinality(T) <= Cardinality(S)
  BY <1>2, <1>3, FS_Surjection
<1>5. Cardinality(S) \in Nat /\ Cardinality(T) \in Nat
  BY <1>2, <1>4, FS_CardinalityType
<1> QED
  BY <1>2, <1>4, <1>5, ItemsAssumption, SMT

-----------------------------------------------------------------------------
(* The invariant is inductive. *)

\* An empty market satisfies the invariant.
LEMMA InitInv == Init => Inv
<1> SUFFICES ASSUME Init PROVE Inv
  OBVIOUS
<1> USE ItemsAssumption DEF Init
<1>1. 0 \in 0 .. MaxDue
  BY LeaseBound, SMT
<1>2. TypeOK
  <2>1. file \in [Item -> Status \cup {Absent}]
    BY DEF Item
  <2>2. configured \in [Item -> Status \cup {Absent}] /\ effective \in [Item -> Status \ {AUTO}]
    BY SMT DEF Status, AUTO, HOT, NORMAL, RARE, IGNORE, EXTREMELY_RARE
  <2>3. due \in [Item -> -N .. MaxDue]
    BY LeaseBound, SMT
  <2> QED
    BY <2>1, <2>2, <2>3, IntervalsAssumption, SMT DEF TypeOK, Unasked
<1>3. SomeoneIsPolled /\ ExplicitStatusStands /\ RunsWereAsked
  BY SMT DEF SomeoneIsPolled, ExplicitStatusStands, Known, RunsWereAsked, Unasked
<1> QED
  BY <1>2, <1>3 DEF Inv

\* What reading the config does to the statuses and the due times.
LEMMA SyncKeeps ==
  ASSUME Inv, SyncItems
  PROVE  /\ configured' \in [Item -> Status \cup {Absent}]
         /\ effective' \in [Item -> Status \ {AUTO}]
         /\ due' \in [Item -> -N .. MaxDue]
         /\ ExplicitStatusStands'
<1> USE DEF Inv, TypeOK
<1>1. CASE Listed = {}
  BY <1>1 DEF SyncItems, market, ExplicitStatusStands, Known
<1>2. CASE Listed # {}
  <2>1. \A i \in Listed : file[i] \in Status
    BY DEF Listed
  <2>2. \A i \in Listed : SyncedEffective(i) \in Status \ {AUTO}
    BY <2>1, SMT DEF SyncedEffective, Listed, Known, Status,
                     AUTO, HOT, NORMAL, RARE, IGNORE, EXTREMELY_RARE
  <2>3. IGNORE \in Status \ {AUTO} /\ IGNORE # Absent /\ Absent \notin Status
    BY SMT DEF Status, AUTO, HOT, NORMAL, RARE, IGNORE, EXTREMELY_RARE, Absent
  <2>4. configured' \in [Item -> Status \cup {Absent}]
    BY <1>2, <2>1, <2>3 DEF SyncItems
  <2>5. effective' \in [Item -> Status \ {AUTO}]
    BY <1>2, <2>2, <2>3 DEF SyncItems
  <2>6. due' \in [Item -> -N .. MaxDue]
    BY <1>2, LeaseBound, ItemsAssumption, SMT DEF SyncItems
  <2>7. ExplicitStatusStands'
    <3> SUFFICES ASSUME NEW i \in Item, configured'[i] # Absent, configured'[i] # AUTO
                 PROVE  effective'[i] = configured'[i]
      BY DEF ExplicitStatusStands, Known
    <3> QED
      BY <1>2 DEF SyncItems, SyncedEffective, Known
  <2> QED
    BY <2>4, <2>5, <2>6, <2>7
<1> QED
  BY <1>1, <1>2

\* One more classifying reply, and the counting of it.
LEMMA UpdateKeeps ==
  ASSUME Inv, NEW i \in Item, NEW desired \in Activity, UpdateAuto(i, desired)
  PROVE  /\ effective' \in [Item -> Status \ {AUTO}]
         /\ candidate' \in [Item -> Activity \cup {NoStatus}]
         /\ runs' \in [Item -> 0 .. 2]
         /\ asked' \in [Item -> [status : Activity \cup {NoStatus}, times : 0 .. 3]]
         /\ RunsWereAsked'
         /\ \A j \in Item \ {i} : effective'[j] = effective[j]
         /\ (effective'[i] # effective[i] /\ asked'[i] # Unasked) =>
                /\ asked'[i].status = effective'[i]
                /\ asked'[i].times >= IF effective'[i] < effective[i] THEN 2 ELSE 3
<1> USE DEF Inv, TypeOK
<1>1. desired \in Status \ {AUTO} /\ desired # NoStatus
  BY ItemsAssumption, SMT DEF Status, AUTO, HOT, NORMAL, RARE, IGNORE, EXTREMELY_RARE, NoStatus
<1>2. CASE ~answered[i]
  <2>1. effective' \in [Item -> Status \ {AUTO}]
    BY <1>1, <1>2 DEF UpdateAuto
  <2>2. /\ candidate' = [candidate EXCEPT ![i] = NoStatus]
        /\ runs' = [runs EXCEPT ![i] = 0] /\ asked' = [asked EXCEPT ![i] = Unasked]
    BY <1>2 DEF UpdateAuto
  <2>3. \A j \in Item \ {i} : effective'[j] = effective[j]
    BY <1>2 DEF UpdateAuto
  <2> QED
    BY <2>1, <2>2, <2>3, SMT DEF RunsWereAsked, Unasked
<1>3. CASE answered[i]
  <2> DEFINE counted == CandidateRuns(i, desired)
             moves == counted >= RequiredRuns(i, desired)
             again == IF asked[i].status = desired THEN Lesser(3, asked[i].times + 1) ELSE 1
  <2>1. /\ effective' = [effective EXCEPT ![i] = IF moves THEN desired ELSE effective[i]]
        /\ candidate' = [candidate EXCEPT ![i] = desired]
        /\ runs' = [runs EXCEPT ![i] = IF moves THEN 0 ELSE counted]
        /\ asked' = [asked EXCEPT ![i] = [status |-> desired, times |-> again]]
    BY <1>3, Zenon DEF UpdateAuto
  <2>2. /\ candidate[i] = asked[i].status /\ runs[i] <= asked[i].times
        /\ runs[i] \in 0 .. 2 /\ asked[i].times \in 0 .. 3
    BY DEF RunsWereAsked
  <2>3. counted \in 1 .. 3 /\ again \in 1 .. 3 /\ counted <= again
    BY <2>2, SMT DEF CandidateRuns, Lesser
  <2>4. RequiredRuns(i, desired) = IF desired < effective[i] THEN 2 ELSE 3
    BY DEF RequiredRuns
  <2>5. ~moves => counted \in 0 .. 2
    BY <2>3, <2>4, SMT
  <2>6. effective' \in [Item -> Status \ {AUTO}]
    BY <1>1, <2>1
  <2>7. candidate' \in [Item -> Activity \cup {NoStatus}]
    BY <2>1
  <2>8. runs' \in [Item -> 0 .. 2]
    <3>1. (IF moves THEN 0 ELSE counted) \in 0 .. 2
      BY <2>5, SMT
    <3> HIDE DEF counted, moves
    <3> QED
      BY <2>1, <3>1
  <2>9. asked' \in [Item -> [status : Activity \cup {NoStatus}, times : 0 .. 3]]
    <3>1. [status |-> desired, times |-> again]
              \in [status : Activity \cup {NoStatus}, times : 0 .. 3]
      BY <2>3, SMT
    <3> HIDE DEF again
    <3> QED
      BY <2>1, <3>1
  <2>10. RunsWereAsked'
    <3> SUFFICES ASSUME NEW j \in Item
                 PROVE  candidate'[j] = asked'[j].status /\ runs'[j] <= asked'[j].times
      BY DEF RunsWereAsked
    <3>1. CASE j = i
      <4>1. /\ candidate'[i] = desired /\ runs'[i] = IF moves THEN 0 ELSE counted
            /\ asked'[i] = [status |-> desired, times |-> again]
        BY <2>1
      <4> HIDE DEF counted, moves, again
      <4> QED
        BY <3>1, <4>1, <2>3, SMT
    <3>2. CASE j # i
      BY <2>1, <3>2 DEF RunsWereAsked
    <3> QED
      BY <3>1, <3>2
  <2>11. \A j \in Item \ {i} : effective'[j] = effective[j]
    BY <2>1
  <2>12. (effective'[i] # effective[i] /\ asked'[i] # Unasked) =>
            /\ asked'[i].status = effective'[i]
            /\ asked'[i].times >= IF effective'[i] < effective[i] THEN 2 ELSE 3
    <3>1. /\ effective'[i] = IF moves THEN desired ELSE effective[i]
          /\ asked'[i] = [status |-> desired, times |-> again]
      BY <2>1
    <3>2. moves => again >= IF desired < effective[i] THEN 2 ELSE 3
      BY <2>3, <2>4, SMT
    <3> HIDE DEF counted, moves, again
    <3> QED
      BY <3>1, <3>2
  <2> QED
    BY <2>6, <2>7, <2>8, <2>9, <2>10, <2>11, <2>12
<1> QED
  BY <1>2, <1>3

\* A reply that settles the status by itself.
LEMMA SettleKeeps ==
  ASSUME Inv, NEW i \in Item, NEW reply \in Reply, ForcedStatus(i, reply) # NoStatus,
         Settle(i, ForcedStatus(i, reply))
  PROVE  /\ effective' \in [Item -> Status \ {AUTO}]
         /\ candidate' \in [Item -> Activity \cup {NoStatus}]
         /\ runs' \in [Item -> 0 .. 2]
         /\ asked' \in [Item -> [status : Activity \cup {NoStatus}, times : 0 .. 3]]
         /\ RunsWereAsked'
         /\ \A j \in Item \ {i} : effective'[j] = effective[j]
         /\ asked'[i] = Unasked
<1> USE DEF Inv, TypeOK
<1>1. ForcedStatus(i, reply) \in Status \ {AUTO}
  BY SMT DEF ForcedStatus, Reply, Status, AUTO, HOT, NORMAL, RARE, IGNORE, EXTREMELY_RARE
<1>2. effective' \in [Item -> Status \ {AUTO}]
  BY <1>1 DEF Settle
<1>3. /\ candidate' = [candidate EXCEPT ![i] = NoStatus]
      /\ runs' = [runs EXCEPT ![i] = 0] /\ asked' = [asked EXCEPT ![i] = Unasked]
  BY DEF Settle
<1>4. \A j \in Item \ {i} : effective'[j] = effective[j]
  BY DEF Settle
<1> QED
  BY <1>2, <1>3, <1>4, SMT DEF RunsWereAsked, Unasked

\* What the outcome of a poll does to the AUTO state of the item.
LEMMA SuccessKeeps ==
  ASSUME Inv, NEW reply \in Reply, NEW desired \in Activity, SaveSuccess(reply, desired)
  PROVE  /\ effective' \in [Item -> Status \ {AUTO}]
         /\ candidate' \in [Item -> Activity \cup {NoStatus}]
         /\ runs' \in [Item -> 0 .. 2]
         /\ asked' \in [Item -> [status : Activity \cup {NoStatus}, times : 0 .. 3]]
         /\ RunsWereAsked'
         /\ ExplicitStatusStands'
         /\ \A i \in Item : (effective'[i] # effective[i] /\ asked'[i] # Unasked) =>
                /\ asked'[i].status = effective'[i]
                /\ asked'[i].times >= IF effective'[i] < effective[i] THEN 2 ELSE 3
<1>1. claimed \in Item /\ configured' = configured
  BY DEF SaveSuccess, Inv, SomeoneIsPolled
<1>2. CASE ~Classifies(claimed)
  <2>1. UNCHANGED <<effective, candidate, runs, asked>>
    BY <1>2 DEF SaveSuccess, auto
  <2> QED
    BY <1>1, <2>1 DEF Inv, TypeOK, RunsWereAsked, ExplicitStatusStands, Known
<1>3. CASE Classifies(claimed) /\ ForcedStatus(claimed, reply) # NoStatus
  <2>1. Settle(claimed, ForcedStatus(claimed, reply))
    BY <1>3 DEF SaveSuccess
  <2> QED
    BY <1>1, <1>3, <2>1, SettleKeeps
       DEF ExplicitStatusStands, Known, Classifies, Inv
<1>4. CASE Classifies(claimed) /\ ForcedStatus(claimed, reply) = NoStatus
  <2>1. UpdateAuto(claimed, desired)
    BY <1>4 DEF SaveSuccess
  <2> QED
    BY <1>1, <1>4, <2>1, UpdateKeeps
       DEF ExplicitStatusStands, Known, Classifies, Inv
<1> QED
  BY <1>2, <1>3, <1>4

\* Every step of the schedule keeps it.
LEMMA NextInv == Inv /\ [Next]_vars => Inv'
<1> SUFFICES ASSUME Inv, [Next]_vars PROVE Inv'
  OBVIOUS
<1>1. ASSUME NEW i \in Item, NEW status \in ConfigStatus \cup {Absent}, PutConfig(i, status)
      PROVE  Inv'
  <2>1. file' \in [Item -> Status \cup {Absent}] /\ edits' \in 0 .. MaxEdits
    BY <1>1, ItemsAssumption, SMT DEF PutConfig, Inv, TypeOK
  <2> QED
    BY <1>1, <2>1 DEF PutConfig, Inv, TypeOK, market, auto, loop, SomeoneIsPolled,
                      ExplicitStatusStands, Known, RunsWereAsked
<1>2. CASE Start
  BY <1>2, SyncKeeps DEF Start, Inv, TypeOK, auto, SomeoneIsPolled, RunsWereAsked
<1>3. CASE Refresh
  BY <1>3, SyncKeeps DEF Refresh, Inv, TypeOK, auto, loop, SomeoneIsPolled, RunsWereAsked
<1>4. CASE Claim
  <2>1. PICK i \in Item : claimed' = i /\ due' = [due EXCEPT ![i] = Lease]
    BY <1>4 DEF Claim, Due
  <2>2. due' \in [Item -> -N .. MaxDue]
    BY <2>1, LeaseBound, ItemsAssumption, SMT DEF Inv, TypeOK
  <2> QED
    BY <1>4, <2>1, <2>2 DEF Claim, Inv, TypeOK, market, auto, SomeoneIsPolled,
                            ExplicitStatusStands, Known, RunsWereAsked
<1>5. ASSUME NEW reply \in Reply, NEW desired \in Activity, SaveSuccess(reply, desired)
      PROVE  Inv'
  <2>1. claimed \in Item
    BY <1>5 DEF SaveSuccess, Inv, SomeoneIsPolled
  <2>2. effective' \in [Item -> Status \ {AUTO}]
    BY <1>5, SuccessKeeps
  <2>3. PollInterval(effective'[claimed]) \in 1 .. MaxDue
    BY <2>1, <2>2, IntervalBound
  <2>4. due' = [due EXCEPT ![claimed] = PollInterval(effective'[claimed])]
    BY <1>5 DEF SaveSuccess
  <2>5. due' \in [Item -> -N .. MaxDue]
    <3>1. PollInterval(effective'[claimed]) \in -N .. MaxDue
      BY <2>3, LeaseBound, ItemsAssumption, SMT
    <3>2. due \in [Item -> -N .. MaxDue]
      BY DEF Inv, TypeOK
    <3> QED
      BY <2>1, <2>4, <3>1, <3>2
  <2>6. /\ answered' \in [Item -> BOOLEAN] /\ errors' \in [Item -> 0 .. MaxErrors]
        /\ phase' = "idle" /\ claimed' = Nobody
        /\ UNCHANGED <<file, configured, edits, crashes>>
    BY <1>5, <2>1, IntervalsAssumption, SMT DEF SaveSuccess, Inv, TypeOK
  <2> QED
    BY <1>5, <2>2, <2>5, <2>6, SuccessKeeps DEF Inv, TypeOK, SomeoneIsPolled
<1>6. CASE SaveError
  <2>1. claimed \in Item
    BY <1>6 DEF SaveError, Inv, SomeoneIsPolled
  <2>2. errors[claimed] \in 0 .. MaxErrors
    BY <2>1 DEF Inv, TypeOK
  <2>3. Lesser(MaxErrors, errors[claimed] + 1) \in 0 .. MaxErrors
    BY <2>2, IntervalsAssumption, SMT DEF Lesser
  <2>4. errors' \in [Item -> 0 .. MaxErrors]
    BY <1>6, <2>1, <2>3 DEF SaveError, Inv, TypeOK
  <2>5. Backoff(errors'[claimed]) \in 1 .. MaxDue
    <3>1. errors'[claimed] \in Nat
      BY <2>1, <2>4, IntervalsAssumption, SMT
    <3> QED
      BY <3>1, BackoffBound
  <2>6. due' = [due EXCEPT ![claimed] = Backoff(errors'[claimed])]
    BY <1>6 DEF SaveError
  <2>7. due' \in [Item -> -N .. MaxDue]
    <3>1. Backoff(errors'[claimed]) \in -N .. MaxDue
      BY <2>5, LeaseBound, ItemsAssumption, SMT
    <3>2. due \in [Item -> -N .. MaxDue]
      BY DEF Inv, TypeOK
    <3> QED
      BY <2>1, <2>6, <3>1, <3>2
  <2> QED
    BY <1>6, <2>4, <2>7 DEF SaveError, Inv, TypeOK, market, auto, SomeoneIsPolled,
                            ExplicitStatusStands, Known, RunsWereAsked
<1>7. CASE Tick
  <2> DEFINE later(i) == due[i] - 1
             overdue(i) == {k \in Known : later(i) <= later(k) /\ later(k) < 0}
             rank(i) == Cardinality({later(j) : j \in overdue(i)})
  <2>1. due' = [i \in Item |-> IF i \notin Known THEN due[i]
                               ELSE IF later(i) >= 0 THEN later(i) ELSE -rank(i)]
    BY <1>7, Zenon DEF Tick
  <2>2. ASSUME NEW i \in Item PROVE rank(i) \in 0 .. N
    <3>1. overdue(i) \in SUBSET Item
      BY DEF Known
    <3> DEFINE T == {later(j) : j \in overdue(i)}
               f == [j \in overdue(i) |-> later(j)]
    <3>2. f \in [overdue(i) -> T] /\ T = {f[j] : j \in overdue(i)}
      OBVIOUS
    <3> HIDE DEF overdue, later, f
    <3>3. Cardinality(T) \in 0 .. N
      <4> HIDE DEF T
      <4> QED
        BY <3>1, <3>2, RankBound
    <3> QED
      BY <3>3
  <2>3. ASSUME NEW i \in Item PROVE due'[i] \in -N .. MaxDue
    <3>1. due[i] \in -N .. MaxDue /\ MaxDue \in Int
      BY LeaseBound, SMT DEF Inv, TypeOK
    <3>2. due'[i] = IF i \notin Known THEN due[i]
                    ELSE IF later(i) >= 0 THEN later(i) ELSE -rank(i)
      BY <2>1
    <3>3. rank(i) \in 0 .. N
      BY <2>2
    <3> HIDE DEF rank
    <3> QED
      BY <3>1, <3>2, <3>3, LeaseBound, ItemsAssumption, SMT
  <2>4. due' \in [Item -> -N .. MaxDue]
    <3> HIDE DEF rank, later
    <3> QED
      BY <2>1, <2>3
  <2> QED
    BY <1>7, <2>4 DEF Tick, Inv, TypeOK, market, auto, loop, SomeoneIsPolled,
                      ExplicitStatusStands, Known, RunsWereAsked
<1>8. CASE Restart
  <2>1. crashes' \in 0 .. MaxCrashes
    BY <1>8, ItemsAssumption, SMT DEF Restart, Inv, TypeOK
  <2> QED
    BY <1>8, <2>1 DEF Restart, Inv, TypeOK, market, auto, SomeoneIsPolled,
                      ExplicitStatusStands, Known, RunsWereAsked
<1>9. CASE UNCHANGED vars
  BY <1>9 DEF vars, market, auto, loop, Inv, TypeOK, SomeoneIsPolled,
              ExplicitStatusStands, Known, RunsWereAsked
<1> QED
  BY <1>1, <1>2, <1>3, <1>4, <1>5, <1>6, <1>7, <1>8, <1>9 DEF Next, Edit, Succeed

-----------------------------------------------------------------------------
(* The theorems. *)

\* The types, and with them that no due time is ever further away than the
\* longest interval, lease or backoff, however long errors go on.
THEOREM TypeCorrect == Spec => []TypeOK
<1> QED
  BY InitInv, NextInv, PTL DEF Spec, Inv

\* What the admin configured stands, whatever a poll in flight classifies.
THEOREM ExplicitStands == Spec => []ExplicitStatusStands
<1> QED
  BY InitInv, NextInv, PTL DEF Spec, Inv

\* A status moves on activity only after two or three replies in a row.
THEOREM MovesAreAsked == Spec => Hysteresis
<1> DEFINE Asked ==
      phase = "polling" =>
        \A i \in Item :
            (effective'[i] # effective[i] /\ asked'[i] # Unasked) =>
                /\ asked'[i].status = effective'[i]
                /\ asked'[i].times >= IF effective'[i] < effective[i] THEN 2 ELSE 3
<1>1. Inv /\ [Next]_vars => [Asked]_vars
  <2> SUFFICES ASSUME Inv, Next PROVE Asked
    OBVIOUS
  <2>1. CASE Succeed
    BY <2>1, SuccessKeeps DEF Succeed
  <2>2. CASE Start \/ Refresh
    BY <2>2 DEF Start, Refresh
  <2>3. CASE Edit \/ Claim \/ SaveError \/ Tick \/ Restart
    BY <2>3 DEF Edit, PutConfig, Claim, SaveError, Tick, Restart, market
  <2> QED
    BY <2>1, <2>2, <2>3 DEF Next
<1> QED
  BY <1>1, InitInv, NextInv, PTL DEF Spec, Hysteresis

=============================================================================
