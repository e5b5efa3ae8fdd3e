---------------------------- MODULE PollSchedule ----------------------------
(***************************************************************************)
(* Which item the live loop of app/modules/history/worker.py polls next,   *)
(* and with which status: the market-items config the admin API writes,    *)
(* its copy in the table market_items, the due times in                    *)
(* history_poll_states, the classification of AUTO items, the retries.     *)
(*                                                                         *)
(* What a poll collects is the matter of HistoryCollection.  Here a poll   *)
(* is a reply of one of four kinds, or a failure.                          *)
(*                                                                         *)
(* due[i] is next_poll_at seen from now: positive, the ticks left; 0, due  *)
(* in this tick; -k, overdue, and the k-th latest of the overdue due       *)
(* times.  The code only ever compares due times with now and with each    *)
(* other, so the ranks of the overdue ones carry all it can see.           *)
(***************************************************************************)
EXTENDS Integers, FiniteSets

CONSTANTS
    N,               \* items 1..N, in the order of their ids
    ConfigStatus,    \* the statuses the admin gives to items
    Activity,        \* the statuses an activity score may ask for
    HotInterval, NormalInterval, RareInterval, ExtremelyRareInterval,
    Lease,           \* a claimed item is not due again for so long
    BackoffBase, BackoffCap, RetryAfter,
    MaxErrors,       \* consecutive errors are counted up to here
    MaxEdits,        \* bound of the model: changes of the config
    MaxCrashes       \* bound of the model: restarts of the worker

\* MarketStatus.
AUTO == 0
HOT == 1
NORMAL == 2
RARE == 3
IGNORE == 4
EXTREMELY_RARE == 5

Status == {AUTO, HOT, NORMAL, RARE, IGNORE, EXTREMELY_RARE}

\* An item that is not in the config, or has no row yet.
Absent == 6

ASSUME ItemsAssumption ==
    /\ N \in Nat /\ MaxEdits \in Nat /\ MaxCrashes \in Nat
    /\ ConfigStatus \subseteq Status
    /\ Activity \subseteq {HOT, NORMAL, RARE}

\* Backing off further than the cap makes no difference from MaxErrors on.
ASSUME IntervalsAssumption ==
    /\ {HotInterval, NormalInterval, RareInterval, ExtremelyRareInterval,
        Lease, BackoffBase, BackoffCap, RetryAfter} \subseteq Nat \ {0}
    /\ MaxErrors \in Nat
    /\ BackoffBase * 2 ^ MaxErrors >= BackoffCap

VARIABLES
    file,        \* the config file: the status of every listed item
    configured, effective,   \* MarketItem
    due,         \* HistoryPollState.next_poll_at
    answered,    \* HistoryPollState.last_success_at is not NULL
    candidate, runs,         \* auto_candidate_status, auto_candidate_runs
    errors,      \* consecutive_errors
    phase, claimed,          \* the live loop and the item it is polling
    asked,       \* history variable: the status the latest classifying replies
                 \* asked for, and how many in a row did, up to three
    edits, crashes

market == <<configured, effective>>
auto   == <<candidate, runs, asked>>
loop   == <<phase, claimed>>
vars   == <<file, market, due, answered, auto, errors, loop, edits, crashes>>

Item == 1 .. N
Nobody == 0

Lesser(a, b)  == IF a <= b THEN a ELSE b
Greater(a, b) == IF a <= b THEN b ELSE a

-----------------------------------------------------------------------------
(* The config. *)

\* PUT /market-items-config writes the whole file; here one entry differs from
\* before: it is given a status, added or left out.
PutConfig(i, status) ==
    /\ edits < MaxEdits
    /\ status # file[i]
    /\ edits' = edits + 1
    /\ file' = [file EXCEPT ![i] = status]
    /\ UNCHANGED <<market, due, answered, auto, errors, loop, crashes>>

Listed == {i \in Item : file[i] # Absent}
Known  == {i \in Item : configured[i] # Absent}

\* The effective status of a listed item: AUTO keeps what the row has, and a
\* new row starts as RARE.
SyncedEffective(i) ==
    IF file[i] # AUTO THEN file[i]
    ELSE IF i \in Known THEN effective[i]
    ELSE RARE

\* _sync_items.  An empty config changes nothing.
SyncItems ==
    IF Listed = {}
    THEN UNCHANGED <<market, due>>
    ELSE /\ configured' = [i \in Item |-> IF i \in Listed THEN file[i]
                                          ELSE IF i \in Known THEN IGNORE ELSE Absent]
         /\ effective' = [i \in Item |-> IF i \in Listed THEN SyncedEffective(i)
                                         ELSE IF i \in Known THEN IGNORE ELSE effective[i]]
         /\ due' = [i \in Item |-> IF i \in Listed \ Known THEN 0 ELSE due[i]]

\* run() reads the config before it starts the loops.
Start ==
    /\ phase = "starting"
    /\ SyncItems
    /\ phase' = "idle"
    /\ UNCHANGED <<file, answered, auto, errors, claimed, edits, crashes>>

\* The loop reads it again every five minutes, between two polls.
Refresh ==
    /\ phase = "idle"
    /\ SyncItems
    /\ UNCHANGED <<file, answered, auto, errors, loop, edits, crashes>>

-----------------------------------------------------------------------------
(* The queue. *)

Pollable(i) == i \in Known /\ configured[i] # IGNORE /\ effective[i] # IGNORE
Due == {i \in Item : Pollable(i) /\ due[i] <= 0}

\* A slip: ordered by status first.
BeforeByStatus(i, j) ==
    \/ effective[i] < effective[j]
    \/ effective[i] = effective[j] /\ due[i] < due[j]
    \/ effective[i] = effective[j] /\ due[i] = due[j] /\ i < j

\* ORDER BY next_poll_at, effective_status, id
Before(i, j) ==
    \/ due[i] < due[j]
    \/ due[i] = due[j] /\ effective[i] < effective[j]
    \/ due[i] = due[j] /\ effective[i] = effective[j] /\ i < j

\* _claim_next_history
Claim ==
    /\ phase = "idle"
    /\ \E i \in Due :
        /\ \A j \in Due \ {i} : Before(i, j)
        /\ claimed' = i
        /\ due' = [due EXCEPT ![i] = Lease]
    /\ phase' = "polling"
    /\ UNCHANGED <<file, market, answered, auto, errors, edits, crashes>>

\* The overdue times, one tick later.
Tick ==
    /\ phase # "starting"
    /\ LET later(i) == due[i] - 1
           rank(i) == Cardinality({later(j) : j \in {k \in Known : later(i) <= later(k)
                                                                   /\ later(k) < 0}})
       IN  due' = [i \in Item |-> IF i \notin Known THEN due[i]
                                  ELSE IF later(i) >= 0 THEN later(i) ELSE -rank(i)]
    /\ UNCHANGED <<file, market, answered, auto, errors, loop, edits, crashes>>

-----------------------------------------------------------------------------
(* The outcome of a poll. *)

\* The first page of the history is empty; its newest sale is of the last 90
\* days; it is older, and the item has no lots or some.
Reply == {"empty", "recent", "old_without_lots", "old_with_lots"}

NoStatus == -1
Unasked == [status |-> NoStatus, times |-> 0]

\* _classify_special_auto, for an AUTO item.
ForcedStatus(i, reply) ==
    CASE reply = "empty" -> IGNORE
      [] reply = "old_without_lots" -> EXTREMELY_RARE
      [] reply = "old_with_lots" -> RARE
      [] reply = "recent" -> IF effective[i] = EXTREMELY_RARE THEN RARE ELSE NoStatus

\* A slip: runs that asked for different statuses are counted together.
CandidateRunsKept(i, desired) == runs[i] + 1

\* How many runs in a row have asked for `desired`, this one included.
CandidateRuns(i, desired) == IF candidate[i] = desired THEN runs[i] + 1 ELSE 1

RequiredRuns(i, desired) == IF desired < effective[i] THEN 2 ELSE 3

\* _update_auto_status
UpdateAuto(i, desired) ==
    IF ~answered[i]
    THEN /\ effective' = [effective EXCEPT ![i] = desired]
         /\ candidate' = [candidate EXCEPT ![i] = NoStatus]
         /\ runs' = [runs EXCEPT ![i] = 0]
         /\ asked' = [asked EXCEPT ![i] = Unasked]
    ELSE LET counted == CandidateRuns(i, desired)
             moves == counted >= RequiredRuns(i, desired)
             again == IF asked[i].status = desired THEN Lesser(3, asked[i].times + 1) ELSE 1
         IN  /\ effective' = [effective EXCEPT ![i] = IF moves THEN desired ELSE @]
             /\ candidate' = [candidate EXCEPT ![i] = desired]
             /\ runs' = [runs EXCEPT ![i] = IF moves THEN 0 ELSE counted]
             /\ asked' = [asked EXCEPT ![i] = [status |-> desired, times |-> again]]

Settle(i, status) ==
    /\ effective' = [effective EXCEPT ![i] = status]
    /\ candidate' = [candidate EXCEPT ![i] = NoStatus]
    /\ runs' = [runs EXCEPT ![i] = 0]
    /\ asked' = [asked EXCEPT ![i] = Unasked]

Classifies(i) == configured[i] = AUTO

\* _poll_interval
PollInterval(status) ==
    CASE status = HOT -> HotInterval
      [] status = NORMAL -> NormalInterval
      [] status = RARE -> RareInterval
      [] status \in {IGNORE, EXTREMELY_RARE} -> ExtremelyRareInterval

\* _save_history_success
SaveSuccess(reply, desired) ==
    /\ phase = "polling"
    /\ LET i == claimed
       IN  /\ IF Classifies(i)
              THEN IF ForcedStatus(i, reply) # NoStatus
                   THEN Settle(i, ForcedStatus(i, reply))
                   ELSE UpdateAuto(i, desired)
              ELSE UNCHANGED <<effective, auto>>
           /\ answered' = [answered EXCEPT ![i] = TRUE]
           /\ errors' = [errors EXCEPT ![i] = 0]
           /\ due' = [due EXCEPT ![i] = PollInterval(effective'[i])]
    /\ phase' = "idle" /\ claimed' = Nobody
    /\ UNCHANGED <<file, configured, edits, crashes>>

\* A slip: the exponential backoff has no cap.
BackoffUncapped(count) == Greater(RetryAfter, BackoffBase * 2 ^ count)

Backoff(count) == Greater(RetryAfter, Lesser(BackoffCap, BackoffBase * 2 ^ count))

\* _save_history_error
SaveError ==
    /\ phase = "polling"
    /\ errors' = [errors EXCEPT ![claimed] = Lesser(MaxErrors, @ + 1)]
    /\ due' = [due EXCEPT ![claimed] = Backoff(errors'[claimed])]
    /\ phase' = "idle" /\ claimed' = Nobody
    /\ UNCHANGED <<file, market, answered, auto, edits, crashes>>

\* The process dies, also in the middle of a poll, and starts again.
Restart ==
    /\ phase # "starting"
    /\ crashes < MaxCrashes
    /\ crashes' = crashes + 1
    /\ phase' = "starting" /\ claimed' = Nobody
    /\ UNCHANGED <<file, market, due, answered, auto, errors, edits>>

-----------------------------------------------------------------------------
(* Specification. *)

Init ==
    /\ file \in [Item -> ConfigStatus \cup {Absent}]
    /\ configured = [i \in Item |-> Absent]
    /\ effective = [i \in Item |-> RARE]
    /\ due = [i \in Item |-> 0]
    /\ answered = [i \in Item |-> FALSE]
    /\ candidate = [i \in Item |-> NoStatus]
    /\ runs = [i \in Item |-> 0]
    /\ errors = [i \in Item |-> 0]
    /\ phase = "starting" /\ claimed = Nobody
    /\ asked = [i \in Item |-> Unasked]
    /\ edits = 0 /\ crashes = 0

Succeed == \E reply \in Reply, desired \in Activity : SaveSuccess(reply, desired)
Edit    == \E i \in Item, status \in ConfigStatus \cup {Absent} : PutConfig(i, status)

Next == Edit \/ Start \/ Refresh \/ Claim \/ Succeed \/ SaveError \/ Tick \/ Restart

Spec == Init /\ [][Next]_vars

\* Time passes, and the worker starts, claims what is due and ends its polls.
Fairness ==
    /\ WF_vars(Tick) /\ WF_vars(Start) /\ WF_vars(Claim)
    /\ WF_vars(Succeed \/ SaveError)
FairSpec == Spec /\ Fairness

-----------------------------------------------------------------------------
(* Properties. *)

MaxDue == Greater(Greater(Greater(HotInterval, NormalInterval),
                          Greater(RareInterval, ExtremelyRareInterval)),
                  Greater(Lease, Greater(RetryAfter, BackoffCap)))

\* The kinds of value the variables hold; no due time is further away than the
\* longest interval, lease or backoff, however many errors come in a row.
TypeOK ==
    /\ file \in [Item -> Status \cup {Absent}]
    /\ configured \in [Item -> Status \cup {Absent}]
    /\ effective \in [Item -> Status \ {AUTO}]
    /\ due \in [Item -> -N .. MaxDue]
    /\ answered \in [Item -> BOOLEAN]
    /\ candidate \in [Item -> Activity \cup {NoStatus}]
    /\ runs \in [Item -> 0 .. 2]
    /\ errors \in [Item -> 0 .. MaxErrors]
    /\ phase \in {"starting", "idle", "polling"}
    /\ claimed \in Item \cup {Nobody}
    /\ asked \in [Item -> [status : Activity \cup {NoStatus}, times : 0 .. 3]]
    /\ edits \in 0 .. MaxEdits /\ crashes \in 0 .. MaxCrashes

\* What the admin configured stands: an item with an explicit status is polled
\* at that status, also when it was AUTO before and its replies go on asking for
\* another one (worker.py _sync_items, _save_history_success).
ExplicitStatusStands ==
    \A i \in Known : configured[i] # AUTO => effective[i] = configured[i]

\* An AUTO item changes between HOT, NORMAL and RARE on activity only when its
\* latest classifying replies, two for a faster status and three for a slower
\* one, all asked for the new one (worker.py _update_auto_status).
Hysteresis ==
    [][phase = "polling" =>
        \A i \in Item :
            (effective'[i] # effective[i] /\ asked'[i] # Unasked) =>
                /\ asked'[i].status = effective'[i]
                /\ asked'[i].times >= IF effective'[i] < effective[i] THEN 2 ELSE 3]_vars

\* Nobody starves: an item that stays pollable is polled, however often others
\* are due, fail, are added or are hotter, and across restarts (worker.py
\* _claim_next_history orders by due time first, and a claim moves it).
NobodyStarves ==
    \A i \in Item : Pollable(i) ~> ((phase = "polling" /\ claimed = i) \/ ~Pollable(i))

\* README.md: an AUTO item is "classified on the first history response".  So
\* an AUTO item is not ignored before it has had one.
AutoIsClassified ==
    \A i \in Known : configured[i] = AUTO /\ effective[i] = IGNORE => answered[i]

=============================================================================
