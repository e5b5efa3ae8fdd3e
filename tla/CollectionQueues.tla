--------------------------- MODULE CollectionQueues ---------------------------
(***************************************************************************)
(* Which item the lot loop and the backfill task of                        *)
(* app/modules/history/worker.py take next: their due times in             *)
(* lot_poll_states and history_poll_states, the leases of what they have   *)
(* claimed, the retries.  What a snapshot or a download does is the matter *)
(* of LotSnapshots and HistoryCollection; the queue of the live loop, of   *)
(* PollSchedule.                                                           *)
(*                                                                         *)
(* As there, a due time is seen from now: positive, the ticks left; 0, due *)
(* in this tick; -k, overdue, and the k-th latest of those.                *)
(***************************************************************************)
EXTENDS Integers, FiniteSets

CONSTANTS
    QueueLength,      \* items 1..QueueLength, in the order of their ids
    Watched, Ignored, \* the statuses of items that are collected, and IGNORE
    Broken,           \* items whose history cannot be downloaded
    MaxChunks,        \* bound of the model: downloads that a backfill takes
    SnapshotInterval, \* lots_poll_interval_seconds
    ClaimLease,       \* a claimed item is not due again for so long
    RetryDelay,       \* the retry-after of a failure
    ErrorBase, ErrorCap, MaxLotErrors,
    MaxStatusChanges, \* bound of the model: changes of statuses
    MaxQueueFaults    \* bound of the model: restarts, and failures of what is not broken

ASSUME QueuesAssumption ==
    /\ QueueLength \in Nat /\ Watched \subseteq Nat /\ Ignored \in Nat \ Watched
    /\ Broken \subseteq 1 .. QueueLength
    /\ {SnapshotInterval, ClaimLease, RetryDelay, ErrorBase, ErrorCap} \subseteq Nat \ {0}
    /\ {MaxChunks, MaxLotErrors, MaxStatusChanges, MaxQueueFaults} \subseteq Nat

VARIABLES
    status,       \* effective_status, or Ignored if that is what is configured
    statusChanges,
    snapshots,    \* the lots: LotPollState's due times and errors, and the claim
    chunks,       \* the backfill: due times, downloads left, and the claim
    queueFaults

queueVars == <<status, statusChanges, snapshots, chunks, queueFaults>>

QueuedItem == 1 .. QueueLength
NoItem == 0

Collected(i) == status[i] # Ignored

\* All due times, one tick later.
Later(due) ==
    LET left(i) == due[i] - 1
        rank(i) == Cardinality({left(j) : j \in {k \in QueuedItem : left(i) <= left(k)
                                                                    /\ left(k) < 0}})
    IN  [i \in QueuedItem |-> IF left(i) >= 0 THEN left(i) ELSE -rank(i)]

\* Items of the config change status, by a sync or by a classification.
StatusChange ==
    /\ statusChanges < MaxStatusChanges
    /\ statusChanges' = statusChanges + 1
    /\ \E i \in QueuedItem : \E s \in (Watched \cup {Ignored}) \ {status[i]} :
        status' = [status EXCEPT ![i] = s]
    /\ UNCHANGED <<snapshots, chunks, queueFaults>>

QueueTick ==
    /\ snapshots' = [snapshots EXCEPT !.due = Later(@)]
    /\ chunks' = [chunks EXCEPT !.due = Later(@)]
    /\ UNCHANGED <<status, statusChanges, queueFaults>>

-----------------------------------------------------------------------------
(* The lot loop. *)

\* A slip: ordered by status first.
TakenFirstByStatus(i, j) ==
    status[i] < status[j] \/ (status[i] = status[j] /\ snapshots.due[i] < snapshots.due[j])

\* ORDER BY next_poll_at, effective_status, id
TakenFirst(i, j) ==
    \/ snapshots.due[i] < snapshots.due[j]
    \/ snapshots.due[i] = snapshots.due[j] /\ status[i] < status[j]
    \/ snapshots.due[i] = snapshots.due[j] /\ status[i] = status[j] /\ i < j

DueForLots == {i \in QueuedItem : Collected(i) /\ snapshots.due[i] <= 0}

\* _claim_next_lot
ClaimNextLot ==
    /\ snapshots.claimed = NoItem
    /\ \E i \in DueForLots :
        /\ \A j \in DueForLots \ {i} : TakenFirst(i, j)
        /\ snapshots' = [snapshots EXCEPT !.claimed = i, !.due[i] = ClaimLease]
    /\ UNCHANGED <<status, statusChanges, chunks, queueFaults>>

\* _save_lots_success
SnapshotSaved ==
    /\ snapshots.claimed # NoItem
    /\ LET i == snapshots.claimed
       IN  snapshots' = [snapshots EXCEPT !.claimed = NoItem, !.errors[i] = 0,
                                          !.due[i] = SnapshotInterval]
    /\ UNCHANGED <<status, statusChanges, chunks, queueFaults>>

\* max(retry_after_seconds, min(3600, 60 * 2 ** consecutive_errors))
ErrorDelay(errors) ==
    LET backoff == ErrorBase * 2 ^ errors
        capped == IF backoff < ErrorCap THEN backoff ELSE ErrorCap
    IN  IF capped < RetryDelay THEN RetryDelay ELSE capped

\* _save_lots_error.  Errors are counted up to where the backoff has its cap.
SnapshotFailed ==
    /\ snapshots.claimed # NoItem
    /\ LET i == snapshots.claimed
           errors == IF snapshots.errors[i] < MaxLotErrors THEN snapshots.errors[i] + 1
                     ELSE MaxLotErrors
       IN  snapshots' = [snapshots EXCEPT !.claimed = NoItem, !.errors[i] = errors,
                                          !.due[i] = ErrorDelay(errors)]
    /\ UNCHANGED <<status, statusChanges, chunks, queueFaults>>

\* A request for the lots of an item succeeds: its errors are forgotten, its due
\* time stays (get_or_refresh_active_lots).
LotsRequested(i) ==
    /\ snapshots.errors[i] > 0
    /\ snapshots' = [snapshots EXCEPT !.errors[i] = 0]
    /\ UNCHANGED <<status, statusChanges, chunks, queueFaults>>

-----------------------------------------------------------------------------
(* The backfill task. *)

\* A slip: ordered by id only.
DownloadedFirstById(i, j) == i < j

\* ORDER BY backfill_next_at, id
DownloadedFirst(i, j) ==
    chunks.due[i] < chunks.due[j] \/ (chunks.due[i] = chunks.due[j] /\ i < j)

DueForBackfill == {i \in QueuedItem : Collected(i) /\ chunks.left[i] > 0 /\ chunks.due[i] <= 0}

\* _claim_next_backfill
ClaimNextChunk ==
    /\ chunks.claimed = NoItem
    /\ \E i \in DueForBackfill :
        /\ \A j \in DueForBackfill \ {i} : DownloadedFirst(i, j)
        /\ chunks' = [chunks EXCEPT !.claimed = i, !.due[i] = ClaimLease]
    /\ UNCHANGED <<status, statusChanges, snapshots, queueFaults>>

\* _save_backfill_success: the item is due at once, unless it is complete.
ChunkSaved ==
    /\ chunks.claimed \in QueuedItem \ Broken
    /\ LET i == chunks.claimed
       IN  chunks' = [chunks EXCEPT !.claimed = NoItem, !.left[i] = @ - 1, !.due[i] = 0]
    /\ UNCHANGED <<status, statusChanges, snapshots, queueFaults>>

\* _save_backfill_error
ChunkFailed ==
    /\ chunks.claimed # NoItem
    /\ queueFaults' = IF chunks.claimed \in Broken THEN queueFaults ELSE queueFaults + 1
    /\ queueFaults' <= MaxQueueFaults
    /\ LET i == chunks.claimed
       IN  chunks' = [chunks EXCEPT !.claimed = NoItem, !.due[i] = RetryDelay]
    /\ UNCHANGED <<status, statusChanges, snapshots>>

\* The process ends and starts again: what it has claimed waits for its lease.
QueuesRestart ==
    /\ queueFaults < MaxQueueFaults
    /\ queueFaults' = queueFaults + 1
    /\ snapshots' = [snapshots EXCEPT !.claimed = NoItem]
    /\ chunks' = [chunks EXCEPT !.claimed = NoItem]
    /\ UNCHANGED <<status, statusChanges>>

-----------------------------------------------------------------------------
(* Specification. *)

QueuesInit ==
    /\ status \in [QueuedItem -> Watched \cup {Ignored}]
    /\ statusChanges = 0 /\ queueFaults = 0
    /\ snapshots = [claimed |-> NoItem, due |-> [i \in QueuedItem |-> 0],
                    errors |-> [i \in QueuedItem |-> 0]]
    /\ chunks = [claimed |-> NoItem, due |-> [i \in QueuedItem |-> 0],
                 left |-> [i \in QueuedItem |-> MaxChunks]]

QueuesNext ==
    \/ StatusChange \/ QueueTick \/ QueuesRestart
    \/ ClaimNextLot \/ SnapshotSaved \/ SnapshotFailed
    \/ \E i \in QueuedItem : LotsRequested(i)
    \/ ClaimNextChunk \/ ChunkSaved \/ ChunkFailed

\* Time passes, both tasks claim what is due, and a snapshot or a download ends.
QueuesFairness ==
    /\ WF_queueVars(QueueTick)
    /\ WF_queueVars(ClaimNextLot) /\ WF_queueVars(SnapshotSaved \/ SnapshotFailed)
    /\ WF_queueVars(ClaimNextChunk) /\ WF_queueVars(ChunkSaved \/ ChunkFailed)

QueuesSpec == QueuesInit /\ [][QueuesNext]_queueVars /\ QueuesFairness

-----------------------------------------------------------------------------
(* Properties. *)

\* The kinds of value the variables hold; no due time is further away than an
\* interval, a lease or the cap of the backoff.
QueuesTypeOK ==
    LET Delays == {SnapshotInterval, ClaimLease, RetryDelay, ErrorCap}
        Due(due) == \A i \in QueuedItem : \/ due[i] \in -QueueLength .. 0
                                          \/ \E d \in Delays : due[i] \in 1 .. d
    IN  /\ status \in [QueuedItem -> Watched \cup {Ignored}]
        /\ statusChanges \in 0 .. MaxStatusChanges /\ queueFaults \in 0 .. MaxQueueFaults
        /\ {snapshots.claimed, chunks.claimed} \subseteq QueuedItem \cup {NoItem}
        /\ Due(snapshots.due) /\ Due(chunks.due)
        /\ snapshots.errors \in [QueuedItem -> 0 .. MaxLotErrors]
        /\ chunks.left \in [QueuedItem -> 0 .. MaxChunks]

\* Every item that stays collected gets its snapshots, though others are hotter,
\* fail and are retried, and the worker may die with a claim (worker.py
\* _claim_next_lot, _save_lots_success, _save_lots_error).
EveryItemIsSnapshotted ==
    \A i \in QueuedItem : Collected(i) ~> (snapshots.claimed = i \/ ~Collected(i))

\* Every backfill ends, chunk by chunk, though the backfills of other items fail
\* for ever and come back after a retry shorter than a download (worker.py
\* _claim_next_backfill, _save_backfill_error).
EveryBackfillEnds ==
    \A i \in QueuedItem \ Broken : Collected(i) ~> (chunks.left[i] = 0 \/ ~Collected(i))

=============================================================================
