---------------------------- MODULE RequestBudget ----------------------------
(***************************************************************************)
(* How the worker spaces its auction requests (app/modules/history/        *)
(* worker.py): each task passes a limiter of its own and then the one that *)
(* all share (UniformRateLimiter, _acquire_live_request and its like).     *)
(* The backfill picks its rate anew for every request.                     *)
(*                                                                         *)
(* A limiter's _next_allowed is kept as the ticks until then.  A task      *)
(* makes one request at a time, so only the shared limiter has a queue.    *)
(***************************************************************************)
EXTENDS Integers, Sequences, SequencesExt

CONSTANTS
    TotalInterval,              \* ticks between two requests, of all tasks
    LiveInterval, LotsInterval, \* of the live loop, of the lot loop
    FastInterval, SlowInterval, \* of the backfill, at its two rates
    Window                      \* bound of the model: how long a request is remembered

ASSUME IntervalsAssumption ==
    /\ {TotalInterval, LiveInterval, LotsInterval, FastInterval, SlowInterval} \subseteq Nat \ {0}
    /\ FastInterval <= SlowInterval
    /\ Window \in Nat

Task == {"live", "lots", "backfill"}

VARIABLES
    own, total, \* per task, and shared: the ticks to _next_allowed
    queue,      \* the lock of the shared limiter: its head holds it and sleeps
    task,       \* what each task is doing
    backlog,    \* whether as many items are due as the threshold says
    busy,       \* history: for how long they have been
    ages        \* history: how long ago each task was let through, newest first

limiters == <<own, total, queue>>
history == <<busy, ages>>
vars == <<limiters, task, backlog, history>>

\* interval: what the task's next pass through its limiter will cost.
\* waited: the ticks it has spent in the queue.
IdleTask == [phase |-> "idle", interval |-> 0, waited |-> 0]

-----------------------------------------------------------------------------
(* HistoryWorker, UniformRateLimiter *)

\* A slip: the backlog does not matter.
SelectFastRate == FastInterval

\* _select_backfill_rate
SelectBackfillRate == IF backlog THEN SlowInterval ELSE FastInterval

Interval(t) ==
    CASE t = "live" -> LiveInterval
      [] t = "lots" -> LotsInterval
      [] t = "backfill" -> SelectBackfillRate

\* A task comes to its next request.
Begin(t) ==
    /\ task[t].phase = "idle"
    /\ task' = [task EXCEPT ![t].phase = "waiting", ![t].interval = Interval(t)]
    /\ UNCHANGED <<limiters, backlog, history>>

\* A slip: the limiter does not notice who passes.
Unspent(t) == own[t]

\* acquire_at_rate, after the sleep: _next_allowed.
Spent(t) == task[t].interval

\* A slip: the last to come is served first.
Jumps(t) == <<t>> \o queue

\* asyncio.Lock serves who waits in the order of arrival.
Joins(t) == Append(queue, t)

\* The task passes its own limiter and waits for the shared one.
PassOwn(t) ==
    /\ task[t].phase = "waiting" /\ own[t] = 0
    /\ own' = [own EXCEPT ![t] = Spent(t)]
    /\ queue' = Joins(t)
    /\ task' = [task EXCEPT ![t].phase = "queued", ![t].interval = 0]
    /\ UNCHANGED <<total, backlog, history>>

\* A slip: the lock is not released.
ServedStays == queue

\* Leaving `async with self._lock`.
Served == Tail(queue)

\* It passes the shared one and sends its request.
PassShared(t) ==
    /\ queue # <<>> /\ t = Head(queue) /\ total = 0
    /\ total' = TotalInterval
    /\ queue' = Served
    /\ task' = [task EXCEPT ![t].phase = "sent", ![t].waited = 0]
    /\ ages' = [ages EXCEPT ![t] = <<0>> \o @]
    /\ UNCHANGED <<own, backlog, busy>>

\* The request ends, and the task does something else.
End(t) ==
    /\ task[t].phase = "sent"
    /\ task' = [task EXCEPT ![t] = IdleTask]
    /\ UNCHANGED <<limiters, backlog, history>>

-----------------------------------------------------------------------------
(* The world. *)

\* Items become due, or are polled (_count_due_live_history).
BacklogChanges ==
    /\ backlog' = ~backlog
    /\ busy' = 0
    /\ UNCHANGED <<limiters, task, ages>>

Less(ticks) == IF ticks > 0 THEN ticks - 1 ELSE 0

\* The ages grow from the newest on, so only the last may be too old to keep.
Recent(passes) == IF passes # <<>> /\ Last(passes) = Window THEN Front(passes) ELSE passes
Older(passes) == [i \in DOMAIN passes |-> passes[i] + 1]

\* Time passes.  Whoever may go on does so before.
Tick ==
    /\ \A t \in Task : task[t].phase = "waiting" => own[t] > 0
    /\ queue # <<>> => total > 0
    /\ own' = [t \in Task |-> Less(own[t])]
    /\ total' = Less(total)
    /\ task' = [t \in Task |-> IF task[t].phase = "queued"
                               THEN [task[t] EXCEPT !.waited = @ + 1] ELSE task[t]]
    /\ busy' = IF backlog /\ busy < Window THEN busy + 1 ELSE busy
    /\ ages' = [t \in Task |-> Older(Recent(ages[t]))]
    /\ UNCHANGED <<queue, backlog>>

-----------------------------------------------------------------------------
(* Specification. *)

Init ==
    /\ own = [t \in Task |-> 0] /\ total = 0
    /\ queue = <<>>
    /\ task = [t \in Task |-> IdleTask]
    /\ backlog \in BOOLEAN /\ busy = 0
    /\ ages = [t \in Task |-> <<>>]

Next ==
    \/ \E t \in Task : Begin(t) \/ PassOwn(t) \/ PassShared(t) \/ End(t)
    \/ BacklogChanges
    \/ Tick

Spec == Init /\ [][Next]_vars

-----------------------------------------------------------------------------
(* Properties. *)

\* The kinds of value the variables hold; a task is in the queue once, while it
\* waits there.
TypeOK ==
    /\ own \in [Task -> Nat]
    /\ total \in 0 .. TotalInterval
    /\ queue \in Seq(Task) /\ IsInjective(queue)
    /\ task \in [Task -> [phase : {"idle", "waiting", "queued", "sent"},
                          interval : Nat, waited : Nat]]
    /\ \A t \in Task : task[t].phase = "queued" <=> t \in ToSet(queue)
    /\ backlog \in BOOLEAN /\ busy \in 0 .. Window
    /\ ages \in [Task -> Seq(0 .. Window)]

\* From the first to the last of n requests of these last ticks it takes the time of
\* n - 2 intervals: the wait in the shared queue moves a request by one interval and
\* no more.
Spaced(passes, interval, ticks) ==
    \A i, j \in DOMAIN passes :
        i < j /\ passes[j] < ticks => passes[j] - passes[i] >= (j - i - 1) * interval

\* As far as a request is remembered.
Remembered == Window + 1

\* Every task keeps to its own rate, though its requests queue for the shared
\* limiter and the backfill's rate changes (worker.py _acquire_live_request,
\* _acquire_lot_request, _acquire_backfill_request).
SharesAreKept ==
    /\ Spaced(ages["live"], LiveInterval, Remembered)
    /\ Spaced(ages["lots"], LotsInterval, Remembered)
    /\ Spaced(ages["backfill"], FastInterval, Remembered)

\* From the first request after items have piled up the backfill keeps to its
\* slow rate, though the rate was chosen before the wait (worker.py
\* _select_backfill_rate).
BackfillYields == backlog => Spaced(ages["backfill"], SlowInterval, busy)

\* Nobody is crowded out of the shared limiter: a task waits there for whoever went
\* last and for each of the others once (worker.py _rate_limiter).
WaitIsShort == \A t \in Task : task[t].waited <= 3 * TotalInterval

=============================================================================
