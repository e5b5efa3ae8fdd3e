-------------------------- MODULE AggregateRebuild --------------------------
(***************************************************************************)
(* The operator's script scripts/rebuild_hourly_aggregates.py, run beside  *)
(* the live loop of HistoryCollection: it reads the raw rows of the last   *)
(* hours, deletes the hourly rows of those hours, and writes them again    *)
(* from what it read.                                                      *)
(*                                                                         *)
(* The script and the worker share the tables and nothing else.  The       *)
(* delete and the upsert are one step here, when the script commits: a     *)
(* save of the worker that touches the same rows waits for it.             *)
(***************************************************************************)
EXTENDS HistoryCollection

CONSTANTS
    RebuildHours,  \* --hours, 48 by default; the script only checks that it is positive
    MaxRebuilds    \* bound of the model: times the script is run

ASSUME RebuildAssumption ==
    RebuildHours \in Nat \ {0} /\ MaxRebuilds \in Nat

VARIABLE rebuild  \* the script: when it began, what it has read, how often it ran;
                  \* held, which the code does not have: the raw rows there were

rebuildVars == <<vars, rebuild>>

NotRebuilding == 0
Rebuilding == rebuild.at # NotRebuilding

Since(t) == HourStart(t - RebuildHours * SlotsPerHour)

\* A slip: the hour that is not over is not read, though its row is deleted.
RowsOfWholeHours(t) == {s \in raw : Since(t) <= sold[s] /\ sold[s] < HourStart(t)}

\* SELECT ... FROM auction_sales WHERE sold_at >= since
RowsSince(t) == {s \in raw : sold[s] >= Since(t)}

BeginRebuild ==
    /\ ~Rebuilding /\ rebuild.runs < MaxRebuilds
    /\ rebuild' = [at |-> now, rows |-> RowsSince(now), held |-> raw,
                   runs |-> rebuild.runs + 1]
    /\ UNCHANGED vars

NoRebuild(runs) == [at |-> NotRebuilding, rows |-> {}, held |-> {}, runs |-> runs]

\* A slip: the rows are added to what is there, nothing is deleted.
RebuiltOnTop(table) == Add(table, rebuild.rows)

\* The hourly rows from `since` on are deleted, and what was read replaces its rows.
Rebuilt(table) ==
    Replace([s \in Sale |-> IF HourStart(sold[s]) >= Since(rebuild.at) THEN 0 ELSE table[s]],
            rebuild.rows, SlotsPerHour)

CommitRebuild ==
    /\ Rebuilding
    /\ hour' = Rebuilt(hour)
    /\ rebuild' = NoRebuild(rebuild.runs)
    /\ UNCHANGED <<upstream, raw, twenty, day, checkpoint, progress, liveTask,
                   backfillTask, faults>>

\* The script fails or is stopped: its transaction rolls back.
AbandonRebuild ==
    /\ Rebuilding
    /\ rebuild' = NoRebuild(rebuild.runs)
    /\ UNCHANGED vars

\* The script takes less than an hour.
Prompt == Rebuilding => now' - rebuild.at < SlotsPerHour

RebuildNext ==
    \/ LiveNext /\ Prompt /\ UNCHANGED rebuild
    \/ BeginRebuild \/ CommitRebuild \/ AbandonRebuild

RebuildInit == LiveInit /\ rebuild = NoRebuild(0)
RebuildSpec == RebuildInit /\ [][RebuildNext]_rebuildVars

-----------------------------------------------------------------------------
(* Properties. *)

RebuildTypeOK ==
    /\ TypeOK
    /\ rebuild \in [at : Nat, rows : SUBSET Sale, held : SUBSET Sale, runs : Nat]

\* A rebuild takes a sale out of the hourly rows for one of three reasons only,
\* however many hours it is told to rewrite and whatever compaction does beside it:
\* a poll saved the sale after the script had read (the additive upsert of the
\* worker and the script's delete-and-write are not ordered), or its raw row had
\* gone, because it is older than the raw window or because the item has MaxRaw
\* other sales that are as new.
RebuildLosesOnlySaved ==
    [][CommitRebuild =>
         \A s \in Sale : hour[s] > 0 /\ hour'[s] = 0 =>
            \/ s \in raw \ rebuild.held
            \/ sold[s] < RawBoundary(now)
            \/ Cardinality({t \in (1 .. n) \ {s} : sold[t] >= sold[s]}) >= MaxRaw]_rebuildVars

-----------------------------------------------------------------------------
(* The collector keeps the ledger. *)

StatusOf(s) ==
    IF hour[s] + day[s] > 1 THEN "counted twice"
    ELSE IF hour[s] + day[s] = 1 THEN "counted"
    ELSE IF s <= n /\ Passed(s) THEN "gone"
    ELSE "new"

L == INSTANCE Ledger WITH status <- [s \in Sale |-> StatusOf(s)], restoring <- Rebuilding

\* The live loop, its compaction, restarts and the rebuild script implement the
\* ledger: a sale the checkpoint has passed is never counted afterwards, not even
\* when its rows are gone from every table, except by the script from a raw row.
KeepsLedger == L!Spec

=============================================================================
