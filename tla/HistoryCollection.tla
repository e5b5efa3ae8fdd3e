-------------------------- MODULE HistoryCollection --------------------------
(***************************************************************************)
(* The history collector for ONE item: the live loop, the compaction it    *)
(* runs between polls, and the backfill task, all of                       *)
(* app/modules/history/worker.py, over the sale tables of                  *)
(* app/modules/history/repository.py.                                      *)
(*                                                                         *)
(* Sales are numbered in the order they are sold.  A sale stands for its   *)
(* fingerprint.  Time is counted in slots (the 20-minute buckets of the    *)
(* code); an hour has SlotsPerHour slots, a day HoursPerDay hours.         *)
(*                                                                         *)
(* An aggregate table is a function from sales to Nat: table[s] is the     *)
(* number of times sale s is included in the row of its bucket, and the    *)
(* bucket of s follows from sold[s].  An item has one quality and one      *)
(* additional key, so that a bucket is one row.                            *)
(*                                                                         *)
(* When an item is polled is the matter of the schedule, not of this       *)
(* module: here a poll, a compaction and a backfill may start whenever     *)
(* their task is free.                                                     *)
(***************************************************************************)
EXTENDS Integers, FiniteSets

CONSTANTS
    MaxSales,        \* bound of the model: sales upstream ever lists
    MaxTime,         \* bound of the model: slots
    MaxFaults,       \* bound of the model: restarts and failed backfills
    SlotsPerHour, HoursPerDay,
    PageSize,        \* history_page_size
    MaxPages,        \* history_incremental_max_pages
    Overlap,         \* history_backfill_page_overlap
    ChunkSize,       \* history_backfill_max_records
    ItemTarget,      \* 20 * the aggregate cap for artifacts and modules, else 0
    RawRetention,    \* history_raw_retention_hours
    HourlyRetention, \* history_hourly_retention_hours
    MaxRaw,          \* history_max_raw_points_per_item
    MaxAggregates    \* history_max_aggregate_points_per_item

ASSUME BoundsAssumption ==
    MaxSales \in Nat /\ MaxTime \in Nat /\ MaxFaults \in Nat

ASSUME CalendarAssumption ==
    SlotsPerHour \in Nat \ {0} /\ HoursPerDay \in Nat \ {0}

ASSUME SettingsAssumption ==
    /\ PageSize \in Nat \ {0} /\ MaxPages \in Nat \ {0}
    /\ Overlap \in Nat /\ ChunkSize \in Nat \ {0} /\ ItemTarget \in Nat
    /\ RawRetention \in Nat /\ HourlyRetention \in Nat
    /\ MaxRaw \in Nat \ {0} /\ MaxAggregates \in Nat \ {0}

VARIABLES
    now,         \* the clock
    n, sold,     \* upstream: sales 1..n exist, sold[s] is when s was sold
    raw,         \* AuctionSale: the sales kept row by row
    twenty, hour, day,  \* SaleAggregate, by resolution
    ckAt, ckFps, \* HistoryPollState.latest_sale_at, latest_sale_fingerprints
    bfOffset, bfComplete,   \* HistoryPollState.backfill_offset, backfill_complete
    phase, poll, \* the live task: what it is doing, and the poll in flight
    compaction,  \* the live task: the compaction transaction in flight
    bfPhase, bf, \* the backfill task and its download in flight
    faults

upstream == <<now, n, sold>>
tables   == <<raw, twenty, hour, day>>
checkpoint == <<ckAt, ckFps>>
progress == <<bfOffset, bfComplete>>
liveTask == <<phase, poll, compaction>>
backfillTask == <<bfPhase, bf>>
vars == <<upstream, tables, checkpoint, progress, liveTask, backfillTask, faults>>

-----------------------------------------------------------------------------
(* The calendar and the settings' boundaries. *)

Sale == 1 .. MaxSales

\* latest_sale_at is NULL: no sale is that old, sales are sold from slot 1 on.
NoCheckpoint == 0

Lesser(a, b)  == IF a <= b THEN a ELSE b
Greater(a, b) == IF a <= b THEN b ELSE a

HourStart(t) == (t \div SlotsPerHour) * SlotsPerHour
DayStart(t)  == (t \div (SlotsPerHour * HoursPerDay)) * (SlotsPerHour * HoursPerDay)

\* A slip the runs must catch: the boundary is not truncated to the hour.
RawBoundaryExact(t) == t - RawRetention * SlotsPerHour

RawBoundary(t)    == HourStart(t - RawRetention * SlotsPerHour)
HourlyBoundary(t) == HourStart(t - HourlyRetention * SlotsPerHour)

-----------------------------------------------------------------------------
(* The upstream listing: newest first, paged by offset and limit. *)

Page(offset) == {s \in Sale : n - offset - PageSize < s /\ s <= n - offset}
PageLen(offset) == Lesser(PageSize, n - offset)

-----------------------------------------------------------------------------
(* The aggregate tables. *)

NoRows == [s \in Sale |-> 0]

\* An additive upsert: every row of `sales` is added to its bucket.
Add(table, sales) == [s \in Sale |-> IF s \in sales THEN table[s] + 1 ELSE table[s]]

\* A replacing upsert: a bucket (of so many slots) touched by `sales` holds those
\* sales only.
Replace(table, sales, slots) ==
    [s \in Sale |->
        IF s \in sales THEN 1
        ELSE IF \E t \in sales : sold[t] \div slots = sold[s] \div slots THEN 0
        ELSE table[s]]

\* The rows of the three resolutions as <<bucket start, resolution order>>.
Rows(twentyT, hourT, dayT) ==
         {<<sold[s], 0>> : s \in {x \in Sale : twentyT[x] > 0}}
    \cup {<<HourStart(sold[s]), 1>> : s \in {x \in Sale : hourT[x] > 0}}
    \cup {<<DayStart(sold[s]), 2>> : s \in {x \in Sale : dayT[x] > 0}}

\* The rows ranked up to MaxAggregates, newest bucket and finest resolution first.
KeptRows(rows) ==
    {r \in rows : Cardinality({q \in rows : \/ q[1] > r[1]
                                            \/ q[1] = r[1] /\ q[2] < r[2]}) < MaxAggregates}

\* prune_aggregates, on the three tables at once.
PruneInto(twentyT, hourT, dayT) ==
    LET kept == KeptRows(Rows(twentyT, hourT, dayT))
    IN  /\ twenty' = [s \in Sale |-> IF <<sold[s], 0>> \in kept THEN twentyT[s] ELSE 0]
        /\ hour' = [s \in Sale |-> IF <<HourStart(sold[s]), 1>> \in kept THEN hourT[s] ELSE 0]
        /\ day' = [s \in Sale |-> IF <<DayStart(sold[s]), 2>> \in kept THEN dayT[s] ELSE 0]

\* What may be the raw rows beyond the newest MaxRaw: those of one moment are ranked
\* by their ids, which depend on the poll each came with and are left out here.
RawOverflows(rows) ==
    {overflow \in SUBSET rows :
        /\ Cardinality(rows \ overflow) = Lesser(MaxRaw, Cardinality(rows))
        /\ \A s \in overflow : \A t \in rows \ overflow : sold[s] <= sold[t]}

-----------------------------------------------------------------------------
(* The world. *)

\* Upstream lists a sale the moment it happens.  While a poll is paging, fewer
\* than PageSize further sales of the item happen (a poll is a few seconds).
Sell ==
    /\ n < MaxSales
    /\ phase = "paging" => n < poll.total + PageSize
    /\ n' = n + 1
    /\ sold' = [sold EXCEPT ![n + 1] = now]
    /\ UNCHANGED <<now, tables, checkpoint, progress, liveTask, backfillTask, faults>>

Tick ==
    /\ now < MaxTime
    /\ now' = now + 1
    /\ UNCHANGED <<n, sold, tables, checkpoint, progress, liveTask, backfillTask, faults>>

-----------------------------------------------------------------------------
(* The live task: one poll or one compaction at a time. *)

IdlePoll == [total |-> 0, offset |-> 0, pages |-> 0, records |-> {}]
IdleCompaction == [at |-> 0, groups |-> NoRows]

\* The item is claimed and the first page requested: `total` is the listing's
\* length in that reply.
FetchFirstPage ==
    /\ phase = "idle"
    /\ phase' = "paging"
    /\ poll' = [total |-> n, offset |-> PageLen(0), pages |-> 1, records |-> Page(0)]
    /\ UNCHANGED <<upstream, tables, checkpoint, progress, compaction, backfillTask, faults>>

\* The first page of the poll in flight, of which Page(0) was the first reply.
FirstPage == {s \in Sale : poll.total - PageSize < s /\ s <= poll.total}

\* A slip: the last, shorter page is taken for the end.
WantsFullPagesOnly ==
    /\ ckAt # NoCheckpoint
    /\ poll.records # {}
    /\ \A s \in poll.records : sold[s] > ckAt
    /\ poll.offset + PageSize < poll.total
    /\ poll.pages < MaxPages

\* The loop condition of _collect_incremental: the checkpoint has not been
\* reached yet and neither the listing nor the page budget is used up.
WantsMorePages ==
    /\ ckAt # NoCheckpoint
    /\ poll.records # {}
    /\ \A s \in poll.records : sold[s] > ckAt
    /\ poll.offset < poll.total
    /\ poll.pages < MaxPages

\* A slip: the offset moves on by the page size, whatever the page held.
PollOffsetBySize(offset) == offset + PageSize

\* offset += len(page)
PollOffset(offset) == offset + PageLen(offset)

FetchNextPage ==
    /\ phase = "paging"
    /\ WantsMorePages
    /\ poll' = [total |-> poll.total,
                offset |-> PollOffset(poll.offset),
                pages |-> poll.pages + 1,
                records |-> poll.records \cup Page(poll.offset)]
    /\ UNCHANGED <<upstream, tables, checkpoint, progress, phase, compaction,
                   backfillTask, faults>>

\* A slip: the fingerprints at the checkpoint are not consulted.
NewRecordsByTimeOnly ==
    {s \in poll.records : ckAt = NoCheckpoint \/ sold[s] >= ckAt}

\* _filter_new_records: what the checkpoint lets through.
NewRecords ==
    {s \in poll.records : \/ ckAt = NoCheckpoint
                          \/ sold[s] > ckAt
                          \/ sold[s] = ckAt /\ s \notin ckFps}

\* The sales at the newest moment of the first page, and that moment.
Newest == sold[poll.total]
NewestFps == {s \in FirstPage : sold[s] = Newest}

\* store_sales and the checkpoint, in one transaction.
SavePoll ==
    /\ phase = "paging"
    /\ ~WantsMorePages
    /\ LET inserted == NewRecords \ raw
       IN  /\ raw' = raw \cup inserted
           /\ hour' = Add(hour, inserted)
    /\ IF poll.total = 0
       THEN UNCHANGED checkpoint
       ELSE /\ ckAt' = Greater(ckAt, Newest)
            /\ ckFps' = IF Newest > ckAt THEN NewestFps
                        ELSE IF Newest = ckAt THEN ckFps \cup NewestFps
                        ELSE ckFps
    /\ phase' = "idle"
    /\ poll' = IdlePoll
    /\ UNCHANGED <<upstream, twenty, day, progress, compaction, backfillTask, faults>>

\* A request fails or a reply does not parse: nothing collected is kept.
FailPoll ==
    /\ phase = "paging"
    /\ phase' = "idle"
    /\ poll' = IdlePoll
    /\ UNCHANGED <<upstream, tables, checkpoint, progress, compaction, backfillTask, faults>>

\* compact_history reads the hourly rows to compact: SELECT ... GROUP BY day.
\* A slip: the hour at the boundary is compacted too.
OldHoursInclusive(t) == {s \in Sale : HourStart(sold[s]) <= HourlyBoundary(t)}

OldHours(t) == {s \in Sale : HourStart(sold[s]) < HourlyBoundary(t)}

BeginCompaction ==
    /\ phase = "idle"
    /\ phase' = "compacting"
    /\ compaction' = [at |-> now,
                      groups |-> [s \in Sale |-> IF s \in OldHours(now) THEN hour[s] ELSE 0]]
    /\ UNCHANGED <<upstream, tables, checkpoint, progress, poll, backfillTask, faults>>

\* The writes of compact_history become visible together: raw rows expire or
\* overflow into 20-minute rows, the groups read before are added to the daily
\* rows, the old hourly rows are deleted, and the item is pruned.
CommitCompaction ==
    /\ phase = "compacting"
    /\ LET boundary == RawBoundary(compaction.at)
           kept == {s \in raw : sold[s] >= boundary}
           old == OldHours(compaction.at)
       IN  \E overflow \in RawOverflows(kept) :
              LET grown == Add(twenty, overflow)
              IN  /\ raw' = kept \ overflow
                  /\ PruneInto([s \in Sale |-> IF sold[s] < boundary THEN 0 ELSE grown[s]],
                               [s \in Sale |-> IF s \in old THEN 0 ELSE hour[s]],
                               [s \in Sale |-> day[s] + compaction.groups[s]])
    /\ phase' = "idle"
    /\ compaction' = IdleCompaction
    /\ UNCHANGED <<upstream, checkpoint, progress, poll, backfillTask, faults>>

-----------------------------------------------------------------------------
(* The backfill task. *)

IdleBackfill == [boundary |-> 0, offset |-> 0, processed |-> 0, total |-> 0,
                 records |-> {}, ended |-> FALSE, at |-> 0]

\* _claim_next_backfill and the head of _download_backfill: the raw boundary is
\* read once, before the first request.
ClaimBackfill ==
    /\ bfPhase = "idle"
    /\ ~bfComplete
    /\ bfPhase' = "downloading"
    /\ bf' = [boundary |-> RawBoundary(now),
              offset |-> Greater(0, bfOffset - Overlap),
              processed |-> bfOffset, total |-> 0, records |-> {}, ended |-> FALSE, at |-> 0]
    /\ UNCHANGED <<upstream, tables, checkpoint, progress, liveTask, faults>>

\* _calculate_backfill_target
BackfillTarget(total) == Lesser(total, Greater(ChunkSize, ItemTarget))

\* A slip: a page that is no longer than the overlap repeats for ever.
PageOverlapUnbounded(len) == Overlap

\* How far the next page starts before the end of this one.
PageOverlap(len) == Lesser(Overlap, Greater(0, len - 1))

\* A slip: the overlap is added to the offset.
NextOffsetSkipping(offset, len) == offset + len + PageOverlap(len)

NextOffset(offset, len) == offset + len - PageOverlap(len)

\* A slip: the oldest hour is kept although the download stopped inside it.
KeepPartialOldestHour(records, ended) == records

\* _exclude_partial_oldest_hour
ExcludePartialOldestHour(records, ended) ==
    IF ended THEN records
    ELSE {s \in records : \E t \in records : HourStart(sold[t]) < HourStart(sold[s])}

\* One page of the download.  The pages stop at the end of the listing, at the
\* target, or at the end of the chunk; otherwise the next page is requested.  When
\* they stop the clock is read, once, for the save that follows.
FetchBackfillPage ==
    /\ bfPhase = "downloading"
    /\ LET len == PageLen(bf.offset)
           total == Greater(bf.total, n)
           target == BackfillTarget(total)
           chunkEnd == bfOffset + ChunkSize
           processed == Lesser(total, Greater(bf.processed, bf.offset + len))
           records == bf.records \cup {s \in Page(bf.offset) : sold[s] < bf.boundary}
           ended == len = 0 \/ processed >= total
           stop == \/ ended
                   \/ target > 0 /\ processed >= target
                   \/ processed >= Lesser(IF target = 0 THEN chunkEnd ELSE target, chunkEnd)
       IN  /\ bf' = [boundary |-> bf.boundary,
                     offset |-> IF stop THEN bf.offset ELSE NextOffset(bf.offset, len),
                     processed |-> processed,
                     total |-> total,
                     records |-> IF stop THEN ExcludePartialOldestHour(records, ended)
                                         ELSE records,
                     ended |-> ended,
                     at |-> IF stop THEN now ELSE 0]
           /\ bfPhase' = IF stop THEN "saving" ELSE "downloading"
    /\ UNCHANGED <<upstream, tables, checkpoint, progress, liveTask, faults>>

\* A slip: every record goes to the hourly rows.
HourlyRecordsOfAnyAge == bf.records

HourlyRecords == {s \in bf.records : sold[s] >= HourlyBoundary(bf.at)}
DailyRecords  == {s \in bf.records : sold[s] < HourlyBoundary(bf.at)}

\* _save_backfill_success, one transaction, when it commits.
SaveBackfill ==
    /\ bfPhase = "saving"
    /\ PruneInto(twenty, Replace(hour, HourlyRecords, SlotsPerHour),
                         Replace(day, DailyRecords, SlotsPerHour * HoursPerDay))
    /\ bfOffset' = bf.processed
    /\ bfComplete' = (bf.ended \/ bf.processed >= BackfillTarget(bf.total))
    /\ bfPhase' = "idle"
    /\ bf' = IdleBackfill
    /\ UNCHANGED <<upstream, raw, checkpoint, liveTask, faults>>

\* A request fails: the chunk is downloaded again from its start.
FailBackfill ==
    /\ bfPhase = "downloading"
    /\ faults < MaxFaults
    /\ faults' = faults + 1
    /\ bfPhase' = "idle"
    /\ bf' = IdleBackfill
    /\ UNCHANGED <<upstream, tables, checkpoint, progress, liveTask>>

-----------------------------------------------------------------------------
\* The worker process dies and is started again: open transactions roll back.
Restart ==
    /\ phase # "idle" \/ bfPhase # "idle"
    /\ faults < MaxFaults
    /\ faults' = faults + 1
    /\ phase' = "idle" /\ poll' = IdlePoll /\ compaction' = IdleCompaction
    /\ bfPhase' = "idle" /\ bf' = IdleBackfill
    /\ UNCHANGED <<upstream, tables, checkpoint, progress>>

-----------------------------------------------------------------------------
(* Specifications. *)

InitWith(complete) ==
    /\ now = 1 /\ n = 0 /\ sold = NoRows
    /\ raw = {} /\ twenty = NoRows /\ hour = NoRows /\ day = NoRows
    /\ ckAt = NoCheckpoint /\ ckFps = {}
    /\ bfOffset = 0 /\ bfComplete = complete
    /\ phase = "idle" /\ poll = IdlePoll /\ compaction = IdleCompaction
    /\ bfPhase = "idle" /\ bf = IdleBackfill
    /\ faults = 0

LiveNext ==
    \/ Sell \/ Tick
    \/ FetchFirstPage \/ FetchNextPage \/ SavePoll \/ FailPoll
    \/ BeginCompaction \/ CommitCompaction
    \/ Restart

BackfillNext ==
    ClaimBackfill \/ FetchBackfillPage \/ SaveBackfill \/ FailBackfill

Next == LiveNext \/ BackfillNext

\* The live loop alone: an item without anything to backfill.
LiveInit == InitWith(TRUE)
LiveSpec == LiveInit /\ [][LiveNext]_vars

\* A new item: the live loop and the backfill task.
Init == InitWith(FALSE)
Spec == Init /\ [][Next]_vars

\* The backfill task runs on: it claims, requests and saves when it can.  The
\* failures are finite in number.
BackfillFairness ==
    WF_vars(ClaimBackfill) /\ WF_vars(FetchBackfillPage) /\ WF_vars(SaveBackfill)
FairSpec == Spec /\ BackfillFairness

-----------------------------------------------------------------------------
(* Properties. *)

Table == [Sale -> Nat]

\* The kinds of value the variables hold; a poll does not ask beyond the listing.
TypeOK ==
    /\ now \in Nat /\ n \in 0 .. MaxSales /\ sold \in Table
    /\ raw \subseteq Sale /\ twenty \in Table /\ hour \in Table /\ day \in Table
    /\ ckAt \in Nat /\ ckFps \subseteq Sale
    /\ bfOffset \in Nat /\ bfComplete \in BOOLEAN
    /\ phase \in {"idle", "paging", "compacting"}
    /\ poll \in [total : 0 .. MaxSales, offset : 0 .. MaxSales, pages : Nat,
                 records : SUBSET Sale]
    /\ compaction \in [at : Nat, groups : Table]
    /\ bfPhase \in {"idle", "downloading", "saving"}
    /\ bf \in [boundary : Int, offset : Int, processed : Nat, total : Nat,
               records : SUBSET Sale, ended : BOOLEAN, at : Nat]
    /\ faults \in Nat

\* A sale is included at most once in the hourly and daily rows together.  The
\* rows of AuctionSale that would stop a second insertion are deleted after two
\* days or when they overflow, so from then on only the checkpoint does, across
\* restarts, failed polls, pages that shift while they are read, and sales that
\* share one timestamp (worker.py _filter_new_records, _save_history_success).
CountedAtMostOnce == \A s \in Sale : hour[s] + day[s] <= 1

\* The checkpoint has passed s: s is older, or it is one of the sales at the
\* checkpoint, or a page or more below one of them.
Passed(s) ==
    /\ ckAt # NoCheckpoint
    /\ \/ sold[s] < ckAt
       \/ sold[s] = ckAt /\ s \in ckFps
       \/ sold[s] = ckAt /\ \E t \in ckFps : s + PageSize <= t

\* How often the reply to resolution=auto over all time includes sale s
\* (service.py read_history).
ShownAuto(s) ==
    LET rb == RawBoundary(now)
        hb == HourlyBoundary(now)
    IN  (IF DayStart(sold[s]) < hb THEN day[s] ELSE 0)
      + (IF hb <= HourStart(sold[s]) /\ HourStart(sold[s]) < rb THEN hour[s] ELSE 0)
      + (IF rb <= sold[s] THEN twenty[s] + (IF s \in raw THEN 1 ELSE 0) ELSE 0)

\* A reader never sees a sale twice, whichever tables hold it at the moment:
\* the four tables overlap, and the reader's boundaries move while compaction
\* lags behind them.
ShownAtMostOnce == \A s \in 1 .. n : ShownAuto(s) <= 1

\* A poll saves every sale newer than the checkpoint, although the listing
\* shifts under its pages, unless it is cut off: by the page budget, or by the
\* length of the listing in its first reply when sales arrived since (worker.py
\* _collect_incremental compares `offset` with that stale `total`).
PollSavesAllNewer ==
    [][(/\ SavePoll
        /\ ckAt # NoCheckpoint
        /\ poll.pages < MaxPages
        /\ poll.offset < poll.total \/ n = poll.total)
       => \A s \in 1 .. poll.total : sold[s] > ckAt => s \in raw']_vars

\* When a compaction commits within the hour it began in, every sale that the
\* hourly or daily rows hold and that is older than the raw window is in the
\* reader's answer exactly once: nothing sits on the wrong side of a boundary.
CompactionHidesNothing ==
    [][CommitCompaction /\ HourStart(compaction.at) = HourStart(now) =>
         \A s \in 1 .. n :
            (sold[s] < RawBoundary(now) /\ hour'[s] + day'[s] > 0) => ShownAuto(s)' = 1]_vars

\* Backfill "replaces complete hourly buckets" (repository.py
\* replace_hourly_aggregates): the sales of an hour it writes are all in its row
\* or, when the row is pruned in the same transaction, none is.
BackfillWritesWholeHours ==
    [][SaveBackfill =>
         \A t \in HourlyRecords : \A s \in 1 .. n :
            HourStart(sold[s]) = HourStart(sold[t]) => hour'[s] = hour'[t]]_vars

\* A backfill that commits in the hour its save began in adds no hourly row that a
\* compaction in flight will delete without having read it: compaction reads the
\* old rows, adds what it read, and deletes by a condition (repository.py
\* compact_hourly_aggregates_to_daily), and nothing but the clock keeps the two apart.
BackfillSparesCompaction ==
    [][(SaveBackfill /\ phase = "compacting" /\ HourStart(bf.at) = HourStart(now))
       => \A s \in OldHours(compaction.at) : hour'[s] <= hour[s]]_vars

\* The download of an item that fits in one chunk has no holes: the sales older
\* than its boundary and newer than the oldest one it keeps are all in it, and
\* all of them are when it reached the end of the listing, although the listing
\* shifts under its pages (worker.py _download_backfill).
BackfillHasNoHoles ==
    bfPhase = "saving" /\ bfOffset = 0 =>
        \A s \in 1 .. n :
            (sold[s] < bf.boundary /\ (bf.ended \/ \E t \in bf.records : t < s))
                => s \in bf.records

\* The backfill of an item ends: each page goes on past the one before, whatever
\* the overlap and the sales that arrive meanwhile.
BackfillCompletes == <>bfComplete

=============================================================================
