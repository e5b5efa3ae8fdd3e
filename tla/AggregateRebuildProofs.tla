----------------------- MODULE AggregateRebuildProofs -----------------------
(***************************************************************************)
(* The live loop beside the rebuild script and a reader, for every value   *)
(* of the constants: it counts no sale twice, it implements Ledger, the    *)
(* script loses nothing it could have read, and a reply shows no sale      *)
(* twice.                                                                  *)
(*                                                                         *)
(* ScriptInv is a third layer, over the first of HistoryCollectionProofs,  *)
(* and holds however many hours the script is told to rewrite: raw rows,   *)
(* and what the script has read of them, have been passed by the           *)
(* checkpoint.  RebuildInv is a fourth, for a script that rewrites fewer   *)
(* hours than hourly rows are kept: what a daily row holds is older than   *)
(* any hour it rewrites.  ReaderInv is a fifth: it says, after each query  *)
(* of a reply, why the queries to come do not find again what has been     *)
(* found; what a daily row holds has left the hourly rows for good, and    *)
(* what a 20-minute row holds has left the raw rows.                       *)
(***************************************************************************)
EXTENDS HistoryReader, HistoryCollectionProofs, FiniteSetTheorems

\* Raw rows have been passed by the checkpoint, which is not in the future.
RawIsPassed ==
    /\ ckAt <= now
    /\ \A s \in raw : s <= n /\ Passed(s)

\* Hourly rows hold listed sales.
HourIsListed == \A s \in Sale : hour[s] > 0 => s <= n

\* What the script has read, less than an hour ago.
ReadIsPassed ==
    Rebuilding =>
        /\ rebuild.at <= now /\ now - rebuild.at < SlotsPerHour
        /\ \A s \in rebuild.rows : s <= n /\ Passed(s) /\ sold[s] >= Since(rebuild.at)
        /\ \A s \in rebuild.held :
               s <= n /\ Passed(s) /\ (sold[s] >= Since(rebuild.at) => s \in rebuild.rows)

RebuildRecord == [at : Nat, rows : SUBSET Sale, held : SUBSET Sale, runs : Nat]

ScriptInv ==
    /\ PollInv /\ CompactionIsOld /\ RawIsPassed /\ HourIsListed
    /\ rebuild \in RebuildRecord /\ ReadIsPassed

\* The script rewrites hours of which no sale is in a daily row yet.
ShortRebuild == RebuildHours < HourlyRetention

\* Daily rows are behind the hourly boundary.
DailyIsOld == \A s \in Sale : day[s] > 0 => HourStart(sold[s]) < HourlyBoundary(now)

RebuildInv == ScriptInv /\ ShortRebuild /\ CountInv /\ DailyIsOld

-----------------------------------------------------------------------------
(* The calendar. *)

\* The script begins, and in its hour remains, after the hourly boundary.
LEMMA SinceIsHourly ==
    ASSUME ShortRebuild, NEW t \in Int, NEW u \in Int, u - t < SlotsPerHour
    PROVE  /\ Since(t) \in Int /\ HourlyBoundary(u) \in Int
           /\ HourlyBoundary(u) <= Since(t)
<1>1. /\ SlotsPerHour \in Nat
      /\ RebuildHours \in Nat /\ HourlyRetention \in Nat /\ RebuildHours + 1 <= HourlyRetention
    BY CalendarAssumption, SettingsAssumption, RebuildAssumption DEF ShortRebuild
<1>2. (HourlyRetention - RebuildHours - 1) * SlotsPerHour >= 0
    BY <1>1
<1>3. /\ RebuildHours * SlotsPerHour \in Int /\ HourlyRetention * SlotsPerHour \in Int
      /\ HourlyRetention * SlotsPerHour >= RebuildHours * SlotsPerHour + SlotsPerHour
    BY <1>1, <1>2
<1>4. u - HourlyRetention * SlotsPerHour <= t - RebuildHours * SlotsPerHour
    BY <1>1, <1>3
<1> QED  BY <1>3, <1>4, HourStartCut DEF Since, HourlyBoundary

-----------------------------------------------------------------------------
(* The third layer: any number of hours. *)

\* What a live step does to a sale that is listed already: its time stays, and
\* what the checkpoint has passed stays passed.
LEMMA PassedStays ==
    ASSUME PollInv, [LiveNext]_vars, NEW s \in Sale, s <= n
    PROVE  s <= n' /\ sold'[s] = sold[s] /\ (Passed(s) => Passed(s)')
<1>1. CASE Sell
    <2>1. n \in Nat /\ sold \in [Sale -> Nat] /\ s \in Nat
        BY Types DEF Table
    <2>2. n' = n + 1 /\ sold' = [sold EXCEPT ![n + 1] = now] /\ UNCHANGED <<ckAt, ckFps>>
        BY <1>1 DEF Sell, checkpoint
    <2>3. sold'[s] = sold[s]
        BY <2>1, <2>2
    <2> QED  BY <2>1, <2>2, <2>3 DEF Passed
<1>2. CASE SavePoll
    BY <1>2, SavePasses DEF SavePoll, upstream
<1>3. CASE UNCHANGED <<n, sold, ckAt, ckFps>>
    BY <1>3 DEF Passed
<1>4. CASE ~Sell /\ ~SavePoll
    <2>1. UNCHANGED <<n, sold, ckAt, ckFps>>
        BY <1>4 DEF LiveNext, Tick, FetchFirstPage, FetchNextPage, FailPoll,
            BeginCompaction, CommitCompaction, Restart, vars, upstream, checkpoint
    <2> QED  BY <1>3, <2>1
<1> QED  BY <1>1, <1>2, <1>4

\* Raw rows come from polls.
LEMMA RawGrowth ==
    ASSUME [LiveNext]_vars, NEW s \in raw'
    PROVE  s \in raw \/ (SavePoll /\ s \in NewRecords)
<1>1. CASE SavePoll
    BY <1>1 DEF SavePoll
<1>2. CASE CommitCompaction
    BY <1>2 DEF CommitCompaction
<1>3. CASE ~SavePoll /\ ~CommitCompaction
    BY <1>3 DEF LiveNext, Sell, Tick, FetchFirstPage, FetchNextPage, FailPoll,
        BeginCompaction, Restart, vars, tables
<1> QED  BY <1>1, <1>2, <1>3

\* A live step keeps the raw rows passed and the checkpoint in the past.
LEMMA LiveKeepsRawIsPassed ==
    ASSUME PollInv, RawIsPassed, [LiveNext]_vars
    PROVE  RawIsPassed'
<1>1. \A s \in raw' : s <= n' /\ Passed(s)'
    <2> SUFFICES ASSUME NEW s \in raw' PROVE s <= n' /\ Passed(s)'
        OBVIOUS
    <2>1. CASE s \in raw
        BY <2>1, PassedStays, Types DEF RawIsPassed
    <2>2. CASE SavePoll /\ s \in NewRecords
        <3>1. s \in Sale /\ s <= n
            BY <2>2, NewRecordsAreListed DEF SavePoll
        <3> QED  BY <2>2, <3>1, SavePasses DEF SavePoll, upstream
    <2> QED  BY <2>1, <2>2, RawGrowth
<1>2. ckAt' <= now'
    <2>1. now \in Nat /\ ckAt \in Nat /\ ckAt <= now
        BY Types DEF RawIsPassed
    <2>2. CASE SavePoll
        <3>1. now' = now
            BY <2>2 DEF SavePoll, upstream
        <3>2. CASE poll.total = 0
            BY <2>1, <2>2, <3>1, <3>2 DEF SavePoll, checkpoint
        <3>3. CASE poll.total # 0
            <4>1. poll.total \in Sale /\ poll.total <= n
                BY <2>2, <3>3, BoundsAssumption
                    DEF PollInv, TypeOK, PollCovers, SavePoll, Sale
            <4>2. Newest <= now /\ Newest \in Nat
                BY <4>1, Types DEF Newest, PollInv, ListingOrdered
            <4> QED  BY <2>1, <2>2, <3>1, <3>3, <4>2 DEF SavePoll, Greater
        <3> QED  BY <3>2, <3>3
    <2>3. CASE ~SavePoll
        <3>1. ckAt' = ckAt /\ (now' = now \/ now' = now + 1)
            BY <2>3 DEF LiveNext, Sell, Tick, FetchFirstPage, FetchNextPage, FailPoll,
                BeginCompaction, CommitCompaction, Restart, vars, upstream, checkpoint
        <3> QED  BY <2>1, <3>1
    <2> QED  BY <2>2, <2>3
<1> QED  BY <1>1, <1>2 DEF RawIsPassed

\* A compaction in flight stays in the past.
LEMMA LiveKeepsCompactionIsOld ==
    ASSUME PollInv, CompactionIsOld, [LiveNext]_vars
    PROVE  CompactionIsOld'
<1>1. now \in Nat /\ now' \in Nat /\ now <= now'
    <2>1. now' = now \/ now' = now + 1
        BY DEF LiveNext, Sell, Tick, FetchFirstPage, FetchNextPage, SavePoll, FailPoll,
            BeginCompaction, CommitCompaction, Restart, vars, upstream
    <2> QED  BY <2>1, Types
<1>2. CASE BeginCompaction
    BY <1>1, <1>2 DEF BeginCompaction, CompactionIsOld
<1>3. CASE ~BeginCompaction
    <2>1. phase' = "compacting" => phase = "compacting" /\ compaction' = compaction
        BY <1>3 DEF LiveNext, Sell, Tick, FetchFirstPage, FetchNextPage, SavePoll, FailPoll,
            CommitCompaction, Restart, vars, liveTask
    <2> QED  BY <1>1, <2>1, Types DEF CompactionIsOld
<1> QED  BY <1>2, <1>3

\* Hourly rows come from polls, or from the row they were.
LEMMA LiveKeepsHourIsListed ==
    ASSUME PollInv, HourIsListed, [LiveNext]_vars
    PROVE  HourIsListed'
<1> SUFFICES ASSUME NEW s \in Sale, hour'[s] > 0 PROVE s <= n'
    BY DEF HourIsListed
<1>1. CASE hour[s] > 0
    BY <1>1, PassedStays DEF HourIsListed
<1>2. CASE ~(hour[s] > 0)
    <2>1. SavePoll
        <3>1. CASE CommitCompaction
            BY <1>2, <3>1 DEF CommitCompaction, PruneInto
        <3>2. CASE ~SavePoll /\ ~CommitCompaction
            <4>1. hour' = hour
                BY <3>2 DEF LiveNext, Sell, Tick, FetchFirstPage, FetchNextPage, FailPoll,
                    BeginCompaction, Restart, vars, tables
            <4> QED  BY <1>2, <4>1
        <3> QED  BY <3>1, <3>2
    <2>2. s \in NewRecords
        <3>1. hour \in Table /\ hour' = Add(hour, NewRecords \ raw)
            BY <2>1, Types DEF SavePoll
        <3>2. hour'[s] = IF s \in NewRecords \ raw THEN hour[s] + 1 ELSE hour[s]
            BY <3>1, AddTable
        <3> QED  BY <1>2, <3>2
    <2> QED  BY <2>1, <2>2, NewRecordsAreListed DEF SavePoll, upstream
<1> QED  BY <1>1, <1>2

\* What a rebuild makes of the hourly rows: the sales read count once, and the others
\* as before or not at all.
LEMMA RebuiltRows ==
    ASSUME ScriptInv, NEW s \in Sale
    PROVE  /\ Rebuilt(hour) \in Table
           /\ s \in rebuild.rows => Rebuilt(hour)[s] = 1
           /\ s \notin rebuild.rows => Rebuilt(hour)[s] \in {0, hour[s]}
<1> DEFINE cut == [x \in Sale |-> IF HourStart(sold[x]) >= Since(rebuild.at) THEN 0 ELSE hour[x]]
<1>1. cut \in [Sale -> Nat] /\ cut[s] \in {0, hour[s]}
    BY Types DEF ScriptInv
<1>2. Rebuilt(hour) = Replace(cut, rebuild.rows, SlotsPerHour)
    BY DEF Rebuilt
<1>3. Rebuilt(hour) \in Table
    BY <1>1, <1>2, ReplaceTable DEF Table
<1>4. /\ s \in rebuild.rows => Rebuilt(hour)[s] = 1
      /\ s \notin rebuild.rows => Rebuilt(hour)[s] \in {0, cut[s]}
    <2> HIDE DEF cut
    <2> QED  BY <1>2 DEF Replace
<1> QED  BY <1>1, <1>3, <1>4

\* The script begins: what it reads has been passed.
LEMMA BeginKeepsScriptInv == ScriptInv /\ BeginRebuild => ScriptInv'
<1> SUFFICES ASSUME ScriptInv, BeginRebuild PROVE ScriptInv'
    OBVIOUS
<1>1. UNCHANGED vars
    BY DEF BeginRebuild
<1>2. PollInv'
    BY <1>1, StutterKeepsPollInv DEF ScriptInv
<1>3. UNCHANGED <<now, n, sold, raw, hour, ckAt, ckFps, phase, compaction>>
    BY <1>1 DEF vars, upstream, tables, checkpoint, liveTask
<1>4. RawIsPassed' /\ HourIsListed' /\ CompactionIsOld'
    BY <1>3 DEF ScriptInv, RawIsPassed, HourIsListed, CompactionIsOld, Passed
<1>5. rebuild'.at = now /\ rebuild'.rows = RowsSince(now) /\ rebuild'.held = raw
      /\ rebuild'.runs = rebuild.runs + 1 /\ now \in Nat /\ raw \subseteq Sale /\ rebuild.runs \in Nat
    BY Types DEF BeginRebuild, ScriptInv, RebuildRecord
<1>6. rebuild' \in RebuildRecord
    <2>1. RowsSince(now) \subseteq Sale
        BY <1>5 DEF RowsSince
    <2> QED  BY <1>5, <2>1 DEF BeginRebuild, RebuildRecord
<1>7. ReadIsPassed'
    <2>1. /\ \A s \in RowsSince(now) : s <= n /\ Passed(s) /\ sold[s] >= Since(now)
          /\ \A s \in raw : s <= n /\ Passed(s) /\ (sold[s] >= Since(now) => s \in RowsSince(now))
        BY DEF ScriptInv, RawIsPassed, RowsSince
    <2>2. now - now < SlotsPerHour
        BY <1>5, CalendarAssumption
    <2>3. Since(rebuild.at)' = Since(now)
        BY <1>5 DEF Since, HourStart
    <2> QED  BY <1>3, <1>5, <2>1, <2>2, <2>3 DEF ReadIsPassed, Passed
<1> QED  BY <1>2, <1>4, <1>6, <1>7 DEF ScriptInv

\* The script ends without a trace.
LEMMA AbandonKeepsScriptInv == ScriptInv /\ AbandonRebuild => ScriptInv'
<1> SUFFICES ASSUME ScriptInv, AbandonRebuild PROVE ScriptInv'
    OBVIOUS
<1>1. UNCHANGED vars
    BY DEF AbandonRebuild
<1>2. PollInv'
    BY <1>1, StutterKeepsPollInv DEF ScriptInv
<1>3. UNCHANGED <<now, n, sold, raw, hour, ckAt, ckFps, phase, compaction>>
    BY <1>1 DEF vars, upstream, tables, checkpoint, liveTask
<1>4. RawIsPassed' /\ HourIsListed' /\ CompactionIsOld'
    BY <1>3 DEF ScriptInv, RawIsPassed, HourIsListed, CompactionIsOld, Passed
<1>5. rebuild' \in RebuildRecord /\ ReadIsPassed'
    BY DEF AbandonRebuild, NoRebuild, NotRebuilding, ScriptInv, RebuildRecord, ReadIsPassed,
        Rebuilding
<1> QED  BY <1>2, <1>4, <1>5 DEF ScriptInv

\* The script commits: what it writes it has read, so it is listed.
LEMMA CommitKeepsScriptInv == ScriptInv /\ CommitRebuild => ScriptInv'
<1> SUFFICES ASSUME ScriptInv, CommitRebuild PROVE ScriptInv'
    OBVIOUS
<1>1. /\ Rebuilding /\ hour' = Rebuilt(hour)
      /\ UNCHANGED <<now, n, sold, raw, twenty, day, ckAt, ckFps, progress, phase, poll,
                     compaction, backfillTask, faults>>
    BY DEF CommitRebuild, upstream, checkpoint, liveTask
<1>2. hour' \in Table
    BY <1>1, ReplaceTable, Types DEF ScriptInv, Rebuilt, Table
<1>3. PollInv'
    <2>1. TypeOK'
        BY <1>1, <1>2 DEF ScriptInv, PollInv, TypeOK, progress, backfillTask
    <2> QED  BY <1>1, <2>1, PollFrame DEF ScriptInv, PollInv
<1>4. HourIsListed'
    <2> SUFFICES ASSUME NEW s \in Sale, hour'[s] > 0 PROVE s <= n
        BY <1>1 DEF HourIsListed
    <2>1. s \in rebuild.rows \/ hour[s] > 0
        BY <1>1, RebuiltRows
    <2> QED  BY <1>1, <2>1 DEF ScriptInv, ReadIsPassed, HourIsListed
<1>5. RawIsPassed' /\ CompactionIsOld'
    BY <1>1 DEF ScriptInv, RawIsPassed, CompactionIsOld, Passed
<1>6. rebuild' \in RebuildRecord /\ ReadIsPassed'
    BY DEF CommitRebuild, NoRebuild, NotRebuilding, ScriptInv, RebuildRecord, ReadIsPassed,
        Rebuilding
<1> QED  BY <1>3, <1>4, <1>5, <1>6 DEF ScriptInv

\* The worker's steps beside the script.
LEMMA LiveKeepsScriptInv ==
    ASSUME ScriptInv, [LiveNext]_vars, Prompt, UNCHANGED rebuild
    PROVE  ScriptInv'
<1>1. PollInv'
    BY PollStep DEF ScriptInv, Next
<1>2. RawIsPassed' /\ HourIsListed' /\ CompactionIsOld'
    BY LiveKeepsRawIsPassed, LiveKeepsHourIsListed, LiveKeepsCompactionIsOld DEF ScriptInv
<1>3. ReadIsPassed'
    <2> SUFFICES ASSUME Rebuilding
                 PROVE  /\ rebuild.at <= now' /\ now' - rebuild.at < SlotsPerHour
                        /\ \A s \in rebuild.rows :
                              s <= n' /\ Passed(s)' /\ sold'[s] >= Since(rebuild.at)
                        /\ \A s \in rebuild.held :
                              /\ s <= n' /\ Passed(s)'
                              /\ sold'[s] >= Since(rebuild.at) => s \in rebuild.rows
        BY DEF ReadIsPassed, Rebuilding, Since, HourStart
    <2>1. now' = now \/ now' = now + 1
        BY DEF LiveNext, Sell, Tick, FetchFirstPage, FetchNextPage, SavePoll, FailPoll,
            BeginCompaction, CommitCompaction, Restart, vars, upstream
    <2>2. rebuild.at <= now' /\ now' - rebuild.at < SlotsPerHour
        BY <2>1, Types DEF ScriptInv, RebuildRecord, ReadIsPassed, Prompt
    <2>3. /\ \A s \in rebuild.rows :
                s \in Sale /\ s <= n /\ Passed(s) /\ sold[s] >= Since(rebuild.at)
          /\ \A s \in rebuild.held :
                /\ s \in Sale /\ s <= n /\ Passed(s)
                /\ sold[s] >= Since(rebuild.at) => s \in rebuild.rows
        BY DEF ScriptInv, RebuildRecord, ReadIsPassed
    <2> QED  BY <2>2, <2>3, PassedStays DEF ScriptInv
<1> QED  BY <1>1, <1>2, <1>3 DEF ScriptInv

LEMMA ScriptInitInv == RebuildInit => ScriptInv
<1> SUFFICES ASSUME RebuildInit PROVE ScriptInv
    OBVIOUS
<1>1. PollInv
    BY PollInit DEF RebuildInit, LiveInit
<1>2. rebuild \in RebuildRecord /\ ReadIsPassed
    BY DEF RebuildInit, NoRebuild, NotRebuilding, RebuildRecord, ReadIsPassed, Rebuilding
<1>3. RawIsPassed /\ HourIsListed /\ CompactionIsOld
    BY DEF RebuildInit, LiveInit, InitWith, NoRows, NoCheckpoint, RawIsPassed, HourIsListed,
        CompactionIsOld
<1> QED  BY <1>1, <1>2, <1>3 DEF ScriptInv

LEMMA ScriptStep == ScriptInv /\ [RebuildNext]_rebuildVars => ScriptInv'
<1> SUFFICES ASSUME ScriptInv, [RebuildNext]_rebuildVars PROVE ScriptInv'
    OBVIOUS
<1>1. CASE LiveNext /\ Prompt /\ UNCHANGED rebuild
    BY <1>1, LiveKeepsScriptInv
<1>2. CASE UNCHANGED rebuildVars
    <2>1. UNCHANGED vars /\ UNCHANGED rebuild
        BY <1>2 DEF rebuildVars
    <2>2. now' = now
        BY <2>1 DEF vars, upstream
    <2>3. Prompt
        BY <2>2 DEF Prompt, ScriptInv, ReadIsPassed
    <2> QED  BY <2>1, <2>3, LiveKeepsScriptInv
<1> QED
    BY <1>1, <1>2, BeginKeepsScriptInv, CommitKeepsScriptInv, AbandonKeepsScriptInv
    DEF RebuildNext

LEMMA ScriptInvariant == RebuildSpec => []ScriptInv
BY ScriptInitInv, ScriptStep, PTL DEF RebuildSpec

\* The variables of the collector and of the script keep their types.
THEOREM RebuildTypeCorrect == RebuildSpec => []RebuildTypeOK
<1>1. ScriptInv => RebuildTypeOK
    BY DEF ScriptInv, PollInv, RebuildTypeOK, RebuildRecord
<1> QED  BY <1>1, ScriptInvariant, PTL

-----------------------------------------------------------------------------
(* The fourth layer: fewer hours than hourly rows are kept. *)

\* A live step keeps the daily rows behind the hourly boundary.
LEMMA LiveKeepsDailyIsOld ==
    ASSUME PollInv, CompactionIsOld, CountInv, DailyIsOld, [LiveNext]_vars, PollInv'
    PROVE  DailyIsOld'
<1>1. now \in Nat /\ now' \in Nat /\ now <= now'
    <2>1. now' = now \/ now' = now + 1
        BY DEF LiveNext, Sell, Tick, FetchFirstPage, FetchNextPage, SavePoll, FailPoll,
            BeginCompaction, CommitCompaction, Restart, vars, upstream
    <2> QED  BY <2>1, Types
<1>2. \A s \in Sale : day'[s] > 0 => HourStart(sold'[s]) < HourlyBoundary(now')
    <2> SUFFICES ASSUME NEW s \in Sale, day'[s] > 0
                 PROVE  HourStart(sold'[s]) < HourlyBoundary(now')
        OBVIOUS
    <2>1. \/ day[s] > 0
          \/ CommitCompaction /\ hour[s] + day[s] > 0 /\ s \in OldHours(compaction.at)
        <3>1. CASE CommitCompaction
            BY <3>1, CommitMoves
        <3>2. CASE ~CommitCompaction
            BY <3>2 DEF LiveNext, Sell, Tick, FetchFirstPage, FetchNextPage, SavePoll,
                FailPoll, BeginCompaction, Restart, vars, tables
        <3> QED  BY <3>1, <3>2
    <2>2. s <= n /\ sold'[s] = sold[s]
        <3>1. hour[s] + day[s] > 0
            BY <2>1, Types
        <3> QED  BY <3>1, PassedStays DEF CountInv, StoredIsPassed
    <2>3. HourStart(sold[s]) \in Int
        BY HourStartType, Types
    <2>4. HourStart(sold[s]) < HourlyBoundary(now) /\ HourlyBoundary(now) \in Int
        <3>1. HourlyBoundary(now) \in Int
            BY <1>1, HourlyBoundaryGrows
        <3>2. CASE day[s] > 0
            BY <3>1, <3>2 DEF DailyIsOld
        <3>3. CASE CommitCompaction /\ s \in OldHours(compaction.at)
            <4>1. HourlyBoundary(compaction.at) <= HourlyBoundary(now)
                  /\ HourlyBoundary(compaction.at) \in Int
                BY <1>1, <3>3, HourlyBoundaryGrows, Types DEF CompactionIsOld, CommitCompaction
            <4>2. HourStart(sold[s]) < HourlyBoundary(compaction.at)
                BY <3>3 DEF OldHours
            <4> QED  BY <2>3, <3>1, <4>1, <4>2
        <3> QED  BY <2>1, <3>1, <3>2, <3>3
    <2>5. HourlyBoundary(now) <= HourlyBoundary(now') /\ HourlyBoundary(now') \in Int
        BY <1>1, HourlyBoundaryGrows
    <2> QED  BY <2>2, <2>3, <2>4, <2>5
<1>3. HourlyBoundary(now)' = HourlyBoundary(now')
    BY DEF HourlyBoundary, HourStart
<1>4. \A s \in Sale : HourStart(sold[s])' = HourStart(sold'[s])
    BY DEF HourStart
<1> QED  BY <1>2, <1>3, <1>4 DEF DailyIsOld

\* A rebuild touches no hour before `since`: its sales were not read and count as before.
LEMMA RebuildSparesBefore ==
    ASSUME ScriptInv, Rebuilding, NEW s \in Sale, HourStart(sold[s]) < Since(rebuild.at)
    PROVE  s \notin rebuild.rows /\ Rebuilt(hour)[s] = hour[s]
<1> DEFINE cut == [x \in Sale |-> IF HourStart(sold[x]) >= Since(rebuild.at) THEN 0 ELSE hour[x]]
<1>1. hour \in Table /\ \A x \in Sale : sold[x] \in Int /\ hour[x] \in Nat
    BY Types DEF ScriptInv
<1>2. Rebuilt(hour) = Replace(cut, rebuild.rows, SlotsPerHour)
    BY DEF Rebuilt
<1>3. rebuild.at \in Int
    BY DEF ScriptInv, RebuildRecord
<1>4. /\ Since(rebuild.at) = HourStart(rebuild.at - RebuildHours * SlotsPerHour)
      /\ rebuild.at - RebuildHours * SlotsPerHour \in Int
    BY <1>3, CalendarAssumption, RebuildAssumption DEF Since
<1>5. Since(rebuild.at) \in Int /\ HourStart(sold[s]) \in Int
    BY <1>1, <1>4, HourStartType
<1>6. \A x \in rebuild.rows : HourStart(sold[x]) >= Since(rebuild.at)
    <2> SUFFICES ASSUME NEW x \in rebuild.rows, HourStart(sold[x]) < Since(rebuild.at)
                 PROVE  FALSE
        BY <1>1, <1>5, HourStartType DEF ScriptInv, RebuildRecord
    <2>1. sold[x] \in Int /\ sold[x] >= Since(rebuild.at)
        BY <1>1 DEF ScriptInv, RebuildRecord, ReadIsPassed
    <2>2. sold[x] < Since(rebuild.at)
        BY <1>4, <2>1, HourStartCut
    <2> QED  BY <1>5, <2>1, <2>2
<1>7. \A x \in rebuild.rows : HourStart(sold[x]) # HourStart(sold[s])
    BY <1>5, <1>6
<1>8. \A x \in rebuild.rows : sold[x] \div SlotsPerHour # sold[s] \div SlotsPerHour
    BY <1>7 DEF HourStart
<1>9. s \notin rebuild.rows
    BY <1>7
<1>10. Replace(cut, rebuild.rows, SlotsPerHour)[s] = cut[s]
    <2> HIDE DEF cut
    <2> QED  BY <1>8, <1>9 DEF Replace
<1>11. cut[s] = hour[s]
    BY <1>5
<1> QED  BY <1>2, <1>9, <1>10, <1>11

\* The hours a rebuild rewrites are in no daily row yet.
LEMMA RebuildSparesOld ==
    ASSUME RebuildInv, Rebuilding, NEW s \in Sale, HourStart(sold[s]) < HourlyBoundary(now)
    PROVE  s \notin rebuild.rows /\ Rebuilt(hour)[s] = hour[s]
<1>1. rebuild.at \in Int /\ now \in Int /\ now - rebuild.at < SlotsPerHour
    BY Types DEF RebuildInv, ScriptInv, ReadIsPassed, RebuildRecord
<1>2. /\ Since(rebuild.at) \in Int /\ HourlyBoundary(now) \in Int
      /\ HourlyBoundary(now) <= Since(rebuild.at)
    BY <1>1, SinceIsHourly DEF RebuildInv
<1>3. HourStart(sold[s]) \in Int
    BY HourStartType, Types DEF RebuildInv, ScriptInv
<1>4. HourStart(sold[s]) < Since(rebuild.at)
    BY <1>2, <1>3
<1> QED  BY <1>4, RebuildSparesBefore DEF RebuildInv

\* The script commits: no sale it counts is in a daily row, and what a compaction
\* has read is not touched.
LEMMA CommitKeepsRebuildInv == RebuildInv /\ CommitRebuild => RebuildInv'
<1> SUFFICES ASSUME RebuildInv, CommitRebuild PROVE RebuildInv'
    OBVIOUS
<1>1. /\ Rebuilding /\ hour' = Rebuilt(hour)
      /\ UNCHANGED <<now, n, sold, raw, twenty, day, ckAt, ckFps, progress, phase, poll,
                     compaction, backfillTask, faults>>
    BY DEF CommitRebuild, upstream, checkpoint, liveTask
<1>2. PollInv /\ CountInv /\ hour' \in Table
      /\ \A s \in Sale : hour[s] \in Nat /\ day[s] \in Nat
    <2>1. Rebuilt(hour) \in Table
        BY <1>1, ReplaceTable, Types DEF RebuildInv, ScriptInv, Rebuilt, Table
    <2> QED  BY <1>1, <2>1, Types DEF RebuildInv, ScriptInv
<1>3. ScriptInv'
    BY CommitKeepsScriptInv DEF RebuildInv
<1>4. ASSUME NEW s \in Sale
      PROVE  /\ hour'[s] \in Nat
             /\ hour'[s] + day[s] <= 1
             /\ hour'[s] > 0 => s <= n /\ Passed(s)
    <2>1. CASE s \in rebuild.rows
        <3>1. hour'[s] = 1 /\ s <= n /\ Passed(s)
            BY <1>1, <2>1, RebuiltRows DEF RebuildInv, ScriptInv, ReadIsPassed
        <3>2. ~(day[s] > 0)
            BY <1>1, <2>1, RebuildSparesOld DEF RebuildInv, DailyIsOld
        <3> QED  BY <1>2, <3>1, <3>2
    <2>2. CASE s \notin rebuild.rows
        <3>1. hour'[s] \in {0, hour[s]}
            BY <1>1, <2>2, RebuiltRows DEF RebuildInv
        <3>2. hour[s] + day[s] <= 1 /\ (hour[s] > 0 => s <= n /\ Passed(s))
            BY <1>2 DEF CountInv, CountedAtMostOnce, StoredIsPassed
        <3> QED  BY <1>2, <3>1, <3>2
    <2> QED  BY <2>1, <2>2
<1>5. CountInv'
    <2>1. StoredIsPassed'
        <3> SUFFICES ASSUME NEW s \in Sale, hour'[s] + day[s] > 0
                     PROVE  s <= n /\ Passed(s)
            BY <1>1 DEF StoredIsPassed, Passed
        <3>1. CASE hour'[s] > 0
            BY <1>4, <3>1
        <3>2. CASE day[s] > 0
            BY <1>2, <3>2 DEF CountInv, StoredIsPassed
        <3> QED  BY <1>2, <1>4, <3>1, <3>2
    <2>2. GroupsCurrent'
        <3> SUFFICES ASSUME phase = "compacting", NEW s \in OldHours(compaction.at)
                     PROVE  hour'[s] = hour[s]
            BY <1>1, <1>2 DEF GroupsCurrent, CountInv, OldHours, HourStart, HourlyBoundary
        <3>1. compaction.at \in Int /\ now \in Int /\ compaction.at <= now /\ s \in Sale
            BY Types DEF RebuildInv, ScriptInv, CompactionIsOld, OldHours
        <3>2. /\ HourlyBoundary(compaction.at) \in Int /\ HourlyBoundary(now) \in Int
              /\ HourlyBoundary(compaction.at) <= HourlyBoundary(now)
            BY <3>1, HourlyBoundaryGrows
        <3>3. HourStart(sold[s]) < HourlyBoundary(compaction.at) /\ HourStart(sold[s]) \in Int
            BY <1>2, <3>1, HourStartType, Types DEF OldHours
        <3>4. HourStart(sold[s]) < HourlyBoundary(now)
            BY <3>2, <3>3
        <3> QED  BY <1>1, <3>1, <3>4, RebuildSparesOld
    <2>3. CountedAtMostOnce'
        BY <1>1, <1>4 DEF CountedAtMostOnce
    <2> QED  BY <2>1, <2>2, <2>3 DEF CountInv
<1>6. DailyIsOld'
    BY <1>1 DEF RebuildInv, DailyIsOld, HourStart, HourlyBoundary
<1> QED  BY <1>3, <1>5, <1>6 DEF RebuildInv, ShortRebuild

\* The worker's steps beside the script, and those of the script that write nothing.
LEMMA OthersKeepRebuildInv ==
    ASSUME RebuildInv, ScriptInv', [LiveNext]_vars
    PROVE  RebuildInv'
<1>1. CountInv'
    BY CountStep DEF RebuildInv, ScriptInv
<1>2. DailyIsOld'
    BY LiveKeepsDailyIsOld DEF RebuildInv, ScriptInv
<1> QED  BY <1>1, <1>2 DEF RebuildInv, ShortRebuild

\* The layers hold at the start.
LEMMA RebuildInitInv == RebuildInit /\ ShortRebuild => RebuildInv
<1> SUFFICES ASSUME RebuildInit, ShortRebuild PROVE RebuildInv
    OBVIOUS
<1>1. ScriptInv /\ CountInv
    BY ScriptInitInv, CountInit DEF RebuildInit
<1>2. DailyIsOld
    BY DEF RebuildInit, LiveInit, InitWith, NoRows, DailyIsOld
<1> QED  BY <1>1, <1>2 DEF RebuildInv

\* They are inductive.
LEMMA RebuildStep == RebuildInv /\ [RebuildNext]_rebuildVars => RebuildInv'
<1> SUFFICES ASSUME RebuildInv, [RebuildNext]_rebuildVars PROVE RebuildInv'
    OBVIOUS
<1>1. ScriptInv'
    BY ScriptStep DEF RebuildInv
<1>2. CASE CommitRebuild
    BY <1>2, CommitKeepsRebuildInv
<1>3. CASE ~CommitRebuild
    <2>1. [LiveNext]_vars
        BY <1>3 DEF RebuildNext, BeginRebuild, AbandonRebuild, rebuildVars
    <2> QED  BY <1>1, <2>1, OthersKeepRebuildInv
<1> QED  BY <1>2, <1>3

\* So they always hold.
LEMMA RebuildInvariant == ASSUME ShortRebuild PROVE RebuildSpec => []RebuildInv
<1>1. RebuildInit => RebuildInv
    BY RebuildInitInv
<1> QED  BY <1>1, RebuildStep, PTL DEF RebuildSpec

\* The live loop counts each sale at most once, although an operator rebuilds the
\* hourly rows from the raw ones at any time between its steps, for fewer hours than
\* hourly rows are kept.  A longer rebuild beside a compaction that lags behind can
\* write an hourly row of a sale that the compaction has put into a daily one.
THEOREM RebuildCountsOnce ==
    ASSUME RebuildHours < HourlyRetention
    PROVE  RebuildSpec => []CountedAtMostOnce
<1>1. RebuildInv => CountedAtMostOnce
    BY DEF RebuildInv, CountInv
<1>2. ShortRebuild
    BY DEF ShortRebuild
<1> QED  BY <1>1, <1>2, RebuildInvariant, PTL

-----------------------------------------------------------------------------
(* The collector implements the ledger. *)

\* What the status of a sale says about its rows.
LEMMA StatusCases ==
    ASSUME PollInv, CountInv, NEW s \in Sale
    PROVE  /\ hour[s] + day[s] = 1 => StatusOf(s) = "counted" /\ s <= n /\ Passed(s)
           /\ hour[s] + day[s] # 1 => hour[s] + day[s] = 0 /\ hour[s] = 0 /\ day[s] = 0
           /\ (hour[s] + day[s] = 0 /\ s <= n /\ Passed(s)) => StatusOf(s) = "gone"
           /\ (hour[s] + day[s] = 0 /\ ~(s <= n /\ Passed(s))) => StatusOf(s) = "new"
<1>1. hour[s] \in Nat /\ day[s] \in Nat /\ hour[s] + day[s] <= 1
    BY Types DEF CountInv, CountedAtMostOnce
<1>2. hour[s] + day[s] > 0 => s <= n /\ Passed(s)
    BY DEF CountInv, StoredIsPassed
<1> QED  BY <1>1, <1>2 DEF StatusOf

\* Under the invariant a status is one of the ledger's.
LEMMA StatusType == ASSUME PollInv, CountInv PROVE \A s \in Sale : StatusOf(s) \in L!Status
BY StatusCases DEF L!Status

\* A saved poll decides about new sales.
LEMMA SaveCollects == ASSUME RebuildInv, RebuildInv', SavePoll, UNCHANGED rebuild PROVE L!Collect
<1>1. ASSUME NEW s \in Sale
      PROVE  \/ StatusOf(s)' = StatusOf(s)
             \/ StatusOf(s) = "new" /\ StatusOf(s)' \in {"counted", "gone"}
    <2> DEFINE inserted == NewRecords \ raw
    <2>1. /\ hour[s] \in Nat /\ day[s] \in Nat /\ day' = day /\ n' = n
          /\ hour'[s] = IF s \in inserted THEN hour[s] + 1 ELSE hour[s]
        BY AddTable, Types DEF RebuildInv, ScriptInv, SavePoll, upstream
    <2>2. CASE s \in inserted
        <3>1. ~Passed(s) /\ hour[s] = 0 /\ day[s] = 0
            BY <2>2, NewRecordsAreNew DEF RebuildInv, ScriptInv, CountInv, SavePoll
        <3>2. hour'[s] + day'[s] = 1
            BY <2>1, <2>2, <3>1
        <3>3. StatusOf(s)' = "counted"
            BY <3>2 DEF StatusOf
        <3> QED  BY <3>1, <3>3, StatusCases DEF RebuildInv, ScriptInv
    <2>3. CASE s \notin inserted
        <3>1. hour'[s] + day'[s] = hour[s] + day[s]
            BY <2>1, <2>3
        <3>2. CASE hour[s] + day[s] = 1
            BY <3>1, <3>2 DEF StatusOf
        <3>3. CASE hour[s] + day[s] = 0
            <4>1. s <= n /\ Passed(s) => s <= n' /\ Passed(s)'
                BY SavePasses, <2>1 DEF RebuildInv, ScriptInv
            <4> QED  BY <2>1, <3>1, <3>3, <4>1 DEF StatusOf
        <3> QED  BY <3>2, <3>3, StatusCases DEF RebuildInv, ScriptInv
    <2> QED  BY <2>2, <2>3
<1>2. L!Move({"new"}, {"counted", "gone"})
    <2>1. \A s \in Sale : StatusOf(s)' \in L!Status
        BY <1>1, StatusType DEF L!Status, RebuildInv, ScriptInv
    <2>2. [s \in Sale |-> StatusOf(s)]' \in [Sale -> L!Status]
        BY <2>1
    <2> QED  BY <1>1, <2>2 DEF L!Move
<1> QED  BY <1>2 DEF L!Collect, Rebuilding

\* Compaction only forgets.
LEMMA CompactionForgets ==
    ASSUME RebuildInv, RebuildInv', CommitCompaction, UNCHANGED rebuild PROVE L!Forget
<1>1. ASSUME NEW s \in Sale
      PROVE  StatusOf(s)' = StatusOf(s) \/ (StatusOf(s) = "counted" /\ StatusOf(s)' = "gone")
    <2>1. /\ hour'[s] \in Nat /\ day'[s] \in Nat /\ hour[s] \in Nat /\ day[s] \in Nat
          /\ hour'[s] + day'[s] <= hour[s] + day[s]
        BY CommitMoves DEF RebuildInv, ScriptInv
    <2>2. UNCHANGED <<n, sold, ckAt, ckFps>>
        BY DEF CommitCompaction, upstream, checkpoint
    <2>3. Passed(s)' <=> Passed(s)
        BY <2>2 DEF Passed
    <2>4. CASE hour[s] + day[s] = 1
        <3>1. StatusOf(s) = "counted" /\ s <= n /\ Passed(s)
            BY <2>4, StatusCases DEF RebuildInv, ScriptInv
        <3>2. hour'[s] + day'[s] = 1 \/ hour'[s] + day'[s] = 0
            BY <2>1, <2>4
        <3>3. CASE hour'[s] + day'[s] = 1
            BY <3>1, <3>3 DEF StatusOf
        <3>4. CASE hour'[s] + day'[s] = 0
            <4>1. s <= n' /\ Passed(s)'
                BY <2>2, <2>3, <3>1
            <4>2. StatusOf(s)' = "gone"
                BY <3>4, <4>1 DEF StatusOf
            <4> QED  BY <3>1, <4>2
        <3> QED  BY <3>2, <3>3, <3>4
    <2>5. CASE hour[s] + day[s] = 0
        <3>1. hour'[s] + day'[s] = 0
            BY <2>1, <2>5
        <3> QED  BY <2>2, <2>3, <2>5, <3>1 DEF StatusOf
    <2> QED  BY <2>4, <2>5, StatusCases DEF RebuildInv, ScriptInv
<1>2. L!Move({"counted"}, {"gone"})
    <2>1. \A s \in Sale : StatusOf(s)' \in L!Status
        BY <1>1, StatusType DEF L!Status, RebuildInv, ScriptInv
    <2>2. [s \in Sale |-> StatusOf(s)]' \in [Sale -> L!Status]
        BY <2>1
    <2> QED  BY <1>1, <2>2 DEF L!Move
<1> QED  BY <1>2 DEF L!Forget, Rebuilding

\* A committed rebuild restores: it decides about no new sale.
LEMMA CommitRestores == ASSUME RebuildInv, RebuildInv', CommitRebuild PROVE L!Restore
<1>1. Rebuilding /\ ~Rebuilding'
    BY DEF CommitRebuild, Rebuilding, NoRebuild
<1>2. ASSUME NEW s \in Sale
      PROVE  \/ StatusOf(s)' = StatusOf(s)
             \/ StatusOf(s) \in {"counted", "gone"} /\ StatusOf(s)' \in {"counted", "gone"}
    <2>1. UNCHANGED <<n, sold, ckAt, ckFps, day>> /\ hour' = Rebuilt(hour)
        BY DEF CommitRebuild, upstream, checkpoint
    <2>2. Passed(s)' <=> Passed(s)
        BY <2>1 DEF Passed
    <2>3. CASE s <= n /\ Passed(s)
        <3>1. StatusOf(s) \in {"counted", "gone"}
            BY <2>3, StatusCases DEF RebuildInv, ScriptInv
        <3>2. hour'[s] + day'[s] <= 1 /\ hour'[s] \in Nat /\ day'[s] \in Nat
            <4>1. hour' \in Table /\ day' \in Table
                BY DEF RebuildInv, ScriptInv, PollInv, TypeOK
            <4>2. hour'[s] + day'[s] <= 1
                BY DEF RebuildInv, ScriptInv, CountInv, CountedAtMostOnce
            <4> QED  BY <4>1, <4>2 DEF Table
        <3>3. StatusOf(s)' \in {"counted", "gone"}
            BY <2>1, <2>2, <2>3, <3>2 DEF StatusOf
        <3> QED  BY <3>1, <3>3
    <2>4. CASE ~(s <= n /\ Passed(s))
        <3>1. hour[s] = 0 /\ day[s] = 0
            BY <2>4, StatusCases DEF RebuildInv, ScriptInv
        <3>2. s \notin rebuild.rows
            BY <1>1, <2>4 DEF RebuildInv, ScriptInv, ReadIsPassed
        <3>3. hour'[s] = 0
            BY <1>1, <2>1, <3>1, <3>2, RebuiltRows DEF RebuildInv
        <3> QED  BY <2>1, <2>2, <3>1, <3>3 DEF StatusOf
    <2> QED  BY <2>3, <2>4
<1>3. L!Move({"counted", "gone"}, {"counted", "gone"})
    <2>1. \A s \in Sale : StatusOf(s)' \in L!Status
        BY <1>2, StatusType DEF L!Status, RebuildInv, ScriptInv
    <2>2. [s \in Sale |-> StatusOf(s)]' \in [Sale -> L!Status]
        BY <2>1
    <2> QED  BY <1>2, <2>2 DEF L!Move
<1> QED  BY <1>1, <1>3 DEF L!Restore

\* A step that leaves the rows and the checkpoint alone leaves every status alone,
\* and so does a sale that upstream lists.
LEMMA OtherKeepsStatus ==
    ASSUME RebuildInv, [LiveNext]_vars \/ UNCHANGED vars, ~SavePoll, ~CommitCompaction
    PROVE  [s \in Sale |-> StatusOf(s)]' = [s \in Sale |-> StatusOf(s)]
<1> SUFFICES ASSUME NEW s \in Sale PROVE StatusOf(s)' = StatusOf(s)
    OBVIOUS
<1>1. UNCHANGED <<hour, day, ckAt, ckFps>>
    BY DEF LiveNext, Sell, Tick, FetchFirstPage, FetchNextPage, FailPoll, BeginCompaction,
        Restart, vars, tables, checkpoint
<1>2. CASE Sell
    <2>1. /\ n \in Nat /\ sold \in [Sale -> Nat] /\ now \in Nat /\ ckAt \in Nat /\ s \in Nat
          /\ ckFps \subseteq Sale /\ \A t \in ckFps : t \in Nat /\ t <= n
        BY Types DEF RebuildInv, ScriptInv, PollInv, CheckpointListed, Table
    <2>2. n' = n + 1 /\ sold' = [sold EXCEPT ![n + 1] = now]
        BY <1>2 DEF Sell
    <2>3. CASE s = n + 1
        <3>1. sold'[s] = now /\ ckAt <= now
            BY <2>1, <2>2, <2>3 DEF RebuildInv, ScriptInv, RawIsPassed
        <3>2. s \notin ckFps /\ \A t \in ckFps : ~(s + PageSize <= t)
            BY <2>1, <2>3, SettingsAssumption
        <3>3. ~Passed(s)'
            BY <1>1, <2>1, <3>1, <3>2 DEF Passed
        <3>4. ~(s <= n)
            BY <2>1, <2>3
        <3> QED  BY <1>1, <3>3, <3>4 DEF StatusOf
    <2>4. CASE s # n + 1
        <3>1. sold'[s] = sold[s] /\ (s <= n' <=> s <= n)
            BY <2>1, <2>2, <2>4
        <3> QED  BY <1>1, <3>1 DEF StatusOf, Passed
    <2> QED  BY <2>3, <2>4
<1>3. CASE ~Sell
    <2>1. UNCHANGED <<n, sold>>
        BY <1>3 DEF LiveNext, Tick, FetchFirstPage, FetchNextPage, FailPoll, BeginCompaction,
            Restart, vars, upstream
    <2> QED  BY <1>1, <2>1 DEF StatusOf, Passed
<1> QED  BY <1>2, <1>3

\* Every step is a step of the ledger, or none.
LEMMA LedgerStep ==
    ASSUME RebuildInv, RebuildInv', [RebuildNext]_rebuildVars PROVE [L!Next]_L!vars
<1>1. CASE LiveNext /\ UNCHANGED rebuild
    <2>1. CASE SavePoll
        BY <1>1, <2>1, SaveCollects DEF L!Next
    <2>2. CASE CommitCompaction
        BY <1>1, <2>2, CompactionForgets DEF L!Next
    <2>3. CASE ~SavePoll /\ ~CommitCompaction
        BY <1>1, <2>3, OtherKeepsStatus DEF L!vars, Rebuilding
    <2> QED  BY <2>1, <2>2, <2>3
<1>2. CASE UNCHANGED rebuildVars
    <2>1. UNCHANGED <<hour, day, n, sold, ckAt, ckFps, rebuild>>
        BY <1>2 DEF rebuildVars, vars, upstream, tables, checkpoint
    <2> QED  BY <2>1 DEF L!vars, StatusOf, Passed, Rebuilding
<1>3. CASE BeginRebuild \/ AbandonRebuild
    <2>1. UNCHANGED <<hour, day, n, sold, ckAt, ckFps>>
        BY <1>3 DEF BeginRebuild, AbandonRebuild, vars, upstream, tables, checkpoint
    <2>2. [s \in Sale |-> StatusOf(s)]' = [s \in Sale |-> StatusOf(s)]
        BY <2>1 DEF StatusOf, Passed
    <2>3. CASE BeginRebuild
        <3>1. now >= 1
            BY DEF RebuildInv, ScriptInv, PollInv, ListingOrdered
        <3>2. ~Rebuilding /\ Rebuilding'
            BY <2>3, <3>1, Types DEF BeginRebuild, Rebuilding, NotRebuilding, RebuildInv, ScriptInv
        <3> QED  BY <2>2, <3>2 DEF L!Next, L!BeginRestore
    <2>4. CASE AbandonRebuild
        <3>1. Rebuilding /\ ~Rebuilding'
            BY <2>4 DEF AbandonRebuild, Rebuilding, NoRebuild
        <3> QED  BY <2>2, <3>1 DEF L!Next, L!AbandonRestore
    <2> QED  BY <1>3, <2>3, <2>4
<1>4. CASE CommitRebuild
    BY <1>4, CommitRestores DEF L!Next
<1> QED  BY <1>1, <1>2, <1>3, <1>4 DEF RebuildNext

\* The initial states are the ledger's.
LEMMA LedgerInit == RebuildInit => L!Init
<1> SUFFICES ASSUME RebuildInit PROVE L!Init
    OBVIOUS
<1>1. \A s \in Sale : StatusOf(s) = "new"
    BY DEF RebuildInit, LiveInit, InitWith, NoRows, NoCheckpoint, StatusOf, Passed
<1>2. ~Rebuilding
    BY DEF RebuildInit, NoRebuild, Rebuilding
<1> QED  BY <1>1, <1>2 DEF L!Init

\* The live loop, its compaction, restarts and the script implement the ledger: a
\* sale is decided about once, and what is gone comes back by the script alone, when
\* it rewrites fewer hours than hourly rows are kept.
THEOREM ImplementsLedger ==
    ASSUME RebuildHours < HourlyRetention
    PROVE  RebuildSpec => KeepsLedger
<1>1. RebuildInv /\ RebuildInv' /\ [RebuildNext]_rebuildVars => [L!Next]_L!vars
    BY LedgerStep
<1>2. RebuildSpec => []RebuildInv
    BY RebuildInvariant DEF ShortRebuild
<1>3. RebuildSpec => L!Spec
    BY <1>1, <1>2, LedgerInit, PTL DEF RebuildSpec, L!Spec
<1> QED  BY <1>3 DEF KeepsLedger

-----------------------------------------------------------------------------
(* What a reader sees. *)

\* A sale is in its 20-minute row at most once, and not in a raw row as well.
RawMovesOnce ==
    \A s \in Sale : /\ twenty[s] <= 1
                    /\ twenty[s] > 0 => s <= n /\ Passed(s) /\ s \notin raw

\* Raw rows are moved, dropped, or new.
LEMMA CommitMovesRaw ==
    ASSUME PollInv, CommitCompaction, NEW s \in Sale
    PROVE  /\ twenty[s] \in Nat /\ twenty'[s] \in Nat
           /\ raw' \subseteq raw
           /\ twenty'[s] \in {0, twenty[s]} \/ (twenty'[s] = twenty[s] + 1 /\ s \in raw /\ s \notin raw')
<1> DEFINE boundary == RawBoundary(compaction.at)
           kept == {x \in raw : sold[x] >= boundary}
<1>a. PICK overflow \in RawOverflows(kept) :
        /\ raw' = kept \ overflow
        /\ PruneInto([x \in Sale |-> IF sold[x] < boundary THEN 0 ELSE Add(twenty, overflow)[x]],
                     [x \in Sale |-> IF x \in OldHours(compaction.at) THEN 0 ELSE hour[x]],
                     [x \in Sale |-> day[x] + compaction.groups[x]])
    BY DEF CommitCompaction
<1> DEFINE grown == Add(twenty, overflow)
           tw == [x \in Sale |-> IF sold[x] < boundary THEN 0 ELSE grown[x]]
           hr == [x \in Sale |-> IF x \in OldHours(compaction.at) THEN 0 ELSE hour[x]]
           dy == [x \in Sale |-> day[x] + compaction.groups[x]]
<1>1. twenty \in Table /\ hour \in Table /\ day \in Table /\ compaction.groups \in Table
    BY DEF PollInv, TypeOK
<1>2. grown \in Table /\ grown[s] = IF s \in overflow THEN twenty[s] + 1 ELSE twenty[s]
    BY <1>1, AddTable
<1>3. tw \in Table /\ tw[s] \in {0, grown[s]}
    <2> HIDE DEF grown, boundary
    <2> QED  BY <1>2 DEF Table
<1>4. hr \in Table /\ dy \in Table
    BY <1>1 DEF Table
<1>5. PruneInto(tw, hr, dy) /\ raw' = kept \ overflow
    BY <1>a
<1>6. twenty' \in Table /\ twenty'[s] \in {0, tw[s]}
    <2>1. \A x \in Sale : twenty'[x] = tw[x] \/ twenty'[x] = 0
        <3> HIDE DEF tw, hr, dy
        <3> QED  BY <1>5 DEF PruneInto
    <2>2. twenty' \in Table
        <3> HIDE DEF tw, hr, dy
        <3> QED  BY <1>3, <1>4, <1>5, PruneTables
    <2> QED  BY <2>1, <2>2
<1>7. overflow \subseteq raw
    BY DEF RawOverflows
<1>8. twenty[s] \in Nat /\ twenty'[s] \in Nat
    BY <1>1, <1>6 DEF Table
<1> HIDE DEF tw, grown
<1> QED  BY <1>2, <1>3, <1>5, <1>6, <1>7, <1>8

\* A sale moves from its raw row to the 20-minute row once.
LEMMA RawMovesStep == RebuildInv /\ RawMovesOnce /\ [RebuildNext]_rebuildVars => RawMovesOnce'
<1> SUFFICES ASSUME RebuildInv, RawMovesOnce, [RebuildNext]_rebuildVars, NEW s \in Sale
             PROVE  (twenty[s] <= 1 /\ (twenty[s] > 0 => s <= n /\ Passed(s) /\ s \notin raw))'
    BY DEF RawMovesOnce
<1>1. /\ twenty[s] \in Nat /\ twenty[s] <= 1
      /\ twenty[s] > 0 => s <= n /\ Passed(s) /\ s \notin raw
    BY DEF RebuildInv, ScriptInv, PollInv, TypeOK, Table, RawMovesOnce
<1>2. CASE [LiveNext]_vars /\ UNCHANGED rebuild
    <2>1. s <= n /\ Passed(s) => s <= n' /\ Passed(s)'
        BY <1>2, PassedStays DEF RebuildInv, ScriptInv
    <2>2. CASE CommitCompaction
        <3>1. s \in raw => s <= n /\ Passed(s)
            BY DEF RebuildInv, ScriptInv, RawIsPassed
        <3>2. /\ twenty'[s] \in Nat /\ raw' \subseteq raw
              /\ \/ twenty'[s] \in {0, twenty[s]}
                 \/ twenty'[s] = twenty[s] + 1 /\ s \in raw /\ s \notin raw'
            BY <2>2, CommitMovesRaw DEF RebuildInv, ScriptInv
        <3> QED  BY <1>1, <2>1, <3>1, <3>2
    <2>3. CASE SavePoll
        <3>1. twenty' = twenty /\ raw' = raw \cup (NewRecords \ raw)
            BY <2>3 DEF SavePoll
        <3>2. s \in NewRecords => ~Passed(s)
            BY <2>3, NewRecordsAreNew DEF RebuildInv, ScriptInv, CountInv, SavePoll
        <3> QED  BY <1>1, <2>1, <3>1, <3>2
    <2>4. CASE ~CommitCompaction /\ ~SavePoll
        <3>1. twenty' = twenty /\ raw' = raw
            BY <1>2, <2>4 DEF LiveNext, Sell, Tick, FetchFirstPage, FetchNextPage, FailPoll,
                BeginCompaction, Restart, vars, tables
        <3> QED  BY <1>1, <2>1, <3>1
    <2> QED  BY <2>2, <2>3, <2>4
<1>3. CASE UNCHANGED <<twenty, raw, n, sold, ckAt, ckFps>>
    BY <1>1, <1>3 DEF Passed
<1>4. CASE BeginRebuild \/ CommitRebuild \/ AbandonRebuild
    <2>1. UNCHANGED <<twenty, raw, n, sold, ckAt, ckFps>>
        BY <1>4 DEF BeginRebuild, CommitRebuild, AbandonRebuild, vars, upstream, tables, checkpoint
    <2> QED  BY <1>3, <2>1
<1>5. CASE UNCHANGED rebuildVars
    BY <1>2, <1>5 DEF rebuildVars
<1> QED  BY <1>2, <1>4, <1>5 DEF RebuildNext

\* A reader of the whole history sees a sale at most once, while polls, compactions,
\* restarts and the script go on, provided hourly rows are kept as long as raw ones
\* and longer than the hours the script rewrites.
THEOREM ReaderSeesOnce ==
    ASSUME RawRetention <= HourlyRetention, RebuildHours < HourlyRetention
    PROVE  RebuildSpec => []ShownAtMostOnce
<1>0. RebuildSpec => []RebuildInv
    BY RebuildInvariant DEF ShortRebuild
<1>1. RebuildInit => RawMovesOnce
    BY DEF RebuildInit, LiveInit, InitWith, NoRows, RawMovesOnce
<1>2. RebuildSpec => []RawMovesOnce
    BY <1>0, <1>1, RawMovesStep, PTL DEF RebuildSpec
<1>3. RebuildInv /\ RawMovesOnce => ShownAtMostOnce
    <2> SUFFICES ASSUME RebuildInv, RawMovesOnce, NEW s \in 1 .. n PROVE ShownAuto(s) <= 1
        BY DEF ShownAtMostOnce
    <2> DEFINE rb == RawBoundary(now)
               hb == HourlyBoundary(now)
    <2>1. s \in Sale /\ now \in Int /\ hour[s] \in Nat /\ day[s] \in Nat /\ sold[s] \in Int
        <3>1. n \in 0 .. MaxSales
            BY DEF RebuildInv, ScriptInv, PollInv, TypeOK
        <3>2. s \in Sale
            BY <3>1, BoundsAssumption DEF Sale
        <3> QED  BY <3>2, Types DEF RebuildInv, ScriptInv
    <2>2. twenty[s] \in Nat /\ twenty[s] <= 1 /\ (twenty[s] > 0 => s \notin raw)
        BY <2>1 DEF RebuildInv, ScriptInv, PollInv, TypeOK, Table, RawMovesOnce
    <2>3. hour[s] + day[s] <= 1
        BY <2>1 DEF RebuildInv, ScriptInv, CountInv, CountedAtMostOnce
    <2>4. rb \in Int /\ hb \in Int /\ hb <= rb /\ HourStart(sold[s]) \in Int
        <3>1. (HourlyRetention - RawRetention) * SlotsPerHour >= 0
              /\ RawRetention * SlotsPerHour \in Int /\ HourlyRetention * SlotsPerHour \in Int
            BY CalendarAssumption, SettingsAssumption
        <3>2. now - HourlyRetention * SlotsPerHour <= now - RawRetention * SlotsPerHour
            BY <2>1, <3>1, CalendarAssumption, SettingsAssumption
        <3> QED  BY <2>1, <3>1, <3>2, HourStartCut DEF RawBoundary, HourlyBoundary
    <2>5. HourStart(sold[s]) < rb <=> sold[s] < rb
        <3>1. now - RawRetention * SlotsPerHour \in Int
            BY <2>1, CalendarAssumption, SettingsAssumption
        <3> QED  BY <2>1, <2>4, <3>1, HourStartCut DEF RawBoundary
    <2>6. day[s] > 0 => sold[s] < rb
        BY <2>1, <2>4, <2>5 DEF RebuildInv, ScriptInv, DailyIsOld
    <2>7. ShownAuto(s) =
              (IF DayStart(sold[s]) < hb THEN day[s] ELSE 0)
            + (IF hb <= HourStart(sold[s]) /\ HourStart(sold[s]) < rb THEN hour[s] ELSE 0)
            + (IF rb <= sold[s] THEN twenty[s] + (IF s \in raw THEN 1 ELSE 0) ELSE 0)
        BY DEF ShownAuto
    <2> HIDE DEF rb, hb
    <2>8. CASE sold[s] < rb
        BY <2>1, <2>2, <2>3, <2>4, <2>7, <2>8
    <2>9. CASE ~(sold[s] < rb)
        BY <2>1, <2>2, <2>4, <2>5, <2>6, <2>7, <2>9
    <2> QED  BY <2>8, <2>9
<1> QED  BY <1>0, <1>2, <1>3, PTL

\* A day starts no later than any of its hours.
LEMMA DayBeforeHour ==
    ASSUME NEW t \in Int
    PROVE  DayStart(t) \in Int /\ DayStart(t) <= HourStart(t)
<1> DEFINE k == SlotsPerHour
           m == SlotsPerHour * HoursPerDay
<1>1. k \in Nat /\ k > 0 /\ HoursPerDay \in Nat /\ HoursPerDay > 0
    BY CalendarAssumption
<1>2. m \in Nat /\ m > 0
    BY <1>1
<1>3. DayStart(t) = (t \div m) * m /\ HourStart(t) = (t \div k) * k
    BY DEF DayStart, HourStart
<1>4. (t \div m) * m = ((t \div m) * HoursPerDay) * k
    <2>1. t \div m \in Int
        BY <1>2, Division
    <2> QED  BY <1>1, <2>1
<1> HIDE DEF k, m
<1>5. /\ t \div m \in Int /\ (t \div m) * m <= t
      /\ t \div k \in Int /\ t < (t \div k) * k + k
    BY <1>1, <1>2, Division
<1>6. (t \div m) * HoursPerDay \in Int
    BY <1>1, <1>5
<1>7. ((t \div m) * HoursPerDay) * k <= (t \div k) * k
    <2> SUFFICES ASSUME (t \div k) * k < ((t \div m) * HoursPerDay) * k PROVE FALSE
        BY <1>1, <1>5, <1>6
    <2>1. (t \div k) * k + k <= ((t \div m) * HoursPerDay) * k
        BY <1>1, <1>5, <1>6, MultiplesApart
    <2> QED  BY <1>1, <1>2, <1>4, <1>5, <1>6, <2>1
<1> QED  BY <1>1, <1>2, <1>3, <1>4, <1>5, <1>7

\* A compaction that commits within the hour it began in leaves every sale it holds
\* and that is older than the raw window in the reader's answer, exactly once, when the
\* script rewrites fewer hours than hourly rows are kept.
THEOREM CompactionKeepsVisible ==
    ASSUME RebuildHours < HourlyRetention
    PROVE  RebuildSpec => CompactionHidesNothing
<1>0. RebuildSpec => []RebuildInv
    BY RebuildInvariant DEF ShortRebuild
<1>1. ASSUME RebuildInv, RebuildInv', CommitCompaction,
             HourStart(compaction.at) = HourStart(now),
             NEW s \in 1 .. n, sold[s] < RawBoundary(now), hour'[s] + day'[s] > 0
      PROVE  ShownAuto(s)' = 1
    <2> DEFINE rb == RawBoundary(now)
               hb == HourlyBoundary(now)
    <2>1. /\ s \in Sale /\ now \in Int /\ compaction.at \in Int /\ sold[s] \in Int
          /\ HourStart(sold[s]) \in Int /\ DayStart(sold[s]) \in Int
          /\ DayStart(sold[s]) <= HourStart(sold[s]) /\ HourStart(sold[s]) <= sold[s]
        <3>1. n \in 0 .. MaxSales
            BY <1>1 DEF RebuildInv, ScriptInv, PollInv, TypeOK
        <3>2. s \in Sale
            BY <3>1, BoundsAssumption DEF Sale
        <3>3. sold[s] \in Int /\ now \in Int /\ compaction.at \in Int
            BY <1>1, <3>2, Types DEF RebuildInv, ScriptInv
        <3> QED  BY <3>2, <3>3, HourStartCut, DayBeforeHour
    <2>2. rb \in Int /\ hb \in Int /\ HourlyBoundary(compaction.at) = hb
        BY <1>1, <2>1, RawBoundaryType, HourlyBoundaryGrows, SameHourBefore, SettingsAssumption
            DEF HourlyBoundary
    <2>3. /\ hour'[s] \in Nat /\ day'[s] \in Nat /\ hour'[s] + day'[s] = 1
        <3>1. hour'[s] \in Nat /\ day'[s] \in Nat
            BY <1>1, <2>1, CommitMoves DEF RebuildInv, ScriptInv
        <3>2. hour'[s] + day'[s] <= 1
            BY <1>1, <2>1 DEF RebuildInv, ScriptInv, CountInv, CountedAtMostOnce
        <3> QED  BY <1>1, <3>1, <3>2
    <2>4. day'[s] > 0 => HourStart(sold[s]) < hb
        <3>1. HourStart(sold'[s]) < HourlyBoundary(now)' \/ ~(day'[s] > 0)
            BY <1>1, <2>1 DEF RebuildInv, ScriptInv, DailyIsOld, HourStart
        <3>2. sold' = sold /\ HourlyBoundary(now)' = hb
            BY <1>1 DEF CommitCompaction, upstream, HourlyBoundary, HourStart
        <3> QED  BY <3>1, <3>2
    <2>5. hour'[s] > 0 => hb <= HourStart(sold[s])
        <3>1. s \in OldHours(compaction.at) => hour'[s] = 0
            BY <1>1, <2>1 DEF CommitCompaction, PruneInto
        <3> QED  BY <2>1, <2>2, <2>3, <3>1 DEF OldHours
    <2>6. ShownAuto(s)' =
              (IF DayStart(sold[s]) < hb THEN day'[s] ELSE 0)
            + (IF hb <= HourStart(sold[s]) /\ HourStart(sold[s]) < rb THEN hour'[s] ELSE 0)
            + (IF rb <= sold[s] THEN twenty'[s] + (IF s \in raw' THEN 1 ELSE 0) ELSE 0)
        <3>1. now' = now /\ sold' = sold
            BY <1>1 DEF CommitCompaction, upstream
        <3> QED  BY <3>1 DEF ShownAuto, RawBoundary, HourlyBoundary, HourStart, DayStart
    <2> HIDE DEF rb, hb
    <2>7. sold[s] < rb
        BY <1>1 DEF rb
    <2>8. CASE day'[s] = 1
        BY <2>1, <2>2, <2>3, <2>4, <2>6, <2>7, <2>8
    <2>9. CASE hour'[s] = 1
        BY <2>1, <2>2, <2>3, <2>5, <2>6, <2>7, <2>9
    <2> QED  BY <2>3, <2>8, <2>9
<1>2. RebuildInv /\ RebuildInv' =>
        [CommitCompaction /\ HourStart(compaction.at) = HourStart(now) =>
           \A s \in 1 .. n :
              (sold[s] < RawBoundary(now) /\ hour'[s] + day'[s] > 0) => ShownAuto(s)' = 1]_vars
    BY <1>1
<1> QED  BY <1>0, <1>2, PTL DEF CompactionHidesNothing

-----------------------------------------------------------------------------
(* What a rebuild can lose. *)

\* The other sales of the item that are as new as s.
AsNew(s) == {t \in (1 .. n) \ {s} : sold[t] >= sold[s]}

\* A sale in an hourly row, or read by the script, is still in its raw row, or is
\* older than the raw window, or has MaxRaw others as new as it is.
RecentIsRaw ==
    \A s \in Sale :
        hour[s] > 0 \/ (Rebuilding /\ s \in rebuild.rows)
            => s \in raw \/ sold[s] < RawBoundary(now) \/ Cardinality(AsNew(s)) >= MaxRaw

\* The raw window only moves on.
LEMMA RawBoundaryGrows ==
    ASSUME NEW a \in Int, NEW b \in Int, a <= b
    PROVE  /\ RawBoundary(a) \in Int /\ RawBoundary(b) \in Int
           /\ RawBoundary(a) <= RawBoundary(b)
<1>1. RawRetention * SlotsPerHour \in Int
    BY CalendarAssumption, SettingsAssumption
<1> QED  BY <1>1, HourStartCut DEF RawBoundary

\* The listing is finite, and so is what is as new as a sale.
LEMMA AsNewCard ==
    ASSUME n \in Nat, NEW s, NEW S, S \subseteq AsNew(s)
    PROVE  /\ IsFiniteSet(AsNew(s)) /\ IsFiniteSet(S)
           /\ Cardinality(AsNew(s)) \in Nat /\ Cardinality(S) \in Nat
           /\ Cardinality(S) <= Cardinality(AsNew(s))
<1>1. IsFiniteSet(1 .. n)
    BY FS_Interval
<1>2. AsNew(s) \subseteq 1 .. n
    BY DEF AsNew
<1>3. IsFiniteSet(AsNew(s))
    BY <1>1, <1>2, FS_Subset
<1>4. IsFiniteSet(S) /\ Cardinality(S) <= Cardinality(AsNew(s))
    BY <1>3, FS_Subset
<1> QED  BY <1>3, <1>4, FS_CardinalityType

\* The sales as new as s stay, and others may join them.
LEMMA AsNewGrows ==
    ASSUME n \in Nat, n' \in Nat, n <= n', NEW s, sold'[s] = sold[s],
           \A t \in 1 .. n : sold'[t] = sold[t],
           Cardinality(AsNew(s)) >= MaxRaw
    PROVE  Cardinality(AsNew(s)') >= MaxRaw
<1>1. AsNew(s) \subseteq AsNew(s)'
    BY DEF AsNew
<1>2. IsFiniteSet(1 .. n') /\ AsNew(s)' \subseteq 1 .. n'
    BY FS_Interval DEF AsNew
<1>3. IsFiniteSet(AsNew(s)')
    BY <1>2, FS_Subset
<1>4. Cardinality(AsNew(s)) <= Cardinality(AsNew(s)') /\ Cardinality(AsNew(s)') \in Nat
    BY <1>1, <1>3, FS_Subset, FS_CardinalityType
<1>5. Cardinality(AsNew(s)) \in Nat /\ MaxRaw \in Nat
    BY AsNewCard, SettingsAssumption
<1> QED  BY <1>4, <1>5

\* A raw row that overflows leaves MaxRaw rows behind that are as new.
LEMMA OverflowIsOld ==
    ASSUME n \in Nat, NEW rows, rows \subseteq 1 .. n,
           NEW overflow \in RawOverflows(rows), NEW s \in overflow
    PROVE  Cardinality(AsNew(s)) >= MaxRaw
<1> DEFINE kept == rows \ overflow
<1>1. /\ overflow \subseteq rows /\ MaxRaw \in Nat
      /\ Cardinality(kept) = Lesser(MaxRaw, Cardinality(rows))
      /\ \A t \in kept : sold[s] <= sold[t]
    BY SettingsAssumption DEF RawOverflows
<1>2. kept \subseteq AsNew(s)
    BY <1>1 DEF AsNew
<1>3. IsFiniteSet(rows) /\ Cardinality(rows) \in Nat
    <2>1. IsFiniteSet(1 .. n)
        BY FS_Interval
    <2> QED  BY <2>1, FS_Subset, FS_CardinalityType
<1>4. Cardinality(rows \ {s}) = Cardinality(rows) - 1 /\ IsFiniteSet(rows \ {s})
    BY <1>1, <1>3, FS_RemoveElement
<1>5. Cardinality(kept) <= Cardinality(rows) - 1
    <2>1. kept \subseteq rows \ {s}
        OBVIOUS
    <2> HIDE DEF kept
    <2> QED  BY <1>4, <2>1, FS_Subset
<1>6. Cardinality(kept) <= Cardinality(AsNew(s)) /\ Cardinality(AsNew(s)) \in Nat
    BY <1>2, AsNewCard
<1> HIDE DEF kept
<1> QED  BY <1>1, <1>3, <1>5, <1>6 DEF Lesser

\* What a compaction takes out of the raw rows has expired or overflowed.
LEMMA CommitDropsOld ==
    ASSUME ScriptInv, CommitCompaction, NEW s \in raw, s \notin raw'
    PROVE  sold[s] < RawBoundary(now) \/ Cardinality(AsNew(s)) >= MaxRaw
<1> DEFINE kept == {x \in raw : sold[x] >= RawBoundary(compaction.at)}
<1>1. PICK overflow \in RawOverflows(kept) : raw' = kept \ overflow
    BY DEF CommitCompaction
<1>2. /\ s \in Sale /\ sold[s] \in Int /\ n \in Nat
      /\ \A x \in raw : x \in 1 .. n
    <2>1. \A x \in raw : x \in Sale /\ x <= n
        BY Types DEF ScriptInv, RawIsPassed
    <2> QED  BY <2>1, Types, BoundsAssumption DEF ScriptInv, Sale
<1>3. CASE s \in kept
    <2>1. kept \subseteq 1 .. n
        BY <1>2
    <2>2. s \in overflow
        BY <1>1, <1>3
    <2> HIDE DEF kept
    <2> QED  BY <1>1, <1>2, <2>1, <2>2, OverflowIsOld
<1>4. CASE s \notin kept
    <2>1. compaction.at \in Int /\ now \in Int /\ compaction.at <= now
        BY Types DEF ScriptInv, CompactionIsOld, CommitCompaction
    <2>2. /\ RawBoundary(compaction.at) \in Int /\ RawBoundary(now) \in Int
          /\ RawBoundary(compaction.at) <= RawBoundary(now)
        BY <2>1, RawBoundaryGrows
    <2>3. ~(sold[s] >= RawBoundary(compaction.at))
        BY <1>4
    <2> QED  BY <1>2, <2>2, <2>3
<1> QED  BY <1>3, <1>4

\* What a live step puts into the hourly rows it puts into the raw rows.
LEMMA LiveAddsRaw ==
    ASSUME ScriptInv, [LiveNext]_vars, NEW s \in Sale, hour'[s] > 0, ~(hour[s] > 0)
    PROVE  s \in raw'
<1>1. CASE SavePoll
    <2>1. hour \in Table /\ hour' = Add(hour, NewRecords \ raw) /\ raw' = raw \cup NewRecords
        BY <1>1, Types DEF SavePoll, ScriptInv
    <2>2. hour'[s] = IF s \in NewRecords \ raw THEN hour[s] + 1 ELSE hour[s]
        BY <2>1, AddTable
    <2> QED  BY <2>1, <2>2
<1>2. CASE CommitCompaction
    BY <1>2 DEF CommitCompaction, PruneInto
<1>3. CASE ~SavePoll /\ ~CommitCompaction
    BY <1>3 DEF LiveNext, Sell, Tick, FetchFirstPage, FetchNextPage, FailPoll,
        BeginCompaction, Restart, vars, tables
<1> QED  BY <1>1, <1>2, <1>3

\* A live step takes a sale out of the raw rows in a compaction only.
LEMMA LiveDropsOld ==
    ASSUME ScriptInv, [LiveNext]_vars, NEW s \in raw, s \notin raw'
    PROVE  sold[s] < RawBoundary(now) \/ Cardinality(AsNew(s)) >= MaxRaw
<1>1. CASE CommitCompaction
    BY <1>1, CommitDropsOld
<1>2. CASE ~CommitCompaction
    BY <1>2 DEF LiveNext, Sell, Tick, FetchFirstPage, FetchNextPage, SavePoll, FailPoll,
        BeginCompaction, Restart, vars, tables
<1> QED  BY <1>1, <1>2

\* The worker's steps keep recent sales in raw rows.
LEMMA LiveKeepsRecentIsRaw ==
    ASSUME ScriptInv, RecentIsRaw, [LiveNext]_vars, UNCHANGED rebuild
    PROVE  RecentIsRaw'
<1> SUFFICES ASSUME NEW s \in Sale, hour'[s] > 0 \/ (Rebuilding /\ s \in rebuild.rows), s \notin raw'
             PROVE  sold'[s] < RawBoundary(now') \/ Cardinality(AsNew(s)') >= MaxRaw
    BY DEF RecentIsRaw, RawBoundary, HourStart, Rebuilding
<1>1. hour[s] > 0 \/ (Rebuilding /\ s \in rebuild.rows)
    BY LiveAddsRaw
<1>2. s <= n
    BY <1>1 DEF ScriptInv, HourIsListed, ReadIsPassed
<1>3. sold[s] < RawBoundary(now) \/ Cardinality(AsNew(s)) >= MaxRaw
    BY <1>1, LiveDropsOld DEF RecentIsRaw
<1>4. /\ now' = now \/ now' = now + 1
      /\ n' = n \/ n' = n + 1
    BY DEF LiveNext, Sell, Tick, FetchFirstPage, FetchNextPage, SavePoll, FailPoll,
        BeginCompaction, CommitCompaction, Restart, vars, upstream
<1>5. /\ sold'[s] = sold[s] /\ sold[s] \in Int
      /\ now \in Int /\ now' \in Int /\ now <= now'
      /\ n \in Nat /\ n' \in Nat /\ n <= n'
    BY <1>2, <1>4, PassedStays, Types DEF ScriptInv
<1>6. \A t \in 1 .. n : sold'[t] = sold[t]
    <2> SUFFICES ASSUME NEW t \in 1 .. n PROVE sold'[t] = sold[t]
        OBVIOUS
    <2>1. t \in Sale /\ t <= n
        BY <1>5, BoundsAssumption DEF ScriptInv, PollInv, TypeOK, Sale
    <2> QED  BY <2>1, PassedStays DEF ScriptInv
<1>7. /\ RawBoundary(now) \in Int /\ RawBoundary(now') \in Int
      /\ RawBoundary(now) <= RawBoundary(now')
    BY <1>5, RawBoundaryGrows
<1>8. CASE sold[s] < RawBoundary(now)
    BY <1>5, <1>7, <1>8
<1>9. CASE Cardinality(AsNew(s)) >= MaxRaw
    BY <1>5, <1>6, <1>9, AsNewGrows
<1> QED  BY <1>3, <1>8, <1>9

\* The script reads raw rows, and puts nothing else into the hourly rows.
LEMMA RecentIsRawStep == ScriptInv /\ RecentIsRaw /\ [RebuildNext]_rebuildVars => RecentIsRaw'
<1> SUFFICES ASSUME ScriptInv, RecentIsRaw, [RebuildNext]_rebuildVars PROVE RecentIsRaw'
    OBVIOUS
<1>1. CASE [LiveNext]_vars /\ UNCHANGED rebuild
    BY <1>1, LiveKeepsRecentIsRaw
<1>2. CASE UNCHANGED rebuildVars
    BY <1>1, <1>2 DEF rebuildVars
<1>3. CASE BeginRebuild \/ CommitRebuild \/ AbandonRebuild
    <2>1. UNCHANGED <<now, n, sold, raw>>
        BY <1>3 DEF BeginRebuild, CommitRebuild, AbandonRebuild, vars, upstream, tables
    <2> SUFFICES ASSUME NEW s \in Sale, hour'[s] > 0 \/ (Rebuilding' /\ s \in rebuild'.rows)
                 PROVE  s \in raw \/ sold[s] < RawBoundary(now) \/ Cardinality(AsNew(s)) >= MaxRaw
        BY <2>1 DEF RecentIsRaw, RawBoundary, HourStart, AsNew
    <2>2. hour[s] > 0 \/ (Rebuilding /\ s \in rebuild.rows) \/ s \in raw
        <3>1. CASE BeginRebuild
            BY <3>1 DEF BeginRebuild, RowsSince, vars, tables
        <3>2. CASE CommitRebuild
            <4>1. Rebuilding /\ hour' = Rebuilt(hour) /\ ~(Rebuilding')
                BY <3>2 DEF CommitRebuild, NoRebuild, Rebuilding
            <4>2. s \notin rebuild.rows => hour'[s] \in {0, hour[s]}
                BY <4>1, RebuiltRows
            <4> QED  BY <4>1, <4>2
        <3>3. CASE AbandonRebuild
            BY <3>3 DEF AbandonRebuild, NoRebuild, Rebuilding, vars, tables
        <3> QED  BY <1>3, <3>1, <3>2, <3>3
    <2> QED  BY <2>2 DEF RecentIsRaw
<1> QED  BY <1>1, <1>2, <1>3 DEF RebuildNext

\* A rebuild takes a sale out of the hourly rows only when a poll saved it after the
\* script had read, or when its raw row had expired or overflowed, however many hours
\* the script is told to rewrite and whatever the worker commits beside it.
THEOREM RebuildLosesFew == RebuildSpec => RebuildLosesOnlySaved
<1>1. RebuildInit => RecentIsRaw
    BY DEF RebuildInit, LiveInit, InitWith, NoRows, NoRebuild, Rebuilding, RecentIsRaw
<1>2. RebuildSpec => []RecentIsRaw
    BY <1>1, RecentIsRawStep, ScriptInvariant, PTL DEF RebuildSpec
<1>3. ASSUME ScriptInv, RecentIsRaw, CommitRebuild, NEW s \in Sale, hour[s] > 0, hour'[s] = 0
      PROVE  \/ s \in raw \ rebuild.held
             \/ sold[s] < RawBoundary(now)
             \/ Cardinality(AsNew(s)) >= MaxRaw
    <2>1. s \notin rebuild.rows
        BY <1>3, RebuiltRows DEF CommitRebuild
    <2>2. s \notin rebuild.held
        <3>1. Rebuilding /\ Rebuilt(hour)[s] # hour[s]
            BY <1>3 DEF CommitRebuild
        <3>2. Since(rebuild.at) \in Int /\ sold[s] \in Int /\ HourStart(sold[s]) \in Int
            <4>1. rebuild.at - RebuildHours * SlotsPerHour \in Int
                BY <1>3, CalendarAssumption, RebuildAssumption DEF ScriptInv, RebuildRecord
            <4> QED  BY <1>3, <4>1, HourStartType, Types DEF Since, ScriptInv
        <3>3. HourStart(sold[s]) >= Since(rebuild.at)
            BY <1>3, <3>1, <3>2, RebuildSparesBefore
        <3>4. HourStart(sold[s]) <= sold[s]
            BY <3>2, HourStartCut
        <3> QED  BY <1>3, <2>1, <3>1, <3>2, <3>3, <3>4 DEF ScriptInv, ReadIsPassed
    <2> QED  BY <1>3, <2>2 DEF RecentIsRaw
<1>4. ScriptInv /\ RecentIsRaw =>
        [CommitRebuild =>
            \A s \in Sale : hour[s] > 0 /\ hour'[s] = 0 =>
                \/ s \in raw \ rebuild.held
                \/ sold[s] < RawBoundary(now)
                \/ Cardinality({t \in (1 .. n) \ {s} : sold[t] >= sold[s]}) >= MaxRaw]_rebuildVars
    BY <1>3 DEF AsNew
<1> QED  BY <1>2, <1>4, ScriptInvariant, PTL DEF RebuildLosesOnlySaved

-----------------------------------------------------------------------------
(* A reply read query by query. *)

ReplyRecord ==
    [part : {"none", "day", "hour", "twenty", "raw", "reply"}, at : Nat, seen : Table,
     replies : Nat]

\* The clock of the reply in the works is less than an hour behind.
ReplyIsRecent == Answering => reply.at <= now /\ now - reply.at < SlotsPerHour

InNoHourAnyMore(s) ==
    /\ s <= n /\ Passed(s)
    /\ HourStart(sold[s]) < HourlyBoundary(now) /\ hour[s] = 0

NotRawAnyMore(s) == s <= n /\ Passed(s) /\ s \notin raw

SeenInv ==
    \A s \in Sale :
        /\ reply.seen[s] <= 1
        /\ reply.part = "day" => reply.seen[s] = 0
        /\ reply.part = "hour" /\ reply.seen[s] > 0 => InNoHourAnyMore(s)
        /\ reply.part = "twenty" /\ reply.seen[s] > 0 =>
               s <= n /\ sold[s] < RawBoundary(reply.at)
        /\ reply.part = "raw" /\ reply.seen[s] > 0 =>
               (s <= n /\ sold[s] < RawBoundary(reply.at)) \/ NotRawAnyMore(s)

ReaderInv ==
    /\ RebuildInv /\ RawMovesOnce
    /\ reply \in ReplyRecord
    /\ ReplyIsRecent /\ SeenInv

-----------------------------------------------------------------------------
(* What has left a table does not come back. *)

\* A sale that only a daily row holds does not get back into an hourly row.
LEMMA HourStaysEmpty ==
    ASSUME RebuildInv, RebuildInv', [RebuildNext]_rebuildVars, NEW s \in Sale,
           InNoHourAnyMore(s)
    PROVE  InNoHourAnyMore(s)'
<1>1. /\ sold[s] \in Int /\ HourStart(sold[s]) \in Int
      /\ now \in Int /\ HourlyBoundary(now) \in Int
      /\ hour[s] = 0 /\ s <= n /\ Passed(s) /\ HourStart(sold[s]) < HourlyBoundary(now)
    BY HourStartType, HourlyBoundaryGrows, Types DEF RebuildInv, ScriptInv, InNoHourAnyMore
<1>2. CASE [LiveNext]_vars
    <2>1. s <= n' /\ sold'[s] = sold[s] /\ Passed(s)'
        BY <1>1, <1>2, PassedStays DEF RebuildInv, ScriptInv
    <2>2. HourlyBoundary(now') \in Int /\ HourlyBoundary(now) <= HourlyBoundary(now')
        <3>1. now' = now \/ now' = now + 1
            BY <1>2 DEF LiveNext, Sell, Tick, FetchFirstPage, FetchNextPage, SavePoll, FailPoll,
                BeginCompaction, CommitCompaction, Restart, vars, upstream
        <3> QED  BY <1>1, <3>1, HourlyBoundaryGrows
    <2>3. hour'[s] = 0
        <3>1. CASE SavePoll
            <4>1. s \notin NewRecords
                BY <1>1, <3>1, NewRecordsAreNew DEF RebuildInv, ScriptInv, CountInv, SavePoll
            <4> QED  BY <1>1, <3>1, <4>1, AddTable DEF SavePoll, RebuildInv, ScriptInv, PollInv, TypeOK
        <3>2. CASE CommitCompaction
            BY <1>1, <3>2 DEF CommitCompaction, PruneInto
        <3>3. CASE ~SavePoll /\ ~CommitCompaction
            <4>1. hour' = hour
                BY <1>2, <3>3 DEF LiveNext, Sell, Tick, FetchFirstPage, FetchNextPage,
                    FailPoll, BeginCompaction, Restart, vars, tables
            <4> QED  BY <1>1, <4>1
        <3> QED  BY <3>1, <3>2, <3>3
    <2>4. HourStart(sold[s])' = HourStart(sold[s]) /\ HourlyBoundary(now)' = HourlyBoundary(now')
        BY <2>1 DEF HourStart, HourlyBoundary
    <2> QED  BY <1>1, <2>1, <2>2, <2>3, <2>4 DEF InNoHourAnyMore
<1>3. CASE UNCHANGED <<now, n, sold, ckAt, ckFps, hour>>
    BY <1>3 DEF InNoHourAnyMore, Passed, HourStart, HourlyBoundary
<1>4. CASE BeginRebuild \/ AbandonRebuild
    BY <1>3, <1>4 DEF BeginRebuild, AbandonRebuild, vars, upstream, tables, checkpoint
<1>5. CASE CommitRebuild
    <2>1. UNCHANGED <<now, n, sold, ckAt, ckFps>> /\ hour' = Rebuilt(hour) /\ Rebuilding
        BY <1>5 DEF CommitRebuild, upstream, checkpoint
    <2>2. hour'[s] = 0
        BY <1>1, <2>1, RebuildSparesOld
    <2> QED  BY <2>1, <2>2 DEF InNoHourAnyMore, Passed, HourStart, HourlyBoundary
<1> QED  BY <1>2, <1>4, <1>5 DEF RebuildNext, rebuildVars

\* A sale the checkpoint has passed does not get back into the raw rows.
LEMMA RawStaysEmpty ==
    ASSUME RebuildInv, [RebuildNext]_rebuildVars, NEW s \in Sale, NotRawAnyMore(s)
    PROVE  NotRawAnyMore(s)'
<1>1. s <= n /\ Passed(s) /\ s \notin raw
    BY DEF NotRawAnyMore
<1>2. CASE [LiveNext]_vars
    <2>1. s <= n' /\ Passed(s)'
        BY <1>1, <1>2, PassedStays DEF RebuildInv, ScriptInv
    <2>2. s \notin raw'
        BY <1>1, <1>2, RawGrowth, NewRecordsAreNew DEF RebuildInv, ScriptInv, CountInv, SavePoll
    <2> QED  BY <2>1, <2>2 DEF NotRawAnyMore
<1>3. CASE BeginRebuild \/ CommitRebuild \/ AbandonRebuild
    <2>1. UNCHANGED <<n, sold, ckAt, ckFps, raw>>
        BY <1>3 DEF BeginRebuild, CommitRebuild, AbandonRebuild, vars, upstream, tables, checkpoint
    <2> QED  BY <1>1, <2>1 DEF NotRawAnyMore, Passed
<1> QED  BY <1>2, <1>3 DEF RebuildNext, rebuildVars

-----------------------------------------------------------------------------
(* The invariant. *)

\* The worker and the script go on beside the reader.
LEMMA OthersKeepSeen ==
    ASSUME ReaderInv, RebuildInv', RawMovesOnce', [RebuildNext]_rebuildVars, InTime,
           UNCHANGED reply
    PROVE  ReaderInv'
<1>1. ReplyIsRecent'
    <2>1. now \in Nat /\ (now' = now \/ now' = now + 1)
        BY Types DEF ReaderInv, RebuildInv, ScriptInv, RebuildNext, BeginRebuild, CommitRebuild,
            AbandonRebuild, LiveNext, Sell, Tick, FetchFirstPage, FetchNextPage, SavePoll,
            FailPoll, BeginCompaction, CommitCompaction, Restart, rebuildVars, vars, upstream
    <2>2. now \in Nat /\ reply.at \in Nat
        BY Types DEF ReaderInv, RebuildInv, ScriptInv, ReplyRecord
    <2> QED  BY <2>1, <2>2 DEF ReaderInv, ReplyIsRecent, InTime, Answering
<1>2. SeenInv'
    <2> SUFFICES ASSUME NEW s \in Sale
                 PROVE  (/\ reply.seen[s] <= 1
                         /\ reply.part = "day" => reply.seen[s] = 0
                         /\ reply.part = "hour" /\ reply.seen[s] > 0 => InNoHourAnyMore(s)
                         /\ reply.part = "twenty" /\ reply.seen[s] > 0 =>
                                s <= n /\ sold[s] < RawBoundary(reply.at)
                         /\ reply.part = "raw" /\ reply.seen[s] > 0 =>
                                \/ s <= n /\ sold[s] < RawBoundary(reply.at)
                                \/ NotRawAnyMore(s))'
        BY DEF SeenInv
    <2>1. InNoHourAnyMore(s) => InNoHourAnyMore(s)'
        BY HourStaysEmpty DEF ReaderInv
    <2>2. NotRawAnyMore(s) => NotRawAnyMore(s)'
        BY RawStaysEmpty DEF ReaderInv
    <2>3. s <= n => s <= n' /\ sold'[s] = sold[s]
        <3>1. CASE [LiveNext]_vars
            BY <3>1, PassedStays DEF ReaderInv, RebuildInv, ScriptInv
        <3>2. CASE BeginRebuild \/ CommitRebuild \/ AbandonRebuild
            BY <3>2 DEF BeginRebuild, CommitRebuild, AbandonRebuild, vars, upstream
        <3> QED  BY <3>1, <3>2 DEF RebuildNext, rebuildVars
    <2>4. RawBoundary(reply.at)' = RawBoundary(reply.at)
        BY DEF RawBoundary, HourStart
    <2>5. /\ reply.seen[s] <= 1
          /\ reply.part = "day" => reply.seen[s] = 0
          /\ reply.part = "hour" /\ reply.seen[s] > 0 => InNoHourAnyMore(s)
          /\ reply.part = "twenty" /\ reply.seen[s] > 0 =>
                 s <= n /\ sold[s] < RawBoundary(reply.at)
          /\ reply.part = "raw" /\ reply.seen[s] > 0 =>
                 (s <= n /\ sold[s] < RawBoundary(reply.at)) \/ NotRawAnyMore(s)
        BY DEF ReaderInv, SeenInv
    <2> QED  BY <2>1, <2>2, <2>3, <2>4, <2>5
<1> QED  BY <1>1, <1>2 DEF ReaderInv

\* A query finds what no earlier one has found.
LEMMA QueryKeepsSeen ==
    ASSUME RawRetention < HourlyRetention, ReaderInv, Query
    PROVE  reply' \in ReplyRecord /\ ReplyIsRecent' /\ SeenInv'
<1> DEFINE rb == RawBoundary(reply.at)
           hb == HourlyBoundary(reply.at)
<1>1. /\ UNCHANGED <<now, n, sold, raw, twenty, hour, day, ckAt, ckFps>>
      /\ reply.part \in {"day", "hour", "twenty", "raw"}
      /\ reply'.at = reply.at /\ reply'.part = PartAfter[reply.part]
      /\ \A s \in Sale : reply'.seen[s] = reply.seen[s] + FoundIn(reply.part, s)
    BY DEF Query, ReaderInv, ReplyRecord, Answering, rebuildVars, vars, upstream, tables, checkpoint
<1>2. /\ now \in Nat /\ reply.at \in Nat /\ reply.seen \in Table
      /\ \A s \in Sale : reply.seen[s] \in Nat
      /\ reply.at <= now /\ now - reply.at < SlotsPerHour
    BY <1>1, Types DEF ReaderInv, RebuildInv, ScriptInv, ReplyRecord, ReplyIsRecent, Answering, Table
<1>3. /\ rb \in Int /\ hb \in Int
      /\ HourlyBoundary(now) \in Int /\ HourlyBoundary(now) <= rb
    <2>1. (HourlyRetention - RawRetention - 1) * SlotsPerHour >= 0
          /\ RawRetention * SlotsPerHour \in Int /\ HourlyRetention * SlotsPerHour \in Int
        BY CalendarAssumption, SettingsAssumption
    <2>2. now - HourlyRetention * SlotsPerHour <= reply.at - RawRetention * SlotsPerHour
        BY <1>2, <2>1, CalendarAssumption, SettingsAssumption
    <2>3. reply.at - HourlyRetention * SlotsPerHour \in Int
        BY <1>2, <2>1
    <2> QED  BY <1>2, <2>1, <2>2, <2>3, HourStartCut, HourStartType DEF RawBoundary, HourlyBoundary
<1>4. ASSUME NEW s \in Sale
      PROVE  /\ FoundIn(reply.part, s) \in Nat
             /\ reply'.seen[s] \in Nat /\ reply'.seen[s] <= 1
             /\ reply.part = "day" /\ reply'.seen[s] > 0 => InNoHourAnyMore(s)
             /\ reply.part = "hour" /\ reply'.seen[s] > 0 => s <= n /\ sold[s] < rb
             /\ reply.part = "twenty" /\ reply'.seen[s] > 0 =>
                    (s <= n /\ sold[s] < rb) \/ NotRawAnyMore(s)
    <2>1. /\ sold[s] \in Int /\ HourStart(sold[s]) \in Int /\ s \in Nat /\ n \in Nat
          /\ hour[s] \in Nat /\ day[s] \in Nat /\ twenty[s] \in Nat
          /\ hour[s] + day[s] <= 1
          /\ hour[s] + day[s] > 0 => s <= n /\ Passed(s)
        BY HourStartType, Types DEF ReaderInv, RebuildInv, ScriptInv, CountInv, CountedAtMostOnce,
            StoredIsPassed, PollInv, TypeOK, Table
    <2>2. /\ twenty[s] <= 1 /\ (twenty[s] > 0 => NotRawAnyMore(s))
        BY DEF ReaderInv, RawMovesOnce, NotRawAnyMore
    <2>3. /\ reply.seen[s] \in Nat /\ reply.seen[s] <= 1
          /\ reply'.seen[s] = reply.seen[s] + FoundIn(reply.part, s)
        BY <1>1, <1>2 DEF ReaderInv, SeenInv
    <2>4. HourStart(sold[s]) < rb => sold[s] < rb
        <3>1. reply.at - RawRetention * SlotsPerHour \in Int
            BY <1>2, CalendarAssumption, SettingsAssumption
        <3> QED  BY <2>1, <3>1, HourStartCut DEF RawBoundary
    <2>5. CASE reply.part = "day"
        <3>1. reply.seen[s] = 0 /\ FoundIn(reply.part, s) \in {0, day[s]}
            BY <2>5 DEF ReaderInv, SeenInv, FoundIn
        <3>2. day[s] > 0 => InNoHourAnyMore(s)
            BY <2>1 DEF ReaderInv, RebuildInv, ScriptInv, DailyIsOld, InNoHourAnyMore
        <3> QED  BY <2>1, <2>3, <2>5, <3>1, <3>2
    <2>6. CASE reply.part = "hour"
        <3>1. /\ FoundIn(reply.part, s) \in {0, hour[s]}
              /\ FoundIn(reply.part, s) > 0 => HourStart(sold[s]) < rb
            BY <2>6 DEF FoundIn
        <3>2. reply.seen[s] > 0 =>
                  s <= n /\ hour[s] = 0 /\ HourStart(sold[s]) < HourlyBoundary(now)
            BY <2>6 DEF ReaderInv, SeenInv, InNoHourAnyMore
        <3>3. reply.seen[s] > 0 => HourStart(sold[s]) < rb
            <4> HIDE DEF rb
            <4> QED  BY <1>3, <2>1, <3>2
        <3> HIDE DEF rb
        <3> QED  BY <2>1, <2>3, <2>4, <2>6, <3>1, <3>2, <3>3
    <2>7. CASE reply.part = "twenty"
        <3>1. /\ FoundIn(reply.part, s) \in {0, twenty[s]}
              /\ FoundIn(reply.part, s) > 0 => rb <= sold[s]
            BY <2>7 DEF FoundIn
        <3>2. reply.seen[s] > 0 => s <= n /\ sold[s] < rb
            BY <2>7 DEF ReaderInv, SeenInv
        <3> HIDE DEF rb
        <3> QED  BY <1>3, <2>1, <2>2, <2>3, <2>7, <3>1, <3>2
    <2>8. CASE reply.part = "raw"
        <3>1. /\ FoundIn(reply.part, s) \in {0, 1}
              /\ FoundIn(reply.part, s) > 0 => rb <= sold[s] /\ s \in raw
            BY <2>8 DEF FoundIn
        <3>2. reply.seen[s] > 0 => sold[s] < rb \/ s \notin raw
            BY <2>8 DEF ReaderInv, SeenInv, NotRawAnyMore
        <3> HIDE DEF rb
        <3> QED  BY <1>3, <2>1, <2>3, <2>8, <3>1, <3>2
    <2> QED  BY <1>1, <2>5, <2>6, <2>7, <2>8
<1>5. reply'.part = CASE reply.part = "day" -> "hour" [] reply.part = "hour" -> "twenty"
                      [] reply.part = "twenty" -> "raw" [] reply.part = "raw" -> "reply"
    BY <1>1 DEF PartAfter
<1>6. reply' \in ReplyRecord
    <2>1. [s \in Sale |-> reply.seen[s] + FoundIn(reply.part, s)] \in Table
        BY <1>2, <1>4 DEF Table
    <2> QED  BY <1>1, <1>5, <2>1 DEF Query, ReaderInv, ReplyRecord
<1>7. ReplyIsRecent'
    BY <1>1, <1>2 DEF ReplyIsRecent
<1>8. SeenInv'
    <2>1. /\ RawBoundary(reply.at)' = rb
          /\ \A s \in Sale : /\ InNoHourAnyMore(s)' <=> InNoHourAnyMore(s)
                             /\ NotRawAnyMore(s)' <=> NotRawAnyMore(s)
        BY <1>1 DEF RawBoundary, HourStart, HourlyBoundary, InNoHourAnyMore, NotRawAnyMore, Passed
    <2> HIDE DEF rb
    <2> QED  BY <1>1, <1>4, <1>5, <2>1 DEF SeenInv
<1> QED  BY <1>6, <1>7, <1>8

\* A request opens with nothing seen, and closes.
LEMMA OpenCloseKeepSeen ==
    ASSUME ReaderInv, OpenHistory \/ Reply
    PROVE  reply' \in ReplyRecord /\ ReplyIsRecent' /\ SeenInv'
<1>1. now \in Nat /\ now' = now /\ reply.replies \in Nat
    BY Types DEF ReaderInv, RebuildInv, ScriptInv, ReplyRecord, OpenHistory, Reply, rebuildVars, vars, upstream
<1>2. NoRows \in Table /\ \A s \in Sale : NoRows[s] = 0
    BY DEF NoRows, Table
<1>3. CASE OpenHistory
    <2>1. reply' = [part |-> "day", at |-> now, seen |-> NoRows, replies |-> reply.replies + 1]
        BY <1>3 DEF OpenHistory
    <2>2. reply' \in ReplyRecord
        BY <1>1, <1>2, <2>1 DEF ReplyRecord
    <2>3. ReplyIsRecent'
        BY <1>1, <2>1, CalendarAssumption DEF ReplyIsRecent
    <2> QED  BY <1>2, <2>1, <2>2, <2>3 DEF SeenInv
<1>4. CASE Reply
    <2>1. reply' = [part |-> "none", at |-> 0, seen |-> NoRows, replies |-> reply.replies]
        BY <1>4 DEF Reply, NoReply
    <2>2. reply' \in ReplyRecord
        BY <1>1, <1>2, <2>1 DEF ReplyRecord
    <2>3. ReplyIsRecent'
        BY <2>1 DEF ReplyIsRecent, Answering
    <2> QED  BY <1>2, <2>1, <2>2, <2>3 DEF SeenInv
<1> QED  BY <1>3, <1>4

LEMMA ReaderInitInv == ReaderInit /\ ShortRebuild => ReaderInv
<1> SUFFICES ASSUME ReaderInit, ShortRebuild PROVE ReaderInv
    OBVIOUS
<1>1. RebuildInv
    BY RebuildInitInv DEF ReaderInit
<1>2. RawMovesOnce
    BY DEF ReaderInit, RebuildInit, LiveInit, InitWith, NoRows, RawMovesOnce
<1>3. reply = [part |-> "none", at |-> 0, seen |-> NoRows, replies |-> 0]
    BY DEF ReaderInit, NoReply
<1>4. NoRows \in Table /\ \A s \in Sale : NoRows[s] = 0
    BY DEF NoRows, Table
<1>5. reply \in ReplyRecord
    BY <1>3, <1>4 DEF ReplyRecord
<1>6. ReplyIsRecent
    BY <1>3 DEF ReplyIsRecent, Answering
<1>7. SeenInv
    BY <1>3, <1>4 DEF SeenInv
<1> QED  BY <1>1, <1>2, <1>5, <1>6, <1>7 DEF ReaderInv

LEMMA ReaderStep ==
    ASSUME RawRetention < HourlyRetention, ReaderInv, [ReaderNext]_readerVars
    PROVE  ReaderInv'
<1>1. [RebuildNext]_rebuildVars
    BY DEF ReaderNext, OpenHistory, Query, Reply, readerVars
<1>2. RebuildInv' /\ RawMovesOnce'
    BY <1>1, RebuildStep, RawMovesStep DEF ReaderInv
<1>3. CASE RebuildNext /\ InTime /\ UNCHANGED reply
    BY <1>1, <1>2, <1>3, OthersKeepSeen
<1>4. CASE UNCHANGED readerVars
    <2>1. UNCHANGED reply /\ now' = now
        BY <1>4 DEF readerVars, rebuildVars, vars, upstream
    <2>2. InTime
        BY <2>1 DEF InTime, ReaderInv, ReplyIsRecent
    <2> QED  BY <1>1, <1>2, <2>1, <2>2, OthersKeepSeen
<1>5. CASE Query
    BY <1>2, <1>5, QueryKeepsSeen DEF ReaderInv
<1>6. CASE OpenHistory \/ Reply
    BY <1>2, <1>6, OpenCloseKeepSeen DEF ReaderInv
<1> QED  BY <1>3, <1>4, <1>5, <1>6 DEF ReaderNext

\* A reply that takes less than an hour includes no sale twice, whatever the worker
\* and the rebuild script commit between its queries, provided hourly rows are kept
\* longer than raw ones and than the hours the script rewrites (read_history, app/modules/history/service.py).
THEOREM ReplyCountsOnce ==
    ASSUME RawRetention < HourlyRetention, RebuildHours < HourlyRetention
    PROVE  ReaderSpec => []ReplyShowsOnce
<1>0. ReaderInit => ReaderInv
    BY ReaderInitInv DEF ShortRebuild
<1>1. ReaderInv /\ [ReaderNext]_readerVars => ReaderInv'
    BY ReaderStep
<1>2. ReaderInv => ReplyShowsOnce
    BY DEF ReaderInv, SeenInv, ReplyShowsOnce
<1> QED  BY <1>0, <1>1, <1>2, PTL DEF ReaderSpec

=============================================================================
