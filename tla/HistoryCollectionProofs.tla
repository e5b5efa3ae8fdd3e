----------------------- MODULE HistoryCollectionProofs -----------------------
(***************************************************************************)
(* Proofs about HistoryCollection, for every value of its constants.       *)
(*                                                                         *)
(* Three layers.  The first, PollInv, is inductive under the whole         *)
(* next-state relation: it types the variables, orders the listing, and    *)
(* says what the poll in flight has covered.  The second, CountInv, is     *)
(* inductive under the live loop alone: what is stored has been passed by  *)
(* the checkpoint, so no later poll lets it through again.  The third,     *)
(* DownloadInv, is inductive under the whole relation, given the first:    *)
(* what the backfill's first chunk has covered, page by page.              *)
(***************************************************************************)
EXTENDS HistoryCollection, TLAPS

-----------------------------------------------------------------------------
(* The invariants. *)

\* The listing is ordered by time, and nothing is sold before slot 1.
ListingOrdered ==
    /\ now >= 1
    /\ \A s \in Sale : s <= n => sold[s] >= 1 /\ sold[s] <= now
    /\ \A s, t \in Sale : s <= t /\ t <= n => sold[s] <= sold[t]

\* The fingerprints kept with the checkpoint are of listed sales at that moment.
CheckpointListed ==
    \A t \in ckFps : t <= n /\ sold[t] = ckAt

\* What the poll in flight has covered: a final part of the first `total` sales,
\* at least down to where the next page starts.
PollCovers ==
    phase = "paging" =>
        /\ poll.total <= n /\ n <= poll.total + PageSize
        /\ poll.offset <= n
        /\ poll.offset >= PageSize \/ poll.offset >= poll.total
        /\ poll.total > 0 => poll.total \in poll.records
        /\ \A s \in poll.records : s <= poll.total
        /\ \A s \in Sale : n - poll.offset < s /\ s <= poll.total => s \in poll.records
        /\ \A s \in Sale, r \in poll.records : r <= s /\ s <= poll.total => s \in poll.records

\* No sale of the poll in flight lies a page or more below a checkpoint sale.
PollFresh ==
    phase = "paging" =>
        \A t \in ckFps : t <= poll.total /\ \A s \in poll.records : s + PageSize > t

PollInv == TypeOK /\ ListingOrdered /\ CheckpointListed /\ PollCovers /\ PollFresh

StoredIsPassed ==
    \A s \in Sale : hour[s] + day[s] > 0 => s <= n /\ Passed(s)

\* The groups a compaction has read are still the old hourly rows.
GroupsCurrent ==
    phase = "compacting" =>
        \A s \in Sale :
            compaction.groups[s] = IF s \in OldHours(compaction.at) THEN hour[s] ELSE 0

CountInv == StoredIsPassed /\ GroupsCurrent /\ CountedAtMostOnce

-----------------------------------------------------------------------------
(* Lemmas about the operators. *)

\* The smaller and the greater of two integers.
LEMMA MinMax ==
    ASSUME NEW a \in Int, NEW b \in Int
    PROVE  /\ Lesser(a, b) \in Int /\ Lesser(a, b) <= a /\ Lesser(a, b) <= b
           /\ Lesser(a, b) = a \/ Lesser(a, b) = b
           /\ Greater(a, b) \in Int /\ Greater(a, b) >= a /\ Greater(a, b) >= b
           /\ Greater(a, b) = a \/ Greater(a, b) = b
BY DEF Lesser, Greater

\* The hour of a moment is a moment.
LEMMA HourStartType == \A t \in Int : HourStart(t) \in Int
<1> TAKE t \in Int
<1>1. t \div SlotsPerHour \in Int  BY CalendarAssumption
<1> QED  BY <1>1, CalendarAssumption DEF HourStart

\* The boundary between raw and hourly data is a moment.
LEMMA RawBoundaryType == \A t \in Int : RawBoundary(t) \in Int
<1> TAKE t \in Int
<1>1. RawRetention * SlotsPerHour \in Int  BY CalendarAssumption, SettingsAssumption
<1>2. t - RawRetention * SlotsPerHour \in Int  BY <1>1
<1> QED  BY <1>2, HourStartType DEF RawBoundary

\* Division with a positive divisor.
LEMMA Division ==
    ASSUME NEW t \in Int, NEW k \in Nat, k > 0
    PROVE  t \div k \in Int /\ (t \div k) * k <= t /\ t < (t \div k) * k + k
<1>1. (t \div k) * k <= t
    OBVIOUS
<1>2. t < k * (t \div k) + k
    OBVIOUS
<1> QED  BY <1>1, <1>2

\* An hour starts at a multiple of its length, at most that length before.
LEMMA HourStartBounds ==
    ASSUME NEW t \in Int
    PROVE  \E q \in Int : /\ HourStart(t) = q * SlotsPerHour
                          /\ HourStart(t) <= t /\ t < HourStart(t) + SlotsPerHour
<1>1. SlotsPerHour \in Nat /\ SlotsPerHour > 0
    BY CalendarAssumption
<1> QED  BY <1>1, Division DEF HourStart

\* Of two multiples, the smaller is a whole hour below.
LEMMA MultiplesApart ==
    ASSUME NEW p \in Int, NEW q \in Int, NEW k \in Nat, p * k < q * k
    PROVE  p * k + k <= q * k
<1>1. p < q
    <2> SUFFICES ASSUME q <= p PROVE FALSE
        OBVIOUS
    <2>1. p - q >= 0 /\ (p - q) * k >= 0
        OBVIOUS
    <2> QED  BY <2>1
<1>2. (q - p - 1) * k >= 0
    BY <1>1
<1> QED  BY <1>2

\* A moment before the start of an hour is in an earlier hour, and conversely.
LEMMA HourStartCut ==
    ASSUME NEW a \in Int, NEW b \in Int
    PROVE  /\ HourStart(a) \in Int /\ HourStart(b) \in Int
           /\ HourStart(a) <= a
           /\ HourStart(a) < HourStart(b) => a < HourStart(b)
           /\ a <= b => HourStart(a) <= HourStart(b)
<1>1. SlotsPerHour \in Nat
    BY CalendarAssumption
<1>2. HourStart(a) \in Int /\ HourStart(b) \in Int
    BY HourStartType
<1>3. PICK p \in Int : HourStart(a) = p * SlotsPerHour /\ HourStart(a) <= a
                       /\ a < HourStart(a) + SlotsPerHour
    BY HourStartBounds
<1>4. PICK q \in Int : HourStart(b) = q * SlotsPerHour /\ HourStart(b) <= b
                       /\ b < HourStart(b) + SlotsPerHour
    BY HourStartBounds
<1>5. HourStart(a) < HourStart(b) => HourStart(a) + SlotsPerHour <= HourStart(b)
    BY <1>1, <1>3, <1>4, MultiplesApart
<1>6. HourStart(b) < HourStart(a) => HourStart(b) + SlotsPerHour <= HourStart(a)
    BY <1>1, <1>3, <1>4, MultiplesApart
<1> QED  BY <1>1, <1>2, <1>3, <1>4, <1>5, <1>6

\* Moments of one hour have the same boundaries a number of hours before.
LEMMA SameHourBefore ==
    ASSUME NEW a \in Int, NEW b \in Int, NEW h \in Nat, HourStart(a) = HourStart(b)
    PROVE  HourStart(a - h * SlotsPerHour) = HourStart(b - h * SlotsPerHour)
<1> DEFINE k == SlotsPerHour
<1>1. k \in Nat /\ k > 0
    BY CalendarAssumption
<1>2. ASSUME NEW t \in Int
      PROVE  HourStart(t - h * k) = HourStart(t) - h * k
    <2> HIDE DEF k
    <2>1. t \div k \in Int /\ (t \div k) * k <= t /\ t < (t \div k) * k + k
        BY <1>1, Division
    <2>2. h * k \in Int /\ ((t \div k) - h) * k = (t \div k) * k - h * k
        BY <1>1, <2>1
    <2> DEFINE q == (t \div k) - h
               r == t - h * k - q * k
    <2>3. q \in Int /\ r \in 0 .. (k - 1) /\ t - h * k \in Int /\ t - h * k = k * q + r
        BY <1>1, <2>1, <2>2
    <2>4. (t - h * k) \div k = q
        <3> HIDE DEF q, r
        <3> QED  BY <1>1, <2>3
    <2>5. HourStart(t - h * k) = q * k /\ HourStart(t) = (t \div k) * k
        BY <2>4 DEF HourStart, k
    <2> QED  BY <2>2, <2>5
<1> QED  BY <1>2

\* The hourly boundary moves forward.
LEMMA HourlyBoundaryGrows ==
    ASSUME NEW a \in Int, NEW b \in Int, a <= b
    PROVE  /\ HourlyBoundary(a) \in Int /\ HourlyBoundary(b) \in Int
           /\ HourlyBoundary(a) <= HourlyBoundary(b)
<1>1. HourlyRetention * SlotsPerHour \in Int
    BY CalendarAssumption, SettingsAssumption
<1> QED  BY <1>1, HourStartCut DEF HourlyBoundary

\* An additive upsert adds one to the rows of its sales and keeps the others.
LEMMA AddTable ==
    ASSUME NEW table \in Table, NEW sales
    PROVE  /\ Add(table, sales) \in Table
           /\ \A s \in Sale : Add(table, sales)[s] = IF s \in sales THEN table[s] + 1 ELSE table[s]
BY DEF Add, Table

\* A replacing upsert yields a table.
LEMMA ReplaceTable ==
    ASSUME NEW table \in Table, NEW sales, NEW slots
    PROVE  Replace(table, sales, slots) \in Table
BY DEF Replace, Table

\* Pruning keeps or deletes rows and changes none.
LEMMA PruneTables ==
    ASSUME NEW tw \in Table, NEW hr \in Table, NEW dy \in Table, PruneInto(tw, hr, dy)
    PROVE  /\ twenty' \in Table /\ hour' \in Table /\ day' \in Table
           /\ \A s \in Sale : (hour'[s] = hr[s] \/ hour'[s] = 0) /\ (day'[s] = dy[s] \/ day'[s] = 0)
BY DEF PruneInto, Table

\* The length of a page of a listing that reaches that far.
LEMMA PageLenType ==
    ASSUME NEW k \in Int, n \in Nat
    PROVE  /\ PageLen(k) \in Int /\ PageLen(k) <= PageSize /\ PageLen(k) <= n - k
           /\ PageLen(k) = PageSize \/ PageLen(k) = n - k
           /\ k <= n => PageLen(k) \in Nat
BY SettingsAssumption DEF PageLen, Lesser

\* What the first layer says of the types.
LEMMA Types ==
    ASSUME PollInv
    PROVE  /\ now \in Nat /\ n \in Nat /\ ckAt \in Nat /\ ckFps \subseteq Sale /\ raw \subseteq Sale
           /\ sold \in Table /\ hour \in Table /\ day \in Table /\ compaction.at \in Nat
           /\ \A s \in Sale : /\ s \in Nat /\ sold[s] \in Nat
                             /\ hour[s] \in Nat /\ day[s] \in Nat
<1>1. /\ now \in Nat /\ n \in 0 .. MaxSales /\ ckAt \in Nat /\ ckFps \subseteq Sale
      /\ raw \subseteq Sale /\ sold \in Table /\ hour \in Table /\ day \in Table
      /\ compaction.at \in Nat
    BY DEF PollInv, TypeOK
<1>2. n \in Nat /\ \A s \in Sale : s \in Nat
    BY <1>1, BoundsAssumption DEF Sale
<1> QED  BY <1>1, <1>2 DEF Table

-----------------------------------------------------------------------------
(* The first layer. *)

\* The initial states satisfy the first layer.
LEMMA PollInit == \A c \in BOOLEAN : InitWith(c) => PollInv
<1> SUFFICES ASSUME NEW c \in BOOLEAN, InitWith(c) PROVE PollInv
    OBVIOUS
<1>1. TypeOK
    BY BoundsAssumption DEF InitWith, TypeOK, Table, NoRows, NoCheckpoint, IdlePoll,
        IdleCompaction, IdleBackfill
<1>2. ListingOrdered
    BY BoundsAssumption DEF InitWith, ListingOrdered, Sale
<1>3. CheckpointListed /\ PollCovers /\ PollFresh
    BY DEF InitWith, CheckpointListed, PollCovers, PollFresh
<1> QED  BY <1>1, <1>2, <1>3 DEF PollInv

\* Steps that keep the listing, the checkpoint and the poll keep what relates them.
LEMMA PollFrame ==
    ASSUME ListingOrdered, CheckpointListed, PollCovers, PollFresh,
           UNCHANGED <<now, n, sold, ckAt, ckFps, phase, poll>>
    PROVE  ListingOrdered' /\ CheckpointListed' /\ PollCovers' /\ PollFresh'
BY DEF ListingOrdered, CheckpointListed, PollCovers, PollFresh

\* Steps that keep the listing and the checkpoint and leave no poll in flight do, too.
LEMMA NoPollFrame ==
    ASSUME ListingOrdered, CheckpointListed,
           UNCHANGED <<now, n, sold, ckAt, ckFps>>, phase' # "paging"
    PROVE  ListingOrdered' /\ CheckpointListed' /\ PollCovers' /\ PollFresh'
BY DEF ListingOrdered, CheckpointListed, PollCovers, PollFresh

\* A new sale is the newest of the listing; the poll in flight ends below it.
LEMMA SellKeepsPollInv == PollInv /\ Sell => PollInv'
<1> SUFFICES ASSUME PollInv, Sell PROVE PollInv'
    OBVIOUS
<1> USE DEF PollInv, Sell
<1>a. /\ n \in 0 .. MaxSales /\ n \in Nat /\ sold \in [Sale -> Nat] /\ now \in Nat
      /\ ckFps \subseteq Sale
    BY BoundsAssumption DEF TypeOK, Table
<1>2. /\ n' = n + 1 /\ n + 1 \in Sale /\ sold' = [sold EXCEPT ![n + 1] = now]
      /\ UNCHANGED <<now, ckAt, ckFps, phase, poll>>
      /\ n \in Nat /\ sold \in [Sale -> Nat] /\ now \in Nat /\ ckFps \subseteq Sale
    BY <1>a, BoundsAssumption DEF Sale, checkpoint, liveTask
<1>b. n' \in 0 .. MaxSales /\ sold' \in Table
    BY <1>2, BoundsAssumption DEF Sale, Table
<1>1. TypeOK'
    BY <1>2, <1>b DEF TypeOK, tables, checkpoint, progress, liveTask, backfillTask
<1>3. \A s \in Sale : s \in Nat
    BY DEF Sale
<1>4. ListingOrdered'
    BY <1>2, <1>3 DEF ListingOrdered
<1>5. CheckpointListed'
    BY <1>2, <1>3 DEF CheckpointListed
<1>6. PollCovers'
    BY <1>2, <1>3, SettingsAssumption DEF PollCovers, TypeOK
<1>7. PollFresh'
    BY <1>2 DEF PollFresh
<1> QED  BY <1>1, <1>4, <1>5, <1>6, <1>7

\* The first page covers the newest PageSize sales.
LEMMA FirstPageKeepsPollInv == PollInv /\ FetchFirstPage => PollInv'
<1> SUFFICES ASSUME PollInv, FetchFirstPage PROVE PollInv'
    OBVIOUS
<1> USE DEF PollInv, FetchFirstPage
<1>1. /\ n \in 0 .. MaxSales /\ n \in Nat /\ ckFps \subseteq Sale
      /\ \A s \in Sale : s \in Nat /\ s >= 1
    BY BoundsAssumption DEF TypeOK, Sale
<1>2. /\ PageLen(0) \in Nat /\ PageLen(0) <= n /\ PageLen(0) <= PageSize
      /\ PageLen(0) = PageSize \/ PageLen(0) = n
    BY <1>1, PageLenType
<1>3. /\ UNCHANGED <<now, n, sold, ckAt, ckFps>>
      /\ poll' = [total |-> n, offset |-> PageLen(0), pages |-> 1, records |-> Page(0)]
      /\ Page(0) = {s \in Sale : n - PageSize < s /\ s <= n}
    BY <1>1, SettingsAssumption DEF upstream, checkpoint, Page
<1>4. TypeOK'
    <2>1. PageLen(0) \in 0 .. MaxSales
        BY <1>1, <1>2, BoundsAssumption
    <2> QED
        BY <1>1, <1>3, <2>1 DEF TypeOK, upstream, tables, checkpoint, progress, backfillTask
<1>5. ListingOrdered' /\ CheckpointListed'
    BY <1>3 DEF ListingOrdered, CheckpointListed
<1>6. PollCovers'
    <2>1. /\ poll'.total = n /\ poll'.offset = PageLen(0) /\ poll'.records = Page(0)
          /\ n' = n
        BY <1>3
    <2>2. \A s \in Sale : n - PageLen(0) < s /\ s <= n => s \in Page(0)
        BY <1>1, <1>2, <1>3, SettingsAssumption
    <2>3. \A s \in Page(0) : s <= n
        BY <1>3
    <2>4. \A s \in Sale, r \in Page(0) : r <= s /\ s <= n => s \in Page(0)
        BY <1>1, <1>3, SettingsAssumption
    <2>5. n <= n + PageSize /\ (n > 0 => n \in Page(0))
        BY <1>1, <1>3, SettingsAssumption, BoundsAssumption DEF Sale
    <2> HIDE DEF FetchFirstPage
    <2> QED  BY <1>1, <1>2, <2>1, <2>2, <2>3, <2>4, <2>5 DEF PollCovers
<1>7. PollFresh'
    BY <1>1, <1>3, SettingsAssumption DEF PollFresh, CheckpointListed
<1> QED  BY <1>4, <1>5, <1>6, <1>7

\* The next page joins what is covered without a hole, and stays above every
\* sale that lies a page below the checkpoint's sales.
LEMMA NextPageKeepsPollInv == PollInv /\ FetchNextPage => PollInv'
<1> SUFFICES ASSUME PollInv, FetchNextPage PROVE PollInv'
    OBVIOUS
<1> USE DEF PollInv, FetchNextPage
<1> DEFINE o == poll.offset
           len == PageLen(o)
           page == Page(o)
<1>1. /\ n \in Nat /\ n <= MaxSales /\ ckFps \subseteq Sale
      /\ \A s \in Sale : s \in Nat /\ s >= 1
      /\ poll \in [total : 0 .. MaxSales, offset : 0 .. MaxSales, pages : Nat,
                   records : SUBSET Sale]
      /\ poll.total \in Nat /\ o \in Nat
    BY BoundsAssumption DEF TypeOK, Sale
<1>2. /\ o <= n /\ o < poll.total /\ o >= PageSize
      /\ poll.total <= n /\ n <= poll.total + PageSize
    BY <1>1 DEF PollCovers, WantsMorePages
<1>3. len \in Nat /\ len <= n - o /\ len <= PageSize /\ (len = PageSize \/ len = n - o)
    BY <1>1, <1>2, PageLenType
<1>4. /\ UNCHANGED <<now, n, sold, ckAt, ckFps, phase>> /\ phase = "paging"
      /\ poll' = [total |-> poll.total, offset |-> o + len, pages |-> poll.pages + 1,
                  records |-> poll.records \cup page]
    BY DEF upstream, checkpoint, PollOffset
<1>5. page = {s \in Sale : n - o - PageSize < s /\ s <= n - o}
    BY DEF Page
<1>6. /\ poll'.total = poll.total /\ poll'.offset = o + len
      /\ poll'.records = poll.records \cup page
      /\ poll' \in [total : 0 .. MaxSales, offset : 0 .. MaxSales, pages : Nat,
                    records : SUBSET Sale]
    <2> HIDE DEF o, len, page
    <2>1. o + len \in 0 .. MaxSales
        BY <1>1, <1>3, BoundsAssumption
    <2> QED  BY <1>1, <1>4, <1>5, <2>1
<1>7. TypeOK'
    BY <1>4, <1>6 DEF TypeOK, upstream, tables, checkpoint, progress, backfillTask
<1>8. ListingOrdered' /\ CheckpointListed'
    BY <1>4 DEF ListingOrdered, CheckpointListed
<1>9. \A s \in page : s <= poll.total
    BY <1>1, <1>2, <1>5, SettingsAssumption
<1>10. \A s \in Sale : n - o < s /\ s <= poll.total => s \in poll.records
    BY <1>4 DEF PollCovers
<1>11. PollCovers'
    <2> HIDE DEF o, len, page
    <2>1. \A s \in poll'.records : s <= poll'.total
        BY <1>4, <1>6, <1>9 DEF PollCovers
    <2>2. \A s \in Sale : n - (o + len) < s /\ s <= poll.total => s \in poll'.records
        <3>1. TAKE s \in Sale
        <3>2. HAVE n - (o + len) < s /\ s <= poll.total
        <3>3. CASE n - o < s
            BY <1>6, <1>10, <3>2, <3>3
        <3>4. CASE s <= n - o
            <4>1. n - o - PageSize < s
                BY <1>1, <1>3, <3>2, SettingsAssumption
            <4> QED  BY <1>5, <1>6, <3>4, <4>1
        <3> QED  BY <1>1, <3>3, <3>4
    <2>3. \A s \in Sale, r \in page : r <= s /\ s <= poll.total => s \in poll'.records
        BY <1>1, <1>5, <1>6, <1>10, SettingsAssumption
    <2>4. \A s \in Sale, r \in poll.records : r <= s /\ s <= poll.total => s \in poll'.records
        BY <1>4, <1>6 DEF PollCovers
    <2>5. /\ o + len <= n /\ o + len >= PageSize
        BY <1>1, <1>2, <1>3, SettingsAssumption
    <2>6. poll.total > 0 => poll.total \in poll'.records
        BY <1>4, <1>6 DEF PollCovers
    <2> QED  BY <1>2, <1>4, <1>6, <2>1, <2>2, <2>3, <2>4, <2>5, <2>6 DEF PollCovers
<1>12. ASSUME NEW t \in ckFps, NEW s \in page  PROVE s + PageSize > t
    <2>1. sold[t] = ckAt /\ t \in Sale /\ t \in Nat /\ t <= poll.total
        BY <1>1, <1>4 DEF CheckpointListed, PollFresh
    <2>2. t \notin poll.records
        BY <2>1, <1>1 DEF WantsMorePages, TypeOK
    <2>3. t <= n - o
        BY <1>1, <1>10, <2>1, <2>2
    <2>4. s \in Sale /\ s \in Nat /\ n - o - PageSize < s
        BY <1>1, <1>5
    <2> HIDE DEF o, page
    <2> QED  BY <1>1, <2>1, <2>3, <2>4, SettingsAssumption
<1>13. PollFresh'
    <2> HIDE DEF o, len, page
    <2> QED  BY <1>4, <1>6, <1>12 DEF PollFresh
<1> QED  BY <1>7, <1>8, <1>11, <1>13

\* A moment later the listing is what it was.
LEMMA TickKeepsPollInv == PollInv /\ Tick => PollInv'
<1> SUFFICES ASSUME PollInv, Tick PROVE PollInv'
    OBVIOUS
<1> USE DEF PollInv, Tick
<1>1. /\ now' = now + 1 /\ UNCHANGED <<n, sold, ckAt, ckFps, phase, poll>>
    BY DEF checkpoint, liveTask
<1>2. TypeOK'
    BY <1>1 DEF TypeOK, tables, checkpoint, progress, liveTask, backfillTask
<1>3. ListingOrdered'
    BY <1>1 DEF ListingOrdered, TypeOK, Table
<1>4. CheckpointListed' /\ PollCovers' /\ PollFresh'
    BY <1>1 DEF CheckpointListed, PollCovers, PollFresh
<1> QED  BY <1>2, <1>3, <1>4

\* The checkpoint a poll saves is a moment of the listing, with sales of it.
LEMMA SaveKeepsPollInv == PollInv /\ SavePoll => PollInv'
<1> SUFFICES ASSUME PollInv, SavePoll PROVE PollInv'
    OBVIOUS
<1> USE DEF PollInv, SavePoll
<1>1. /\ poll.total \in 0 .. MaxSales /\ poll.total <= n /\ n \in Nat /\ n <= MaxSales
      /\ ckAt \in Nat /\ ckFps \subseteq Sale /\ sold \in [Sale -> Nat]
      /\ poll.records \subseteq Sale
    BY BoundsAssumption DEF TypeOK, PollCovers, Table
<1>2. poll.total # 0 => poll.total \in Sale /\ Newest \in Nat
    BY <1>1, BoundsAssumption DEF Sale, Newest
<1>3. NewestFps \subseteq Sale /\ \A t \in NewestFps : t <= n /\ sold[t] = Newest
    BY <1>1, BoundsAssumption DEF NewestFps, FirstPage, Sale
<1>4. /\ UNCHANGED <<now, n, sold>> /\ phase' = "idle"
    BY DEF upstream
<1>5. ckAt' \in Nat /\ ckFps' \subseteq Sale /\ \A t \in ckFps' : t <= n /\ sold[t] = ckAt'
    <2>1. CASE poll.total = 0
        BY <1>1, <2>1 DEF checkpoint, CheckpointListed
    <2>2. CASE poll.total # 0
        <3>1. ckAt' = Greater(ckAt, Newest)
            BY <2>2
        <3>2. CASE Newest > ckAt
            BY <1>1, <1>2, <1>3, <2>2, <3>1, <3>2 DEF Greater
        <3>3. CASE Newest = ckAt
            BY <1>1, <1>2, <1>3, <2>2, <3>1, <3>3 DEF Greater, CheckpointListed
        <3>4. CASE Newest < ckAt
            BY <1>1, <1>2, <1>3, <2>2, <3>1, <3>4 DEF Greater, CheckpointListed
        <3> QED  BY <1>1, <1>2, <2>2, <3>2, <3>3, <3>4
    <2> QED  BY <2>1, <2>2
<1>6. TypeOK'
    <2>1. raw' \subseteq Sale
        BY <1>1 DEF TypeOK, NewRecords
    <2>2. hour' \in Table
        BY AddTable DEF TypeOK
    <2>3. poll' \in [total : 0 .. MaxSales, offset : 0 .. MaxSales, pages : Nat,
                     records : SUBSET Sale]
        BY BoundsAssumption DEF IdlePoll
    <2> QED  BY <1>4, <1>5, <2>1, <2>2, <2>3 DEF TypeOK, progress, backfillTask, upstream
<1>7. ListingOrdered' /\ CheckpointListed' /\ PollCovers' /\ PollFresh'
    BY <1>4, <1>5 DEF ListingOrdered, CheckpointListed, PollCovers, PollFresh
<1> QED  BY <1>6, <1>7

\* A poll that fails leaves nothing behind.
LEMMA FailKeepsPollInv == PollInv /\ FailPoll => PollInv'
<1> SUFFICES ASSUME PollInv, FailPoll PROVE PollInv'
    OBVIOUS
<1> USE DEF PollInv, FailPoll
<1>1. poll' \in [total : 0 .. MaxSales, offset : 0 .. MaxSales, pages : Nat,
                 records : SUBSET Sale]
    BY BoundsAssumption DEF IdlePoll
<1>2. TypeOK'
    BY <1>1 DEF TypeOK, upstream, tables, checkpoint, progress, backfillTask
<1> QED  BY <1>2, NoPollFrame DEF upstream, checkpoint

\* Compaction begins by reading; it writes tables and nothing a poll looks at.
LEMMA CompactionKeepsPollInv ==
    PollInv /\ (BeginCompaction \/ CommitCompaction) => PollInv'
<1> SUFFICES ASSUME PollInv, BeginCompaction \/ CommitCompaction PROVE PollInv'
    OBVIOUS
<1> USE DEF PollInv
<1>1. UNCHANGED <<now, n, sold, ckAt, ckFps>> /\ phase' # "paging"
    BY DEF BeginCompaction, CommitCompaction, upstream, checkpoint
<1>2. CASE BeginCompaction
    <2>1. compaction' \in [at : Nat, groups : Table]
        BY <1>2 DEF BeginCompaction, TypeOK, Table
    <2> QED  BY <1>1, <1>2, <2>1, NoPollFrame
            DEF BeginCompaction, TypeOK, upstream, tables, checkpoint, progress, backfillTask
<1>3. CASE CommitCompaction
    <2>1. compaction' \in [at : Nat, groups : Table]
        BY <1>3 DEF CommitCompaction, IdleCompaction, NoRows, Table
    <2> DEFINE boundary == RawBoundary(compaction.at)
               kept == {s \in raw : sold[s] >= boundary}
    <2>a. PICK overflow \in RawOverflows(kept) :
            /\ raw' = kept \ overflow
            /\ PruneInto([s \in Sale |-> IF sold[s] < boundary THEN 0
                                                             ELSE Add(twenty, overflow)[s]],
                         [s \in Sale |-> IF s \in OldHours(compaction.at) THEN 0 ELSE hour[s]],
                         [s \in Sale |-> day[s] + compaction.groups[s]])
        BY <1>3 DEF CommitCompaction
    <2> DEFINE grown == Add(twenty, overflow)
               tw == [s \in Sale |-> IF sold[s] < boundary THEN 0 ELSE grown[s]]
               hr == [s \in Sale |-> IF s \in OldHours(compaction.at) THEN 0 ELSE hour[s]]
               dy == [s \in Sale |-> day[s] + compaction.groups[s]]
    <2>2. tw \in Table /\ hr \in Table /\ dy \in Table
        <3>1. grown \in Table
            BY AddTable DEF TypeOK
        <3>2. tw \in Table
            <4> HIDE DEF grown, boundary
            <4> QED  BY <3>1 DEF Table
        <3>3. hr \in Table
            BY DEF TypeOK, Table
        <3>4. dy \in Table
            BY DEF TypeOK, Table
        <3> QED  BY <3>2, <3>3, <3>4
    <2>3. PruneInto(tw, hr, dy) /\ raw' \subseteq raw
        BY <2>a
    <2>4. twenty' \in Table /\ hour' \in Table /\ day' \in Table
        <3> HIDE DEF tw, hr, dy
        <3> QED  BY <2>2, <2>3, PruneTables
    <2>5. TypeOK'
        BY <1>3, <2>1, <2>3, <2>4
            DEF CommitCompaction, TypeOK, upstream, checkpoint, progress, backfillTask
    <2> QED  BY <1>1, <2>5, NoPollFrame
<1> QED  BY <1>2, <1>3

\* A restart drops what is in flight.
LEMMA RestartKeepsPollInv == PollInv /\ Restart => PollInv'
<1> SUFFICES ASSUME PollInv, Restart PROVE PollInv'
    OBVIOUS
<1> USE DEF PollInv, Restart
<1>1. /\ poll' \in [total : 0 .. MaxSales, offset : 0 .. MaxSales, pages : Nat,
                    records : SUBSET Sale]
      /\ compaction' \in [at : Nat, groups : Table]
      /\ bf' \in [boundary : Int, offset : Int, processed : Nat, total : Nat,
                  records : SUBSET Sale, ended : BOOLEAN, at : Nat]
    BY BoundsAssumption DEF IdlePoll, IdleCompaction, IdleBackfill, NoRows, Table
<1>2. TypeOK'
    BY <1>1 DEF TypeOK, upstream, tables, checkpoint, progress
<1> QED  BY <1>2, NoPollFrame DEF upstream, checkpoint

\* The backfill task writes aggregate rows and its own progress only.
LEMMA BackfillKeepsPollInv == PollInv /\ BackfillNext => PollInv'
<1> SUFFICES ASSUME PollInv, BackfillNext PROVE PollInv'
    OBVIOUS
<1> USE DEF PollInv, BackfillNext
<1>1. UNCHANGED <<now, n, sold, ckAt, ckFps, phase, poll>>
    BY DEF ClaimBackfill, FetchBackfillPage, SaveBackfill, FailBackfill,
        upstream, checkpoint, liveTask
<1>2. n \in Nat /\ now \in Nat /\ bfOffset \in Nat
    BY BoundsAssumption DEF TypeOK
<1> DEFINE Download == [boundary : Int, offset : Int, processed : Nat, total : Nat,
                        records : SUBSET Sale, ended : BOOLEAN, at : Nat]
<1>3. CASE ClaimBackfill
    <2>1. RawBoundary(now) \in Int /\ Greater(0, bfOffset - Overlap) \in Int
        BY <1>2, RawBoundaryType, MinMax, SettingsAssumption
    <2>2. bf' \in Download
        BY <1>2, <1>3, <2>1 DEF ClaimBackfill
    <2>3. TypeOK'
        BY <1>3, <2>2 DEF ClaimBackfill, TypeOK, upstream, tables, checkpoint, progress, liveTask
    <2> QED  BY <1>1, <2>3, PollFrame
<1>4. CASE FetchBackfillPage
    <2> DEFINE len == PageLen(bf.offset)
               total == Greater(bf.total, n)
               processed == Lesser(total, Greater(bf.processed, bf.offset + len))
               records == bf.records \cup {s \in Page(bf.offset) : sold[s] < bf.boundary}
               ended == len = 0 \/ processed >= total
    <2>1. bf \in Download
        BY DEF TypeOK
    <2>2. len \in Int /\ bf.offset \in Int
        BY <1>2, <2>1, PageLenType
    <2>3. total \in Nat
        BY <1>2, <2>1 DEF Greater
    <2>4. processed \in Nat
        <3> HIDE DEF len, total
        <3>1. Greater(bf.processed, bf.offset + len) \in Nat
            BY <2>1, <2>2 DEF Greater
        <3> QED  BY <2>3, <3>1 DEF Lesser
    <2>5. records \in SUBSET Sale
        BY <2>1 DEF Page
    <2>6. NextOffset(bf.offset, len) \in Int
        <3> HIDE DEF len
        <3> QED  BY <2>2, SettingsAssumption DEF NextOffset, PageOverlap, Lesser, Greater
    <2>7. ExcludePartialOldestHour(records, ended) \in SUBSET Sale
        <3> HIDE DEF records, ended
        <3> QED  BY <2>5 DEF ExcludePartialOldestHour
    <2>8. \E stop \in BOOLEAN :
            /\ bf' = [boundary |-> bf.boundary,
                      offset |-> IF stop THEN bf.offset ELSE NextOffset(bf.offset, len),
                      processed |-> processed,
                      total |-> total,
                      records |-> IF stop THEN ExcludePartialOldestHour(records, ended)
                                          ELSE records,
                      ended |-> ended,
                      at |-> IF stop THEN now ELSE 0]
            /\ bfPhase' \in {"saving", "downloading"}
        BY <1>4 DEF FetchBackfillPage
    <2>9. bf' \in Download
        <3> ended \in BOOLEAN  OBVIOUS
        <3> HIDE DEF len, total, processed, records, ended
        <3> QED  BY <1>2, <2>1, <2>2, <2>3, <2>4, <2>5, <2>6, <2>7, <2>8
    <2>10. TypeOK'
        <3> HIDE DEF len, total, processed, records, ended
        <3> QED  BY <1>4, <2>8, <2>9
                DEF FetchBackfillPage, TypeOK, upstream, tables, checkpoint, progress, liveTask
    <2> QED  BY <1>1, <2>10, PollFrame
<1>5. CASE SaveBackfill
    <2>1. bf' \in Download
        BY <1>5 DEF SaveBackfill, IdleBackfill
    <2>2. /\ Replace(hour, HourlyRecords, SlotsPerHour) \in Table
          /\ Replace(day, DailyRecords, SlotsPerHour * HoursPerDay) \in Table
        BY ReplaceTable DEF TypeOK
    <2>3. PruneInto(twenty, Replace(hour, HourlyRecords, SlotsPerHour),
                            Replace(day, DailyRecords, SlotsPerHour * HoursPerDay))
        BY <1>5 DEF SaveBackfill
    <2>4. twenty' \in Table /\ hour' \in Table /\ day' \in Table
        BY <2>2, <2>3, PruneTables DEF TypeOK
    <2>5. bfOffset' \in Nat /\ bfComplete' \in BOOLEAN
        BY <1>5 DEF SaveBackfill, TypeOK
    <2>6. TypeOK'
        BY <1>5, <2>1, <2>4, <2>5 DEF SaveBackfill, TypeOK, upstream, checkpoint, liveTask
    <2> QED  BY <1>1, <2>6, PollFrame
<1>6. CASE FailBackfill
    <2>1. bf' \in Download
        BY <1>6 DEF FailBackfill, IdleBackfill
    <2>2. TypeOK'
        BY <1>6, <2>1 DEF FailBackfill, TypeOK, upstream, tables, checkpoint, progress, liveTask
    <2> QED  BY <1>1, <2>2, PollFrame
<1> QED  BY <1>3, <1>4, <1>5, <1>6

\* A step that changes no variable.
LEMMA StutterKeepsPollInv == PollInv /\ UNCHANGED vars => PollInv'
<1> SUFFICES ASSUME PollInv, UNCHANGED vars PROVE PollInv'
    OBVIOUS
<1>1. UNCHANGED <<now, n, sold, ckAt, ckFps, phase, poll>>
    BY DEF vars, upstream, checkpoint, liveTask
<1>2. TypeOK'
    BY DEF PollInv, TypeOK, vars, upstream, tables, checkpoint, progress, liveTask, backfillTask
<1> QED  BY <1>1, <1>2, PollFrame DEF PollInv

\* The first layer is inductive under the whole next-state relation.
LEMMA PollStep == PollInv /\ [Next]_vars => PollInv'
<1> SUFFICES ASSUME PollInv, [Next]_vars PROVE PollInv'
    OBVIOUS
<1> QED
    BY SellKeepsPollInv, TickKeepsPollInv, FirstPageKeepsPollInv, NextPageKeepsPollInv,
       SaveKeepsPollInv, FailKeepsPollInv, CompactionKeepsPollInv, RestartKeepsPollInv,
       BackfillKeepsPollInv, StutterKeepsPollInv
    DEF Next, LiveNext

\* The variables of the collector keep their types: the live loop, the
\* compaction, the backfill task and restarts interleaved in any way.
THEOREM TypeCorrect == Spec => []TypeOK
<1>1. Init => PollInv
    BY PollInit DEF Init
<1>2. PollInv /\ [Next]_vars => PollInv'
    BY PollStep
<1>3. PollInv => TypeOK
    BY DEF PollInv
<1> QED  BY <1>1, <1>2, <1>3, PTL DEF Spec

\* The live loop alone keeps the first layer.
LEMMA LivePollInv == LiveSpec => []PollInv
<1>1. LiveInit => PollInv
    BY PollInit DEF LiveInit
<1>2. PollInv /\ [LiveNext]_vars => PollInv'
    BY PollStep DEF Next
<1> QED  BY <1>1, <1>2, PTL DEF LiveSpec

-----------------------------------------------------------------------------
(* The second layer. *)

\* Nothing is stored at the start.
LEMMA CountInit == LiveInit => CountInv
BY DEF LiveInit, InitWith, CountInv, StoredIsPassed, GroupsCurrent, CountedAtMostOnce, NoRows

\* What a poll lets through is listed, and the checkpoint has not passed it.
LEMMA NewRecordsAreListed ==
    ASSUME PollInv, phase = "paging", NEW s \in NewRecords
    PROVE  s \in Sale /\ s <= n /\ ~Passed(s)
<1>1. s \in Sale /\ s \in poll.records
    BY DEF NewRecords, PollInv, TypeOK
<1>2. s <= poll.total /\ poll.total <= n
    BY <1>1 DEF PollInv, PollCovers
<1>3. s \in Nat /\ n \in Nat /\ poll.total \in Nat /\ sold[s] \in Nat /\ ckAt \in Nat
      /\ ckFps \subseteq Sale
    BY <1>1, BoundsAssumption DEF PollInv, TypeOK, Sale, Table
<1>4. ~Passed(s)
    <2>1. \A t \in ckFps : t \in Nat /\ s + PageSize > t
        BY <1>1, <1>3, BoundsAssumption DEF PollInv, PollFresh, Sale
    <2>2. ckAt = NoCheckpoint \/ sold[s] > ckAt \/ (sold[s] = ckAt /\ s \notin ckFps)
        BY DEF NewRecords
    <2> QED  BY <1>3, <2>1, <2>2, SettingsAssumption DEF Passed
<1> QED  BY <1>1, <1>2, <1>3, <1>4

\* What a poll lets through has never been stored.
LEMMA NewRecordsAreNew ==
    ASSUME PollInv, StoredIsPassed, phase = "paging", NEW s \in NewRecords
    PROVE  s \in Sale /\ s <= n /\ ~Passed(s) /\ hour[s] = 0 /\ day[s] = 0
<1>1. s \in Sale /\ s <= n /\ ~Passed(s)
    BY NewRecordsAreListed
<1>2. hour[s] \in Nat /\ day[s] \in Nat
    BY <1>1 DEF PollInv, TypeOK, Table
<1>3. ~(hour[s] + day[s] > 0)
    BY <1>1 DEF StoredIsPassed
<1> QED  BY <1>1, <1>2, <1>3

\* What a poll saves is passed by the checkpoint it saves; what was passed stays so.
LEMMA SavePasses ==
    ASSUME PollInv, SavePoll, NEW s \in Sale, s <= n, Passed(s) \/ s \in NewRecords
    PROVE  Passed(s)'
<1>1. /\ sold \in [Sale -> Nat] /\ ckAt \in Nat /\ n \in Nat /\ ckFps \subseteq Sale
      /\ poll.records \subseteq Sale /\ s \in Nat /\ s >= 1 /\ sold[s] \in Nat
    <2>1. /\ sold \in [Sale -> Nat] /\ ckAt \in Nat /\ n \in 0 .. MaxSales
          /\ ckFps \subseteq Sale
        BY DEF PollInv, TypeOK, Table
    <2>2. poll.records \subseteq Sale
        BY DEF PollInv, TypeOK
    <2>3. s \in Nat /\ s >= 1 /\ n \in Nat
        BY <2>1, BoundsAssumption DEF Sale
    <2>4. sold[s] \in Nat
        BY <2>1
    <2> QED  BY <2>1, <2>2, <2>3, <2>4
<1>2. UNCHANGED <<sold, n>>
    BY DEF SavePoll, upstream
<1>3. CASE poll.total = 0
    <2>1. poll.records = {}
        BY <1>1, <1>3, BoundsAssumption DEF PollInv, PollCovers, SavePoll, Sale
    <2>2. UNCHANGED <<ckAt, ckFps>> /\ s \notin NewRecords
        BY <1>3, <2>1 DEF SavePoll, checkpoint, NewRecords
    <2> QED  BY <1>2, <2>2 DEF Passed
<1>4. CASE poll.total # 0
    <2>1. /\ poll.total \in Sale /\ poll.total \in Nat /\ poll.total <= n
          /\ Newest = sold[poll.total] /\ Newest \in Nat /\ Newest >= 1
        BY <1>1, <1>4, BoundsAssumption
            DEF PollInv, PollCovers, SavePoll, Newest, Sale, TypeOK, ListingOrdered
    <2>2. /\ ckAt' = Greater(ckAt, Newest)
          /\ ckFps' = IF Newest > ckAt THEN NewestFps
                      ELSE IF Newest = ckAt THEN ckFps \cup NewestFps
                      ELSE ckFps
        BY <1>4 DEF SavePoll
    <2>3. poll.total \in NewestFps
        BY <2>1, SettingsAssumption DEF NewestFps, FirstPage
    <2>4. CASE s \in NewRecords
        <3>1. s <= poll.total /\ sold[s] <= Newest
            BY <1>1, <2>1, <2>4 DEF NewRecords, SavePoll, PollInv, PollCovers, ListingOrdered
        <3>2. sold[s] >= ckAt
            BY <1>1, <2>4 DEF NewRecords, NoCheckpoint
        <3>3. ckAt' = Newest /\ Newest # NoCheckpoint /\ NewestFps \subseteq ckFps'
            BY <1>1, <2>1, <2>2, <3>1, <3>2 DEF Greater, NoCheckpoint
        <3>4. CASE sold[s] < Newest
            BY <1>2, <3>3, <3>4 DEF Passed
        <3>5. CASE sold[s] = Newest /\ s + PageSize <= poll.total
            BY <1>2, <2>3, <3>3, <3>5 DEF Passed
        <3>6. CASE sold[s] = Newest /\ poll.total - PageSize < s
            <4>1. s \in NewestFps
                BY <3>1, <3>6 DEF NewestFps, FirstPage
            <4> QED  BY <1>2, <3>3, <3>6, <4>1 DEF Passed
        <3>7. s + PageSize <= poll.total \/ poll.total - PageSize < s
            BY <1>1, <2>1, SettingsAssumption
        <3> QED  BY <1>1, <2>1, <3>1, <3>4, <3>5, <3>6, <3>7
    <2>5. CASE Passed(s)
        <3>1. CASE Newest > ckAt
            BY <1>1, <1>2, <2>1, <2>2, <2>5, <3>1 DEF Passed, Greater, NoCheckpoint
        <3>2. CASE Newest = ckAt
            BY <1>1, <1>2, <2>1, <2>2, <2>5, <3>2 DEF Passed, Greater, NoCheckpoint
        <3>3. CASE Newest < ckAt
            BY <1>1, <1>2, <2>1, <2>2, <2>5, <3>3 DEF Passed, Greater, NoCheckpoint
        <3> QED  BY <1>1, <2>1, <3>1, <3>2, <3>3
    <2> QED  BY <2>4, <2>5
<1> QED  BY <1>3, <1>4

\* Steps that keep the stored rows, the old sales and the checkpoint keep the layer.
LEMMA CountFrame ==
    ASSUME CountInv,
           UNCHANGED <<n, sold, ckAt, ckFps, hour, day, compaction>>,
           phase' = phase \/ phase' # "compacting"
    PROVE  CountInv'
BY DEF CountInv, StoredIsPassed, Passed, GroupsCurrent, OldHours, CountedAtMostOnce,
    HourStart, HourlyBoundary

\* A new sale is not stored yet.
LEMMA SellKeepsCountInv == PollInv /\ CountInv /\ Sell => CountInv'
<1> SUFFICES ASSUME PollInv, CountInv, Sell PROVE CountInv'
    OBVIOUS
<1>1. /\ n \in Nat /\ sold \in [Sale -> Nat] /\ n' = n + 1 /\ n + 1 \in Sale
      /\ sold' = [sold EXCEPT ![n + 1] = now]
      /\ UNCHANGED <<ckAt, ckFps, hour, day, phase, compaction>>
      /\ \A s \in Sale : s \in Nat /\ hour[s] \in Nat /\ day[s] \in Nat
    <2>1. n \in Nat /\ n <= MaxSales /\ n' = n + 1 /\ n < MaxSales
        BY BoundsAssumption DEF PollInv, TypeOK, Sell
    <2>2. n + 1 \in Sale
        BY <2>1, BoundsAssumption DEF Sale
    <2>3. \A s \in Sale : s \in Nat /\ hour[s] \in Nat /\ day[s] \in Nat
        BY BoundsAssumption DEF PollInv, TypeOK, Table, Sale
    <2> QED  BY <2>1, <2>2, <2>3
            DEF PollInv, TypeOK, Table, Sell, checkpoint, tables, liveTask
<1>2. hour[n + 1] = 0 /\ day[n + 1] = 0
    BY <1>1 DEF CountInv, StoredIsPassed
<1>3. \A s \in Sale : s # n + 1 => sold'[s] = sold[s]
    BY <1>1
<1>4. StoredIsPassed'
    BY <1>1, <1>2, <1>3 DEF CountInv, StoredIsPassed, Passed
<1>5. GroupsCurrent'
    <2>1. \A s \in Sale : s # n + 1 =>
              (s \in OldHours(compaction.at) <=> s \in OldHours(compaction.at)')
        BY <1>1, <1>3 DEF OldHours, HourStart, HourlyBoundary
    <2> QED  BY <1>1, <1>2, <2>1 DEF CountInv, GroupsCurrent
<1>6. CountedAtMostOnce'
    BY <1>1 DEF CountInv, CountedAtMostOnce
<1> QED  BY <1>4, <1>5, <1>6 DEF CountInv

\* A saved poll counts each of its new sales once, and the checkpoint passes them.
LEMMA SaveKeepsCountInv == PollInv /\ CountInv /\ SavePoll => CountInv'
<1> SUFFICES ASSUME PollInv, CountInv, SavePoll PROVE CountInv'
    OBVIOUS
<1> DEFINE inserted == NewRecords \ raw
<1>1. /\ hour \in Table /\ day \in Table /\ hour' = Add(hour, inserted)
      /\ day' = day /\ n' = n /\ phase' = "idle" /\ phase = "paging"
    BY DEF PollInv, TypeOK, SavePoll, upstream
<1>2. \A s \in Sale : /\ hour'[s] = IF s \in inserted THEN hour[s] + 1 ELSE hour[s]
                      /\ hour[s] \in Nat /\ day[s] \in Nat
    BY <1>1, AddTable DEF Table
<1>3. \A s \in inserted : s <= n /\ hour[s] = 0 /\ day[s] = 0
    BY <1>1, NewRecordsAreNew DEF CountInv
<1>4. StoredIsPassed'
    <2> SUFFICES ASSUME NEW s \in Sale, hour'[s] + day'[s] > 0
                 PROVE  s <= n' /\ Passed(s)'
        BY DEF StoredIsPassed
    <2>1. s <= n /\ (Passed(s) \/ s \in NewRecords)
        BY <1>1, <1>2, <1>3 DEF CountInv, StoredIsPassed
    <2> QED  BY <1>1, <2>1, SavePasses
<1>5. GroupsCurrent'
    BY <1>1 DEF GroupsCurrent
<1>6. CountedAtMostOnce'
    <2> SUFFICES ASSUME NEW s \in Sale PROVE hour'[s] + day'[s] <= 1
        BY DEF CountedAtMostOnce
    <2>1. hour[s] + day[s] <= 1 /\ hour[s] \in Nat /\ day[s] \in Nat /\ day'[s] = day[s]
        BY <1>1, <1>2 DEF CountInv, CountedAtMostOnce
    <2>2. CASE s \in inserted
        BY <1>2, <1>3, <2>1, <2>2
    <2>3. CASE s \notin inserted
        BY <1>2, <2>1, <2>3
    <2> QED  BY <2>2, <2>3
<1> QED  BY <1>4, <1>5, <1>6 DEF CountInv

\* Compaction moves what an hourly row counts to its day, or drops it.
LEMMA CommitMoves ==
    ASSUME PollInv, CountInv, CommitCompaction, NEW s \in Sale
    PROVE  /\ hour'[s] \in Nat /\ day'[s] \in Nat /\ hour[s] \in Nat /\ day[s] \in Nat
           /\ hour'[s] + day'[s] <= hour[s] + day[s]
           /\ day'[s] > 0 => day[s] > 0 \/ s \in OldHours(compaction.at)
<1> DEFINE boundary == RawBoundary(compaction.at)
           kept == {x \in raw : sold[x] >= boundary}
<1>a. PICK overflow \in RawOverflows(kept) :
        PruneInto([x \in Sale |-> IF sold[x] < boundary THEN 0 ELSE Add(twenty, overflow)[x]],
                  [x \in Sale |-> IF x \in OldHours(compaction.at) THEN 0 ELSE hour[x]],
                  [x \in Sale |-> day[x] + compaction.groups[x]])
    BY DEF CommitCompaction
<1> DEFINE grown == Add(twenty, overflow)
           tw == [x \in Sale |-> IF sold[x] < boundary THEN 0 ELSE grown[x]]
           hr == [x \in Sale |-> IF x \in OldHours(compaction.at) THEN 0 ELSE hour[x]]
           dy == [x \in Sale |-> day[x] + compaction.groups[x]]
<1>1. hour \in Table /\ day \in Table /\ compaction.groups \in Table /\ phase = "compacting"
    BY DEF PollInv, TypeOK, CommitCompaction
<1>2. tw \in Table /\ hr \in Table /\ dy \in Table
    <2>1. grown \in Table
        BY AddTable DEF PollInv, TypeOK
    <2>2. tw \in Table
        <3> HIDE DEF grown, boundary
        <3> QED  BY <2>1 DEF Table
    <2>3. hr \in Table /\ dy \in Table
        BY <1>1 DEF Table
    <2> QED  BY <2>2, <2>3
<1>3. PruneInto(tw, hr, dy)
    BY <1>a
<1>4. \A x \in Sale : (hour'[x] = hr[x] \/ hour'[x] = 0) /\ (day'[x] = dy[x] \/ day'[x] = 0)
    <2> HIDE DEF tw, hr, dy
    <2> QED  BY <1>2, <1>3, PruneTables
<1>5. \A x \in Sale : hr[x] + dy[x] = hour[x] + day[x] /\ hr[x] \in Nat /\ dy[x] \in Nat
    BY <1>1 DEF CountInv, GroupsCurrent, Table
<1>6. \A x \in Sale : hour'[x] + day'[x] <= hour[x] + day[x]
    <2> HIDE DEF hr, dy
    <2>1. \A x \in Sale : hour[x] \in Nat /\ day[x] \in Nat
        BY <1>1 DEF Table
    <2> QED  BY <1>4, <1>5, <2>1
<1>7. \A x \in Sale : hour'[x] \in Nat /\ day'[x] \in Nat /\ hour[x] \in Nat /\ day[x] \in Nat
    <2> HIDE DEF hr, dy
    <2> QED  BY <1>1, <1>4, <1>5 DEF Table
<1>8. day'[s] > 0 => day[s] > 0 \/ s \in OldHours(compaction.at)
    <2>1. dy[s] = day[s] + compaction.groups[s] /\ day'[s] \in {dy[s], 0}
        BY <1>4
    <2>2. s \in OldHours(compaction.at) \/ compaction.groups[s] = 0
        BY <1>1 DEF CountInv, GroupsCurrent
    <2> QED  BY <1>7, <2>1, <2>2
<1> QED  BY <1>6, <1>7, <1>8

\* Compaction keeps the layer.
LEMMA CommitKeepsCountInv == PollInv /\ CountInv /\ CommitCompaction => CountInv'
<1> SUFFICES ASSUME PollInv, CountInv, CommitCompaction PROVE CountInv'
    OBVIOUS
<1>1. UNCHANGED <<n, sold, ckAt, ckFps>> /\ phase' = "idle"
    BY DEF CommitCompaction, upstream, checkpoint
<1>2. \A s \in Sale : /\ hour'[s] \in Nat /\ day'[s] \in Nat /\ hour[s] \in Nat /\ day[s] \in Nat
                      /\ hour'[s] + day'[s] <= hour[s] + day[s]
    BY CommitMoves
<1>3. StoredIsPassed'
    <2> SUFFICES ASSUME NEW s \in Sale, hour'[s] + day'[s] > 0
                 PROVE  s <= n' /\ Passed(s)'
        BY DEF StoredIsPassed
    <2>1. s <= n /\ Passed(s)
        BY <1>2 DEF CountInv, StoredIsPassed
    <2> QED  BY <1>1, <2>1 DEF Passed
<1>4. GroupsCurrent'
    BY <1>1 DEF GroupsCurrent
<1>5. CountedAtMostOnce'
    BY <1>2 DEF CountInv, CountedAtMostOnce
<1> QED  BY <1>3, <1>4, <1>5 DEF CountInv

\* The second layer is inductive under the live loop, given the first.
LEMMA CountStep == PollInv /\ CountInv /\ [LiveNext]_vars => CountInv'
<1> SUFFICES ASSUME PollInv, CountInv, [LiveNext]_vars PROVE CountInv'
    OBVIOUS
<1>1. CASE Sell
    BY <1>1, SellKeepsCountInv
<1>2. CASE Tick
    BY <1>2, CountFrame DEF Tick, tables, checkpoint, liveTask
<1>3. CASE FetchFirstPage
    BY <1>3, CountFrame DEF FetchFirstPage, upstream, tables, checkpoint
<1>4. CASE FetchNextPage
    BY <1>4, CountFrame DEF FetchNextPage, upstream, tables, checkpoint
<1>5. CASE SavePoll
    BY <1>5, SaveKeepsCountInv
<1>6. CASE FailPoll
    BY <1>6, CountFrame DEF FailPoll, upstream, tables, checkpoint
<1>7. CASE BeginCompaction
    <2>1. UNCHANGED <<n, sold, ckAt, ckFps, hour, day>>
        BY <1>7 DEF BeginCompaction, upstream, tables, checkpoint
    <2>2. StoredIsPassed' /\ CountedAtMostOnce'
        BY <2>1 DEF CountInv, StoredIsPassed, Passed, CountedAtMostOnce
    <2>3. /\ compaction'.at = now
          /\ \A s \in Sale :
                compaction'.groups[s] = IF s \in OldHours(now) THEN hour[s] ELSE 0
        BY <1>7 DEF BeginCompaction
    <2>4. OldHours(compaction.at)' = OldHours(now)
        BY <2>1, <2>3 DEF OldHours, HourStart, HourlyBoundary
    <2>5. GroupsCurrent'
        BY <2>1, <2>3, <2>4 DEF GroupsCurrent
    <2> QED  BY <2>2, <2>5 DEF CountInv
<1>8. CASE CommitCompaction
    BY <1>8, CommitKeepsCountInv
<1>9. CASE Restart
    <2>1. /\ UNCHANGED <<n, sold, ckAt, ckFps, hour, day>>
          /\ phase' # "compacting"
        BY <1>9 DEF Restart, upstream, tables, checkpoint
    <2> QED  BY <2>1 DEF CountInv, StoredIsPassed, Passed, CountedAtMostOnce, GroupsCurrent
<1>10. CASE UNCHANGED vars
    BY <1>10, CountFrame DEF vars, upstream, tables, checkpoint, liveTask
<1> QED
    BY <1>1, <1>2, <1>3, <1>4, <1>5, <1>6, <1>7, <1>8, <1>9, <1>10 DEF LiveNext

\* The live loop counts each sale at most once in the hourly and daily rows,
\* for ever: after the raw rows that would reject a repetition are gone, and
\* through failed polls, restarts, shifting pages and equal timestamps.
THEOREM LiveCountsOnce == LiveSpec => []CountedAtMostOnce
<1>1. LiveInit => CountInv
    BY CountInit
<1>2. PollInv /\ CountInv /\ [LiveNext]_vars => CountInv'
    BY CountStep
<1>3. CountInv => CountedAtMostOnce
    BY DEF CountInv
<1> QED  BY <1>1, <1>2, <1>3, LivePollInv, PTL DEF LiveSpec

-----------------------------------------------------------------------------
(* The action property of a saved poll. *)

\* What a poll that met the checkpoint, or the end of a listing that did not
\* grow, has collected.
LEMMA PollCoversAllNewer ==
    ASSUME PollInv, SavePoll, ckAt # NoCheckpoint, poll.pages < MaxPages,
           poll.offset < poll.total \/ n = poll.total,
           NEW s \in 1 .. poll.total, sold[s] > ckAt
    PROVE  s \in raw'
<1>1. /\ poll.total \in Nat /\ poll.total <= n /\ n \in Nat /\ n <= MaxSales
      /\ poll.offset \in Nat /\ poll.records \subseteq Sale
      /\ sold \in [Sale -> Nat] /\ ckAt \in Nat /\ s \in Sale /\ s <= poll.total
    <2>1. /\ poll.total \in Nat /\ poll.total <= n /\ n \in Nat /\ n <= MaxSales
          /\ poll.offset \in Nat /\ poll.records \subseteq Sale
          /\ sold \in [Sale -> Nat] /\ ckAt \in Nat
        BY BoundsAssumption DEF PollInv, TypeOK, PollCovers, SavePoll, Table
    <2>2. s \in Sale /\ s <= poll.total
        BY <2>1, BoundsAssumption DEF Sale
    <2> QED  BY <2>1, <2>2
<1>2. ASSUME poll.offset >= poll.total  PROVE s \in poll.records
    <2>1. n - poll.offset < s
        BY <1>1, <1>2 DEF Sale
    <2> QED  BY <1>1, <2>1 DEF PollInv, PollCovers, SavePoll
<1>3. ASSUME poll.offset < poll.total  PROVE s \in poll.records
    <2>1. poll.total \in poll.records
        BY <1>1, <1>3 DEF PollInv, PollCovers, SavePoll
    <2>2. PICK r \in poll.records : ~(sold[r] > ckAt)
        BY <1>3, <2>1 DEF SavePoll, WantsMorePages
    <2>3. r \in Sale /\ r \in Nat /\ s \in Nat /\ sold[r] \in Nat /\ sold[s] \in Nat
        BY <1>1, <2>2 DEF Sale
    <2>4. r <= s
        BY <1>1, <2>2, <2>3 DEF PollInv, PollCovers, SavePoll, ListingOrdered
    <2> QED  BY <1>1, <2>2, <2>3, <2>4 DEF PollInv, PollCovers, SavePoll
<1>4. s \in poll.records
    BY <1>1, <1>2, <1>3
<1>5. s \in NewRecords
    BY <1>4 DEF NewRecords
<1> QED  BY <1>5 DEF SavePoll

\* A saved poll that was not cut off has stored every sale newer than its
\* checkpoint, with the backfill task and restarts interleaved.
THEOREM PollLosesNothing == Spec => PollSavesAllNewer
<1>1. Init => PollInv
    BY PollInit DEF Init
<1>2. PollInv /\ [Next]_vars => PollInv'
    BY PollStep
<1>3. PollInv /\ [Next]_vars =>
        [(/\ SavePoll
          /\ ckAt # NoCheckpoint
          /\ poll.pages < MaxPages
          /\ poll.offset < poll.total \/ n = poll.total)
         => \A s \in 1 .. poll.total : sold[s] > ckAt => s \in raw']_vars
    BY PollCoversAllNewer
<1> QED  BY <1>1, <1>2, <1>3, PTL DEF Spec, PollSavesAllNewer

-----------------------------------------------------------------------------
(* The backfill: a third layer, inductive under the whole next-state relation *)
(* given the first.                                                           *)

\* The first chunk of a download has all the sales older than its boundary that it
\* has come by: above the next page, and above any sale it has.  It goes on before
\* the end of the listing only.
DownloadCovers ==
    bfPhase = "downloading" /\ bfOffset = 0 =>
        /\ bf.offset \in 0 .. n
        /\ bf.total <= n
        /\ IF bf.total = 0 THEN bf.processed = 0 ELSE bf.processed < bf.total
        /\ \A s \in 1 .. n : sold[s] < bf.boundary /\ n - bf.offset < s => s \in bf.records
        /\ \A r \in bf.records, s \in 1 .. n :
               r <= s /\ sold[s] < bf.boundary => s \in bf.records

\* A download runs until the backfill is complete; its boundary starts an hour, and
\* nothing newer is in it.
DownloadIsOld ==
    bfPhase # "idle" =>
        /\ ~bfComplete
        /\ bf.offset >= 0
        /\ bf.boundary <= now /\ bf.boundary = HourStart(bf.boundary)
        /\ \A s \in bf.records : s <= n /\ sold[s] < bf.boundary

\* What is saved of the first chunk are whole hours.
ChunkIsWhole ==
    bfPhase = "saving" /\ bfOffset = 0 =>
        \A t \in bf.records, s \in 1 .. n :
            HourStart(sold[s]) = HourStart(sold[t]) => s \in bf.records

\* An item whose target is no longer than a chunk is complete after one chunk.
OneChunk ==
    ItemTarget <= ChunkSize =>
        /\ bfComplete \/ bfOffset = 0
        /\ bfPhase = "saving" => bf.ended \/ bf.processed >= BackfillTarget(bf.total)

\* A compaction in flight began in the past.
CompactionIsOld == phase = "compacting" => compaction.at <= now

DownloadInv ==
    /\ DownloadCovers /\ DownloadIsOld /\ ChunkIsWhole /\ OneChunk
    /\ BackfillHasNoHoles /\ CompactionIsOld

\* What the first layer says of the types of a download.
LEMMA DownloadTypes ==
    ASSUME PollInv
    PROVE  /\ bf.boundary \in Int /\ bf.offset \in Int /\ bf.processed \in Nat /\ bf.total \in Nat
           /\ bf.records \subseteq Sale /\ bf.ended \in BOOLEAN /\ bf.at \in Nat
           /\ bfOffset \in Nat /\ bfComplete \in BOOLEAN
           /\ 1 .. n \subseteq Sale
           /\ \A s \in 1 .. n : s \in Nat /\ sold[s] \in Nat /\ sold[s] <= now
           /\ \A s, t \in 1 .. n : s <= t => sold[s] <= sold[t]
<1>1. /\ bf.boundary \in Int /\ bf.offset \in Int /\ bf.processed \in Nat /\ bf.total \in Nat
      /\ bf.records \subseteq Sale /\ bf.ended \in BOOLEAN /\ bf.at \in Nat
      /\ bfOffset \in Nat /\ bfComplete \in BOOLEAN
    BY DEF PollInv, TypeOK
<1>2. n \in Nat /\ n <= MaxSales
    BY BoundsAssumption DEF PollInv, TypeOK
<1>3. 1 .. n \subseteq Sale
    BY <1>2, BoundsAssumption DEF Sale
<1>4. \A s \in 1 .. n : s \in Nat /\ s <= n /\ s \in Sale
    BY <1>2, <1>3
<1> QED  BY <1>1, <1>3, <1>4, Types DEF PollInv, ListingOrdered

\* The raw boundary is the start of an hour in the past.
LEMMA RawBoundaryIsPast ==
    ASSUME NEW t \in Int
    PROVE  /\ RawBoundary(t) \in Int /\ RawBoundary(t) <= t
           /\ RawBoundary(t) = HourStart(RawBoundary(t))
<1> DEFINE u == t - RawRetention * SlotsPerHour
<1>1. RawRetention * SlotsPerHour \in Nat
    <2>1. RawRetention \in Nat /\ SlotsPerHour \in Nat
        BY CalendarAssumption, SettingsAssumption
    <2> QED  BY <2>1
<1>2. u \in Int /\ u <= t
    BY <1>1
<1> HIDE DEF u
<1>3. HourStart(u) \in Int /\ HourStart(u) <= u
    BY <1>2, HourStartCut
<1>4. HourStart(HourStart(u)) <= HourStart(u) /\ HourStart(HourStart(u)) \in Int
    BY <1>3, HourStartCut
<1>5. ~(HourStart(HourStart(u)) < HourStart(u))
    BY <1>2, <1>3, HourStartCut
<1> QED  BY <1>2, <1>3, <1>4, <1>5 DEF RawBoundary, u

LEMMA DownloadInit == Init => DownloadInv
BY DEF Init, InitWith, DownloadInv, DownloadCovers, DownloadIsOld, ChunkIsWhole, OneChunk,
    BackfillHasNoHoles, CompactionIsOld

\* Whatever leaves the listing and the download alone.
LEMMA DownloadFrame ==
    ASSUME PollInv, DownloadInv, now' \in Nat, now' >= now,
           UNCHANGED <<n, sold, progress, backfillTask>>, CompactionIsOld'
    PROVE  DownloadInv'
<1>1. UNCHANGED <<n, sold, bfOffset, bfComplete, bfPhase, bf>>
    BY DEF progress, backfillTask
<1>2. DownloadIsOld'
    BY <1>1, Types, DownloadTypes DEF DownloadInv, DownloadIsOld, HourStart
<1>3. DownloadCovers' /\ ChunkIsWhole' /\ OneChunk' /\ BackfillHasNoHoles'
    BY <1>1 DEF DownloadInv, DownloadCovers, ChunkIsWhole, OneChunk, BackfillHasNoHoles,
        BackfillTarget, Lesser, Greater, HourStart
<1> QED  BY <1>2, <1>3 DEF DownloadInv

\* Whatever ends the download and leaves the progress alone.
LEMMA DownloadEnds ==
    ASSUME DownloadInv, UNCHANGED progress, bfPhase' = "idle", CompactionIsOld'
    PROVE  DownloadInv'
BY DEF DownloadInv, DownloadCovers, DownloadIsOld, ChunkIsWhole, OneChunk, BackfillHasNoHoles,
    progress

\* A new sale is not older than the boundary.
LEMMA SellKeepsDownloadInv == PollInv /\ DownloadInv /\ Sell => DownloadInv'
<1> SUFFICES ASSUME PollInv, DownloadInv, Sell PROVE DownloadInv'
    OBVIOUS
<1>1. /\ n \in Nat /\ n' = n + 1 /\ n + 1 \in Sale /\ sold' = [sold EXCEPT ![n + 1] = now]
      /\ UNCHANGED <<now, bfOffset, bfComplete, bfPhase, bf, phase, compaction>>
      /\ sold \in Table /\ now \in Nat
    BY Types, BoundsAssumption
    DEF Sell, PollInv, TypeOK, Sale, progress, backfillTask, liveTask
<1>2. /\ sold'[n + 1] = now
      /\ \A s \in 1 .. n : sold'[s] = sold[s]
      /\ \A s \in 1 .. n' : s \in 1 .. n \/ s = n + 1
    BY <1>1, DownloadTypes DEF Table
<1>3. bfPhase # "idle" =>
          /\ sold'[n + 1] >= bf.boundary
          /\ \A s \in bf.records : s \in 1 .. n /\ sold'[s] = sold[s]
    BY <1>1, <1>2, DownloadTypes DEF DownloadInv, DownloadIsOld, Sale
<1>4. DownloadIsOld'
    BY <1>1, <1>3, DownloadTypes DEF DownloadInv, DownloadIsOld, HourStart
<1>5. DownloadCovers'
    BY <1>1, <1>2, <1>3, DownloadTypes DEF DownloadInv, DownloadCovers
<1>6. ChunkIsWhole'
    <2> SUFFICES ASSUME bfPhase = "saving", bfOffset = 0, NEW t \in bf.records, NEW s \in 1 .. n',
                        HourStart(sold'[s]) = HourStart(sold'[t])
                 PROVE  s \in bf.records
        BY <1>1 DEF ChunkIsWhole, HourStart
    <2>1. t \in 1 .. n /\ sold'[t] = sold[t] /\ sold[t] < bf.boundary /\ sold[t] \in Nat
        BY <1>3, DownloadTypes DEF DownloadInv, DownloadIsOld
    <2>2. CASE s \in 1 .. n
        BY <1>2, <2>1, <2>2 DEF DownloadInv, ChunkIsWhole
    <2>3. CASE s = n + 1
        <3>1. HourStart(sold[t]) < bf.boundary /\ HourStart(sold[t]) \in Int
            BY <2>1, HourStartCut, DownloadTypes
        <3>2. HourStart(bf.boundary) <= HourStart(now) /\ bf.boundary = HourStart(bf.boundary)
            BY <1>1, DownloadTypes, HourStartCut DEF DownloadInv, DownloadIsOld
        <3> QED  BY <1>1, <1>2, <2>1, <2>3, <3>1, <3>2, HourStartType, DownloadTypes
    <2> QED  BY <1>2, <2>2, <2>3
<1>7. BackfillHasNoHoles'
    <2> SUFFICES ASSUME bfPhase = "saving", bfOffset = 0, NEW s \in 1 .. n',
                        sold'[s] < bf.boundary, bf.ended \/ \E t \in bf.records : t < s
                 PROVE  s \in bf.records
        BY <1>1 DEF BackfillHasNoHoles
    <2>1. s \in 1 .. n /\ sold[s] < bf.boundary
        BY <1>1, <1>2, <1>3, DownloadTypes
    <2> QED  BY <2>1 DEF DownloadInv, BackfillHasNoHoles
<1>8. OneChunk' /\ CompactionIsOld'
    BY <1>1 DEF DownloadInv, OneChunk, CompactionIsOld, BackfillTarget, Lesser, Greater
<1> QED  BY <1>4, <1>5, <1>6, <1>7, <1>8 DEF DownloadInv

\* A claim starts at the top of the listing.
LEMMA ClaimKeepsDownloadInv == PollInv /\ DownloadInv /\ ClaimBackfill => DownloadInv'
<1> SUFFICES ASSUME PollInv, DownloadInv, ClaimBackfill PROVE DownloadInv'
    OBVIOUS
<1>1. /\ UNCHANGED <<now, n, sold, bfOffset, bfComplete, phase, compaction>>
      /\ bfPhase' = "downloading" /\ ~bfComplete
      /\ bf'.boundary = RawBoundary(now) /\ bf'.offset = Greater(0, bfOffset - Overlap)
      /\ bf'.processed = bfOffset /\ bf'.total = 0 /\ bf'.records = {}
    BY DEF ClaimBackfill, upstream, progress, liveTask
<1>2. DownloadIsOld'
    BY <1>1, RawBoundaryIsPast, Types, DownloadTypes, SettingsAssumption
    DEF DownloadIsOld, HourStart, Greater
<1>3. bfOffset = 0 => bf'.offset = 0
    BY <1>1, SettingsAssumption DEF Greater
<1>4. DownloadCovers'
    BY <1>1, <1>3, Types DEF DownloadCovers
<1>5. ChunkIsWhole' /\ OneChunk' /\ BackfillHasNoHoles' /\ CompactionIsOld'
    BY <1>1 DEF DownloadInv, ChunkIsWhole, OneChunk, BackfillHasNoHoles, CompactionIsOld
<1> QED  BY <1>2, <1>4, <1>5 DEF DownloadInv

\* One page joins what the first chunk has collected without a hole.
LEMMA PageJoins ==
    ASSUME PollInv, DownloadInv, bfPhase = "downloading", bfOffset = 0,
           NEW len, len = PageLen(bf.offset),
           NEW records, records = bf.records \cup {s \in Page(bf.offset) : sold[s] < bf.boundary}
    PROVE  /\ n \in Nat /\ bf.offset \in Nat /\ len \in Nat /\ bf.offset + len <= n
           /\ len = PageSize \/ bf.offset + len = n
           /\ \A s \in 1 .. n :
                sold[s] < bf.boundary /\ n - (bf.offset + len) < s => s \in records
           /\ \A r \in records, s \in 1 .. n : r <= s /\ sold[s] < bf.boundary => s \in records
<1>1. n \in Nat /\ bf.offset \in Nat /\ bf.offset <= n /\ PageSize \in Nat
    BY Types, SettingsAssumption DEF DownloadInv, DownloadCovers
<1>2. /\ len \in Nat /\ bf.offset + len <= n /\ (len = PageSize \/ bf.offset + len = n)
      /\ len <= PageSize
    BY <1>1, PageLenType
<1>3. \A s \in 1 .. n : sold[s] < bf.boundary /\ n - bf.offset < s => s \in bf.records
    BY DEF DownloadInv, DownloadCovers
<1>4. \A s \in 1 .. n :
        n - bf.offset - PageSize < s /\ s <= n - bf.offset => s \in Page(bf.offset)
    BY DownloadTypes DEF Page
<1>5. \A s \in 1 .. n : sold[s] < bf.boundary /\ n - (bf.offset + len) < s => s \in records
    <2> TAKE s \in 1 .. n
    <2> HAVE sold[s] < bf.boundary /\ n - (bf.offset + len) < s
    <2>1. CASE n - bf.offset < s
        BY <1>3, <2>1
    <2>2. CASE s <= n - bf.offset
        <3>1. n - bf.offset - PageSize < s
            BY <1>1, <1>2
        <3> QED  BY <1>4, <2>2, <3>1
    <2> QED  BY <1>1, <2>1, <2>2
<1>6. ASSUME NEW r \in records, NEW s \in 1 .. n, r <= s, sold[s] < bf.boundary
      PROVE  s \in records
    <2>1. CASE r \in bf.records
        BY <1>6, <2>1 DEF DownloadInv, DownloadCovers
    <2>2. CASE r \in Page(bf.offset)
        <3>1. r \in Int /\ n - bf.offset - PageSize < r
            BY <2>2 DEF Page, Sale
        <3>2. n - bf.offset - PageSize < s
            BY <1>1, <1>6, <3>1
        <3> QED  BY <1>1, <1>3, <1>4, <1>6, <3>2
    <2> QED  BY <2>1, <2>2
<1> QED  BY <1>1, <1>2, <1>5, <1>6

\* What a download keeps when it stops: everything when it reached the end of the
\* listing, else the hours above its oldest one.
LEMMA StopKeepsHours ==
    ASSUME PollInv, DownloadInv, bfPhase = "downloading", NEW ended \in BOOLEAN,
           NEW records \in SUBSET (1 .. n), \A r \in records : sold[r] < bf.boundary,
           ended => \A s \in 1 .. n : sold[s] < bf.boundary => s \in records,
           \A r \in records, s \in 1 .. n : r <= s /\ sold[s] < bf.boundary => s \in records
    PROVE  LET kept == ExcludePartialOldestHour(records, ended)
           IN  /\ kept \subseteq records
               /\ \A t \in kept, s \in 1 .. n :
                    HourStart(sold[s]) = HourStart(sold[t]) => s \in kept
               /\ \A s \in 1 .. n :
                    sold[s] < bf.boundary /\ (ended \/ \E t \in kept : t < s) => s \in kept
<1> DEFINE kept == ExcludePartialOldestHour(records, ended)
<1>1. /\ kept \subseteq records
      /\ ended => kept = records
      /\ ~ended => \A s \in records :
            s \in kept <=> \E t \in records : HourStart(sold[t]) < HourStart(sold[s])
    BY DEF ExcludePartialOldestHour
<1>2. /\ n \in Nat /\ bf.boundary \in Int /\ bf.boundary = HourStart(bf.boundary)
      /\ \A s \in 1 .. n : s \in Nat /\ sold[s] \in Nat /\ HourStart(sold[s]) \in Int
    BY Types, DownloadTypes, HourStartType DEF DownloadInv, DownloadIsOld
<1> HIDE DEF kept
<1>3. ASSUME NEW t \in kept, NEW s \in 1 .. n, HourStart(sold[s]) = HourStart(sold[t])
      PROVE  s \in kept
    <2>1. t \in records /\ t \in 1 .. n /\ sold[t] < bf.boundary
        BY <1>1
    <2>2. HourStart(sold[t]) <= sold[t]
        BY <1>2, <2>1, HourStartCut
    <2>3. sold[s] < bf.boundary
        BY <1>2, <1>3, <2>1, <2>2, HourStartCut
    <2>4. CASE ended
        BY <1>1, <2>3, <2>4
    <2>5. CASE ~ended
        <3>1. PICK u \in records : HourStart(sold[u]) < HourStart(sold[t])
            BY <1>1, <2>1, <2>5
        <3>2. HourStart(sold[s]) <= sold[s] /\ sold[u] < HourStart(sold[s])
            BY <1>2, <1>3, <3>1, HourStartCut
        <3>3. u \in 1 .. n /\ sold[u] < sold[s]
            BY <1>2, <3>1, <3>2
        <3>4. u <= s
            BY <1>2, <3>3, DownloadTypes
        <3>5. s \in records
            BY <2>3, <3>4
        <3> QED  BY <1>1, <1>3, <2>5, <3>1, <3>5
    <2> QED  BY <2>4, <2>5
<1>4. ASSUME NEW s \in 1 .. n, sold[s] < bf.boundary, ended \/ \E t \in kept : t < s
      PROVE  s \in kept
    <2>1. CASE ended
        BY <1>1, <1>4, <2>1
    <2>2. CASE ~ended
        <3>1. PICK t \in kept : t < s
            BY <1>4, <2>2
        <3>2. t \in records /\ t \in 1 .. n /\ t \in Nat /\ s \in Nat
            BY <1>1, <1>2
        <3>3. s \in records
            BY <1>4, <3>1, <3>2
        <3>4. PICK u \in records : HourStart(sold[u]) < HourStart(sold[t])
            BY <1>1, <2>2, <3>2
        <3>5. sold[t] <= sold[s]
            BY <3>1, <3>2, DownloadTypes
        <3>6. HourStart(sold[t]) <= HourStart(sold[s])
            BY <1>2, <3>2, <3>5, HourStartCut
        <3>7. HourStart(sold[u]) < HourStart(sold[s])
            BY <1>2, <3>2, <3>4, <3>6
        <3> QED  BY <1>1, <2>2, <3>3, <3>7
    <2> QED  BY <2>1, <2>2
<1> QED  BY <1>1, <1>3, <1>4 DEF kept

\* A page of the first chunk: the next one starts inside it or right below it, or
\* the download stops with the hours it has whole.
LEMMA FetchKeepsDownloadInv == PollInv /\ DownloadInv /\ FetchBackfillPage => DownloadInv'
<1> SUFFICES ASSUME PollInv, DownloadInv, FetchBackfillPage PROVE DownloadInv'
    OBVIOUS
<1> DEFINE len == PageLen(bf.offset)
           total == Greater(bf.total, n)
           target == BackfillTarget(total)
           chunkEnd == bfOffset + ChunkSize
           processed == Lesser(total, Greater(bf.processed, bf.offset + len))
           records == bf.records \cup {s \in Page(bf.offset) : sold[s] < bf.boundary}
           ended == len = 0 \/ processed >= total
           stop == \/ ended
                   \/ target > 0 /\ processed >= target
                   \/ processed >= Lesser(IF target = 0 THEN chunkEnd ELSE target, chunkEnd)
           kept == ExcludePartialOldestHour(records, ended)
<1>1. /\ UNCHANGED <<now, n, sold, bfOffset, bfComplete, phase, compaction>>
      /\ bfPhase = "downloading"
    BY DEF FetchBackfillPage, upstream, progress, liveTask
<1>2. /\ bf'.boundary = bf.boundary
      /\ bf'.offset = IF stop THEN bf.offset ELSE NextOffset(bf.offset, len)
      /\ bf'.processed = processed /\ bf'.total = total /\ bf'.ended = ended
      /\ bf'.records = IF stop THEN kept ELSE records
      /\ bfPhase' = IF stop THEN "saving" ELSE "downloading"
    BY DEF FetchBackfillPage
<1>3. kept \subseteq records
    BY DEF ExcludePartialOldestHour
<1>4. \A s \in records : s \in 1 .. n /\ s <= n /\ sold[s] < bf.boundary
    BY <1>1, Types, DownloadTypes DEF DownloadInv, DownloadIsOld, Page, Sale
<1>5. bfOffset = 0 =>
        /\ n \in Nat /\ bf.offset \in Nat /\ len \in Nat /\ bf.offset + len <= n
        /\ len = PageSize \/ bf.offset + len = n
        /\ \A s \in 1 .. n : sold[s] < bf.boundary /\ n - (bf.offset + len) < s => s \in records
        /\ \A r \in records, s \in 1 .. n : r <= s /\ sold[s] < bf.boundary => s \in records
    BY <1>1, PageJoins
<1>6. bfOffset = 0 =>
        /\ total = n
        /\ IF total = 0 THEN processed = 0 ELSE ended \/ processed < total
        /\ ended => bf.offset + len = n
    <2> HAVE bfOffset = 0
    <2>1. /\ bf.total <= n /\ bf.total \in Nat /\ bf.processed \in Nat /\ n \in Nat
          /\ IF bf.total = 0 THEN bf.processed = 0 ELSE bf.processed < bf.total
        BY <1>1, <1>5, DownloadTypes DEF DownloadInv, DownloadCovers
    <2> HIDE DEF len
    <2>2. total = n
        BY <2>1 DEF Greater
    <2> HIDE DEF total
    <2>3. processed = Greater(bf.processed, bf.offset + len)
        BY <1>5, <2>1, <2>2 DEF Lesser, Greater
    <2>4. total = 0 => processed = 0
        BY <1>5, <2>1, <2>2, <2>3 DEF Greater
    <2>5. total # 0 => ended \/ processed < total
        BY <1>5, <2>1, <2>2, <2>3 DEF Greater
    <2>6. ended => bf.offset + len = n
        BY <1>5, <2>1, <2>2, <2>3, SettingsAssumption DEF Greater
    <2> QED  BY <2>2, <2>4, <2>5, <2>6
<1>7. DownloadIsOld'
    <2>1. bf'.offset >= 0
        <3> HIDE DEF stop
        <3>1. bf.offset \in Nat /\ n \in Nat
            BY <1>1, Types, DownloadTypes DEF DownloadInv, DownloadIsOld
        <3>2. len \in Int /\ (len = PageSize \/ len = n - bf.offset)
            BY <3>1, PageLenType
        <3> HIDE DEF len
        <3>3. NextOffset(bf.offset, len) >= 0
            BY <3>1, <3>2, SettingsAssumption DEF NextOffset, PageOverlap, Lesser, Greater
        <3> QED  BY <1>2, <3>1, <3>3
    <2> HIDE DEF stop, kept, records
    <2> QED  BY <1>1, <1>2, <1>3, <1>4, <2>1 DEF DownloadInv, DownloadIsOld, HourStart
<1>8. DownloadCovers'
    <2> SUFFICES ASSUME bfOffset = 0, ~stop PROVE DownloadCovers'
        BY <1>1, <1>2 DEF DownloadCovers
    <2>1. ~ended
        OBVIOUS
    <2> HIDE DEF total, processed, records, stop
    <2>2. len > 0
        BY <1>5, <2>1
    <2>3. /\ NextOffset(bf.offset, len) \in Nat
          /\ bf.offset < NextOffset(bf.offset, len)
          /\ NextOffset(bf.offset, len) <= bf.offset + len
        <3> HIDE DEF len
        <3> QED  BY <1>5, <2>2, SettingsAssumption DEF NextOffset, PageOverlap, Lesser, Greater
    <2> HIDE DEF ended, len
    <2>4. /\ bf'.offset = NextOffset(bf.offset, len) /\ bf'.records = records
          /\ bf'.total = total /\ bf'.processed = processed /\ bf'.boundary = bf.boundary
        BY <1>2
    <2>5. bf'.offset \in 0 .. n /\ bf'.offset <= bf.offset + len
        BY <1>5, <2>3, <2>4
    <2>6. /\ bf'.total <= n
          /\ IF bf'.total = 0 THEN bf'.processed = 0 ELSE bf'.processed < bf'.total
        BY <1>5, <1>6, <2>1, <2>4
    <2>7. \A s \in 1 .. n : sold[s] < bf.boundary /\ n - bf'.offset < s => s \in records
        BY <1>5, <2>5
    <2> QED  BY <1>1, <1>5, <2>4, <2>5, <2>6, <2>7 DEF DownloadCovers
<1>9. ChunkIsWhole' /\ BackfillHasNoHoles'
    <2> SUFFICES ASSUME bfOffset = 0, stop PROVE ChunkIsWhole' /\ BackfillHasNoHoles'
        BY <1>1, <1>2 DEF ChunkIsWhole, BackfillHasNoHoles
    <2>1. ended \in BOOLEAN /\ records \in SUBSET (1 .. n)
        <3> HIDE DEF records
        <3> QED  BY <1>4
    <2>2. ended => \A s \in 1 .. n : sold[s] < bf.boundary => s \in records
        <3> HIDE DEF ended, records, len
        <3> QED  BY <1>5, <1>6
    <2>3. /\ \A t \in kept, s \in 1 .. n :
                HourStart(sold[s]) = HourStart(sold[t]) => s \in kept
          /\ \A s \in 1 .. n :
                sold[s] < bf.boundary /\ (ended \/ \E t \in kept : t < s) => s \in kept
        <3> HIDE DEF ended, records
        <3> QED  BY <1>1, <1>4, <1>5, <2>1, <2>2, StopKeepsHours
    <2>4. bf'.records = kept /\ bf'.ended = ended /\ bf'.boundary = bf.boundary
        BY <1>2
    <2> HIDE DEF ended, kept, stop
    <2> QED  BY <1>1, <2>3, <2>4 DEF ChunkIsWhole, BackfillHasNoHoles, HourStart
<1>10. OneChunk'
    <2> SUFFICES ASSUME ItemTarget <= ChunkSize, stop
                 PROVE  ended \/ processed >= target
        BY <1>1, <1>2 DEF DownloadInv, DownloadIsOld, OneChunk, BackfillTarget, Lesser, Greater
    <2>1. bfOffset = 0
        BY <1>1 DEF DownloadInv, DownloadIsOld, OneChunk
    <2> HIDE DEF len
    <2>2. total \in Nat /\ processed \in Int /\ target = Lesser(total, ChunkSize)
        <3>1. total \in Nat
            BY Types, DownloadTypes DEF Greater
        <3> HIDE DEF total
        <3>2. Greater(bf.processed, bf.offset + len) \in Int
            BY <1>5, <2>1, DownloadTypes DEF Greater
        <3>3. processed \in Int
            BY <3>1, <3>2 DEF Lesser
        <3> HIDE DEF processed
        <3> QED  BY <3>1, <3>3, SettingsAssumption DEF BackfillTarget, Greater
    <2> HIDE DEF total, processed, ended
    <2>3. target \in Nat /\ target <= chunkEnd /\ chunkEnd = ChunkSize
        BY <2>1, <2>2, SettingsAssumption DEF Lesser
    <2> HIDE DEF target, chunkEnd
    <2> QED  BY <2>2, <2>3, SettingsAssumption DEF Lesser
<1>11. CompactionIsOld'
    BY <1>1 DEF DownloadInv, CompactionIsOld
<1> QED  BY <1>7, <1>8, <1>9, <1>10, <1>11 DEF DownloadInv

\* A save ends the download, and the backfill with it when one chunk is enough.
LEMMA SaveKeepsDownloadInv == PollInv /\ DownloadInv /\ SaveBackfill => DownloadInv'
<1> SUFFICES ASSUME PollInv, DownloadInv, SaveBackfill PROVE DownloadInv'
    OBVIOUS
<1>1. /\ bfPhase' = "idle" /\ UNCHANGED <<now, phase, compaction>> /\ bfPhase = "saving"
      /\ bfComplete' = (bf.ended \/ bf.processed >= BackfillTarget(bf.total))
    BY DEF SaveBackfill, upstream, liveTask
<1>2. OneChunk'
    BY <1>1 DEF DownloadInv, OneChunk
<1> QED  BY <1>1, <1>2 DEF DownloadInv, DownloadCovers, DownloadIsOld, ChunkIsWhole,
             BackfillHasNoHoles, CompactionIsOld

\* The third layer is inductive under the whole next-state relation, given the first.
LEMMA DownloadStep == PollInv /\ DownloadInv /\ [Next]_vars => DownloadInv'
<1> SUFFICES ASSUME PollInv, DownloadInv, [Next]_vars PROVE DownloadInv'
    OBVIOUS
<1>1. now \in Nat
    BY Types
<1>2. CASE Sell
    BY <1>2, SellKeepsDownloadInv
<1>3. CASE Tick
    <2>1. now' = now + 1 /\ UNCHANGED <<n, sold, progress, backfillTask, phase, compaction>>
        BY <1>3 DEF Tick, liveTask
    <2>2. CompactionIsOld'
        BY <1>1, <2>1, Types DEF DownloadInv, CompactionIsOld
    <2> QED  BY <1>1, <2>1, <2>2, DownloadFrame
<1>4. CASE FetchFirstPage \/ FetchNextPage \/ SavePoll \/ FailPoll \/ CommitCompaction
    <2>1. UNCHANGED <<now, n, sold, progress, backfillTask>> /\ phase' # "compacting"
        BY <1>4 DEF FetchFirstPage, FetchNextPage, SavePoll, FailPoll, CommitCompaction, upstream
    <2> QED  BY <1>1, <2>1, DownloadFrame DEF CompactionIsOld
<1>5. CASE BeginCompaction
    <2>1. UNCHANGED <<now, n, sold, progress, backfillTask>> /\ compaction'.at = now
        BY <1>5 DEF BeginCompaction, upstream
    <2> QED  BY <1>1, <2>1, DownloadFrame DEF CompactionIsOld
<1>6. CASE Restart
    BY <1>6, DownloadEnds DEF Restart, CompactionIsOld
<1>7. CASE ClaimBackfill
    BY <1>7, ClaimKeepsDownloadInv
<1>8. CASE FetchBackfillPage
    BY <1>8, FetchKeepsDownloadInv
<1>9. CASE SaveBackfill
    BY <1>9, SaveKeepsDownloadInv
<1>10. CASE FailBackfill
    <2>1. UNCHANGED <<now, phase, compaction, progress>> /\ bfPhase' = "idle"
        BY <1>10 DEF FailBackfill, upstream, liveTask
    <2> QED  BY <2>1, DownloadEnds DEF DownloadInv, CompactionIsOld
<1>11. CASE UNCHANGED vars
    <2>1. UNCHANGED <<now, n, sold, progress, backfillTask, phase, compaction>>
        BY <1>11 DEF vars, upstream, liveTask
    <2> QED  BY <1>1, <2>1, DownloadFrame DEF DownloadInv, CompactionIsOld
<1> QED
    BY <1>2, <1>3, <1>4, <1>5, <1>6, <1>7, <1>8, <1>9, <1>10, <1>11 DEF Next, LiveNext, BackfillNext

LEMMA DownloadInvariant == Spec => [](PollInv /\ DownloadInv)
<1>1. Init => PollInv /\ DownloadInv
    BY PollInit, DownloadInit DEF Init
<1>2. PollInv /\ DownloadInv /\ [Next]_vars => PollInv' /\ DownloadInv'
    BY PollStep, DownloadStep
<1> QED  BY <1>1, <1>2, PTL DEF Spec

\* The first chunk of a backfill has every sale older than its boundary and newer
\* than the oldest it keeps, whatever is sold between its pages, for every page
\* size, overlap, chunk size and target.
THEOREM ChunkHasNoHoles == Spec => []BackfillHasNoHoles
<1>1. DownloadInv => BackfillHasNoHoles
    BY DEF DownloadInv
<1> QED  BY <1>1, DownloadInvariant, PTL

\* A save with the clock's hour unchanged writes no hourly row older than the
\* boundary of any compaction begun before it.
LEMMA SaveSparesOldHours ==
    ASSUME PollInv, DownloadInv, SaveBackfill, phase = "compacting",
           HourStart(bf.at) = HourStart(now), NEW s \in OldHours(compaction.at)
    PROVE  hour'[s] <= hour[s]
<1>1. /\ s \in Sale /\ HourStart(sold[s]) < HourlyBoundary(compaction.at)
      /\ sold[s] \in Int /\ compaction.at \in Int /\ now \in Int /\ bf.at \in Int
      /\ hour \in Table /\ day \in Table /\ twenty \in Table /\ hour[s] \in Nat
    BY Types, DownloadTypes DEF OldHours, PollInv, TypeOK
<1>2. HourlyBoundary(now) = HourlyBoundary(bf.at)
    BY <1>1, SameHourBefore, SettingsAssumption DEF HourlyBoundary
<1>3. /\ HourlyBoundary(compaction.at) \in Int /\ HourlyBoundary(now) \in Int
      /\ HourlyBoundary(compaction.at) <= HourlyBoundary(now)
    BY <1>1, HourlyBoundaryGrows DEF DownloadInv, CompactionIsOld
<1>4. sold[s] < HourlyBoundary(compaction.at)
    <2> DEFINE u == compaction.at - HourlyRetention * SlotsPerHour
    <2>1. HourlyRetention * SlotsPerHour \in Int
        BY CalendarAssumption, SettingsAssumption
    <2>2. u \in Int /\ HourlyBoundary(compaction.at) = HourStart(u)
        BY <1>1, <2>1 DEF HourlyBoundary
    <2> HIDE DEF u
    <2> QED  BY <1>1, <2>2, HourStartCut
<1>5. s \notin HourlyRecords
    BY <1>1, <1>2, <1>3, <1>4 DEF HourlyRecords
<1> DEFINE hr == Replace(hour, HourlyRecords, SlotsPerHour)
           dy == Replace(day, DailyRecords, SlotsPerHour * HoursPerDay)
<1>6. hr \in Table /\ dy \in Table /\ PruneInto(twenty, hr, dy)
    BY <1>1, ReplaceTable DEF SaveBackfill
<1>7. hr[s] = 0 \/ hr[s] = hour[s]
    BY <1>1, <1>5 DEF Replace
<1> HIDE DEF hr, dy
<1>8. hour'[s] = hr[s] \/ hour'[s] = 0
    BY <1>1, <1>6, PruneTables
<1> QED  BY <1>1, <1>7, <1>8

\* Backfill and compaction share the hourly rows with nothing but the clock to keep
\* them apart: within the hour the save began in, the clock does.
THEOREM BackfillLeavesOldRows == Spec => BackfillSparesCompaction
<1>1. PollInv /\ DownloadInv =>
        [(SaveBackfill /\ phase = "compacting" /\ HourStart(bf.at) = HourStart(now))
         => \A s \in OldHours(compaction.at) : hour'[s] <= hour[s]]_vars
    BY SaveSparesOldHours
<1> QED  BY <1>1, DownloadInvariant, PTL DEF BackfillSparesCompaction

\* The sales of an hour that a save of the first chunk writes are in it together.
LEMMA SaveWritesHour ==
    ASSUME PollInv, DownloadInv, SaveBackfill, bfOffset = 0,
           NEW t \in HourlyRecords, NEW s \in 1 .. n, HourStart(sold[s]) = HourStart(sold[t])
    PROVE  hour'[s] = hour'[t]
<1>1. /\ t \in bf.records /\ t \in Sale /\ s \in Sale /\ sold[t] >= HourlyBoundary(bf.at)
      /\ sold[s] \in Int /\ sold[t] \in Int /\ bf.at \in Int
    BY Types, DownloadTypes DEF HourlyRecords
<1>2. s \in bf.records
    BY <1>1 DEF DownloadInv, ChunkIsWhole, SaveBackfill
<1>3. sold[s] >= HourlyBoundary(bf.at)
    <2> DEFINE u == bf.at - HourlyRetention * SlotsPerHour
    <2>1. HourlyRetention * SlotsPerHour \in Int
        BY CalendarAssumption, SettingsAssumption
    <2>2. u \in Int /\ HourlyBoundary(bf.at) = HourStart(u)
        BY <1>1, <2>1 DEF HourlyBoundary
    <2> HIDE DEF u
    <2>3. /\ HourStart(sold[s]) \in Int /\ HourStart(sold[t]) \in Int /\ HourStart(u) \in Int
          /\ HourStart(sold[s]) <= sold[s]
          /\ HourStart(sold[t]) < HourStart(u) => sold[t] < HourStart(u)
        BY <1>1, <2>2, HourStartCut
    <2> QED  BY <1>1, <2>2, <2>3
<1>4. s \in HourlyRecords
    BY <1>2, <1>3 DEF HourlyRecords
<1> DEFINE hr == Replace(hour, HourlyRecords, SlotsPerHour)
           dy == Replace(day, DailyRecords, SlotsPerHour * HoursPerDay)
           rows == KeptRows(Rows(twenty, hr, dy))
<1>5. hr[s] = 1 /\ hr[t] = 1
    BY <1>1, <1>4 DEF Replace
<1>6. hour' = [x \in Sale |-> IF <<HourStart(sold[x]), 1>> \in rows THEN hr[x] ELSE 0]
    BY DEF SaveBackfill, PruneInto
<1> HIDE DEF hr, dy, rows
<1> QED  BY <1>1, <1>5, <1>6

\* A backfill whose target is no longer than a chunk writes whole hours only: an
\* hour's sales are all in its row or, when the row is pruned, none is.  A second
\* chunk would replace the hour its predecessor stopped in (run partial_hours).
THEOREM ReplacesWholeHours ==
    ASSUME ItemTarget <= ChunkSize
    PROVE  Spec => BackfillWritesWholeHours
<1>1. PollInv /\ DownloadInv =>
        [SaveBackfill =>
            \A t \in HourlyRecords : \A s \in 1 .. n :
                HourStart(sold[s]) = HourStart(sold[t]) => hour'[s] = hour'[t]]_vars
    <2> SUFFICES ASSUME PollInv, DownloadInv, SaveBackfill
                 PROVE  \A t \in HourlyRecords : \A s \in 1 .. n :
                            HourStart(sold[s]) = HourStart(sold[t]) => hour'[s] = hour'[t]
        OBVIOUS
    <2>1. bfOffset = 0
        BY DEF DownloadInv, DownloadIsOld, OneChunk, SaveBackfill
    <2> QED  BY <2>1, SaveWritesHour
<1> QED  BY <1>1, DownloadInvariant, PTL DEF BackfillWritesWholeHours

=============================================================================
