------------------------- MODULE LotSnapshotsProofs -------------------------
(***************************************************************************)
(* Proofs about LotSnapshots, for every value of its constants.            *)
(*                                                                         *)
(* That a download ends is a matter of counting: the lots have ranks, one  *)
(* each, from 1 to their number, and a page holds those behind the offset. *)
(* So an offset grows by at most what is left of the listing, however the  *)
(* listing has changed since the page before.                              *)
(***************************************************************************)
EXTENDS LotSnapshots, FiniteSetTheorems, TLAPS

Phase == {"idle", "fetching", "fetched", "storing", "selected", "stored", "reading"}

SessionRecord ==
    [phase : Phase, total : 0 .. MaxLots, offset : 0 .. MaxLots,
     records : SUBSET Lot, existing : SUBSET Lot, stamped : SUBSET Lot,
     gone : Nat]

-----------------------------------------------------------------------------
(* Counting lots. *)

\* A set of lots is finite, and there are at most MaxLots.
LEMMA LotsAreFew ==
    ASSUME NEW S \in SUBSET Lot
    PROVE  IsFiniteSet(S) /\ Cardinality(S) \in 0 .. MaxLots
<1>1. MaxLots \in Nat
    BY LotsAssumption
<1>2. IsFiniteSet(1 .. MaxLots) /\ Cardinality(1 .. MaxLots) = MaxLots
    BY <1>1, FS_Interval
<1>3. IsFiniteSet(S) /\ Cardinality(S) <= MaxLots
    BY <1>2, FS_Subset DEF Lot
<1> QED  BY <1>1, <1>3, FS_CardinalityType

\* The ranks of lots are numbers from 1 on, not beyond the number of lots listed.
LEMMA RankBounds ==
    ASSUME listing \subseteq Lot, NEW l \in listing
    PROVE  Rank(l) \in Nat /\ Rank(l) <= Cardinality(listing)
<1> DEFINE upTo == {k \in listing : k <= l}
<1>1. IsFiniteSet(listing) /\ upTo \subseteq listing
    BY LotsAreFew
<1>2. IsFiniteSet(upTo) /\ Cardinality(upTo) <= Cardinality(listing)
    BY <1>1, FS_Subset
<1> QED  BY <1>2, FS_CardinalityType DEF Rank

\* No two lots have the same rank.
LEMMA RanksDiffer ==
    ASSUME listing \subseteq Lot, NEW k \in listing, NEW l \in listing, k < l
    PROVE  Rank(k) # Rank(l)
<1> DEFINE upTo(x) == {j \in listing : j <= x}
<1>1. k \in Int /\ l \in Int /\ \A j \in listing : j \in Int
    BY LotsAssumption DEF Lot
<1>2. upTo(k) \subseteq upTo(l) /\ l \in upTo(l) /\ l \notin upTo(k)
    <2>1. \A j \in listing : j <= k => j <= l
        BY <1>1
    <2>2. l <= l /\ ~(l <= k)
        BY <1>1
    <2> QED  BY <2>1, <2>2
<1>3. IsFiniteSet(upTo(l))
    BY LotsAreFew
<1>4. Cardinality(upTo(l)) = Cardinality(upTo(k)) => upTo(l) = upTo(k)
    BY <1>2, <1>3, FS_Subset
<1> QED  BY <1>2, <1>4 DEF Rank

\* A page holds no more lots than the listing has behind the offset.
LEMMA PageIsBehindOffset ==
    ASSUME listing \subseteq Lot, NEW offset \in 0 .. MaxLots
    PROVE  /\ Page(offset) \subseteq Lot
           /\ Cardinality(Page(offset)) \in Nat
           /\ offset + Cardinality(Page(offset)) <= MaxLots
<1> DEFINE count == Cardinality(listing)
           behind == (offset + 1) .. count
           rank == [l \in Page(offset) |-> Rank(l)]
<1>1. Page(offset) \subseteq Lot /\ Page(offset) \subseteq listing
    BY DEF Page
<1>2. /\ count \in 0 .. MaxLots /\ offset \in Nat /\ MaxLots \in Nat
      /\ Cardinality(Page(offset)) \in Nat
    BY <1>1, LotsAreFew, LotsAssumption
<1>3. /\ IsFiniteSet(behind)
      /\ Cardinality(behind) = IF offset + 1 > count THEN 0 ELSE count - (offset + 1) + 1
    <2>1. offset + 1 \in Int /\ count \in Int
        BY <1>2
    <2> HIDE DEF count
    <2> QED  BY <2>1, FS_Interval
<1>4. rank \in Injection(Page(offset), behind)
    <2>1. \A l \in Page(offset) : Rank(l) \in behind
        <3> SUFFICES ASSUME NEW l \in Page(offset) PROVE Rank(l) \in behind
            OBVIOUS
        <3>1. Rank(l) \in Nat /\ Rank(l) <= count /\ offset < Rank(l)
            BY <1>1, RankBounds DEF Page
        <3> QED  BY <1>2, <3>1
    <2>2. \A k, l \in Page(offset) : rank[k] = rank[l] => k = l
        <3> SUFFICES ASSUME NEW k \in Page(offset), NEW l \in Page(offset), k # l
                     PROVE  Rank(k) # Rank(l)
            OBVIOUS
        <3>1. k \in Int /\ l \in Int
            BY <1>1, LotsAssumption DEF Lot
        <3>2. k < l \/ l < k
            BY <3>1
        <3> QED  BY <1>1, <3>2, RanksDiffer
    <2> HIDE DEF behind
    <2>3. rank \in [Page(offset) -> behind]
        BY <2>1
    <2> QED  BY <2>2, <2>3 DEF Injection, IsInjective
<1>5. Cardinality(Page(offset)) <= Cardinality(behind)
    BY <1>3, <1>4, FS_Injection
<1> HIDE DEF count
<1> QED  BY <1>1, <1>2, <1>3, <1>5

-----------------------------------------------------------------------------
(* The types. *)

\* The bounds of the model are numbers.
LEMMA Bounds ==
    /\ MaxLots \in Nat /\ 0 \in 0 .. MaxLots
    /\ Idle \in SessionRecord
    /\ Worker \in Process /\ Request \subseteq Process
<1>1. MaxLots \in Nat /\ 0 \in 0 .. MaxLots
    BY LotsAssumption
<1> QED  BY <1>1 DEF Idle, SessionRecord, Phase, Process

\* The sessions are records of their type.
LEMMA Sessions == TypeOK => session \in [Process -> SessionRecord]
BY DEF TypeOK, SessionRecord, Phase

\* A step that writes only one session keeps the types if it writes a session.
LEMMA EnterKeepsTypes ==
    ASSUME TypeOK, NEW p \in Process, NEW s \in SessionRecord, Enter(p, s),
           UNCHANGED <<listing, tables, changes>>,
           requests' \in 0 .. MaxRequests, faults' \in 0 .. MaxFaults
    PROVE  TypeOK'
<1>1. session' \in [Process -> SessionRecord]
    BY Sessions DEF Enter
<1>2. session' \in [Process -> [phase : {"idle", "fetching", "fetched", "storing",
                                         "selected", "stored", "reading"},
                                total : 0 .. MaxLots, offset : 0 .. MaxLots,
                                records : SUBSET Lot, existing : SUBSET Lot,
                                stamped : SUBSET Lot, gone : Nat]]
    BY <1>1 DEF SessionRecord, Phase
<1> QED  BY <1>2 DEF TypeOK, tables

\* A page of a download.
LEMMA FetchPageKeepsTypes ==
    ASSUME TypeOK, NEW p \in Process, FetchPage(p)
    PROVE  TypeOK'
<1> DEFINE page == Page(session[p].offset)
           offset == NextOffset(p, page)
           records == session[p].records \cup page
           got == [session[p] EXCEPT !.offset = offset, !.records = records]
<1>1. session[p] \in SessionRecord /\ listing \subseteq Lot
    BY Sessions DEF TypeOK
<1>2. session[p].offset \in 0 .. MaxLots /\ session[p].records \subseteq Lot
    BY <1>1 DEF SessionRecord
<1>3. /\ page \subseteq Lot /\ Cardinality(page) \in Nat
      /\ session[p].offset + Cardinality(page) <= MaxLots
    BY <1>1, <1>2, PageIsBehindOffset
<1>4. offset \in 0 .. MaxLots
    <2> HIDE DEF page
    <2> QED  BY <1>2, <1>3, Bounds DEF NextOffset
<1>5. records \subseteq Lot
    BY <1>2, <1>3
<1>6. /\ got \in SessionRecord
      /\ [got EXCEPT !.phase = "fetched", !.gone = 0] \in SessionRecord
    <2> HIDE DEF page, offset, records
    <2> QED  BY <1>1, <1>4, <1>5, Bounds DEF SessionRecord, Phase
<1>7. \E s \in {got, [got EXCEPT !.phase = "fetched", !.gone = 0], Idle} :
          Enter(p, s)
    BY DEF FetchPage
<1>8. UNCHANGED <<listing, tables, changes, requests, faults>>
    BY DEF FetchPage
<1> HIDE DEF got
<1> QED  BY <1>6, <1>7, <1>8, Bounds, EnterKeepsTypes DEF TypeOK

\* A snapshot is stored, and the session goes on to its outcome.
LEMMA StoreLotsKeepsTypes ==
    ASSUME TypeOK, NEW p \in Process, NEW outcome \in SessionRecord, StoreLots(p, outcome),
           fetched' = TRUE, total' \in 0 .. MaxLots,
           UNCHANGED <<listing, changes, requests, faults>>
    PROVE  TypeOK'
<1>1. session \in [Process -> SessionRecord]
    BY Sessions
<1>2. session[p].records \subseteq Lot
    BY <1>1 DEF SessionRecord
<1>3. latest' \subseteq Lot /\ active' \subseteq Lot
    BY <1>2 DEF StoreLots, TypeOK
<1>4. session' \in [Process -> SessionRecord]
    <2>1. \A q \in Process :
            [session[q] EXCEPT !.stamped = @ \ session[p].records] \in SessionRecord
        BY <1>1 DEF SessionRecord
    <2> QED  BY <2>1 DEF StoreLots
<1>5. session' \in [Process -> [phase : {"idle", "fetching", "fetched", "storing",
                                         "selected", "stored", "reading"},
                                total : 0 .. MaxLots, offset : 0 .. MaxLots,
                                records : SUBSET Lot, existing : SUBSET Lot,
                                stamped : SUBSET Lot, gone : Nat]]
    BY <1>4 DEF SessionRecord, Phase
<1> QED  BY <1>3, <1>5 DEF TypeOK

\* The worker's steps.
LEMMA WorkerKeepsTypes == TypeOK /\ (WorkerNext \/ FailSave) => TypeOK'
<1> SUFFICES ASSUME TypeOK, WorkerNext \/ FailSave PROVE TypeOK'
    OBVIOUS
<1>1. session[Worker] \in SessionRecord /\ active \subseteq Lot
    BY Sessions, Bounds DEF TypeOK
<1>2. CASE ClaimLot
    <2>1. [Idle EXCEPT !.phase = "fetching"] \in SessionRecord
        BY Bounds DEF SessionRecord, Phase
    <2> QED  BY <1>2, <2>1, Bounds, EnterKeepsTypes DEF ClaimLot, TypeOK
<1>3. CASE FetchPage(Worker)
    BY <1>3, FetchPageKeepsTypes, Bounds
<1>4. CASE BeginSave
    <2>1. [session[Worker] EXCEPT !.phase = "storing", !.existing = Existing] \in SessionRecord
        BY <1>1 DEF SessionRecord, Phase, Existing
    <2> QED  BY <1>4, <2>1, Bounds, EnterKeepsTypes DEF BeginSave, TypeOK
<1>5. CASE CommitSave
    <2>1. total' \in 0 .. MaxLots
        BY <1>1, <1>5, LotsAreFew DEF CommitSave, SessionRecord
    <2> QED  BY <1>5, <2>1, Bounds, StoreLotsKeepsTypes DEF CommitSave
<1>6. CASE FailSave
    <2>1. faults' \in 0 .. MaxFaults
        BY <1>6, LotsAssumption DEF FailSave, TypeOK
    <2> QED  BY <1>6, <2>1, Bounds, EnterKeepsTypes DEF FailSave, TypeOK
<1> QED  BY <1>2, <1>3, <1>4, <1>5, <1>6 DEF WorkerNext

\* A request's steps.
LEMMA RequestKeepsTypes ==
    ASSUME TypeOK, NEW p \in Request, Open(p) \/ RequestNext(p)
    PROVE  TypeOK'
<1>1. /\ session[p] \in SessionRecord /\ p \in Process
      /\ active \subseteq Lot /\ latest \subseteq Lot /\ total \in 0 .. MaxLots
    BY Sessions, Bounds DEF TypeOK
<1>2. CASE Open(p)
    <2>1. requests' \in 0 .. MaxRequests
        BY <1>2, LotsAssumption DEF Open, TypeOK
    <2>2. /\ [Idle EXCEPT !.phase = "fetching", !.total = total] \in SessionRecord
          /\ [Idle EXCEPT !.phase = "reading", !.total = total, !.stamped = latest]
                 \in SessionRecord
        BY <1>1, Bounds DEF SessionRecord, Phase
    <2> QED  BY <1>1, <1>2, <2>1, <2>2, EnterKeepsTypes DEF Open, TypeOK
<1>3. CASE FetchPage(p)
    BY <1>1, <1>3, FetchPageKeepsTypes
<1>4. CASE Select(p)
    <2>1. [session[p] EXCEPT !.phase = "selected", !.existing = Existing] \in SessionRecord
        BY <1>1 DEF SessionRecord, Phase, Existing
    <2> QED  BY <1>1, <1>4, <2>1, EnterKeepsTypes DEF Select, TypeOK
<1>5. CASE Store(p)
    <2>1. [session[p] EXCEPT !.phase = "stored"] \in SessionRecord
        BY <1>1 DEF SessionRecord, Phase
    <2> QED  BY <1>1, <1>5, <2>1, EnterKeepsTypes DEF Store, TypeOK
<1>6. CASE Commit(p)
    <2> DEFINE count == Cardinality(session[p].records)
               outcome == [Idle EXCEPT !.phase = "reading", !.total = count,
                                       !.stamped = session[p].records]
    <2>1. session[p].records \subseteq Lot /\ count \in 0 .. MaxLots
        BY <1>1, LotsAreFew DEF SessionRecord
    <2>2. outcome \in SessionRecord
        BY <2>1, Bounds DEF SessionRecord, Phase
    <2>3. /\ StoreLots(p, outcome) /\ fetched' = TRUE
          /\ total' = IF count = session[p].total THEN total ELSE count
          /\ UNCHANGED <<listing, changes, requests, faults>>
        BY <1>6 DEF Commit
    <2> HIDE DEF outcome, count
    <2>4. total' \in 0 .. MaxLots
        BY <1>1, <2>1, <2>3
    <2> QED  BY <1>1, <2>2, <2>3, <2>4, StoreLotsKeepsTypes
<1>7. CASE Reply(p)
    BY <1>1, <1>7, Bounds, EnterKeepsTypes DEF Reply, TypeOK
<1>8. CASE BreakDeadlock(p)
    <2>1. PICK victim \in {Worker, p} : Enter(victim, Idle)
        BY <1>8 DEF BreakDeadlock
    <2>2. victim \in Process
        BY <1>1, Bounds
    <2> QED  BY <1>8, <2>1, <2>2, Bounds, EnterKeepsTypes DEF BreakDeadlock, TypeOK
<1> QED  BY <1>2, <1>3, <1>4, <1>5, <1>6, <1>7, <1>8 DEF RequestNext

\* A lot comes or goes.
LEMMA ChangeKeepsTypes ==
    ASSUME TypeOK, NEW l \in Lot, Change(l)
    PROVE  TypeOK'
<1>1. session \in [Process -> SessionRecord]
    BY Sessions
<1>2. changes' \in 0 .. MaxChanges /\ listing' \subseteq Lot
    BY LotsAssumption DEF Change, TypeOK
<1>3. session' \in [Process -> SessionRecord]
    <2>1. \A p \in Process : [session[p] EXCEPT !.gone = @ + 1] \in SessionRecord
        BY <1>1 DEF SessionRecord
    <2> QED  BY <1>1, <2>1 DEF Change
<1>4. session' \in [Process -> [phase : {"idle", "fetching", "fetched", "storing",
                                         "selected", "stored", "reading"},
                                total : 0 .. MaxLots, offset : 0 .. MaxLots,
                                records : SUBSET Lot, existing : SUBSET Lot,
                                stamped : SUBSET Lot, gone : Nat]]
    BY <1>3 DEF SessionRecord, Phase
<1> QED  BY <1>2, <1>4 DEF Change, TypeOK, tables

\* The variables keep their types; above all, no offset passes MaxLots, although the
\* listing changes between the pages of a download (_collect_lot_snapshot).
THEOREM TypeCorrect == Spec => []TypeOK
<1>1. Init => TypeOK
    <2> SUFFICES ASSUME Init PROVE TypeOK
        OBVIOUS
    <2>1. session \in [Process -> SessionRecord]
        BY Bounds DEF Init
    <2>2. 0 \in 0 .. MaxChanges /\ 0 \in 0 .. MaxRequests /\ 0 \in 0 .. MaxFaults
        BY LotsAssumption
    <2> QED  BY <2>1, <2>2, Bounds DEF Init, TypeOK, SessionRecord, Phase
<1>2. TypeOK /\ [Next]_vars => TypeOK'
    <2> SUFFICES ASSUME TypeOK, [Next]_vars PROVE TypeOK'
        OBVIOUS
    <2>1. CASE WorkerNext \/ FailSave
        BY <2>1, WorkerKeepsTypes
    <2>2. CASE \E p \in Request : Open(p) \/ RequestNext(p)
        BY <2>2, RequestKeepsTypes
    <2>3. ASSUME NEW l \in Lot, Change(l) PROVE TypeOK'
        BY <2>3, ChangeKeepsTypes
    <2>4. CASE UNCHANGED vars
        BY <2>4 DEF vars, tables, TypeOK
    <2> QED  BY <2>1, <2>2, <2>3, <2>4 DEF Next
<1> QED  BY <1>1, <1>2, PTL DEF Spec

-----------------------------------------------------------------------------
(* What a download lacks. *)

\* What a session has downloaded and is not listed any more has gone since it began.
GoneAreCounted ==
    \A p \in Process :
        session[p].phase = "fetching" =>
            Cardinality(session[p].records \ listing) <= session[p].gone

\* A download that begins has nothing, and nothing of it has gone.
LEMMA NothingGone == Cardinality({} \ listing) = 0 /\ Idle.gone = 0
<1>1. {} \ listing = {}
    OBVIOUS
<1> QED  BY <1>1, FS_EmptySet DEF Idle

\* Two sets of lots with as many elements lack each other by as many.
LEMMA DifferencesAreEqual ==
    ASSUME NEW S \in SUBSET Lot, NEW T \in SUBSET Lot, Cardinality(S) = Cardinality(T)
    PROVE  Cardinality(S \ T) = Cardinality(T \ S)
<1>1. IsFiniteSet(S) /\ IsFiniteSet(T)
    BY LotsAreFew
<1>2. /\ Cardinality(S \ T) = Cardinality(S) - Cardinality(S \cap T)
      /\ Cardinality(T \ S) = Cardinality(T) - Cardinality(T \cap S)
    BY <1>1, FS_Difference
<1>3. S \cap T = T \cap S
    OBVIOUS
<1> QED  BY <1>2, <1>3

\* The lots that are gone stay those that have been counted.
LEMMA GoneStep == TypeOK /\ GoneAreCounted /\ [Next]_vars => GoneAreCounted'
<1> SUFFICES ASSUME TypeOK, GoneAreCounted, [Next]_vars,
                    NEW q \in Process, session'[q].phase = "fetching"
             PROVE  Cardinality(session'[q].records \ listing') <= session'[q].gone
    BY DEF GoneAreCounted
<1>1. /\ session \in [Process -> SessionRecord] /\ listing \subseteq Lot
      /\ session[q] \in SessionRecord
    BY Sessions DEF TypeOK
<1>2. CASE /\ listing' = listing /\ session[q].phase = "fetching"
           /\ session'[q].records \ listing = session[q].records \ listing
           /\ session'[q].gone = session[q].gone
    BY <1>2 DEF GoneAreCounted
<1>3. CASE listing' = listing /\ session'[q].records = {} /\ session'[q].gone = 0
    BY <1>3, NothingGone
<1>4. ASSUME NEW p \in Process, NEW s \in SessionRecord, Enter(p, s), listing' = listing,
             s.phase # "fetching" \/ (s.records = {} /\ s.gone = 0)
      PROVE  Cardinality(session'[q].records \ listing') <= session'[q].gone
    <2>1. CASE p = q
        <3>1. session'[q] = s
            BY <1>1, <1>4, <2>1 DEF Enter
        <3> QED  BY <1>3, <1>4, <3>1
    <2>2. CASE p # q
        <3>1. session'[q] = session[q]
            BY <1>1, <1>4, <2>2 DEF Enter
        <3> QED  BY <1>2, <1>4, <3>1
    <2> QED  BY <2>1, <2>2
<1>5. ASSUME NEW p \in Process, NEW outcome \in SessionRecord, StoreLots(p, outcome),
             listing' = listing, outcome.phase # "fetching"
      PROVE  Cardinality(session'[q].records \ listing') <= session'[q].gone
    <2>1. p # q /\ session'[q] = [session[q] EXCEPT !.stamped = @ \ session[p].records]
        BY <1>5 DEF StoreLots
    <2>2. /\ session'[q].records = session[q].records
          /\ session'[q].gone = session[q].gone /\ session[q].phase = "fetching"
        BY <1>1, <2>1 DEF SessionRecord
    <2> QED  BY <1>2, <1>5, <2>2
<1>6. ASSUME NEW p \in Process, FetchPage(p)
      PROVE  Cardinality(session'[q].records \ listing') <= session'[q].gone
    <2> DEFINE page == Page(session[p].offset)
               records == session[p].records \cup page
               got == [session[p] EXCEPT !.offset = NextOffset(p, page), !.records = records]
    <2>1. PICK s \in {got, [got EXCEPT !.phase = "fetched", !.gone = 0], Idle} :
               Enter(p, s)
        BY <1>6 DEF FetchPage
    <2>2. listing' = listing /\ session[p].phase = "fetching" /\ page \subseteq listing
        BY <1>6 DEF FetchPage, Page
    <2>3. /\ got.phase = session[p].phase /\ got.records = records
          /\ got.gone = session[p].gone
          /\ [got EXCEPT !.phase = "fetched", !.gone = 0].phase = "fetched"
        BY <1>1 DEF SessionRecord
    <2> HIDE DEF page, got
    <2>4. CASE p # q
        <3>1. session'[q] = session[q]
            BY <1>1, <2>1, <2>4 DEF Enter
        <3> QED  BY <1>2, <2>2, <3>1
    <2>5. CASE p = q
        <3>1. session'[q] = s
            BY <1>1, <2>1, <2>5 DEF Enter
        <3>2. s = got
            <4>1. session'[q].phase = "fetching" /\ Idle.phase = "idle"
                BY DEF Idle
            <4> QED  BY <2>3, <3>1, <4>1
        <3>3. session'[q].records \ listing = session[q].records \ listing
            BY <2>2, <2>3, <2>5, <3>1, <3>2
        <3> QED  BY <1>2, <2>2, <2>3, <2>5, <3>1, <3>2, <3>3
    <2> QED  BY <2>4, <2>5
<1>7. ASSUME NEW l \in Lot, Change(l)
      PROVE  Cardinality(session'[q].records \ listing') <= session'[q].gone
    <2> DEFINE before == session[q].records \ listing
               after == session[q].records \ listing'
    <2>1. session'[q].records = session[q].records /\ session[q].phase = "fetching"
        BY <1>1, <1>7 DEF Change, SessionRecord
    <2>2. /\ Cardinality(before) <= session[q].gone
          /\ session[q].records \subseteq Lot /\ session[q].gone \in Nat
        BY <1>1, <2>1 DEF GoneAreCounted, SessionRecord
    <2>3. IsFiniteSet(before) /\ Cardinality(before) \in Nat
        BY <2>2, LotsAreFew
    <2>4. CASE l \notin listing
        <3>1. after \subseteq before /\ session'[q] = session[q]
            BY <1>7, <2>4 DEF Change
        <3>2. Cardinality(after) <= Cardinality(before) /\ Cardinality(after) \in Nat
            BY <2>3, <3>1, FS_Subset, FS_CardinalityType
        <3> HIDE DEF before, after
        <3> QED  BY <2>1, <2>2, <2>3, <3>1, <3>2 DEF after
    <2>5. CASE l \in listing
        <3>1. after \subseteq before \cup {l} /\ session'[q].gone = session[q].gone + 1
            BY <1>1, <1>7, <2>1, <2>5 DEF Change, SessionRecord
        <3>2. /\ IsFiniteSet(before \cup {l})
              /\ Cardinality(before \cup {l}) <= Cardinality(before) + 1
              /\ Cardinality(before \cup {l}) \in Nat
            <4> HIDE DEF before
            <4>1. /\ IsFiniteSet(before \cup {l})
                  /\ \/ Cardinality(before \cup {l}) = Cardinality(before)
                     \/ Cardinality(before \cup {l}) = Cardinality(before) + 1
                BY <2>3, FS_AddElement
            <4> QED  BY <2>3, <4>1
        <3>3. Cardinality(after) <= Cardinality(before \cup {l}) /\ Cardinality(after) \in Nat
            BY <3>1, <3>2, FS_Subset, FS_CardinalityType
        <3> HIDE DEF before, after
        <3> QED  BY <2>1, <2>2, <2>3, <3>1, <3>2, <3>3 DEF after
    <2> QED  BY <2>4, <2>5
<1>8. CASE UNCHANGED vars
    BY <1>2, <1>8 DEF vars
<1>9. CASE WorkerNext \/ FailSave
    <2>1. CASE ClaimLot
        <3>1. /\ [Idle EXCEPT !.phase = "fetching"] \in SessionRecord
              /\ [Idle EXCEPT !.phase = "fetching"].records = {}
              /\ [Idle EXCEPT !.phase = "fetching"].gone = 0
            BY Bounds DEF SessionRecord, Phase, Idle
        <3> QED  BY <1>4, <2>1, <3>1, Bounds DEF ClaimLot
    <2>2. CASE FetchPage(Worker)
        BY <1>6, <2>2, Bounds
    <2>3. CASE BeginSave
        <3>1. [session[Worker] EXCEPT !.phase = "storing", !.existing = Existing]
                  \in SessionRecord
            BY <1>1, Bounds DEF SessionRecord, Phase, Existing, TypeOK
        <3>2. [session[Worker] EXCEPT !.phase = "storing", !.existing = Existing].phase
                  = "storing"
            BY <1>1, Bounds DEF SessionRecord
        <3> QED  BY <1>4, <2>3, <3>1, <3>2, Bounds DEF BeginSave
    <2>4. CASE CommitSave
        BY <1>5, <2>4, Bounds DEF CommitSave, Idle
    <2>5. CASE FailSave
        BY <1>4, <2>5, Bounds DEF FailSave, Idle
    <2> QED  BY <1>9, <2>1, <2>2, <2>3, <2>4, <2>5 DEF WorkerNext
<1>10. ASSUME NEW p \in Request, Open(p) \/ RequestNext(p)
       PROVE  Cardinality(session'[q].records \ listing') <= session'[q].gone
    <2>1. p \in Process /\ session[p] \in SessionRecord
        BY <1>1, Bounds
    <2>2. CASE Open(p)
        <3> DEFINE asks == [Idle EXCEPT !.phase = "fetching", !.total = total]
                   reads == [Idle EXCEPT !.phase = "reading", !.total = total,
                                         !.stamped = latest]
        <3>1. asks \in SessionRecord /\ reads \in SessionRecord
            BY Bounds DEF SessionRecord, Phase, TypeOK
        <3>2. asks.records = {} /\ asks.gone = 0 /\ reads.phase = "reading"
            BY DEF Idle
        <3>3. Enter(p, asks) \/ Enter(p, reads)
            BY <2>2 DEF Open
        <3>4. listing' = listing
            BY <2>2 DEF Open
        <3> HIDE DEF asks, reads
        <3> QED  BY <1>4, <2>1, <3>1, <3>2, <3>3, <3>4
    <2>3. CASE FetchPage(p)
        BY <1>6, <2>1, <2>3
    <2>4. CASE Select(p)
        <3>1. [session[p] EXCEPT !.phase = "selected", !.existing = Existing]
                  \in SessionRecord
            BY <2>1 DEF SessionRecord, Phase, Existing, TypeOK
        <3>2. [session[p] EXCEPT !.phase = "selected", !.existing = Existing].phase
                  = "selected"
            BY <2>1 DEF SessionRecord
        <3> QED  BY <1>4, <2>1, <2>4, <3>1, <3>2 DEF Select
    <2>5. CASE Store(p)
        <3>1. /\ [session[p] EXCEPT !.phase = "stored"] \in SessionRecord
              /\ [session[p] EXCEPT !.phase = "stored"].phase = "stored"
            BY <2>1 DEF SessionRecord, Phase
        <3> QED  BY <1>4, <2>1, <2>5, <3>1 DEF Store
    <2>6. CASE Commit(p)
        <3> DEFINE count == Cardinality(session[p].records)
                   outcome == [Idle EXCEPT !.phase = "reading", !.total = count,
                                           !.stamped = session[p].records]
        <3>1. outcome \in SessionRecord /\ outcome.phase = "reading"
            <4>1. session[p].records \subseteq Lot /\ count \in 0 .. MaxLots
                BY <2>1, LotsAreFew DEF SessionRecord
            <4> QED  BY <4>1, Bounds DEF SessionRecord, Phase, Idle
        <3>2. StoreLots(p, outcome) /\ listing' = listing
            BY <2>6 DEF Commit
        <3> HIDE DEF outcome
        <3> QED  BY <1>5, <2>1, <3>1, <3>2
    <2>7. CASE Reply(p)
        BY <1>4, <2>1, <2>7, Bounds DEF Reply, Idle
    <2>8. CASE BreakDeadlock(p)
        <3>1. PICK victim \in {Worker, p} : Enter(victim, Idle)
            BY <2>8 DEF BreakDeadlock
        <3> QED  BY <1>4, <2>1, <2>8, <3>1, Bounds DEF BreakDeadlock, Idle
    <2> QED  BY <1>10, <2>2, <2>3, <2>4, <2>5, <2>6, <2>7, <2>8 DEF RequestNext
<1> QED  BY <1>7, <1>8, <1>9, <1>10 DEF Next

\* A download ends with a page of its own.
LEMMA OnlyPagesEndDownloads ==
    ASSUME TypeOK, [Next]_vars, NEW p \in Process,
           session[p].phase = "fetching", session'[p].phase = "fetched"
    PROVE  FetchPage(p)
<1>1. session \in [Process -> SessionRecord] /\ session[p] \in SessionRecord
    BY Sessions
<1>2. ASSUME NEW q \in Process, NEW s, Enter(q, s), s.phase # "fetched"
      PROVE  FALSE
    BY <1>1, <1>2 DEF Enter
<1>3. ASSUME NEW q \in Process, q # p, NEW s, Enter(q, s)
      PROVE  FALSE
    BY <1>1, <1>3 DEF Enter
<1>4. ASSUME NEW q \in Process, NEW outcome, StoreLots(q, outcome), outcome.phase # "fetched"
      PROVE  FALSE
    BY <1>1, <1>4 DEF StoreLots, SessionRecord
<1>5. CASE UNCHANGED vars
    BY <1>5 DEF vars
<1>6. ASSUME NEW l \in Lot, Change(l) PROVE FALSE
    BY <1>1, <1>6 DEF Change, SessionRecord
<1>7. ASSUME NEW q \in Process, FetchPage(q) PROVE FetchPage(p)
    BY <1>3, <1>7 DEF FetchPage
<1>8. CASE WorkerNext \/ FailSave
    <2>1. Worker \in Process /\ session[Worker] \in SessionRecord
        BY <1>1, Bounds
    <2>2. CASE ClaimLot
        BY <1>2, <2>1, <2>2 DEF ClaimLot, Idle
    <2>3. CASE BeginSave
        <3>1. [session[Worker] EXCEPT !.phase = "storing", !.existing = Existing].phase
                  = "storing"
            BY <2>1 DEF SessionRecord
        <3> QED  BY <1>2, <2>1, <2>3, <3>1 DEF BeginSave
    <2>4. CASE CommitSave
        BY <1>4, <2>1, <2>4 DEF CommitSave, Idle
    <2>5. CASE FailSave
        BY <1>2, <2>1, <2>5 DEF FailSave, Idle
    <2> QED  BY <1>7, <1>8, <2>1, <2>2, <2>3, <2>4, <2>5 DEF WorkerNext
<1>9. ASSUME NEW q \in Request, Open(q) \/ RequestNext(q) PROVE FetchPage(p)
    <2>1. q \in Process /\ session[q] \in SessionRecord
        BY <1>1, Bounds
    <2>2. CASE Open(q)
        <3> DEFINE asks == [Idle EXCEPT !.phase = "fetching", !.total = total]
                   reads == [Idle EXCEPT !.phase = "reading", !.total = total,
                                         !.stamped = latest]
        <3>1. asks.phase # "fetched" /\ reads.phase # "fetched"
            BY DEF Idle
        <3>2. Enter(q, asks) \/ Enter(q, reads)
            BY <2>2 DEF Open
        <3> HIDE DEF asks, reads
        <3> QED  BY <1>2, <2>1, <3>1, <3>2
    <2>3. CASE Select(q)
        <3>1. [session[q] EXCEPT !.phase = "selected", !.existing = Existing].phase
                  = "selected"
            BY <2>1 DEF SessionRecord
        <3> QED  BY <1>2, <2>1, <2>3, <3>1 DEF Select
    <2>4. CASE Store(q)
        <3>1. [session[q] EXCEPT !.phase = "stored"].phase = "stored"
            BY <2>1 DEF SessionRecord
        <3> QED  BY <1>2, <2>1, <2>4, <3>1 DEF Store
    <2>5. CASE Commit(q)
        <3> DEFINE outcome == [Idle EXCEPT !.phase = "reading",
                                           !.total = Cardinality(session[q].records),
                                           !.stamped = session[q].records]
        <3>1. outcome.phase # "fetched"
            BY DEF Idle
        <3>2. StoreLots(q, outcome)
            BY <2>5 DEF Commit
        <3> HIDE DEF outcome
        <3> QED  BY <1>4, <2>1, <3>1, <3>2
    <2>6. CASE Reply(q)
        BY <1>2, <2>1, <2>6 DEF Reply, Idle
    <2>7. CASE BreakDeadlock(q)
        <3>1. PICK victim \in {Worker, q} : Enter(victim, Idle)
            BY <2>7 DEF BreakDeadlock
        <3> QED  BY <1>2, <2>1, <3>1, Bounds DEF Idle
    <2> QED  BY <1>7, <1>9, <2>1, <2>2, <2>3, <2>4, <2>5, <2>6, <2>7 DEF RequestNext
<1> QED  BY <1>5, <1>6, <1>7, <1>8, <1>9 DEF Next

\* A snapshot that passes its checks has as many lots as the listing, so it lacks
\* as many as it has too many, and these have all left the market meanwhile
\* (_collect_lot_snapshot, _fetch_all_lots).
THEOREM SnapshotIsAlmostRight == Spec => SnapshotLacksFew
<1> DEFINE Lacks(p) == session[p].phase = "fetching" /\ session'[p].phase = "fetched" =>
                           Cardinality(listing \ session'[p].records) <= session[p].gone
<1>1. Init => GoneAreCounted
    BY DEF Init, GoneAreCounted, Idle
<1>2. TypeOK /\ GoneAreCounted /\ [Next]_vars => \A p \in Process : Lacks(p)
    <2> SUFFICES ASSUME TypeOK, GoneAreCounted, [Next]_vars, NEW p \in Process,
                        session[p].phase = "fetching", session'[p].phase = "fetched"
                 PROVE  Cardinality(listing \ session'[p].records) <= session[p].gone
        OBVIOUS
    <2>1. /\ session \in [Process -> SessionRecord] /\ listing \subseteq Lot
          /\ session[p] \in SessionRecord
        BY Sessions DEF TypeOK
    <2>2. FetchPage(p)
        BY <2>1, OnlyPagesEndDownloads
    <2> DEFINE page == Page(session[p].offset)
               records == session[p].records \cup page
               got == [session[p] EXCEPT !.offset = NextOffset(p, page), !.records = records]
               done == [got EXCEPT !.phase = "fetched", !.gone = 0]
    <2>3. \/ Enter(p, done) /\ Cardinality(records) = Cardinality(listing)
          \/ Enter(p, got) \/ Enter(p, Idle)
        BY <2>2 DEF FetchPage, Complete
    <2>4. got.phase = "fetching" /\ done.records = records /\ Idle.phase = "idle"
        BY <2>1 DEF SessionRecord, Idle
    <2>5. \A s : Enter(p, s) => session'[p] = s
        BY <2>1 DEF Enter
    <2>6. page \subseteq listing /\ records \subseteq Lot
        BY <2>1 DEF Page, SessionRecord
    <2>7. session'[p].records = records /\ Cardinality(records) = Cardinality(listing)
        <3> HIDE DEF got, done, records
        <3> QED  BY <2>3, <2>4, <2>5
    <2>8. records \ listing = session[p].records \ listing
        BY <2>6
    <2>9. Cardinality(listing \ records) = Cardinality(records \ listing)
        <3> HIDE DEF records
        <3> QED  BY <2>1, <2>6, <2>7, DifferencesAreEqual
    <2>10. Cardinality(session[p].records \ listing) <= session[p].gone
        BY DEF GoneAreCounted
    <2> QED  BY <2>7, <2>8, <2>9, <2>10
<1> QED  BY <1>1, <1>2, TypeCorrect, GoneStep, PTL DEF Spec, SnapshotLacksFew

==============================================================================
