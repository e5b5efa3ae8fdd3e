---------------------------- MODULE LotSnapshots ----------------------------
(***************************************************************************)
(* The active lots of ONE item: the snapshots that the lot loop of         *)
(* app/modules/history/worker.py and the requests to GET /items/{id}/lots  *)
(* (get_or_refresh_active_lots in app/modules/history/service.py) collect  *)
(* page by page and store in auction_lots and lot_poll_states, and the     *)
(* replies read from there.                                                *)
(*                                                                         *)
(* The worker and the API are two processes on one database, at READ       *)
(* COMMITTED.  A step is what one statement, or several under one row      *)
(* lock, do.  The writes of a transaction become visible when it commits;  *)
(* until then the rows it wrote are locked.                                *)
(*                                                                         *)
(* Times are left out, but for what they tell apart: which lots carry the  *)
(* time of the latest snapshot, and which the time a reply goes by.        *)
(***************************************************************************)
EXTENDS Integers, FiniteSets

CONSTANTS
    MaxLots,      \* lots 1..MaxLots, listed in this order
    PageSize,     \* lots_page_size, and the 200 of _fetch_all_lots
    Slots,        \* the requests the API serves at the same time are 1..Slots
    MaxRequests,  \* bound of the model: requests in all
    MaxChanges,   \* bound of the model: lots that come or go
    MaxFaults     \* bound of the model: failed polls and restarts

ASSUME LotsAssumption ==
    /\ MaxLots \in Nat /\ Slots \in Nat /\ PageSize \in Nat \ {0}
    /\ MaxRequests \in Nat /\ MaxChanges \in Nat /\ MaxFaults \in Nat

VARIABLES
    listing,      \* upstream: the lots on the market
    latest,       \* AuctionLot: the lots with last_seen_at = last_success_at
    active,       \* AuctionLot: the active lots
    fetched,      \* LotPollState.last_success_at is not NULL
    total,        \* LotPollState.total_lots
    session,      \* what the worker (0) and the requests (1..Slots) are doing
    changes, requests, faults

tables == <<latest, active, fetched, total>>
vars == <<listing, tables, session, changes, requests, faults>>

Lot == 1 .. MaxLots
Worker == 0
Request == 1 .. Slots
Process == {Worker} \cup Request

\* total: total_lots as the session loaded or set it.  offset, records: the
\* download.  existing: the lots it found active before storing them.
\* stamped: the lots with the last_seen_at its reply goes by.  gone, which the
\* code does not have: how many lots have left the market during the download.
Idle == [phase |-> "idle", total |-> 0, offset |-> 0, records |-> {},
         existing |-> {}, stamped |-> {}, gone |-> 0]

Enter(p, s) == session' = [session EXCEPT ![p] = s]

\* The rows a session has to lock to store its records.
Rows(p) == session[p].records \cup session[p].existing

-----------------------------------------------------------------------------
(* The world. *)

\* A lot is put on the market, sold, or runs out.
Change(l) ==
    /\ changes < MaxChanges
    /\ changes' = changes + 1
    /\ \/ /\ l \notin listing
          /\ listing' = listing \cup {l}
          /\ UNCHANGED session
       \/ /\ l \in listing
          /\ listing' = listing \ {l}
          /\ session' = [p \in Process |->
                            IF session[p].phase = "fetching"
                            THEN [session[p] EXCEPT !.gone = @ + 1] ELSE session[p]]
    /\ UNCHANGED <<tables, requests, faults>>

-----------------------------------------------------------------------------
(* The download, the same in the worker and in the API. *)

Rank(l) == Cardinality({k \in listing : k <= l})
Page(offset) == {l \in listing : offset < Rank(l) /\ Rank(l) <= offset + PageSize}

\* A slip: the offset moves on by all that the download holds.
NextOffsetByRecords(p, page) ==
    session[p].offset + Cardinality(session[p].records \cup page)

NextOffset(p, page) == session[p].offset + Cardinality(page)

\* A slip: the offset has reached the total, and that is taken for all lots.
CompleteAtEnd(records, count) == TRUE

\* What is left of the pages without their repetitions: as many lots as the total.
Complete(records, count) == Cardinality(records) = count

\* _collect_lot_snapshot, _fetch_all_lots: pages until the offset reaches the
\* total of the latest reply; an empty page before, or a number of distinct
\* lots other than that total, is an error.
FetchPage(p) ==
    LET page == Page(session[p].offset)
        offset == NextOffset(p, page)
        records == session[p].records \cup page
        count == Cardinality(listing)
        got == [session[p] EXCEPT !.offset = offset, !.records = records]
    IN  /\ session[p].phase = "fetching"
        /\ Enter(p, IF offset >= count
                    THEN IF Complete(records, count)
                         THEN [got EXCEPT !.phase = "fetched", !.gone = 0]
                         ELSE Idle
                    ELSE IF page = {} THEN Idle ELSE got)
        /\ UNCHANGED <<listing, tables, changes, requests, faults>>

\* A slip: only lots of the latest snapshot are looked for.
ExistingOfLatest == latest

\* store_lots: the lots that a complete snapshot may find to have disappeared.
Existing == active

\* store_lots, seen from outside: the records are active and carry the time of
\* this snapshot, the other existing lots have disappeared.  A reply that still
\* goes by an older time does not find the records any more.
StoreLots(p, outcome) ==
    LET records == session[p].records
    IN  /\ latest' = records
        /\ active' = records \cup (active \ session[p].existing)
        /\ session' = [q \in Process |->
                          IF q = p THEN outcome
                          ELSE [session[q] EXCEPT !.stamped = @ \ records]]

-----------------------------------------------------------------------------
(* The worker. *)

\* _claim_next_lot: the item is due.
ClaimLot ==
    /\ session[Worker].phase = "idle"
    /\ Enter(Worker, [Idle EXCEPT !.phase = "fetching"])
    /\ UNCHANGED <<listing, tables, changes, requests, faults>>

\* _save_lots_success locks the state row and store_lots reads the active lots.
BeginSave ==
    /\ session[Worker].phase = "fetched"
    /\ Enter(Worker, [session[Worker] EXCEPT !.phase = "storing",
                                             !.existing = Existing])
    /\ UNCHANGED <<listing, tables, changes, requests, faults>>

\* The rows that some request has written but not committed.
LockedRows == UNION {Rows(q) : q \in {q \in Request : session[q].phase = "stored"}}

\* The lots and the state are written, once their rows are free.
CommitSave ==
    /\ session[Worker].phase = "storing"
    /\ Rows(Worker) \cap LockedRows = {}
    /\ StoreLots(Worker, Idle)
    /\ total' = Cardinality(session[Worker].records)
    /\ fetched' = TRUE
    /\ UNCHANGED <<listing, changes, requests, faults>>

\* A request fails, or the process restarts: an open transaction rolls back.
FailSave ==
    /\ session[Worker].phase # "idle"
    /\ faults < MaxFaults
    /\ faults' = faults + 1
    /\ Enter(Worker, Idle)
    /\ UNCHANGED <<listing, tables, changes, requests>>

-----------------------------------------------------------------------------
(* The API. *)

\* The state is loaded, without a lock, and `now` taken.  A state younger than
\* the cache's age is read back at once; otherwise upstream is asked.  Which
\* number a request has means nothing: it takes the first that is free.
Open(p) ==
    /\ session[p].phase = "idle"
    /\ \A q \in Request : session[q].phase = "idle" => p <= q
    /\ requests < MaxRequests
    /\ requests' = requests + 1
    /\ \/ Enter(p, [Idle EXCEPT !.phase = "fetching", !.total = total])
       \/ /\ fetched
          /\ Enter(p, [Idle EXCEPT !.phase = "reading", !.total = total, !.stamped = latest])
    /\ UNCHANGED <<listing, tables, changes, faults>>

\* store_lots: SELECT the active lots.
Select(p) ==
    /\ session[p].phase = "fetched"
    /\ Enter(p, [session[p] EXCEPT !.phase = "selected", !.existing = Existing])
    /\ UNCHANGED <<listing, tables, changes, requests, faults>>

\* store_lots: the upserts and the UPDATE of the disappeared lots, which wait
\* for the rows another request has written.
Store(p) ==
    /\ session[p].phase = "selected"
    /\ Rows(p) \cap LockedRows = {}
    /\ Enter(p, [session[p] EXCEPT !.phase = "stored"])
    /\ UNCHANGED <<listing, tables, changes, requests, faults>>

\* The state is written, once the worker has released it, and all is committed.
\* SQLAlchemy writes the columns whose value differs from the one it loaded.
Commit(p) ==
    /\ session[p].phase = "stored"
    /\ session[Worker].phase # "storing"
    /\ LET records == session[p].records
           count == Cardinality(records)
       IN  /\ StoreLots(p, [Idle EXCEPT !.phase = "reading", !.total = count,
                                        !.stamped = records])
           /\ total' = IF count = session[p].total THEN total ELSE count
           /\ fetched' = TRUE
    /\ UNCHANGED <<listing, changes, requests, faults>>

\* read_active_lots: the state is the session's own copy, the lots are queried.
Reply(p) ==
    /\ session[p].phase = "reading"
    /\ Enter(p, Idle)
    /\ UNCHANGED <<listing, tables, changes, requests, faults>>

\* The worker holds the state row and waits for lots of a request that waits for
\* the state row: the database aborts one of the two.
BreakDeadlock(p) ==
    /\ session[Worker].phase = "storing"
    /\ session[p].phase = "stored"
    /\ Rows(Worker) \cap Rows(p) # {}
    /\ \E victim \in {Worker, p} : Enter(victim, Idle)
    /\ UNCHANGED <<listing, tables, changes, requests, faults>>

-----------------------------------------------------------------------------
(* Specification. *)

Init ==
    /\ listing \in SUBSET Lot
    /\ latest = {} /\ active = {} /\ fetched = FALSE /\ total = 0
    /\ session = [p \in Process |-> Idle]
    /\ changes = 0 /\ requests = 0 /\ faults = 0

WorkerNext == ClaimLot \/ FetchPage(Worker) \/ BeginSave \/ CommitSave
RequestNext(p) ==
    FetchPage(p) \/ Select(p) \/ Store(p) \/ Commit(p) \/ Reply(p) \/ BreakDeadlock(p)

Next ==
    \/ WorkerNext \/ FailSave
    \/ \E p \in Request : Open(p) \/ RequestNext(p)
    \/ \E l \in Lot : Change(l)

Spec == Init /\ [][Next]_vars

\* The worker and every request run on.  A request that waits for the row of the
\* state stands in the queue of its lock: the worker does not take it for ever.
Fairness ==
    /\ WF_vars(WorkerNext)
    /\ \A p \in Request : WF_vars(RequestNext(p)) /\ SF_vars(Commit(p))
FairSpec == Spec /\ Fairness

-----------------------------------------------------------------------------
(* Properties. *)

\* The kinds of value the variables hold.
TypeOK ==
    /\ listing \subseteq Lot
    /\ latest \subseteq Lot /\ active \subseteq Lot
    /\ fetched \in BOOLEAN /\ total \in 0 .. MaxLots
    /\ session \in [Process -> [phase : {"idle", "fetching", "fetched", "storing",
                                         "selected", "stored", "reading"},
                                total : 0 .. MaxLots, offset : 0 .. MaxLots,
                                records : SUBSET Lot, existing : SUBSET Lot,
                                stamped : SUBSET Lot, gone : Nat]]
    /\ changes \in 0 .. MaxChanges /\ requests \in 0 .. MaxRequests
    /\ faults \in 0 .. MaxFaults

\* A snapshot that passes its checks lacks no more lots than have left the market
\* during its download: lots that come, and so move others to the next page to
\* be listed twice, make no snapshot that is incomplete (_collect_lot_snapshot).
SnapshotLacksFew ==
    [][\A p \in Process :
          session[p].phase = "fetching" /\ session'[p].phase = "fetched" =>
              Cardinality(listing \ session'[p].records) <= session[p].gone]_vars

\* Whatever snapshots were mixed up while lots came and went, sessions raced and
\* polls failed: once that ends, the tables come to say what is on the market,
\* and go on saying so.
LotsConverge ==
    <>[](latest = listing /\ active = listing /\ total = Cardinality(listing))

\* README.md: the endpoint "always returns the complete listing": a reply has as
\* many lots as its total says.
ReplyIsComplete ==
    [][\A p \in Request : Reply(p) => Cardinality(session[p].stamped) = session[p].total]_vars

=============================================================================
