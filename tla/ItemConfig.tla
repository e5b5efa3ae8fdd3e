----------------------------- MODULE ItemConfig -----------------------------
(***************************************************************************)
(* The config file of the market items and the directory of the EXBO       *)
(* database it is synchronised with: the admin requests of the API         *)
(* (app/modules/admin/routes.py, service.py) and the updater               *)
(* (app/modules/admin/exbo_updater.py), two processes on one volume.       *)
(*                                                                         *)
(* A database is the set of its items.  A directory without items is none  *)
(* to the code (get_all_items raises), so {} stands for a directory that   *)
(* is not there.  The handlers of the API do not await: none interrupts    *)
(* another.                                                                *)
(***************************************************************************)
EXTENDS Integers

CONSTANTS
    Items,       \* the ids of the items EXBO may ever have
    Status,      \* the statuses the admin gives
    Ignored,     \* MarketStatus.IGNORE
    MaxReleases, \* bound of the model: changes of the archive
    MaxEdits,    \* bound of the model: PUT requests
    MaxSyncs,    \* bound of the model: sync requests
    MaxFailures, \* bound of the model: steps of the updater that fail
    MaxCrashes   \* bound of the model: restarts of the updater

ASSUME ItemsAssumption == Items # {} /\ Ignored \in Status
ASSUME BoundsAssumption ==
    /\ MaxReleases \in Nat /\ MaxEdits \in Nat /\ MaxSyncs \in Nat
    /\ MaxFailures \in Nat /\ MaxCrashes \in Nat

Absent == "absent"
ASSUME AbsentAssumption == Absent \notin Status

VARIABLES
    archive,     \* what the archive URL serves
    database, backup,    \* the mounted directory, and the one named .previous
    file,        \* market_items.json
    updater,     \* the updater: what it is doing and what it holds
    api,         \* the sync request the API is serving
    draft,       \* the config as the admin last read it
    bounds       \* how often the world has interfered

disk == <<database, backup>>
vars == <<archive, disk, file, updater, api, draft, bounds>>

Database == SUBSET Items
Config == [Items -> Status \cup {Absent}]

\* phase; source: the database downloaded; moved: target_was_moved; config, items:
\* what a sync has read; walked: the items whose files it has looked for.
IdleProcess == [phase |-> "idle", source |-> {}, moved |-> FALSE,
                config |-> [i \in Items |-> Absent], items |-> {}, walked |-> {}]

Interferences == {"releases", "edits", "syncs", "failures", "restores", "crashes"}

Happens(what, limit) ==
    /\ bounds[what] < limit
    /\ bounds' = [bounds EXCEPT ![what] = @ + 1]

Listed(config) == {i \in Items : config[i] # Absent}

-----------------------------------------------------------------------------
(* MarketItemsConfigService *)

\* A slip: items of the config that are new to the database are kept too.
MergedWithOld(config, items) ==
    [i \in Items |-> IF config[i] # Absent THEN config[i]
                     ELSE IF i \in items THEN Ignored ELSE Absent]

\* A slip: a new item gets no status.
MergedWithoutDefault(config, items) ==
    [i \in Items |-> IF i \notin items THEN Absent
                     ELSE IF config[i] # Absent THEN config[i] ELSE "none"]

\* sync_items: the items of the database with the statuses of the config.
Merged(config, items) ==
    [i \in Items |-> IF i \notin items THEN Absent
                     ELSE IF config[i] # Absent THEN config[i] ELSE Ignored]

\* GET and PUT /market-items-config: the admin reads the config, and some time
\* later writes it back as a whole, with one status changed.  save_config
\* replaces the file in one step.
GetConfig ==
    /\ api.phase = "idle"
    /\ draft' = file
    /\ UNCHANGED <<archive, disk, file, updater, api, bounds>>

PutConfig(i, status) ==
    /\ api.phase = "idle"
    /\ draft[i] \notin {Absent, status}
    /\ Happens("edits", MaxEdits)
    /\ draft' = [draft EXCEPT ![i] = status]
    /\ file' = draft'
    /\ UNCHANGED <<archive, disk, updater, api>>

\* POST /sync-market-items: the config is read, then get_all_items walks through the
\* directory file by file, while the updater may rename it: an item is found if
\* its file is there when its turn comes, be it in the old database or in the new.
SyncBegin ==
    /\ api.phase = "idle"
    /\ Happens("syncs", MaxSyncs)
    /\ api' = [api EXCEPT !.phase = "walking", !.config = file]
    /\ UNCHANGED <<archive, disk, file, updater, draft>>

SyncWalk(i) ==
    /\ api.phase = "walking" /\ i \notin api.walked
    /\ api' = [api EXCEPT !.walked = @ \cup {i}, !.items = @ \cup ({i} \cap database)]
    /\ UNCHANGED <<archive, disk, file, updater, draft, bounds>>

\* The directory, or a file that it listed, is gone; or no item was found.
SyncFails ==
    /\ api.phase = "walking"
    /\ api' = IdleProcess
    /\ UNCHANGED <<archive, disk, file, updater, draft, bounds>>

SyncSave ==
    /\ api.phase = "walking" /\ api.walked = Items /\ api.items # {}
    /\ file' = Merged(api.config, api.items)
    /\ api' = IdleProcess
    /\ UNCHANGED <<archive, disk, updater, draft, bounds>>

-----------------------------------------------------------------------------
(* ExboDatabaseUpdater.update_once *)

At(phase) == updater.phase = phase
Goto(phase) == updater' = [updater EXCEPT !.phase = phase]

\* The archive is downloaded, extracted and validated: it has items.
Download ==
    /\ At("idle")
    /\ archive # {}
    /\ updater' = [IdleProcess EXCEPT !.phase = "cleaning", !.source = archive]
    /\ UNCHANGED <<archive, disk, file, api, draft, bounds>>

\* _replace_database: a backup that is still there is removed.
RemoveOldBackup ==
    /\ At("cleaning")
    /\ backup' = {}
    /\ Goto("moving")
    /\ UNCHANGED <<archive, database, file, api, draft, bounds>>

\* A slip: the directory is removed where it is.
RemoveTarget ==
    /\ At("moving")
    /\ database' = {}
    /\ updater' = [updater EXCEPT !.phase = "replacing", !.moved = TRUE]
    /\ UNCHANGED <<archive, backup, file, api, draft, bounds>>

\* The directory becomes the backup.
MoveAway ==
    /\ At("moving")
    /\ IF database # {}
       THEN /\ backup' = database /\ database' = {}
            /\ updater' = [updater EXCEPT !.phase = "replacing", !.moved = TRUE]
       ELSE /\ UNCHANGED disk
            /\ Goto("replacing")
    /\ UNCHANGED <<archive, file, api, draft, bounds>>

\* The downloaded one takes its place.
MoveIn ==
    /\ At("replacing")
    /\ database' = updater.source
    /\ Goto("replaced")
    /\ UNCHANGED <<archive, backup, file, api, draft, bounds>>

\* `finally`, after a success or a failure: the backup is removed.  Only a success
\* goes on to the config.
RemoveBackup ==
    /\ updater.phase \in {"replaced", "failed"}
    /\ backup' = {}
    /\ Goto(IF At("replaced") THEN "reading" ELSE "idle")
    /\ UNCHANGED <<archive, database, file, api, draft, bounds>>

\* sync_items, like the API's; but this process reads a directory that nobody else
\* renames, and so in one step.
ReadToSync ==
    /\ At("reading")
    /\ updater' = [updater EXCEPT !.phase = "saving", !.config = file, !.items = database]
    /\ UNCHANGED <<archive, disk, file, api, draft, bounds>>

SaveSynced ==
    /\ At("saving")
    /\ file' = Merged(updater.config, updater.items)
    /\ updater' = IdleProcess
    /\ UNCHANGED <<archive, disk, api, draft, bounds>>

\* A rename fails: `except`.
MoveFails ==
    /\ updater.phase \in {"moving", "replacing"}
    /\ Happens("failures", MaxFailures)
    /\ Goto("restoring")
    /\ UNCHANGED <<archive, disk, file, api, draft>>

\* A slip: the exception is passed on at once.
RestoreNothing ==
    /\ At("restoring")
    /\ Goto("failed")
    /\ UNCHANGED <<archive, disk, file, api, draft, bounds>>

\* The backup that was made a moment ago goes back.
Restore ==
    /\ At("restoring")
    /\ IF updater.moved /\ backup # {} /\ database = {}
       THEN database' = backup /\ backup' = {}
       ELSE UNCHANGED disk
    /\ Goto("failed")
    /\ UNCHANGED <<archive, file, api, draft, bounds>>

\* That rename fails too.  `finally` runs all the same.
RestoreFails ==
    /\ At("restoring") /\ updater.moved
    /\ Happens("restores", MaxFailures)
    /\ Goto("failed")
    /\ UNCHANGED <<archive, disk, file, api, draft>>

\* Any other step fails: the update ends there.
StepFails ==
    /\ updater.phase \in {"cleaning", "replaced", "failed", "reading", "saving"}
    /\ Happens("failures", MaxFailures)
    /\ updater' = IdleProcess
    /\ UNCHANGED <<archive, disk, file, api, draft>>

-----------------------------------------------------------------------------
(* The world. *)

\* EXBO publishes another set of items.
Publish(items) ==
    /\ items \notin {{}, archive}
    /\ Happens("releases", MaxReleases)
    /\ archive' = items
    /\ UNCHANGED <<disk, file, updater, api, draft>>

\* The updater's container dies and is started again.
Crash ==
    /\ ~At("idle")
    /\ Happens("crashes", MaxCrashes)
    /\ updater' = IdleProcess
    /\ UNCHANGED <<archive, disk, file, api, draft>>

-----------------------------------------------------------------------------
(* Specification. *)

\* A database has been put in place and synchronised.
Init ==
    /\ archive \in Database \ {{}}
    /\ database = archive /\ backup = {}
    /\ file = [i \in Items |-> IF i \in archive THEN Ignored ELSE Absent]
    /\ draft = file
    /\ updater = IdleProcess /\ api = IdleProcess
    /\ bounds = [what \in Interferences |-> 0]

Edit == GetConfig \/ \E i \in Items, status \in Status : PutConfig(i, status)
SyncGoesOn == SyncSave \/ SyncFails \/ \E i \in Items : SyncWalk(i)
Sync == SyncBegin \/ SyncGoesOn

Update ==
    \/ Download \/ RemoveOldBackup \/ MoveAway \/ MoveIn \/ RemoveBackup
    \/ Restore \/ ReadToSync \/ SaveSynced

Next ==
    \/ Edit \/ Sync \/ Update
    \/ MoveFails \/ RestoreFails \/ StepFails \/ Crash
    \/ \E items \in Database : Publish(items)

Spec == Init /\ [][Next]_vars

\* The updater runs on, and a sync request that has begun ends.  The admin, EXBO
\* and failures are not fair.
Fairness == WF_vars(Update) /\ WF_vars(SyncGoesOn)
FairSpec == Spec /\ Fairness

-----------------------------------------------------------------------------
(* Properties. *)

Process == [phase : {"idle", "walking", "cleaning", "moving", "replacing", "replaced",
                     "restoring", "failed", "reading", "saving"},
            source : Database, moved : BOOLEAN, config : Config,
            items : Database, walked : SUBSET Items]

\* The kinds of value the variables hold.
TypeOK ==
    /\ archive \in Database \ {{}}
    /\ database \in Database /\ backup \in Database
    /\ file \in Config /\ draft \in Config
    /\ updater \in Process /\ api \in Process
    /\ bounds \in [Interferences -> Nat]

\* Neither has the updater died nor has it failed to put a database back.
NothingLost == bounds["crashes"] = 0 /\ bounds["restores"] = 0

\* An update leaves a database in its place, at whichever step it failed: the old
\* one or the new one (exbo_updater.py _replace_database).
UpdateLeavesDatabase == NothingLost /\ At("idle") => database # {}

\* While it runs there is a complete database on the disk at every moment, in its
\* place or as the backup.
DatabaseOnDisk == NothingLost => database # {} \/ backup # {}

\* Whatever happened before, also a crash between the two renames or an edit of
\* an old config: once nothing interferes any more, the items of the config become
\* those that EXBO publishes, and stay so, and the database is theirs except for
\* the moment between the two renames.
ConfigConverges ==
    <>[](Listed(file) = archive /\ archive \in {database, backup})

=============================================================================
