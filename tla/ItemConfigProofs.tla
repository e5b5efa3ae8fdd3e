-------------------------- MODULE ItemConfigProofs --------------------------
(***************************************************************************)
(* Proofs about ItemConfig, for any items, statuses and number of          *)
(* interferences: an update that fails leaves a database behind.  The      *)
(* invariant says, for each phase of the updater, where the database is.   *)
(***************************************************************************)
EXTENDS ItemConfig, TLAPS

-----------------------------------------------------------------------------
(* The invariant. *)

\* What was downloaded has items.
SourceHasItems ==
    updater.phase \in {"cleaning", "moving", "replacing", "restoring"} => updater.source # {}

\* The database is in its place, but between the two renames, and when the second
\* one has failed and the backup is about to go back.
DatabaseInPlace ==
    CASE updater.phase = "replacing" -> updater.moved /\ database = {} /\ backup # {}
      [] updater.phase = "restoring" -> \/ database # {}
                                        \/ updater.moved /\ backup # {}
      [] OTHER -> database # {}

Inv == TypeOK /\ SourceHasItems /\ (NothingLost => DatabaseInPlace)

-----------------------------------------------------------------------------
(* Lemmas about the operators. *)

\* A merged config is a config.
LEMMA MergedConfig ==
    ASSUME NEW config \in Config, NEW items \in Database
    PROVE  Merged(config, items) \in Config
BY ItemsAssumption DEF Merged, Config

\* The updater starts from a process that has nothing.
LEMMA IdleIsProcess == IdleProcess \in Process
BY DEF IdleProcess, Process, Database, Config

\* Whoever counts an interference counts it up.
LEMMA Counting ==
    ASSUME TypeOK, NEW what \in Interferences, NEW limit, Happens(what, limit)
    PROVE  /\ bounds' \in [Interferences -> Nat]
           /\ bounds'[what] = bounds[what] + 1
           /\ \A other \in Interferences \ {what} : bounds'[other] = bounds[other]
BY DEF TypeOK, Happens

\* Only crashes and failed restorations lose anything.
LEMMA StillNothingLost ==
    ASSUME TypeOK, NothingLost',
           \/ UNCHANGED bounds
           \/ \E what \in Interferences, limit \in Nat : Happens(what, limit)
    PROVE  NothingLost
<1>1. CASE UNCHANGED bounds
    BY <1>1 DEF NothingLost
<1>2. ASSUME NEW what \in Interferences, NEW limit \in Nat, Happens(what, limit)
      PROVE  NothingLost
    <2>1. "crashes" \in Interferences /\ "restores" \in Interferences
        BY DEF Interferences
    <2>2. bounds["crashes"] \in Nat /\ bounds["restores"] \in Nat
        BY <2>1 DEF TypeOK
    <2> QED  BY <1>2, <2>1, <2>2, Counting DEF NothingLost
<1> QED  BY <1>1, <1>2

-----------------------------------------------------------------------------
(* The invariant is inductive. *)

\* The first state satisfies it.
LEMMA InitInv == Init => Inv
<1> SUFFICES ASSUME Init PROVE Inv
    OBVIOUS
<1>1. file \in Config
    BY ItemsAssumption DEF Init, Config
<1>2. TypeOK
    BY <1>1, IdleIsProcess DEF Init, TypeOK, Database
<1>3. SourceHasItems /\ DatabaseInPlace
    BY DEF Init, IdleProcess, SourceHasItems, DatabaseInPlace
<1> QED  BY <1>2, <1>3 DEF Inv

\* The types are kept.
LEMMA TypeStep == TypeOK /\ [Next]_vars => TypeOK'
<1> SUFFICES ASSUME TypeOK, [Next]_vars PROVE TypeOK'
    OBVIOUS
<1> USE DEF TypeOK, disk
<1>1. ASSUME NEW phase \in {"idle", "walking", "cleaning", "moving", "replacing", "replaced",
                            "restoring", "failed", "reading", "saving"}
      PROVE  /\ [updater EXCEPT !.phase = phase] \in Process
             /\ [updater EXCEPT !.phase = phase, !.moved = TRUE] \in Process
    BY DEF Process
<1>2. \A status \in Status : status \in Status \cup {Absent}
    OBVIOUS
<1>3. CASE UNCHANGED vars
    BY <1>3 DEF vars
<1>4. CASE GetConfig
    BY <1>4 DEF GetConfig
<1>5. ASSUME NEW i \in Items, NEW status \in Status, PutConfig(i, status) PROVE TypeOK'
    <2>1. bounds' \in [Interferences -> Nat]
        BY <1>5, Counting DEF PutConfig, Interferences
    <2>2. [draft EXCEPT ![i] = status] \in Config
        BY DEF Config
    <2> QED  BY <1>5, <2>1, <2>2 DEF PutConfig
<1>6. CASE SyncBegin
    <2>1. bounds' \in [Interferences -> Nat]
        BY <1>6, Counting DEF SyncBegin, Interferences
    <2>2. [api EXCEPT !.phase = "walking", !.config = file] \in Process
        BY DEF Process
    <2> QED  BY <1>6, <2>1, <2>2 DEF SyncBegin
<1>7. CASE SyncSave
    <2>1. api.config \in Config /\ api.items \in Database
        BY DEF Process
    <2> QED  BY <1>7, <2>1, MergedConfig, IdleIsProcess DEF SyncSave
<1>8. CASE Download
    <2>1. [IdleProcess EXCEPT !.phase = "cleaning", !.source = archive] \in Process
        BY IdleIsProcess DEF Process
    <2> QED  BY <1>8, <2>1 DEF Download
<1>9. CASE RemoveOldBackup
    BY <1>1, <1>9 DEF RemoveOldBackup, Goto, Database
<1>10. CASE MoveAway
    BY <1>1, <1>10 DEF MoveAway, Goto, Database
<1>11. CASE MoveIn
    <2>1. updater.source \in Database
        BY DEF Process
    <2> QED  BY <1>1, <1>11, <2>1 DEF MoveIn, Goto
<1>12. CASE RemoveBackup
    BY <1>1, <1>12 DEF RemoveBackup, Goto, Database
<1>13. CASE ReadToSync
    <2>1. [updater EXCEPT !.phase = "saving", !.config = file, !.items = database] \in Process
        BY DEF Process
    <2> QED  BY <1>13, <2>1 DEF ReadToSync
<1>14. CASE SaveSynced
    <2>1. updater.config \in Config /\ updater.items \in Database
        BY DEF Process
    <2> QED  BY <1>14, <2>1, MergedConfig, IdleIsProcess DEF SaveSynced
<1>15. CASE MoveFails
    <2>1. bounds' \in [Interferences -> Nat]
        BY <1>15, Counting DEF MoveFails, Interferences
    <2> QED  BY <1>1, <1>15, <2>1 DEF MoveFails, Goto
<1>16. CASE Restore
    BY <1>1, <1>16 DEF Restore, Goto, Database
<1>17. CASE RestoreFails
    <2>1. bounds' \in [Interferences -> Nat]
        BY <1>17, Counting DEF RestoreFails, Interferences
    <2> QED  BY <1>1, <1>17, <2>1 DEF RestoreFails, Goto
<1>18. CASE StepFails
    <2>1. bounds' \in [Interferences -> Nat]
        BY <1>18, Counting DEF StepFails, Interferences
    <2> QED  BY <1>18, <2>1, IdleIsProcess DEF StepFails
<1>19. CASE Crash
    <2>1. bounds' \in [Interferences -> Nat]
        BY <1>19, Counting DEF Crash, Interferences
    <2> QED  BY <1>19, <2>1, IdleIsProcess DEF Crash
<1>20. ASSUME NEW i \in Items, SyncWalk(i) PROVE TypeOK'
    <2>1. [api EXCEPT !.walked = @ \cup {i}, !.items = @ \cup ({i} \cap database)] \in Process
        BY DEF Process, Database
    <2> QED  BY <1>20, <2>1 DEF SyncWalk
<1>21. CASE SyncFails
    BY <1>21, IdleIsProcess DEF SyncFails
<1>22. ASSUME NEW items \in Database, Publish(items) PROVE TypeOK'
    <2>1. bounds' \in [Interferences -> Nat]
        BY <1>22, Counting DEF Publish, Interferences
    <2> QED  BY <1>22, <2>1 DEF Publish
<1> QED
    BY <1>3, <1>4, <1>5, <1>6, <1>7, <1>8, <1>9, <1>10, <1>11, <1>12, <1>13, <1>14, <1>15,
       <1>16, <1>17, <1>18, <1>19, <1>20, <1>21, <1>22
    DEF Next, Edit, Sync, SyncGoesOn, Update

\* The updater's phase after an assignment to it.
LEMMA Phases ==
    ASSUME TypeOK, NEW phase, Goto(phase)
    PROVE  /\ updater'.phase = phase
           /\ updater'.source = updater.source /\ updater'.moved = updater.moved
BY DEF TypeOK, Goto, Process

\* The other actors never touch the disk.
LEMMA OthersKeepInv ==
    ASSUME Inv, TypeOK', UNCHANGED <<disk, updater>>,
           \/ UNCHANGED bounds
           \/ \E what \in Interferences, limit \in Nat : Happens(what, limit)
    PROVE  Inv'
<1>1. SourceHasItems'
    BY DEF Inv, SourceHasItems
<1>2. NothingLost' => DatabaseInPlace'
    <2> SUFFICES ASSUME NothingLost' PROVE DatabaseInPlace'
        OBVIOUS
    <2>1. DatabaseInPlace
        BY StillNothingLost DEF Inv
    <2> QED  BY <2>1 DEF DatabaseInPlace, disk
<1> QED  BY <1>1, <1>2 DEF Inv

\* A process that starts anew with a database in place.
LEMMA IdleKeepsInv ==
    ASSUME TypeOK', updater' = IdleProcess, NothingLost' => database' # {}
    PROVE  Inv'
BY DEF Inv, SourceHasItems, DatabaseInPlace, IdleProcess

\* Every step keeps the invariant.
LEMMA InvStep == Inv /\ [Next]_vars => Inv'
<1> SUFFICES ASSUME Inv, [Next]_vars PROVE Inv'
    OBVIOUS
<1>0. TypeOK /\ TypeOK'
    BY TypeStep DEF Inv
<1> DEFINE Limits == {MaxReleases, MaxEdits, MaxSyncs, MaxFailures, MaxCrashes}
<1>1. Limits \subseteq Nat
    BY BoundsAssumption
<1>2. CASE UNCHANGED vars
    BY <1>0, <1>2, OthersKeepInv DEF vars
<1>3. CASE Edit \/ Sync
    <2>1. UNCHANGED <<disk, updater>>
        BY <1>3 DEF Edit, Sync, SyncGoesOn, GetConfig, PutConfig, SyncBegin, SyncWalk, SyncFails, SyncSave,
           vars
    <2>2. \/ UNCHANGED bounds
          \/ Happens("edits", MaxEdits) \/ Happens("syncs", MaxSyncs)
        BY <1>3 DEF Edit, Sync, SyncGoesOn, GetConfig, PutConfig, SyncBegin, SyncWalk, SyncFails, SyncSave
    <2> QED  BY <1>0, <1>1, <2>1, <2>2, OthersKeepInv DEF Interferences
<1>4. ASSUME NEW items \in Database, Publish(items) PROVE Inv'
    <2>1. Happens("releases", MaxReleases) /\ UNCHANGED <<disk, updater>>
        BY <1>4 DEF Publish
    <2> QED  BY <1>0, <1>1, <2>1, OthersKeepInv DEF Interferences
<1>5. CASE Download
    <2>1. /\ updater.phase = "idle" /\ archive # {} /\ UNCHANGED <<database, backup, bounds>>
          /\ updater'.phase = "cleaning" /\ updater'.source = archive
        BY <1>5 DEF Download, At, disk, IdleProcess
    <2> QED  BY <1>0, <2>1 DEF Inv, SourceHasItems, DatabaseInPlace, NothingLost
<1>6. CASE RemoveOldBackup
    <2>1. /\ updater.phase = "cleaning" /\ UNCHANGED <<database, bounds>>
          /\ updater'.phase = "moving" /\ updater'.source = updater.source
        BY <1>0, <1>6, Phases DEF RemoveOldBackup, At
    <2> QED  BY <1>0, <2>1 DEF Inv, SourceHasItems, DatabaseInPlace, NothingLost
<1>7. CASE MoveAway
    <2>1. updater.phase = "moving" /\ UNCHANGED bounds
        BY <1>7 DEF MoveAway, At
    <2>2. CASE database # {}
        <3>1. /\ backup' = database /\ database' = {}
              /\ updater'.phase = "replacing" /\ updater'.moved = TRUE
              /\ updater'.source = updater.source
            BY <1>0, <1>7, <2>2 DEF MoveAway, TypeOK, Process
        <3> QED  BY <1>0, <2>1, <2>2, <3>1 DEF Inv, SourceHasItems, DatabaseInPlace
    <2>3. CASE database = {}
        <3>1. updater'.phase = "replacing" /\ updater'.source = updater.source
            BY <1>0, <1>7, <2>3, Phases DEF MoveAway
        <3> QED  BY <1>0, <2>1, <2>3, <3>1 DEF Inv, SourceHasItems, DatabaseInPlace, NothingLost
    <2> QED  BY <2>2, <2>3
<1>8. CASE MoveIn
    <2>1. /\ updater.phase = "replacing" /\ UNCHANGED <<backup, bounds>>
          /\ database' = updater.source /\ updater'.phase = "replaced"
        BY <1>0, <1>8, Phases DEF MoveIn, At
    <2> QED  BY <1>0, <2>1 DEF Inv, SourceHasItems, DatabaseInPlace
<1>9. CASE RemoveBackup
    <2>1. /\ updater.phase \in {"replaced", "failed"} /\ UNCHANGED <<database, bounds>>
          /\ updater'.phase \in {"reading", "idle"}
        BY <1>0, <1>9, Phases DEF RemoveBackup
    <2> QED  BY <1>0, <2>1 DEF Inv, SourceHasItems, DatabaseInPlace, NothingLost
<1>10. CASE ReadToSync
    <2>1. /\ updater.phase = "reading" /\ UNCHANGED <<database, bounds>>
          /\ updater'.phase = "saving"
        BY <1>0, <1>10 DEF ReadToSync, At, disk, TypeOK, Process
    <2> QED  BY <1>0, <2>1 DEF Inv, SourceHasItems, DatabaseInPlace, NothingLost
<1>11. CASE SaveSynced
    <2>1. updater.phase = "saving" /\ updater' = IdleProcess /\ UNCHANGED <<database, bounds>>
        BY <1>11 DEF SaveSynced, At, disk
    <2> QED  BY <1>0, <2>1, IdleKeepsInv DEF Inv, DatabaseInPlace, NothingLost
<1>12. CASE MoveFails
    <2>1. /\ updater.phase \in {"moving", "replacing"} /\ UNCHANGED <<database, backup>>
          /\ Happens("failures", MaxFailures)
          /\ updater'.phase = "restoring" /\ updater'.source = updater.source
          /\ updater'.moved = updater.moved
        BY <1>0, <1>12, Phases DEF MoveFails, disk
    <2>2. NothingLost' => NothingLost
        BY <1>0, <1>1, <2>1, StillNothingLost DEF Interferences
    <2> QED  BY <1>0, <2>1, <2>2 DEF Inv, SourceHasItems, DatabaseInPlace
<1>13. CASE Restore
    <2>1. updater.phase = "restoring" /\ UNCHANGED bounds /\ updater'.phase = "failed"
        BY <1>0, <1>13, Phases DEF Restore, At
    <2>2. NothingLost => database' # {}
        BY <1>0, <1>13, <2>1 DEF Inv, DatabaseInPlace, Restore, disk
    <2> QED  BY <1>0, <2>1, <2>2 DEF Inv, SourceHasItems, DatabaseInPlace, NothingLost
<1>14. CASE RestoreFails
    <2>1. Happens("restores", MaxFailures) /\ updater'.phase = "failed"
        BY <1>0, <1>14, Phases DEF RestoreFails
    <2>2. ~NothingLost'
        <3>1. bounds'["restores"] = bounds["restores"] + 1 /\ bounds["restores"] \in Nat
            BY <1>0, <2>1, Counting DEF Interferences, TypeOK
        <3> QED  BY <3>1 DEF NothingLost
    <2> QED  BY <1>0, <2>1, <2>2 DEF Inv, SourceHasItems
<1>15. CASE StepFails
    <2>1. /\ updater.phase \notin {"replacing", "restoring"} /\ UNCHANGED database
          /\ Happens("failures", MaxFailures) /\ updater' = IdleProcess
        BY <1>15 DEF StepFails, disk
    <2>2. NothingLost' => NothingLost
        BY <1>0, <1>1, <2>1, StillNothingLost DEF Interferences
    <2> QED  BY <1>0, <2>1, <2>2, IdleKeepsInv DEF Inv, DatabaseInPlace
<1>16. CASE Crash
    <2>1. Happens("crashes", MaxCrashes) /\ updater' = IdleProcess
        BY <1>16 DEF Crash
    <2>2. ~NothingLost'
        <3>1. bounds'["crashes"] = bounds["crashes"] + 1 /\ bounds["crashes"] \in Nat
            BY <1>0, <2>1, Counting DEF Interferences, TypeOK
        <3> QED  BY <3>1 DEF NothingLost
    <2> QED  BY <1>0, <2>1, <2>2, IdleKeepsInv
<1> QED
    BY <1>2, <1>3, <1>4, <1>5, <1>6, <1>7, <1>8, <1>9, <1>10, <1>11, <1>12, <1>13, <1>14,
       <1>15, <1>16 DEF Next, Update

-----------------------------------------------------------------------------
(* Theorems. *)

\* It holds in every reachable state.
LEMMA Invariant == Spec => []Inv
BY InitInv, InvStep, PTL DEF Spec

\* The variables keep their types (exbo_updater.py, admin/service.py).
THEOREM TypeCorrect == Spec => []TypeOK
<1>1. Inv => TypeOK
    BY DEF Inv
<1> QED  BY <1>1, Invariant, PTL

\* However many steps fail and whatever the API does meanwhile: as long as the
\* updater does not die and no restoration fails, an update leaves a database in
\* its place (exbo_updater.py _replace_database).
THEOREM UpdateIsSafe == Spec => []UpdateLeavesDatabase
<1>1. Inv => UpdateLeavesDatabase
    BY DEF Inv, UpdateLeavesDatabase, DatabaseInPlace, At
<1> QED  BY <1>1, Invariant, PTL

\* And at every moment of it there is a complete database on the disk.
THEOREM AlwaysOnDisk == Spec => []DatabaseOnDisk
<1>1. Inv => DatabaseOnDisk
    BY DEF Inv, DatabaseOnDisk, DatabaseInPlace
<1> QED  BY <1>1, Invariant, PTL

=============================================================================
