------------------------------- MODULE Backups -------------------------------
(***************************************************************************)
(* MCBackupManager (src/app/backend/core/backup_manager.py): the checks    *)
(* that make a backup when the world has been played for an interval since *)
(* the last one, and that remove stale backups, while steps of the server, *)
(* of tar and of the connection to the server fail, the server stops, or   *)
(* the world is replaced by an older one.                                  *)
(*                                                                         *)
(* Play time is in ticks.  The timer is abstract: a check comes after at   *)
(* most MaxStep ticks.  A .part file is never listed as a backup and the   *)
(* next archive writes over it, so it is not in the model; nor is          *)
(* max_backups = 0, with which the manager only waits.                     *)
(***************************************************************************)
EXTENDS Retention

CONSTANTS
    MaxRetries, \* max_retries of create_world_archive
    MaxStep,    \* the most ticks played between two checks
    MaxTime,    \* bound: the most ticks played
    Older,      \* bound: when the world and the backups of another limit may be from
    RolledBack  \* bound: the play times of the worlds that replace the world

ASSUME BackupsAssumption ==
    /\ MaxRetries \in Nat \ {0}
    /\ MaxStep \in Nat \ {0}
    /\ MaxTime \in Nat
    /\ Older \subseteq 0 .. MaxTime
    /\ RolledBack \subseteq 0 .. MaxTime

VARIABLES
    now,      \* the world's play time
    disk,     \* the backups in the backup directory
    phase,    \* where the manager is suspended; "off" when it does not run
    listed,   \* the backups this check has found
    checked,  \* the play time the last check has read
    attempts, \* the archives this backup has tried
    prev,     \* prev_autosave_on
    autosave, \* of the server: "on", "off", or "suspended" by the manager
    aborted   \* whether a backup was aborted since the server started

serverVars == <<now, autosave>>
checkVars == <<listed, checked, attempts, prev, aborted>>
vars == <<serverVars, checkVars, disk, phase>>

Times == 0 .. MaxTime
Busy  == {"disabling", "saving", "archiving", "reporting", "enabling"}

TypeOK ==
    /\ now \in Times
    /\ disk \subseteq Times
    /\ phase \in {"off", "sleeping"} \cup Busy
    /\ listed \subseteq Times
    /\ checked \in Times
    /\ attempts \in 0 .. MaxRetries - 1
    /\ prev \in BOOLEAN
    /\ autosave \in {"on", "off", "suspended"}
    /\ aborted \in BOOLEAN

Init ==
    /\ now \in Older
    /\ disk \in SUBSET {b \in Older : b <= now}
    /\ phase = "off"
    /\ listed = {}
    /\ checked = now
    /\ attempts = 0
    /\ prev = FALSE
    /\ autosave = "on"
    /\ aborted = FALSE

-----------------------------------------------------------------------------
(* The server, its operator, and the manager's start and stop. *)

(* What a check has in its local variables goes with it. *)
Forget == listed' = {} /\ attempts' = 0 /\ prev' = FALSE

Play ==
    /\ phase = "sleeping"
    /\ now < MaxTime /\ now - checked < MaxStep
    /\ now' = now + 1
    /\ UNCHANGED <<autosave, checkVars, disk, phase>>

(* An operator turns autosave off or on between two backups. *)
Operate ==
    /\ phase = "sleeping"
    /\ autosave' = IF autosave = "on" THEN "off" ELSE "on"
    /\ UNCHANGED <<now, checkVars, disk, phase>>

ServerStarts ==
    /\ phase = "off"
    /\ phase' = "sleeping"
    /\ autosave' = "on"
    /\ aborted' = FALSE
    /\ UNCHANGED <<now, checked, listed, attempts, prev, disk>>

(* The manager is cancelled, or killed, wherever it is. *)
ServerStops ==
    /\ phase # "off"
    /\ phase' = "off"
    /\ Forget
    /\ UNCHANGED <<serverVars, checked, aborted, disk>>

(* The world is replaced by one that has been played less. *)
Rollback(t) ==
    /\ phase = "off" /\ t < now
    /\ now' = t
    /\ checked' = t
    /\ UNCHANGED <<autosave, listed, attempts, prev, aborted, disk, phase>>

-----------------------------------------------------------------------------
(* A check. *)

Needed == disk # {} => (now - Max(disk)) \div Interval > 0

(* Stale are those of the given backups, at the given play time.           *)
Prune(found, backups, t) == disk' = found \ StaleBackups(backups, t)

(* When the play time cannot be read the unit fails and is restarted, which *)
(* changes nothing here.                                                   *)
Check ==
    /\ phase = "sleeping"
    /\ checked' = now
    /\ UNCHANGED <<serverVars, attempts, prev, aborted>>

SkipBackup ==
    /\ Check /\ ~Needed
    /\ Prune(disk, disk, now)
    /\ UNCHANGED <<listed, phase>>

BeginBackup ==
    /\ Check /\ Needed
    /\ listed' = disk
    /\ phase' = "disabling"
    /\ UNCHANGED disk

-----------------------------------------------------------------------------
(* save_and_backup. *)

SaveOff ==
    /\ phase = "disabling"
    /\ phase' = "saving"
    /\ prev' = (autosave = "on")
    /\ autosave' = IF autosave = "on" THEN "suspended" ELSE autosave
    /\ UNCHANGED <<now, listed, checked, attempts, aborted, disk>>

(* save-all has succeeded. *)
SaveAll ==
    /\ phase = "saving"
    /\ phase' = "archiving"
    /\ UNCHANGED <<serverVars, checkVars, disk>>

(* tar succeeds, and its .part file is renamed. *)
Archived ==
    /\ phase = "archiving"
    /\ phase' = "reporting"
    /\ disk' = disk \cup {checked}
    /\ UNCHANGED <<serverVars, checkVars>>

(* tar fails for good, or was disturbed in the last attempt. *)
NotArchived ==
    /\ phase = "archiving"
    /\ phase' = "reporting"
    /\ UNCHANGED <<serverVars, checkVars, disk>>

(* A file changed while tar read it. *)
Disturbed ==
    /\ phase = "archiving" /\ attempts < MaxRetries - 1
    /\ attempts' = attempts + 1
    /\ UNCHANGED <<serverVars, listed, checked, prev, aborted, disk, phase>>

(* Mutant: the backups are listed again before the stale ones are removed. *)
EndRelisted ==
    /\ phase' = "sleeping"
    /\ Prune(disk, disk, checked)
    /\ Forget

(* The stale ones of the backups listed when the check began are removed.  *)
EndBackup ==
    /\ phase' = "sleeping"
    /\ Prune(disk, listed, checked)
    /\ Forget

(* Mutant: autosave is turned on again after a backup that succeeded only. *)
ReportSuccess ==
    /\ phase = "reporting"
    /\ IF prev /\ checked \in disk
       THEN phase' = "enabling" /\ UNCHANGED <<disk, listed, attempts, prev>>
       ELSE EndBackup
    /\ UNCHANGED <<serverVars, checked, aborted>>

(* The result is announced; autosave stays off if it was.                  *)
Report ==
    /\ phase = "reporting"
    /\ IF prev THEN phase' = "enabling" /\ UNCHANGED <<disk, listed, attempts, prev>>
               ELSE EndBackup
    /\ UNCHANGED <<serverVars, checked, aborted>>

SaveOn ==
    /\ phase = "enabling"
    /\ autosave' = "on"
    /\ EndBackup
    /\ UNCHANGED <<now, checked, aborted>>

(* A command of the server raises, its effect being lost or done, or a      *)
(* file cannot be made: nothing of the rest is done, and the exception is   *)
(* logged.                                                                 *)
Abort ==
    /\ phase \in Busy
    /\ aborted' = TRUE
    /\ \/ UNCHANGED autosave
       \/ phase = "disabling" /\ autosave = "on" /\ autosave' = "suspended"
       \/ phase = "enabling" /\ autosave' = "on"
    /\ EndBackup
    /\ UNCHANGED <<now, checked>>

-----------------------------------------------------------------------------
ServerSteps == Play \/ Operate \/ ServerStarts \/ ServerStops \/ \E t \in RolledBack : Rollback(t)

ManagerSteps ==
    \/ SkipBackup \/ BeginBackup
    \/ SaveOff \/ SaveAll \/ Archived \/ NotArchived \/ Disturbed \/ Report \/ SaveOn \/ Abort

Next == ServerSteps \/ ManagerSteps

Spec == Init /\ [][Next]_vars

-----------------------------------------------------------------------------
(* The loops remove what is meant: expired backups oldest first, then spare *)
(* ones newest first, and no more than necessary.                          *)
StaleAsMeant == StaleBackups(disk, now) = MeantStale(disk, now)

(* Every backup has a bin: the logarithm is never of 0 (121, 128), and that  *)
(* of an unexpired backup is below max_backups, the length of counts (116). *)
BinsInRange ==
    \A t \in {now, checked}, b \in disk :
        Age(b, t) >= 1 /\ (~Expired(b, t) => Age(b, t) < EndOfBins)

(* A check that has ended leaves at most max_backups backups, its own       *)
(* included, however many there were.                                      *)
AtMostMax ==
    [][phase' = "sleeping" /\ (SkipBackup \/ phase \in Busy) => Cardinality(disk') <= MaxBackups]_vars

(* The check that has made a backup does not remove it.                    *)
NewBackupKept == [][(phase \in Busy /\ checked \in disk) => checked \in disk']_vars

(* With room for two there is always a backup left, whatever fails.        *)
NeverEmptied == [][MaxBackups > 1 /\ disk # {} => disk' # {}]_vars

(* The oldest backup goes only when it has expired: however the others are  *)
(* thinned out, what was kept longest stays until it leaves the last bin.  *)
OldestKept ==
    [][MaxBackups > 1 /\ disk # {} /\ ~Expired(Min(disk), checked') => Min(disk) \in disk']_vars

(* Autosave stays suspended only after an exception; a backup that fails in *)
(* tar restores it (186-187, 106-108).                                     *)
SuspendedByAbort == phase = "sleeping" /\ autosave = "suspended" => aborted

(* The comment at 106: autosave is turned on again if it was on. *)
AutosaveRestored == phase = "sleeping" => autosave # "suspended"

(* test_backups.py 8-10: stale backups are removed to make room for the     *)
(* backup that has been made.                                              *)
RemovalMakesRoom ==
    [][disk \ disk' # {} => checked' \in disk']_vars
=============================================================================
