------------------------------ MODULE Retention ------------------------------
(***************************************************************************)
(* get_stale_backups (src/app/backend/utils/backup_strategies.py): which   *)
(* backups are removed so that at most MaxBackups - 1 are left, to make    *)
(* room for a new one.  A backup is the play time at which it was made, in *)
(* ticks.                                                                  *)
(*                                                                         *)
(* The last MaxBackups bins cover 1, 2, 4, ... intervals of play time into *)
(* the past.                                                               *)
(***************************************************************************)
EXTENDS Integers, SequencesExt

CONSTANTS
    MaxBackups, \* n: BackupProperties.max_backups
    Interval    \* d: MCBackupManager.tick_interval

ASSUME RetentionAssumption ==
    /\ MaxBackups \in Nat \ {0}
    /\ Interval \in Nat \ {0}

-----------------------------------------------------------------------------
(* The bins. *)

(* The age, in intervals, at which the last bin ends: base ** n. *)
EndOfBins == 2 ^ MaxBackups

(* The next multiple of Interval, also for negative x.                     *)
ToNearest(x) == (x \div Interval + 1) * Interval

(* A backup that is newer than the world counts as one made just now.      *)
Effective(b, t) == Min({b, t})

(* Backups from before the first bin have expired.                         *)
Cutoff(t) == ToNearest(t - (EndOfBins - 1) * Interval)

Expired(b, t) == Effective(b, t) < Cutoff(t)

(* The age in intervals, begun ones included, and the bin it falls into:   *)
(* its logarithm.                                                          *)
Age(b, t) == ToNearest(t - Effective(b, t)) \div Interval

Bin(b, t) == CHOOSE j \in 0 .. Age(b, t) : 2 ^ j <= Age(b, t) /\ Age(b, t) < 2 ^ (j + 1)

-----------------------------------------------------------------------------
(* The algorithm. *)

(* Mutant: as many as allowed are left, with none for the new one. *)
NumSpare(backups) == Max({0, Cardinality(backups) - MaxBackups})

NumStale(backups) == Max({0, Cardinality(backups) - MaxBackups + 1})

OldestFirst(backups) ==
    [i \in 1 .. Cardinality(backups) |->
        CHOOSE b \in backups : Cardinality({a \in backups : a < b}) = i - 1]

(* Mutant: every expired backup is removed, needed or not. *)
AllExpired(backups, t) == {b \in backups : Expired(b, t)}

(* The first pass: expired backups, oldest first. *)
StaleExpired(backups, t) ==
    LET expired == OldestFirst({b \in backups : Expired(b, t)})
    IN  {expired[i] : i \in 1 .. Min({Len(expired), NumStale(backups)})}

(* The backups in a bin; the first bin has the new backup in it as well. *)
Counts(backups, t) ==
    [j \in 0 .. MaxBackups - 1 |->
        Cardinality({b \in backups : ~Expired(b, t) /\ Bin(b, t) = j}) + (IF j = 0 THEN 1 ELSE 0)]

(* The second pass, for one backup. *)
Thin(t, limit, acc, b) ==
    IF Cardinality(acc.stale) < limit /\ ~Expired(b, t) /\ acc.counts[Bin(b, t)] > 1
    THEN [stale |-> acc.stale \cup {b}, counts |-> [acc.counts EXCEPT ![Bin(b, t)] = @ - 1]]
    ELSE acc

(* What is stale, and what is left in the bins, after k backups of the     *)
(* second pass, which are in the given order.                              *)
Thinned(backups, t, order) ==
    LET after[k \in 0 .. Cardinality(backups)] ==
            IF k = 0
            THEN [stale |-> StaleExpired(backups, t), counts |-> Counts(backups, t)]
            ELSE Thin(t, NumStale(backups), after[k - 1], order[k])
    IN  after

NewestFirst(backups) ==
    [i \in 1 .. Cardinality(backups) |-> OldestFirst(backups)[Cardinality(backups) + 1 - i]]

(* Mutant: the second pass goes from the oldest to the newest as well. *)
StaleOldestFirst(backups, t) ==
    Thinned(backups, t, OldestFirst(backups))[Cardinality(backups)].stale

(* The second pass, newest first: a bin keeps its oldest backup. *)
StaleBackups(backups, t) ==
    Thinned(backups, t, NewestFirst(backups))[Cardinality(backups)].stale

-----------------------------------------------------------------------------
(* What is meant: the order in which backups may go, and how many do. *)

(* A backup can be spared if a newer one (the one about to be made) or an   *)
(* older one stands for its bin.                                           *)
Spare(backups, t) ==
    {b \in backups : ~Expired(b, t) /\
        (Bin(b, t) = 0 \/ \E a \in backups : a < b /\ ~Expired(a, t) /\ Bin(a, t) = Bin(b, t))}

(* Expired backups go before spare ones; the former oldest first, the       *)
(* latter newest first.                                                    *)
GoesBefore(a, b, t) ==
    IF Expired(a, t) THEN Expired(b, t) => a < b ELSE ~Expired(b, t) /\ b < a

MeantStale(backups, t) ==
    LET candidates == {b \in backups : Expired(b, t)} \cup Spare(backups, t)
    IN  {b \in candidates :
            Cardinality({a \in candidates : GoesBefore(a, b, t)}) < NumStale(backups)}
=============================================================================
