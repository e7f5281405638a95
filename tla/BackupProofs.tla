---------------------------- MODULE BackupProofs ----------------------------
(***************************************************************************)
(* What a backup may do to the write locks, for any entries and any number *)
(* of reloads.  The inductive part follows the coordinators of a running   *)
(* backup (one that was found loaded, and is still, waits for its lock,    *)
(* asks for it, or has it), and accounts for every lock remembered: its    *)
(* coordinator is loaded, or was unloaded before it had the lock.          *)
(***************************************************************************)
EXTENDS Backup, TLAPS

\* The steps at which a coordinator asks for its lock, and all those from the
\* first lock to the end of the tar.
Asking  == {"acquiring", "acquired"}
Holding == {"locking", "acquiring", "acquired", "tar"}

\* Only coordinators that have been loaded wait for a lock, ask for one, have one
\* or are targets, and an unloaded entry has a load left.
Past ==
  /\ \A c \in todo \cup targets : c[2] <= loads[c[1]]
  /\ \A e \in Entries : lock[e] \in Coordinators => lock[e][2] <= loads[lock[e][1]]
  /\ \A e \in Entries : ~loaded[e] => loads[e] <= MaxReloads

\* Only a coordinator without a lock asks for one, and it has it once granted.
Asker ==
  /\ phase \in Asking =>
       current \in Coordinators \ attr /\ current[2] <= loads[current[1]]
  /\ phase = "acquired" => lock[current[1]] = current

\* A coordinator that remembers a lock has it.
Remembered == \A c \in attr : lock[c[1]] = c

\* A target that is still loaded waits for its lock, asks for it, or has it.
Covered ==
  phase \in Holding =>
    \A c \in targets \cap Loaded :
      \/ phase # "tar" /\ c \in todo
      \/ phase \in Asking /\ current = c
      \/ lock[c[1]] = c

\* Whoever waits for a lock, asks for one or remembers one is loaded, or was
\* unloaded while the backup was still to lock it; after the backup the locks of
\* those loaded are released one after the other.
Accounted ==
  /\ todo \cup attr \subseteq Loaded \cup orphans
  /\ phase \in Asking => current \in Loaded \cup orphans
  /\ phase = "releasing" => attr \subseteq locked \cup orphans
  /\ phase = "idle" => attr \subseteq orphans

Inv == TypeOK /\ Past /\ Asker /\ Remembered /\ Covered /\ Tracked /\ Accounted

LEMMA CoordinatorParts ==
  ASSUME NEW c \in Coordinators
  PROVE  c[1] \in Entries /\ c[2] \in 1 .. MaxReloads + 1 /\ c = <<c[1], c[2]>>
BY DEF Coordinators

\* What async_release_backup_lock does to the locks.
LEMMA ReleaseLocks ==
  ASSUME TypeOK, NEW cs, Release(cs)
  PROVE  /\ attr' \subseteq Coordinators
         /\ lock' \in [Entries -> Coordinators \cup {Free, Writer}]
         /\ \A e \in Entries : lock'[e] = lock[e] \/ (lock'[e] = Free /\ lock[e] \in attr \cap cs)
         /\ \A e \in Entries : lock[e] \in attr \cap cs => lock'[e] = Free
BY DEF TypeOK, Release

\* A release disturbs nobody else: coordinators keep their locks and their own
\* knowledge of them.
LEMMA ReleaseKeeps ==
  ASSUME Inv, NEW cs, Release(cs),
         phase # "acquired" \/ (phase' = phase /\ current' = current)
  PROVE  Remembered' /\ Tracked'
<1>1. Remembered'
  <2> SUFFICES ASSUME NEW c \in attr' PROVE lock'[c[1]] = c
    BY DEF Remembered
  <2>1. c \in attr \ cs /\ c \in Coordinators
    BY DEF Release, Inv, TypeOK
  <2>2. lock[c[1]] = c /\ c[1] \in Entries
    BY <2>1, CoordinatorParts DEF Inv, Remembered
  <2> QED BY <2>1, <2>2, ReleaseLocks DEF Inv
<1>2. Tracked'
  <2> SUFFICES ASSUME NEW e \in Entries, lock'[e] \in Coordinators
               PROVE  lock'[e] \in attr' \/ (phase' = "acquired" /\ current' = lock'[e])
    BY DEF Tracked
  <2>1. lock'[e] = lock[e] /\ lock[e] \notin attr \cap cs
    BY ReleaseLocks, BackupAssumption DEF Inv
  <2> QED BY <2>1 DEF Inv, Tracked, Release
<1> QED BY <1>1, <1>2

LEMMA Initially == Init => Inv
<1> SUFFICES ASSUME Init PROVE Inv
  OBVIOUS
<1>1. TypeOK
  BY BackupAssumption DEF Init, TypeOK, Phases, Coordinators
<1>2. Past /\ Asker /\ Remembered /\ Covered /\ Tracked /\ Accounted
  BY BackupAssumption DEF Init, Past, Asker, Remembered, Covered, Tracked, Accounted,
     Asking, Holding, Loaded
<1> QED BY <1>1, <1>2 DEF Inv

LEMMA Inductive == Inv /\ [Next]_vars => Inv'
<1> SUFFICES ASSUME Inv, [Next]_vars PROVE Inv'
  OBVIOUS
<1> USE BackupAssumption DEF Asking, Holding
<1>1. CASE StartBackup
  <2>1. TypeOK'
    BY <1>1, CoordinatorParts DEF StartBackup, Inv, TypeOK, Phases, Loaded
  <2>2. Past'
    BY <1>1, CoordinatorParts DEF StartBackup, Inv, TypeOK, Past, Loaded
  <2>3. Asker'
    BY <1>1, CoordinatorParts DEF StartBackup, Inv, TypeOK, Asker, Loaded
  <2>4. Remembered'
    BY <1>1, CoordinatorParts DEF StartBackup, Inv, TypeOK, Remembered, Loaded
  <2>5. Covered'
    BY <1>1, CoordinatorParts DEF StartBackup, Inv, TypeOK, Covered, Loaded
  <2>6. Tracked'
    BY <1>1, CoordinatorParts DEF StartBackup, Inv, TypeOK, Tracked, Loaded
  <2>7. Accounted'
    BY <1>1, CoordinatorParts DEF StartBackup, Inv, TypeOK, Accounted, Loaded
  <2> QED BY <2>1, <2>2, <2>3, <2>4, <2>5, <2>6, <2>7 DEF Inv
<1>2. CASE LockNext
  <2>1. TypeOK'
    BY <1>2, CoordinatorParts DEF LockNext, Inv, TypeOK, Phases, Loaded
  <2>2. Past'
    BY <1>2, CoordinatorParts DEF LockNext, Inv, TypeOK, Past, Loaded
  <2>3. Asker'
    BY <1>2 DEF LockNext, Inv, TypeOK, Asker, Past
  <2>4. Remembered'
    BY <1>2, CoordinatorParts DEF LockNext, Inv, TypeOK, Remembered, Loaded
  <2>5. Covered'
    <3>1. PICK c \in todo : todo' = todo \ {c} /\ (c \in attr => phase' = phase)
                          /\ (c \notin attr => phase' = "acquiring" /\ current' = c)
      BY <1>2 DEF LockNext
    <3>2. c \in attr => lock[c[1]] = c
      BY DEF Inv, Remembered
    <3> QED BY <1>2, <3>1, <3>2 DEF LockNext, Inv, Covered, Loaded
  <2>6. Tracked'
    BY <1>2, CoordinatorParts DEF LockNext, Inv, TypeOK, Tracked, Loaded
  <2>7. Accounted'
    BY <1>2, CoordinatorParts DEF LockNext, Inv, TypeOK, Accounted, Loaded
  <2> QED BY <2>1, <2>2, <2>3, <2>4, <2>5, <2>6, <2>7 DEF Inv
<1>3. CASE Acquire
  <2>1. TypeOK'
    BY <1>3, CoordinatorParts DEF Acquire, Inv, TypeOK, Asker, Phases, Loaded
  <2>2. Past'
    BY <1>3, CoordinatorParts DEF Acquire, Inv, TypeOK, Past, Asker
  <2>3. Asker'
    BY <1>3, CoordinatorParts DEF Acquire, Inv, TypeOK, Asker, Loaded
  <2>4. Remembered'
    BY <1>3, CoordinatorParts DEF Acquire, Inv, TypeOK, Remembered, Loaded
  <2>5. Covered'
    BY <1>3, CoordinatorParts DEF Acquire, Inv, TypeOK, Covered, Loaded
  <2>6. Tracked'
    BY <1>3, CoordinatorParts DEF Acquire, Inv, TypeOK, Tracked, Loaded
  <2>7. Accounted'
    BY <1>3, CoordinatorParts DEF Acquire, Inv, TypeOK, Accounted, Loaded
  <2> QED BY <2>1, <2>2, <2>3, <2>4, <2>5, <2>6, <2>7 DEF Inv
<1>4. CASE AcquireFails
  <2>1. TypeOK'
    BY <1>4, CoordinatorParts DEF AcquireFails, Inv, TypeOK, Phases, Loaded
  <2>2. Past'
    BY <1>4, CoordinatorParts DEF AcquireFails, Inv, TypeOK, Past, Loaded
  <2>3. Asker'
    BY <1>4, CoordinatorParts DEF AcquireFails, Inv, TypeOK, Asker, Loaded
  <2>4. Remembered'
    BY <1>4, CoordinatorParts DEF AcquireFails, Inv, TypeOK, Remembered, Loaded
  <2>5. Covered'
    BY <1>4, CoordinatorParts DEF AcquireFails, Inv, TypeOK, Covered, Loaded
  <2>6. Tracked'
    BY <1>4, CoordinatorParts DEF AcquireFails, Inv, TypeOK, Tracked, Loaded
  <2>7. Accounted'
    BY <1>4, CoordinatorParts DEF AcquireFails, Inv, TypeOK, Accounted, Loaded
  <2> QED BY <2>1, <2>2, <2>3, <2>4, <2>5, <2>6, <2>7 DEF Inv
<1>5. CASE KeepLock
  <2>1. TypeOK'
    BY <1>5, CoordinatorParts DEF KeepLock, Inv, TypeOK, Asker, Phases, Loaded
  <2>2. Past'
    BY <1>5, CoordinatorParts DEF KeepLock, Inv, TypeOK, Past, Loaded
  <2>3. Asker'
    BY <1>5, CoordinatorParts DEF KeepLock, Inv, TypeOK, Asker, Loaded
  <2>4. Remembered'
    BY <1>5 DEF KeepLock, Inv, Remembered, Asker
  <2>5. Covered'
    BY <1>5 DEF KeepLock, Inv, Covered, Asker, Loaded
  <2>6. Tracked'
    BY <1>5, CoordinatorParts DEF KeepLock, Inv, TypeOK, Tracked, Loaded
  <2>7. Accounted'
    BY <1>5, CoordinatorParts DEF KeepLock, Inv, TypeOK, Accounted, Loaded
  <2> QED BY <2>1, <2>2, <2>3, <2>4, <2>5, <2>6, <2>7 DEF Inv
<1>6. CASE Abort
  <2>1. TypeOK'
    BY <1>6, CoordinatorParts, ReleaseLocks DEF Abort, Inv, TypeOK, Phases, Loaded
  <2>2. Past'
    BY <1>6, CoordinatorParts, ReleaseLocks DEF Abort, Inv, TypeOK, Past, Loaded
  <2>3. Asker'
    BY <1>6, CoordinatorParts, ReleaseLocks DEF Abort, Inv, TypeOK, Asker, Loaded
  <2>4. Remembered'
    BY <1>6, ReleaseKeeps DEF Abort
  <2>5. Covered'
    BY <1>6, CoordinatorParts, ReleaseLocks DEF Abort, Inv, TypeOK, Covered, Loaded
  <2>6. Tracked'
    BY <1>6, ReleaseKeeps DEF Abort
  <2>7. Accounted'
    BY <1>6 DEF Abort, Release, Inv, Accounted, Loaded
  <2> QED BY <2>1, <2>2, <2>3, <2>4, <2>5, <2>6, <2>7 DEF Inv
<1>7. CASE StartTar
  <2>1. TypeOK'
    BY <1>7, CoordinatorParts DEF StartTar, Inv, TypeOK, Phases, Loaded
  <2>2. Past'
    BY <1>7, CoordinatorParts DEF StartTar, Inv, TypeOK, Past, Loaded
  <2>3. Asker'
    BY <1>7, CoordinatorParts DEF StartTar, Inv, TypeOK, Asker, Loaded
  <2>4. Remembered'
    BY <1>7, CoordinatorParts DEF StartTar, Inv, TypeOK, Remembered, Loaded
  <2>5. Covered'
    BY <1>7, CoordinatorParts DEF StartTar, Inv, TypeOK, Covered, Loaded
  <2>6. Tracked'
    BY <1>7, CoordinatorParts DEF StartTar, Inv, TypeOK, Tracked, Loaded
  <2>7. Accounted'
    BY <1>7, CoordinatorParts DEF StartTar, Inv, TypeOK, Accounted, Loaded
  <2> QED BY <2>1, <2>2, <2>3, <2>4, <2>5, <2>6, <2>7 DEF Inv
<1>8. CASE EndTar
  <2>1. TypeOK'
    BY <1>8, CoordinatorParts DEF EndTar, Inv, TypeOK, Phases, Loaded
  <2>2. Past'
    BY <1>8, CoordinatorParts DEF EndTar, Inv, TypeOK, Past, Loaded
  <2>3. Asker'
    BY <1>8, CoordinatorParts DEF EndTar, Inv, TypeOK, Asker, Loaded
  <2>4. Remembered'
    BY <1>8, CoordinatorParts DEF EndTar, Inv, TypeOK, Remembered, Loaded
  <2>5. Covered'
    BY <1>8, CoordinatorParts DEF EndTar, Inv, TypeOK, Covered, Loaded
  <2>6. Tracked'
    BY <1>8, CoordinatorParts DEF EndTar, Inv, TypeOK, Tracked, Loaded
  <2>7. Accounted'
    BY <1>8, CoordinatorParts DEF EndTar, Inv, TypeOK, Accounted, Loaded
  <2> QED BY <2>1, <2>2, <2>3, <2>4, <2>5, <2>6, <2>7 DEF Inv
<1>9. CASE PostBackup
  <2>1. TypeOK'
    BY <1>9, CoordinatorParts DEF PostBackup, Inv, TypeOK, Phases, Loaded
  <2>2. Past'
    BY <1>9, CoordinatorParts DEF PostBackup, Inv, TypeOK, Past, Loaded
  <2>3. Asker'
    BY <1>9, CoordinatorParts DEF PostBackup, Inv, TypeOK, Asker, Loaded
  <2>4. Remembered'
    BY <1>9, CoordinatorParts DEF PostBackup, Inv, TypeOK, Remembered, Loaded
  <2>5. Covered'
    BY <1>9, CoordinatorParts DEF PostBackup, Inv, TypeOK, Covered, Loaded
  <2>6. Tracked'
    BY <1>9, CoordinatorParts DEF PostBackup, Inv, TypeOK, Tracked, Loaded
  <2>7. Accounted'
    BY <1>9, CoordinatorParts DEF PostBackup, Inv, TypeOK, Accounted, Loaded
  <2> QED BY <2>1, <2>2, <2>3, <2>4, <2>5, <2>6, <2>7 DEF Inv
<1>10. ASSUME NEW e \in Entries, BeginWrite(e) PROVE Inv'
  <2>1. TypeOK'
    BY <1>10, CoordinatorParts DEF BeginWrite, Inv, TypeOK, Phases, Loaded
  <2>2. Past'
    BY <1>10, CoordinatorParts DEF BeginWrite, Inv, TypeOK, Past, Loaded
  <2>3. Asker'
    BY <1>10, CoordinatorParts DEF BeginWrite, Inv, TypeOK, Asker, Loaded
  <2>4. Remembered'
    BY <1>10, CoordinatorParts DEF BeginWrite, Inv, TypeOK, Remembered, Loaded
  <2>5. Covered'
    BY <1>10, CoordinatorParts DEF BeginWrite, Inv, TypeOK, Covered, Loaded
  <2>6. Tracked'
    BY <1>10, CoordinatorParts DEF BeginWrite, Inv, TypeOK, Tracked, Loaded
  <2>7. Accounted'
    BY <1>10, CoordinatorParts DEF BeginWrite, Inv, TypeOK, Accounted, Loaded
  <2> QED BY <2>1, <2>2, <2>3, <2>4, <2>5, <2>6, <2>7 DEF Inv
<1>11. ASSUME NEW e \in Entries, Commit(e) PROVE Inv'
  <2>1. TypeOK'
    BY <1>11, CoordinatorParts DEF Commit, Inv, TypeOK, Phases, Loaded
  <2>2. Past'
    BY <1>11, CoordinatorParts DEF Commit, Inv, TypeOK, Past, Loaded
  <2>3. Asker'
    BY <1>11, CoordinatorParts DEF Commit, Inv, TypeOK, Asker, Loaded
  <2>4. Remembered'
    BY <1>11, CoordinatorParts DEF Commit, Inv, TypeOK, Remembered, Loaded
  <2>5. Covered'
    BY <1>11, CoordinatorParts DEF Commit, Inv, TypeOK, Covered, Loaded
  <2>6. Tracked'
    BY <1>11, CoordinatorParts DEF Commit, Inv, TypeOK, Tracked, Loaded
  <2>7. Accounted'
    BY <1>11, CoordinatorParts DEF Commit, Inv, TypeOK, Accounted, Loaded
  <2> QED BY <2>1, <2>2, <2>3, <2>4, <2>5, <2>6, <2>7 DEF Inv
<1>12. ASSUME NEW e \in Entries, Unload(e) PROVE Inv'
  <2>1. TypeOK'
    <3>1. /\ attr' \subseteq Coordinators
          /\ lock' \in [Entries -> Coordinators \cup {Free, Writer}]
      BY <1>12, ReleaseLocks DEF Unload, Inv
    <3>2. orphans' \subseteq Coordinators
      BY <1>12 DEF Unload, Inv, TypeOK, Coordinators
    <3> QED BY <1>12, <3>1, <3>2 DEF Unload, Inv, TypeOK
  <2>2. Past'
    BY <1>12, CoordinatorParts, ReleaseLocks DEF Unload, Inv, TypeOK, Past, Loaded
  <2>3. Asker'
    <3>1. phase = "acquired" => lock'[current[1]] = current
      BY <1>12, ReleaseLocks DEF Unload, Inv, TypeOK, Asker, Coordinators
    <3> QED BY <1>12, <3>1 DEF Unload, Release, Inv, Asker
  <2>4. Remembered'
    BY <1>12, ReleaseKeeps DEF Unload
  <2>5. Covered'
    BY <1>12, CoordinatorParts, ReleaseLocks DEF Unload, Inv, TypeOK, Covered, Loaded
  <2>6. Tracked'
    BY <1>12, ReleaseKeeps DEF Unload
  <2>7. Accounted'
    <3>1. Loaded \ {<<e, loads[e]>>} \subseteq Loaded'
      BY <1>12 DEF Unload, Inv, TypeOK, Loaded, Coordinators
    <3> QED BY <1>12, <3>1 DEF Unload, Release, Inv, Accounted
  <2> QED BY <2>1, <2>2, <2>3, <2>4, <2>5, <2>6, <2>7 DEF Inv
<1>13. ASSUME NEW e \in Entries, Load(e) PROVE Inv'
  <2>1. loads[e] \in 1 .. MaxReloads /\ loads' = [loads EXCEPT ![e] = loads[e] + 1]
    BY <1>13 DEF Load, Inv, TypeOK, Past
  <2>2. \A c \in Coordinators : c[2] <= loads[c[1]] => c[2] <= loads'[c[1]]
    BY <2>1, CoordinatorParts DEF Inv, TypeOK
  <2>3. \A c \in Coordinators : c \in Loaded' /\ c[2] <= loads[c[1]] => c \in Loaded
    BY <1>13, <2>1, CoordinatorParts DEF Load, Inv, TypeOK, Loaded
  <2>4. TypeOK'
    BY <1>13, <2>1 DEF Load, Inv, TypeOK, Phases
  <2>5. Past'
    <3>1. \A c \in todo' \cup targets' : c[2] <= loads'[c[1]]
      BY <1>13, <2>2 DEF Load, Inv, TypeOK, Past
    <3>2. \A f \in Entries : lock'[f] \in Coordinators => lock'[f][2] <= loads'[lock'[f][1]]
      BY <1>13, <2>2 DEF Load, Inv, Past
    <3>3. \A f \in Entries : ~loaded'[f] => loads'[f] <= MaxReloads
      BY <1>13, <2>1 DEF Load, Inv, TypeOK, Past
    <3> QED BY <3>1, <3>2, <3>3 DEF Past
  <2>6. Asker'
    BY <1>13, <2>2 DEF Load, Inv, Asker
  <2>7. Remembered'
    BY <1>13 DEF Load, Inv, Remembered
  <2>8. Covered'
    <3>1. targets' \cap Loaded' \subseteq targets \cap Loaded
      BY <1>13, <2>3 DEF Load, Inv, TypeOK, Past
    <3> QED BY <1>13, <3>1 DEF Load, Inv, Covered
  <2>9. Tracked'
    BY <1>13 DEF Load, Inv, Tracked
  <2>10. Accounted'
    <3>1. Loaded \subseteq Loaded'
      BY <1>13 DEF Load, Inv, TypeOK, Loaded
    <3> QED BY <1>13, <3>1 DEF Load, Inv, Accounted
  <2> QED BY <2>4, <2>5, <2>6, <2>7, <2>8, <2>9, <2>10 DEF Inv
<1>14. ASSUME NEW c \in Coordinators, Collect(c) PROVE Inv'
  <2>1. TypeOK'
    BY <1>14, CoordinatorParts, ReleaseLocks DEF Collect, Inv, TypeOK, Phases, Loaded
  <2>2. Past'
    BY <1>14, CoordinatorParts, ReleaseLocks DEF Collect, Inv, TypeOK, Past, Loaded
  <2>3. Asker'
    BY <1>14, CoordinatorParts, ReleaseLocks DEF Collect, Inv, TypeOK, Asker, Loaded
  <2>4. Remembered'
    BY <1>14, ReleaseKeeps DEF Collect
  <2>5. Covered'
    BY <1>14, CoordinatorParts, ReleaseLocks DEF Collect, Inv, TypeOK, Covered, Loaded
  <2>6. Tracked'
    BY <1>14, ReleaseKeeps DEF Collect
  <2>7. Accounted'
    BY <1>14 DEF Collect, Release, Inv, Accounted, Loaded
  <2> QED BY <2>1, <2>2, <2>3, <2>4, <2>5, <2>6, <2>7 DEF Inv
<1>16. CASE Raise
  <2>1. TypeOK'
    BY <1>16, CoordinatorParts DEF Raise, Inv, TypeOK, Phases, Loaded
  <2>2. Past'
    BY <1>16, CoordinatorParts DEF Raise, Inv, TypeOK, Past, Loaded
  <2>3. Asker'
    BY <1>16, CoordinatorParts DEF Raise, Inv, TypeOK, Asker, Loaded
  <2>4. Remembered'
    BY <1>16, CoordinatorParts DEF Raise, Inv, TypeOK, Remembered, Loaded
  <2>5. Covered'
    BY <1>16, CoordinatorParts DEF Raise, Inv, TypeOK, Covered, Loaded
  <2>6. Tracked'
    BY <1>16, CoordinatorParts DEF Raise, Inv, TypeOK, Tracked, Loaded
  <2>7. Accounted'
    BY <1>16, CoordinatorParts DEF Raise, Inv, TypeOK, Accounted, Loaded
  <2> QED BY <2>1, <2>2, <2>3, <2>4, <2>5, <2>6, <2>7 DEF Inv
<1>17. CASE EndBackup
  <2>1. TypeOK'
    BY <1>17, CoordinatorParts DEF EndBackup, Inv, TypeOK, Phases, Loaded
  <2>2. Past'
    BY <1>17, CoordinatorParts DEF EndBackup, Inv, TypeOK, Past, Loaded
  <2>3. Asker'
    BY <1>17, CoordinatorParts DEF EndBackup, Inv, TypeOK, Asker, Loaded
  <2>4. Remembered'
    BY <1>17, CoordinatorParts DEF EndBackup, Inv, TypeOK, Remembered, Loaded
  <2>5. Covered'
    BY <1>17, CoordinatorParts DEF EndBackup, Inv, TypeOK, Covered, Loaded
  <2>6. Tracked'
    BY <1>17, CoordinatorParts DEF EndBackup, Inv, TypeOK, Tracked, Loaded
  <2>7. Accounted'
    BY <1>17, CoordinatorParts DEF EndBackup, Inv, TypeOK, Accounted, Loaded
  <2> QED BY <2>1, <2>2, <2>3, <2>4, <2>5, <2>6, <2>7 DEF Inv
<1>18. CASE ReleaseNext
  <2>1. TypeOK'
    BY <1>18, CoordinatorParts, ReleaseLocks DEF ReleaseNext, Inv, TypeOK, Phases, Loaded
  <2>2. Past'
    BY <1>18, CoordinatorParts, ReleaseLocks DEF ReleaseNext, Inv, TypeOK, Past, Loaded
  <2>3. Asker'
    BY <1>18, CoordinatorParts, ReleaseLocks DEF ReleaseNext, Inv, TypeOK, Asker, Loaded
  <2>4. Remembered'
    BY <1>18, ReleaseKeeps DEF ReleaseNext
  <2>5. Covered'
    BY <1>18, CoordinatorParts, ReleaseLocks DEF ReleaseNext, Inv, TypeOK, Covered, Loaded
  <2>6. Tracked'
    BY <1>18, ReleaseKeeps DEF ReleaseNext
  <2>7. Accounted'
    BY <1>18 DEF ReleaseNext, Release, Inv, Accounted, Loaded
  <2> QED BY <2>1, <2>2, <2>3, <2>4, <2>5, <2>6, <2>7 DEF Inv
<1>15. CASE UNCHANGED vars
  BY <1>15 DEF vars, Inv, TypeOK, Past, Asker, Remembered, Covered, Tracked, Accounted, Loaded
<1> QED BY <1>1, <1>2, <1>3, <1>4, <1>5, <1>6, <1>7, <1>8, <1>9, <1>10, <1>11, <1>12, <1>13, <1>14,
           <1>15, <1>16, <1>17, <1>18 DEF Next, BackupStep

\* Everything follows from Inv being inductive.
LEMMA Invariant == Spec => []Inv
BY Initially, Inductive, PTL DEF Spec

\* The state keeps its shape through any backup, unload and reload.
THEOREM Typed == Spec => []TypeOK
<1>1. Inv => TypeOK
  BY DEF Inv
<1> QED BY <1>1, Invariant, PTL

\* A coordinator never loses track of a lock it holds (async_lock_for_backup,
\* async_release_backup_lock), whenever its entry is unloaded.
THEOREM LocksTracked == Spec => []Tracked
<1>1. Inv => Tracked
  BY DEF Inv
<1> QED BY <1>1, Invariant, PTL

\* After async_post_backup no lock of the backup is held, whether
\* async_pre_backup failed, and wherever entries were unloaded and loaded again
\* meanwhile; only a coordinator unloaded while it waited for its lock, or was
\* being granted it, may keep one, and so shut out the entry's next coordinator.
THEOREM LocksReleased == Spec => []NoLockLeft
<1>1. Inv => NoLockLeft
  BY DEF Inv, NoLockLeft, Tracked, Accounted
<1> QED BY <1>1, Invariant, PTL

\* While the tar is written, no writer has the archive of an entry that
\* async_pre_backup found and that has not been reloaded.
THEOREM Quiet == Spec => []QuietDuringTar
<1>1. Inv => QuietDuringTar
  <2> SUFFICES ASSUME Inv, phase = "tar", NEW c \in targets \cap Loaded
               PROVE  lock[c[1]] # Writer
    BY DEF QuietDuringTar
  <2>1. lock[c[1]] = c
    BY DEF Inv, Covered, Holding, Asking
  <2> QED BY <2>1, BackupAssumption DEF Loaded
<1> QED BY <1>1, Invariant, PTL
=============================================================================
