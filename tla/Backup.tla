------------------------------- MODULE Backup --------------------------------
(***************************************************************************)
(* Home Assistant backups (backup.py, coordinator.py, BackupLock): before  *)
(* the tar, each loaded entry's archive is checkpointed and write-locked,  *)
(* afterwards the locks of the loaded entries are released.  Locks are     *)
(* taken and released in one await each, so entries may be unloaded and    *)
(* loaded, and writers may hold the archive, in between.                   *)
(*                                                                         *)
(* A coordinator is an entry with the number of its load.  Home Assistant  *)
(* runs one backup at a time and calls async_post_backup after every       *)
(* async_pre_backup, failed or not.                                        *)
(***************************************************************************)
EXTENDS Integers

CONSTANTS
  Entries,     \* config entries, one archive each
  MaxReloads,  \* bound: loads of an entry after the first
  Free, Writer, \* holders of a write lock other than a backup
  NULL         \* nobody

VARIABLES
  phase,    \* of the backup
  todo,     \* coordinators async_pre_backup has still to lock
  locked,   \* those it locked; then, those whose lock is still to be released
  current,  \* the coordinator waiting for its lock
  loads,    \* loads of each entry so far
  loaded,   \* is the entry loaded?
  attr,     \* coordinators whose _backup_lock is set
  lock,     \* holder of each archive's write lock
  targets,  \* history: the coordinators this backup found loaded
  orphans   \* history: those unloaded while a backup was still to lock them

vars == <<phase, todo, locked, current, loads, loaded, attr, lock, targets, orphans>>

Coordinators == Entries \X (1 .. MaxReloads + 1)

ASSUME BackupAssumption ==
  /\ MaxReloads \in Nat
  /\ Free \notin Coordinators /\ Writer \notin Coordinators /\ NULL \notin Coordinators
  /\ Free # Writer

\* Of an entry's coordinators, the one that is loaded.
Loaded == {c \in Coordinators : loaded[c[1]] /\ c[2] = loads[c[1]]}

Phases == {"idle", "locking", "acquiring", "acquired", "aborting", "tar", "post",
           "releasing"}

TypeOK ==
  /\ phase \in Phases
  /\ todo \subseteq Coordinators /\ locked \subseteq Coordinators
  /\ current \in Coordinators \cup {NULL}
  /\ loads \in [Entries -> 1 .. MaxReloads + 1]
  /\ loaded \in [Entries -> BOOLEAN]
  /\ attr \subseteq Coordinators
  /\ lock \in [Entries -> Coordinators \cup {Free, Writer}]
  /\ targets \subseteq Coordinators /\ orphans \subseteq Coordinators

-----------------------------------------------------------------------------
(* async_release_backup_lock: forget the lock, then release it *)

\* Mutant: the lock is only forgotten.
Forget(cs) == attr' = attr \ cs /\ UNCHANGED lock

Release(cs) ==
  /\ attr' = attr \ cs
  /\ lock' = [e \in Entries |-> IF lock[e] \in attr \cap cs THEN Free ELSE lock[e]]

-----------------------------------------------------------------------------
(* The backup *)

StartBackup ==
  /\ phase = "idle"
  /\ phase' = "locking"
  /\ todo' = Loaded
  /\ targets' = Loaded
  /\ locked' = {}
  /\ UNCHANGED <<current, loads, loaded, attr, lock, orphans>>

\* async_lock_for_backup: only a coordinator without a lock asks for one.
LockNext ==
  /\ phase = "locking"
  /\ \E c \in todo :
       /\ todo' = todo \ {c}
       /\ IF c \in attr
          THEN /\ locked' = locked \cup {c}
               /\ UNCHANGED <<phase, current>>
          ELSE /\ phase' = "acquiring"
               /\ current' = c
               /\ UNCHANGED locked
  /\ UNCHANGED <<loads, loaded, attr, lock, targets, orphans>>

\* Mutant: the lock is held in the name of the entry.
AcquireForEntry ==
  /\ phase = "acquiring"
  /\ lock[current[1]] = Free
  /\ lock' = [lock EXCEPT ![current[1]] = current[1]]
  /\ phase' = "acquired"
  /\ UNCHANGED <<todo, locked, current, loads, loaded, attr, targets, orphans>>

\* BEGIN IMMEDIATE, in an executor thread.
Acquire ==
  /\ phase = "acquiring"
  /\ lock[current[1]] = Free
  /\ lock' = [lock EXCEPT ![current[1]] = current]
  /\ phase' = "acquired"
  /\ UNCHANGED <<todo, locked, current, loads, loaded, attr, targets, orphans>>

\* Mutant: the entry is skipped and the backup goes on.
SkipEntry ==
  /\ phase = "acquiring"
  /\ phase' = "locking"
  /\ current' = NULL
  /\ UNCHANGED <<todo, locked, loads, loaded, attr, lock, targets, orphans>>

\* The writer outlasts the busy timeout, or the disk fails: the loop is left.
AcquireFails ==
  /\ phase = "acquiring"
  /\ phase' = "aborting"
  /\ todo' = {}
  /\ current' = NULL
  /\ UNCHANGED <<locked, loads, loaded, attr, lock, targets, orphans>>

\* Mutant: only async_pre_backup keeps the lock.
KeepLockLocally ==
  /\ phase = "acquired"
  /\ locked' = locked \cup {current}
  /\ current' = NULL
  /\ phase' = "locking"
  /\ UNCHANGED <<todo, loads, loaded, attr, lock, targets, orphans>>

\* Back in the event loop the coordinator keeps the lock.
KeepLock ==
  /\ phase = "acquired"
  /\ attr' = attr \cup {current}
  /\ locked' = locked \cup {current}
  /\ current' = NULL
  /\ phase' = "locking"
  /\ UNCHANGED <<todo, loads, loaded, lock, targets, orphans>>

\* A failure releases what was locked, one coordinator after the other, and is
\* raised again.
Abort ==
  /\ phase = "aborting"
  /\ \E c \in locked : Release({c}) /\ locked' = locked \ {c}
  /\ UNCHANGED <<phase, todo, current, loads, loaded, targets, orphans>>

Raise ==
  /\ phase = "aborting"
  /\ locked = {}
  /\ phase' = "post"
  /\ UNCHANGED <<todo, locked, current, loads, loaded, attr, lock, targets, orphans>>

StartTar ==
  /\ phase = "locking"
  /\ todo = {}
  /\ phase' = "tar"
  /\ UNCHANGED <<todo, locked, current, loads, loaded, attr, lock, targets, orphans>>

EndTar ==
  /\ phase = "tar"
  /\ phase' = "post"
  /\ UNCHANGED <<todo, locked, current, loads, loaded, attr, lock, targets, orphans>>

\* async_post_backup lists the loaded coordinators and awaits one release after
\* the other.
PostBackup ==
  /\ phase = "post"
  /\ phase' = "releasing"
  /\ locked' = Loaded
  /\ UNCHANGED <<todo, current, loads, loaded, attr, lock, targets, orphans>>

ReleaseNext ==
  /\ phase = "releasing"
  /\ \E c \in locked : Release({c}) /\ locked' = locked \ {c}
  /\ UNCHANGED <<phase, todo, current, loads, loaded, targets, orphans>>

EndBackup ==
  /\ phase = "releasing"
  /\ locked = {}
  /\ phase' = "idle"
  /\ UNCHANGED <<todo, locked, current, loads, loaded, attr, lock, targets, orphans>>

-----------------------------------------------------------------------------
(* Writers and the life of an entry *)

\* A refresh of a loaded entry writes its archive.
BeginWrite(e) ==
  /\ loaded[e] /\ lock[e] = Free
  /\ lock' = [lock EXCEPT ![e] = Writer]
  /\ UNCHANGED <<phase, todo, locked, current, loads, loaded, attr, targets, orphans>>

Commit(e) ==
  /\ lock[e] = Writer
  /\ lock' = [lock EXCEPT ![e] = Free]
  /\ UNCHANGED <<phase, todo, locked, current, loads, loaded, attr, targets, orphans>>

\* async_unload_entry releases the lock the coordinator has by now.
Unload(e) ==
  /\ loaded[e] /\ loads[e] <= MaxReloads
  /\ loaded' = [loaded EXCEPT ![e] = FALSE]
  /\ Release({<<e, loads[e]>>})
  /\ orphans' = orphans \cup ({<<e, loads[e]>>} \cap (todo \cup {current}))
  /\ UNCHANGED <<phase, todo, locked, current, loads, targets>>

Load(e) ==
  /\ ~loaded[e]
  /\ loaded' = [loaded EXCEPT ![e] = TRUE]
  /\ loads' = [loads EXCEPT ![e] = @ + 1]
  /\ UNCHANGED <<phase, todo, locked, current, attr, lock, targets, orphans>>

\* Python collects the coordinator of an unloaded entry, and closes the
\* connection that holds its lock.  Nothing says when.
Collect(c) ==
  /\ c \in attr \ Loaded
  /\ phase \in {"idle", "tar"}
  /\ Release({c})
  /\ UNCHANGED <<phase, todo, locked, current, loads, loaded, targets, orphans>>

Init ==
  /\ phase = "idle"
  /\ todo = {} /\ locked = {}
  /\ current = NULL
  /\ loads = [e \in Entries |-> 1]
  /\ loaded = [e \in Entries |-> TRUE]
  /\ attr = {}
  /\ lock = [e \in Entries |-> Free]
  /\ targets = {} /\ orphans = {}

BackupStep ==
  \/ LockNext
  \/ Acquire
  \/ AcquireFails
  \/ KeepLock
  \/ Abort
  \/ Raise
  \/ StartTar
  \/ EndTar
  \/ PostBackup
  \/ ReleaseNext
  \/ EndBackup

Next ==
  \/ StartBackup
  \/ BackupStep
  \/ \E e \in Entries : BeginWrite(e) \/ Commit(e) \/ Unload(e) \/ Load(e)
  \/ \E c \in Coordinators : Collect(c)

Spec == Init /\ [][Next]_vars

\* A backup that started is carried on, and every transaction ends.
FairSpec ==
  /\ Spec
  /\ WF_vars(BackupStep)
  /\ \A e \in Entries : WF_vars(Commit(e))

-----------------------------------------------------------------------------
(* Properties *)

\* While the files are read, no entry that was loaded when the backup started,
\* and has not been reloaded since, has an open writer: "each entry's archive is
\* checkpointed and write-locked for the duration of the backup" (backup.py).
QuietDuringTar ==
  phase = "tar" => \A c \in targets \cap Loaded : lock[c[1]] # Writer

\* Between backups nobody holds a lock, however the backup ended and whatever was
\* reloaded meanwhile: "Failures never leave a lock behind" (backup.py).  The
\* exception is a coordinator unloaded while the backup was still to lock it:
\* there is nobody left to release the lock it is given.
NoLockLeft ==
  phase = "idle" => \A e \in Entries : lock[e] \in Coordinators => lock[e] \in orphans

\* A coordinator never loses track of a lock it holds: an archive locked for a
\* backup can be released by the coordinator that holds it.
Tracked ==
  \A e \in Entries : lock[e] \in Coordinators =>
    \/ lock[e] \in attr
    \/ phase = "acquired" /\ current = lock[e]

\* A backup does not shut writers out for ever: every lock it takes is released,
\* by the end of the backup, its failure or the unload of the entry, with the
\* exception of NoLockLeft.
WritersReturn ==
  \A c \in Coordinators : lock[c[1]] = c ~> lock[c[1]] # c \/ c \in orphans
=============================================================================
