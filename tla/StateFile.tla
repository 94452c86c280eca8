------------------------------ MODULE StateFile ------------------------------
(***************************************************************************)
(* The state files shared by the processes of the bridge (serve, verify,   *)
(* setup): model-capabilities.json and model-slots.json.  A process loads  *)
(* the file when it starts, changes records of its copy, and writes the    *)
(* copy back under a lock file (internal/config/state_file.go).            *)
(*                                                                         *)
(* A record is a version: the number of the change that made it, 0 where   *)
(* there is none.  Records of the capability cache are kept by provider    *)
(* and model, those of the slots by provider.  Failing system calls are    *)
(* left out, but for the rename of a file that is not there.               *)
(***************************************************************************)
EXTENDS Naturals, FiniteSets

CONSTANTS
  Processes,
  Keys,          \* the records of the file
  NoOne,         \* the lock file does not exist
  MaxUpdates,    \* bound: updates of records by all processes
  MaxCrashes     \* bound: processes killed

ASSUME StateFileConstants ==
  /\ NoOne \notin Processes
  /\ Keys # {}
  /\ MaxUpdates \in Nat
  /\ MaxCrashes \in Nat

VARIABLES
  file,       \* path: its records, or Partial
  temp,       \* path + ".tmp": the set of its content, empty without the file
  lock,       \* path + ".lock": who created it, and whether it has become old
  pc,         \* where a process is
  snapshot,   \* the process's copy of the records
  merged,     \* what the process is going to write
  own,        \* history: the records the process has changed
  updates,    \* changes of records made so far
  crashes,    \* processes killed so far
  broken      \* history: the lock of a live process was taken for an old one,
              \* or a fresh lock was removed in the place of an old one

fileVars == <<file, temp, lock, pc, snapshot, merged, own, updates, crashes, broken>>
local == <<snapshot, merged, own, updates>>

Records == [Keys -> 0..MaxUpdates]
Partial == [k \in {} |-> 0]
NoRecords == [k \in Keys |-> 0]
NoLock == [holder |-> NoOne, old |-> FALSE]

\* Inside the function passed to withStateFileLock.
Critical == {"read", "truncate", "write", "rename", "release"}
Inside(p) == pc[p] \in Critical

Goto(p, label) == pc' = [pc EXCEPT ![p] = label]

FileTypeOK ==
  /\ file \in Records \cup {Partial}
  /\ temp \subseteq Records \cup {Partial} /\ Cardinality(temp) <= 1
  /\ lock \in [holder : Processes \cup {NoOne}, old : BOOLEAN]
  /\ pc \in [Processes -> Critical \cup {"down", "up", "locking", "removing"}]
  /\ snapshot \in [Processes -> Records]
  /\ merged \in [Processes -> Records]
  /\ own \in [Processes -> SUBSET Keys]
  /\ updates \in 0..MaxUpdates
  /\ crashes \in 0..MaxCrashes
  /\ broken \in BOOLEAN

FileInit ==
  /\ file = NoRecords
  /\ temp = {}
  /\ lock = NoLock
  /\ pc = [p \in Processes |-> "down"]
  /\ snapshot = [p \in Processes |-> NoRecords]
  /\ merged = [p \in Processes |-> NoRecords]
  /\ own = [p \in Processes |-> {}]
  /\ updates = 0
  /\ crashes = 0
  /\ broken = FALSE

-----------------------------------------------------------------------------
(* A process outside the lock                                              *)

\* loadRuntimeState; a file that cannot be parsed keeps the process down.
LoadState(p) ==
  /\ pc[p] = "down" /\ file # Partial
  /\ snapshot' = [snapshot EXCEPT ![p] = file]
  /\ own' = [own EXCEPT ![p] = {}]
  /\ Goto(p, "up")
  /\ UNCHANGED <<file, temp, lock, merged, updates, crashes, broken>>

\* UpdateVerifiedCapability or setDiscoveryAssignments: a new record.
Change(p, k) ==
  /\ pc[p] = "up" /\ updates < MaxUpdates
  /\ updates' = updates + 1
  /\ snapshot' = [snapshot EXCEPT ![p][k] = updates + 1]
  /\ own' = [own EXCEPT ![p] = @ \cup {k}]
  /\ UNCHANGED <<file, temp, lock, pc, merged, crashes, broken>>

\* WriteCapabilityCache or WriteModelDiscoveryState.
StartWrite(p) ==
  /\ pc[p] = "up" /\ own[p] # {}
  /\ Goto(p, "locking")
  /\ UNCHANGED <<file, temp, lock, local, crashes, broken>>

\* The process ends: its files stay.
Exit(p) ==
  /\ pc[p] = "up"
  /\ Goto(p, "down")
  /\ UNCHANGED <<file, temp, lock, local, crashes, broken>>

Crash(p) ==
  /\ pc[p] # "down" /\ crashes < MaxCrashes
  /\ crashes' = crashes + 1
  /\ Goto(p, "down")
  /\ UNCHANGED <<file, temp, lock, local, broken>>

-----------------------------------------------------------------------------
(* The loop of withStateFileLock                                           *)

\* Mutant: the lock file is opened without O_EXCL.
AcquireAny(p) ==
  /\ pc[p] = "locking"
  /\ lock' = [holder |-> p, old |-> FALSE]
  /\ Goto(p, "read")
  /\ UNCHANGED <<file, temp, local, crashes, broken>>

Acquire(p) ==
  /\ pc[p] = "locking" /\ lock.holder = NoOne
  /\ lock' = [holder |-> p, old |-> FALSE]
  /\ Goto(p, "read")
  /\ UNCHANGED <<file, temp, local, crashes, broken>>

\* Mutant: the deadline is checked on a lock that is old only.
GiveUpOld(p) ==
  /\ pc[p] = "locking" /\ lock.holder # NoOne /\ lock.old
  /\ Goto(p, "up")
  /\ UNCHANGED <<file, temp, lock, local, crashes, broken>>

\* stateLockWait has passed.
GiveUp(p) ==
  /\ pc[p] = "locking" /\ lock.holder # NoOne /\ ~lock.old
  /\ Goto(p, "up")
  /\ UNCHANGED <<file, temp, lock, local, crashes, broken>>

\* Two minutes have passed since the lock was created.
LockAges ==
  /\ lock.holder # NoOne /\ ~lock.old
  /\ lock' = [lock EXCEPT !.old = TRUE]
  /\ broken' = (broken \/ Inside(lock.holder))
  /\ UNCHANGED <<file, temp, pc, local, crashes>>

\* os.Stat finds a lock older than staleStateLock.
SeeOldLock(p) ==
  /\ pc[p] = "locking" /\ lock.holder # NoOne /\ lock.old
  /\ Goto(p, "removing")
  /\ UNCHANGED <<file, temp, lock, local, crashes, broken>>

\* os.Remove, whatever lock file is there by now.
RemoveOldLock(p) ==
  /\ pc[p] = "removing"
  /\ lock' = NoLock
  /\ broken' = (broken \/ (lock.holder # NoOne /\ ~lock.old))
  /\ Goto(p, "locking")
  /\ UNCHANGED <<file, temp, local, crashes>>

-----------------------------------------------------------------------------
(* The action under the lock                                               *)

\* Mutant: the process's copy alone is written.
MergeNothing(copy, latest) == copy

\* Every record of the copy replaces the latest one.
Merge(copy, latest) == [k \in Keys |-> IF copy[k] # 0 THEN copy[k] ELSE latest[k]]

\* readStateJSON and the merge; a file that cannot be parsed is an error.
Read(p) ==
  /\ pc[p] = "read"
  /\ IF file = Partial
     THEN Goto(p, "release") /\ UNCHANGED merged
     ELSE /\ merged' = [merged EXCEPT ![p] = Merge(snapshot[p], file)]
          /\ Goto(p, "truncate")
  /\ UNCHANGED <<file, temp, lock, snapshot, own, updates, crashes, broken>>

\* os.WriteFile creates or truncates the temporary file, then fills it.
Truncate(p) ==
  /\ pc[p] = "truncate"
  /\ temp' = {Partial}
  /\ Goto(p, "write")
  /\ UNCHANGED <<file, lock, local, crashes, broken>>

\* Mutant: the temporary file is appended to.
WriteAppended(p) ==
  /\ pc[p] = "write"
  /\ temp' = temp \cup {merged[p]}
  /\ Goto(p, "rename")
  /\ UNCHANGED <<file, lock, local, crashes, broken>>

Write(p) ==
  /\ pc[p] = "write"
  /\ temp' = {merged[p]}
  /\ Goto(p, "rename")
  /\ UNCHANGED <<file, lock, local, crashes, broken>>

\* os.Rename fails if another process has renamed the file away.
Rename(p) ==
  /\ pc[p] = "rename"
  /\ IF temp = {} THEN UNCHANGED <<file, snapshot, own>>
     ELSE /\ file' \in temp
          /\ snapshot' = [snapshot EXCEPT ![p] = merged[p]]
          /\ own' = [own EXCEPT ![p] = {}]
  /\ temp' = {}
  /\ Goto(p, "release")
  /\ UNCHANGED <<lock, merged, updates, crashes, broken>>

\* The deferred os.Remove, whoever has created the lock file.
Release(p) ==
  /\ pc[p] = "release"
  /\ lock' = NoLock
  /\ Goto(p, "up")
  /\ UNCHANGED <<file, temp, local, crashes, broken>>

Locking(p) ==
  Acquire(p) \/ GiveUp(p) \/ SeeOldLock(p) \/ RemoveOldLock(p)
Action(p) == Read(p) \/ Truncate(p) \/ Write(p) \/ Rename(p) \/ Release(p)

FileNext ==
  \/ LockAges
  \/ \E p \in Processes :
       \/ LoadState(p) \/ StartWrite(p) \/ Exit(p) \/ Crash(p)
       \/ Locking(p) \/ Action(p)
       \/ \E k \in Keys : Change(p, k)

FileSpec == FileInit /\ [][FileNext]_fileVars

\* A process that runs is scheduled.
FairFileSpec == FileSpec /\ \A p \in Processes : WF_fileVars(Locking(p)) /\ WF_fileVars(Action(p))

-----------------------------------------------------------------------------
(* Properties                                                              *)

\* The lock works as long as nobody takes the lock of a live process for an
\* old one: two processes are never both inside.
MutualExclusion ==
  ~broken => \A p, q \in Processes : Inside(p) /\ Inside(q) => p = q

\* A reader, or a process that starts after a crash at any point of a write,
\* finds a complete file: readers take no lock.
FileComplete == ~broken => file # Partial

\* No record is lost when several processes write.
RecordsKept ==
  [][~broken /\ file # Partial =>
       file' # Partial /\ \A k \in Keys : file[k] # 0 => file'[k] # 0]_fileVars

\* A process that starts to write always gets an answer, although a process
\* that crashed may have left its lock file behind.
WriteEnds ==
  \A p \in Processes : pc[p] = "locking" ~> pc[p] \in {"up", "down"}

\* A record that another process has just written is not overwritten by an
\* old snapshot: a write changes the records only that its process changed
\* (docs/configuration.md:214).
NoOldSnapshot ==
  [][~broken => \A p \in Processes : Rename(p) =>
       \A k \in Keys \ own[p] : file'[k] = file[k]]_fileVars
=============================================================================
