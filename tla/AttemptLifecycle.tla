------------------------- MODULE AttemptLifecycle -------------------------
(***************************************************************************)
(* One attempt from run.sh to the canonical results tree, with several     *)
(* run.sh invocations working on the same attempt: staging seeded with the *)
(* completion markers, the locked checkpoint, the outputs written to the   *)
(* staging tree, the EXIT trap that prunes and merges it, and the cleanup  *)
(* of the checkpoint once the marker is in the results tree.               *)
(*                                                                         *)
(* Sources: run.sh, src/checkpoint.py, src/cleanup_checkpoints.py,         *)
(* scripts/prune_staging.py, src/run.py (main, solve_seed), src/storage.py *)
(* (seed_done, write_seed_outputs).  The solving itself is the counter     *)
(* `units` of committed phases; SequentialAttempt has its detail.          *)
(***************************************************************************)
EXTENDS Integers, Sequences, FiniteSets

CONSTANTS
  Invocations,   \* run.sh processes, each with its container
  Units,         \* committed phases that make an attempt
  MaxRestarts    \* bound: invocations started again after a kill or a failure

ASSUME LifecycleAssumption ==
  Invocations # {} /\ IsFiniteSet(Invocations) /\ Units \in Nat \ {0} /\ MaxRestarts \in Nat

VARIABLES
  dir,        \* attempts/<digest> exists
  lockFile,   \* inode of its .lock, 0 when there is none
  ckpt,       \* its state.json: <<>> or <<state>>
  workspaces, \* names of the existing workspaces under w/
  canon,      \* the attempt's meta.json and solution.md in the results tree
  inv,        \* per invocation: its local state
  restarts    \* invocations started again so far

checkpointVars == <<dir, lockFile, ckpt, workspaces>>
vars == <<dir, lockFile, ckpt, workspaces, canon, inv, restarts>>

Ids == Nat \ {0}

\* state.json: committed phases, prepared completion marker, workspace name
State == [units : 0..Units, marker : BOOLEAN, ws : Ids \cup {0}]
Fresh == [units |-> 0, marker |-> FALSE, ws |-> 0]

Outputs == [meta : BOOLEAN, solution : BOOLEAN]
Nothing == [meta |-> FALSE, solution |-> FALSE]

InAttempt == {"locked", "working", "prepared", "written", "complete"}
PCs == {"idle", "staged", "opened", "trap", "merge", "merging", "scan",
        "cleanup", "cleanopen", "removing", "entries", "ended"} \cup InAttempt

Locals == [pc : PCs, finished : BOOLEAN, fd : Ids \cup {0}, holds : BOOLEAN, mem : State,
           staging : Outputs, todo : SUBSET {"state.json", ".lock"}]

Idle == [pc |-> "idle", finished |-> FALSE, fd |-> 0, holds |-> FALSE, mem |-> Fresh,
         staging |-> Nothing, todo |-> {}]

Init ==
  /\ dir = FALSE /\ lockFile = 0 /\ ckpt = <<>> /\ workspaces = {}
  /\ canon = Nothing
  /\ inv = [p \in Invocations |-> Idle]
  /\ restarts = 0

At(p, pc) == inv[p].pc = pc
Go(p, pc) == inv' = [inv EXCEPT ![p].pc = pc]

\* The lock file is closed, and the lock released, however p goes on.
CloseAnd(p, pc) ==
  inv' = [inv EXCEPT ![p].pc = pc, ![p].fd = 0, ![p].holds = FALSE]

Unlocked(inode) == \A q \in Invocations : ~(inv[q].holds /\ inv[q].fd = inode)

\* A new inode or temporary name is none of those still referred to.
Unused(taken) == CHOOSE i \in 1..Cardinality(taken)+1 : i \notin taken
NewInode == Unused({lockFile} \cup {inv[q].fd : q \in Invocations})
NewName  == Unused(workspaces \cup {inv[q].mem.ws : q \in Invocations}
                             \cup (IF ckpt # <<>> THEN {ckpt[1].ws} ELSE {}))

\* _save(): the whole in-memory state replaces state.json; the directory is
\* made again if it is gone.
Save(state) == dir' = TRUE /\ ckpt' = <<state>>

-----------------------------------------------------------------------------
(***************************************************************************)
(* The container: main() and solve_seed().                                 *)
(***************************************************************************)
\* staging receives the markers that are in the results tree now
Stage(p) ==
  /\ At(p, "idle")
  /\ inv' = [inv EXCEPT ![p].pc = "staged", ![p].staging = [Nothing EXCEPT !.meta = canon.meta]]
  /\ UNCHANGED <<checkpointVars, canon, restarts>>

\* Faulty variant: a prepared checkpoint counts as done
SkipPrepared(p) ==
  /\ At(p, "staged") /\ ckpt # <<>> /\ ckpt[1].marker
  /\ inv' = [inv EXCEPT ![p].pc = "trap", ![p].finished = TRUE]
  /\ UNCHANGED <<checkpointVars, canon, restarts>>

\* seed_done() looks at the staged markers, not at the results tree
SkipDone(p) ==
  /\ At(p, "staged") /\ inv[p].staging.meta
  /\ inv' = [inv EXCEPT ![p].pc = "trap", ![p].finished = TRUE]
  /\ UNCHANGED <<checkpointVars, canon, restarts>>

\* AttemptCheckpoint.__init__: make the directory, open .lock ...
OpenLock(p) ==
  /\ At(p, "staged") /\ ~inv[p].staging.meta
  /\ dir' = TRUE
  /\ lockFile' = IF lockFile = 0 THEN NewInode ELSE lockFile
  /\ inv' = [inv EXCEPT ![p].pc = "opened", ![p].fd = lockFile']
  /\ UNCHANGED <<ckpt, workspaces, canon, restarts>>

\* Faulty variant: go on without the lock
FlockIgnored(p) ==
  /\ At(p, "opened")
  /\ inv' = [inv EXCEPT ![p].pc = "locked", ![p].holds = TRUE]
  /\ UNCHANGED <<checkpointVars, canon, restarts>>

\* ... and lock what was opened, whether or not it is still there
Flock(p) ==
  /\ At(p, "opened")
  /\ IF Unlocked(inv[p].fd)
     THEN inv' = [inv EXCEPT ![p].pc = "locked", ![p].holds = TRUE]
     ELSE CloseAnd(p, "trap")
  /\ UNCHANGED <<checkpointVars, canon, restarts>>

\* Read state.json or write a new one; then scratch_dir(): a workspace that
\* disappeared under paid state is fatal.
OpenAttempt(p) ==
  /\ At(p, "locked")
  /\ LET found == IF ckpt # <<>> THEN ckpt[1] ELSE Fresh
         name  == IF found.ws = 0 THEN NewName ELSE found.ws
         state == [found EXCEPT !.ws = name]
     IN IF found.units > 0 /\ name \notin workspaces
        THEN CloseAnd(p, "trap") /\ UNCHANGED <<dir, ckpt, workspaces>>
        ELSE /\ inv' = [inv EXCEPT ![p].pc = "working", ![p].mem = state]
             /\ workspaces' = workspaces \cup {name}
             /\ IF found.ws = 0 THEN Save(state) ELSE UNCHANGED <<dir, ckpt>>
  /\ UNCHANGED <<lockFile, canon, restarts>>

\* one paid phase is committed
Work(p) ==
  /\ At(p, "working") /\ inv[p].mem.units < Units
  /\ LET state == [inv[p].mem EXCEPT !.units = @ + 1] IN
       Save(state) /\ inv' = [inv EXCEPT ![p].mem = state]
  /\ UNCHANGED <<lockFile, workspaces, canon, restarts>>

PrepareCompletion(p) ==
  /\ At(p, "working") /\ inv[p].mem.units = Units
  /\ LET state == [inv[p].mem EXCEPT !.marker = TRUE] IN
       Save(state) /\ inv' = [inv EXCEPT ![p].pc = "prepared", ![p].mem = state]
  /\ UNCHANGED <<lockFile, workspaces, canon, restarts>>

\* write_seed_outputs: solution.md, the scratch copy, and last meta.json
WriteSolution(p) ==
  /\ At(p, "prepared")
  /\ IF inv[p].mem.ws \in workspaces
     THEN inv' = [inv EXCEPT ![p].pc = "written", ![p].staging.solution = TRUE]
     ELSE CloseAnd(p, "trap")
  /\ UNCHANGED <<checkpointVars, canon, restarts>>

WriteMeta(p) ==
  /\ At(p, "written")
  /\ inv' = [inv EXCEPT ![p].pc = "complete", ![p].staging.meta = TRUE]
  /\ UNCHANGED <<checkpointVars, canon, restarts>>

\* complete() saves once more and, in the run stage, leaves the cleanup to the
\* host; close() releases the lock.
Complete(p) ==
  /\ At(p, "complete")
  /\ Save(inv[p].mem)
  /\ inv' = [inv EXCEPT ![p].pc = "trap", ![p].finished = TRUE,
                        ![p].fd = 0, ![p].holds = FALSE]
  /\ UNCHANGED <<lockFile, workspaces, canon, restarts>>

\* An exception, which run_all() logs, or a dead container; run.sh itself goes
\* on to its trap.
ContainerFails(p) ==
  /\ inv[p].pc \in InAttempt \cup {"staged", "opened"}
  /\ CloseAnd(p, "trap")
  /\ UNCHANGED <<checkpointVars, canon, restarts>>

-----------------------------------------------------------------------------
(***************************************************************************)
(* The EXIT trap: merge_staging and cleanup_completed_checkpoints.         *)
(***************************************************************************)
\* Faulty variant: any staged solution is worth merging
DurableWithoutMarker(staging) == staging.solution

\* prune_staging keeps an attempt that has both files
Durable(staging) == staging.meta /\ staging.solution

Prune(p) ==
  /\ At(p, "trap")
  /\ inv' = [inv EXCEPT ![p].pc = "merge",
                        ![p].staging = IF Durable(@) THEN @ ELSE Nothing]
  /\ UNCHANGED <<checkpointVars, canon, restarts>>

\* rsync copies file after file, by name: meta.json before solution.md
MergeMeta(p) ==
  /\ At(p, "merge")
  /\ canon' = [canon EXCEPT !.meta = @ \/ inv[p].staging.meta]
  /\ Go(p, "merging")
  /\ UNCHANGED <<checkpointVars, restarts>>

MergeSolution(p) ==
  /\ At(p, "merging")
  /\ canon' = [canon EXCEPT !.solution = @ \/ inv[p].staging.solution]
  /\ inv' = [inv EXCEPT ![p].pc = "scan", ![p].staging = Nothing]
  /\ UNCHANGED <<checkpointVars, restarts>>

\* Faulty variant: the checkpoint's own marker is taken as proof of the merge
RemovableUnmerged == ckpt # <<>> /\ ckpt[1].marker

\* cleanup_completed: a state whose prepared marker is in the results tree
Removable == ckpt # <<>> /\ ckpt[1].marker /\ canon.meta

Scan(p) ==
  /\ At(p, "scan")
  /\ IF Removable
     THEN inv' = [inv EXCEPT ![p].pc = "cleanup", ![p].mem = ckpt[1]]
     ELSE CloseAnd(p, "ended")
  /\ UNCHANGED <<checkpointVars, canon, restarts>>

\* lock_path.open("a+"): creates .lock, but not the directory
CleanupOpen(p) ==
  /\ At(p, "cleanup")
  /\ IF dir
     THEN /\ lockFile' = IF lockFile = 0 THEN NewInode ELSE lockFile
          /\ inv' = [inv EXCEPT ![p].pc = "cleanopen", ![p].fd = lockFile']
     ELSE CloseAnd(p, "ended") /\ UNCHANGED lockFile
  /\ UNCHANGED <<dir, ckpt, workspaces, canon, restarts>>

CleanupLock(p) ==
  /\ At(p, "cleanopen")
  /\ IF Unlocked(inv[p].fd)
     THEN inv' = [inv EXCEPT ![p].pc = "removing", ![p].holds = TRUE]
     ELSE CloseAnd(p, "ended")
  /\ UNCHANGED <<checkpointVars, canon, restarts>>

RemoveWorkspace(p) ==
  /\ At(p, "removing")
  /\ workspaces' = workspaces \ {inv[p].mem.ws}
  /\ inv' = [inv EXCEPT ![p].pc = "entries",
                        ![p].todo = (IF ckpt # <<>> THEN {"state.json"} ELSE {})
                               \cup (IF lockFile # 0 THEN {".lock"} ELSE {})]
  /\ UNCHANGED <<dir, lockFile, ckpt, canon, restarts>>

\* rmtree unlinks what it listed, in directory order; a file that somebody
\* else removed meanwhile is an error
RemoveEntry(p) ==
  /\ At(p, "entries")
  /\ \E entry \in inv[p].todo :
       /\ IF (entry = "state.json" /\ ckpt = <<>>) \/ (entry = ".lock" /\ lockFile = 0)
          THEN CloseAnd(p, "ended")
          ELSE inv' = [inv EXCEPT ![p].todo = @ \ {entry}]
       /\ ckpt' = IF entry = "state.json" THEN <<>> ELSE ckpt
       /\ lockFile' = IF entry = ".lock" THEN 0 ELSE lockFile
  /\ UNCHANGED <<dir, workspaces, canon, restarts>>

\* Faulty variant: the directory goes with whatever has been put there meanwhile
RemoveDirForced(p) ==
  /\ At(p, "entries") /\ inv[p].todo = {}
  /\ dir' = FALSE /\ CloseAnd(p, "ended")
  /\ UNCHANGED <<lockFile, ckpt, workspaces, canon, restarts>>

\* rmdir: an error if somebody has put a file there again
RemoveDir(p) ==
  /\ At(p, "entries") /\ inv[p].todo = {}
  /\ IF dir /\ ckpt = <<>> /\ lockFile = 0
     THEN dir' = FALSE /\ CloseAnd(p, "ended")
     ELSE CloseAnd(p, "ended") /\ UNCHANGED dir
  /\ UNCHANGED <<lockFile, ckpt, workspaces, canon, restarts>>

-----------------------------------------------------------------------------
\* The invocation dies with its container; its staging tree is orphaned.
Kill(p) ==
  /\ inv[p].pc \notin {"idle", "ended"}
  /\ inv' = [inv EXCEPT ![p] = [Idle EXCEPT !.pc = "ended"]]
  /\ UNCHANGED <<checkpointVars, canon, restarts>>

\* The operator runs the same command again.
Rerun(p) ==
  /\ At(p, "ended") /\ restarts < MaxRestarts
  /\ restarts' = restarts + 1
  /\ inv' = [inv EXCEPT ![p] = Idle]
  /\ UNCHANGED <<checkpointVars, canon>>

Next ==
  \E p \in Invocations :
    \/ Stage(p) \/ SkipDone(p) \/ OpenLock(p) \/ Flock(p) \/ OpenAttempt(p)
    \/ Work(p) \/ PrepareCompletion(p) \/ WriteSolution(p) \/ WriteMeta(p)
    \/ Complete(p) \/ ContainerFails(p)
    \/ Prune(p) \/ MergeMeta(p) \/ MergeSolution(p) \/ Scan(p)
    \/ CleanupOpen(p) \/ CleanupLock(p) \/ RemoveWorkspace(p)
    \/ RemoveEntry(p) \/ RemoveDir(p)
    \/ Kill(p) \/ Rerun(p)

Spec == Init /\ [][Next]_vars

-----------------------------------------------------------------------------
\* Types, among them that no file is left without the directory.
TypeOK ==
  /\ dir \in BOOLEAN
  /\ lockFile \in Ids \cup {0}
  /\ ckpt \in Seq(State) /\ Len(ckpt) <= 1
  /\ workspaces \subseteq Ids /\ IsFiniteSet(workspaces)
  /\ canon \in Outputs
  /\ inv \in [Invocations -> Locals]
  /\ restarts \in 0..MaxRestarts
  /\ lockFile # 0 \/ ckpt # <<>> => dir

\* Until the attempt's marker is in the results tree, a committed phase is
\* never lost: the checkpoint is not removed, and no invocation that raced
\* with a cleanup or with another invocation writes an older state over it.
PaidWorkKept ==
  [][\A n \in 1..Units :
       ckpt # <<>> /\ ckpt[1].units >= n =>
         canon'.meta \/ (ckpt' # <<>> /\ ckpt'[1].units >= n)]_vars

\* What an interrupted container left half-written never reaches the results
\* tree: a solution there comes with its marker.
PartialNeverMerged == canon.solution => canon.meta

\* An invocation that completed the attempt, or skipped it as completed, and
\* was not killed, leaves it in the results tree.
FinishedIsDelivered ==
  \A p \in Invocations : At(p, "ended") /\ inv[p].finished => canon.meta

\* A paid conversation always finds its workspace again, so an attempt that is
\* not delivered is never refused ("refusing transcript reset"), although a
\* cleanup removes the workspace before the state that names it.
WorkspaceKept ==
  ckpt # <<>> /\ ckpt[1].units > 0 /\ ~canon.meta => ckpt[1].ws \in workspaces

\* While the attempt is not in the results tree, only one process at a time
\* works on its checkpoint, whichever way the lock file is opened or removed.
OneWorkerUntilDelivered ==
  ~canon.meta => \A p, q \in Invocations :
    inv[p].pc \in InAttempt /\ inv[q].pc \in InAttempt => p = q

\* README: "exact duplicate invocations are locked".
DuplicatesLocked ==
  \A p, q \in Invocations : inv[p].pc \in InAttempt /\ inv[q].pc \in InAttempt => p = q

\* README: "run checkpoints are deleted only after the staged result has
\* merged durably into the host results tree".
DeletedOnlyAfterMerge ==
  [][ckpt # <<>> /\ ckpt' = <<>> => canon.meta /\ canon.solution]_vars
=============================================================================
