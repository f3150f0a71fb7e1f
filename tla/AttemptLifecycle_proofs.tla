----------------------- MODULE AttemptLifecycle_proofs -----------------------
(***************************************************************************)
(* Proofs about AttemptLifecycle, for any number of invocations, phases    *)
(* and restarts.                                                           *)
(*                                                                         *)
(* What holds until the marker is in the results tree rests on nobody       *)
(* removing anything before that: the lock file an invocation has opened is *)
(* then the one the next invocation opens, so the lock excludes, and the    *)
(* worker's memory is what state.json holds.                               *)
(***************************************************************************)
EXTENDS AttemptLifecycle, FiniteSetTheorems, TLAPS

Worked   == {"working", "prepared", "written", "complete"}
Removing == {"removing", "entries"}

\* What an invocation's place says about its lock, its staging tree and the
\* results tree.
LocalShape(p) ==
  /\ inv[p].holds <=> inv[p].pc \in InAttempt \cup Removing
  /\ inv[p].pc \in InAttempt \cup Removing \cup {"opened", "cleanopen"} => inv[p].fd # 0
  /\ inv[p].pc \in Worked => inv[p].mem.ws # 0
  /\ inv[p].pc = "staged" /\ inv[p].staging.meta => canon.meta
  /\ inv[p].pc = "written" => inv[p].staging.solution
  /\ inv[p].pc = "complete" => Durable(inv[p].staging)
  /\ inv[p].finished => canon.meta \/ (inv[p].pc \in {"trap", "merge"} /\ Durable(inv[p].staging))
  /\ inv[p].pc \in {"merge", "merging"} => (inv[p].staging.solution => inv[p].staging.meta)
  /\ inv[p].pc = "merging" => (inv[p].staging.meta => canon.meta)
  /\ inv[p].pc \in {"cleanup", "cleanopen"} \cup Removing => canon.meta

\* An inode is locked once.
LockExclusive ==
  \A p, q \in Invocations :
    inv[p].holds /\ inv[q].holds /\ inv[p].fd = inv[q].fd => p = q

\* Before delivery every open lock file is the one in the directory, the worker
\* has the saved state in memory, and the workspace that state names exists.
Undelivered ==
  ~canon.meta =>
    /\ \A p \in Invocations : inv[p].fd # 0 => inv[p].fd = lockFile
    /\ \A p \in Invocations : inv[p].pc \in Worked => ckpt = <<inv[p].mem>>
    /\ ckpt # <<>> => ckpt[1].ws \in workspaces

IInv ==
  /\ TypeOK
  /\ \A p \in Invocations : LocalShape(p)
  /\ LockExclusive
  /\ Undelivered
  /\ PartialNeverMerged

-----------------------------------------------------------------------------
(***************************************************************************)
(* Fresh inodes and names.                                                 *)
(***************************************************************************)
\* Among the first n+1 names one is not in use when n are.
LEMMA UnusedIs ==
  ASSUME NEW T, IsFiniteSet(T)
  PROVE  Unused(T) \in Ids /\ Unused(T) \notin T
<1> DEFINE n == Cardinality(T)
<1>1. n \in Nat
  BY FS_CardinalityType
<1>2. IsFiniteSet(1..n+1) /\ Cardinality(1..n+1) = n + 1
  BY <1>1, FS_Interval
<1>3. ~ (1..n+1 \subseteq T)
  <2>1. SUFFICES ASSUME 1..n+1 \subseteq T PROVE FALSE
    OBVIOUS
  <2>2. Cardinality(1..n+1) <= n
    BY <2>1, FS_Subset
  <2> QED
    BY <1>1, <1>2, <2>2
<1>4. \E i \in 1..n+1 : i \notin T
  BY <1>3
<1>5. Unused(T) \in 1..n+1 /\ Unused(T) \notin T
  BY <1>4 DEF Unused
<1> QED
  BY <1>1, <1>5 DEF Ids

\* Finitely many invocations refer to finitely many inodes and names.
LEMMA ImageIsFinite ==
  ASSUME NEW S, IsFiniteSet(S), NEW f, DOMAIN f = S, f = [x \in S |-> f[x]]
  PROVE  IsFiniteSet({f[x] : x \in S})
<1> DEFINE T == {f[x] : x \in S}
<1>1. f \in Surjection(S, T)
  BY DEF Surjection
<1> HIDE DEF T
<1>2. IsFiniteSet(T)
  BY <1>1, FS_Surjection
<1> QED
  BY <1>2 DEF T

\* A file that is created is none that anybody has open.
LEMMA NewInodeIs ==
  ASSUME IInv
  PROVE  /\ NewInode \in Ids /\ NewInode # 0
         /\ \A q \in Invocations : inv[q].fd # NewInode
<1> DEFINE fds == {inv[q].fd : q \in Invocations}
<1>1. IsFiniteSet(fds)
  <2> DEFINE f == [q \in Invocations |-> inv[q].fd]
  <2>1. DOMAIN f = Invocations /\ f = [q \in Invocations |-> f[q]]
    OBVIOUS
  <2>2. {f[q] : q \in Invocations} = {inv[q].fd : q \in Invocations}
    OBVIOUS
  <2> HIDE DEF f
  <2>3. IsFiniteSet({f[q] : q \in Invocations})
    BY <2>1, LifecycleAssumption, ImageIsFinite
  <2> QED
    BY <2>2, <2>3
<1>2. IsFiniteSet({lockFile} \cup fds)
  BY <1>1, FS_Singleton, FS_Union
<1>3. NewInode \in Ids /\ NewInode \notin {lockFile} \cup fds
  BY <1>2, UnusedIs DEF NewInode
<1> QED
  BY <1>3 DEF Ids

\* A workspace that is created has a name of its own.
LEMMA NewNameIs ==
  ASSUME IInv
  PROVE  NewName \in Ids
<1> DEFINE names == {inv[q].mem.ws : q \in Invocations}
           saved == IF ckpt # <<>> THEN {ckpt[1].ws} ELSE {}
<1>1. IsFiniteSet(names) /\ IsFiniteSet(workspaces)
  <2> DEFINE f == [q \in Invocations |-> inv[q].mem.ws]
  <2>1. DOMAIN f = Invocations /\ f = [q \in Invocations |-> f[q]]
    OBVIOUS
  <2>2. {f[q] : q \in Invocations} = names
    OBVIOUS
  <2> HIDE DEF f
  <2>3. IsFiniteSet({f[q] : q \in Invocations})
    BY <2>1, LifecycleAssumption, ImageIsFinite
  <2>4. IsFiniteSet(names)
    BY <2>2, <2>3
  <2>5. IsFiniteSet(workspaces)
    BY DEF IInv, TypeOK
  <2> QED
    BY <2>4, <2>5
<1>2. IsFiniteSet(saved)
  BY FS_Singleton, FS_EmptySet
<1>3. IsFiniteSet(workspaces \cup names \cup saved)
  BY <1>1, <1>2, FS_Union
<1> QED
  BY <1>3, UnusedIs DEF NewName

-----------------------------------------------------------------------------
(***************************************************************************)
(* Steps of one invocation.                                                *)
(***************************************************************************)
\* Only p moves.
Moves(p) ==
  /\ inv' \in [Invocations -> Locals]
  /\ \A q \in Invocations \ {p} : inv'[q] = inv[q]

\* The others are where they were, and a delivered marker stays.
LEMMA OthersKeepShape ==
  ASSUME IInv, NEW p \in Invocations, Moves(p), canon.meta => canon'.meta, LocalShape(p)'
  PROVE  \A q \in Invocations : LocalShape(q)'
<1>1. SUFFICES ASSUME NEW q \in Invocations, q # p PROVE LocalShape(q)'
  OBVIOUS
<1>2. LocalShape(q) /\ inv'[q] = inv[q]
  BY <1>1 DEF IInv, Moves
<1> QED
  BY <1>2 DEF LocalShape

\* A step that touches no shared file and takes no lock.
LEMMA QuietStep ==
  ASSUME IInv, NEW p \in Invocations, Moves(p), LocalShape(p)',
         UNCHANGED <<checkpointVars, canon>>, restarts' \in 0..MaxRestarts,
         inv'[p].fd \in {0, inv[p].fd},
         inv'[p].holds => inv[p].holds /\ inv'[p].fd = inv[p].fd,
         inv'[p].pc \in Worked => inv[p].pc \in Worked /\ inv'[p].mem = inv[p].mem
  PROVE  IInv'
<1>1. UNCHANGED <<dir, lockFile, ckpt, workspaces, canon>>
  BY DEF checkpointVars
<1>2. TypeOK'
  BY <1>1 DEF IInv, TypeOK, Moves
<1>3. \A q \in Invocations : LocalShape(q)'
  BY <1>1, OthersKeepShape
<1>4. LockExclusive'
  BY DEF IInv, LockExclusive, Moves
<1>5. Undelivered'
  BY <1>1 DEF IInv, Undelivered, Moves
<1>6. PartialNeverMerged'
  BY <1>1 DEF IInv, PartialNeverMerged
<1> QED
  BY <1>2, <1>3, <1>4, <1>5, <1>6 DEF IInv

\* What CloseAnd leaves of the local state.
LEMMA CloseIs ==
  ASSUME IInv, NEW p \in Invocations, NEW pc \in PCs, CloseAnd(p, pc)
  PROVE  /\ Moves(p)
         /\ inv'[p].pc = pc /\ inv'[p].fd = 0 /\ ~inv'[p].holds
         /\ inv'[p].finished = inv[p].finished /\ inv'[p].mem = inv[p].mem
         /\ inv'[p].staging = inv[p].staging
<1>1. inv \in [Invocations -> Locals] /\ inv[p] \in Locals
  BY DEF IInv, TypeOK
<1>2. inv' = [inv EXCEPT ![p].pc = pc, ![p].fd = 0, ![p].holds = FALSE]
  BY DEF CloseAnd
<1> QED
  BY <1>1, <1>2 DEF Moves, Locals

\* Going to the trap or out with the lock released changes nothing shared.
LEMMA CloseStep ==
  ASSUME IInv, NEW p \in Invocations, NEW pc \in {"trap", "ended"}, CloseAnd(p, pc),
         inv[p].finished => canon.meta,
         UNCHANGED <<checkpointVars, canon, restarts>>
  PROVE  IInv'
<1>1. LocalShape(p) /\ restarts \in 0..MaxRestarts /\ pc \in PCs
  BY DEF IInv, TypeOK, PCs
<1>2. /\ Moves(p)
      /\ inv'[p].pc = pc /\ inv'[p].fd = 0 /\ ~inv'[p].holds
      /\ inv'[p].finished = inv[p].finished /\ inv'[p].mem = inv[p].mem
      /\ inv'[p].staging = inv[p].staging
  BY <1>1, CloseIs
<1>3. LocalShape(p)'
  BY <1>2 DEF LocalShape, InAttempt, Removing, Worked
<1> QED
  BY <1>1, <1>2, <1>3, QuietStep DEF Worked

-----------------------------------------------------------------------------
(***************************************************************************)
(* The steps of the container and of the trap that share nothing.          *)
(***************************************************************************)
LEMMA Here ==
  ASSUME IInv, NEW p \in Invocations
  PROVE  /\ inv \in [Invocations -> Locals] /\ inv[p] \in Locals /\ LocalShape(p)
         /\ restarts \in 0..MaxRestarts
         /\ canon.meta \in BOOLEAN /\ canon.solution \in BOOLEAN
         /\ inv[p].staging \in Outputs /\ Nothing \in Outputs /\ Idle \in Locals
<1>1. Fresh \in State /\ Nothing \in Outputs
  BY LifecycleAssumption DEF Fresh, State, Outputs, Nothing
<1>2. Idle \in Locals
  BY <1>1 DEF Idle, Locals, PCs
<1>3. canon \in Outputs /\ inv \in [Invocations -> Locals] /\ restarts \in 0..MaxRestarts
  BY DEF IInv, TypeOK
<1> QED
  BY <1>1, <1>2, <1>3 DEF IInv, Locals, Outputs

LEMMA StageIInv == ASSUME IInv, NEW p \in Invocations, Stage(p) PROVE IInv'
<1> DEFINE staged == [Nothing EXCEPT !.meta = canon.meta]
<1>1. staged \in Outputs /\ staged.meta = canon.meta
  BY Here DEF Outputs, Nothing
<1>2. inv' = [inv EXCEPT ![p].pc = "staged", ![p].staging = staged] /\ inv[p].pc = "idle"
  BY DEF Stage, At
<1> HIDE DEF staged
<1>3. /\ Moves(p) /\ inv'[p].pc = "staged" /\ inv'[p].staging = staged
      /\ inv'[p].holds = inv[p].holds /\ inv'[p].fd = inv[p].fd
      /\ inv'[p].finished = inv[p].finished
  BY <1>1, <1>2, Here DEF Moves, Locals, PCs
<1>4. UNCHANGED <<checkpointVars, canon, restarts>>
  BY DEF Stage
<1>5. LocalShape(p)'
  BY <1>1, <1>2, <1>3, <1>4, Here DEF LocalShape, InAttempt, Removing, Worked
<1> QED
  BY <1>3, <1>4, <1>5, Here, QuietStep DEF Worked

LEMMA SkipDoneIInv == ASSUME IInv, NEW p \in Invocations, SkipDone(p) PROVE IInv'
<1>1. /\ inv' = [inv EXCEPT ![p].pc = "trap", ![p].finished = TRUE]
      /\ inv[p].pc = "staged" /\ inv[p].staging.meta
      /\ UNCHANGED <<checkpointVars, canon, restarts>>
  BY DEF SkipDone, At
<1> DEFINE r == [inv[p] EXCEPT !.pc = "trap", !.finished = TRUE]
<1>2. /\ Moves(p) /\ inv'[p].pc = "trap" /\ inv'[p].staging = inv[p].staging
      /\ inv'[p].holds = inv[p].holds /\ inv'[p].fd = inv[p].fd
  <2>1. /\ r \in Locals /\ r.pc = "trap" /\ r.staging = inv[p].staging
        /\ r.holds = inv[p].holds /\ r.fd = inv[p].fd
    BY Here DEF Locals, PCs
  <2>2. inv' = [inv EXCEPT ![p] = r]
    BY <1>1, Here
  <2> HIDE DEF r
  <2> QED
    BY <2>1, <2>2, Here DEF Moves
<1>3. canon.meta
  BY <1>1, Here DEF LocalShape
<1>4. LocalShape(p)'
  BY <1>1, <1>2, <1>3, Here DEF LocalShape, InAttempt, Removing, Worked
<1> QED
  BY <1>1, <1>2, <1>4, Here, QuietStep DEF Worked

LEMMA WriteSolutionIInv == ASSUME IInv, NEW p \in Invocations, WriteSolution(p) PROVE IInv'
<1>1. inv[p].pc = "prepared" /\ UNCHANGED <<checkpointVars, canon, restarts>>
  BY DEF WriteSolution, At
<1>2. CASE inv' = [inv EXCEPT ![p].pc = "written", ![p].staging.solution = TRUE]
  <2>1. [inv[p].staging EXCEPT !.solution = TRUE] \in Outputs
    BY Here DEF Outputs
  <2>2. /\ Moves(p) /\ inv'[p].pc = "written" /\ inv'[p].mem = inv[p].mem
        /\ inv'[p].holds = inv[p].holds /\ inv'[p].fd = inv[p].fd
        /\ inv'[p].finished = inv[p].finished
        /\ inv'[p].staging = [inv[p].staging EXCEPT !.solution = TRUE]
    <3> DEFINE r == [inv[p] EXCEPT !.pc = "written",
                                   !.staging = [inv[p].staging EXCEPT !.solution = TRUE]]
    <3>1. /\ r \in Locals /\ r.pc = "written" /\ r.mem = inv[p].mem
          /\ r.holds = inv[p].holds /\ r.fd = inv[p].fd /\ r.finished = inv[p].finished
          /\ r.staging = [inv[p].staging EXCEPT !.solution = TRUE]
      BY <2>1, Here DEF Locals, PCs, InAttempt
    <3>2. inv' = [inv EXCEPT ![p] = r]
      BY <1>2, Here
    <3> HIDE DEF r
    <3> QED
      BY <3>1, <3>2, Here DEF Moves
  <2>3. inv'[p].staging.solution
    BY <2>2, Here DEF Outputs
  <2>4. LocalShape(p)'
    BY <1>1, <2>2, <2>3, Here DEF LocalShape, InAttempt, Removing, Worked
  <2> QED
    BY <1>1, <2>2, <2>4, Here, QuietStep DEF Worked
<1>3. CASE CloseAnd(p, "trap")
  <2>1. inv[p].finished => canon.meta
    BY <1>1, Here DEF LocalShape
  <2> QED
    BY <1>1, <1>3, <2>1, CloseStep
<1> QED
  BY <1>2, <1>3 DEF WriteSolution

LEMMA WriteMetaIInv == ASSUME IInv, NEW p \in Invocations, WriteMeta(p) PROVE IInv'
<1>1. /\ inv' = [inv EXCEPT ![p].pc = "complete", ![p].staging.meta = TRUE]
      /\ inv[p].pc = "written" /\ UNCHANGED <<checkpointVars, canon, restarts>>
  BY DEF WriteMeta, At
<1>2. [inv[p].staging EXCEPT !.meta = TRUE] \in Outputs
  BY Here DEF Outputs
<1>3. /\ Moves(p) /\ inv'[p].pc = "complete" /\ inv'[p].mem = inv[p].mem
      /\ inv'[p].holds = inv[p].holds /\ inv'[p].fd = inv[p].fd
      /\ inv'[p].finished = inv[p].finished
      /\ inv'[p].staging = [inv[p].staging EXCEPT !.meta = TRUE]
  <2> DEFINE r == [inv[p] EXCEPT !.pc = "complete",
                                 !.staging = [inv[p].staging EXCEPT !.meta = TRUE]]
  <2>1. /\ r \in Locals /\ r.pc = "complete" /\ r.mem = inv[p].mem
        /\ r.holds = inv[p].holds /\ r.fd = inv[p].fd /\ r.finished = inv[p].finished
        /\ r.staging = [inv[p].staging EXCEPT !.meta = TRUE]
    BY <1>2, Here DEF Locals, PCs, InAttempt
  <2>2. inv' = [inv EXCEPT ![p] = r]
    BY <1>1, Here
  <2> HIDE DEF r
  <2> QED
    BY <2>1, <2>2, Here DEF Moves
<1>4. Durable(inv'[p].staging)
  BY <1>1, <1>3, Here DEF Outputs, Durable, LocalShape
<1>5. LocalShape(p)'
  BY <1>1, <1>3, <1>4, Here DEF LocalShape, InAttempt, Removing, Worked
<1> QED
  BY <1>1, <1>3, <1>5, Here, QuietStep DEF Worked

LEMMA ContainerFailsIInv == ASSUME IInv, NEW p \in Invocations, ContainerFails(p) PROVE IInv'
<1>1. inv[p].finished => canon.meta
  BY Here DEF ContainerFails, LocalShape, InAttempt
<1> QED
  BY <1>1, CloseStep DEF ContainerFails

LEMMA PruneIInv == ASSUME IInv, NEW p \in Invocations, Prune(p) PROVE IInv'
<1> DEFINE kept == IF Durable(inv[p].staging) THEN inv[p].staging ELSE Nothing
<1>1. kept \in Outputs /\ (Durable(inv[p].staging) => kept = inv[p].staging)
      /\ (kept.solution => kept.meta)
  BY Here DEF Durable, Nothing
<1>2. /\ inv' = [inv EXCEPT ![p].pc = "merge", ![p].staging = kept]
      /\ inv[p].pc = "trap" /\ UNCHANGED <<checkpointVars, canon, restarts>>
  BY DEF Prune, At
<1> HIDE DEF kept
<1>3. /\ Moves(p) /\ inv'[p].pc = "merge" /\ inv'[p].staging = kept
      /\ inv'[p].holds = inv[p].holds /\ inv'[p].fd = inv[p].fd
      /\ inv'[p].finished = inv[p].finished
  BY <1>1, <1>2, Here DEF Moves, Locals, PCs
<1>4. LocalShape(p)'
  BY <1>1, <1>2, <1>3, Here DEF LocalShape, InAttempt, Removing, Worked
<1> QED
  BY <1>2, <1>3, <1>4, Here, QuietStep DEF Worked

LEMMA ScanIInv == ASSUME IInv, NEW p \in Invocations, Scan(p) PROVE IInv'
<1>1. inv[p].pc = "scan" /\ UNCHANGED <<checkpointVars, canon, restarts>>
  BY DEF Scan, At
<1>2. CASE Removable
  <2>1. inv' = [inv EXCEPT ![p].pc = "cleanup", ![p].mem = ckpt[1]] /\ canon.meta
    BY <1>2 DEF Scan, Removable
  <2>2. ckpt[1] \in State
    BY <1>2 DEF Removable, IInv, TypeOK
  <2>3. /\ Moves(p) /\ inv'[p].pc = "cleanup" /\ inv'[p].staging = inv[p].staging
        /\ inv'[p].holds = inv[p].holds /\ inv'[p].fd = inv[p].fd
        /\ inv'[p].finished = inv[p].finished
    BY <2>1, <2>2, Here DEF Moves, Locals, PCs
  <2>4. LocalShape(p)'
    BY <1>1, <2>1, <2>3, Here DEF LocalShape, InAttempt, Removing, Worked
  <2> QED
    BY <1>1, <2>3, <2>4, Here, QuietStep DEF Worked
<1>3. CASE ~Removable
  <2>1. CloseAnd(p, "ended") /\ (inv[p].finished => canon.meta)
    BY <1>1, <1>3, Here DEF Scan, LocalShape
  <2> QED
    BY <1>1, <2>1, CloseStep
<1> QED
  BY <1>2, <1>3

\* The local state is forgotten, at a kill or before a rerun.
LEMMA ForgetStep ==
  ASSUME IInv, NEW p \in Invocations, NEW r \in Locals, r.pc \in {"idle", "ended"},
         r.holds = Idle.holds, r.fd = Idle.fd, r.finished = Idle.finished,
         r.staging = Idle.staging, inv' = [inv EXCEPT ![p] = r],
         UNCHANGED <<checkpointVars, canon>>, restarts' \in 0..MaxRestarts
  PROVE  IInv'
<1>1. ~r.holds /\ r.fd = 0 /\ ~r.finished /\ ~r.staging.meta /\ ~r.staging.solution
  BY DEF Idle, Nothing
<1>2. Moves(p) /\ inv'[p] = r
  BY Here DEF Moves
<1>3. LocalShape(p)'
  BY <1>1, <1>2 DEF LocalShape, InAttempt, Removing, Worked
<1> QED
  BY <1>1, <1>2, <1>3, QuietStep DEF Worked

LEMMA KillIInv == ASSUME IInv, NEW p \in Invocations, Kill(p) PROVE IInv'
<1> DEFINE r == [Idle EXCEPT !.pc = "ended"]
<1>1. /\ r \in Locals /\ r.pc = "ended" /\ r.holds = Idle.holds /\ r.fd = Idle.fd
      /\ r.finished = Idle.finished /\ r.staging = Idle.staging
  BY Here DEF Locals, PCs
<1> QED
  BY <1>1, ForgetStep, Here DEF Kill

LEMMA RerunIInv == ASSUME IInv, NEW p \in Invocations, Rerun(p) PROVE IInv'
<1>1. restarts' \in 0..MaxRestarts
  BY Here, LifecycleAssumption DEF Rerun
<1>2. Idle.pc = "idle"
  BY DEF Idle
<1> QED
  BY <1>1, <1>2, ForgetStep, Here DEF Rerun

-----------------------------------------------------------------------------
(***************************************************************************)
(* Opening and locking.                                                    *)
(***************************************************************************)
\* An unlocked inode is locked, by an invocation that holds no other.
LEMMA LockStep ==
  ASSUME IInv, NEW p \in Invocations,
         \/ inv[p].pc = "opened" /\ inv' = [inv EXCEPT ![p].pc = "locked", ![p].holds = TRUE]
         \/ inv[p].pc = "cleanopen" /\ inv' = [inv EXCEPT ![p].pc = "removing", ![p].holds = TRUE],
         Unlocked(inv[p].fd),
         UNCHANGED <<checkpointVars, canon, restarts>>
  PROVE  IInv'
<1>1. PICK pc \in {"locked", "removing"} :
        /\ inv' = [inv EXCEPT ![p].pc = pc, ![p].holds = TRUE]
        /\ inv[p].pc = IF pc = "locked" THEN "opened" ELSE "cleanopen"
  OBVIOUS
<1> DEFINE r == [inv[p] EXCEPT !.pc = pc, !.holds = TRUE]
<1>2. /\ r \in Locals /\ r.pc = pc /\ r.holds /\ r.fd = inv[p].fd
      /\ r.finished = inv[p].finished
  <2>1. inv[p] \in Locals
    BY Here
  <2>2. pc \in PCs
    BY DEF PCs, InAttempt
  <2>3. r \in Locals
    BY <2>1, <2>2 DEF Locals
  <2> QED
    BY <2>1, <2>3 DEF Locals
<1>3. inv' = [inv EXCEPT ![p] = r]
  BY <1>1, Here
<1> HIDE DEF r
<1>4. Moves(p) /\ inv'[p] = r
  BY <1>2, <1>3, Here DEF Moves
<1>5. UNCHANGED <<dir, lockFile, ckpt, workspaces, canon, restarts>>
  BY DEF checkpointVars
<1>6. LocalShape(p)'
  BY <1>1, <1>2, <1>4, <1>5, Here DEF LocalShape, InAttempt, Removing, Worked
<1>7. \A q \in Invocations : LocalShape(q)'
  BY <1>4, <1>5, <1>6, OthersKeepShape
<1>8. TypeOK'
  BY <1>4, <1>5 DEF IInv, TypeOK, Moves
<1>9. LockExclusive'
  BY <1>2, <1>4 DEF IInv, LockExclusive, Moves, Unlocked
<1>10. Undelivered'
  BY <1>2, <1>4, <1>5 DEF IInv, Undelivered, Moves, Worked
<1>11. PartialNeverMerged'
  BY <1>5 DEF IInv, PartialNeverMerged
<1> QED
  BY <1>7, <1>8, <1>9, <1>10, <1>11 DEF IInv

LEMMA FlockIInv == ASSUME IInv, NEW p \in Invocations, Flock(p) PROVE IInv'
<1>1. inv[p].pc = "opened" /\ UNCHANGED <<checkpointVars, canon, restarts>>
  BY DEF Flock, At
<1>2. inv[p].finished => canon.meta
  BY <1>1, Here DEF LocalShape
<1>3. CASE Unlocked(inv[p].fd)
  BY <1>1, <1>3, LockStep DEF Flock
<1>4. CASE ~Unlocked(inv[p].fd)
  <2>1. CloseAnd(p, "trap")
    BY <1>4 DEF Flock
  <2> QED
    BY <1>1, <1>2, <2>1, CloseStep
<1> QED
  BY <1>3, <1>4

LEMMA CleanupLockIInv == ASSUME IInv, NEW p \in Invocations, CleanupLock(p) PROVE IInv'
<1>1. inv[p].pc = "cleanopen" /\ UNCHANGED <<checkpointVars, canon, restarts>>
  BY DEF CleanupLock, At
<1>2. inv[p].finished => canon.meta
  BY <1>1, Here DEF LocalShape
<1>3. CASE Unlocked(inv[p].fd)
  BY <1>1, <1>3, LockStep DEF CleanupLock
<1>4. CASE ~Unlocked(inv[p].fd)
  <2>1. CloseAnd(p, "ended")
    BY <1>4 DEF CleanupLock
  <2> QED
    BY <1>1, <1>2, <2>1, CloseStep
<1> QED
  BY <1>3, <1>4

\* Opening .lock, which creates it where it is gone.
LEMMA OpenStep ==
  ASSUME IInv, NEW p \in Invocations, NEW pc \in {"opened", "cleanopen"},
         inv' = [inv EXCEPT ![p].pc = pc, ![p].fd = lockFile'],
         lockFile' = IF lockFile = 0 THEN NewInode ELSE lockFile,
         ~inv[p].holds, inv[p].finished => canon.meta, pc = "cleanopen" => canon.meta,
         dir' = TRUE, UNCHANGED <<ckpt, workspaces, canon, restarts>>
  PROVE  IInv'
<1>1. lockFile' \in Ids /\ lockFile' # 0
  BY NewInodeIs DEF IInv, TypeOK, Ids
<1> DEFINE r == [inv[p] EXCEPT !.pc = pc, !.fd = lockFile']
<1>2. /\ r \in Locals /\ r.pc = pc /\ ~r.holds /\ r.fd = lockFile'
      /\ r.finished = inv[p].finished
  <2>1. inv[p] \in Locals
    BY Here
  <2>2. pc \in PCs
    BY DEF PCs
  <2>3. r \in Locals
    BY <1>1, <2>1, <2>2 DEF Locals
  <2> QED
    BY <2>1, <2>3 DEF Locals
<1>3. inv' = [inv EXCEPT ![p] = r]
  BY Here
<1> HIDE DEF r
<1>4. Moves(p) /\ inv'[p] = r
  <2>1. inv \in [Invocations -> Locals]
    BY Here
  <2> QED
    BY <1>2, <1>3, <2>1 DEF Moves
<1>5. LocalShape(p)'
  BY <1>1, <1>2, <1>4 DEF LocalShape, InAttempt, Removing, Worked
<1>6. \A q \in Invocations : LocalShape(q)'
  BY <1>4, <1>5, OthersKeepShape
<1>7. TypeOK'
  BY <1>1, <1>4 DEF IInv, TypeOK, Moves
<1>8. LockExclusive'
  BY <1>2, <1>4 DEF IInv, LockExclusive, Moves
<1>9. Undelivered'
  BY <1>2, <1>4 DEF IInv, Undelivered, Moves, Worked
<1>10. PartialNeverMerged'
  BY DEF IInv, PartialNeverMerged
<1> QED
  BY <1>6, <1>7, <1>8, <1>9, <1>10 DEF IInv

LEMMA OpenLockIInv == ASSUME IInv, NEW p \in Invocations, OpenLock(p) PROVE IInv'
<1>1. inv[p].pc = "staged"
  BY DEF OpenLock, At
<1>2. ~inv[p].holds /\ (inv[p].finished => canon.meta)
  BY <1>1, Here DEF LocalShape, InAttempt, Removing
<1> QED
  BY <1>2, OpenStep DEF OpenLock

LEMMA CleanupOpenIInv == ASSUME IInv, NEW p \in Invocations, CleanupOpen(p) PROVE IInv'
<1>1. inv[p].pc = "cleanup"
  BY DEF CleanupOpen, At
<1>2. ~inv[p].holds /\ (inv[p].finished => canon.meta) /\ canon.meta
  BY <1>1, Here DEF LocalShape, InAttempt, Removing
<1>3. CASE dir
  <2>1. dir' = TRUE
    BY <1>3 DEF CleanupOpen, IInv, TypeOK
  <2> QED
    BY <1>2, <1>3, <2>1, OpenStep DEF CleanupOpen
<1>4. CASE ~dir
  BY <1>2, <1>4, CloseStep DEF CleanupOpen, checkpointVars
<1> QED
  BY <1>3, <1>4

-----------------------------------------------------------------------------
(***************************************************************************)
(* Saving the checkpoint.                                                  *)
(***************************************************************************)
\* Before delivery one invocation is in the attempt.
LEMMA SoleWorker ==
  ASSUME IInv, ~canon.meta, NEW p \in Invocations, NEW q \in Invocations,
         inv[p].pc \in InAttempt, inv[q].pc \in InAttempt
  PROVE  p = q
<1>1. LocalShape(p) /\ LocalShape(q)
  BY DEF IInv
<1>2. inv[p].holds /\ inv[q].holds /\ inv[p].fd # 0 /\ inv[q].fd # 0
  BY <1>1 DEF LocalShape
<1>3. inv[p].fd = inv[q].fd
  BY <1>2 DEF IInv, Undelivered
<1> QED
  BY <1>2, <1>3 DEF IInv, LockExclusive

\* Before delivery, what the worker has in memory is saved and has its workspace.
LEMMA WorkerIsSaved ==
  ASSUME IInv, ~canon.meta, NEW p \in Invocations, inv[p].pc \in Worked
  PROVE  ckpt = <<inv[p].mem>> /\ inv[p].mem.ws \in workspaces
<1>1. ckpt = <<inv[p].mem>>
  BY DEF IInv, Undelivered
<1>2. ckpt # <<>> /\ ckpt[1] = inv[p].mem
  BY <1>1
<1> QED
  BY <1>1, <1>2 DEF IInv, Undelivered

\* The invocation in the attempt saves a state whose workspace is there.
LEMMA SaveStep ==
  ASSUME IInv, NEW p \in Invocations, NEW state \in State,
         Moves(p), LocalShape(p)', inv[p].pc \in InAttempt,
         inv'[p].fd \in {0, inv[p].fd},
         inv'[p].holds => inv[p].holds /\ inv'[p].fd = inv[p].fd,
         inv'[p].pc \in Worked => inv'[p].mem = state,
         dir' = TRUE, ckpt' = <<state>>, workspaces' \subseteq Ids, IsFiniteSet(workspaces'),
         ~canon.meta => state.ws \in workspaces',
         UNCHANGED <<lockFile, canon, restarts>>
  PROVE  IInv'
<1>1. TypeOK'
  <2>1. ckpt' \in Seq(State) /\ Len(ckpt') <= 1
    OBVIOUS
  <2> QED
    BY <2>1 DEF IInv, TypeOK, Moves
<1>2. \A q \in Invocations : LocalShape(q)'
  BY OthersKeepShape
<1>3. LockExclusive'
  BY DEF IInv, LockExclusive, Moves
<1>4. Undelivered'
  <2>1. SUFFICES ASSUME ~canon.meta PROVE Undelivered'
    BY DEF Undelivered
  <2>2. \A q \in Invocations : inv'[q].fd # 0 => inv'[q].fd = lockFile'
    BY <2>1 DEF IInv, Undelivered, Moves
  <2>3. \A q \in Invocations : inv'[q].pc \in Worked => ckpt' = <<inv'[q].mem>>
    <3>1. SUFFICES ASSUME NEW q \in Invocations, inv'[q].pc \in Worked
                   PROVE  q = p
      OBVIOUS
    <3>2. CASE q # p
      <4>1. inv[q].pc \in InAttempt
        BY <3>1, <3>2 DEF Moves, Worked, InAttempt
      <4> QED
        BY <2>1, <4>1, SoleWorker
    <3> QED
      BY <3>2
  <2>4. ckpt'[1].ws \in workspaces'
    BY <2>1
  <2> QED
    BY <2>2, <2>3, <2>4 DEF Undelivered
<1>5. PartialNeverMerged'
  BY DEF IInv, PartialNeverMerged
<1> QED
  BY <1>1, <1>2, <1>3, <1>4, <1>5 DEF IInv

LEMMA OpenAttemptIInv == ASSUME IInv, NEW p \in Invocations, OpenAttempt(p) PROVE IInv'
<1> DEFINE found == IF ckpt # <<>> THEN ckpt[1] ELSE Fresh
           name  == IF found.ws = 0 THEN NewName ELSE found.ws
           state == [found EXCEPT !.ws = name]
           r     == [inv[p] EXCEPT !.pc = "working", !.mem = state]
<1>1. /\ inv[p].pc = "locked" /\ UNCHANGED <<lockFile, canon, restarts>>
      /\ \/ /\ found.units > 0 /\ name \notin workspaces
            /\ CloseAnd(p, "trap") /\ UNCHANGED <<dir, ckpt, workspaces>>
         \/ /\ inv' = [inv EXCEPT ![p].pc = "working", ![p].mem = state]
            /\ workspaces' = workspaces \cup {name}
            /\ IF found.ws = 0 THEN Save(state) ELSE UNCHANGED <<dir, ckpt>>
  BY DEF OpenAttempt, At
<1>2. found \in State /\ (ckpt = <<>> => found.ws = 0) /\ (ckpt # <<>> => ckpt = <<found>>)
  <2>1. Fresh \in State /\ Fresh.ws = 0
    BY LifecycleAssumption DEF Fresh, State
  <2>2. ckpt \in Seq(State) /\ Len(ckpt) <= 1
    BY DEF IInv, TypeOK
  <2>3. ckpt # <<>> => ckpt[1] \in State /\ ckpt = <<ckpt[1]>>
    BY <2>2
  <2> QED
    BY <2>1, <2>3
<1>3. name \in Ids
  BY <1>2, NewNameIs DEF State
<1>4. /\ state \in State /\ state.ws = name
      /\ (found.ws # 0 => state = found)
  BY <1>2, <1>3 DEF State
<1>5. CASE CloseAnd(p, "trap") /\ UNCHANGED <<dir, ckpt, workspaces>>
  <2>1. inv[p].finished => canon.meta
    BY <1>1, Here DEF LocalShape
  <2> QED
    BY <1>1, <1>5, <2>1, CloseStep DEF checkpointVars
<1>6. CASE /\ inv' = [inv EXCEPT ![p].pc = "working", ![p].mem = state]
           /\ workspaces' = workspaces \cup {name}
           /\ IF found.ws = 0 THEN Save(state) ELSE UNCHANGED <<dir, ckpt>>
  <2>1. ckpt' = <<state>> /\ dir' = TRUE
    <3>1. CASE found.ws = 0
      BY <1>6, <3>1 DEF Save
    <3>2. CASE found.ws # 0
      <4>1. ckpt # <<>> /\ ckpt = <<state>> /\ dir
        BY <1>2, <1>4, <3>2 DEF IInv, TypeOK
      <4> QED
        BY <1>6, <3>2, <4>1 DEF IInv, TypeOK
    <3> QED
      BY <3>1, <3>2
  <2>2. workspaces' \subseteq Ids /\ IsFiniteSet(workspaces') /\ name \in workspaces'
    <3>1. workspaces \subseteq Ids /\ IsFiniteSet(workspaces)
      BY DEF IInv, TypeOK
    <3>2. IsFiniteSet(workspaces \cup {name})
      BY <3>1, FS_AddElement
    <3> QED
      BY <1>3, <1>6, <3>1, <3>2
  <2> HIDE DEF found, name, state
  <2>3. /\ r \in Locals /\ r.pc = "working" /\ r.mem = state /\ r.fd = inv[p].fd
        /\ r.holds = inv[p].holds /\ r.finished = inv[p].finished
    <3>1. inv[p] \in Locals
      BY Here
    <3>2. "working" \in PCs
      BY DEF PCs, InAttempt
    <3>3. r \in Locals
      BY <1>4, <3>1, <3>2 DEF Locals
    <3> QED
      BY <3>1, <3>3 DEF Locals
  <2>4. inv' = [inv EXCEPT ![p] = r]
    BY <1>6, Here
  <2> HIDE DEF r
  <2>5. Moves(p) /\ inv'[p] = r
    BY <2>3, <2>4, Here DEF Moves
  <2>6. LocalShape(p)'
    BY <1>1, <1>3, <1>4, <2>3, <2>5, Here DEF LocalShape, InAttempt, Removing, Worked, Ids
  <2>7. inv[p].pc \in InAttempt
    BY <1>1 DEF InAttempt
  <2> QED
    BY <1>1, <1>4, <2>1, <2>2, <2>3, <2>5, <2>6, <2>7, SaveStep
<1> QED
  BY <1>1, <1>5, <1>6

LEMMA WorkIInv == ASSUME IInv, NEW p \in Invocations, Work(p) PROVE IInv'
<1> DEFINE state == [inv[p].mem EXCEPT !.units = @ + 1]
           r     == [inv[p] EXCEPT !.mem = state]
<1>1. /\ inv[p].pc = "working" /\ inv[p].mem.units < Units
      /\ dir' = TRUE /\ ckpt' = <<state>> /\ inv' = [inv EXCEPT ![p].mem = state]
      /\ UNCHANGED <<lockFile, workspaces, canon, restarts>>
  BY DEF Work, At, Save
<1>2. inv[p].mem \in State
  BY Here DEF Locals
<1>3. state \in State /\ state.ws = inv[p].mem.ws
  BY <1>1, <1>2, LifecycleAssumption DEF State
<1> HIDE DEF state
<1>4. /\ r \in Locals /\ r.pc = "working" /\ r.mem = state /\ r.fd = inv[p].fd
      /\ r.holds = inv[p].holds /\ r.finished = inv[p].finished
  BY <1>1, <1>3, Here DEF Locals
<1>5. inv' = [inv EXCEPT ![p] = r]
  BY <1>1, Here
<1> HIDE DEF r
<1>6. Moves(p) /\ inv'[p] = r
  BY <1>4, <1>5, Here DEF Moves
<1>7. LocalShape(p)'
  BY <1>1, <1>3, <1>4, <1>6, Here DEF LocalShape, InAttempt, Removing, Worked
<1>8. /\ ~canon.meta => state.ws \in workspaces'
      /\ inv[p].pc \in InAttempt
      /\ workspaces' \subseteq Ids /\ IsFiniteSet(workspaces')
  BY <1>1, <1>3, WorkerIsSaved DEF Worked, InAttempt, IInv, TypeOK
<1> QED
  BY <1>1, <1>3, <1>4, <1>6, <1>7, <1>8, SaveStep

LEMMA PrepareCompletionIInv ==
  ASSUME IInv, NEW p \in Invocations, PrepareCompletion(p) PROVE IInv'
<1> DEFINE state == [inv[p].mem EXCEPT !.marker = TRUE]
           r     == [inv[p] EXCEPT !.pc = "prepared", !.mem = state]
<1>1. /\ inv[p].pc = "working"
      /\ dir' = TRUE /\ ckpt' = <<state>>
      /\ inv' = [inv EXCEPT ![p].pc = "prepared", ![p].mem = state]
      /\ UNCHANGED <<lockFile, workspaces, canon, restarts>>
  BY DEF PrepareCompletion, At, Save
<1>2. inv[p].mem \in State
  BY Here DEF Locals
<1>3. state \in State /\ state.ws = inv[p].mem.ws
  BY <1>2 DEF State
<1> HIDE DEF state
<1>4. /\ r \in Locals /\ r.pc = "prepared" /\ r.mem = state /\ r.fd = inv[p].fd
      /\ r.holds = inv[p].holds /\ r.finished = inv[p].finished
  <2>1. inv[p] \in Locals
    BY Here
  <2>2. "prepared" \in PCs
    BY DEF PCs, InAttempt
  <2>3. r \in Locals
    BY <1>3, <2>1, <2>2 DEF Locals
  <2> QED
    BY <2>1, <2>3 DEF Locals
<1>5. inv' = [inv EXCEPT ![p] = r]
  BY <1>1, Here
<1> HIDE DEF r
<1>6. Moves(p) /\ inv'[p] = r
  BY <1>4, <1>5, Here DEF Moves
<1>7. LocalShape(p)'
  BY <1>1, <1>3, <1>4, <1>6, Here DEF LocalShape, InAttempt, Removing, Worked
<1>8. /\ ~canon.meta => state.ws \in workspaces'
      /\ inv[p].pc \in InAttempt
      /\ workspaces' \subseteq Ids /\ IsFiniteSet(workspaces')
  BY <1>1, <1>3, WorkerIsSaved DEF Worked, InAttempt, IInv, TypeOK
<1> QED
  BY <1>1, <1>3, <1>4, <1>6, <1>7, <1>8, SaveStep

LEMMA CompleteIInv == ASSUME IInv, NEW p \in Invocations, Complete(p) PROVE IInv'
<1> DEFINE r == [inv[p] EXCEPT !.pc = "trap", !.finished = TRUE, !.fd = 0, !.holds = FALSE]
<1>1. /\ inv[p].pc = "complete" /\ dir' = TRUE /\ ckpt' = <<inv[p].mem>>
      /\ inv' = [inv EXCEPT ![p].pc = "trap", ![p].finished = TRUE,
                            ![p].fd = 0, ![p].holds = FALSE]
      /\ UNCHANGED <<lockFile, workspaces, canon, restarts>>
  BY DEF Complete, At, Save
<1>2. inv[p].mem \in State
  BY Here DEF Locals
<1>3. /\ r \in Locals /\ r.pc = "trap" /\ r.fd = 0 /\ ~r.holds /\ r.finished
      /\ r.staging = inv[p].staging
  BY Here DEF Locals, PCs
<1>4. inv' = [inv EXCEPT ![p] = r]
  BY <1>1, Here
<1> HIDE DEF r
<1>5. Moves(p) /\ inv'[p] = r
  BY <1>3, <1>4, Here DEF Moves
<1>6. LocalShape(p)'
  BY <1>1, <1>3, <1>5, Here DEF LocalShape, InAttempt, Removing, Worked
<1>7. /\ ~canon.meta => inv[p].mem.ws \in workspaces'
      /\ inv[p].pc \in InAttempt
      /\ workspaces' \subseteq Ids /\ IsFiniteSet(workspaces')
  BY <1>1, WorkerIsSaved DEF Worked, InAttempt, IInv, TypeOK
<1>8. inv'[p].pc \notin Worked
  BY <1>3, <1>5 DEF Worked
<1> QED
  BY <1>1, <1>2, <1>3, <1>5, <1>6, <1>7, <1>8, SaveStep

-----------------------------------------------------------------------------
(***************************************************************************)
(* The merge into the results tree.                                        *)
(***************************************************************************)
\* Files arrive in the results tree, the marker before the solution.
LEMMA MergeStep ==
  ASSUME IInv, NEW p \in Invocations, Moves(p), LocalShape(p)',
         UNCHANGED <<checkpointVars, restarts>>, canon' \in Outputs,
         canon.meta => canon'.meta, PartialNeverMerged',
         inv'[p].fd = inv[p].fd, inv'[p].holds = inv[p].holds, inv'[p].pc \notin Worked
  PROVE  IInv'
<1>1. UNCHANGED <<dir, lockFile, ckpt, workspaces, restarts>>
  BY DEF checkpointVars
<1>2. TypeOK'
  BY <1>1 DEF IInv, TypeOK, Moves
<1>3. \A q \in Invocations : LocalShape(q)'
  BY OthersKeepShape
<1>4. LockExclusive'
  BY DEF IInv, LockExclusive, Moves
<1>5. Undelivered'
  BY <1>1 DEF IInv, Undelivered, Moves
<1> QED
  BY <1>2, <1>3, <1>4, <1>5 DEF IInv

LEMMA MergeMetaIInv == ASSUME IInv, NEW p \in Invocations, MergeMeta(p) PROVE IInv'
<1> DEFINE r == [inv[p] EXCEPT !.pc = "merging"]
<1>1. /\ inv[p].pc = "merge" /\ UNCHANGED <<checkpointVars, restarts>>
      /\ canon' = [canon EXCEPT !.meta = canon.meta \/ inv[p].staging.meta]
      /\ inv' = [inv EXCEPT ![p].pc = "merging"]
  BY DEF MergeMeta, At, Go
<1>2. /\ r \in Locals /\ r.pc = "merging" /\ r.fd = inv[p].fd /\ r.holds = inv[p].holds
      /\ r.finished = inv[p].finished /\ r.staging = inv[p].staging
  BY Here DEF Locals, PCs
<1>3. inv' = [inv EXCEPT ![p] = r]
  BY <1>1, Here
<1> HIDE DEF r
<1>4. Moves(p) /\ inv'[p] = r
  BY <1>2, <1>3, Here DEF Moves
<1>5. canon \in Outputs /\ inv[p].staging.meta \in BOOLEAN
  BY Here DEF IInv, TypeOK, Outputs
<1>6. /\ canon' \in Outputs /\ canon'.solution = canon.solution
      /\ canon'.meta = (canon.meta \/ inv[p].staging.meta)
  BY <1>1, <1>5 DEF Outputs
<1>7. LocalShape(p)'
  BY <1>1, <1>2, <1>4, <1>6, Here DEF LocalShape, InAttempt, Removing, Worked, Durable
<1>8. PartialNeverMerged'
  BY <1>6 DEF IInv, PartialNeverMerged
<1> QED
  BY <1>1, <1>2, <1>4, <1>6, <1>7, <1>8, MergeStep DEF Worked

LEMMA MergeSolutionIInv == ASSUME IInv, NEW p \in Invocations, MergeSolution(p) PROVE IInv'
<1> DEFINE r == [inv[p] EXCEPT !.pc = "scan", !.staging = Nothing]
<1>1. /\ inv[p].pc = "merging" /\ UNCHANGED <<checkpointVars, restarts>>
      /\ canon' = [canon EXCEPT !.solution = canon.solution \/ inv[p].staging.solution]
      /\ inv' = [inv EXCEPT ![p].pc = "scan", ![p].staging = Nothing]
  BY DEF MergeSolution, At
<1>2. /\ r \in Locals /\ r.pc = "scan" /\ r.fd = inv[p].fd /\ r.holds = inv[p].holds
      /\ r.finished = inv[p].finished
  BY Here DEF Locals, PCs
<1>3. inv' = [inv EXCEPT ![p] = r]
  BY <1>1, Here
<1> HIDE DEF r
<1>4. Moves(p) /\ inv'[p] = r
  BY <1>2, <1>3, Here DEF Moves
<1>5. canon \in Outputs /\ inv[p].staging.solution \in BOOLEAN
  BY Here DEF IInv, TypeOK, Outputs
<1>6. /\ canon' \in Outputs /\ canon'.meta = canon.meta
      /\ canon'.solution = (canon.solution \/ inv[p].staging.solution)
  BY <1>1, <1>5 DEF Outputs
<1>7. LocalShape(p)'
  BY <1>1, <1>2, <1>4, <1>6, Here DEF LocalShape, InAttempt, Removing, Worked
<1>8. PartialNeverMerged'
  BY <1>1, <1>6, Here DEF IInv, PartialNeverMerged, LocalShape
<1> QED
  BY <1>1, <1>2, <1>4, <1>6, <1>7, <1>8, MergeStep DEF Worked

-----------------------------------------------------------------------------
(***************************************************************************)
(* The removal of a delivered checkpoint.                                  *)
(***************************************************************************)
\* After delivery nothing binds the shared files any more.
LEMMA RemoveStep ==
  ASSUME IInv, NEW p \in Invocations, Moves(p), LocalShape(p)', TypeOK', canon.meta,
         UNCHANGED canon, inv'[p].fd \in {0, inv[p].fd},
         inv'[p].holds => inv[p].holds /\ inv'[p].fd = inv[p].fd
  PROVE  IInv'
<1>1. \A q \in Invocations : LocalShape(q)'
  BY OthersKeepShape
<1>2. LockExclusive'
  BY DEF IInv, LockExclusive, Moves
<1>3. Undelivered' /\ PartialNeverMerged'
  BY DEF Undelivered, PartialNeverMerged
<1> QED
  BY <1>1, <1>2, <1>3 DEF IInv

LEMMA NoFile == <<>> \in Seq(State) /\ Len(<<>>) <= 1
OBVIOUS

\* The removal ends, whether the last step of it succeeded or not.
LEMMA RemovalEnds ==
  ASSUME IInv, NEW p \in Invocations, inv[p].pc = "entries", CloseAnd(p, "ended"),
         UNCHANGED <<workspaces, canon, restarts>>,
         dir' \in BOOLEAN, lockFile' \in {0, lockFile}, ckpt' \in {<<>>, ckpt},
         lockFile' # 0 \/ ckpt' # <<>> => dir'
  PROVE  IInv'
<1>1. canon.meta
  BY Here DEF LocalShape, Removing
<1>2. "ended" \in PCs
  BY DEF PCs
<1>3. /\ Moves(p) /\ inv'[p].pc = "ended" /\ inv'[p].fd = 0 /\ ~inv'[p].holds
      /\ inv'[p].finished = inv[p].finished
  BY <1>2, CloseIs
<1>4. LocalShape(p)'
  BY <1>1, <1>3 DEF LocalShape, InAttempt, Removing, Worked
<1>5. ckpt' \in Seq(State) /\ Len(ckpt') <= 1
  BY NoFile DEF IInv, TypeOK
<1>6. TypeOK'
  BY <1>3, <1>5 DEF IInv, TypeOK, Moves
<1> QED
  BY <1>1, <1>3, <1>4, <1>6, RemoveStep

LEMMA RemoveWorkspaceIInv ==
  ASSUME IInv, NEW p \in Invocations, RemoveWorkspace(p) PROVE IInv'
<1> DEFINE todo == (IF ckpt # <<>> THEN {"state.json"} ELSE {})
                     \cup (IF lockFile # 0 THEN {".lock"} ELSE {})
           r    == [inv[p] EXCEPT !.pc = "entries", !.todo = todo]
<1>1. /\ inv[p].pc = "removing" /\ UNCHANGED <<dir, lockFile, ckpt, canon, restarts>>
      /\ workspaces' = workspaces \ {inv[p].mem.ws}
      /\ inv' = [inv EXCEPT ![p].pc = "entries", ![p].todo = todo]
  BY DEF RemoveWorkspace, At
<1>2. todo \in SUBSET {"state.json", ".lock"}
  OBVIOUS
<1> HIDE DEF todo
<1>3. /\ r \in Locals /\ r.pc = "entries" /\ r.fd = inv[p].fd /\ r.holds = inv[p].holds
      /\ r.finished = inv[p].finished
  BY <1>2, Here DEF Locals, PCs
<1>4. inv' = [inv EXCEPT ![p] = r]
  BY <1>1, Here
<1> HIDE DEF r
<1>5. Moves(p) /\ inv'[p] = r
  BY <1>3, <1>4, Here DEF Moves
<1>6. canon.meta
  BY <1>1, Here DEF LocalShape, Removing
<1>7. LocalShape(p)'
  BY <1>1, <1>3, <1>5, <1>6, Here DEF LocalShape, InAttempt, Removing, Worked
<1>8. workspaces' \subseteq Ids /\ IsFiniteSet(workspaces')
  BY <1>1, FS_Subset DEF IInv, TypeOK
<1>9. TypeOK'
  BY <1>1, <1>5, <1>8 DEF IInv, TypeOK, Moves
<1> QED
  BY <1>1, <1>3, <1>5, <1>6, <1>7, <1>9, RemoveStep

LEMMA RemoveEntryIInv == ASSUME IInv, NEW p \in Invocations, RemoveEntry(p) PROVE IInv'
<1>1. PICK entry \in inv[p].todo :
        /\ IF (entry = "state.json" /\ ckpt = <<>>) \/ (entry = ".lock" /\ lockFile = 0)
           THEN CloseAnd(p, "ended")
           ELSE inv' = [inv EXCEPT ![p].todo = @ \ {entry}]
        /\ ckpt' = IF entry = "state.json" THEN <<>> ELSE ckpt
        /\ lockFile' = IF entry = ".lock" THEN 0 ELSE lockFile
  BY DEF RemoveEntry
<1>2. inv[p].pc = "entries" /\ UNCHANGED <<dir, workspaces, canon, restarts>>
  BY DEF RemoveEntry, At
<1>3. /\ lockFile' \in {0, lockFile} /\ ckpt' \in {<<>>, ckpt}
      /\ dir' \in BOOLEAN /\ (lockFile' # 0 \/ ckpt' # <<>> => dir')
  BY <1>1, <1>2 DEF IInv, TypeOK
<1>4. CASE CloseAnd(p, "ended")
  BY <1>2, <1>3, <1>4, RemovalEnds
<1>5. CASE inv' = [inv EXCEPT ![p].todo = @ \ {entry}]
  <2> DEFINE r == [inv[p] EXCEPT !.todo = inv[p].todo \ {entry}]
  <2>1. /\ r \in Locals /\ r.pc = "entries" /\ r.fd = inv[p].fd /\ r.holds = inv[p].holds
        /\ r.finished = inv[p].finished
    BY <1>2, Here DEF Locals
  <2>2. inv' = [inv EXCEPT ![p] = r]
    BY <1>5, Here
  <2> HIDE DEF r
  <2>3. Moves(p) /\ inv'[p] = r
    BY <2>1, <2>2, Here DEF Moves
  <2>4. canon.meta
    BY <1>2, Here DEF LocalShape, Removing
  <2>5. LocalShape(p)'
    BY <1>2, <2>1, <2>3, <2>4, Here DEF LocalShape, InAttempt, Removing, Worked
  <2>6. ckpt' \in Seq(State) /\ Len(ckpt') <= 1
    BY <1>3, NoFile DEF IInv, TypeOK
  <2>7. TypeOK'
    BY <1>2, <1>3, <2>3, <2>6 DEF IInv, TypeOK, Moves
  <2> QED
    BY <1>2, <2>1, <2>3, <2>4, <2>5, <2>7, RemoveStep
<1> QED
  BY <1>1, <1>4, <1>5

LEMMA RemoveDirIInv == ASSUME IInv, NEW p \in Invocations, RemoveDir(p) PROVE IInv'
<1>1. /\ inv[p].pc = "entries" /\ CloseAnd(p, "ended")
      /\ UNCHANGED <<lockFile, ckpt, workspaces, canon, restarts>>
      /\ \/ dir' = FALSE /\ ckpt = <<>> /\ lockFile = 0
         \/ dir' = dir
  BY DEF RemoveDir, At
<1>2. dir' \in BOOLEAN /\ (lockFile' # 0 \/ ckpt' # <<>> => dir')
  <2>1. CASE dir' = FALSE /\ ckpt = <<>> /\ lockFile = 0
    BY <1>1, <2>1
  <2>2. CASE dir' = dir
    BY <1>1, <2>2 DEF IInv, TypeOK
  <2> QED
    BY <1>1, <2>1, <2>2
<1> QED
  BY <1>1, <1>2, RemovalEnds

-----------------------------------------------------------------------------
LEMMA InitIInv == Init => IInv
<1> SUFFICES ASSUME Init PROVE IInv
  OBVIOUS
<1>1. Fresh \in State /\ Nothing \in Outputs /\ ~Nothing.meta /\ ~Nothing.solution
  BY LifecycleAssumption DEF Fresh, State, Outputs, Nothing
<1>2. /\ Idle \in Locals /\ Idle.pc = "idle" /\ ~Idle.holds /\ Idle.fd = 0
      /\ ~Idle.finished /\ Idle.staging = Nothing
  BY <1>1 DEF Idle, Locals, PCs
<1>3. TypeOK
  <2>1. ckpt \in Seq(State) /\ Len(ckpt) <= 1
    BY NoFile DEF Init
  <2>2. IsFiniteSet(workspaces) /\ workspaces \subseteq Ids
    BY FS_EmptySet DEF Init
  <2>3. inv \in [Invocations -> Locals] /\ canon \in Outputs /\ restarts \in 0..MaxRestarts
    BY <1>1, <1>2, LifecycleAssumption DEF Init
  <2>4. dir \in BOOLEAN /\ lockFile \in Ids \cup {0} /\ ~(lockFile # 0 \/ ckpt # <<>>)
    BY DEF Init
  <2> QED
    BY <2>1, <2>2, <2>3, <2>4 DEF TypeOK
<1>4. ASSUME NEW p \in Invocations PROVE LocalShape(p)
  BY <1>2 DEF Init, LocalShape, InAttempt, Removing, Worked
<1>5. LockExclusive /\ Undelivered /\ PartialNeverMerged
  BY <1>1, <1>2 DEF Init, LockExclusive, Undelivered, PartialNeverMerged, Worked
<1> QED
  BY <1>3, <1>4, <1>5 DEF IInv

LEMMA StepIInv == IInv /\ [Next]_vars => IInv'
<1> SUFFICES ASSUME IInv, [Next]_vars PROVE IInv'
  OBVIOUS
<1>1. CASE UNCHANGED vars
  BY <1>1 DEF vars, IInv, TypeOK, LocalShape, LockExclusive, Undelivered, PartialNeverMerged
<1>2. ASSUME NEW p \in Invocations,
             \/ Stage(p) \/ SkipDone(p) \/ OpenLock(p) \/ Flock(p) \/ OpenAttempt(p)
             \/ Work(p) \/ PrepareCompletion(p) \/ WriteSolution(p) \/ WriteMeta(p)
             \/ Complete(p) \/ ContainerFails(p)
             \/ Prune(p) \/ MergeMeta(p) \/ MergeSolution(p) \/ Scan(p)
             \/ CleanupOpen(p) \/ CleanupLock(p) \/ RemoveWorkspace(p)
             \/ RemoveEntry(p) \/ RemoveDir(p)
             \/ Kill(p) \/ Rerun(p)
      PROVE  IInv'
  BY <1>2, StageIInv, SkipDoneIInv, OpenLockIInv, FlockIInv, OpenAttemptIInv, WorkIInv,
     PrepareCompletionIInv, WriteSolutionIInv, WriteMetaIInv, CompleteIInv,
     ContainerFailsIInv, PruneIInv, MergeMetaIInv, MergeSolutionIInv, ScanIInv,
     CleanupOpenIInv, CleanupLockIInv, RemoveWorkspaceIInv, RemoveEntryIInv,
     RemoveDirIInv, KillIInv, RerunIInv
<1> QED
  BY <1>1, <1>2 DEF Next

LEMMA Inductive == Spec => []IInv
  BY InitIInv, StepIInv, PTL DEF Spec

-----------------------------------------------------------------------------
(***************************************************************************)
(* The properties of the runs.                                             *)
(***************************************************************************)
\* Every variable keeps its type, and no file is there without its directory,
\* however many invocations race on the attempt (run.sh, checkpoint.py,
\* cleanup_checkpoints.py).
THEOREM LifecycleTypes == Spec => []TypeOK
<1>1. IInv => TypeOK
  BY DEF IInv
<1> QED
  BY <1>1, Inductive, PTL

\* prune_staging and the order of rsync keep half-written outputs out of the
\* results tree: a solution there comes with its marker.
THEOREM NothingHalfMerged == Spec => []PartialNeverMerged
<1>1. IInv => PartialNeverMerged
  BY DEF IInv
<1> QED
  BY <1>1, Inductive, PTL

\* An invocation that completed the attempt or skipped it, and came through its
\* trap, leaves the marker in the results tree.
THEOREM FinishedIsMerged == Spec => []FinishedIsDelivered
<1>1. IInv => FinishedIsDelivered
  BY DEF IInv, FinishedIsDelivered, LocalShape, At
<1> QED
  BY <1>1, Inductive, PTL

\* An undelivered attempt with paid phases has the workspace its state names, so
\* scratch_dir() does not refuse it.
THEOREM WorkspaceIsFound == Spec => []WorkspaceKept
<1>1. IInv => WorkspaceKept
  BY DEF IInv, Undelivered, WorkspaceKept
<1> QED
  BY <1>1, Inductive, PTL

\* The lock of AttemptCheckpoint admits one invocation while the attempt is
\* undelivered, although it locks whatever inode it has opened.
THEOREM LockExcludes == Spec => []OneWorkerUntilDelivered
<1>1. IInv => OneWorkerUntilDelivered
  BY SoleWorker DEF OneWorkerUntilDelivered
<1> QED
  BY <1>1, Inductive, PTL

\* A marker in the results tree is never taken back.
LEMMA DeliveryStays == IInv /\ [Next]_vars => (canon.meta => canon'.meta)
<1> SUFFICES ASSUME IInv, [Next]_vars, canon.meta PROVE canon'.meta
  OBVIOUS
<1>1. CASE UNCHANGED canon
  BY <1>1
<1>2. ASSUME NEW p \in Invocations, MergeMeta(p) \/ MergeSolution(p) PROVE canon'.meta
  BY <1>2 DEF MergeMeta, MergeSolution, IInv, TypeOK, Outputs
<1>3. UNCHANGED canon \/ \E p \in Invocations : MergeMeta(p) \/ MergeSolution(p)
  BY DEF Next, vars, Stage, SkipDone, OpenLock, Flock, OpenAttempt, Work, PrepareCompletion,
     WriteSolution, WriteMeta, Complete, ContainerFails, Prune, Scan, CleanupOpen,
     CleanupLock, RemoveWorkspace, RemoveEntry, RemoveDir, Kill, Rerun
<1> QED
  BY <1>1, <1>2, <1>3

\* A phase that is committed stays in state.json until the marker is in the
\* results tree: whoever writes the checkpoint has read what it replaces, and
\* whoever removes it has found the marker.
THEOREM CommittedPhasesKept == Spec => PaidWorkKept
<1> DEFINE Kept == \A n \in 1..Units :
                     ckpt # <<>> /\ ckpt[1].units >= n =>
                       canon'.meta \/ (ckpt' # <<>> /\ ckpt'[1].units >= n)
<1>1. IInv /\ [Next]_vars => [Kept]_vars
  <2> SUFFICES ASSUME IInv, [Next]_vars, NEW n \in 1..Units,
                      ckpt # <<>>, ckpt[1].units >= n, ~canon'.meta
               PROVE  ckpt' # <<>> /\ ckpt'[1].units >= n
    OBVIOUS
  <2>1. ~canon.meta
    BY DeliveryStays
  <2>2. CASE UNCHANGED ckpt
    BY <2>2
  <2>3. ASSUME NEW p \in Invocations, NEW state, inv[p].pc \in Worked, ckpt' = <<state>>,
               state.units >= inv[p].mem.units, state.units \in Int
        PROVE  ckpt'[1].units >= n /\ ckpt' # <<>>
    <3>1. ckpt = <<inv[p].mem>> /\ inv[p].mem \in State
      BY <2>1, <2>3, Here, WorkerIsSaved DEF Locals
    <3>2. inv[p].mem.units \in Int /\ inv[p].mem.units >= n
      BY <3>1 DEF State
    <3> QED
      BY <2>3, <3>2
  <2>4. ASSUME NEW p \in Invocations, Work(p) PROVE ckpt'[1].units >= n /\ ckpt' # <<>>
    <3> DEFINE state == [inv[p].mem EXCEPT !.units = @ + 1]
    <3>1. ckpt' = <<state>> /\ inv[p].pc \in Worked
      BY <2>4 DEF Work, Save, At, Worked
    <3>2. state.units >= inv[p].mem.units /\ state.units \in Int
      BY Here DEF Locals, State
    <3> QED
      BY <2>3, <3>1, <3>2
  <2>5. ASSUME NEW p \in Invocations, PrepareCompletion(p)
        PROVE  ckpt'[1].units >= n /\ ckpt' # <<>>
    <3> DEFINE state == [inv[p].mem EXCEPT !.marker = TRUE]
    <3>1. ckpt' = <<state>> /\ inv[p].pc \in Worked
      BY <2>5 DEF PrepareCompletion, Save, At, Worked
    <3>2. state.units >= inv[p].mem.units /\ state.units \in Int
      BY Here DEF Locals, State
    <3> QED
      BY <2>3, <3>1, <3>2
  <2>6. ASSUME NEW p \in Invocations, Complete(p) PROVE ckpt'[1].units >= n /\ ckpt' # <<>>
    <3>1. ckpt' = <<inv[p].mem>> /\ inv[p].pc \in Worked
      BY <2>6 DEF Complete, Save, At, Worked
    <3>2. inv[p].mem.units >= inv[p].mem.units /\ inv[p].mem.units \in Int
      BY Here DEF Locals, State
    <3> QED
      BY <2>3, <3>1, <3>2
  <2>7. ASSUME NEW p \in Invocations, OpenAttempt(p)
        PROVE  ckpt'[1].units >= n /\ ckpt' # <<>>
    <3>1. ckpt[1] \in State
      BY DEF IInv, TypeOK
    <3> DEFINE found == IF ckpt # <<>> THEN ckpt[1] ELSE Fresh
               name  == IF found.ws = 0 THEN NewName ELSE found.ws
               state == [found EXCEPT !.ws = name]
    <3>2. UNCHANGED ckpt \/ (found.ws = 0 /\ ckpt' = <<state>>)
      <4>1. \/ UNCHANGED <<dir, ckpt, workspaces>>
            \/ IF found.ws = 0 THEN Save(state) ELSE UNCHANGED <<dir, ckpt>>
        BY <2>7 DEF OpenAttempt
      <4> HIDE DEF found, state
      <4> QED
        BY <4>1 DEF Save
    <3>3. found = ckpt[1] /\ (found.ws = 0 => state = [ckpt[1] EXCEPT !.ws = NewName])
      OBVIOUS
    <3>4. [ckpt[1] EXCEPT !.ws = NewName].units = ckpt[1].units
      BY <3>1 DEF State
    <3>5. CASE found.ws = 0 /\ ckpt' = <<state>>
      <4>1. state.units = ckpt[1].units /\ state.units >= n
        BY <3>4, <3>3, <3>5
      <4> HIDE DEF found, state
      <4> QED
        BY <3>5, <4>1
    <3> QED
      BY <2>2, <3>2, <3>5
  <2>8. ASSUME NEW p \in Invocations, RemoveEntry(p) PROVE FALSE
    <3>1. inv[p].pc = "entries" /\ LocalShape(p)
      BY <2>8, Here DEF RemoveEntry, At
    <3> QED
      BY <2>1, <3>1 DEF LocalShape, Removing
  <2>9. \/ UNCHANGED ckpt
        \/ \E p \in Invocations : \/ Work(p) \/ PrepareCompletion(p) \/ Complete(p)
                                  \/ OpenAttempt(p) \/ RemoveEntry(p)
    BY DEF Next, vars, checkpointVars, Stage, SkipDone, OpenLock, Flock, WriteSolution,
       WriteMeta, ContainerFails, Prune, MergeMeta, MergeSolution, Scan, CleanupOpen,
       CleanupLock, RemoveWorkspace, RemoveDir, Kill, Rerun
  <2> QED
    BY <2>2, <2>4, <2>5, <2>6, <2>7, <2>8, <2>9
<1>2. Spec => [][Kept]_vars
  BY <1>1, Inductive, PTL DEF Spec
<1> QED
  BY <1>2 DEF PaidWorkKept
=============================================================================
