------------------------------- MODULE Banks -------------------------------
(***************************************************************************)
(* The attempts that are banks: a parallel bank of fresh members, a        *)
(* uniform-strategy bank whose planner hands each executor one strategy,   *)
(* and the planner-only bank.  The members run under run_all(), nested in  *)
(* the run_all() of main(); what they and the bank write goes to the       *)
(* staging tree of one run.sh invocation, whose EXIT trap prunes it,       *)
(* merges it and removes the delivered checkpoints.                        *)
(*                                                                         *)
(* Sources: src/run.py (main, _solve_parallel_run, solve_parallel_bank,    *)
(* _solve_uniform_strategy_run, solve_uniform_strategy_bank),              *)
(* src/storage.py (the completion predicates and the bank writers),        *)
(* src/concurrency.py, run.sh, scripts/prune_staging.py,                   *)
(* src/cleanup_checkpoints.py.  The phases of a member or of a planner are *)
(* one durable step here (SequentialAttempt has their detail), and so are  *)
(* the files of one directory (AttemptLifecycle splits them).              *)
(***************************************************************************)
EXTENDS Integers, Sequences, FiniteSets

CONSTANTS
  BankIds,        \* (problem, seed) pairs
  Branches,       \* members of a bank, 8 in the code
  Strategies,     \* strategy texts
  Arms,           \* what run.sh may be asked for, see ArmRecords
  MaxCuts         \* bound: merges killed halfway

\* The arm's mode, --max-concurrency, and the selected problems and seeds; and
\* two bounds: its invocations and the edits of the protocol between them.
ArmRecords == [mode : {"parallel", "uniform", "only"}, capacity : Nat \ {0},
               banks : SUBSET BankIds, starts : Nat, edits : Nat]

ASSUME BanksAssumption ==
  /\ Branches \in Nat \ {0} /\ MaxCuts \in Nat
  /\ Arms \subseteq ArmRecords
  /\ {"none", "iid"} \cap Strategies = {}

VARIABLES
  arm,            \* the member of Arms that is run; it never changes
  proto,          \* protocol fingerprint, part of every checkpoint identity
  canon,          \* per bank: its directory in the results tree
  staging,        \* per bank: its directory in the mounted staging tree
  fresh,          \* per bank: members, and 0 for the bank itself, with a solution.md in staging
  plans,          \* per bank and protocol: the planner's checkpoint, <<>> when there is none
  work,           \* per bank: the members' checkpoints that hold a solution
  host,           \* run.sh: "down", "up" (the container runs) or "merge" (its trap)
  ctl,            \* per bank: where its controller stands
  member,         \* per bank: where each member task stands
  todo,           \* directories the trap has still to merge
  starts, cuts

checkpoints == <<plans, work>>
vars == <<arm, proto, canon, staging, fresh, checkpoints, host, ctl, member, todo, starts, cuts>>

Runs == 1..Branches
mode == arm.mode
capacity == arm.capacity
Protocols == 0..arm.edits

\* meta.json of a bank: what it certifies, and its run_strategy_indices
NoMeta      == [kind |-> "none",    assigned |-> <<>>]
Certifies(kind, assigned) == [kind |-> kind, assigned |-> assigned]

\* a bank directory: the members with a meta.json and the strategy each was
\* run under, the bank's meta.json, and strategies.json
EmptyDir == [run |-> [r \in Runs |-> "none"], meta |-> NoMeta, plan |-> <<>>]

RunDone(dir, r) == dir.run[r] # "none"
RunsDone(dir) == {r \in Runs : RunDone(dir, r)}

ParallelBankDone(dir) == dir.meta.kind = "bank" /\ RunsDone(dir) = Runs

UniformBankDone(dir) ==
  \/ dir.meta.kind = "failure"
  \/ dir.meta.kind = "bank" /\ Len(dir.meta.assigned) = Branches /\ RunsDone(dir) = Runs

StrategyOnlyDone(dir) == dir.meta.kind = "only" /\ dir.plan # <<>>

\* generation_done() in main()
Done(dir) ==
  \/ mode = "parallel" /\ ParallelBankDone(dir)
  \/ mode = "uniform"  /\ UniformBankDone(dir)
  \/ mode = "only"     /\ StrategyOnlyDone(dir)

\* Faulty variant: as many controllers as sessions
UnnestedLimit(max, width) == max

\* Faulty variant: the quotient alone
QuotientLimit(max, width) == max \div width

NestedControllerLimit(max, width) == IF max \div width = 0 THEN 1 ELSE max \div width

OuterLimit == IF mode = "parallel" THEN NestedControllerLimit(capacity, Branches) ELSE 1
InnerLimit == IF capacity < Branches THEN capacity ELSE Branches

\* What the planner may propose: distinct strategies, no more than there are
\* executors, or nothing usable.
Proposals ==
  {<<>>} \cup UNION {{p \in [1..n -> Strategies] : \A i, j \in 1..n : p[i] = p[j] => i = j} :
                    n \in Runs}

Plan(b) == plans[b][proto]
Planned(b) == Plan(b)[1].proposed

Assignments(n) == [r \in Runs |-> ((r - 1) % n) + 1]

\* The strategy a member is run under; it is part of its checkpoint identity.
TextOf(b, r) ==
  IF mode = "parallel" THEN "iid" ELSE Planned(b)[Assignments(Len(Planned(b)))[r]]

\* Faulty variant: a checkpoint found under another strategy is resumed
IdentityWithoutText(b, r) == [proto |-> proto, run |-> r, text |-> "none"]

Identity(b, r) == [proto |-> proto, run |-> r, text |-> TextOf(b, r)]

\* A member's checkpoint, and whether its completion has been prepared
Kept(b, r, prepared) == [id |-> Identity(b, r), prepared |-> prepared]

Init ==
  /\ arm \in Arms
  /\ proto = 0
  /\ canon = [b \in BankIds |-> EmptyDir]
  /\ staging = canon
  /\ fresh = [b \in BankIds |-> {}]
  /\ plans = [b \in BankIds |-> [p \in Protocols |-> <<>>]]
  /\ work = [b \in BankIds |-> {}]
  /\ host = "down"
  /\ ctl = [b \in BankIds |-> "closed"]
  /\ member = [b \in BankIds |-> [r \in Runs |-> "none"]]
  /\ todo = {} /\ starts = 0 /\ cuts = 0

-----------------------------------------------------------------------------
(***************************************************************************)
(* run.sh seeds the staging tree; main() lists the pending banks.          *)
(***************************************************************************)
\* The markers of the results tree, and for a planner-only arm its artifacts
Seeded(b) == [canon[b] EXCEPT !.plan = IF mode = "only" THEN @ ELSE <<>>]

Start ==
  /\ host = "down" /\ starts < arm.starts
  /\ starts' = starts + 1
  /\ host' = "up"
  /\ staging' = [b \in BankIds |-> Seeded(b)]
  /\ fresh' = [b \in BankIds |->
                 IF mode = "only" /\ canon[b].meta # NoMeta THEN {0} ELSE {}]
  /\ ctl' = [b \in BankIds |-> IF b \notin arm.banks \/ Done(Seeded(b)) THEN "closed" ELSE "pending"]
  /\ UNCHANGED <<arm, proto, canon, checkpoints, member, todo, cuts>>

Enter(b, at) == ctl' = [ctl EXCEPT ![b] = at]
BankStep == UNCHANGED <<arm, proto, canon, host, todo, starts, cuts>>

\* Controllers inside the limiter of main()
Admitted == {b \in BankIds : ctl[b] \notin {"pending", "closed"}}
MayAdmit(b) == host = "up" /\ ctl[b] = "pending" /\ Cardinality(Admitted) < OuterLimit

Queued(b) == [member EXCEPT ![b] =
                [r \in Runs |-> IF RunDone(staging[b], r) THEN "none" ELSE "queued"]]

AdmitParallel(b) ==
  /\ mode = "parallel" /\ MayAdmit(b)
  /\ Enter(b, "fanout") /\ member' = Queued(b)
  /\ UNCHANGED <<staging, fresh, checkpoints>> /\ BankStep

\* Faulty variant: a planner without a checkpoint is simply run again
AdmitUnguarded(b) ==
  /\ mode # "parallel" /\ MayAdmit(b)
  /\ Enter(b, "planner")
  /\ UNCHANGED <<staging, fresh, checkpoints, member>> /\ BankStep

\* Completed executors without a planner checkpoint: refuse to mix them with a
\* newly generated strategy set.
AdmitUniform(b) ==
  /\ mode # "parallel" /\ MayAdmit(b)
  /\ Enter(b, IF RunsDone(staging[b]) # {} /\ Plan(b) = <<>> THEN "closed" ELSE "planner")
  /\ UNCHANGED <<staging, fresh, checkpoints, member>> /\ BankStep

\* The planner's work and wrap-up phases, kept in the bank's checkpoint
RunPlanner(b) ==
  /\ ctl[b] = "planner" /\ Plan(b) = <<>>
  /\ \E proposed \in Proposals :
       plans' = [plans EXCEPT ![b][proto] = <<[proposed |-> proposed, prepared |-> FALSE]>>]
  /\ UNCHANGED <<staging, fresh, work, ctl, member>> /\ BankStep

PlannerReady(b) == ctl[b] = "planner" /\ Plan(b) # <<>>

\* prepare_completion(), the marker and the manifest beside it, complete()
WriteMarker(b, plan, meta) ==
  /\ plans' = [plans EXCEPT ![b][proto] = <<[@[1] EXCEPT !.prepared = TRUE]>>]
  /\ staging' = [staging EXCEPT ![b].plan = plan, ![b].meta = meta]
  /\ fresh' = [fresh EXCEPT ![b] = @ \cup {0}]
  /\ Enter(b, "closed")

\* No usable strategy: the bank is complete as a failure.
PlannerFailed(b) ==
  /\ PlannerReady(b) /\ mode = "uniform" /\ Planned(b) = <<>>
  /\ WriteMarker(b, <<Planned(b)>>, Certifies("failure", <<>>))
  /\ UNCHANGED <<work, member>> /\ BankStep

StrategyOnly(b) ==
  /\ PlannerReady(b) /\ mode = "only"
  /\ WriteMarker(b, <<Planned(b)>>, Certifies("only", <<>>))
  /\ UNCHANGED <<work, member>> /\ BankStep

\* Faulty variant: the strategy set is published before the executors start
LaunchExposed(b) ==
  /\ PlannerReady(b) /\ mode = "uniform" /\ Planned(b) # <<>>
  /\ Enter(b, "fanout") /\ member' = Queued(b)
  /\ staging' = [staging EXCEPT ![b].plan = <<Planned(b)>>]
  /\ UNCHANGED <<fresh, checkpoints>> /\ BankStep

LaunchExecutors(b) ==
  /\ PlannerReady(b) /\ mode = "uniform" /\ Planned(b) # <<>>
  /\ Enter(b, "fanout") /\ member' = Queued(b)
  /\ UNCHANGED <<staging, fresh, checkpoints>> /\ BankStep

-----------------------------------------------------------------------------
(***************************************************************************)
(* The members, under the bank's own run_all().                            *)
(***************************************************************************)
Go(b, r, at) == member' = [member EXCEPT ![b][r] = at]
InTask(b) == {r \in Runs : member[b][r] \in {"live", "solved"}}
TaskStep == UNCHANGED <<arm, proto, canon, host, ctl, todo, starts, cuts>>

AdmitMember(b, r) ==
  /\ ctl[b] = "fanout" /\ member[b][r] = "queued"
  /\ Cardinality(InTask(b)) < InnerLimit
  /\ Go(b, r, IF \E kept \in work[b] : kept.id = Identity(b, r) THEN "solved" ELSE "live")
  /\ UNCHANGED <<staging, fresh, checkpoints>> /\ TaskStep

\* The solve and wrap-up phases are in the member's checkpoint.
SolveMember(b, r) ==
  /\ member[b][r] = "live"
  /\ work' = [work EXCEPT ![b] = @ \cup {Kept(b, r, FALSE)}]
  /\ Go(b, r, "solved")
  /\ UNCHANGED <<staging, fresh, plans>> /\ TaskStep

\* prepare_completion, write_seed_outputs, complete
WriteMember(b, r) ==
  /\ member[b][r] = "solved"
  /\ staging' = [staging EXCEPT ![b].run[r] = TextOf(b, r)]
  /\ fresh' = [fresh EXCEPT ![b] = @ \cup {r}]
  /\ work' = [work EXCEPT ![b] = (@ \ {Kept(b, r, FALSE)}) \cup {Kept(b, r, TRUE)}]
  /\ Go(b, r, "ended")
  /\ UNCHANGED plans /\ TaskStep

\* run_all() logs the exception and lets the siblings go on.
FailMember(b, r) ==
  /\ member[b][r] \in {"live", "solved"}
  /\ Go(b, r, "ended")
  /\ UNCHANGED <<staging, fresh, checkpoints>> /\ TaskStep

FanoutOver(b) ==
  /\ ctl[b] = "fanout"
  /\ \A r \in Runs : member[b][r] \in {"none", "ended"}

\* Faulty variant: the parallel bank is certified with the members it has
CertifyWithout(b) ==
  /\ mode = "parallel" /\ FanoutOver(b)
  /\ staging' = [staging EXCEPT ![b].meta = Certifies("bank", <<>>)]
  /\ fresh' = [fresh EXCEPT ![b] = @ \cup {0}]
  /\ Enter(b, "closed")
  /\ UNCHANGED <<checkpoints, member>> /\ BankStep

\* write_parallel_bank_meta raises when a member is missing
CertifyParallel(b) ==
  /\ mode = "parallel" /\ FanoutOver(b)
  /\ IF RunsDone(staging[b]) = Runs
     THEN /\ staging' = [staging EXCEPT ![b].meta = Certifies("bank", <<>>)]
          /\ fresh' = [fresh EXCEPT ![b] = @ \cup {0}]
     ELSE UNCHANGED <<staging, fresh>>
  /\ Enter(b, "closed")
  /\ UNCHANGED <<checkpoints, member>> /\ BankStep

PublishStrategies(b) ==
  /\ mode = "uniform" /\ FanoutOver(b)
  /\ staging' = [staging EXCEPT ![b].plan = <<Planned(b)>>]
  /\ Enter(b, "artifacts")
  /\ UNCHANGED <<fresh, checkpoints, member>> /\ BankStep

LeaveIncomplete(b) ==
  /\ ctl[b] = "artifacts" /\ RunsDone(staging[b]) # Runs
  /\ Enter(b, "closed")
  /\ UNCHANGED <<staging, fresh, checkpoints, member>> /\ BankStep

CertifyUniform(b) ==
  /\ ctl[b] = "artifacts" /\ RunsDone(staging[b]) = Runs
  /\ WriteMarker(b, staging[b].plan, Certifies("bank", Assignments(Len(Planned(b)))))
  /\ UNCHANGED <<work, member>> /\ BankStep

\* An exception of the planner or of the writers ends the bank's task.
FailBank(b) ==
  /\ ctl[b] \in {"planner", "artifacts"}
  /\ Enter(b, "closed")
  /\ UNCHANGED <<staging, fresh, checkpoints, member>> /\ BankStep

-----------------------------------------------------------------------------
(***************************************************************************)
(* The end of the invocation.                                              *)
(***************************************************************************)
NoTasks == [b \in BankIds |-> [r \in Runs |-> "none"]]
Closed  == [b \in BankIds |-> "closed"]

\* prune_staging keeps a whole directory with marker and solution, or else the
\* completed members in it.
Durable(b) == IF 0 \in fresh[b] THEN {0} \cup RunsDone(staging[b]) ELSE fresh[b]

Pruned(b) ==
  IF 0 \in fresh[b] THEN staging[b]
  ELSE [EmptyDir EXCEPT !.run = [r \in Runs |->
                                   IF r \in fresh[b] THEN staging[b].run[r] ELSE "none"]]

\* Every controller is closed, or the container dies.
ContainerEnds ==
  /\ host = "up"
  /\ host' = "merge"
  /\ ctl' = Closed /\ member' = NoTasks
  /\ staging' = [b \in BankIds |-> Pruned(b)]
  /\ todo' = UNION {{<<b, part>> : part \in Durable(b)} : b \in BankIds}
  /\ fresh' = [b \in BankIds |-> {}]
  /\ UNCHANGED <<arm, proto, canon, checkpoints, starts, cuts>>

MainReturns == ctl = Closed /\ ContainerEnds

\* rsync: the files of a bank directory, then its members; it may be killed
\* between any two of them.
MergeBank(b) ==
  /\ host = "merge" /\ <<b, 0>> \in todo
  /\ canon' = [canon EXCEPT ![b].meta = staging[b].meta, ![b].plan = staging[b].plan]
  /\ todo' = todo \ {<<b, 0>>}
  /\ UNCHANGED <<arm, proto, staging, fresh, checkpoints, host, ctl, member, starts, cuts>>

MergeMember(b, r) ==
  /\ host = "merge" /\ <<b, r>> \in todo /\ <<b, 0>> \notin todo
  /\ canon' = [canon EXCEPT ![b].run[r] = staging[b].run[r]]
  /\ todo' = todo \ {<<b, r>>}
  /\ UNCHANGED <<arm, proto, staging, fresh, checkpoints, host, ctl, member, starts, cuts>>

\* Faulty variant: the checkpoint's own marker is taken as proof of the merge
CleanPlanUnmerged(b, p) ==
  IF plans[b][p] # <<>> /\ plans[b][p][1].prepared THEN <<>> ELSE plans[b][p]

\* cleanup_completed: prepared checkpoints whose marker is in the results tree
CleanPlan(b, p) ==
  IF plans[b][p] # <<>> /\ plans[b][p][1].prepared /\ canon[b].meta # NoMeta
  THEN <<>> ELSE plans[b][p]

Cleanup ==
  /\ host = "merge" /\ todo = {}
  /\ plans' = [b \in BankIds |-> [p \in Protocols |-> CleanPlan(b, p)]]
  /\ work' = [b \in BankIds |-> {kept \in work[b] :
                                 ~(kept.prepared /\ RunDone(canon[b], kept.id.run))}]
  /\ host' = "down"
  /\ staging' = [b \in BankIds |-> EmptyDir]
  /\ UNCHANGED <<arm, proto, canon, fresh, ctl, member, todo, starts, cuts>>

\* run.sh itself is killed: its staging tree is orphaned.
Killed ==
  /\ host # "down"
  /\ cuts' = IF host = "merge" /\ todo # {} THEN cuts + 1 ELSE cuts
  /\ cuts' <= MaxCuts
  /\ host' = "down" /\ ctl' = Closed /\ member' = NoTasks
  /\ staging' = [b \in BankIds |-> EmptyDir]
  /\ fresh' = [b \in BankIds |-> {}] /\ todo' = {}
  /\ UNCHANGED <<arm, proto, canon, checkpoints, starts>>

\* The operator edits a prompt or the settings: every identity changes.
EditProtocol ==
  /\ host = "down" /\ proto < arm.edits
  /\ proto' = proto + 1
  /\ UNCHANGED <<arm, canon, staging, fresh, checkpoints, host, ctl, member, todo, starts, cuts>>

\* "Recoverably archive this seed directory and rerun the bank from zero."
Archive(b) ==
  /\ host = "down" /\ canon[b] # EmptyDir /\ ~Done(canon[b])
  /\ canon' = [canon EXCEPT ![b] = EmptyDir]
  /\ UNCHANGED <<arm, proto, staging, fresh, checkpoints, host, ctl, member, todo, starts, cuts>>

Controller(b) ==
  \/ AdmitParallel(b) \/ AdmitUniform(b) \/ RunPlanner(b)
  \/ PlannerFailed(b) \/ StrategyOnly(b) \/ LaunchExecutors(b)
  \/ CertifyParallel(b) \/ PublishStrategies(b) \/ LeaveIncomplete(b) \/ CertifyUniform(b)
  \/ FailBank(b)

Task(b, r) == AdmitMember(b, r) \/ SolveMember(b, r) \/ WriteMember(b, r) \/ FailMember(b, r)

Trap == Cleanup \/ \E b \in BankIds : MergeBank(b) \/ \E r \in Runs : MergeMember(b, r)

Next ==
  \/ Start \/ ContainerEnds \/ Trap \/ Killed \/ EditProtocol
  \/ \E b \in BankIds : Controller(b) \/ Archive(b) \/ \E r \in Runs : Task(b, r)

\* The event loop runs every task that can go on; nothing makes the operator
\* start another invocation, and nothing has to die.
Spec ==
  /\ Init /\ [][Next]_vars
  /\ WF_vars(MainReturns) /\ WF_vars(Trap)
  /\ \A b \in BankIds : WF_vars(Controller(b)) /\ \A r \in Runs : WF_vars(Task(b, r))

-----------------------------------------------------------------------------
Outputs == {"none", "iid"} \cup Strategies
Markers == [kind : {"none", "bank", "failure", "only"}, assigned : {<<>>} \cup [Runs -> Runs]]
Published == {<<>>} \cup {<<p>> : p \in Proposals}
Directories == [run : [Runs -> Outputs], meta : Markers, plan : Published]
PlanStates == [proposed : Proposals, prepared : BOOLEAN]
Identities == [proto : Protocols, run : Runs, text : Outputs \ {"none"}]

TypeOK ==
  /\ arm \in Arms /\ proto \in Protocols
  /\ canon \in [BankIds -> Directories] /\ staging \in [BankIds -> Directories]
  /\ fresh \in [BankIds -> SUBSET (Runs \cup {0})]
  /\ plans \in [BankIds -> [Protocols -> {<<>>} \cup {<<plan>> : plan \in PlanStates}]]
  /\ work \in [BankIds -> SUBSET [id : Identities, prepared : BOOLEAN]]
  /\ host \in {"down", "up", "merge"}
  /\ ctl \in [BankIds -> {"closed", "pending", "planner", "fanout", "artifacts"}]
  /\ member \in [BankIds -> [Runs -> {"none", "queued", "live", "solved", "ended"}]]
  /\ todo \subseteq BankIds \X (Runs \cup {0})
  /\ starts \in 0..arm.starts /\ cuts \in 0..MaxCuts

\* A marker certifies a whole bank: wherever one is written, every member is
\* there, although run_all() swallows the exception of a member that failed.
\* "Write one fresh-IID 8-run Parallel bank after all members finish."
MarkerCertifiesMembers ==
  \A b \in BankIds :
    staging[b].meta.kind = "bank" /\ 0 \in fresh[b] => RunsDone(staging[b]) = Runs

\* "refusing to mix them with a newly generated strategy set": the executors of
\* a bank that counts as done were given the strategies of the one set it
\* publishes, each the strategy its index names, after any restarts and edits.
OneStrategySet ==
  \A b \in BankIds :
    mode = "uniform" /\ Done(canon[b]) /\ canon[b].meta.kind = "bank" =>
      \A r \in Runs : canon[b].run[r] = canon[b].plan[1][canon[b].meta.assigned[r]]

\* "keeps their combined peak at or below the configured global capacity":
\* planner and member sessions of all the banks together.
Sessions ==
  Cardinality({b \in BankIds : ctl[b] = "planner"})
    + Cardinality({x \in BankIds \X Runs : member[x[1]][x[2]] = "live"})

WithinCapacity == Sessions <= capacity

\* "Do not expose the shared strategy set in the mounted result tree while
\* executors are live".
StrategiesHidden ==
  \A b \in BankIds : mode = "uniform" /\ InTask(b) # {} => staging[b].plan = <<>>

\* An invocation comes to its end, whatever fails in it: the nested limiters
\* never leave every controller waiting.
InvocationEnds == host = "up" ~> host = "down"

\* "a restart spends only on its unfinished members": while the protocol is
\* not edited, a pending bank that has completed executors still has the
\* planner checkpoint without which it would be refused.
BankResumable ==
  \A b \in BankIds :
    mode = "uniform" /\ proto = 0 /\ ctl[b] = "pending" =>
      (RunsDone(staging[b]) # {} => Plan(b) # <<>>)
=============================================================================
