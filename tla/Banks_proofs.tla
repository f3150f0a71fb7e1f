---------------------------- MODULE Banks_proofs ----------------------------
(***************************************************************************)
(* Proofs about Banks for any number of banks, members and strategies, any *)
(* capacity and any history of kills, edits and restarts.                  *)
(***************************************************************************)
EXTENDS Banks, FiniteSetTheorems, TLAPS

\* Nothing runs without a container.
QuietHost ==
  host # "up" => \A b \in BankIds : ctl[b] = "closed" /\ member[b] = [r \in Runs |-> "none"]

\* A member is queued or in its task only while its bank fans out.
TasksInFanout(b) ==
  ctl[b] # "fanout" => \A r \in Runs : member[b][r] \in {"none", "ended"}

\* A bank whose executors run or are certified has a usable strategy set.
PlanHeld(b) ==
  /\ ctl[b] = "artifacts" => mode = "uniform"
  /\ ctl[b] \in {"fanout", "artifacts"} /\ mode # "parallel" =>
       mode = "uniform" /\ Plan(b) # <<>> /\ Planned(b) # <<>>

\* The set is in the staging tree only once the executors have ended.
Unpublished(b) ==
  mode = "uniform" /\ ctl[b] \in {"pending", "planner", "fanout"} => staging[b].plan = <<>>

\* A planner-only bank never has the marker of a bank with members.
NoBankMarker(b) ==
  mode = "only" => canon[b].meta.kind # "bank" /\ staging[b].meta.kind # "bank"

\* MarkerCertifiesMembers, for one bank
Certified(b) ==
  staging[b].meta.kind = "bank" /\ 0 \in fresh[b] => RunsDone(staging[b]) = Runs

BankInv(b) ==
  /\ TasksInFanout(b)
  /\ PlanHeld(b)
  /\ Unpublished(b)
  /\ NoBankMarker(b)
  /\ Certified(b)

IInv ==
  /\ TypeOK
  /\ QuietHost
  /\ \A b \in BankIds : BankInv(b)

-----------------------------------------------------------------------------
(***************************************************************************)
(* Strategy sets and what the members are given of them.                   *)
(***************************************************************************)
\* A usable proposal has a strategy for every index up to its length, at most as
\* many as there are executors.
LEMMA ProposalShape ==
  ASSUME NEW p \in Proposals, p # <<>>
  PROVE  Len(p) \in Runs /\ \A i \in 1..Len(p) : p[i] \in Strategies
<1>1. PICK n \in Runs : p \in [1..n -> Strategies]
  BY DEF Proposals
<1>2. n \in Nat
  BY BanksAssumption DEF Runs
<1>3. p \in Seq(Strategies) /\ Len(p) = n
  BY <1>1, <1>2
<1> QED
  BY <1>1, <1>3

\* Executors are assigned round robin, so every index names a strategy.
LEMMA AssignmentsInRange ==
  ASSUME NEW n \in Runs
  PROVE  Assignments(n) \in [Runs -> Runs] /\ \A r \in Runs : Assignments(n)[r] \in 1..n
<1>1. \A r \in Runs : ((r - 1) % n) + 1 \in 1..n
  BY BanksAssumption DEF Runs
<1>2. 1..n \subseteq Runs
  BY BanksAssumption DEF Runs
<1> QED
  BY <1>1, <1>2 DEF Assignments

\* What a planner's checkpoint holds
LEMMA PlanTyped ==
  ASSUME TypeOK, NEW b \in BankIds
  PROVE  /\ plans[b] \in [Protocols -> {<<>>} \cup {<<plan>> : plan \in PlanStates}]
         /\ Plan(b) \in {<<>>} \cup {<<plan>> : plan \in PlanStates}
         /\ Plan(b) # <<>> => Plan(b)[1] \in PlanStates /\ Planned(b) \in Proposals
<1>1. plans[b] \in [Protocols -> {<<>>} \cup {<<plan>> : plan \in PlanStates}]
  BY DEF TypeOK
<1>2. Plan(b) \in {<<>>} \cup {<<plan>> : plan \in PlanStates}
  BY <1>1 DEF Plan, TypeOK
<1>3. Plan(b) # <<>> => Plan(b)[1] \in PlanStates
  BY <1>2
<1> QED
  BY <1>1, <1>2, <1>3 DEF Planned, PlanStates

\* The text a member runs under is never the mark of a missing member.
LEMMA TextTyped ==
  ASSUME TypeOK, NEW b \in BankIds, PlanHeld(b), NEW r \in Runs,
         ctl[b] = "fanout"
  PROVE  TextOf(b, r) \in Outputs \ {"none"}
<1>1. CASE mode = "parallel"
  BY <1>1 DEF TextOf, Outputs
<1>2. CASE mode # "parallel"
  <2>1. Plan(b) # <<>> /\ Planned(b) # <<>>
    BY <1>2 DEF PlanHeld
  <2>2. Planned(b) \in Proposals
    BY <2>1, PlanTyped
  <2>3. Len(Planned(b)) \in Runs /\ \A i \in 1..Len(Planned(b)) : Planned(b)[i] \in Strategies
    BY <2>1, <2>2, ProposalShape
  <2>4. Assignments(Len(Planned(b)))[r] \in 1..Len(Planned(b))
    BY <2>3, AssignmentsInRange
  <2>5. TextOf(b, r) \in Strategies
    BY <1>2, <2>3, <2>4 DEF TextOf
  <2> QED
    BY <2>5, BanksAssumption DEF Outputs
<1> QED
  BY <1>1, <1>2

\* The checkpoint of a member carries the protocol and its text.
LEMMA KeptTyped ==
  ASSUME TypeOK, NEW b \in BankIds, PlanHeld(b), NEW r \in Runs, ctl[b] = "fanout",
         NEW prepared \in BOOLEAN
  PROVE  Kept(b, r, prepared) \in [id : Identities, prepared : BOOLEAN]
<1>1. TextOf(b, r) \in Outputs \ {"none"} /\ proto \in Protocols
  BY TextTyped DEF TypeOK
<1> QED
  BY <1>1 DEF Kept, Identity, Identities

\* A member that is queued or in its task belongs to a bank that fans out.
LEMMA InFanout ==
  ASSUME NEW b \in BankIds, TasksInFanout(b), NEW r \in Runs,
         member[b][r] \notin {"none", "ended"}
  PROVE  ctl[b] = "fanout"
BY DEF TasksInFanout

-----------------------------------------------------------------------------
(***************************************************************************)
(* Type correctness, action by action.                                     *)
(***************************************************************************)
\* Seeding, pruning and the cleanup leave directories and checkpoints.
LEMMA DirectoriesTyped ==
  ASSUME TypeOK, NEW b \in BankIds
  PROVE  /\ Seeded(b) \in Directories /\ Pruned(b) \in Directories /\ EmptyDir \in Directories
         /\ Durable(b) \subseteq Runs \cup {0}
<1>1. canon[b] \in Directories /\ staging[b] \in Directories /\ fresh[b] \subseteq Runs \cup {0}
  BY DEF TypeOK
<1>2. NoMeta \in Markers /\ <<>> \in Published /\ "none" \in Outputs
  BY DEF NoMeta, Markers, Published, Outputs
<1>3. EmptyDir \in Directories
  BY <1>2 DEF EmptyDir, Directories
<1>4. Seeded(b) \in Directories
  BY <1>1, <1>2 DEF Seeded, Directories
<1>5. Pruned(b) \in Directories
  BY <1>1, <1>2, <1>3 DEF Pruned, Directories, EmptyDir
<1>6. Durable(b) \subseteq Runs \cup {0}
  BY <1>1 DEF Durable, RunsDone
<1> QED
  BY <1>3, <1>4, <1>5, <1>6

\* WriteMarker: the planner's checkpoint, the marker and the set
LEMMA MarkerTyped ==
  ASSUME TypeOK, NEW b \in BankIds, Plan(b) # <<>>, NEW plan \in Published,
         NEW meta \in Markers, WriteMarker(b, plan, meta)
  PROVE  /\ plans' \in [BankIds -> [Protocols -> {<<>>} \cup {<<p>> : p \in PlanStates}]]
         /\ staging' \in [BankIds -> Directories]
         /\ fresh' \in [BankIds -> SUBSET (Runs \cup {0})]
         /\ ctl' \in [BankIds -> {"closed", "pending", "planner", "fanout", "artifacts"}]
<1>1. Plan(b)[1] \in PlanStates /\ proto \in Protocols
  BY PlanTyped DEF TypeOK
<1>2. [Plan(b)[1] EXCEPT !.prepared = TRUE] \in PlanStates
  BY <1>1 DEF PlanStates
<1>3. plans' = [plans EXCEPT ![b][proto] = <<[Plan(b)[1] EXCEPT !.prepared = TRUE]>>]
  BY DEF WriteMarker, Plan, TypeOK
<1>4. plans' \in [BankIds -> [Protocols -> {<<>>} \cup {<<p>> : p \in PlanStates}]]
  BY <1>1, <1>2, <1>3 DEF TypeOK
<1>5. staging' \in [BankIds -> Directories]
  <2>1. staging[b] \in Directories
    BY DEF TypeOK
  <2>2. [staging[b] EXCEPT !.plan = plan, !.meta = meta] \in Directories
    BY <2>1 DEF Directories
  <2>3. staging' = [staging EXCEPT ![b] = [staging[b] EXCEPT !.plan = plan, !.meta = meta]]
    BY DEF WriteMarker, TypeOK
  <2> QED
    BY <2>2, <2>3 DEF TypeOK
<1>6. fresh' \in [BankIds -> SUBSET (Runs \cup {0})]
  BY DEF WriteMarker, TypeOK
<1>7. ctl' \in [BankIds -> {"closed", "pending", "planner", "fanout", "artifacts"}]
  BY DEF WriteMarker, Enter, TypeOK
<1> QED
  BY <1>4, <1>5, <1>6, <1>7

\* Every step of a bank's controller keeps the types.
LEMMA ControllerTyped ==
  ASSUME IInv, NEW b \in BankIds, Controller(b)
  PROVE  TypeOK'
<1> USE DEF IInv, BankInv
<1>1. Protocols' = Protocols /\ Identities' = Identities /\ arm' = arm
  <2>1. arm' = arm
    BY DEF Controller, AdmitParallel, AdmitUniform, RunPlanner, PlannerFailed, StrategyOnly,
           LaunchExecutors, CertifyParallel, PublishStrategies, LeaveIncomplete, CertifyUniform,
           FailBank, BankStep
  <2> QED
    BY <2>1 DEF Protocols, Identities
<1>2. Queued(b) \in [BankIds -> [Runs -> {"none", "queued", "live", "solved", "ended"}]]
  BY DEF Queued, TypeOK
<1>3. CASE AdmitParallel(b)
  BY <1>1, <1>2, <1>3 DEF AdmitParallel, BankStep, Enter, TypeOK, checkpoints
<1>4. CASE AdmitUniform(b)
  BY <1>1, <1>4 DEF AdmitUniform, BankStep, Enter, TypeOK, checkpoints
<1>5. CASE RunPlanner(b)
  <2>1. PICK proposed \in Proposals :
          plans' = [plans EXCEPT ![b][proto] = <<[proposed |-> proposed, prepared |-> FALSE]>>]
    BY <1>5 DEF RunPlanner
  <2>2. plans' \in [BankIds -> [Protocols -> {<<>>} \cup {<<plan>> : plan \in PlanStates}]]
    BY <2>1 DEF TypeOK, PlanStates
  <2> QED
    BY <1>1, <1>5, <2>2 DEF RunPlanner, BankStep, TypeOK
<1>6. CASE PlannerFailed(b)
  <2>1. Plan(b) # <<>> /\ Planned(b) \in Proposals
    BY <1>6, PlanTyped DEF PlannerFailed, PlannerReady
  <2>2. <<Planned(b)>> \in Published /\ Certifies("failure", <<>>) \in Markers
    BY <2>1 DEF Published, Certifies, Markers
  <2> QED
    BY <1>1, <1>6, <2>1, <2>2, MarkerTyped DEF PlannerFailed, BankStep, TypeOK
<1>7. CASE StrategyOnly(b)
  <2>1. Plan(b) # <<>> /\ Planned(b) \in Proposals
    BY <1>7, PlanTyped DEF StrategyOnly, PlannerReady
  <2>2. <<Planned(b)>> \in Published /\ Certifies("only", <<>>) \in Markers
    BY <2>1 DEF Published, Certifies, Markers
  <2> QED
    BY <1>1, <1>7, <2>1, <2>2, MarkerTyped DEF StrategyOnly, BankStep, TypeOK
<1>8. CASE LaunchExecutors(b)
  BY <1>1, <1>2, <1>8 DEF LaunchExecutors, BankStep, Enter, TypeOK, checkpoints
<1>9. CASE CertifyParallel(b)
  <2>1. Certifies("bank", <<>>) \in Markers
    BY DEF Certifies, Markers
  <2>2. CASE RunsDone(staging[b]) = Runs
    <3>1. /\ staging' = [staging EXCEPT ![b].meta = Certifies("bank", <<>>)]
          /\ fresh' = [fresh EXCEPT ![b] = @ \cup {0}]
      BY <1>9, <2>2 DEF CertifyParallel
    <3>2. staging' \in [BankIds -> Directories]
      <4>1. staging[b] \in Directories
        BY DEF TypeOK
      <4>2. [staging[b] EXCEPT !.meta = Certifies("bank", <<>>)] \in Directories
        BY <2>1, <4>1 DEF Directories
      <4> QED
        BY <3>1, <4>2 DEF TypeOK
    <3>3. fresh' \in [BankIds -> SUBSET (Runs \cup {0})]
      BY <3>1 DEF TypeOK
    <3> QED
      BY <1>1, <1>9, <3>2, <3>3 DEF CertifyParallel, BankStep, Enter, TypeOK, checkpoints
  <2>3. CASE RunsDone(staging[b]) # Runs
    BY <1>1, <1>9, <2>3 DEF CertifyParallel, BankStep, Enter, TypeOK, checkpoints
  <2> QED
    BY <2>2, <2>3
<1>10. CASE PublishStrategies(b)
  <2>1. Planned(b) \in Proposals
    BY <1>10, PlanTyped DEF PublishStrategies, FanoutOver, PlanHeld
  <2>2. staging' \in [BankIds -> Directories]
    <3>1. staging[b] \in Directories /\ <<Planned(b)>> \in Published
      BY <2>1 DEF TypeOK, Published
    <3>2. [staging[b] EXCEPT !.plan = <<Planned(b)>>] \in Directories
      BY <3>1 DEF Directories
    <3> QED
      BY <1>10, <3>2 DEF PublishStrategies, TypeOK
  <2> QED
    BY <1>1, <1>10, <2>2 DEF PublishStrategies, BankStep, Enter, TypeOK, checkpoints
<1>11. CASE LeaveIncomplete(b)
  BY <1>1, <1>11 DEF LeaveIncomplete, BankStep, Enter, TypeOK, checkpoints
<1>12. CASE CertifyUniform(b)
  <2>1. Plan(b) # <<>> /\ Planned(b) # <<>> /\ Planned(b) \in Proposals
    BY <1>12, PlanTyped DEF CertifyUniform, PlanHeld
  <2>2. Assignments(Len(Planned(b))) \in [Runs -> Runs]
    BY <2>1, ProposalShape, AssignmentsInRange
  <2>3. /\ Certifies("bank", Assignments(Len(Planned(b)))) \in Markers
        /\ staging[b].plan \in Published
    BY <2>2 DEF Certifies, Markers, TypeOK, Directories
  <2> QED
    BY <1>1, <1>12, <2>1, <2>3, MarkerTyped DEF CertifyUniform, BankStep, TypeOK
<1>13. CASE FailBank(b)
  BY <1>1, <1>13 DEF FailBank, BankStep, Enter, TypeOK, checkpoints
<1> QED
  BY <1>3, <1>4, <1>5, <1>6, <1>7, <1>8, <1>9, <1>10, <1>11, <1>12, <1>13 DEF Controller

\* So does every step of a member's task.
LEMMA TaskTyped ==
  ASSUME IInv, NEW b \in BankIds, NEW r \in Runs, Task(b, r)
  PROVE  TypeOK'
<1> USE DEF IInv, BankInv
<1>1. Protocols' = Protocols /\ Identities' = Identities /\ arm' = arm
  <2>1. arm' = arm
    BY DEF Task, AdmitMember, SolveMember, WriteMember, FailMember, TaskStep
  <2> QED
    BY <2>1 DEF Protocols, Identities
<1>2. CASE AdmitMember(b, r)
  BY <1>1, <1>2 DEF AdmitMember, TaskStep, Go, TypeOK, checkpoints
<1>3. CASE SolveMember(b, r)
  <2>1. ctl[b] = "fanout"
    BY <1>3, InFanout DEF SolveMember
  <2>2. Kept(b, r, FALSE) \in [id : Identities, prepared : BOOLEAN]
    BY <2>1, KeptTyped
  <2>3. work' \in [BankIds -> SUBSET [id : Identities, prepared : BOOLEAN]]
    BY <1>3, <2>2 DEF SolveMember, TypeOK
  <2> QED
    BY <1>1, <1>3, <2>3 DEF SolveMember, TaskStep, Go, TypeOK
<1>4. CASE WriteMember(b, r)
  <2>1. ctl[b] = "fanout"
    BY <1>4, InFanout DEF WriteMember
  <2>2. Kept(b, r, TRUE) \in [id : Identities, prepared : BOOLEAN]
    BY <2>1, KeptTyped
  <2>3. work' \in [BankIds -> SUBSET [id : Identities, prepared : BOOLEAN]]
    BY <1>4, <2>2 DEF WriteMember, TypeOK
  <2>4. TextOf(b, r) \in Outputs
    BY <2>1, TextTyped
  <2>5. staging' \in [BankIds -> Directories]
    <3>1. staging[b] \in Directories
      BY DEF TypeOK
    <3>2. [staging[b] EXCEPT !.run[r] = TextOf(b, r)] \in Directories
      BY <2>4, <3>1 DEF Directories
    <3>3. staging' = [staging EXCEPT ![b] = [staging[b] EXCEPT !.run[r] = TextOf(b, r)]]
      BY <1>4 DEF WriteMember, TypeOK
    <3> QED
      BY <3>2, <3>3 DEF TypeOK
  <2>6. fresh' \in [BankIds -> SUBSET (Runs \cup {0})]
    BY <1>4 DEF WriteMember, TypeOK
  <2> QED
    BY <1>1, <1>4, <2>3, <2>5, <2>6 DEF WriteMember, TaskStep, Go, TypeOK
<1>5. CASE FailMember(b, r)
  BY <1>1, <1>5 DEF FailMember, TaskStep, Go, TypeOK, checkpoints
<1> QED
  BY <1>2, <1>3, <1>4, <1>5 DEF Task

\* So does every step of run.sh and of its operator.
LEMMA HostTyped ==
  ASSUME TypeOK,
         \/ Start \/ ContainerEnds \/ Trap \/ Killed \/ EditProtocol
         \/ \E b \in BankIds : Archive(b)
  PROVE  TypeOK'
<1>1. Protocols' = Protocols /\ Identities' = Identities /\ arm' = arm
  <2>1. arm' = arm
    BY DEF Start, ContainerEnds, Trap, Cleanup, MergeBank, MergeMember, Killed, EditProtocol,
           Archive
  <2> QED
    BY <2>1 DEF Protocols, Identities
<1>2. arm.starts \in Nat /\ arm.edits \in Nat
  BY BanksAssumption DEF TypeOK, ArmRecords
<1>3. CASE Start
  <2>1. /\ staging' \in [BankIds -> Directories]
        /\ fresh' \in [BankIds -> SUBSET (Runs \cup {0})]
    BY <1>3, DirectoriesTyped DEF Start
  <2>2. ctl' \in [BankIds -> {"closed", "pending", "planner", "fanout", "artifacts"}]
    BY <1>3 DEF Start
  <2>3. starts' \in 0..arm.starts
    BY <1>2, <1>3 DEF Start, TypeOK
  <2> QED
    BY <1>1, <1>3, <2>1, <2>2, <2>3 DEF Start, TypeOK, checkpoints
<1>4. CASE ContainerEnds
  <2>1. staging' \in [BankIds -> Directories] /\ todo' \subseteq BankIds \X (Runs \cup {0})
    BY <1>4, DirectoriesTyped DEF ContainerEnds
  <2>2. /\ ctl' \in [BankIds -> {"closed", "pending", "planner", "fanout", "artifacts"}]
        /\ member' \in [BankIds -> [Runs -> {"none", "queued", "live", "solved", "ended"}]]
        /\ fresh' \in [BankIds -> SUBSET (Runs \cup {0})]
    BY <1>4 DEF ContainerEnds, Closed, NoTasks
  <2> QED
    BY <1>1, <1>4, <2>1, <2>2 DEF ContainerEnds, TypeOK, checkpoints
<1>5. CASE Cleanup
  <2>1. staging' \in [BankIds -> Directories]
    BY <1>5, DirectoriesTyped DEF Cleanup
  <2>2. ASSUME NEW b \in BankIds, NEW p \in Protocols
        PROVE  CleanPlan(b, p) \in {<<>>} \cup {<<plan>> : plan \in PlanStates}
    BY PlanTyped DEF CleanPlan
  <2>3. plans' \in [BankIds -> [Protocols -> {<<>>} \cup {<<plan>> : plan \in PlanStates}]]
    <3> DEFINE Held == {<<>>} \cup {<<plan>> : plan \in PlanStates}
    <3> HIDE DEF Held
    <3>1. \A b \in BankIds : [p \in Protocols |-> CleanPlan(b, p)] \in [Protocols -> Held]
      BY <2>2 DEF Held
    <3>2. [b \in BankIds |-> [p \in Protocols |-> CleanPlan(b, p)]]
            \in [BankIds -> [Protocols -> Held]]
      BY <3>1
    <3> QED
      BY <1>5, <3>2 DEF Cleanup, Held
  <2>4. work' \in [BankIds -> SUBSET [id : Identities, prepared : BOOLEAN]]
    BY <1>5 DEF Cleanup, TypeOK
  <2> QED
    BY <1>1, <1>5, <2>1, <2>3, <2>4 DEF Cleanup, TypeOK
<1>6. CASE \E b \in BankIds : MergeBank(b)
  <2>1. PICK b \in BankIds : MergeBank(b)
    BY <1>6
  <2>2. canon[b] \in Directories /\ staging[b] \in Directories
    BY DEF TypeOK
  <2>3. [canon[b] EXCEPT !.meta = staging[b].meta, !.plan = staging[b].plan] \in Directories
    BY <2>2 DEF Directories
  <2>4. canon' = [canon EXCEPT ![b] = [canon[b] EXCEPT !.meta = staging[b].meta, !.plan = staging[b].plan]]
    BY <2>1 DEF MergeBank, TypeOK
  <2>5. canon' \in [BankIds -> Directories]
    BY <2>3, <2>4 DEF TypeOK
  <2>6. todo' \subseteq BankIds \X (Runs \cup {0})
    BY <2>1 DEF MergeBank, TypeOK
  <2> QED
    BY <1>1, <2>1, <2>5, <2>6 DEF MergeBank, TypeOK, checkpoints
<1>7. CASE \E b \in BankIds, r \in Runs : MergeMember(b, r)
  <2>1. PICK b \in BankIds, r \in Runs : MergeMember(b, r)
    BY <1>7
  <2>2. canon[b] \in Directories /\ staging[b] \in Directories
    BY DEF TypeOK
  <2>3. [canon[b] EXCEPT !.run[r] = staging[b].run[r]] \in Directories
    BY <2>2 DEF Directories
  <2>4. canon' = [canon EXCEPT ![b] = [canon[b] EXCEPT !.run[r] = staging[b].run[r]]]
    BY <2>1 DEF MergeMember, TypeOK
  <2>5. canon' \in [BankIds -> Directories]
    BY <2>3, <2>4 DEF TypeOK
  <2>6. todo' \subseteq BankIds \X (Runs \cup {0})
    BY <2>1 DEF MergeMember, TypeOK
  <2> QED
    BY <1>1, <2>1, <2>5, <2>6 DEF MergeMember, TypeOK, checkpoints
<1>8. CASE Killed
  <2>1. cuts' \in 0..MaxCuts
    BY <1>8, BanksAssumption DEF Killed, TypeOK
  <2>2. staging' \in [BankIds -> Directories]
    BY <1>8, DirectoriesTyped DEF Killed
  <2>3. /\ ctl' \in [BankIds -> {"closed", "pending", "planner", "fanout", "artifacts"}]
        /\ member' \in [BankIds -> [Runs -> {"none", "queued", "live", "solved", "ended"}]]
        /\ fresh' \in [BankIds -> SUBSET (Runs \cup {0})] /\ todo' = {}
    BY <1>8 DEF Killed, Closed, NoTasks
  <2> QED
    BY <1>1, <1>8, <2>1, <2>2, <2>3 DEF Killed, TypeOK, checkpoints
<1>9. CASE EditProtocol
  <2>1. proto' \in Protocols
    BY <1>2, <1>9 DEF EditProtocol, TypeOK, Protocols
  <2> QED
    BY <1>1, <1>9, <2>1 DEF EditProtocol, TypeOK, checkpoints
<1>10. CASE \E b \in BankIds : Archive(b)
  <2>1. PICK b \in BankIds : Archive(b)
    BY <1>10
  <2>2. canon' \in [BankIds -> Directories]
    BY <2>1, DirectoriesTyped DEF Archive, TypeOK
  <2> QED
    BY <1>1, <2>1, <2>2 DEF Archive, TypeOK, checkpoints
<1> QED
  BY <1>3, <1>4, <1>5, <1>6, <1>7, <1>8, <1>9, <1>10 DEF Trap

-----------------------------------------------------------------------------
(***************************************************************************)
(* The parts of the invariant that relate a bank's controller, its members *)
(* and its directory.                                                      *)
(***************************************************************************)
\* A controller changes the state of its own bank only, in a live container.
LEMMA ControllerFrame ==
  ASSUME IInv, NEW b \in BankIds, Controller(b)
  PROVE  /\ host = "up" /\ UNCHANGED <<arm, proto, canon, host>>
         /\ \A c \in BankIds \ {b} :
              /\ ctl'[c] = ctl[c] /\ member'[c] = member[c] /\ plans'[c] = plans[c]
              /\ staging'[c] = staging[c] /\ fresh'[c] = fresh[c]
<1> USE DEF Controller, AdmitParallel, AdmitUniform, RunPlanner, PlannerFailed, StrategyOnly,
            LaunchExecutors, CertifyParallel, PublishStrategies, LeaveIncomplete, CertifyUniform,
            FailBank
<1>1. host = "up"
  BY DEF IInv, QuietHost, MayAdmit, PlannerReady, FanoutOver
<1>2. UNCHANGED <<arm, proto, canon, host>>
  BY DEF BankStep
<1>3. ASSUME NEW c \in BankIds \ {b}
      PROVE  ctl'[c] = ctl[c] /\ member'[c] = member[c]
  BY DEF IInv, TypeOK, Enter, Queued, WriteMarker
<1>4. ASSUME NEW c \in BankIds \ {b}
      PROVE  plans'[c] = plans[c] /\ staging'[c] = staging[c] /\ fresh'[c] = fresh[c]
  BY DEF IInv, TypeOK, WriteMarker, checkpoints
<1> QED
  BY <1>1, <1>2, <1>3, <1>4

\* What WriteMarker leaves in its bank
LEMMA MarkerEffect ==
  ASSUME TypeOK, NEW b \in BankIds, NEW plan, NEW meta, WriteMarker(b, plan, meta)
  PROVE  /\ ctl'[b] = "closed" /\ staging'[b].meta = meta
         /\ RunsDone(staging'[b]) = RunsDone(staging[b])
<1>1. staging[b] \in Directories
  BY DEF TypeOK
<1>2. staging'[b] = [staging[b] EXCEPT !.plan = plan, !.meta = meta]
  BY DEF WriteMarker, TypeOK
<1>3. staging'[b].meta = meta /\ staging'[b].run = staging[b].run
  BY <1>1, <1>2 DEF Directories
<1>4. ctl'[b] = "closed"
  BY DEF WriteMarker, Enter, TypeOK
<1> QED
  BY <1>3, <1>4 DEF RunsDone, RunDone

\* Every step of a bank's controller keeps the invariant of that bank.
LEMMA ControllerBank ==
  ASSUME IInv, NEW b \in BankIds, Controller(b)
  PROVE  BankInv(b)'
<1> USE DEF IInv
<1>1. TypeOK /\ BankInv(b) /\ UNCHANGED <<arm, proto, canon, host>>
  BY ControllerFrame
<1>2. staging[b] \in Directories
  BY <1>1 DEF TypeOK
<1>3. CASE AdmitParallel(b)
  <2>1. /\ mode = "parallel" /\ ctl'[b] = "fanout"
        /\ UNCHANGED <<staging, fresh, plans>>
    BY <1>1, <1>3 DEF AdmitParallel, Enter, TypeOK, checkpoints
  <2> QED
    BY <1>1, <2>1 DEF BankInv, TasksInFanout, PlanHeld, Unpublished, NoBankMarker, Certified, mode
<1>4. CASE AdmitUniform(b) \/ FailBank(b) \/ LeaveIncomplete(b)
  <2>1. /\ ctl[b] \in {"pending", "planner", "artifacts"} /\ ctl'[b] \in {"planner", "closed"}
        /\ ctl[b] = "artifacts" => ctl'[b] = "closed"
        /\ UNCHANGED <<staging, fresh, plans, member>>
    BY <1>1, <1>4 DEF AdmitUniform, FailBank, LeaveIncomplete, MayAdmit, Enter, TypeOK, checkpoints
  <2> QED
    BY <1>1, <2>1 DEF BankInv, TasksInFanout, PlanHeld, Unpublished, NoBankMarker, Certified, mode
<1>5. CASE RunPlanner(b)
  BY <1>1, <1>5 DEF RunPlanner, BankInv, TasksInFanout, PlanHeld, Unpublished, NoBankMarker,
                    Certified, mode
<1>6. CASE PlannerFailed(b)
  <2>1. /\ ctl'[b] = "closed" /\ staging'[b].meta = Certifies("failure", <<>>)
        /\ ctl[b] = "planner" /\ member' = member /\ mode = "uniform"
    BY <1>1, <1>6, MarkerEffect DEF PlannerFailed, PlannerReady
  <2> QED
    BY <1>1, <2>1 DEF BankInv, TasksInFanout, PlanHeld, Unpublished, NoBankMarker, Certified,
                      Certifies, mode
<1>7. CASE StrategyOnly(b)
  <2>1. /\ ctl'[b] = "closed" /\ staging'[b].meta = Certifies("only", <<>>)
        /\ ctl[b] = "planner" /\ member' = member
    BY <1>1, <1>7, MarkerEffect DEF StrategyOnly, PlannerReady
  <2> QED
    BY <1>1, <2>1 DEF BankInv, TasksInFanout, PlanHeld, Unpublished, NoBankMarker, Certified,
                      Certifies, mode
<1>8. CASE LaunchExecutors(b)
  <2>1. /\ mode = "uniform" /\ Plan(b) # <<>> /\ Planned(b) # <<>>
        /\ ctl[b] = "planner" /\ ctl'[b] = "fanout" /\ UNCHANGED <<staging, fresh, plans>>
    BY <1>1, <1>8 DEF LaunchExecutors, PlannerReady, Enter, TypeOK, checkpoints
  <2> QED
    BY <1>1, <2>1 DEF BankInv, TasksInFanout, PlanHeld, Unpublished, NoBankMarker, Certified,
                      Plan, Planned, mode
<1>9. CASE CertifyParallel(b)
  <2>1. /\ mode = "parallel" /\ ctl'[b] = "closed" /\ member' = member
        /\ \A r \in Runs : member[b][r] \in {"none", "ended"}
    BY <1>1, <1>9 DEF CertifyParallel, FanoutOver, Enter, TypeOK
  <2>2. Certified(b)'
    <3>1. CASE RunsDone(staging[b]) = Runs
      <4>1. staging' = [staging EXCEPT ![b].meta = Certifies("bank", <<>>)]
        BY <1>9, <3>1 DEF CertifyParallel
      <4>2. staging'[b].run = staging[b].run
        BY <1>2, <4>1 DEF TypeOK, Directories
      <4> QED
        BY <3>1, <4>2 DEF Certified, RunsDone, RunDone
    <3>2. CASE RunsDone(staging[b]) # Runs
      BY <1>1, <1>9, <3>2 DEF CertifyParallel, BankInv, Certified
    <3> QED
      BY <3>1, <3>2
  <2> QED
    BY <1>1, <2>1, <2>2 DEF BankInv, TasksInFanout, PlanHeld, Unpublished, NoBankMarker, mode
<1>10. CASE PublishStrategies(b)
  <2>1. /\ mode = "uniform" /\ ctl[b] = "fanout" /\ ctl'[b] = "artifacts"
        /\ UNCHANGED <<fresh, plans, member>>
        /\ \A r \in Runs : member[b][r] \in {"none", "ended"}
    BY <1>1, <1>10 DEF PublishStrategies, FanoutOver, Enter, TypeOK, checkpoints
  <2>2. staging' = [staging EXCEPT ![b].plan = <<Planned(b)>>]
    BY <1>10 DEF PublishStrategies
  <2>3. staging'[b].run = staging[b].run /\ staging'[b].meta = staging[b].meta
    BY <1>1, <1>2, <2>2 DEF TypeOK, Directories
  <2> QED
    BY <1>1, <2>1, <2>3 DEF BankInv, TasksInFanout, PlanHeld, Unpublished, NoBankMarker, Certified,
                            RunsDone, RunDone, Plan, Planned, mode
<1>11. CASE CertifyUniform(b)
  <2>1. /\ ctl[b] = "artifacts" /\ ctl'[b] = "closed" /\ RunsDone(staging'[b]) = Runs
        /\ mode = "uniform" /\ member' = member
    BY <1>1, <1>11, MarkerEffect DEF CertifyUniform, BankInv, PlanHeld
  <2> QED
    BY <1>1, <2>1 DEF BankInv, TasksInFanout, PlanHeld, Unpublished, NoBankMarker, Certified, mode
<1> QED
  BY <1>3, <1>4, <1>5, <1>6, <1>7, <1>8, <1>9, <1>10, <1>11 DEF Controller

\* So does every step of one of its members; a completed member stays there.
LEMMA TaskBank ==
  ASSUME IInv, NEW b \in BankIds, NEW r \in Runs, Task(b, r)
  PROVE  /\ host = "up" /\ UNCHANGED <<arm, proto, canon, host, ctl, plans>>
         /\ \A c \in BankIds \ {b} :
              member'[c] = member[c] /\ staging'[c] = staging[c] /\ fresh'[c] = fresh[c]
         /\ BankInv(b)'
<1> USE DEF IInv, BankInv
<1>1. member[b][r] \in {"queued", "live", "solved"}
  BY DEF Task, AdmitMember, SolveMember, WriteMember, FailMember
<1>2. host = "up" /\ ctl[b] = "fanout"
  BY <1>1, InFanout DEF QuietHost
<1>3. UNCHANGED <<arm, proto, canon, host, ctl, plans>>
  BY DEF Task, AdmitMember, SolveMember, WriteMember, FailMember, TaskStep, checkpoints
<1>4. ASSUME NEW c \in BankIds \ {b}
      PROVE  member'[c] = member[c] /\ staging'[c] = staging[c] /\ fresh'[c] = fresh[c]
  BY DEF Task, AdmitMember, SolveMember, WriteMember, FailMember, Go, TypeOK
<1>5. TasksInFanout(b)' /\ PlanHeld(b)'
  BY <1>2, <1>3 DEF TasksInFanout, PlanHeld, Plan, Planned, mode
<1>6. CASE WriteMember(b, r)
  <2>1. TextOf(b, r) # "none"
    BY <1>2, TextTyped
  <2>2. staging' = [staging EXCEPT ![b].run[r] = TextOf(b, r)] /\ staging[b] \in Directories
    BY <1>6 DEF WriteMember, TypeOK
  <2>3. /\ staging'[b].run = [staging[b].run EXCEPT ![r] = TextOf(b, r)]
        /\ staging'[b].meta = staging[b].meta /\ staging'[b].plan = staging[b].plan
    BY <2>2 DEF TypeOK, Directories
  <2>4. RunsDone(staging[b]) \subseteq RunsDone(staging'[b]) /\ RunsDone(staging'[b]) \subseteq Runs
    BY <2>1, <2>2, <2>3 DEF RunsDone, RunDone, Directories
  <2>5. 0 \in fresh'[b] => 0 \in fresh[b]
    BY <1>6, BanksAssumption DEF WriteMember, TypeOK, Runs
  <2>6. Certified(b)'
    BY <2>3, <2>4, <2>5 DEF Certified
  <2>7. Unpublished(b)' /\ NoBankMarker(b)'
    BY <1>3, <2>3 DEF Unpublished, NoBankMarker, mode
  <2> QED
    BY <1>2, <1>3, <1>4, <1>5, <2>6, <2>7
<1>7. CASE ~WriteMember(b, r)
  <2>1. UNCHANGED <<staging, fresh>>
    BY <1>7 DEF Task, AdmitMember, SolveMember, FailMember
  <2> QED
    BY <1>2, <1>3, <1>4, <1>5, <2>1 DEF Unpublished, NoBankMarker, Certified, mode
<1> QED
  BY <1>6, <1>7

\* What concerns one bank is kept by a step that leaves that bank alone.
LEMMA OtherBank ==
  ASSUME NEW c \in BankIds, BankInv(c), UNCHANGED <<arm, proto, canon>>,
         ctl'[c] = ctl[c], member'[c] = member[c], plans'[c] = plans[c],
         staging'[c] = staging[c], fresh'[c] = fresh[c]
  PROVE  BankInv(c)'
BY DEF BankInv, TasksInFanout, PlanHeld, Unpublished, NoBankMarker, Certified, RunsDone, RunDone,
       Plan, Planned, mode

\* A bank without controller and tasks: only its directories matter.
LEMMA ClosedBank ==
  ASSUME NEW c \in BankIds, ctl'[c] = "closed", member'[c] = [r \in Runs |-> "none"],
         NoBankMarker(c)', Certified(c)'
  PROVE  BankInv(c)'
BY DEF BankInv, TasksInFanout, PlanHeld, Unpublished

\* run.sh and its operator keep the invariant: they close every controller, or
\* act while all of them are closed.
LEMMA HostBanks ==
  ASSUME IInv,
         \/ Start \/ ContainerEnds \/ Trap \/ Killed \/ EditProtocol
         \/ \E b \in BankIds : Archive(b)
  PROVE  QuietHost' /\ \A c \in BankIds : BankInv(c)'
<1> USE DEF IInv
<1>1. /\ EmptyDir.meta.kind = "none" /\ EmptyDir.plan = <<>>
  BY DEF EmptyDir, NoMeta
<1>2. \A c \in BankIds : canon[c] \in Directories /\ staging[c] \in Directories
  BY DEF TypeOK
<1>3. CASE Start
  <2>1. ASSUME NEW c \in BankIds
        PROVE  BankInv(c)'
    <3>1. /\ staging'[c] = Seeded(c) /\ UNCHANGED <<arm, canon, member>>
          /\ ctl'[c] \in {"closed", "pending"} /\ member[c] = [r \in Runs |-> "none"]
      BY <1>3 DEF Start, QuietHost
    <3>2. /\ staging'[c].meta = canon[c].meta
          /\ mode # "only" => staging'[c].plan = <<>>
      BY <1>2, <3>1 DEF Seeded, Directories
    <3>3. 0 \in fresh'[c] => mode = "only"
      BY <1>3 DEF Start
    <3>4. NoBankMarker(c)' /\ Certified(c)'
      BY <3>1, <3>2, <3>3 DEF BankInv, NoBankMarker, Certified, mode
    <3> QED
      BY <3>1, <3>2, <3>4 DEF BankInv, TasksInFanout, PlanHeld, Unpublished, mode
  <2> QED
    BY <1>3, <2>1 DEF Start, QuietHost
<1>4. CASE ContainerEnds
  <2>1. ASSUME NEW c \in BankIds
        PROVE  BankInv(c)'
    <3>1. /\ staging'[c] = Pruned(c) /\ fresh'[c] = {} /\ UNCHANGED <<arm, canon>>
          /\ ctl'[c] = "closed" /\ member'[c] = [r \in Runs |-> "none"]
      BY <1>4 DEF ContainerEnds, Closed, NoTasks
    <3>2. Pruned(c).meta \in {staging[c].meta, NoMeta}
      BY DEF Pruned, EmptyDir
    <3>3. NoBankMarker(c)' /\ Certified(c)'
      BY <3>1, <3>2 DEF BankInv, NoBankMarker, Certified, NoMeta, mode
    <3> QED
      BY <3>1, <3>3, ClosedBank
  <2> QED
    BY <1>4, <2>1 DEF ContainerEnds, QuietHost, Closed, NoTasks
<1>5. CASE Killed
  <2>1. ASSUME NEW c \in BankIds
        PROVE  BankInv(c)'
    <3>1. /\ staging'[c] = EmptyDir /\ fresh'[c] = {} /\ UNCHANGED <<arm, canon>>
          /\ ctl'[c] = "closed" /\ member'[c] = [r \in Runs |-> "none"]
      BY <1>5 DEF Killed, Closed, NoTasks
    <3>2. NoBankMarker(c)' /\ Certified(c)'
      BY <1>1, <3>1 DEF BankInv, NoBankMarker, Certified, mode
    <3> QED
      BY <3>1, <3>2, ClosedBank
  <2> QED
    BY <1>5, <2>1 DEF Killed, QuietHost, Closed, NoTasks
<1>6. CASE Trap \/ EditProtocol \/ \E b \in BankIds : Archive(b)
  <2>1. host # "up" /\ host' # "up" /\ UNCHANGED <<arm, ctl, member, fresh>>
    BY <1>6 DEF Trap, Cleanup, MergeBank, MergeMember, EditProtocol, Archive
  <2>2. \A c \in BankIds : ctl[c] = "closed" /\ member[c] = [r \in Runs |-> "none"]
    BY <2>1 DEF QuietHost
  <2>3. ASSUME NEW c \in BankIds
        PROVE  /\ canon'[c].meta \in {canon[c].meta, staging[c].meta, NoMeta}
               /\ staging'[c] \in {staging[c], EmptyDir}
    <3>1. CASE Cleanup \/ EditProtocol
      BY <3>1 DEF Cleanup, EditProtocol
    <3>2. CASE \E b \in BankIds : MergeBank(b)
      <4>1. PICK b \in BankIds : MergeBank(b)
        BY <3>2
      <4>2. canon' = [canon EXCEPT ![b].meta = staging[b].meta, ![b].plan = staging[b].plan]
        BY <4>1 DEF MergeBank
      <4>3. canon'[c].meta \in {canon[c].meta, staging[c].meta}
        BY <1>2, <4>2 DEF TypeOK, Directories
      <4> QED
        BY <4>1, <4>3 DEF MergeBank
    <3>3. CASE \E b \in BankIds, r \in Runs : MergeMember(b, r)
      <4>1. PICK b \in BankIds, r \in Runs : MergeMember(b, r)
        BY <3>3
      <4>2. canon' = [canon EXCEPT ![b].run[r] = staging[b].run[r]]
        BY <4>1 DEF MergeMember
      <4>3. canon'[c].meta = canon[c].meta
        BY <1>2, <4>2 DEF TypeOK, Directories
      <4> QED
        BY <4>1, <4>3 DEF MergeMember
    <3>4. CASE \E b \in BankIds : Archive(b)
      BY <3>4 DEF Archive, TypeOK, EmptyDir
    <3> QED
      BY <1>6, <3>1, <3>2, <3>3, <3>4 DEF Trap
  <2>4. ASSUME NEW c \in BankIds
        PROVE  BankInv(c)'
    <3>1. NoBankMarker(c)'
      BY <1>1, <2>1, <2>3 DEF BankInv, NoBankMarker, NoMeta, mode
    <3>2. Certified(c)'
      BY <1>1, <2>1, <2>3 DEF BankInv, Certified, RunsDone, RunDone
    <3> QED
      BY <2>1, <2>2, <3>1, <3>2, ClosedBank
  <2> QED
    BY <2>1, <2>2, <2>4 DEF QuietHost
<1> QED
  BY <1>3, <1>4, <1>5, <1>6

-----------------------------------------------------------------------------
(***************************************************************************)
(* The inductive invariant, and what follows from it.                      *)
(***************************************************************************)
\* The results tree starts empty and nothing runs.
LEMMA InitIInv == Init => IInv
<1> SUFFICES ASSUME Init
             PROVE  IInv
  OBVIOUS
<1>1. EmptyDir \in Directories
  BY DEF EmptyDir, NoMeta, Directories, Markers, Published, Outputs
<1>2. arm \in ArmRecords /\ arm.starts \in Nat /\ arm.edits \in Nat /\ MaxCuts \in Nat
  BY BanksAssumption DEF Init, ArmRecords
<1>3. TypeOK
  BY <1>1, <1>2 DEF Init, TypeOK, Protocols
<1>4. QuietHost
  BY DEF Init, QuietHost
<1>5. ASSUME NEW b \in BankIds
      PROVE  BankInv(b)
  <2>1. canon[b] = EmptyDir /\ staging[b] = EmptyDir /\ ctl[b] = "closed"
    BY DEF Init
  <2>2. EmptyDir.meta.kind = "none"
    BY DEF EmptyDir, NoMeta
  <2> QED
    BY <2>1, <2>2 DEF Init, BankInv, TasksInFanout, PlanHeld, Unpublished, NoBankMarker, Certified
<1> QED
  BY <1>3, <1>4, <1>5 DEF IInv

\* Every step of a controller, a member, run.sh or the operator keeps it.
LEMMA NextIInv == IInv /\ [Next]_vars => IInv'
<1> SUFFICES ASSUME IInv, [Next]_vars
             PROVE  IInv'
  OBVIOUS
<1>1. ASSUME NEW b \in BankIds, Controller(b)
      PROVE  IInv'
  <2>1. TypeOK'
    BY <1>1, ControllerTyped
  <2>2. QuietHost'
    BY <1>1, ControllerFrame DEF QuietHost
  <2>3. ASSUME NEW c \in BankIds
        PROVE  BankInv(c)'
    <3>1. CASE c = b
      BY <1>1, <3>1, ControllerBank
    <3>2. CASE c # b
      BY <1>1, <3>2, ControllerFrame, OtherBank DEF IInv
    <3> QED
      BY <3>1, <3>2
  <2> QED
    BY <2>1, <2>2, <2>3 DEF IInv
<1>2. ASSUME NEW b \in BankIds, NEW r \in Runs, Task(b, r)
      PROVE  IInv'
  <2>1. TypeOK'
    BY <1>2, TaskTyped
  <2>2. QuietHost'
    BY <1>2, TaskBank DEF QuietHost
  <2>3. ASSUME NEW c \in BankIds
        PROVE  BankInv(c)'
    <3>1. CASE c = b
      BY <1>2, <3>1, TaskBank
    <3>2. CASE c # b
      BY <1>2, <3>2, TaskBank, OtherBank DEF IInv
    <3> QED
      BY <3>1, <3>2
  <2> QED
    BY <2>1, <2>2, <2>3 DEF IInv
<1>3. CASE \/ Start \/ ContainerEnds \/ Trap \/ Killed \/ EditProtocol
           \/ \E b \in BankIds : Archive(b)
  <2>1. TypeOK'
    BY <1>3, HostTyped DEF IInv
  <2>2. QuietHost' /\ \A c \in BankIds : BankInv(c)'
    BY <1>3, HostBanks
  <2> QED
    BY <2>1, <2>2 DEF IInv
<1>4. CASE UNCHANGED vars
  BY <1>4 DEF vars, checkpoints, IInv, TypeOK, QuietHost, BankInv, TasksInFanout, PlanHeld,
              Unpublished, NoBankMarker, Certified, RunsDone, RunDone, Plan, Planned, mode,
              Protocols, Identities
<1> QED
  BY <1>1, <1>2, <1>3, <1>4 DEF Next

\* It holds in every state of a run of banks.
LEMMA Inductive == Spec => []IInv
<1>1. Init => IInv
  BY InitIInv
<1>2. IInv /\ [Next]_vars => IInv'
  BY NextIInv
<1> QED
  BY <1>1, <1>2, PTL DEF Spec

\* Whatever dies, fails or is edited, every file, checkpoint and task of a bank
\* is of its kind; a member's checkpoint names a strategy it can be run under.
THEOREM TypeCorrect == Spec => []TypeOK
<1>1. IInv => TypeOK
  BY DEF IInv
<1> QED
  BY <1>1, Inductive, PTL

\* write_parallel_bank_meta and the uniform bank's certificate are written over
\* whole banks only, whichever members failed and however often it was resumed.
THEOREM CertifiedWhole == Spec => []MarkerCertifiesMembers
<1>1. IInv => MarkerCertifiesMembers
  BY DEF IInv, BankInv, Certified, MarkerCertifiesMembers
<1> QED
  BY <1>1, Inductive, PTL

\* No executor of a uniform-strategy bank can read the strategies of its
\* siblings in the mounted tree.
THEOREM ExecutorsBlind == Spec => []StrategiesHidden
<1>1. IInv => StrategiesHidden
  <2> SUFFICES ASSUME IInv, NEW b \in BankIds, mode = "uniform", InTask(b) # {}
               PROVE  staging[b].plan = <<>>
    BY DEF StrategiesHidden
  <2>1. PICK r \in Runs : member[b][r] \in {"live", "solved"}
    BY DEF InTask
  <2>2. ctl[b] = "fanout"
    BY <2>1, InFanout DEF IInv, BankInv
  <2> QED
    BY <2>2 DEF IInv, BankInv, Unpublished
<1> QED
  BY <1>1, Inductive, PTL


-----------------------------------------------------------------------------
(***************************************************************************)
(* The sessions of all banks together.                                     *)
(***************************************************************************)
\* What the two limiters keep: the outer one its controllers, the inner one the
\* tasks of each bank.
LimitInv ==
  /\ IsFiniteSet(Admitted) /\ Cardinality(Admitted) <= OuterLimit
  /\ \A b \in BankIds : Cardinality(InTask(b)) <= InnerLimit
  /\ mode = "parallel" => \A b \in BankIds : ctl[b] # "planner"

LEMMA LimitsTyped ==
  ASSUME TypeOK
  PROVE  /\ Branches \in Nat \ {0} /\ capacity \in Nat \ {0}
         /\ OuterLimit \in Nat \ {0} /\ InnerLimit \in Nat \ {0}
         /\ InnerLimit <= capacity /\ InnerLimit <= Branches
         /\ OuterLimit = 1 \/ (mode = "parallel" /\ OuterLimit * Branches <= capacity)
<1>1. Branches \in Nat \ {0} /\ capacity \in Nat \ {0}
  BY BanksAssumption DEF TypeOK, ArmRecords, capacity
<1>2. /\ InnerLimit \in Nat \ {0} /\ InnerLimit <= capacity /\ InnerLimit <= Branches
  BY <1>1 DEF InnerLimit
<1> DEFINE q == capacity \div Branches
<1>3. q \in Nat /\ q * Branches <= capacity
  <2> HIDE DEF capacity
  <2> QED
    BY <1>1, Z3
<1> HIDE DEF q
<1>4. OuterLimit = 1 \/ (mode = "parallel" /\ OuterLimit = q /\ q # 0)
  BY DEF OuterLimit, NestedControllerLimit, q
<1> QED
  BY <1>1, <1>2, <1>3, <1>4

LEMMA TasksFinite ==
  ASSUME NEW b
  PROVE  /\ IsFiniteSet(Runs) /\ Cardinality(Runs) = Branches
         /\ InTask(b) \subseteq Runs /\ IsFiniteSet(InTask(b))
         /\ Cardinality(InTask(b)) \in Nat
<1>1. IsFiniteSet(Runs) /\ Cardinality(Runs) = Branches
  BY BanksAssumption, FS_Interval DEF Runs
<1>2. InTask(b) \in SUBSET Runs
  BY DEF InTask
<1> QED
  BY <1>1, <1>2, FS_Subset, FS_CardinalityType

\* One bank or one task is admitted at a time.
LEMMA AdmissionSteps ==
  ASSUME IInv, [Next]_vars
  PROVE  /\ OuterLimit' = OuterLimit /\ InnerLimit' = InnerLimit /\ mode' = mode
         /\ \/ Admitted' \subseteq Admitted
            \/ \E b \in BankIds : MayAdmit(b) /\ Admitted' \subseteq Admitted \cup {b}
         /\ \A c \in BankIds :
              \/ InTask(c)' \subseteq InTask(c)
              \/ \E r \in Runs : /\ Cardinality(InTask(c)) < InnerLimit
                                 /\ InTask(c)' \subseteq InTask(c) \cup {r}
         /\ \A b \in BankIds : ctl'[b] = "planner" => ctl[b] = "planner" \/ mode # "parallel"
<1>1. CASE \E b \in BankIds : Controller(b)
  <2>1. PICK b \in BankIds : Controller(b)
    BY <1>1
  <2>2. /\ UNCHANGED arm
        /\ \A c \in BankIds \ {b} : ctl'[c] = ctl[c] /\ member'[c] = member[c]
    BY <2>1, ControllerFrame
  <2>3. ctl[b] = "pending" => MayAdmit(b) \/ ctl'[b] = "pending"
    BY <2>1 DEF Controller, AdmitParallel, AdmitUniform, RunPlanner, PlannerFailed, StrategyOnly,
            LaunchExecutors, CertifyParallel, PublishStrategies, LeaveIncomplete, CertifyUniform,
            FailBank, PlannerReady, FanoutOver
  <2>4. ctl[b] = "closed" => FALSE
    BY <2>1 DEF Controller, AdmitParallel, AdmitUniform, RunPlanner, PlannerFailed, StrategyOnly,
            LaunchExecutors, CertifyParallel, PublishStrategies, LeaveIncomplete, CertifyUniform,
            FailBank, PlannerReady, FanoutOver, MayAdmit
  <2>5. member'[b] = member[b] \/ member' = Queued(b)
    BY <2>1 DEF Controller, AdmitParallel, AdmitUniform, RunPlanner, PlannerFailed, StrategyOnly,
            LaunchExecutors, CertifyParallel, PublishStrategies, LeaveIncomplete, CertifyUniform,
            FailBank
  <2>6. InTask(b)' \subseteq InTask(b)
    BY <2>5 DEF InTask, Queued, IInv, TypeOK
  <2>7. ctl'[b] = "planner" => ctl[b] = "planner" \/ mode # "parallel"
    BY <2>1 DEF Controller, AdmitParallel, AdmitUniform, RunPlanner, PlannerFailed, StrategyOnly,
            LaunchExecutors, CertifyParallel, PublishStrategies, LeaveIncomplete, CertifyUniform,
            FailBank, Enter, IInv, TypeOK, WriteMarker
  <2>8. \A c \in BankIds : InTask(c)' \subseteq InTask(c)
    BY <2>2, <2>6 DEF InTask
  <2>9. Admitted' \subseteq Admitted \/ (MayAdmit(b) /\ Admitted' \subseteq Admitted \cup {b})
    BY <2>2, <2>3, <2>4 DEF Admitted
  <2> QED
    BY <2>1, <2>2, <2>7, <2>8, <2>9 DEF OuterLimit, InnerLimit, mode, capacity
<1>2. CASE \E b \in BankIds, r \in Runs : Task(b, r)
  <2>1. PICK b \in BankIds, r \in Runs : Task(b, r)
    BY <1>2
  <2>2. /\ UNCHANGED <<arm, ctl>>
        /\ \A c \in BankIds \ {b} : member'[c] = member[c]
    BY <2>1, TaskBank
  <2>3. \/ InTask(b)' \subseteq InTask(b)
        \/ /\ Cardinality(InTask(b)) < InnerLimit
           /\ InTask(b)' \subseteq InTask(b) \cup {r}
    <3>1. /\ member \in [BankIds -> [Runs -> {"none", "queued", "live", "solved", "ended"}]]
          /\ InTask(b)' = {q \in Runs : member'[b][q] \in {"live", "solved"}}
      BY DEF IInv, TypeOK, InTask
    <3>2. \E at \in {"live", "solved", "ended"} :
            /\ member' = [member EXCEPT ![b][r] = at]
            /\ \/ at = "ended" \/ member[b][r] = "live" \/ Cardinality(InTask(b)) < InnerLimit
      BY <2>1 DEF Task, AdmitMember, SolveMember, WriteMember, FailMember, Go
    <3>3. PICK at \in {"live", "solved", "ended"} :
            /\ member' = [member EXCEPT ![b][r] = at]
            /\ \/ at = "ended" \/ member[b][r] = "live" \/ Cardinality(InTask(b)) < InnerLimit
      BY <3>2
    <3>4. /\ member'[b][r] = at /\ \A q \in Runs \ {r} : member'[b][q] = member[b][q]
      BY <3>1, <3>3
    <3> QED
      BY <3>1, <3>3, <3>4 DEF InTask
  <2>4. Admitted' = Admitted
    BY <2>2 DEF Admitted
  <2>5. ASSUME NEW c \in BankIds \ {b} PROVE InTask(c)' = InTask(c)
    BY <2>2 DEF InTask
  <2> QED
    BY <2>1, <2>2, <2>3, <2>4, <2>5 DEF OuterLimit, InnerLimit, mode, capacity
<1>3. CASE Start \/ ContainerEnds \/ Killed
  <2>1. /\ UNCHANGED arm /\ \A c \in BankIds : ctl'[c] \in {"closed", "pending"}
        /\ \A c \in BankIds : member'[c] = [r \in Runs |-> "none"]
    BY <1>3 DEF Start, ContainerEnds, Killed, Closed, NoTasks, IInv, QuietHost
  <2> QED
    BY <2>1 DEF Admitted, InTask, OuterLimit, InnerLimit, mode, capacity
<1>4. CASE Trap \/ EditProtocol \/ (\E b \in BankIds : Archive(b)) \/ UNCHANGED vars
  <2>1. UNCHANGED <<arm, ctl, member>>
    BY <1>4 DEF Trap, Cleanup, MergeBank, MergeMember, EditProtocol, Archive, vars
  <2> QED
    BY <2>1 DEF Admitted, InTask, OuterLimit, InnerLimit, mode, capacity
<1> QED
  BY <1>1, <1>2, <1>3, <1>4 DEF Next

LEMMA LimitInit == Init => LimitInv
<1> SUFFICES ASSUME Init PROVE LimitInv
  OBVIOUS
<1>1. Admitted = {} /\ \A b \in BankIds : InTask(b) = {} /\ ctl[b] = "closed"
  BY DEF Init, Admitted, InTask
<1>2. TypeOK
  BY InitIInv DEF IInv
<1> QED
  BY <1>1, <1>2, LimitsTyped, FS_EmptySet DEF LimitInv

LEMMA LimitStep == IInv /\ LimitInv /\ [Next]_vars => LimitInv'
<1> SUFFICES ASSUME IInv, LimitInv, [Next]_vars PROVE LimitInv'
  OBVIOUS
<1>1. OuterLimit' = OuterLimit /\ InnerLimit' = InnerLimit /\ mode' = mode
  BY AdmissionSteps
<1>2. OuterLimit \in Nat /\ InnerLimit \in Nat
  BY LimitsTyped DEF IInv
<1>3. IsFiniteSet(Admitted') /\ Cardinality(Admitted') <= OuterLimit
  <2>1. IsFiniteSet(Admitted) /\ Cardinality(Admitted) \in Nat /\ Cardinality(Admitted) <= OuterLimit
    BY FS_CardinalityType DEF LimitInv
  <2>2. CASE Admitted' \subseteq Admitted
    <3>1. IsFiniteSet(Admitted') /\ Cardinality(Admitted') <= Cardinality(Admitted)
      BY <2>1, <2>2, FS_Subset
    <3> QED
      BY <1>2, <2>1, <3>1, FS_CardinalityType
  <2>3. ASSUME NEW b \in BankIds, MayAdmit(b), Admitted' \subseteq Admitted \cup {b}
        PROVE  IsFiniteSet(Admitted') /\ Cardinality(Admitted') <= OuterLimit
    <3>1. /\ IsFiniteSet(Admitted \cup {b})
          /\ Cardinality(Admitted \cup {b}) <= Cardinality(Admitted) + 1
      <4>1. /\ IsFiniteSet(Admitted \cup {b})
            /\ Cardinality(Admitted \cup {b}) =
                 IF b \in Admitted THEN Cardinality(Admitted) ELSE Cardinality(Admitted) + 1
        BY <2>1, FS_AddElement
      <4> QED
        BY <2>1, <4>1
    <3>2. IsFiniteSet(Admitted') /\ Cardinality(Admitted') <= Cardinality(Admitted \cup {b})
      BY <2>3, <3>1, FS_Subset
    <3>3. Cardinality(Admitted) < OuterLimit
      BY <2>3 DEF MayAdmit
    <3>4. Cardinality(Admitted \cup {b}) \in Nat /\ Cardinality(Admitted') \in Nat
      BY <3>1, <3>2, FS_CardinalityType
    <3> QED
      BY <1>2, <2>1, <3>1, <3>2, <3>3, <3>4
  <2> QED
    BY <2>2, <2>3, AdmissionSteps
<1>4. ASSUME NEW c \in BankIds PROVE Cardinality(InTask(c)') <= InnerLimit
  <2>1. /\ IsFiniteSet(InTask(c)) /\ Cardinality(InTask(c)) \in Nat
        /\ Cardinality(InTask(c)) <= InnerLimit
    BY TasksFinite DEF LimitInv
  <2>2. CASE InTask(c)' \subseteq InTask(c)
    <3>1. IsFiniteSet(InTask(c)') /\ Cardinality(InTask(c)') <= Cardinality(InTask(c))
      BY <2>1, <2>2, FS_Subset
    <3> QED
      BY <1>2, <2>1, <3>1, FS_CardinalityType
  <2>3. ASSUME NEW r \in Runs, Cardinality(InTask(c)) < InnerLimit,
               InTask(c)' \subseteq InTask(c) \cup {r}
        PROVE  Cardinality(InTask(c)') <= InnerLimit
    <3>1. /\ IsFiniteSet(InTask(c) \cup {r})
          /\ Cardinality(InTask(c) \cup {r}) <= Cardinality(InTask(c)) + 1
      BY <2>1, FS_AddElement
    <3>2. /\ IsFiniteSet(InTask(c)')
          /\ Cardinality(InTask(c)') <= Cardinality(InTask(c) \cup {r})
      BY <2>3, <3>1, FS_Subset
    <3>3. Cardinality(InTask(c) \cup {r}) \in Nat /\ Cardinality(InTask(c)') \in Nat
      BY <3>1, <3>2, FS_CardinalityType
    <3> QED
      BY <1>2, <2>1, <2>3, <3>1, <3>2, <3>3
  <2> QED
    BY <2>2, <2>3, AdmissionSteps
<1>5. mode' = "parallel" => \A b \in BankIds : ctl'[b] # "planner"
  BY <1>1, AdmissionSteps DEF LimitInv
<1> QED
  BY <1>1, <1>3, <1>4, <1>5 DEF LimitInv

\* Two limits of one: a planner alone, or the tasks of one bank.  Otherwise the
\* controllers' share leaves room for all members of each.
LEMMA LimitsKeepCapacity == ASSUME IInv, LimitInv PROVE WithinCapacity
<1> DEFINE P == {b \in BankIds : ctl[b] = "planner"}
           F == {b \in BankIds : ctl[b] = "fanout"}
           L == {x \in BankIds \X Runs : member[x[1]][x[2]] = "live"}
<1>1. /\ Branches \in Nat \ {0} /\ capacity \in Nat \ {0}
      /\ OuterLimit \in Nat \ {0} /\ InnerLimit \in Nat \ {0} /\ InnerLimit <= capacity
      /\ OuterLimit = 1 \/ (mode = "parallel" /\ OuterLimit * Branches <= capacity)
  BY LimitsTyped DEF IInv
<1>2. /\ P \in SUBSET Admitted /\ F \in SUBSET Admitted
      /\ IsFiniteSet(Admitted) /\ Cardinality(Admitted) <= OuterLimit
      /\ Cardinality(Admitted) \in Nat
  BY FS_CardinalityType DEF LimitInv, Admitted
<1>3. ASSUME NEW x \in L PROVE /\ x[1] \in F /\ x[2] \in InTask(x[1])
                               /\ x = <<x[1], x[2]>>
  <2>1. x[1] \in BankIds /\ x[2] \in Runs /\ member[x[1]][x[2]] = "live"
    OBVIOUS
  <2>2. ctl[x[1]] = "fanout"
    BY <2>1, InFanout DEF IInv, BankInv
  <2> QED
    BY <2>1, <2>2 DEF InTask
<1>4. P \cap F = {}
  OBVIOUS
<1>5. mode = "parallel" => P = {}
  BY DEF LimitInv
<1>6. \A b \in BankIds : Cardinality(InTask(b)) <= InnerLimit
  BY DEF LimitInv
<1>7. F \subseteq BankIds
  OBVIOUS
<1>8. Sessions = Cardinality(P) + Cardinality(L)
  BY DEF Sessions
<1> HIDE DEF P, F, L
<1>9. IsFiniteSet(P) /\ IsFiniteSet(F)
      /\ Cardinality(P) \in Nat /\ Cardinality(F) \in Nat
      /\ Cardinality(P) <= OuterLimit /\ Cardinality(F) <= OuterLimit
  <2>1. /\ IsFiniteSet(P) /\ IsFiniteSet(F) /\ Cardinality(P) <= Cardinality(Admitted)
        /\ Cardinality(F) <= Cardinality(Admitted)
    BY <1>2, FS_Subset
  <2>2. Cardinality(P) \in Nat /\ Cardinality(F) \in Nat
    BY <2>1, FS_CardinalityType
  <2> QED
    BY <1>1, <1>2, <2>1, <2>2
<1>10. IsFiniteSet(Runs) /\ Cardinality(Runs) = Branches
  BY TasksFinite
<1>11. CASE OuterLimit * Branches <= capacity /\ P = {}
  <2>1. L \in SUBSET (F \X Runs)
    BY <1>3, TasksFinite
  <2>2. IsFiniteSet(F \X Runs) /\ Cardinality(F \X Runs) = Cardinality(F) * Branches
    BY <1>9, <1>10, FS_Product
  <2>3. Cardinality(L) <= Cardinality(F \X Runs) /\ Cardinality(L) \in Nat
    BY <2>1, <2>2, FS_Subset, FS_CardinalityType
  <2>4. Cardinality(F) * Branches <= OuterLimit * Branches
    BY <1>1, <1>9, Z3
  <2>5. Cardinality(P) = 0
    BY <1>11, FS_EmptySet
  <2>6. Cardinality(F) * Branches \in Nat /\ OuterLimit * Branches \in Nat
    BY <1>1, <1>9
  <2>7. Sessions <= capacity
    BY <1>1, <1>8, <1>11, <2>2, <2>3, <2>4, <2>5, <2>6
  <2> QED
    BY <2>7 DEF WithinCapacity
<1>12. CASE OuterLimit = 1 /\ L = {}
  <2>1. Cardinality(L) = 0
    BY <1>12, FS_EmptySet
  <2> QED
    BY <1>1, <1>8, <1>9, <1>12, <2>1 DEF WithinCapacity
<1>13. CASE OuterLimit = 1 /\ L # {}
  <2>1. PICK x \in L : TRUE
    BY <1>13
  <2> DEFINE b == x[1]
  <2>2. b \in F /\ b \in Admitted /\ b \in BankIds
    BY <1>2, <1>3, <1>7, <2>1
  <2>3. Cardinality(Admitted) # 0
    BY <1>2, <2>2, FS_EmptySet
  <2>4. PICK y : Admitted = {y}
    <3>1. Cardinality(Admitted) = 1
      BY <1>2, <1>13, <2>3
    <3> QED
      BY <1>2, <3>1, FS_Singleton
  <2>5. Admitted = {b}
    BY <2>2, <2>4
  <2> HIDE DEF b
  <2>6. P = {}
    BY <1>2, <1>4, <2>2, <2>5
  <2>7. L \in SUBSET ({b} \X InTask(b))
    BY <1>2, <1>3, <2>5
  <2>8. /\ IsFiniteSet(InTask(b)) /\ Cardinality(InTask(b)) \in Nat
        /\ IsFiniteSet({b}) /\ Cardinality({b}) = 1
    BY TasksFinite, FS_Singleton
  <2>9. /\ IsFiniteSet({b} \X InTask(b))
        /\ Cardinality({b} \X InTask(b)) = 1 * Cardinality(InTask(b))
    BY <2>8, FS_Product
  <2>10. Cardinality(L) <= Cardinality({b} \X InTask(b)) /\ Cardinality(L) \in Nat
    BY <2>7, <2>9, FS_Subset, FS_CardinalityType
  <2>11. Cardinality(P) = 0 /\ Cardinality(InTask(b)) <= InnerLimit
    BY <1>6, <2>2, <2>6, FS_EmptySet
  <2>12. Sessions <= capacity
    BY <1>1, <1>8, <2>8, <2>9, <2>10, <2>11
  <2> QED
    BY <2>12 DEF WithinCapacity
<1> QED
  BY <1>1, <1>5, <1>11, <1>12, <1>13

\* Planners and members of all banks together stay within --max-concurrency,
\* whatever it is and however many members a bank has (run_all, nested in main).
THEOREM PeakWithinCapacity == Spec => []WithinCapacity
<1>1. Init => LimitInv
  BY LimitInit
<1>2. IInv /\ LimitInv /\ [Next]_vars => LimitInv'
  BY LimitStep
<1>3. Spec => []LimitInv
  BY <1>1, <1>2, Inductive, PTL DEF Spec
<1>4. IInv /\ LimitInv => WithinCapacity
  BY LimitsKeepCapacity
<1> QED
  BY <1>3, <1>4, Inductive, PTL

-----------------------------------------------------------------------------
(***************************************************************************)
(* One strategy set per bank.  As long as no merge is killed halfway, what *)
(* a bank's members were given is what its planner proposed, in the        *)
(* staging tree and in the results tree, through every restart.            *)
(***************************************************************************)
\* The members of a directory were run under the strategies of the bank's plan,
\* as long as there is one.
Given(b, dir) ==
  Plan(b) # <<>> =>
    \A r \in Runs : RunDone(dir, r) =>
      Planned(b) # <<>> /\ dir.run[r] = Planned(b)[Assignments(Len(Planned(b)))[r]]

\* A bank's certificate assigns the members of its directory their strategies.
OnSet(dir) ==
  dir.meta.kind = "bank" =>
    /\ Len(dir.meta.assigned) = Branches
    /\ \A r \in Runs : RunDone(dir, r) => dir.run[r] = dir.plan[1][dir.meta.assigned[r]]

\* Merging what is left to merge makes a marked directory whole.
Finishing(b) ==
  canon[b].meta # NoMeta =>
    /\ canon[b].meta.kind \in {"bank", "failure"}
    /\ canon[b].meta.kind = "bank" => \A r \in Runs : RunDone(canon[b], r) \/ <<b, r>> \in todo

\* Plans are made under the current protocol or an earlier one; a bank that has
\* lost its plan under the first is done, or has no members.
PlansOf(b) ==
  /\ \A p \in Protocols : p > proto => plans[b][p] = <<>>
  /\ ctl[b] = "planner" /\ Plan(b) = <<>> => RunsDone(staging[b]) = {}
  /\ proto = 0 /\ Plan(b) = <<>> =>
       Done(canon[b]) \/ (RunsDone(canon[b]) = {} /\ RunsDone(staging[b]) = {})

\* The staging tree of a live container goes beyond the results tree, and only
\* for banks that have no marker there.
SeededTree(b) ==
  /\ \A r \in Runs : RunDone(canon[b], r) => staging[b].run[r] = canon[b].run[r]
  /\ ctl[b] # "closed" \/ fresh[b] # {} => canon[b].meta = NoMeta
  /\ \A r \in Runs \cap fresh[b] : RunDone(staging[b], r)
  /\ 0 \in fresh[b] =>
       ctl[b] = "closed" /\ staging[b].meta.kind \in {"bank", "failure"} /\ OnSet(staging[b])
  /\ ctl[b] = "artifacts" => staging[b].plan = <<Planned(b)>>

\* What the trap has still to merge of a bank fits what it has merged.
MergingTree(b) ==
  /\ OnSet(staging[b])
  /\ <<b, 0>> \in todo =>
       /\ canon[b].meta = NoMeta /\ staging[b].meta.kind \in {"bank", "failure"}
       /\ staging[b].meta.kind = "bank" => \A r \in Runs : <<b, r>> \in todo
       /\ \A r \in Runs : RunDone(canon[b], r) => staging[b].run[r] = canon[b].run[r]
  /\ \A r \in Runs : <<b, r>> \in todo =>
       /\ RunDone(staging[b], r)
       /\ \/ <<b, 0>> \in todo
          \/ canon[b].meta = NoMeta
          \/ canon[b].meta = staging[b].meta /\ canon[b].plan = staging[b].plan

SetInv(b) ==
  /\ PlansOf(b)
  /\ Given(b, canon[b]) /\ Given(b, staging[b])
  /\ OnSet(canon[b]) /\ Finishing(b)
  /\ host = "up" => SeededTree(b)
  /\ host = "merge" => MergingTree(b)
  /\ host = "down" => staging[b] = EmptyDir
  /\ host # "merge" => \A x \in Runs \cup {0} : <<b, x>> \notin todo

\* No merge has been killed halfway.
WholeMerges == mode = "uniform" /\ cuts = 0

StrategyInv == WholeMerges => \A b \in BankIds : SetInv(b)

\* What concerns one bank is kept by a step that leaves that bank alone.
LEMMA SetFrame ==
  ASSUME NEW c \in BankIds, SetInv(c), UNCHANGED <<arm, proto, host>>,
         canon'[c] = canon[c], staging'[c] = staging[c], plans'[c] = plans[c],
         ctl'[c] = ctl[c], fresh'[c] = fresh[c],
         \A x \in Runs \cup {0} : <<c, x>> \in todo' <=> <<c, x>> \in todo
  PROVE  SetInv(c)'
<1>1. Plan(c)' = Plan(c) /\ Planned(c)' = Planned(c) /\ mode' = mode /\ Protocols' = Protocols
  BY DEF Plan, Planned, mode, Protocols
<1>2. PlansOf(c)'
  BY <1>1 DEF SetInv, PlansOf, Done, UniformBankDone, ParallelBankDone, StrategyOnlyDone,
              RunsDone, RunDone
<1>3. /\ (Given(c, canon[c]))' /\ (Given(c, staging[c]))'
      /\ (OnSet(canon[c]))' /\ Finishing(c)'
  BY <1>1 DEF SetInv, Given, OnSet, Finishing, RunDone
<1>4. host' = "up" => SeededTree(c)'
  BY <1>1 DEF SetInv, SeededTree, OnSet, RunDone
<1>5. host' = "merge" => MergingTree(c)'
  BY DEF SetInv, MergingTree, OnSet, RunDone
<1> QED
  BY <1>2, <1>3, <1>4, <1>5 DEF SetInv

\* A marker that nothing is left to be merged under certifies a whole bank.
LEMMA MarkedIsDone ==
  ASSUME NEW c \in BankIds, mode = "uniform", OnSet(canon[c]), Finishing(c),
         \A r \in Runs : <<c, r>> \notin todo, canon[c].meta # NoMeta
  PROVE  UniformBankDone(canon[c])
BY DEF OnSet, Finishing, UniformBankDone, RunsDone

\* A directory holds what the plan gives as long as its members are of one that
\* does.
LEMMA GivenSubset ==
  ASSUME NEW c, NEW dir, NEW more, Given(c, more),
         \A r \in Runs : RunDone(dir, r) => RunDone(more, r) /\ dir.run[r] = more.run[r]
  PROVE  Given(c, dir)
BY DEF Given

\* An empty directory
LEMMA EmptyShape ==
  /\ EmptyDir.meta = NoMeta /\ NoMeta.kind = "none" /\ RunsDone(EmptyDir) = {}
  /\ \A r \in Runs : ~RunDone(EmptyDir, r)
BY DEF EmptyDir, NoMeta, RunsDone, RunDone

\* A step inside a live container leaves the results tree and the trap alone.
LEMMA UpStep ==
  ASSUME NEW b \in BankIds, host = "up", SetInv(b),
         UNCHANGED <<arm, proto, canon, host, todo>>,
         PlansOf(b)', (Given(b, canon[b]))', (Given(b, staging[b]))', SeededTree(b)'
  PROVE  SetInv(b)'
BY DEF SetInv, OnSet, Finishing, RunDone

\* What the marker writers of a uniform bank leave: the members and the
\* proposal as they were.
LEMMA MarkerSet ==
  ASSUME TypeOK, NEW b \in BankIds, NEW plan, NEW meta, WriteMarker(b, plan, meta),
         Plan(b) # <<>>, proto' = proto
  PROVE  /\ Plan(b)' # <<>> /\ Planned(b)' = Planned(b)
         /\ \A p \in Protocols : plans[b][p] = <<>> /\ p # proto => plans'[b][p] = <<>>
         /\ ctl'[b] = "closed" /\ fresh'[b] = fresh[b] \cup {0}
         /\ staging'[b].run = staging[b].run /\ staging'[b].meta = meta
         /\ staging'[b].plan = plan
<1>1. proto \in Protocols /\ Plan(b)[1] \in PlanStates
  BY PlanTyped DEF TypeOK
<1> DEFINE held == [Plan(b)[1] EXCEPT !.prepared = TRUE]
<1>2. held.proposed = Plan(b)[1].proposed
  BY <1>1 DEF PlanStates
<1>3. plans' = [plans EXCEPT ![b][proto] = <<held>>]
  BY DEF WriteMarker, Plan, TypeOK
<1> HIDE DEF held
<1>4. /\ plans'[b][proto] = <<held>>
      /\ \A p \in Protocols : p # proto => plans'[b][p] = plans[b][p]
  BY <1>1, <1>3 DEF TypeOK
<1>5. Plan(b)' # <<>> /\ Planned(b)' = Planned(b)
  BY <1>2, <1>4 DEF Plan, Planned
<1>6. ctl'[b] = "closed" /\ fresh'[b] = fresh[b] \cup {0}
  BY DEF WriteMarker, Enter, TypeOK
<1>7. /\ staging'[b].run = staging[b].run /\ staging'[b].meta = meta
      /\ staging'[b].plan = plan
  <2>1. staging[b] \in Directories
    BY DEF TypeOK
  <2>2. staging'[b] = [staging[b] EXCEPT !.plan = plan, !.meta = meta]
    BY DEF WriteMarker, TypeOK
  <2> QED
    BY <2>1, <2>2 DEF Directories
<1> QED
  BY <1>4, <1>5, <1>6, <1>7

\* A certificate of the set the members were given keeps the bank on it.
LEMMA MarkerKeepsSet ==
  ASSUME IInv, NEW b \in BankIds, NEW plan, NEW meta, SetInv(b), mode = "uniform",
         host = "up", UNCHANGED <<arm, proto, canon, host, todo>>,
         WriteMarker(b, plan, meta), Plan(b) # <<>>, ctl[b] # "closed",
         \/ meta.kind = "failure"
         \/ /\ meta.kind = "bank" /\ Planned(b) # <<>> /\ plan = <<Planned(b)>>
            /\ meta.assigned = Assignments(Len(Planned(b))) /\ Len(meta.assigned) = Branches
  PROVE  SetInv(b)'
<1> USE DEF IInv
<1>1. /\ Plan(b)' # <<>> /\ Planned(b)' = Planned(b)
      /\ \A p \in Protocols : plans[b][p] = <<>> /\ p # proto => plans'[b][p] = <<>>
      /\ ctl'[b] = "closed" /\ fresh'[b] = fresh[b] \cup {0}
      /\ staging'[b].run = staging[b].run /\ staging'[b].meta = meta
      /\ staging'[b].plan = plan
  BY MarkerSet
<1>2. PlansOf(b) /\ Given(b, canon[b]) /\ Given(b, staging[b]) /\ SeededTree(b)
  BY DEF SetInv
<1>3. PlansOf(b)'
  <2>1. Protocols' = Protocols /\ proto \in Protocols
    BY DEF Protocols, TypeOK
  <2>2. \A p \in Protocols : p > proto => p # proto
    BY DEF Protocols, TypeOK
  <2>3. \A p \in Protocols : p > proto => plans'[b][p] = <<>>
    BY <1>1, <1>2, <2>2 DEF PlansOf
  <2> QED
    BY <1>1, <2>1, <2>3 DEF PlansOf
<1>4. (Given(b, canon[b]))' /\ (Given(b, staging[b]))'
  BY <1>1, <1>2 DEF Given, RunDone
<1>5. (OnSet(staging[b]))'
  BY <1>1, <1>2 DEF OnSet, Given, RunDone
<1>6. 0 \notin Runs
  BY BanksAssumption DEF Runs
<1>7. SeededTree(b)'
  BY <1>1, <1>2, <1>5, <1>6 DEF SeededTree, RunDone
<1> QED
  BY <1>2, <1>3, <1>4, <1>7, UpStep

\* The length of a certificate's assignment
LEMMA AssignmentsLength ==
  ASSUME NEW n PROVE Len(Assignments(n)) = Branches
<1>1. Assignments(n) = [r \in 1..Branches |-> ((r - 1) % n) + 1] /\ Branches \in Nat
  BY BanksAssumption DEF Assignments, Runs
<1> DEFINE f == [r \in 1..Branches |-> ((r - 1) % n) + 1]
<1>2. f \in Seq({f[r] : r \in 1..Branches}) /\ Len(f) = Branches
  <2>1. DOMAIN f = 1..Branches
    OBVIOUS
  <2>2. f \in [1..Branches -> {f[r] : r \in 1..Branches}]
    OBVIOUS
  <2> HIDE DEF f
  <2>3. f \in Seq({f[r] : r \in 1..Branches})
    BY <1>1, <2>2
  <2> QED
    BY <1>1, <2>1, <2>3
<1> QED
  BY <1>1, <1>2

\* A bank's controller keeps its members on one set: a planner is run only for
\* a bank without members, and a set that is kept is not proposed again.
LEMMA ControllerSet ==
  ASSUME IInv, mode = "uniform", NEW b \in BankIds, SetInv(b), Controller(b)
  PROVE  SetInv(b)' /\ UNCHANGED <<todo, cuts>>
<1> USE DEF IInv
<1>1. /\ host = "up" /\ UNCHANGED <<arm, proto, canon, host>>
      /\ BankInv(b) /\ TypeOK /\ staging[b] \in Directories
  BY ControllerFrame DEF TypeOK
<1>2. UNCHANGED <<todo, cuts>>
  BY DEF Controller, AdmitParallel, AdmitUniform, RunPlanner, PlannerFailed, StrategyOnly,
         LaunchExecutors, CertifyParallel, PublishStrategies, LeaveIncomplete, CertifyUniform,
         FailBank, BankStep
<1>3. PlansOf(b) /\ Given(b, canon[b]) /\ Given(b, staging[b]) /\ SeededTree(b)
  BY <1>1 DEF SetInv
<1>4. SUFFICES SetInv(b)'
  BY <1>2
<1>5. Protocols' = Protocols /\ proto \in Protocols /\ mode' = mode
  BY <1>1 DEF Protocols, TypeOK, mode
<1>6. ASSUME UNCHANGED <<staging, fresh, plans>>, ctl[b] # "closed",
             ctl'[b] = "planner" => Plan(b) # <<>> \/ RunsDone(staging[b]) = {},
             ctl'[b] # "artifacts"
      PROVE  SetInv(b)'
  <2>1. Plan(b)' = Plan(b) /\ Planned(b)' = Planned(b)
    BY <1>1, <1>6 DEF Plan, Planned
  <2>2. PlansOf(b)'
    BY <1>1, <1>3, <1>5, <1>6, <2>1
       DEF PlansOf, Done, UniformBankDone, ParallelBankDone, StrategyOnlyDone, RunsDone, RunDone
  <2>3. (Given(b, canon[b]))' /\ (Given(b, staging[b]))'
    BY <1>1, <1>3, <1>6, <2>1 DEF Given, RunDone
  <2>4. 0 \notin fresh[b] /\ canon[b].meta = NoMeta
    BY <1>3, <1>6 DEF SeededTree
  <2>5. SeededTree(b)'
    BY <1>1, <1>3, <1>6, <2>4 DEF SeededTree, RunDone
  <2> QED
    BY <1>1, <1>2, <2>2, <2>3, <2>5, UpStep
<1>7. CASE AdmitParallel(b) \/ StrategyOnly(b) \/ CertifyParallel(b)
  BY <1>7 DEF AdmitParallel, StrategyOnly, CertifyParallel
<1>8. CASE AdmitUniform(b) \/ LaunchExecutors(b) \/ LeaveIncomplete(b) \/ FailBank(b)
  <2>1. /\ UNCHANGED <<staging, fresh, plans>>
        /\ ctl[b] # "closed" /\ ctl'[b] # "artifacts"
        /\ ctl'[b] = "planner" => Plan(b) # <<>> \/ RunsDone(staging[b]) = {}
    BY <1>8 DEF AdmitUniform, LaunchExecutors, LeaveIncomplete, FailBank, MayAdmit, PlannerReady,
                Enter, TypeOK, checkpoints
  <2> QED
    BY <1>6, <2>1
<1>9. CASE RunPlanner(b)
  <2>1. /\ ctl[b] = "planner" /\ Plan(b) = <<>>
        /\ UNCHANGED <<staging, fresh, ctl>>
    BY <1>9 DEF RunPlanner
  <2>2. PICK proposed \in Proposals :
          plans' = [plans EXCEPT ![b][proto] = <<[proposed |-> proposed, prepared |-> FALSE]>>]
    BY <1>9 DEF RunPlanner
  <2>3. /\ Plan(b)' # <<>>
        /\ \A p \in Protocols : p # proto => plans'[b][p] = plans[b][p]
    BY <1>1, <1>5, <2>2 DEF Plan, TypeOK
  <2>4. \A r \in Runs : ~RunDone(staging[b], r) /\ ~RunDone(canon[b], r)
    BY <1>3, <2>1, BanksAssumption DEF PlansOf, SeededTree, RunsDone, RunDone
  <2>5. \A p \in Protocols : p > proto => p # proto
    BY <1>5 DEF Protocols, TypeOK
  <2>6. PlansOf(b)'
    BY <1>1, <1>3, <1>5, <2>3, <2>5 DEF PlansOf
  <2>7. (Given(b, canon[b]))' /\ (Given(b, staging[b]))'
    BY <1>1, <2>1, <2>4 DEF Given, RunDone
  <2>8. SeededTree(b)'
    BY <1>1, <1>3, <2>1 DEF SeededTree, OnSet, RunDone
  <2> QED
    BY <1>1, <1>2, <2>6, <2>7, <2>8, UpStep
<1>10. CASE PlannerFailed(b)
  <2>1. /\ ctl[b] # "closed" /\ Plan(b) # <<>>
        /\ WriteMarker(b, <<Planned(b)>>, Certifies("failure", <<>>))
    BY <1>10 DEF PlannerFailed, PlannerReady
  <2>2. Certifies("failure", <<>>).kind = "failure"
    BY DEF Certifies
  <2> QED
    BY <1>1, <1>2, <2>1, <2>2, MarkerKeepsSet
<1>11. CASE PublishStrategies(b)
  <2>1. /\ ctl[b] = "fanout" /\ ctl'[b] = "artifacts"
        /\ UNCHANGED <<fresh, plans>>
        /\ staging' = [staging EXCEPT ![b].plan = <<Planned(b)>>]
    BY <1>11 DEF PublishStrategies, FanoutOver, Enter, TypeOK, checkpoints
  <2>2. /\ staging'[b].run = staging[b].run /\ staging'[b].plan = <<Planned(b)>>
    BY <1>1, <2>1 DEF TypeOK, Directories
  <2>3. Plan(b)' = Plan(b) /\ Planned(b)' = Planned(b) /\ Plan(b) # <<>>
    BY <1>1, <2>1 DEF Plan, Planned, BankInv, PlanHeld
  <2>4. PlansOf(b)'
    BY <1>1, <1>3, <1>5, <2>1, <2>3 DEF PlansOf
  <2>5. (Given(b, canon[b]))' /\ (Given(b, staging[b]))'
    BY <1>1, <1>3, <2>2, <2>3 DEF Given, RunDone
  <2>6. SeededTree(b)'
    BY <1>1, <1>3, <2>1, <2>2, <2>3 DEF SeededTree, RunDone
  <2> QED
    BY <1>1, <1>2, <2>4, <2>5, <2>6, UpStep
<1>12. CASE CertifyUniform(b)
  <2> DEFINE meta == Certifies("bank", Assignments(Len(Planned(b))))
  <2>1. /\ ctl[b] = "artifacts" /\ Plan(b) # <<>> /\ Planned(b) # <<>>
        /\ WriteMarker(b, staging[b].plan, meta)
    BY <1>1, <1>12 DEF CertifyUniform, BankInv, PlanHeld
  <2>2. staging[b].plan = <<Planned(b)>>
    BY <1>3, <2>1 DEF SeededTree
  <2>3. meta.kind = "bank" /\ meta.assigned = Assignments(Len(Planned(b)))
    BY DEF Certifies
  <2>4. Len(meta.assigned) = Branches
    BY <2>3, AssignmentsLength
  <2> HIDE DEF meta
  <2> QED
    BY <1>1, <1>2, <2>1, <2>2, <2>3, <2>4, MarkerKeepsSet
<1> QED
  BY <1>7, <1>8, <1>9, <1>10, <1>11, <1>12 DEF Controller

\* A member is written under the strategy its index names in its bank's plan.
LEMMA TaskSet ==
  ASSUME IInv, mode = "uniform", NEW b \in BankIds, NEW r \in Runs, SetInv(b), Task(b, r)
  PROVE  SetInv(b)' /\ UNCHANGED <<todo, cuts>>
<1> USE DEF IInv
<1>1. /\ host = "up" /\ UNCHANGED <<arm, proto, canon, host, ctl, plans>>
      /\ BankInv(b) /\ TypeOK /\ staging[b] \in Directories
  BY TaskBank DEF TypeOK
<1>2. UNCHANGED <<todo, cuts>>
  BY DEF Task, AdmitMember, SolveMember, WriteMember, FailMember, TaskStep
<1>3. PlansOf(b) /\ Given(b, canon[b]) /\ Given(b, staging[b]) /\ SeededTree(b)
  BY <1>1 DEF SetInv
<1>4. CASE WriteMember(b, r)
  <2>1. ctl[b] = "fanout"
    BY <1>1, <1>4, InFanout DEF WriteMember, BankInv
  <2>2. /\ Plan(b) # <<>> /\ Planned(b) # <<>>
        /\ TextOf(b, r) = Planned(b)[Assignments(Len(Planned(b)))[r]]
    BY <1>1, <2>1 DEF BankInv, PlanHeld, TextOf
  <2>3. TextOf(b, r) # "none"
    BY <1>1, <2>1, TextTyped DEF BankInv
  <2>4. /\ staging'[b].run = [staging[b].run EXCEPT ![r] = TextOf(b, r)]
        /\ staging[b].run \in [Runs -> Outputs]
    BY <1>1, <1>4 DEF WriteMember, TypeOK, Directories
  <2>5. fresh'[b] = fresh[b] \cup {r} /\ r # 0
    BY <1>4, BanksAssumption DEF WriteMember, TypeOK, Runs
  <2>6. Plan(b)' = Plan(b) /\ Planned(b)' = Planned(b)
    BY <1>1 DEF Plan, Planned
  <2>7. PlansOf(b)'
    <3>1. Protocols' = Protocols
      BY <1>1 DEF Protocols
    <3> QED
      BY <1>1, <1>3, <2>2, <2>6, <3>1 DEF PlansOf
  <2>8. ASSUME NEW q \in Runs
        PROVE  /\ staging'[b].run[q] = IF q = r THEN TextOf(b, r) ELSE staging[b].run[q]
               /\ RunDone(staging'[b], q) <=> q = r \/ RunDone(staging[b], q)
    BY <2>3, <2>4 DEF RunDone
  <2>9. (Given(b, canon[b]))'
    BY <1>1, <1>3, <2>6 DEF Given, RunDone
  <2>10. (Given(b, staging[b]))'
    BY <1>3, <2>2, <2>6, <2>8 DEF Given, RunDone
  <2>11. SeededTree(b)'
    <3>1. \A q \in Runs : RunDone(canon[b], q) => staging'[b].run[q] = canon[b].run[q]
      BY <1>3, <2>2, <2>8 DEF SeededTree, Given
    <3>2. \A q \in Runs \cap fresh'[b] : RunDone(staging'[b], q)
      BY <1>3, <2>5, <2>8 DEF SeededTree
    <3>3. 0 \notin fresh'[b]
      BY <1>3, <2>1, <2>5 DEF SeededTree
    <3> QED
      BY <1>1, <1>3, <2>1, <3>1, <3>2, <3>3 DEF SeededTree, RunDone
  <2> QED
    BY <1>1, <1>2, <2>7, <2>9, <2>10, <2>11, UpStep
<1>5. CASE ~WriteMember(b, r)
  <2>1. UNCHANGED <<staging, fresh>>
    BY <1>5 DEF Task, AdmitMember, SolveMember, FailMember
  <2> QED
    BY <1>1, <1>2, <2>1, SetFrame
<1> QED
  BY <1>2, <1>4, <1>5

\* run.sh seeds the staging tree with what was merged; a bank with a marker is
\* whole and therefore not listed.
LEMMA StartSet ==
  ASSUME IInv, mode = "uniform", NEW c \in BankIds, SetInv(c), Start
  PROVE  SetInv(c)'
<1> USE DEF IInv
<1>1. /\ host = "down" /\ host' = "up" /\ UNCHANGED <<arm, proto, canon, plans, todo>>
      /\ staging'[c] = Seeded(c) /\ fresh'[c] = {}
      /\ ctl'[c] \in {"closed", "pending"}
      /\ ctl'[c] # "closed" => ~Done(Seeded(c))
      /\ canon[c] \in Directories
  BY DEF Start, checkpoints, TypeOK
<1>2. Seeded(c).run = canon[c].run /\ Seeded(c).meta = canon[c].meta
  BY <1>1 DEF Seeded, Directories
<1>3. Plan(c)' = Plan(c) /\ Planned(c)' = Planned(c) /\ Protocols' = Protocols /\ mode' = mode
  BY <1>1 DEF Plan, Planned, Protocols, mode
<1>4. /\ PlansOf(c) /\ Given(c, canon[c]) /\ OnSet(canon[c]) /\ Finishing(c)
      /\ \A x \in Runs \cup {0} : <<c, x>> \notin todo
  BY <1>1 DEF SetInv
<1>5. PlansOf(c)'
  BY <1>1, <1>2, <1>3, <1>4
     DEF PlansOf, Done, UniformBankDone, ParallelBankDone, StrategyOnlyDone, RunsDone, RunDone
<1>6. (Given(c, canon[c]))' /\ (Given(c, staging[c]))'
  BY <1>1, <1>2, <1>3, <1>4 DEF Given, RunDone
<1>7. ctl'[c] # "closed" => canon[c].meta = NoMeta
  <2>1. canon[c].meta # NoMeta => UniformBankDone(canon[c])
    BY <1>4, MarkedIsDone
  <2>2. UniformBankDone(canon[c]) => Done(Seeded(c))
    BY <1>2 DEF Done, UniformBankDone, RunsDone, RunDone
  <2> QED
    BY <1>1, <2>1, <2>2
<1>8. SeededTree(c)'
  BY <1>1, <1>2, <1>7 DEF SeededTree, RunDone
<1>9. (OnSet(canon[c]))' /\ Finishing(c)'
  BY <1>1, <1>4 DEF OnSet, Finishing, RunDone
<1> QED
  BY <1>1, <1>4, <1>5, <1>6, <1>8, <1>9 DEF SetInv

\* What prune_staging keeps is a whole bank with its marker, or members alone.
LEMMA ContainerEndsSet ==
  ASSUME IInv, mode = "uniform", NEW c \in BankIds, SetInv(c), ContainerEnds
  PROVE  SetInv(c)'
<1> USE DEF IInv
<1>1. /\ host = "up" /\ host' = "merge" /\ UNCHANGED <<arm, proto, canon, plans>>
      /\ staging'[c] = Pruned(c) /\ ctl'[c] = "closed"
      /\ staging[c] \in Directories
  BY DEF ContainerEnds, checkpoints, TypeOK, Closed
<1>2. \A x : <<c, x>> \in todo' <=> x \in Durable(c)
  BY DEF ContainerEnds
<1>3. /\ PlansOf(c) /\ Given(c, canon[c]) /\ Given(c, staging[c]) /\ OnSet(canon[c])
      /\ Finishing(c) /\ SeededTree(c)
      /\ \A x \in Runs \cup {0} : <<c, x>> \notin todo
  BY <1>1 DEF SetInv
<1>4. 0 \notin Runs
  BY BanksAssumption DEF Runs
<1>5. ASSUME NEW r \in Runs
      PROVE  /\ Pruned(c).run[r] = IF 0 \in fresh[c] \/ r \in fresh[c]
                                   THEN staging[c].run[r] ELSE "none"
             /\ r \in Durable(c) => RunDone(Pruned(c), r)
             /\ RunDone(Pruned(c), r) =>
                  RunDone(staging[c], r) /\ Pruned(c).run[r] = staging[c].run[r]
  <2>1. 0 \notin fresh[c] =>
          Pruned(c).run = [q \in Runs |-> IF q \in fresh[c] THEN staging[c].run[q] ELSE "none"]
    BY DEF Pruned, EmptyDir
  <2>2. Pruned(c).run[r] = IF 0 \in fresh[c] \/ r \in fresh[c]
                           THEN staging[c].run[r] ELSE "none"
    BY <2>1 DEF Pruned
  <2>3. r \in fresh[c] => RunDone(staging[c], r)
    BY <1>3 DEF SeededTree
  <2>4. r \in Durable(c) => RunDone(Pruned(c), r)
    BY <1>4, <2>2, <2>3 DEF Durable, RunsDone, RunDone
  <2> QED
    BY <2>2, <2>4 DEF RunDone
<1>6. /\ 0 \in fresh[c] => Pruned(c) = staging[c]
      /\ 0 \notin fresh[c] => Pruned(c).meta = NoMeta
  BY DEF Pruned, EmptyDir
<1>7. 0 \in Durable(c) => 0 \in fresh[c]
  BY DEF Durable
<1>8. Plan(c)' = Plan(c) /\ Planned(c)' = Planned(c) /\ Protocols' = Protocols /\ mode' = mode
  BY <1>1 DEF Plan, Planned, Protocols, mode
<1>9. PlansOf(c)'
  <2>1. RunsDone(staging[c]) = {} => (RunsDone(staging[c]))' = {}
    BY <1>1, <1>5 DEF RunsDone, RunDone
  <2> QED
    BY <1>1, <1>3, <1>8, <2>1
       DEF PlansOf, Done, UniformBankDone, ParallelBankDone, StrategyOnlyDone, RunsDone, RunDone
<1>10. (Given(c, canon[c]))' /\ (Given(c, staging[c]))'
  BY <1>1, <1>3, <1>5, <1>8 DEF Given, RunDone
<1>11. (OnSet(canon[c]))' /\ Finishing(c)'
  BY <1>1, <1>3 DEF OnSet, Finishing, RunDone
<1>12. OnSet(Pruned(c))
  BY <1>3, <1>6 DEF SeededTree, OnSet, NoMeta
<1>13. 0 \in Durable(c) =>
         /\ canon[c].meta = NoMeta /\ Pruned(c).meta.kind \in {"bank", "failure"}
         /\ Pruned(c).meta.kind = "bank" => \A r \in Runs : r \in Durable(c)
  <2>1. 0 \in fresh[c] /\ staging[c].meta.kind = "bank" => RunsDone(staging[c]) = Runs
    BY DEF BankInv, Certified
  <2>2. 0 \in fresh[c] => canon[c].meta = NoMeta /\ staging[c].meta.kind \in {"bank", "failure"}
    BY <1>3 DEF SeededTree
  <2> QED
    BY <1>6, <1>7, <2>1, <2>2 DEF Durable
<1>14. 0 \in Durable(c) =>
         \A r \in Runs : RunDone(canon[c], r) => Pruned(c).run[r] = canon[c].run[r]
  BY <1>3, <1>6, <1>7 DEF SeededTree
<1>15. ASSUME NEW r \in Runs, r \in Durable(c)
       PROVE  0 \in Durable(c) \/ canon[c].meta = NoMeta
  BY <1>3, <1>15 DEF Durable, SeededTree
<1>16. MergingTree(c)'
  BY <1>1, <1>2, <1>5, <1>12, <1>13, <1>14, <1>15 DEF MergingTree, OnSet, RunDone
<1> QED
  BY <1>1, <1>9, <1>10, <1>11, <1>16 DEF SetInv

\* Merging a marker: the members merged so far and those still to come are the
\* ones it certifies.
LEMMA MergeBankSet ==
  ASSUME IInv, mode = "uniform", NEW b \in BankIds, SetInv(b), MergeBank(b)
  PROVE  SetInv(b)'
<1> USE DEF IInv
<1>1. /\ host = "merge" /\ host' = "merge" /\ <<b, 0>> \in todo
      /\ UNCHANGED <<arm, proto, plans, staging, ctl>>
      /\ canon[b] \in Directories /\ staging[b] \in Directories
      /\ \A x : <<b, x>> \in todo' <=> <<b, x>> \in todo /\ x # 0
  BY DEF MergeBank, checkpoints, TypeOK
<1>2. /\ canon'[b].run = canon[b].run
      /\ canon'[b].meta = staging[b].meta /\ canon'[b].plan = staging[b].plan
  <2>1. canon'[b] = [canon[b] EXCEPT !.meta = staging[b].meta, !.plan = staging[b].plan]
    BY DEF MergeBank, TypeOK
  <2> QED
    BY <1>1, <2>1 DEF Directories
<1>3. /\ PlansOf(b) /\ Given(b, canon[b]) /\ Given(b, staging[b]) /\ MergingTree(b)
  BY <1>1 DEF SetInv
<1>4. 0 \notin Runs
  BY BanksAssumption DEF Runs
<1>5. Plan(b)' = Plan(b) /\ Planned(b)' = Planned(b) /\ Protocols' = Protocols /\ mode' = mode
  BY <1>1 DEF Plan, Planned, Protocols, mode
<1>6. canon[b].meta = NoMeta /\ ~Done(canon[b])
  BY <1>1, <1>3 DEF MergingTree, Done, UniformBankDone, NoMeta
<1>7. PlansOf(b)'
  BY <1>1, <1>2, <1>3, <1>5, <1>6 DEF PlansOf, RunsDone, RunDone
<1>8. (Given(b, canon[b]))' /\ (Given(b, staging[b]))'
  BY <1>1, <1>2, <1>3, <1>5 DEF Given, RunDone
<1>9. (OnSet(canon[b]))'
  BY <1>1, <1>2, <1>3 DEF MergingTree, OnSet, RunDone
<1>10. Finishing(b)'
  BY <1>1, <1>2, <1>3, <1>4 DEF MergingTree, Finishing, RunDone
<1>11. MergingTree(b)'
  BY <1>1, <1>2, <1>3 DEF MergingTree, OnSet, RunDone
<1> QED
  BY <1>1, <1>7, <1>8, <1>9, <1>10, <1>11 DEF SetInv

\* Merging a member: the marker beside it, if there is one, certifies it.
LEMMA MergeMemberSet ==
  ASSUME IInv, mode = "uniform", NEW b \in BankIds, NEW r \in Runs, SetInv(b), MergeMember(b, r)
  PROVE  SetInv(b)'
<1> USE DEF IInv
<1>1. /\ host = "merge" /\ host' = "merge" /\ <<b, 0>> \notin todo /\ <<b, r>> \in todo
      /\ UNCHANGED <<arm, proto, plans, staging, ctl>>
      /\ canon[b] \in Directories /\ staging[b] \in Directories
      /\ \A x : <<b, x>> \in todo' <=> <<b, x>> \in todo /\ x # r
  BY DEF MergeMember, checkpoints, TypeOK
<1>2. /\ canon'[b].meta = canon[b].meta /\ canon'[b].plan = canon[b].plan
      /\ \A q \in Runs : canon'[b].run[q] = IF q = r THEN staging[b].run[r] ELSE canon[b].run[q]
  <2>1. canon'[b] = [canon[b] EXCEPT !.run[r] = staging[b].run[r]]
    BY DEF MergeMember, TypeOK
  <2> QED
    BY <1>1, <2>1 DEF Directories
<1>3. /\ PlansOf(b) /\ Given(b, canon[b]) /\ Given(b, staging[b]) /\ MergingTree(b)
      /\ OnSet(canon[b]) /\ Finishing(b)
  BY <1>1 DEF SetInv
<1>4. RunDone(staging[b], r)
  BY <1>1, <1>3 DEF MergingTree
<1>5. \A q \in Runs : (RunDone(canon[b], q))' <=> q = r \/ RunDone(canon[b], q)
  BY <1>2, <1>4 DEF RunDone
<1>6. Plan(b)' = Plan(b) /\ Planned(b)' = Planned(b) /\ Protocols' = Protocols /\ mode' = mode
  BY <1>1 DEF Plan, Planned, Protocols, mode
<1>7. PlansOf(b)'
  <2>1. (RunsDone(staging[b]))' = RunsDone(staging[b]) /\ r \in RunsDone(staging[b])
    BY <1>1, <1>4 DEF RunsDone, RunDone
  <2>2. RunsDone(canon[b]) = Runs => (RunsDone(canon[b]))' = Runs
    BY <1>5 DEF RunsDone
  <2>3. Done(canon[b]) => (Done(canon[b]))'
    BY <1>2, <1>6, <2>2 DEF Done, UniformBankDone
  <2> QED
    BY <1>1, <1>3, <1>6, <2>1, <2>3 DEF PlansOf
<1>8. (Given(b, canon[b]))'
  BY <1>2, <1>3, <1>4, <1>5, <1>6 DEF Given
<1>9. (Given(b, staging[b]))'
  BY <1>1, <1>3, <1>6 DEF Given, RunDone
<1>10. canon[b].meta # NoMeta =>
         canon[b].meta = staging[b].meta /\ canon[b].plan = staging[b].plan
  BY <1>1, <1>3 DEF MergingTree
<1>11. (OnSet(canon[b]))'
  <2> SUFFICES ASSUME canon[b].meta.kind = "bank"
               PROVE  /\ Len(canon[b].meta.assigned) = Branches
                      /\ \A q \in Runs : (RunDone(canon[b], q))' =>
                           canon'[b].run[q] = canon[b].plan[1][canon[b].meta.assigned[q]]
    BY <1>2 DEF OnSet
  <2>1. canon[b].meta = staging[b].meta /\ canon[b].plan = staging[b].plan
    BY <1>10 DEF NoMeta
  <2>2. OnSet(staging[b])
    BY <1>3 DEF MergingTree
  <2> QED
    BY <1>2, <1>3, <1>4, <1>5, <2>1, <2>2 DEF OnSet
<1>12. Finishing(b)'
  BY <1>1, <1>2, <1>3, <1>5 DEF Finishing
<1>13. MergingTree(b)'
  BY <1>1, <1>2, <1>3, <1>5 DEF MergingTree, OnSet, RunDone
<1> QED
  BY <1>1, <1>7, <1>8, <1>9, <1>11, <1>12, <1>13 DEF SetInv

\* The cleanup takes a plan only when its marker, and with it the whole bank, is
\* in the results tree.
LEMMA CleanupSet ==
  ASSUME IInv, mode = "uniform", NEW c \in BankIds, SetInv(c), Cleanup
  PROVE  SetInv(c)'
<1> USE DEF IInv
<1>1. /\ host = "merge" /\ host' = "down" /\ todo = {} /\ todo' = {}
      /\ UNCHANGED <<arm, proto, canon, ctl>> /\ staging'[c] = EmptyDir
      /\ \A p \in Protocols : plans'[c][p] = CleanPlan(c, p)
  BY DEF Cleanup
<1>2. /\ PlansOf(c) /\ Given(c, canon[c]) /\ OnSet(canon[c]) /\ Finishing(c)
  BY <1>1 DEF SetInv
<1>3. Protocols' = Protocols /\ mode' = mode /\ proto \in Protocols
  BY <1>1 DEF Protocols, mode, TypeOK
<1>4. /\ Plan(c)' # <<>> => Plan(c)' = Plan(c) /\ Planned(c)' = Planned(c)
      /\ Plan(c)' = <<>> => Plan(c) = <<>> \/ canon[c].meta # NoMeta
  BY <1>1, <1>3 DEF Plan, Planned, CleanPlan
<1>5. canon[c].meta # NoMeta => Done(canon[c])
  BY <1>1, <1>2, MarkedIsDone DEF Done
<1>6. (RunsDone(staging[c]))' = {} /\ \A r \in Runs : ~(RunDone(staging[c], r))'
  BY <1>1, EmptyShape DEF RunsDone, RunDone
<1>7. PlansOf(c)'
  <2>1. \A p \in Protocols : p > proto => plans'[c][p] = <<>>
    BY <1>1, <1>2 DEF PlansOf, CleanPlan
  <2>2. Done(canon[c])' <=> Done(canon[c])
    BY <1>1, <1>3 DEF Done, UniformBankDone, ParallelBankDone, StrategyOnlyDone, RunsDone, RunDone
  <2>3. RunsDone(canon[c])' = RunsDone(canon[c])
    BY <1>1 DEF RunsDone, RunDone
  <2> QED
    BY <1>1, <1>2, <1>3, <1>4, <1>5, <1>6, <2>1, <2>2, <2>3 DEF PlansOf
<1>8. (Given(c, canon[c]))' /\ (Given(c, staging[c]))'
  BY <1>1, <1>2, <1>4, <1>6 DEF Given, RunDone
<1>9. (OnSet(canon[c]))' /\ Finishing(c)'
  BY <1>1, <1>2 DEF OnSet, Finishing, RunDone
<1> QED
  BY <1>1, <1>7, <1>8, <1>9 DEF SetInv

\* A kill that leaves nothing half merged loses the staging tree and no plan.
LEMMA KilledSet ==
  ASSUME IInv, mode = "uniform", NEW c \in BankIds, SetInv(c), Killed, cuts' = 0
  PROVE  SetInv(c)'
<1> USE DEF IInv
<1>1. /\ host # "down" /\ host' = "down" /\ todo' = {}
      /\ UNCHANGED <<arm, proto, canon, plans>> /\ staging'[c] = EmptyDir
      /\ ctl'[c] = "closed"
  BY DEF Killed, Closed, checkpoints
<1>2. host = "merge" => todo = {}
  BY BanksAssumption DEF Killed, TypeOK
<1>3. /\ PlansOf(c) /\ Given(c, canon[c]) /\ OnSet(canon[c]) /\ Finishing(c)
  BY DEF SetInv
<1>4. \A x \in Runs \cup {0} : <<c, x>> \notin todo
  BY <1>2 DEF SetInv
<1>5. Plan(c)' = Plan(c) /\ Planned(c)' = Planned(c) /\ Protocols' = Protocols /\ mode' = mode
  BY <1>1 DEF Plan, Planned, Protocols, mode
<1>6. (RunsDone(staging[c]))' = {} /\ \A r \in Runs : ~(RunDone(staging[c], r))'
  BY <1>1, EmptyShape DEF RunsDone, RunDone
<1>7. PlansOf(c)'
  BY <1>1, <1>3, <1>5, <1>6
     DEF PlansOf, Done, UniformBankDone, ParallelBankDone, StrategyOnlyDone, RunsDone, RunDone
<1>8. (Given(c, canon[c]))' /\ (Given(c, staging[c]))'
  BY <1>1, <1>3, <1>5, <1>6 DEF Given, RunDone
<1>9. (OnSet(canon[c]))' /\ Finishing(c)'
  BY <1>1, <1>3, <1>4 DEF OnSet, Finishing, RunDone
<1> QED
  BY <1>1, <1>7, <1>8, <1>9 DEF SetInv

\* An edited protocol has no plans yet, and an archived bank no members.
LEMMA OperatorSet ==
  ASSUME IInv, mode = "uniform", NEW c \in BankIds, SetInv(c),
         EditProtocol \/ \E b \in BankIds : Archive(b)
  PROVE  SetInv(c)'
<1> USE DEF IInv
<1>1. /\ host = "down" /\ UNCHANGED <<arm, plans, staging, fresh, host, ctl, todo>>
      /\ ctl[c] = "closed" /\ staging[c] = EmptyDir
  BY DEF EditProtocol, Archive, checkpoints, SetInv, QuietHost
<1>2. /\ PlansOf(c) /\ Given(c, canon[c]) /\ OnSet(canon[c]) /\ Finishing(c)
      /\ \A x \in Runs \cup {0} : <<c, x>> \notin todo
  BY <1>1 DEF SetInv
<1>3. Protocols' = Protocols /\ mode' = mode
  BY <1>1 DEF Protocols, mode
<1>4. (RunsDone(staging[c]))' = {} /\ \A r \in Runs : ~(RunDone(staging[c], r))'
  BY <1>1, EmptyShape DEF RunsDone, RunDone
<1>5. (Given(c, staging[c]))'
  BY <1>4 DEF Given
<1>6. CASE EditProtocol
  <2>1. /\ proto' = proto + 1 /\ canon' = canon /\ proto < arm.edits
        /\ arm.edits \in Nat /\ proto \in 0..arm.edits
    BY <1>6, BanksAssumption DEF EditProtocol, TypeOK, Protocols, ArmRecords
  <2>2. proto' \in Protocols /\ proto' > proto
    BY <2>1 DEF Protocols
  <2>3. Plan(c)' = <<>>
    BY <1>1, <1>2, <2>2 DEF Plan, PlansOf
  <2>4. \A p \in Protocols : p > proto' => p > proto
    BY <2>1 DEF Protocols
  <2>5. proto' # 0
    BY <2>1
  <2>6. PlansOf(c)'
    BY <1>1, <1>2, <1>3, <2>4, <2>5 DEF PlansOf
  <2>7. (Given(c, canon[c]))' /\ (OnSet(canon[c]))' /\ Finishing(c)'
    BY <1>1, <1>2, <2>1, <2>3 DEF Given, OnSet, Finishing, RunDone
  <2> QED
    BY <1>1, <1>2, <1>5, <2>6, <2>7 DEF SetInv
<1>7. CASE \E b \in BankIds : Archive(b)
  <2>1. proto' = proto /\ canon'[c] \in {canon[c], EmptyDir}
    BY <1>7 DEF Archive, TypeOK
  <2>2. Plan(c)' = Plan(c) /\ Planned(c)' = Planned(c)
    BY <1>1, <2>1 DEF Plan, Planned
  <2>3. CASE canon'[c] = canon[c]
    BY <1>1, <2>1, <2>3, SetFrame
  <2>4. CASE canon'[c] = EmptyDir
    <3>1. /\ (RunsDone(canon[c]))' = {} /\ \A r \in Runs : ~(RunDone(canon[c], r))'
          /\ canon'[c].meta = NoMeta /\ NoMeta.kind = "none"
      BY <2>4, EmptyShape DEF RunsDone, RunDone
    <3>2. PlansOf(c)'
      BY <1>1, <1>2, <1>3, <1>4, <2>1, <3>1 DEF PlansOf
    <3>3. (Given(c, canon[c]))' /\ (OnSet(canon[c]))' /\ Finishing(c)'
      BY <3>1 DEF Given, OnSet, Finishing
    <3> QED
      BY <1>1, <1>2, <1>5, <3>2, <3>3 DEF SetInv
  <2> QED
    BY <2>1, <2>3, <2>4
<1> QED
  BY <1>6, <1>7

LEMMA StrategyInit == Init => StrategyInv
<1> SUFFICES ASSUME Init, NEW b \in BankIds
             PROVE  SetInv(b)
  BY DEF StrategyInv
<1>1. /\ canon[b] = EmptyDir /\ staging[b] = EmptyDir /\ ctl[b] = "closed"
      /\ todo = {} /\ host = "down" /\ plans[b] = [p \in Protocols |-> <<>>]
  BY DEF Init
<1>2. PlansOf(b)
  BY <1>1, EmptyShape DEF PlansOf
<1> QED
  BY <1>1, <1>2, EmptyShape DEF SetInv, Given, OnSet, Finishing

\* Whatever runs, fails, is restarted or edited; only a merge killed halfway ends it.
LEMMA StrategyStep == IInv /\ StrategyInv /\ [Next]_vars => StrategyInv'
<1> SUFFICES ASSUME IInv, StrategyInv, [Next]_vars, WholeMerges'
             PROVE  \A c \in BankIds : SetInv(c)'
  BY DEF StrategyInv
<1>1. arm' = arm /\ cuts' \in {cuts, cuts + 1}
  <2>1. ASSUME NEW b \in BankIds, Controller(b)
        PROVE  arm' = arm /\ cuts' = cuts
    BY <2>1 DEF Controller, AdmitParallel, AdmitUniform, RunPlanner, PlannerFailed, StrategyOnly,
         LaunchExecutors, CertifyParallel, PublishStrategies, LeaveIncomplete, CertifyUniform,
         FailBank, BankStep
  <2>2. ASSUME NEW b \in BankIds, NEW r \in Runs, Task(b, r)
        PROVE  arm' = arm /\ cuts' = cuts
    BY <2>2 DEF Task, AdmitMember, SolveMember, WriteMember, FailMember, TaskStep
  <2>3. ASSUME \/ Start \/ ContainerEnds \/ Trap \/ Killed \/ EditProtocol
               \/ \E b \in BankIds : Archive(b)
        PROVE  arm' = arm /\ cuts' \in {cuts, cuts + 1}
    BY <2>3 DEF Start, ContainerEnds, Trap, Cleanup, MergeBank, MergeMember, Killed, EditProtocol,
                Archive
  <2>4. CASE UNCHANGED vars
    BY <2>4 DEF vars
  <2> QED
    BY <2>1, <2>2, <2>3, <2>4 DEF Next
<1>2. mode = "uniform" /\ cuts = 0 /\ cuts' = 0
  BY <1>1, BanksAssumption DEF WholeMerges, mode, IInv, TypeOK
<1>3. \A c \in BankIds : SetInv(c)
  BY <1>2 DEF StrategyInv, WholeMerges
<1>4. ASSUME NEW b \in BankIds, Controller(b), NEW c \in BankIds
      PROVE  SetInv(c)'
  <2>1. SetInv(b)' /\ UNCHANGED <<todo, cuts>>
    BY <1>2, <1>3, <1>4, ControllerSet
  <2>2. CASE c # b
    BY <1>3, <1>4, <2>1, <2>2, ControllerFrame, SetFrame
  <2> QED
    BY <2>1, <2>2
<1>5. ASSUME NEW b \in BankIds, NEW r \in Runs, Task(b, r), NEW c \in BankIds
      PROVE  SetInv(c)'
  <2>1. SetInv(b)' /\ UNCHANGED <<todo, cuts>>
    BY <1>2, <1>3, <1>5, TaskSet
  <2>2. CASE c # b
    BY <1>3, <1>5, <2>1, <2>2, TaskBank, SetFrame
  <2> QED
    BY <2>1, <2>2
<1>6. ASSUME NEW b \in BankIds, MergeBank(b), NEW c \in BankIds
      PROVE  SetInv(c)'
  <2>1. CASE c = b
    BY <1>2, <1>3, <1>6, <2>1, MergeBankSet
  <2>2. CASE c # b
    <3>1. /\ UNCHANGED <<arm, proto, host, staging, plans, ctl, fresh>> /\ canon'[c] = canon[c]
          /\ \A x : <<c, x>> \in todo' <=> <<c, x>> \in todo
      BY <1>6, <2>2 DEF MergeBank, checkpoints, IInv, TypeOK
    <3> QED
      BY <1>3, <3>1, SetFrame
  <2> QED
    BY <2>1, <2>2
<1>7. ASSUME NEW b \in BankIds, NEW r \in Runs, MergeMember(b, r), NEW c \in BankIds
      PROVE  SetInv(c)'
  <2>1. CASE c = b
    BY <1>2, <1>3, <1>7, <2>1, MergeMemberSet
  <2>2. CASE c # b
    <3>1. /\ UNCHANGED <<arm, proto, host, staging, plans, ctl, fresh>> /\ canon'[c] = canon[c]
          /\ \A x : <<c, x>> \in todo' <=> <<c, x>> \in todo
      BY <1>7, <2>2 DEF MergeMember, checkpoints, IInv, TypeOK
    <3> QED
      BY <1>3, <3>1, SetFrame
  <2> QED
    BY <2>1, <2>2
<1>8. ASSUME NEW c \in BankIds,
             Start \/ ContainerEnds \/ Cleanup \/ Killed \/ EditProtocol \/ \E b \in BankIds : Archive(b)
      PROVE  SetInv(c)'
  BY <1>2, <1>3, <1>8, StartSet, ContainerEndsSet, CleanupSet, KilledSet, OperatorSet
<1>9. ASSUME NEW c \in BankIds, UNCHANGED vars
      PROVE  SetInv(c)'
  BY <1>3, <1>9, SetFrame DEF vars, checkpoints
<1> QED
  BY <1>4, <1>5, <1>6, <1>7, <1>8, <1>9 DEF Next, Trap

LEMMA StrategySets == Spec => []StrategyInv
<1>1. Init => StrategyInv
  BY StrategyInit
<1>2. IInv /\ StrategyInv /\ [Next]_vars => StrategyInv'
  BY StrategyStep
<1> QED
  BY <1>1, <1>2, Inductive, PTL DEF Spec

\* "refusing to mix them with a newly generated strategy set": unless a merge
\* was killed halfway, the members of a certified uniform bank, whichever
\* invocation or protocol each was written under, were given the strategies of
\* the one set in the bank's manifest (solve_uniform_strategy_bank).
THEOREM MembersOfOneSet == Spec => [](cuts = 0 => OneStrategySet)
<1>1. StrategyInv => (cuts = 0 => OneStrategySet)
  <2> SUFFICES ASSUME StrategyInv, cuts = 0, NEW b \in BankIds, mode = "uniform",
                      Done(canon[b]), canon[b].meta.kind = "bank", NEW r \in Runs
               PROVE  canon[b].run[r] = canon[b].plan[1][canon[b].meta.assigned[r]]
    BY DEF OneStrategySet
  <2>1. OnSet(canon[b])
    BY DEF StrategyInv, WholeMerges, SetInv
  <2>2. RunDone(canon[b], r)
    BY DEF Done, UniformBankDone, RunsDone
  <2> QED
    BY <2>1, <2>2 DEF OnSet
<1> QED
  BY <1>1, StrategySets, PTL

\* "a restart spends only on its unfinished members": unless a merge was killed
\* halfway, a listed bank with completed executors still has the plan without
\* which its controller would refuse to go on.
THEOREM RestartsFindThePlan == Spec => [](cuts = 0 => BankResumable)
<1>1. IInv /\ StrategyInv => (cuts = 0 => BankResumable)
  <2> SUFFICES ASSUME IInv, StrategyInv, cuts = 0, NEW b \in BankIds, mode = "uniform",
                      proto = 0, ctl[b] = "pending", Plan(b) = <<>>
               PROVE  RunsDone(staging[b]) = {}
    BY DEF BankResumable
  <2>1. PlansOf(b) /\ SeededTree(b)
    BY DEF StrategyInv, WholeMerges, SetInv, IInv, QuietHost
  <2>2. canon[b].meta.kind = "none"
    BY <2>1 DEF SeededTree, NoMeta
  <2>3. ~Done(canon[b])
    BY <2>2 DEF Done, UniformBankDone
  <2> QED
    BY <2>1, <2>3 DEF PlansOf
<1> QED
  BY <1>1, Inductive, StrategySets, PTL
=============================================================================
