----------------------- MODULE LateIntervention_proofs -----------------------
(***************************************************************************)
(* Proofs about LateIntervention, for every unit, reserve, stopping rule,  *)
(* charge and number of baselines, and any number of kills and cleanups.   *)
(*                                                                         *)
(* The two arms share one workspace name and every cleanup.  That siblings *)
(* agree rests on when the hint arm may meet a baseline of the retained    *)
(* prefix at all: only one that is delivered and cannot start again.       *)
(***************************************************************************)
EXTENDS LateIntervention, BudgetCuts_proofs

Labels == {"solve", "critique", "revise", "wrap_up"}
AllPhases == Seq(PhaseSet(Labels, Sessions \X Nat))

\* What a role has committed; every phase costs something.
Trajectories(role) ==
  {phases \in AllPhases :
     RoleOK(role, phases) /\ \A i \in DOMAIN phases : phases[i].cumulative > 0}

PrefixPhases == Trajectories("prefix")
ControlPhases == Trajectories("control")
HintPhases == Trajectories("hint")

\* The prefixes RetainPrefix accepts
Ended == {phases \in PrefixPhases : RoleEnded(phases, PrefixBudget)}

\* A prefix, and an attempt that has its cuts up to the fork
Joined ==
  {pair \in PrefixPhases \X AllPhases :
     /\ Metered(pair[2])
     /\ \A threshold \in 0..Spent(pair[1]) :
          PhaseAtCut(pair[2], threshold) = PhaseAtCut(pair[1], threshold)}

-----------------------------------------------------------------------------
(***************************************************************************)
(* Trajectories.                                                           *)
(***************************************************************************)
\* What a role spent so far bounds every count of its phases.
LEMMA SpentBounds ==
  ASSUME NEW role, NEW phases \in Trajectories(role)
  PROVE  /\ Spent(phases) \in Nat
         /\ \A i \in DOMAIN phases : phases[i].cumulative <= Spent(phases)
<1>1. phases \in AllPhases /\ Metered(phases)
  BY DEF Trajectories, RoleOK
<1>2. /\ Len(phases) \in Nat /\ DOMAIN phases = 1..Len(phases)
      /\ (phases = <<>> <=> Len(phases) = 0)
  BY <1>1 DEF AllPhases
<1>3. \A i \in DOMAIN phases : phases[i].cumulative \in Nat
  <2> SUFFICES ASSUME NEW i \in DOMAIN phases PROVE phases[i].cumulative \in Nat
    OBVIOUS
  <2>1. phases[i] \in PhaseSet(Labels, Sessions \X Nat)
    BY <1>1 DEF AllPhases
  <2> QED
    BY <2>1 DEF PhaseSet
<1>4. CASE phases = <<>>
  BY <1>2, <1>4 DEF Spent
<1>5. CASE phases # <<>>
  <2>1. Len(phases) \in DOMAIN phases
    BY <1>2, <1>5
  <2>2. Spent(phases) = phases[Len(phases)].cumulative
    BY <1>5 DEF Spent
  <2>3. \A i \in DOMAIN phases : i <= Len(phases)
    BY <1>2
  <2> QED
    BY <1>1, <1>3, <2>1, <2>2, <2>3 DEF Metered
<1> QED
  BY <1>4, <1>5

\* A role begins with nothing.
LEMMA NothingCommitted ==
  ASSUME NEW role
  PROVE  <<>> \in Trajectories(role)
<1>1. <<>> \in AllPhases /\ DOMAIN <<>> = {}
  BY DEF AllPhases
<1> QED
  BY <1>1 DEF Trajectories, RoleOK, Metered

\* _run_sequential_role commits its phases in order and counts upwards.
LEMMA CommitKeepsTrajectory ==
  ASSUME NEW role \in Sessions, NEW phases \in Trajectories(role),
         NEW initial \in Labels, NEW budget,
         NEW phase \in NextPhases(role, phases, initial, budget)
  PROVE  Append(phases, phase) \in Trajectories(role) /\ Append(phases, phase) # <<>>
<1> DEFINE P == PhaseSet(Labels, Sessions \X Nat)
           longer == Append(phases, phase)
           n == Len(phases)
<1>1. phases \in Seq(P) /\ RoleOK(role, phases) /\ Metered(phases)
      /\ \A i \in DOMAIN phases : phases[i].cumulative > 0
  BY DEF Trajectories, AllPhases, RoleOK
<1>2. /\ Spent(phases) \in Nat
      /\ \A i \in DOMAIN phases : phases[i].cumulative <= Spent(phases)
  BY SpentBounds
<1>3. n \in Nat /\ DOMAIN phases = 1..n
  BY <1>1
<1>4. NextLabel(phases, initial, budget) \in Labels
  BY DEF NextLabel, Labels
<1>5. /\ phase.label = NextLabel(phases, initial, budget) /\ phase.text = <<role, n + 1>>
      /\ phase \in [label : {phase.label}, text : {phase.text}, nogap : BOOLEAN,
                    cumulative : {Spent(phases) + cost : cost \in Costs}, exhausted : BOOLEAN]
  BY DEF NextPhases
<1>6. PICK cost \in Costs : phase.cumulative = Spent(phases) + cost
  BY <1>5
<1>7. /\ phase \in P /\ phase.cumulative \in Nat
      /\ phase.cumulative > 0 /\ phase.cumulative >= Spent(phases)
  <2>1. cost \in Nat \ {0}
    BY LateAssumption
  <2>2. <<role, n + 1>> \in Sessions \X Nat
    BY <1>3
  <2>3. Spent(phases) + cost \in Nat /\ Spent(phases) + cost > 0
        /\ Spent(phases) + cost >= Spent(phases)
    BY <1>2, <2>1
  <2> QED
    BY <1>4, <1>5, <1>6, <2>2, <2>3 DEF PhaseSet
<1> HIDE DEF P
<1>8. /\ longer \in Seq(P) /\ Len(longer) = n + 1 /\ DOMAIN longer = 1..(n + 1)
      /\ \A i \in 1..n : longer[i] = phases[i]
      /\ longer[n + 1] = phase
  BY <1>1, <1>7
<1> HIDE DEF longer
<1>9. \A i \in 1..(n + 1) : i \in 1..n \/ i = n + 1
  BY <1>3
<1>10. RoleOK(role, longer)
  <2>1. ASSUME NEW i \in 1..(n + 1), NEW j \in 1..(n + 1), i <= j
        PROVE  longer[i].cumulative <= longer[j].cumulative
    <3>1. CASE j \in 1..n
      BY <1>1, <1>3, <1>8, <2>1, <3>1 DEF Metered
    <3>2. CASE j = n + 1 /\ i = n + 1
      <4>1. longer[i].cumulative \in Nat /\ longer[i] = longer[j]
        BY <1>7, <1>8, <3>2
      <4> QED
        BY <4>1
    <3>3. CASE j = n + 1 /\ i \in 1..n
      <4>1. longer[i].cumulative \in Nat /\ longer[i].cumulative <= Spent(phases)
        <5>1. phases[i] \in P
          BY <1>1, <1>3, <3>3
        <5> QED
          BY <1>2, <1>3, <1>8, <3>3, <5>1 DEF P, PhaseSet
      <4> QED
        BY <1>2, <1>7, <1>8, <3>3, <4>1
    <3> QED
      BY <1>9, <3>1, <3>2, <3>3
  <2>2. ASSUME NEW i \in 1..(n + 1) PROVE longer[i].text = <<role, i>>
    BY <1>1, <1>3, <1>5, <1>8, <1>9 DEF RoleOK
  <2> QED
    BY <1>8, <2>1, <2>2 DEF RoleOK, Metered
<1>11. \A i \in 1..(n + 1) : longer[i].cumulative > 0
  BY <1>1, <1>3, <1>5, <1>7, <1>8, <1>9
<1>12. longer # <<>>
  BY <1>3, <1>8
<1> QED
  BY <1>8, <1>10, <1>11, <1>12 DEF Trajectories, AllPhases, longer, P

\* At the tokens of a whole prefix every cut candidate is within the threshold:
\* the cut there is the proof the retained prefix is recorded with.
LEMMA CutAtFork ==
  ASSUME NEW role, NEW phases \in Trajectories(role)
  PROVE  PhaseAtCut(phases, Spent(phases)) = ProofAtPrefix(phases)
<1>1. Within(phases, Spent(phases)) = DOMAIN phases
  BY SpentBounds DEF Within
<1> QED
  BY <1>1 DEF PhaseAtCut, Snapshot, ProofAtPrefix

\* Delivered joins a prefix with its continuation: still metered, and up to the
\* fork with the cuts of the prefix.
LEMMA ForkIsJoined ==
  ASSUME NEW role, NEW prefix \in PrefixPhases, NEW branch \in Trajectories(role)
  PROVE  <<prefix, prefix \o OffsetPhases(branch, Spent(prefix))>> \in Joined
<1> DEFINE P == PhaseSet(Labels, Sessions \X Nat)
           offset == Spent(prefix)
           tail == OffsetPhases(branch, offset)
           whole == prefix \o tail
           n == Len(prefix)
           m == Len(branch)
<1>1. /\ prefix \in Seq(P) /\ Metered(prefix)
      /\ branch \in Seq(P) /\ Metered(branch)
      /\ \A i \in DOMAIN branch : branch[i].cumulative > 0
  BY DEF PrefixPhases, Trajectories, AllPhases, RoleOK
<1>2. offset \in Nat /\ \A i \in DOMAIN prefix : prefix[i].cumulative <= offset
  BY SpentBounds DEF PrefixPhases
<1>3. /\ Len(tail) = m /\ tail \in Seq(P)
      /\ \A i \in 1..m : tail[i].cumulative > offset
  BY <1>1, <1>2, OffsetBehindFork
<1>4. ASSUME NEW i \in 1..m
      PROVE  tail[i].cumulative = branch[i].cumulative + offset /\ branch[i].cumulative \in Nat
  <2>1. i \in DOMAIN branch /\ branch[i] \in P
    BY <1>1
  <2>2. tail[i] = [branch[i] EXCEPT !.cumulative = @ + offset]
    BY <2>1 DEF OffsetPhases
  <2> QED
    BY <2>1, <2>2 DEF PhaseSet
<1> HIDE DEF offset, tail
<1>5. \A threshold \in 0..offset : PhaseAtCut(whole, threshold) = PhaseAtCut(prefix, threshold)
  <2> SUFFICES ASSUME NEW threshold \in 0..offset
               PROVE  PhaseAtCut(whole, threshold) = PhaseAtCut(prefix, threshold)
    OBVIOUS
  <2>1. threshold \in Int /\ threshold <= offset
    BY <1>2
  <2> QED
    BY <1>1, <1>2, <2>1, ForkKeepsPrefixCuts DEF tail
<1> HIDE DEF P
<1>6. /\ n \in Nat /\ m \in Nat /\ DOMAIN prefix = 1..n /\ DOMAIN branch = 1..m
      /\ \A i \in 1..n : prefix[i].cumulative \in Nat
  <2>1. \A i \in 1..n : prefix[i] \in P
    BY <1>1
  <2> QED
    BY <1>1, <2>1 DEF P, PhaseSet
<1>7. /\ whole \in Seq(P) /\ DOMAIN whole = 1..(n + m)
      /\ \A i \in 1..n : whole[i] = prefix[i]
  BY <1>1, <1>3, <1>6
<1>8. \A i \in 1..(n + m) : i > n => whole[i] = tail[i - n]
  BY <1>1, <1>3, <1>6
<1> HIDE DEF whole
<1>9. Metered(whole)
  <2> SUFFICES ASSUME NEW i \in 1..(n + m), NEW j \in 1..(n + m), i <= j
               PROVE  whole[i].cumulative <= whole[j].cumulative
    BY <1>7 DEF Metered
  <2>1. CASE j <= n
    <3>1. i \in 1..n /\ j \in 1..n
      BY <1>6, <2>1
    <3> QED
      BY <1>1, <1>6, <1>7, <3>1 DEF Metered
  <2>2. CASE i <= n /\ j > n
    <3>1. i \in 1..n /\ j - n \in 1..m /\ whole[j] = tail[j - n]
      BY <1>6, <1>8, <2>2
    <3>2. tail[j - n].cumulative > offset /\ tail[j - n].cumulative \in Nat
      BY <1>2, <1>3, <1>4, <3>1
    <3> QED
      BY <1>2, <1>6, <1>7, <3>1, <3>2
  <2>3. CASE i > n
    <3>1. /\ i - n \in 1..m /\ j - n \in 1..m /\ i - n <= j - n
          /\ whole[i] = tail[i - n] /\ whole[j] = tail[j - n]
      BY <1>6, <1>8, <2>3
    <3>2. branch[i - n].cumulative <= branch[j - n].cumulative
      BY <1>1, <1>6, <3>1 DEF Metered
    <3>3. /\ tail[i - n].cumulative = branch[i - n].cumulative + offset
          /\ tail[j - n].cumulative = branch[j - n].cumulative + offset
          /\ branch[i - n].cumulative \in Nat /\ branch[j - n].cumulative \in Nat
      BY <1>4, <3>1
    <3>4. branch[i - n].cumulative + offset <= branch[j - n].cumulative + offset
      BY <1>2, <3>2, <3>3
    <3>5. /\ whole[i].cumulative = branch[i - n].cumulative + offset
          /\ whole[j].cumulative = branch[j - n].cumulative + offset
      BY <3>1, <3>3
    <3> QED
      BY <3>4, <3>5
  <2>4. i <= n \/ i > n
    BY <1>6
  <2>5. j <= n \/ j > n
    BY <1>6
  <2> QED
    BY <2>1, <2>2, <2>3, <2>4, <2>5
<1> QED
  BY <1>5, <1>7, <1>9 DEF Joined, AllPhases, P, whole, tail, offset

-----------------------------------------------------------------------------
(***************************************************************************)
(* The inductive invariant.                                                *)
(***************************************************************************)
Files == Sessions \cup None \cup Partial
Places == {"idle", "prefix", "fork", "control", "copy", "branch", "merge"}
AtMostOne(D) == {<<>>} \cup {<<d>> : d \in D}

Bases == [native : 0..MaxRuns, prefix : PrefixPhases, forked : BOOLEAN,
          control : ControlPhases, prepared : BOOLEAN]
Hints == [from : 0..MaxRuns, named : BOOLEAN, forked : BOOLEAN, saw : SUBSET Files,
          branch : HintPhases, prepared : BOOLEAN]
Sources == AtMostOne([native : Natives, phases : PrefixPhases, spent : Nat,
                      work : SUBSET Files])
Attempts == AtMostOne([native : Natives, prefix : PrefixPhases, saw : SUBSET Files,
                       phases : AllPhases])

Shape ==
  /\ at \in [ArmNames -> Places]
  /\ base \in Bases /\ hint \in Hints /\ source \in Sources
  /\ w \in [Natives -> SUBSET Files]
  /\ result \in [ArmNames -> Attempts]
  /\ runs \in 0..MaxRuns

\* The native session of the retained prefix
Origin == source[1].native

\* The baseline is delivered: what its checkpoint still holds is for a cleanup.
BaselineOver == result["baseline"] # <<>> /\ at["baseline"] = "idle"

\* The hint arm has left traces.
Begun == Mine \/ result["hint"] # <<>> \/ at["hint"] # "idle"

\* Of a baseline: before its prefix is retained only the prefix has written into
\* its workspace; what follows belongs to the retained prefix, an ended one; and
\* its workspace goes only with a cleanup.
BaselineInv ==
  /\ base.native <= runs /\ (base.native = 0 => base = NoBase)
  /\ at["baseline"] # "idle" => base.native # 0 /\ result["baseline"] = <<>>
  /\ at["baseline"] \in {"fork", "control", "merge"} \/ base.prepared => RetainsOwn
  /\ RetainsOwn => base.prefix = source[1].phases
  /\ RetainsOwn => base.prefix \in Ended
  /\ base.native # 0 /\ ~RetainsOwn =>
       w[base.native] = IF base.prefix = <<>> THEN {} ELSE {"prefix"}
  /\ base.native # 0 => (w[base.native] = None => BaselineOver)

SourceInv == Retained => Origin <= runs /\ source[1].work = {"prefix"}

\* Of a hint arm: it begins only once a prefix is retained, from the native
\* session of that prefix, and never beside a baseline of it that could go on.
HintInv ==
  /\ Begun => Retained
  /\ Mine => hint.from = Origin
  /\ hint.named \/ hint.forked \/ hint.prepared => Mine
  /\ at["hint"] # "idle" => Mine /\ result["hint"] = <<>>
  /\ at["hint"] \in {"branch", "merge"} \/ hint.prepared => hint.forked
  /\ Begun /\ base.native = Origin => BaselineOver

\* Of the restored workspace: until the fork it has what the prefix left, perhaps
\* not all of it, or is gone.
CopyInv ==
  /\ Mine /\ ~hint.forked => w[Origin] = None \/ PrefixOnly(w[Origin])
  /\ hint.forked => PrefixOnly(hint.saw)

\* What the files of a workspace may be
FilesInv ==
  /\ \A n \in Natives : w[n] = None \/ w[n] \subseteq Sessions \cup Partial
  /\ hint.saw \subseteq Sessions \cup Partial

ResultInv ==
  \A arm \in ArmNames : result[arm] # <<>> =>
    /\ Retained /\ result[arm][1].native = Origin
    /\ result[arm][1].prefix = source[1].phases
    /\ PrefixOnly(result[arm][1].saw)
    /\ <<source[1].phases, result[arm][1].phases>> \in Joined

IInv ==
  /\ Shape /\ BaselineInv /\ SourceInv /\ HintInv /\ CopyInv /\ FilesInv /\ ResultInv

-----------------------------------------------------------------------------
(***************************************************************************)
(* What the invariant says of a state.                                     *)
(***************************************************************************)
\* The states of a workspace the proofs tell apart.
LEMMA WorkspaceStates ==
  /\ {} # None /\ {"prefix"} # None /\ Partial # None
  /\ {} # {"prefix"} /\ {} \cup {"prefix"} = {"prefix"}
  /\ {"prefix"} \subseteq Sessions /\ Sessions \subseteq Files
  /\ None \subseteq Files /\ Partial \subseteq Files
  /\ \A files \in SUBSET (Sessions \cup Partial) : files # None
BY DEF None, Partial, Sessions, Files

LEMMA RetainedSource ==
  ASSUME Shape, Retained
  PROVE  /\ Origin \in Natives /\ Origin # 0
         /\ source[1].phases \in PrefixPhases /\ source[1].work \in SUBSET Files
<1>1. PICK retained \in [native : Natives, phases : PrefixPhases, spent : Nat,
                          work : SUBSET Files] : source = <<retained>>
  BY DEF Shape, Sources, AtMostOne, Retained
<1>2. source[1] = retained
  BY <1>1
<1>3. 0 \notin Natives
  BY LateAssumption DEF Natives
<1> QED
  BY <1>1, <1>2, <1>3 DEF Origin

\* A hint arm and a baseline that can still take a step are never of one prefix.
LEMMA HintAlone ==
  ASSUME IInv, Begun, at["baseline"] # "idle"
  PROVE  base.native # Origin /\ Retained
BY DEF IInv, HintInv, BaselineOver

LEMMA InvariantTypes ==
  ASSUME IInv
  PROVE  TypeOK
<1>1. /\ at \in [ArmNames -> Places]
      /\ base \in Bases /\ hint \in Hints /\ source \in Sources
      /\ w \in [Natives -> SUBSET Files] /\ result \in [ArmNames -> Attempts]
      /\ runs \in 0..MaxRuns
  BY DEF IInv, Shape
<1>2. /\ base.native \in 0..MaxRuns /\ base.forked \in BOOLEAN /\ base.prepared \in BOOLEAN
      /\ base.prefix \in PrefixPhases /\ base.control \in ControlPhases
  BY <1>1 DEF Bases
<1>3. /\ hint.from \in 0..MaxRuns /\ hint.named \in BOOLEAN /\ hint.forked \in BOOLEAN
      /\ hint.prepared \in BOOLEAN /\ hint.branch \in HintPhases
  BY <1>1 DEF Hints
<1>4. RoleOK("prefix", base.prefix) /\ RoleOK("control", base.control)
      /\ RoleOK("hint", hint.branch)
  BY <1>2, <1>3 DEF PrefixPhases, ControlPhases, HintPhases, Trajectories
<1>5. Retained => /\ source[1].native \in Natives /\ source[1].work \subseteq Sessions
                  /\ RoleOK("prefix", source[1].phases)
  <2> SUFFICES ASSUME Retained
               PROVE  /\ source[1].native \in Natives /\ source[1].work \subseteq Sessions
                      /\ RoleOK("prefix", source[1].phases)
    OBVIOUS
  <2>1. source[1].native \in Natives /\ source[1].phases \in PrefixPhases
    BY RetainedSource DEF IInv, Origin
  <2>2. source[1].work \subseteq Sessions
    BY WorkspaceStates DEF IInv, SourceInv
  <2> QED
    BY <2>1, <2>2 DEF PrefixPhases, Trajectories
<1>6. ASSUME NEW arm \in ArmNames, result[arm] # <<>>
      PROVE  Metered(result[arm][1].phases)
  <2>1. <<source[1].phases, result[arm][1].phases>> \in Joined
    BY <1>6 DEF IInv, ResultInv
  <2> QED
    BY <2>1 DEF Joined
<1>7. /\ \A n \in Natives : w[n] = None \/ w[n] \subseteq Sessions \cup Partial
      /\ hint.saw \subseteq Sessions \cup Partial
  BY DEF IInv, FilesInv
<1> QED
  BY <1>1, <1>2, <1>3, <1>4, <1>5, <1>6, <1>7 DEF TypeOK, Places

LEMMA InvariantAgrees ==
  ASSUME IInv
  PROVE  SiblingsAgree
<1> SUFFICES ASSUME result["baseline"] # <<>>, result["hint"] # <<>>
             PROVE  /\ result["baseline"][1].native = result["hint"][1].native
                    /\ PrefixOnly(result["hint"][1].saw)
                    /\ PhaseAtCut(result["hint"][1].phases, Spent(result["baseline"][1].prefix))
                         = ProofAtPrefix(result["baseline"][1].prefix)
                    /\ \A threshold \in 0..Spent(result["baseline"][1].prefix) :
                         PhaseAtCut(result["baseline"][1].phases, threshold)
                           = PhaseAtCut(result["hint"][1].phases, threshold)
  BY DEF SiblingsAgree
<1> DEFINE prefix == source[1].phases
           control == result["baseline"][1]
           treated == result["hint"][1]
<1>1. /\ Retained /\ control.native = Origin /\ treated.native = Origin
      /\ control.prefix = prefix
      /\ <<prefix, control.phases>> \in Joined /\ <<prefix, treated.phases>> \in Joined
  BY DEF IInv, ResultInv, ArmNames
<1>2. PrefixOnly(treated.saw)
  BY DEF IInv, ResultInv, ArmNames
<1>3. prefix \in PrefixPhases
  BY <1>1, RetainedSource DEF IInv
<1> HIDE DEF prefix, control, treated
<1>4. Spent(prefix) \in Nat /\ PhaseAtCut(prefix, Spent(prefix)) = ProofAtPrefix(prefix)
  BY <1>3, SpentBounds, CutAtFork DEF PrefixPhases
<1>5. \A threshold \in 0..Spent(prefix) :
        /\ PhaseAtCut(control.phases, threshold) = PhaseAtCut(prefix, threshold)
        /\ PhaseAtCut(treated.phases, threshold) = PhaseAtCut(prefix, threshold)
  BY <1>1 DEF Joined
<1>6. Spent(prefix) \in 0..Spent(prefix)
  BY <1>4
<1> QED
  BY <1>1, <1>2, <1>4, <1>5, <1>6 DEF control, treated

LEMMA InvariantForks ==
  ASSUME IInv
  PROVE  ForksRetained
BY DEF IInv, CopyInv, ForksRetained

LEMMA InitIInv ==
  ASSUME Init
  PROVE  IInv
<1>1. <<>> \in PrefixPhases /\ <<>> \in ControlPhases /\ <<>> \in HintPhases
  BY NothingCommitted DEF PrefixPhases, ControlPhases, HintPhases
<1>2. Shape
  BY <1>1, LateAssumption, WorkspaceStates
     DEF Init, Shape, ArmNames, Places, Bases, Hints, Sources, Attempts, AtMostOne, NoBase,
         NoHint
<1>3. FilesInv
  BY DEF Init, FilesInv, NoHint
<1>4. BaselineInv /\ SourceInv /\ HintInv /\ CopyInv /\ ResultInv
  BY LateAssumption
     DEF Init, BaselineInv, SourceInv, HintInv, CopyInv, ResultInv, ArmNames, NoBase, NoHint,
         Retained, RetainsOwn, Begun, Mine
<1> QED
  BY <1>2, <1>3, <1>4 DEF IInv

-----------------------------------------------------------------------------
(***************************************************************************)
(* The steps of the baseline.                                              *)
(***************************************************************************)
LEMMA StartBaselineKeeps ==
  ASSUME IInv, StartBaseline
  PROVE  IInv'
<1>1. CASE base = NoBase
  <2>1. /\ at["baseline"] = "idle" /\ result["baseline"] = <<>>
        /\ runs < MaxRuns /\ runs' = runs + 1
        /\ base' = [native |-> runs + 1, prefix |-> <<>>, forked |-> FALSE, control |-> <<>>,
                    prepared |-> FALSE]
        /\ w' = [w EXCEPT ![runs + 1] = {}]
        /\ at' = [at EXCEPT !["baseline"] = "prefix"]
        /\ UNCHANGED <<hint, source, result>>
    BY <1>1 DEF StartBaseline, Go, NoBase
  <2>2. runs \in Nat /\ MaxRuns \in Nat /\ runs + 1 \in Natives /\ runs + 1 # 0
        /\ runs + 1 \in 0..MaxRuns
    BY <2>1, LateAssumption DEF IInv, Shape, Natives
  <2>3. /\ w \in [Natives -> SUBSET Files] /\ w'[runs + 1] = {}
        /\ \A n \in Natives : n # runs + 1 => w'[n] = w[n]
    BY <2>1, <2>2 DEF IInv, Shape
  <2>4. Retained => Origin \in Natives /\ Origin # runs + 1 /\ w'[Origin] = w[Origin]
    <3> SUFFICES ASSUME Retained
                 PROVE  Origin \in Natives /\ Origin # runs + 1 /\ w'[Origin] = w[Origin]
      OBVIOUS
    <3>1. Origin \in Natives /\ Origin <= runs
      BY RetainedSource DEF IInv, SourceInv
    <3>2. Origin \in Nat
      BY <3>1, LateAssumption DEF Natives
    <3> QED
      BY <2>2, <2>3, <3>1, <3>2
  <2>5. Shape'
    <3>1. base' \in Bases
      BY <2>1, <2>2, NothingCommitted DEF Bases, PrefixPhases, ControlPhases
    <3>2. w' \in [Natives -> SUBSET Files]
      BY <2>1, <2>2, <2>3
    <3> QED
      BY <2>1, <2>2, <3>1, <3>2 DEF IInv, Shape, ArmNames, Places
  <2>6. BaselineInv'
    BY <2>1, <2>2, <2>3, <2>4, WorkspaceStates
       DEF IInv, Shape, BaselineInv, Retained, RetainsOwn, Origin, NoBase, ArmNames
  <2>7. SourceInv'
    BY <2>1, <2>2, <2>4, LateAssumption DEF IInv, SourceInv, Retained, Origin, Natives
  <2>8. HintInv'
    BY <2>1, <2>4
       DEF IInv, Shape, HintInv, Begun, Mine, Retained, Origin, BaselineOver, ArmNames
  <2>9. CopyInv'
    BY <2>1, <2>4
       DEF IInv, Shape, HintInv, CopyInv, Begun, Mine, Retained, Origin, ArmNames
  <2>10. FilesInv' /\ ResultInv'
    BY <2>1, <2>3 DEF IInv, FilesInv, ResultInv, Retained, Origin
  <2> QED
    BY <2>5, <2>6, <2>7, <2>8, <2>9, <2>10 DEF IInv
<1>2. CASE base # NoBase
  <2>1. /\ at["baseline"] = "idle" /\ result["baseline"] = <<>>
        /\ at' = [at EXCEPT !["baseline"] = "prefix"]
        /\ w[base.native] # None
        /\ UNCHANGED <<runs, base, w, hint, source, result>>
    BY <1>2 DEF StartBaseline, Go, Absent
  <2>2. Shape'
    BY <2>1 DEF IInv, Shape, ArmNames, Places
  <2>3. BaselineInv'
    BY <1>2, <2>1
       DEF IInv, Shape, BaselineInv, Retained, RetainsOwn, Origin, ArmNames, BaselineOver
  <2>4. HintInv' /\ CopyInv'
    BY <2>1
       DEF IInv, Shape, HintInv, CopyInv, Begun, Mine, Retained, Origin, ArmNames,
           BaselineOver
  <2>5. SourceInv' /\ FilesInv' /\ ResultInv'
    BY <2>1 DEF IInv, SourceInv, FilesInv, ResultInv, Retained, Origin
  <2> QED
    BY <2>2, <2>3, <2>4, <2>5 DEF IInv
<1> QED
  BY <1>1, <1>2

LEMMA PrefixPhaseKeeps ==
  ASSUME IInv, PrefixPhase
  PROVE  IInv'
<1>1. PICK phase \in NextPhases("prefix", base.prefix, "solve", PrefixBudget) :
        base' = [base EXCEPT !.prefix = Append(@, phase)]
  BY DEF PrefixPhase
<1>2. /\ at["baseline"] = "prefix" /\ ~RoleEnded(base.prefix, PrefixBudget)
      /\ w' = [w EXCEPT ![base.native] = @ \cup {"prefix"}]
      /\ UNCHANGED <<at, hint, source, result, runs>>
  BY DEF PrefixPhase, Writes
<1>3. /\ base.native \in Natives /\ base.native # 0 /\ result["baseline"] = <<>>
      /\ base \in Bases /\ base.prefix \in PrefixPhases
  <2>1. base.native # 0 /\ result["baseline"] = <<>> /\ base \in Bases
    BY <1>2 DEF IInv, Shape, BaselineInv
  <2> QED
    BY <2>1, LateAssumption DEF Bases, Natives
<1>4. ~RetainsOwn
  BY <1>2 DEF IInv, BaselineInv, Ended
<1>5. base.prepared = FALSE
  BY <1>3, <1>4 DEF IInv, BaselineInv, Bases
<1> DEFINE longer == Append(base.prefix, phase)
<1>6. longer \in PrefixPhases /\ longer # <<>>
  BY <1>3, CommitKeepsTrajectory DEF PrefixPhases, Sessions, Labels
<1> HIDE DEF longer
<1>7. /\ base' \in Bases /\ base'.native = base.native /\ base'.prefix = longer
      /\ base'.prepared = FALSE
  BY <1>1, <1>3, <1>5, <1>6 DEF Bases, longer
<1>8. /\ w \in [Natives -> SUBSET Files] /\ w'[base.native] = w[base.native] \cup {"prefix"}
      /\ \A n \in Natives : n # base.native => w'[n] = w[n]
      /\ w[base.native] # None
  <2>1. w \in [Natives -> SUBSET Files]
    BY DEF IInv, Shape
  <2> QED
    BY <1>2, <1>3, <2>1 DEF IInv, BaselineInv, BaselineOver
<1>9. w'[base.native] = {"prefix"}
  BY <1>3, <1>4, <1>8 DEF IInv, BaselineInv
<1>10. Retained => Origin \in Natives /\ Origin # base.native /\ w'[Origin] = w[Origin]
  BY <1>4, <1>8, RetainedSource DEF IInv, RetainsOwn, Origin
<1>11. Shape'
  <2>1. w' \in [Natives -> SUBSET Files]
    BY <1>2, <1>3, <1>8, WorkspaceStates
  <2> QED
    BY <1>2, <1>7, <2>1 DEF IInv, Shape
<1>12. BaselineInv'
  BY <1>2, <1>3, <1>4, <1>6, <1>7, <1>9, WorkspaceStates
     DEF IInv, BaselineInv, Retained, RetainsOwn, Origin
<1>13. SourceInv'
  BY <1>2 DEF IInv, SourceInv, Retained, Origin
<1>14. HintInv' /\ CopyInv'
  BY <1>2, <1>7, <1>10
     DEF IInv, HintInv, CopyInv, Begun, Mine, Retained, Origin, BaselineOver
<1>15. FilesInv' /\ ResultInv'
  BY <1>2, <1>8, <1>9, WorkspaceStates DEF IInv, FilesInv, ResultInv, Retained, Origin
<1> QED
  BY <1>11, <1>12, <1>13, <1>14, <1>15 DEF IInv

LEMMA RetainPrefixKeeps ==
  ASSUME IInv, RetainPrefix
  PROVE  IInv'
<1>1. /\ at["baseline"] = "prefix" /\ RoleEnded(base.prefix, PrefixBudget)
      /\ UNCHANGED <<base, hint, w, result, runs>>
  BY DEF RetainPrefix
<1>2. /\ base.native \in Natives /\ base.native # 0 /\ result["baseline"] = <<>>
      /\ base \in Bases /\ base.prefix \in PrefixPhases /\ base.prefix \in Ended
  <2>1. base.native # 0 /\ result["baseline"] = <<>> /\ base \in Bases
    BY <1>1 DEF IInv, Shape, BaselineInv
  <2> QED
    BY <1>1, <2>1, LateAssumption DEF Bases, Natives, Ended
<1>3. CASE Retained
  <2>1. /\ source' = source
        /\ at' = [at EXCEPT !["baseline"] = IF RetainsOwn THEN "fork" ELSE "idle"]
    BY <1>3 DEF RetainPrefix, Go
  <2>2. Shape'
    BY <1>1, <2>1 DEF IInv, Shape, ArmNames, Places
  <2>3. BaselineInv'
    BY <1>1, <1>2, <2>1
       DEF IInv, Shape, BaselineInv, Retained, RetainsOwn, Origin, ArmNames, BaselineOver
  <2>4. HintInv' /\ CopyInv'
    BY <1>1, <2>1
       DEF IInv, Shape, HintInv, CopyInv, Begun, Mine, Retained, Origin, ArmNames,
           BaselineOver
  <2>5. SourceInv' /\ FilesInv' /\ ResultInv'
    BY <1>1, <2>1 DEF IInv, SourceInv, FilesInv, ResultInv, Retained, Origin
  <2> QED
    BY <2>2, <2>3, <2>4, <2>5 DEF IInv
<1>4. CASE ~Retained
  <2> DEFINE retained == [native |-> base.native, phases |-> base.prefix,
                          spent |-> Spent(base.prefix), work |-> w[base.native]]
  <2>1. source' = <<retained>> /\ at' = [at EXCEPT !["baseline"] = "fork"]
    BY <1>4 DEF RetainPrefix, Go
  <2>2. Spent(base.prefix) \in Nat
    BY <1>2, SpentBounds DEF PrefixPhases
  <2>3. base.prefix # <<>>
    BY <1>1 DEF RoleEnded, LoopOver
  <2>4. w[base.native] = {"prefix"} /\ base.native <= runs
    BY <1>2, <1>4, <2>3 DEF IInv, BaselineInv, RetainsOwn
  <2>5. /\ retained \in [native : Natives, phases : PrefixPhases, spent : Nat,
                          work : SUBSET Files]
        /\ retained.native = base.native /\ retained.phases = base.prefix
        /\ retained.work = {"prefix"}
    BY <1>2, <2>2, <2>4, WorkspaceStates
  <2> HIDE DEF retained
  <2>6. /\ source' # <<>> /\ source'[1] = retained
        /\ source' \in Sources
    BY <2>1, <2>5 DEF Sources, AtMostOne
  <2>7. /\ ~Mine /\ result["hint"] = <<>> /\ at["hint"] = "idle"
        /\ ~hint.named /\ ~hint.forked /\ ~hint.prepared
    BY <1>4 DEF IInv, HintInv, Begun
  <2>8. Shape'
    BY <1>1, <2>1, <2>6 DEF IInv, Shape, ArmNames, Places
  <2>9. BaselineInv'
    BY <1>1, <1>2, <2>1, <2>4, <2>5, <2>6, WorkspaceStates
       DEF IInv, Shape, BaselineInv, Retained, RetainsOwn, ArmNames, BaselineOver
  <2>10. SourceInv'
    BY <1>1, <2>4, <2>5, <2>6 DEF SourceInv, Retained, Origin
  <2>11. HintInv' /\ CopyInv'
    BY <1>1, <2>1, <2>6, <2>7
       DEF IInv, Shape, HintInv, CopyInv, Begun, Mine, Retained, ArmNames
  <2>12. FilesInv' /\ ResultInv'
    BY <1>1, <1>2, <2>7 DEF IInv, FilesInv, ResultInv, ArmNames
  <2> QED
    BY <2>8, <2>9, <2>10, <2>11, <2>12 DEF IInv
<1> QED
  BY <1>3, <1>4

LEMMA ForkControlKeeps ==
  ASSUME IInv, ForkControl
  PROVE  IInv'
<1>1. /\ at["baseline"] = "fork" /\ base' = [base EXCEPT !.forked = TRUE]
      /\ at' = [at EXCEPT !["baseline"] = "control"]
      /\ UNCHANGED <<hint, source, w, result, runs>>
  BY DEF ForkControl, Go
<1>2. base \in Bases
  BY DEF IInv, Shape
<1>3. /\ base' \in Bases /\ base'.native = base.native /\ base'.prefix = base.prefix
      /\ base'.prepared = base.prepared
  BY <1>1, <1>2 DEF Bases
<1>4. base' # NoBase
  <2>1. base.native # 0
    BY <1>1 DEF IInv, BaselineInv
  <2> QED
    BY <1>3, <2>1 DEF NoBase
<1>5. Shape'
  BY <1>1, <1>3 DEF IInv, Shape, ArmNames, Places
<1>6. BaselineInv'
  BY <1>1, <1>3
     DEF IInv, Shape, BaselineInv, Retained, RetainsOwn, Origin, ArmNames, BaselineOver
<1>7. HintInv' /\ CopyInv'
  BY <1>1, <1>3
     DEF IInv, Shape, HintInv, CopyInv, Begun, Mine, Retained, Origin, ArmNames,
         BaselineOver
<1>8. SourceInv' /\ FilesInv' /\ ResultInv'
  BY <1>1 DEF IInv, SourceInv, FilesInv, ResultInv, Retained, Origin
<1> QED
  BY <1>5, <1>6, <1>7, <1>8 DEF IInv

LEMMA ControlPhaseKeeps ==
  ASSUME IInv, ControlPhase
  PROVE  IInv'
<1>1. PICK phase \in NextPhases("control", base.control, "revise", Unit) :
        base' = [base EXCEPT !.control = Append(@, phase)]
  BY DEF ControlPhase
<1>2. /\ at["baseline"] = "control" /\ w' = [w EXCEPT ![base.native] = @ \cup {"control"}]
      /\ UNCHANGED <<at, hint, source, result, runs>>
  BY DEF ControlPhase, Writes
<1>3. /\ base.native \in Natives /\ base.native # 0 /\ result["baseline"] = <<>>
      /\ base \in Bases /\ base.control \in ControlPhases /\ RetainsOwn
  <2>1. base.native # 0 /\ result["baseline"] = <<>> /\ base \in Bases /\ RetainsOwn
    BY <1>2 DEF IInv, Shape, BaselineInv
  <2> QED
    BY <2>1, LateAssumption DEF Bases, Natives
<1> DEFINE longer == Append(base.control, phase)
<1>4. longer \in ControlPhases
  BY <1>3, CommitKeepsTrajectory DEF ControlPhases, Sessions, Labels
<1> HIDE DEF longer
<1>5. /\ base' \in Bases /\ base'.native = base.native /\ base'.prefix = base.prefix
      /\ base'.prepared = base.prepared
  BY <1>1, <1>3, <1>4 DEF Bases, longer
<1>6. /\ w \in [Natives -> SUBSET Files] /\ w'[base.native] = w[base.native] \cup {"control"}
      /\ \A n \in Natives : n # base.native => w'[n] = w[n]
      /\ w[base.native] # None
  <2>1. w \in [Natives -> SUBSET Files]
    BY DEF IInv, Shape
  <2> QED
    BY <1>2, <1>3, <2>1 DEF IInv, BaselineInv, BaselineOver
<1>7. /\ w'[base.native] \in SUBSET (Sessions \cup Partial) /\ w'[base.native] # None
      /\ w'[base.native] \in SUBSET Files
  <2>1. w'[base.native] \in SUBSET (Sessions \cup Partial)
    BY <1>3, <1>6 DEF IInv, FilesInv, Sessions
  <2> QED
    BY <2>1, WorkspaceStates
<1>8. ~Begun
  BY <1>2, <1>3, HintAlone DEF RetainsOwn, Origin
<1>9. Shape'
  <2>1. w' \in [Natives -> SUBSET Files]
    BY <1>2, <1>6, <1>7
  <2> QED
    BY <1>2, <1>5, <2>1 DEF IInv, Shape
<1>10. BaselineInv'
  BY <1>2, <1>3, <1>5, <1>7 DEF IInv, BaselineInv, Retained, RetainsOwn, Origin
<1>11. HintInv' /\ CopyInv'
  BY <1>2, <1>8 DEF IInv, HintInv, CopyInv, Begun, Mine
<1>12. FilesInv'
  BY <1>2, <1>6, <1>7 DEF IInv, FilesInv
<1>13. SourceInv' /\ ResultInv'
  BY <1>2 DEF IInv, SourceInv, ResultInv, Retained, Origin
<1> QED
  BY <1>9, <1>10, <1>11, <1>12, <1>13 DEF IInv

LEMMA WriteBaselineKeeps ==
  ASSUME IInv, WriteBaseline
  PROVE  IInv'
<1>1. /\ at["baseline"] = "control" /\ base' = [base EXCEPT !.prepared = TRUE]
      /\ at' = [at EXCEPT !["baseline"] = "merge"]
      /\ UNCHANGED <<hint, source, w, result, runs>>
  BY DEF WriteBaseline, Go
<1>2. base \in Bases /\ base.native # 0 /\ result["baseline"] = <<>> /\ RetainsOwn
  BY <1>1 DEF IInv, Shape, BaselineInv
<1>3. base' \in Bases /\ base'.native = base.native /\ base'.prefix = base.prefix
  BY <1>1, <1>2 DEF Bases
<1>4. Shape'
  BY <1>1, <1>3 DEF IInv, Shape, ArmNames, Places
<1>5. BaselineInv'
  BY <1>1, <1>2, <1>3
     DEF IInv, Shape, BaselineInv, Retained, RetainsOwn, Origin, ArmNames, BaselineOver
<1>6. HintInv' /\ CopyInv'
  BY <1>1, <1>3
     DEF IInv, Shape, HintInv, CopyInv, Begun, Mine, Retained, Origin, ArmNames,
         BaselineOver
<1>7. SourceInv' /\ FilesInv' /\ ResultInv'
  BY <1>1 DEF IInv, SourceInv, FilesInv, ResultInv, Retained, Origin
<1> QED
  BY <1>4, <1>5, <1>6, <1>7 DEF IInv

-----------------------------------------------------------------------------
(***************************************************************************)
(* The steps of the hint arm.                                              *)
(***************************************************************************)
LEMMA RestoreOwnKeeps ==
  ASSUME IInv, RestoreOwn
  PROVE  IInv'
<1>1. /\ at["hint"] = "idle" /\ result["hint"] = <<>> /\ Retained /\ Mine /\ hint.named
      /\ w[Origin] # None /\ at' = [at EXCEPT !["hint"] = "fork"]
      /\ UNCHANGED <<base, hint, source, w, result, runs>>
  BY DEF RestoreOwn, HintStarts, Go, Absent, Origin
<1>2. Shape'
  BY <1>1 DEF IInv, Shape, ArmNames, Places
<1>3. BaselineInv'
  BY <1>1 DEF IInv, Shape, BaselineInv, Retained, RetainsOwn, Origin, ArmNames, BaselineOver
<1>4. HintInv'
  BY <1>1 DEF IInv, Shape, HintInv, Begun, Mine, Retained, Origin, ArmNames, BaselineOver
<1>5. CopyInv'
  BY <1>1 DEF IInv, Shape, CopyInv, Origin, ArmNames
<1>6. SourceInv' /\ FilesInv' /\ ResultInv'
  BY <1>1 DEF IInv, SourceInv, FilesInv, ResultInv, Retained, Origin
<1> QED
  BY <1>2, <1>3, <1>4, <1>5, <1>6 DEF IInv

LEMMA BeginCopyKeeps ==
  ASSUME IInv, BeginCopy
  PROVE  IInv'
<1>1. /\ at["hint"] = "idle" /\ result["hint"] = <<>> /\ Retained /\ ~hint.forked
      /\ w[Origin] = None /\ at' = [at EXCEPT !["hint"] = "copy"]
      /\ hint' = [hint EXCEPT !.from = Origin]
      /\ w' = [w EXCEPT ![Origin] = source[1].work \cup Partial]
      /\ UNCHANGED <<base, source, result, runs>>
  BY DEF BeginCopy, HintStarts, Go, Absent, Origin
<1>2. Origin \in Natives /\ Origin # 0 /\ Origin \in 0..MaxRuns
  BY <1>1, RetainedSource, LateAssumption DEF IInv, Natives
<1>3. /\ hint' \in Hints /\ hint'.from = Origin /\ hint'.named = hint.named
      /\ hint'.forked = FALSE /\ hint'.prepared = FALSE /\ hint'.saw = hint.saw
  BY <1>1, <1>2 DEF IInv, Shape, HintInv, Hints
<1>4. /\ w \in [Natives -> SUBSET Files] /\ w' \in [Natives -> SUBSET Files]
      /\ w'[Origin] = {"prefix"} \cup Partial
      /\ w'[Origin] # None /\ w'[Origin] \subseteq Sessions \cup Partial
      /\ \A n \in Natives : n # Origin => w'[n] = w[n]
  <2>1. w \in [Natives -> SUBSET Files] /\ source[1].work = {"prefix"}
    BY <1>1 DEF IInv, Shape, SourceInv
  <2>2. /\ {"prefix"} \cup Partial \in SUBSET Files
        /\ {"prefix"} \cup Partial # None
        /\ {"prefix"} \cup Partial \subseteq Sessions \cup Partial
    BY WorkspaceStates
  <2> QED
    BY <1>1, <1>2, <2>1, <2>2
<1>5. Shape'
  BY <1>1, <1>3, <1>4 DEF IInv, Shape, ArmNames, Places
<1>6. base.native \in Natives \/ base.native = 0
  BY LateAssumption DEF IInv, Shape, Bases, Natives
<1>7. BaselineInv'
  BY <1>1, <1>2, <1>4, <1>6, WorkspaceStates
     DEF IInv, Shape, BaselineInv, Retained, RetainsOwn, Origin, ArmNames, BaselineOver
<1>8. HintInv'
  BY <1>1, <1>2, <1>3, <1>6
     DEF IInv, Shape, BaselineInv, HintInv, Begun, Mine, Retained, Origin, ArmNames,
         BaselineOver
<1>9. CopyInv'
  BY <1>1, <1>3, <1>4 DEF CopyInv, Origin, PrefixOnly
<1>10. FilesInv'
  BY <1>1, <1>3, <1>4 DEF IInv, FilesInv
<1>11. SourceInv' /\ ResultInv'
  BY <1>1 DEF IInv, SourceInv, ResultInv, Retained, Origin
<1> QED
  BY <1>5, <1>7, <1>8, <1>9, <1>10, <1>11 DEF IInv

LEMMA EndCopyKeeps ==
  ASSUME IInv, EndCopy
  PROVE  IInv'
<1>1. /\ at["hint"] = "copy" /\ at' = [at EXCEPT !["hint"] = "fork"]
      /\ hint' = [hint EXCEPT !.named = TRUE]
      /\ w' = [w EXCEPT ![hint.from] = source[1].work]
      /\ UNCHANGED <<base, source, result, runs>>
  BY DEF EndCopy, Go
<1>2. /\ Retained /\ Mine /\ hint.from = Origin /\ result["hint"] = <<>>
      /\ source[1].work = {"prefix"} /\ Origin \in Natives
  <2>1. Retained /\ Mine /\ hint.from = Origin /\ result["hint"] = <<>>
    BY <1>1 DEF IInv, HintInv, Begun
  <2> QED
    BY <2>1, RetainedSource DEF IInv, SourceInv
<1>3. /\ hint' \in Hints /\ hint'.from = hint.from /\ hint'.named
      /\ hint'.forked = hint.forked /\ hint'.prepared = hint.prepared /\ hint'.saw = hint.saw
  BY <1>1 DEF IInv, Shape, Hints
<1>4. /\ w \in [Natives -> SUBSET Files] /\ w' \in [Natives -> SUBSET Files]
      /\ w'[Origin] = {"prefix"}
      /\ \A n \in Natives : n # Origin => w'[n] = w[n]
  BY <1>1, <1>2, WorkspaceStates DEF IInv, Shape
<1>5. base.native \in Natives \/ base.native = 0
  BY LateAssumption DEF IInv, Shape, Bases, Natives
<1>6. Shape'
  BY <1>1, <1>3, <1>4 DEF IInv, Shape, ArmNames, Places
<1>7. BaselineInv'
  BY <1>1, <1>2, <1>4, <1>5, WorkspaceStates
     DEF IInv, Shape, BaselineInv, Retained, RetainsOwn, Origin, ArmNames, BaselineOver
<1>8. HintInv'
  BY <1>1, <1>2, <1>3, <1>4, WorkspaceStates
     DEF IInv, Shape, HintInv, Begun, Mine, Retained, Origin, ArmNames, BaselineOver
<1>9. CopyInv'
  BY <1>1, <1>3, <1>4 DEF IInv, CopyInv, Origin, PrefixOnly
<1>10. FilesInv'
  BY <1>1, <1>3, <1>4, WorkspaceStates DEF IInv, FilesInv
<1>11. SourceInv' /\ ResultInv'
  BY <1>1 DEF IInv, SourceInv, ResultInv, Retained, Origin
<1> QED
  BY <1>6, <1>7, <1>8, <1>9, <1>10, <1>11 DEF IInv

LEMMA ForkHintKeeps ==
  ASSUME IInv, ForkHint
  PROVE  IInv'
<1>1. /\ at["hint"] = "fork" /\ at' = [at EXCEPT !["hint"] = "branch"]
      /\ hint' = IF hint.forked THEN hint
                 ELSE [hint EXCEPT !.forked = TRUE, !.saw = w[hint.from]]
      /\ UNCHANGED <<base, source, w, result, runs>>
  BY DEF ForkHint, Go
<1>2. /\ Retained /\ Mine /\ hint.from = Origin /\ result["hint"] = <<>>
      /\ hint.forked \/ w[Origin] # None
      /\ Origin \in Natives
  <2>1. /\ Retained /\ Mine /\ hint.from = Origin /\ result["hint"] = <<>>
        /\ hint.forked \/ w[Origin] # None
    BY <1>1 DEF IInv, HintInv, Begun, ForkHint, Absent
  <2> QED
    BY <2>1, RetainedSource DEF IInv
<1>3. /\ hint \in Hints /\ hint.saw \subseteq Sessions \cup Partial
      /\ w[Origin] \in SUBSET Files
      /\ ~hint.forked => w[Origin] \subseteq Sessions \cup Partial /\ PrefixOnly(w[Origin])
  BY <1>2 DEF IInv, Shape, FilesInv, CopyInv
<1>4. /\ hint' \in Hints /\ hint'.from = hint.from /\ hint'.named = hint.named
      /\ hint'.forked /\ hint'.prepared = hint.prepared
      /\ hint'.saw = IF hint.forked THEN hint.saw ELSE w[Origin]
  BY <1>1, <1>2, <1>3 DEF Hints
<1>5. Shape'
  BY <1>1, <1>4 DEF IInv, Shape, ArmNames, Places
<1>6. BaselineInv'
  BY <1>1 DEF IInv, Shape, BaselineInv, Retained, RetainsOwn, Origin, ArmNames, BaselineOver
<1>7. HintInv'
  BY <1>1, <1>2, <1>4
     DEF IInv, Shape, HintInv, Begun, Mine, Retained, Origin, ArmNames, BaselineOver
<1>8. CopyInv'
  BY <1>3, <1>4 DEF IInv, CopyInv
<1>9. FilesInv'
  BY <1>1, <1>3, <1>4 DEF IInv, FilesInv
<1>10. SourceInv' /\ ResultInv'
  BY <1>1 DEF IInv, SourceInv, ResultInv, Retained, Origin
<1> QED
  BY <1>5, <1>6, <1>7, <1>8, <1>9, <1>10 DEF IInv

LEMMA HintPhaseKeeps ==
  ASSUME IInv, HintPhase
  PROVE  IInv'
<1>1. PICK phase \in NextPhases("hint", hint.branch, "revise", Unit) :
        hint' = [hint EXCEPT !.branch = Append(@, phase)]
  BY DEF HintPhase
<1>2. /\ at["hint"] = "branch" /\ UNCHANGED <<at, base, source, result, runs>>
      /\ \/ w[hint.from] = None
            /\ (w' = w \/ w' = [w EXCEPT ![hint.from] = {"hint"} \cup Partial])
         \/ w[hint.from] # None /\ w' = [w EXCEPT ![hint.from] = w[hint.from] \cup {"hint"}]
  BY DEF HintPhase, Writes, Absent
<1>3. /\ Retained /\ Mine /\ hint.from = Origin /\ hint.forked
      /\ Origin \in Natives /\ hint \in Hints /\ hint.branch \in HintPhases
  <2>1. /\ Retained /\ Mine /\ hint.from = Origin /\ hint.forked /\ hint \in Hints
    BY <1>2 DEF IInv, Shape, HintInv, Begun
  <2> QED
    BY <2>1, RetainedSource DEF IInv, Hints
<1> DEFINE longer == Append(hint.branch, phase)
<1>4. longer \in HintPhases
  BY <1>3, CommitKeepsTrajectory DEF HintPhases, Sessions, Labels
<1> HIDE DEF longer
<1>5. /\ hint' \in Hints /\ hint'.from = hint.from /\ hint'.named = hint.named
      /\ hint'.forked = hint.forked /\ hint'.prepared = hint.prepared /\ hint'.saw = hint.saw
  BY <1>1, <1>3, <1>4 DEF Hints, longer
<1>6. /\ w \in [Natives -> SUBSET Files] /\ \A n \in Natives : n # Origin => w'[n] = w[n]
      /\ \/ w[Origin] = None /\ (w' = w \/ w'[Origin] = {"hint"} \cup Partial)
         \/ w[Origin] # None /\ w'[Origin] = w[Origin] \cup {"hint"}
  <2>1. w \in [Natives -> SUBSET Files]
    BY DEF IInv, Shape
  <2> QED
    BY <1>2, <1>3, <2>1
<1>7. /\ w'[Origin] = None \/ w'[Origin] \subseteq Sessions \cup Partial
      /\ w'[Origin] \in SUBSET Files /\ w' \in [Natives -> SUBSET Files]
      /\ w[Origin] # None => w'[Origin] # None
  <2>1. w'[Origin] = None \/ w'[Origin] \subseteq Sessions \cup Partial
    BY <1>3, <1>6 DEF IInv, FilesInv, Sessions
  <2>2. w'[Origin] \in SUBSET Files
    BY <2>1, WorkspaceStates
  <2>3. w[Origin] # None => w'[Origin] # None
    BY <1>3, <1>6, WorkspaceStates DEF IInv, FilesInv, Sessions
  <2> QED
    BY <1>2, <1>3, <1>6, <2>1, <2>2, <2>3
<1>8. base.native \in Natives \/ base.native = 0
  BY LateAssumption DEF IInv, Shape, Bases, Natives
<1>9. Shape'
  BY <1>2, <1>5, <1>7 DEF IInv, Shape
<1>10. BaselineInv'
  BY <1>2, <1>3, <1>6, <1>7, <1>8
     DEF IInv, BaselineInv, Retained, RetainsOwn, Origin, BaselineOver
<1>11. HintInv'
  BY <1>2, <1>3, <1>5, <1>7 DEF IInv, HintInv, Begun, Mine, Retained, Origin, BaselineOver
<1>12. CopyInv'
  BY <1>3, <1>5 DEF IInv, CopyInv
<1>13. FilesInv'
  BY <1>2, <1>5, <1>6, <1>7 DEF IInv, FilesInv
<1>14. SourceInv' /\ ResultInv'
  BY <1>2 DEF IInv, SourceInv, ResultInv, Retained, Origin
<1> QED
  BY <1>9, <1>10, <1>11, <1>12, <1>13, <1>14 DEF IInv

LEMMA WriteHintKeeps ==
  ASSUME IInv, WriteHint
  PROVE  IInv'
<1>1. /\ at["hint"] = "branch" /\ hint' = [hint EXCEPT !.prepared = TRUE]
      /\ at' = [at EXCEPT !["hint"] = "merge"]
      /\ UNCHANGED <<base, source, w, result, runs>>
  BY DEF WriteHint, Go
<1>2. hint \in Hints /\ Mine /\ hint.forked /\ Retained
  BY <1>1 DEF IInv, Shape, HintInv, Begun
<1>3. /\ hint' \in Hints /\ hint'.from = hint.from /\ hint'.named = hint.named
      /\ hint'.forked = hint.forked /\ hint'.saw = hint.saw
  BY <1>1, <1>2 DEF Hints
<1>4. Shape'
  BY <1>1, <1>3 DEF IInv, Shape, ArmNames, Places
<1>5. BaselineInv'
  BY <1>1 DEF IInv, Shape, BaselineInv, Retained, RetainsOwn, Origin, ArmNames, BaselineOver
<1>6. HintInv'
  BY <1>1, <1>2, <1>3
     DEF IInv, Shape, HintInv, Begun, Mine, Retained, Origin, ArmNames, BaselineOver
<1>7. CopyInv'
  BY <1>1, <1>2, <1>3 DEF IInv, CopyInv
<1>8. FilesInv'
  BY <1>1, <1>3 DEF IInv, FilesInv
<1>9. SourceInv' /\ ResultInv'
  BY <1>1 DEF IInv, SourceInv, ResultInv, Retained, Origin
<1> QED
  BY <1>4, <1>5, <1>6, <1>7, <1>8, <1>9 DEF IInv

-----------------------------------------------------------------------------
(***************************************************************************)
(* The steps of the trap, of the cleanups and of the operator.             *)
(***************************************************************************)
\* What Merge delivers is an attempt of the retained prefix.
LEMMA DeliveredIs ==
  ASSUME Shape, Retained, NEW role, NEW branch \in Trajectories(role),
         NEW saw \in SUBSET Files
  PROVE  LET attempt == Delivered(Origin, source[1].phases, branch, saw)
         IN  /\ attempt \in Attempts /\ attempt # <<>>
             /\ attempt[1].native = Origin /\ attempt[1].prefix = source[1].phases
             /\ attempt[1].saw = saw
             /\ <<source[1].phases, attempt[1].phases>> \in Joined
<1> DEFINE prefix == source[1].phases
           whole == prefix \o OffsetPhases(branch, Spent(prefix))
           attempt == Delivered(Origin, source[1].phases, branch, saw)
<1>1. Origin \in Natives /\ prefix \in PrefixPhases
  BY RetainedSource
<1>2. <<prefix, whole>> \in Joined
  BY <1>1, ForkIsJoined
<1>3. whole \in AllPhases
  BY <1>2 DEF Joined
<1>4. attempt = <<[native |-> Origin, prefix |-> prefix, saw |-> saw, phases |-> whole]>>
  BY DEF Delivered
<1> HIDE DEF attempt, whole, prefix
<1>5. attempt \in Attempts /\ attempt # <<>>
  BY <1>1, <1>3, <1>4 DEF Attempts, AtMostOne
<1>6. /\ attempt[1].native = Origin /\ attempt[1].prefix = prefix
      /\ attempt[1].phases = whole /\ attempt[1].saw = saw
  BY <1>4
<1> QED
  BY <1>2, <1>5, <1>6 DEF attempt, prefix

LEMMA MergeKeeps ==
  ASSUME IInv, NEW arm \in ArmNames, Merge(arm)
  PROVE  IInv'
<1> DEFINE delivered ==
             IF arm = "baseline" THEN Delivered(base.native, base.prefix, base.control, {"prefix"})
             ELSE Delivered(hint.from, source[1].phases, hint.branch, hint.saw)
<1>1. /\ at[arm] = "merge" /\ at' = [at EXCEPT ![arm] = "idle"]
      /\ result' = [result EXCEPT ![arm] = delivered]
      /\ UNCHANGED <<base, hint, source, w, runs>>
  BY DEF Merge, Go
<1>2. /\ Retained /\ delivered \in Attempts /\ delivered # <<>>
      /\ delivered[1].native = Origin /\ delivered[1].prefix = source[1].phases
      /\ PrefixOnly(delivered[1].saw)
      /\ <<source[1].phases, delivered[1].phases>> \in Joined
  <2>1. CASE arm = "baseline"
    <3>1. /\ RetainsOwn /\ base.prefix = source[1].phases /\ base \in Bases
      BY <1>1, <2>1 DEF IInv, Shape, BaselineInv
    <3>2. base.control \in Trajectories("control") /\ {"prefix"} \in SUBSET Files
      BY <3>1, WorkspaceStates DEF Bases, ControlPhases
    <3>3. delivered = Delivered(Origin, source[1].phases, base.control, {"prefix"})
      BY <2>1, <3>1 DEF RetainsOwn, Origin
    <3> QED
      BY <3>1, <3>2, <3>3, DeliveredIs DEF IInv, RetainsOwn, PrefixOnly
  <2>2. CASE arm # "baseline"
    <3>1. /\ Retained /\ hint.from = Origin /\ hint \in Hints
          /\ PrefixOnly(hint.saw)
      BY <1>1, <2>2 DEF IInv, Shape, HintInv, CopyInv, Begun, ArmNames
    <3>2. hint.branch \in Trajectories("hint") /\ hint.saw \in SUBSET Files
      BY <3>1 DEF Hints, HintPhases
    <3>3. delivered = Delivered(Origin, source[1].phases, hint.branch, hint.saw)
      BY <2>2, <3>1
    <3> QED
      BY <3>1, <3>2, <3>3, DeliveredIs DEF IInv
  <2> QED
    BY <2>1, <2>2
<1> HIDE DEF delivered
<1>3. Shape'
  BY <1>1, <1>2 DEF IInv, Shape, Places
<1>4. BaselineInv'
  BY <1>1, <1>2
     DEF IInv, Shape, BaselineInv, Retained, RetainsOwn, Origin, ArmNames, BaselineOver
<1>5. HintInv'
  BY <1>1, <1>2
     DEF IInv, Shape, HintInv, Begun, Mine, Retained, Origin, ArmNames, BaselineOver
<1>6. CopyInv'
  BY <1>1 DEF IInv, CopyInv, Mine, Origin
<1>7. ResultInv'
  BY <1>1, <1>2 DEF IInv, Shape, ResultInv, Retained, Origin
<1>8. SourceInv' /\ FilesInv'
  BY <1>1 DEF IInv, SourceInv, FilesInv, Retained, Origin
<1> QED
  BY <1>3, <1>4, <1>5, <1>6, <1>7, <1>8 DEF IInv

\* What a cleanup may take of a baseline: one of the retained prefix, delivered.
LEMMA RemovableBaseline ==
  ASSUME IInv, Removable("baseline", base)
  PROVE  /\ RetainsOwn /\ base.native = Origin /\ Origin \in Natives /\ base.native # 0
         /\ BaselineOver
<1>1. RetainsOwn /\ result["baseline"] # <<>>
  BY DEF IInv, BaselineInv, Removable
<1>2. at["baseline"] = "idle"
  BY <1>1 DEF IInv, BaselineInv
<1>3. base.native = Origin /\ Origin \in Natives /\ base.native # 0
  BY <1>1, RetainedSource DEF IInv, RetainsOwn, Origin
<1> QED
  BY <1>1, <1>2, <1>3 DEF BaselineOver

LEMMA RemoveWorkspaceKeeps ==
  ASSUME IInv, NEW n \in Natives, RemoveWorkspace(n)
  PROVE  IInv'
<1>1. /\ w[n] # None /\ UNCHANGED <<at, base, hint, source, result, runs>>
      /\ w' = [w EXCEPT ![n] = None] \/ w' = [w EXCEPT ![n] = w[n] \cup Partial]
      /\ n = base.native => RetainsOwn /\ BaselineOver
  BY RemovableBaseline DEF RemoveWorkspace, Listed, Absent
<1>2. /\ w \in [Natives -> SUBSET Files] /\ w' \in [Natives -> SUBSET Files]
      /\ w'[n] = None \/ w'[n] = w[n] \cup Partial
      /\ \A m \in Natives : m # n => w'[m] = w[m]
  <2>1. w \in [Natives -> SUBSET Files]
    BY DEF IInv, Shape
  <2>2. w[n] \cup Partial \in SUBSET Files
    BY <2>1, WorkspaceStates
  <2> QED
    BY <1>1, <2>1, <2>2, WorkspaceStates
<1>3. base.native \in Natives \/ base.native = 0
  BY LateAssumption DEF IInv, Shape, Bases, Natives
<1>4. w[n] \subseteq Sessions \cup Partial
  BY <1>1 DEF IInv, FilesInv
<1>5. Shape'
  BY <1>1, <1>2 DEF IInv, Shape
<1>6. BaselineInv'
  BY <1>1, <1>2, <1>3
     DEF IInv, BaselineInv, Retained, RetainsOwn, Origin, BaselineOver
<1>7. HintInv'
  BY <1>1 DEF IInv, HintInv, Begun, Mine, Retained, Origin, BaselineOver
<1>8. CopyInv'
  <2>1. ASSUME Mine, ~hint.forked
        PROVE  w'[Origin] = None \/ PrefixOnly(w'[Origin])
    <3>1. Origin \in Natives /\ (w[Origin] = None \/ PrefixOnly(w[Origin]))
      BY <2>1, RetainedSource DEF IInv, HintInv, CopyInv, Begun
    <3> QED
      BY <1>1, <1>2, <3>1 DEF PrefixOnly
  <2> QED
    BY <1>1, <2>1 DEF IInv, CopyInv, Mine, Origin
<1>9. FilesInv'
  BY <1>1, <1>2, <1>4 DEF IInv, FilesInv
<1>10. SourceInv' /\ ResultInv'
  BY <1>1 DEF IInv, SourceInv, ResultInv, Retained, Origin
<1> QED
  BY <1>5, <1>6, <1>7, <1>8, <1>9, <1>10 DEF IInv

LEMMA CleanBaselineKeeps ==
  ASSUME IInv, CleanBaseline
  PROVE  IInv'
<1>1. base' = NoBase /\ UNCHANGED <<at, hint, source, result, runs>>
  BY DEF CleanBaseline
<1>2. /\ RetainsOwn /\ base.native = Origin /\ Origin \in Natives /\ base.native # 0
      /\ BaselineOver
  BY RemovableBaseline DEF CleanBaseline
<1>3. /\ w \in [Natives -> SUBSET Files] /\ w' \in [Natives -> SUBSET Files]
      /\ w'[Origin] = None \/ w'[Origin] = w[Origin]
      /\ \A n \in Natives : n # Origin => w'[n] = w[n]
  BY <1>2, WorkspaceStates DEF IInv, Shape, CleanBaseline
<1>4. base' \in Bases /\ base'.native = 0 /\ ~base'.prepared /\ 0 <= runs
  BY <1>1, NothingCommitted, LateAssumption
     DEF Bases, NoBase, PrefixPhases, ControlPhases, IInv, Shape
<1>5. Shape'
  BY <1>1, <1>3, <1>4 DEF IInv, Shape
<1>6. ~RetainsOwn'
  BY <1>1, <1>2, <1>4 DEF RetainsOwn, Origin
<1>7. BaselineInv'
  BY <1>1, <1>2, <1>4, <1>6 DEF IInv, BaselineInv, BaselineOver
<1>8. HintInv'
  BY <1>1, <1>2, <1>4 DEF IInv, HintInv, Begun, Mine, Retained, Origin
<1>9. CopyInv'
  BY <1>1, <1>3 DEF IInv, CopyInv, Mine, Origin
<1>10. FilesInv'
  BY <1>1, <1>3 DEF IInv, FilesInv
<1>11. SourceInv' /\ ResultInv'
  BY <1>1 DEF IInv, SourceInv, ResultInv, Retained, Origin
<1> QED
  BY <1>5, <1>7, <1>8, <1>9, <1>10, <1>11 DEF IInv

LEMMA CleanHintKeeps ==
  ASSUME IInv, CleanHint
  PROVE  IInv'
<1>1. /\ hint.prepared /\ result["hint"] # <<>> /\ hint' = NoHint
      /\ w' = [w EXCEPT ![hint.from] = None]
      /\ UNCHANGED <<at, base, source, result, runs>>
  BY DEF CleanHint, Removable
<1>2. /\ Begun /\ Retained /\ hint.from = Origin /\ Origin \in Natives
      /\ at["hint"] = "idle"
  <2>1. Begun /\ Retained /\ hint.from = Origin /\ at["hint"] = "idle"
    BY <1>1 DEF IInv, HintInv, Begun
  <2> QED
    BY <2>1, RetainedSource DEF IInv
<1>3. base.native = Origin => BaselineOver
  BY <1>2 DEF IInv, HintInv
<1>4. /\ w' \in [Natives -> SUBSET Files] /\ w'[Origin] = None
      /\ \A n \in Natives : n # Origin => w'[n] = w[n]
  BY <1>1, <1>2, WorkspaceStates DEF IInv, Shape
<1>5. base.native \in Natives \/ base.native = 0
  BY LateAssumption DEF IInv, Shape, Bases, Natives
<1>6. /\ hint' \in Hints /\ hint'.from = 0 /\ ~hint'.named /\ ~hint'.forked
      /\ ~hint'.prepared /\ hint'.saw = {}
  BY <1>1, NothingCommitted, LateAssumption DEF Hints, NoHint, HintPhases
<1>7. Shape'
  BY <1>1, <1>4, <1>6 DEF IInv, Shape
<1>8. BaselineInv'
  BY <1>1, <1>2, <1>3, <1>4, <1>5
     DEF IInv, BaselineInv, Retained, RetainsOwn, Origin, BaselineOver
<1>9. HintInv'
  BY <1>1, <1>2, <1>3, <1>6 DEF IInv, HintInv, Begun, Mine, Retained, Origin, BaselineOver
<1>10. CopyInv'
  BY <1>6 DEF CopyInv, Mine
<1>11. FilesInv'
  BY <1>1, <1>4, <1>6 DEF IInv, FilesInv
<1>12. SourceInv' /\ ResultInv'
  BY <1>1 DEF IInv, SourceInv, ResultInv, Retained, Origin
<1> QED
  BY <1>7, <1>8, <1>9, <1>10, <1>11, <1>12 DEF IInv

\* An invocation that ends early leaves the disk alone.
LEMMA StopKeeps ==
  ASSUME IInv, NEW arm \in ArmNames, Stop(arm)
  PROVE  IInv'
<1>1. /\ at' = [at EXCEPT ![arm] = "idle"]
      /\ UNCHANGED <<base, hint, source, w, result, runs>>
  BY DEF Stop, Go
<1>2. BaselineOver => BaselineOver'
  BY <1>1 DEF IInv, Shape, ArmNames, BaselineOver
<1>3. Begun' => Begun
  BY <1>1 DEF IInv, Shape, ArmNames, Begun, Mine
<1>4. Shape'
  BY <1>1 DEF IInv, Shape, Places
<1>5. BaselineInv'
  BY <1>1, <1>2 DEF IInv, Shape, BaselineInv, Retained, RetainsOwn, Origin, ArmNames
<1>6. HintInv'
  BY <1>1, <1>2, <1>3 DEF IInv, Shape, HintInv, Mine, Retained, Origin, ArmNames
<1>7. CopyInv' /\ SourceInv' /\ FilesInv' /\ ResultInv'
  BY <1>1 DEF IInv, CopyInv, SourceInv, FilesInv, ResultInv, Mine, Retained, Origin
<1> QED
  BY <1>4, <1>5, <1>6, <1>7 DEF IInv

LEMMA ArchiveBaselineKeeps ==
  ASSUME IInv, ArchiveBaseline
  PROVE  IInv'
<1>1. /\ at["baseline"] = "idle" /\ result["baseline"] # <<>> /\ base = NoBase
      /\ result' = [result EXCEPT !["baseline"] = <<>>]
      /\ UNCHANGED <<at, base, hint, source, w, runs>>
  BY DEF ArchiveBaseline
<1>2. Retained /\ Origin # 0 /\ base.native = 0
  BY <1>1, RetainedSource DEF IInv, ResultInv, ArmNames, NoBase
<1>3. Shape'
  BY <1>1 DEF IInv, Shape, Attempts, AtMostOne
<1>4. BaselineInv'
  BY <1>1, <1>2 DEF IInv, Shape, BaselineInv, Retained, RetainsOwn, Origin
<1>5. HintInv'
  BY <1>1, <1>2 DEF IInv, Shape, HintInv, Begun, Mine, Retained, Origin, ArmNames
<1>6. CopyInv'
  BY <1>1 DEF IInv, CopyInv, Mine, Origin
<1>7. ResultInv'
  BY <1>1 DEF IInv, Shape, ResultInv, Retained, Origin, ArmNames
<1>8. SourceInv' /\ FilesInv'
  BY <1>1 DEF IInv, SourceInv, FilesInv, Retained, Origin
<1> QED
  BY <1>3, <1>4, <1>5, <1>6, <1>7, <1>8 DEF IInv

-----------------------------------------------------------------------------
LEMMA StepKeeps ==
  ASSUME IInv, [Next]_vars
  PROVE  IInv'
<1>1. CASE UNCHANGED vars
  BY <1>1
     DEF vars, IInv, Shape, BaselineInv, SourceInv, HintInv, CopyInv, FilesInv, ResultInv,
         Retained, RetainsOwn, Origin, BaselineOver, Begun, Mine
<1>2. CASE StartBaseline \/ PrefixPhase \/ RetainPrefix \/ ForkControl \/ ControlPhase
           \/ WriteBaseline
  BY <1>2, StartBaselineKeeps, PrefixPhaseKeeps, RetainPrefixKeeps, ForkControlKeeps,
     ControlPhaseKeeps, WriteBaselineKeeps
<1>3. CASE RestoreOwn \/ BeginCopy \/ EndCopy \/ ForkHint \/ HintPhase \/ WriteHint
  BY <1>3, RestoreOwnKeeps, BeginCopyKeeps, EndCopyKeeps, ForkHintKeeps, HintPhaseKeeps,
     WriteHintKeeps
<1>4. CASE CleanBaseline \/ CleanHint \/ ArchiveBaseline
  BY <1>4, CleanBaselineKeeps, CleanHintKeeps, ArchiveBaselineKeeps
<1>5. ASSUME NEW arm \in ArmNames,
             Merge(arm) \/ Stop(arm)
      PROVE  IInv'
  BY <1>5, MergeKeeps, StopKeeps
<1>6. ASSUME NEW n \in Natives, RemoveWorkspace(n)
      PROVE  IInv'
  BY <1>6, RemoveWorkspaceKeeps
<1> QED
  BY <1>1, <1>2, <1>3, <1>4, <1>5, <1>6 DEF Next

LEMMA Inductive == Spec => []IInv
BY InitIInv, StepKeeps, PTL DEF Spec

\* Checkpoints and what is delivered are of their kind: a role counts its phases
\* upwards from its fork.  A workspace is absent or holds what the sessions of the
\* two arms wrote, whole or in part; in particular the baseline, which looks for
\* its workspace only at a start and at the fork, never works in one that is gone,
\* whatever is killed or cleaned.
THEOREM TypesOfBothArms == Spec => []TypeOK
BY Inductive, InvariantTypes, PTL

\* "Matched native-session intervention": what is delivered of the two arms has
\* one native session and, at every threshold up to its fork, the same cut; and
\* the hint's fork saw nothing written after the prefix.
THEOREM DeliveredAreSiblings == Spec => []SiblingsAgree
BY Inductive, InvariantAgrees, PTL

\* restore_scratch_dir: whatever is killed, fails or is cleaned, and in any order,
\* the hint arm forks from a workspace in which nothing was written after the
\* prefix, also when nothing is delivered of it.  (Files may be missing from it.)
THEOREM HintForksRetained == Spec => []ForksRetained
BY Inductive, InvariantForks, PTL
=============================================================================
