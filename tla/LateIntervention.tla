-------------------------- MODULE LateIntervention --------------------------
(***************************************************************************)
(* The two late arms on one (problem, seed).  The baseline creates a       *)
(* native 3x prefix, retains its transcript, scratch and phases, and goes  *)
(* on without a hint in a fork of it; the hint arm restores what was       *)
(* retained and goes on with a hint in a fork of its own.  Both arms share *)
(* one checkpoint namespace, and in it the name of the workspace: the      *)
(* restored one must have the path the transcript was recorded under.      *)
(*                                                                         *)
(* Every run.sh of either arm ends by cleaning that namespace, also one    *)
(* that had nothing to do, was for another problem or seed, or whose task  *)
(* failed: the cleanups are actors of their own here.                      *)
(*                                                                         *)
(* Sources: src/late_intervention.py, src/run.py (solve_late_baseline_seed, *)
(* solve_late_hint_seed, _run_sequential_role, main), src/checkpoint.py    *)
(* (restore_scratch_dir), src/cleanup_checkpoints.py, run.sh.  A committed *)
(* phase is one step (SequentialAttempt and PhaseStream have its detail).  *)
(***************************************************************************)
EXTENDS BudgetCuts

CONSTANTS
  Unit, Reserve,          \* tokens of a budget unit and of the wrap-up reserve
  PrefixUnits,            \* 3 in the code
  MinRounds, NoGapStreak, \* the stopping rule of the sequential protocol
  Costs,                  \* tokens a phase may spend
  MaxRuns                 \* bound: baselines begun from nothing

ASSUME LateAssumption ==
  /\ Unit \in Nat \ {0} /\ Reserve \in 1..(Unit - 1)
  /\ PrefixUnits \in Nat \ {0} /\ MinRounds \in Nat /\ NoGapStreak \in Nat \ {0}
  /\ Costs \subseteq Nat \ {0} /\ MaxRuns \in Nat

\* A baseline begun from nothing, its native session and its workspace's name
\* are one number here, and a branch's session is known by what it forked.
Natives == 1..MaxRuns

VARIABLES
  at,         \* per arm: where its invocation stands
  base,       \* the baseline's checkpoint
  hint,       \* the hint arm's checkpoint
  source,     \* the retained prefix, <<>> when there is none
  w,          \* the workspaces: the sessions that wrote into each, or None
  result,     \* per arm: its delivered attempt, <<>> when there is none
  runs

vars == <<at, base, hint, source, w, result, runs>>

ArmNames == {"baseline", "hint"}
PrefixBudget == PrefixUnits * Unit

-----------------------------------------------------------------------------
(***************************************************************************)
(* _run_sequential_role, one committed phase at a time.                    *)
(***************************************************************************)
Spent(phases) == IF phases = <<>> THEN 0 ELSE phases[Len(phases)].cumulative

Critiques(phases) == SelectSeq(phases, LAMBDA phase : phase.label = "critique")

Converged(phases) ==
  LET c == Critiques(phases)
  IN  /\ Len(c) >= MinRounds /\ Len(c) >= NoGapStreak
      /\ \A i \in (Len(c) - NoGapStreak + 1)..Len(c) : c[i].nogap /\ ~c[i].exhausted

LoopOver(phases, budget) ==
  phases # <<>> /\ (Spent(phases) >= budget - Reserve \/ Converged(phases))

WrapNeeded(phases, budget) ==
  /\ phases # <<>> /\ Spent(phases) \in (budget - Reserve)..(budget - 1)
  /\ \A i \in DOMAIN phases : phases[i].label # "wrap_up"

RoleEnded(phases, budget) == LoopOver(phases, budget) /\ ~WrapNeeded(phases, budget)

NextLabel(phases, initial, budget) ==
  IF phases = <<>> THEN initial
  ELSE IF WrapNeeded(phases, budget) THEN "wrap_up"
  ELSE IF phases[Len(phases)].label = "critique" THEN "revise" ELSE "critique"

\* The phases a role may commit next.  Its text is known by who wrote it; one
\* that reached its cutoff may have been interrupted.
NextPhases(role, phases, initial, budget) ==
  LET label == NextLabel(phases, initial, budget)
      stop  == IF label = "wrap_up" THEN budget ELSE budget - Reserve
  IN  {phase \in [label : {label}, text : {<<role, Len(phases) + 1>>},
                   nogap : IF label = "critique" THEN BOOLEAN ELSE {FALSE},
                   cumulative : {Spent(phases) + cost : cost \in Costs},
                   exhausted : BOOLEAN] :
         phase.exhausted => phase.cumulative >= stop}

-----------------------------------------------------------------------------
NoBase == [native |-> 0, prefix |-> <<>>, forked |-> FALSE, control |-> <<>>,
           prepared |-> FALSE]

\* "from" is the native session in the identity; "named" says that the
\* restored workspace's name is saved; "saw" is what the fork started from.
NoHint == [from |-> 0, named |-> FALSE, forked |-> FALSE, saw |-> {}, branch |-> <<>>,
           prepared |-> FALSE]

\* A workspace that is not there; and the mark of one that has lost files, or
\* has not got all of them.
None == {"absent"}
Partial == {"partial"}

Init ==
  /\ at = [arm \in ArmNames |-> "idle"]
  /\ base = NoBase /\ hint = NoHint
  /\ source = <<>>
  /\ w = [n \in Natives |-> None]
  /\ result = [arm \in ArmNames |-> <<>>]
  /\ runs = 0

Go(arm, place) == at' = [at EXCEPT ![arm] = place]
Writes(n, who) == w' = [w EXCEPT ![n] = @ \cup {who}]
Absent(n) == w[n] = None

-----------------------------------------------------------------------------
(***************************************************************************)
(* solve_late_baseline_seed                                                *)
(***************************************************************************)
\* scratch_dir("prefix"): a new workspace, or the one of the checkpoint; a paid
\* one that disappeared is refused.
StartBaseline ==
  /\ at["baseline"] = "idle" /\ result["baseline"] = <<>>
  /\ IF base = NoBase
     THEN /\ runs < MaxRuns /\ runs' = runs + 1
          /\ base' = [NoBase EXCEPT !.native = runs + 1]
          /\ w' = [w EXCEPT ![runs + 1] = {}]
     ELSE ~Absent(base.native) /\ UNCHANGED <<runs, base, w>>
  /\ Go("baseline", "prefix")
  /\ UNCHANGED <<hint, source, result>>

PrefixPhase ==
  /\ at["baseline"] = "prefix" /\ ~RoleEnded(base.prefix, PrefixBudget)
  /\ \E phase \in NextPhases("prefix", base.prefix, "solve", PrefixBudget) :
       base' = [base EXCEPT !.prefix = Append(@, phase)]
  /\ Writes(base.native, "prefix")
  /\ UNCHANGED <<at, hint, source, result, runs>>

\* load_prefix_source finds a whole snapshot, one of this native session.
Retained == source # <<>>
RetainsOwn == Retained /\ source[1].native = base.native

\* save_prefix_source publishes a whole directory with one os.replace(); a
\* prefix of another native session is an error.
RetainPrefix ==
  /\ at["baseline"] = "prefix" /\ RoleEnded(base.prefix, PrefixBudget)
  /\ source' = IF Retained THEN source
               ELSE <<[native |-> base.native, phases |-> base.prefix,
                       spent |-> Spent(base.prefix), work |-> w[base.native]]>>
  /\ Go("baseline", IF ~Retained \/ RetainsOwn THEN "fork" ELSE "idle")
  /\ UNCHANGED <<base, hint, w, result, runs>>

\* fork_native_session needs the transcript in the workspace; a branch that was
\* forked before is resumed.
ForkControl ==
  /\ at["baseline"] = "fork" /\ (base.forked \/ ~Absent(base.native))
  /\ base' = [base EXCEPT !.forked = TRUE]
  /\ Go("baseline", "control")
  /\ UNCHANGED <<hint, source, w, result, runs>>

ControlPhase ==
  /\ at["baseline"] = "control" /\ ~RoleEnded(base.control, Unit)
  /\ \E phase \in NextPhases("control", base.control, "revise", Unit) :
       base' = [base EXCEPT !.control = Append(@, phase)]
  /\ Writes(base.native, "control")
  /\ UNCHANGED <<at, hint, source, result, runs>>

\* prepare_completion and write_seed_outputs, into the staging tree
WriteBaseline ==
  /\ at["baseline"] = "control" /\ RoleEnded(base.control, Unit)
  /\ base' = [base EXCEPT !.prepared = TRUE]
  /\ Go("baseline", "merge")
  /\ UNCHANGED <<hint, source, w, result, runs>>

-----------------------------------------------------------------------------
(***************************************************************************)
(* solve_late_hint_seed; main() skips the pair while nothing is retained.  *)
(***************************************************************************)
HintStarts == at["hint"] = "idle" /\ result["hint"] = <<>> /\ Retained
Mine == hint.from # 0

\* restore_scratch_dir: the workspace it restored before, or a copy of what was
\* retained; one of that name it did not restore is refused, and so is a paid one
\* that disappeared.
\* Faulty variant: a workspace of that name is taken without asking whose it is.
RestoreAny ==
  /\ HintStarts /\ ~Absent(source[1].native)
  /\ hint' = [hint EXCEPT !.from = source[1].native, !.named = TRUE]
  /\ Go("hint", "fork")
  /\ UNCHANGED <<base, source, w, result, runs>>

\* It may have lost files since it was restored: nothing looks into it.
RestoreOwn ==
  /\ HintStarts /\ Mine /\ hint.named /\ ~Absent(source[1].native)
  /\ Go("hint", "fork")
  /\ UNCHANGED <<base, hint, source, w, result, runs>>

BeginCopy ==
  /\ HintStarts /\ Absent(source[1].native) /\ ~hint.forked
  /\ hint' = [hint EXCEPT !.from = source[1].native]
  /\ w' = [w EXCEPT ![source[1].native] = source[1].work \cup Partial]
  /\ Go("hint", "copy")
  /\ UNCHANGED <<base, source, result, runs>>

\* The copy is complete and the name is saved.
EndCopy ==
  /\ at["hint"] = "copy" /\ ~Absent(hint.from)
  /\ hint' = [hint EXCEPT !.named = TRUE]
  /\ w' = [w EXCEPT ![hint.from] = source[1].work]
  /\ Go("hint", "fork")
  /\ UNCHANGED <<base, source, result, runs>>

ForkHint ==
  /\ at["hint"] = "fork" /\ (hint.forked \/ ~Absent(hint.from))
  /\ hint' = IF hint.forked THEN hint
             ELSE [hint EXCEPT !.forked = TRUE, !.saw = w[hint.from]]
  /\ Go("hint", "branch")
  /\ UNCHANGED <<base, source, w, result, runs>>

\* No phase looks for its workspace: into one that a cleanup has removed, the CLI
\* and its tools write nothing, or what they need anew.
HintPhase ==
  /\ at["hint"] = "branch" /\ ~RoleEnded(hint.branch, Unit)
  /\ \E phase \in NextPhases("hint", hint.branch, "revise", Unit) :
       hint' = [hint EXCEPT !.branch = Append(@, phase)]
  /\ IF Absent(hint.from)
     THEN w' \in {w, [w EXCEPT ![hint.from] = {"hint"} \cup Partial]}
     ELSE Writes(hint.from, "hint")
  /\ UNCHANGED <<at, base, source, result, runs>>

WriteHint ==
  /\ at["hint"] = "branch" /\ RoleEnded(hint.branch, Unit)
  /\ hint' = [hint EXCEPT !.prepared = TRUE]
  /\ Go("hint", "merge")
  /\ UNCHANGED <<base, source, w, result, runs>>

-----------------------------------------------------------------------------
(***************************************************************************)
(* The end of an invocation: its trap merges what it has delivered, and     *)
(* then, as every run.sh of either arm does, cleans the shared namespace.   *)
(***************************************************************************)
Delivered(native, prefix, branch, saw) ==
  <<[native |-> native, prefix |-> prefix, saw |-> saw,
     phases |-> prefix \o OffsetPhases(branch, Spent(prefix))]>>

Merge(arm) ==
  /\ at[arm] = "merge"
  /\ result' = [result EXCEPT ![arm] =
       IF arm = "baseline" THEN Delivered(base.native, base.prefix, base.control, {"prefix"})
       ELSE Delivered(hint.from, source[1].phases, hint.branch, hint.saw)]
  /\ Go(arm, "idle")
  /\ UNCHANGED <<base, hint, source, w, runs>>

\* The invocation is killed, or its task raises: a workspace or a session is
\* refused, a copy or a fork fails, a phase does.  run_all only logs that.
Stop(arm) ==
  /\ at[arm] # "idle"
  /\ Go(arm, "idle")
  /\ UNCHANGED <<base, hint, source, w, result, runs>>

\* A lock is held while its arm's invocation is in its container.
Locked(arm) == at[arm] \notin {"idle", "merge"}

\* cleanup_completed on one checkpoint: the result is in the tree, the lock free
Removable(arm, checkpoint) ==
  checkpoint.prepared /\ result[arm] # <<>> /\ ~Locked(arm)

\* A cleanup lists the delivered attempts, opens their locks and then takes them.
\* The lock of one that another cleanup has removed meanwhile is free: it may
\* come to the workspace long after, when the name is in use again.
Listed(n) == n \in 1..runs /\ (n = base.native => Removable("baseline", base))

\* It removes a workspace file by file, and may be killed at any of them.  (The
\* workspace of a delivered hint arm is one of these as well.)
RemoveWorkspace(n) ==
  /\ Listed(n) /\ ~Absent(n)
  /\ w' \in {[w EXCEPT ![n] = None], [w EXCEPT ![n] = @ \cup Partial]}
  /\ UNCHANGED <<at, base, hint, source, result, runs>>

\* and then the checkpoint.  Meanwhile the hint arm may have restored the workspace.
CleanBaseline ==
  /\ Removable("baseline", base)
  /\ base' = NoBase
  /\ \/ w' = [w EXCEPT ![base.native] = None]
     \/ hint.from = base.native /\ UNCHANGED w
  /\ UNCHANGED <<at, hint, source, result, runs>>

CleanHint ==
  /\ Removable("hint", hint)
  /\ hint' = NoHint
  /\ w' = [w EXCEPT ![hint.from] = None]
  /\ UNCHANGED <<at, base, source, result, runs>>

\* The operator archives a delivered baseline to run it anew.
ArchiveBaseline ==
  /\ at["baseline"] = "idle" /\ result["baseline"] # <<>> /\ base = NoBase
  /\ runs < MaxRuns
  /\ result' = [result EXCEPT !["baseline"] = <<>>]
  /\ UNCHANGED <<at, base, hint, source, w, runs>>

Next ==
  \/ StartBaseline \/ PrefixPhase \/ RetainPrefix \/ ForkControl \/ ControlPhase
  \/ WriteBaseline \/ RestoreOwn \/ BeginCopy \/ EndCopy \/ ForkHint \/ HintPhase
  \/ WriteHint \/ CleanBaseline \/ CleanHint \/ ArchiveBaseline
  \/ \E arm \in ArmNames : Merge(arm) \/ Stop(arm)
  \/ \E n \in Natives : RemoveWorkspace(n)

Spec == Init /\ [][Next]_vars

-----------------------------------------------------------------------------
Sessions == {"prefix", "control", "hint"}

RoleOK(role, phases) ==
  /\ Metered(phases)
  /\ \A i \in DOMAIN phases : phases[i].text = <<role, i>>

TypeOK ==
  /\ at \in [ArmNames -> {"idle", "prefix", "fork", "control", "copy", "branch", "merge"}]
  /\ base.native \in 0..MaxRuns /\ base.forked \in BOOLEAN /\ base.prepared \in BOOLEAN
  /\ RoleOK("prefix", base.prefix) /\ RoleOK("control", base.control)
  /\ hint.from \in 0..MaxRuns /\ hint.named \in BOOLEAN /\ hint.forked \in BOOLEAN
  /\ hint.prepared \in BOOLEAN /\ hint.saw \subseteq Sessions \cup Partial /\ RoleOK("hint", hint.branch)
  /\ Retained =>
       /\ source[1].native \in Natives /\ source[1].work \subseteq Sessions
       /\ RoleOK("prefix", source[1].phases)
  /\ \A n \in Natives : w[n] = None \/ w[n] \subseteq Sessions \cup Partial
  /\ \A arm \in ArmNames : result[arm] # <<>> => Metered(result[arm][1].phases)
  /\ runs \in 0..MaxRuns

\* What the workspace held at the hint's fork: nothing that was written after the
\* prefix, though perhaps not all of it.
PrefixOnly(saw) == saw \subseteq {"prefix"} \cup Partial

\* "Matched native-session intervention": two delivered siblings forked the
\* same native session, and the hint's fork saw nothing of what the control had
\* written into the workspace whose name they share; up to the tokens of their
\* prefix every budget cut takes the same write-up, and at exactly those tokens it
\* is the proof the retained prefix is recorded with.
SiblingsAgree ==
  LET control == result["baseline"][1]
      treated == result["hint"][1]
  IN  result["baseline"] # <<>> /\ result["hint"] # <<>> =>
        /\ control.native = treated.native
        /\ PrefixOnly(treated.saw)
        /\ PhaseAtCut(treated.phases, Spent(control.prefix)) = ProofAtPrefix(control.prefix)
        /\ \A threshold \in 0..Spent(control.prefix) :
             PhaseAtCut(control.phases, threshold) = PhaseAtCut(treated.phases, threshold)

\* "Retained-prefix workspace collides with another attempt": a hint arm never
\* forks from a workspace its sibling has gone on in, delivered or not.
ForksRetained == hint.forked => PrefixOnly(hint.saw)

\* "the late prefix deliberately runs to its fixed 3x boundary before forking":
\* a retained prefix stopped at its token limit.
PrefixAtBoundary ==
  Retained => source[1].spent >= PrefixBudget - Reserve
=============================================================================
