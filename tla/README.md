# Verification of the experiment harness

This directory holds a TLA+ development for the benchmark harness of this
repository: a program that spends a fixed budget of provider tokens on solving
an olympiad problem, survives kills, quota rejections and duplicated
invocations, and must never lose, repeat or miscount what it has paid for.

The modules model the core of that program: accounting, the durable checkpoint,
the Self-Refine controller, the stream of provider messages behind one phase, the
credential pool, the way of one attempt from a container to the results tree,
banks of attempts, the late-intervention arms, the budget cuts an attempt is
graded on, and the audits that grade them. TLC checks the modules on small
instances; TLAPS proves the most important theorems for every value of the
constants.

## 1. Inventory of the system

Paths are relative to the repository.

| Part | Code | State | Operations |
|---|---|---|---|
| Credential pool | `src/token_pool.py` | live keys, cooldowns, rotation index, change event | `acquire`, `mark_rate_limited`, `mark_dead` |
| Session | `src/solver.py` `ResumableClaudeSession` | transcript UUID, CLI process, key, pending prompt, deferred recovery | `_open`, `query`, `receive_response`, `_recover`, `interrupt` |
| Accounting | `src/solver.py` `BudgetTracker` | spend, completed phases, streamed tokens, per-message maxima, seen and sealed ids | `add`, `observe_message_id`, `seal_message_ids`, `finish_phase`, `restore` |
| Phase runner | `src/solver.py` `run_phase` | what one query has produced | stream loop, cutoff interrupt, choice of the Result, true-up |
| Checkpoint | `src/checkpoint.py` | `.lock`, `state.json`, phase files, workspace | `begin_phase`, `save_progress`, `finish_phase`, `phases`, judge calls, `complete` |
| Controllers | `src/run.py` | round number, streak, phase list | single and sequential attempts, selection |
| Banks | `src/run.py`, `src/storage.py` | planner checkpoint, members' checkpoints, bank marker | `solve_parallel_bank`, `solve_uniform_strategy_bank`, `write_*_meta` |
| Task runner | `src/concurrency.py` | tasks in flight | `run_all`, `nested_controller_limit` |
| Outputs | `src/storage.py` | files of an attempt, `meta.json` last | `write_seed_outputs`, `*_done` |
| Budget cuts | `src/storage.py` | none | `final_solution_text`, `_phase_at_cut`, `materialize_budget_cut_snapshots` |
| Host lifecycle | `run.sh`, `scripts/prune_staging.py`, `src/cleanup_checkpoints.py` | staging tree, results tree | stage markers, prune, merge, clean up |
| Audits | `src/audit.py`, `src/state_audit.py` | judge calls, verdicts by text | `audit_seed`, `state_audit_seed` |
| Late intervention | `src/late_intervention.py`, `src/run.py` | retained prefix, shared workspace name | `save_prefix_source`, `load_prefix_source`, `fork_native_session`, `solve_late_*_seed` |
| Around it | config, prompts, models, proxy, reports, migrations | no protocol state | validation, text, statistics |

How they interact. `run.sh` creates a staging tree, copies the completion markers
into it and starts a container. There `run_all` runs one task per attempt. A task
opens the attempt's checkpoint under its lock, opens a session with a key from
the shared pool, and lets a controller run phases. Each phase submits one prompt
and consumes a stream; every envelope is charged to the tracker and written to
`state.json` before the next is read. A finished phase is written to a file of
its own and then closed in `state.json`. When the controller ends, the outputs go
to staging, `meta.json` last, and the checkpoint is marked complete. The EXIT trap
of `run.sh` prunes partial attempts, merges staging into the results tree and
removes the checkpoints whose markers arrived there. A bank is a task whose
members run under a `run_all` of their own, inside the one of `main`. The two late
arms meet only through the retained prefix and through the name of a workspace.
The audits read finished attempts, keep their judge calls under the same kind of
checkpoint, and write their records straight into the results tree.

What is hard about it. The process may die between any two of these steps, so
every pair of writes can be torn. The pool is shared by concurrent tasks and its
waiters sleep outside the lock. Several `run.sh` invocations share the checkpoint
root and the results tree. A resumed provider CLI replays old messages.
`PROJECT.json` lists each hazard at its line.

What makes each part correct:

* pool: nobody sleeps on an outdated deadline, nobody waits for ever, a late
  report never shortens a cooldown;
* accounting and checkpoint: durable spend never drops, every state a kill leaves
  is accepted by the next start, phases are committed once and in order;
* controller: working phases start below the soft limit, the wrap-up runs once
  in its window, decisions survive a restart, the attempt ends;
* lifecycle: a paid phase is not lost before delivery, partial outputs are not
  merged, one process at a time works on an attempt;
* banks: a bank is complete only with all its members, of one strategy set, which
  the members cannot see; its sessions stay within the capacity; it can be resumed;
* budget cuts: a cut is what a run stopped at that budget would have been graded on;
* late intervention: the two arms continue one and the same prefix;
* audits: a verdict belongs to the text it is recorded for, and never changes.

## 2. Modules and their correspondence to the code

```
BudgetTracker ── AttemptCheckpoint ── SequentialAttempt ── MCSequentialAttempt
      │                                     │   └── SequentialAttempt_proofs
      │                                     └─ AttemptLedger (refined by it)
      └─────── MessageTracker ── PhaseStream ── MCPhaseStream
                                      └──────── PhaseStream_proofs
TokenPool ── MCTokenPool
  └──────── TokenPool_proofs
AttemptLifecycle ── MCAttemptLifecycle
  └──────── AttemptLifecycle_proofs
Banks ── MCBanks
  └──── Banks_proofs
BudgetCuts ── LateIntervention ── MCLateIntervention
      │  │         └───────────── LateIntervention_proofs
      │  └─── Audits ── MCAudits
      │         └────── Audits_proofs
      └────── BudgetCuts_proofs (extended by the last two)
```

Definitions keep the names of the code where they can; `PROJECT.json` gives the
lines of each. A definition whose comment says "Faulty variant" is a plausible
bug that the property naming it is known to find; nothing else uses it.

**`BudgetTracker`** – the counters `spent`, `completed`, `streamed` and the two
limits of `BudgetTracker`, as operators on a record: `Charge` (the end of
`add`), `FinishPhase`, `Exhausted`, `SoftExhausted`, and `Restorable`, the check
`restore` makes.

**`AttemptCheckpoint`** – what is on disk for one role: the role's entry of
`state.json` (`RoleStates`) and the phase files (`PhaseFiles`). `Reconcile` is
what `phases()` does to a state it finds after a kill; `WritePhaseFile` and
`FinishPhaseIn` are the two writes of `finish_phase`. Texts, tool calls and
timestamps are left out. Of a phase file the label, the tracker, whether the
phase was interrupted and whether the critique reports no gap remain, because
these are what a restarted controller reads.

**`SequentialAttempt`** – `_run_sequential_role`, with `_checkpointed_phase`,
`run_phase` and `_run_strict_wrap_phase` inlined. `stage` is the place in the
controller, `step` the place inside the phase; each step lies between two points
at which a kill leaves a different disk. `Kill` may happen anywhere and clears
everything but `disk` and `files`. `CallFails` is an exception out of
`run_phase`, whose `finally` still saves the session. `Refine = FALSE` gives the
single-session arm. `raised` is a state of its own: a `ValueError` or
`RuntimeError` about the checkpoint would come again at every restart.

**`AttemptLedger`** – the abstract specification: one process, no kills, no files:
phases are appended one by one by the protocol's rules. `SequentialAttempt`
instantiates it with a refinement mapping (`RefinesLedger`): whatever is killed
and restarted, the list of committed phases grows as if nothing had happened.

**`MessageTracker`** – the part of `BudgetTracker` that decides *how much* an
envelope charges: the largest count of each message id, the ids seen without a
count, the sealed ids.

**`PhaseStream`** – `run_phase` and `ResumableClaudeSession.receive_response`
envelope by envelope. `leg` holds what is kept per connection, `query` what is
kept per call of `run_phase`, `text` and `residual` the text blocks and the
stream deltas kept so far. Each envelope is one action; the ends of a leg
(`StreamEnds`, `StreamBreaks`, `StreamRaises`) lead to the decision of
`receive_response` (`DeferRecovery`, `RecoverRejected`, `RetryTransport`,
`GiveUp`, `ReturnResponse`); `CommitPhase` is the choice of the Result, the
true-up, sealing and commit. `made`, `heard`, `asked` and the `after` of a query
are history variables: what the provider really generated and reported.

**`TokenPool`** – `acquire`, `mark_rate_limited`, `mark_dead` and the change event.
A session that sleeps outside the lock is `waiting` with the deadline it computed
(`wakeAt`). `mark_rate_limited` computes its time just before it takes the lock;
that is one step here. Whole time units stand for seconds.

**`AttemptLifecycle`** – one attempt and several `run.sh` invocations: staging
seeded with markers, `.lock` (by inode), `state.json`, workspace, the outputs
written to staging, the EXIT trap (prune, merge, cleanup). The solving is the
counter `units`; `SequentialAttempt` has its detail. `rsync` and `flock` are
external: a merge copies in name order, `meta.json` first, and a lock belongs to
an inode. `Kill` is the death of `run.sh` with its container, which orphans its
staging tree; a container that fails still goes through the trap (`run_all`
swallows exceptions, so the process ends normally).

**`Banks`** – the three kinds of bank over several invocations of `run.sh`. `canon`
and `staging` are a bank's directory in the two trees (members, bank marker,
`strategies.json`), `fresh` what has a `solution.md` in staging, which is what
`prune_staging` looks at. `plans` and `work` are the planner's and the members'
checkpoints, keyed by the protocol fingerprint and, for a member, by its strategy
text, as `run_checkpoint_identity` builds them. `ctl` and `member` say where each
controller and each task stands; `MayAdmit` and `AdmitMember` are the two
limiters of `run_all`. `MergeBank` and `MergeMember` are `rsync` by directory.
`EditProtocol` and `Archive` are the operator: an edited prompt, and the remedy
the refusal message of an unresumable bank asks for. A member's phases and the
files of a directory are one step each; `SequentialAttempt` and
`AttemptLifecycle` have their detail.

**`BudgetCuts`** – operators on a trajectory of phases: `SparseCuts` and
`DenseCuts`, `PhaseAtCut`, `FinalSolution`, `ProofAtPrefix`, `OffsetPhases`, and the
reference `HardStopped`: what a run that stopped at the threshold would have
completed.

**`LateIntervention`** – the baseline (a prefix, its snapshot, a fork of it without
a hint) and the hint arm (the restored snapshot, a fork with a hint) of one problem
and seed. `source` is the retained prefix, `w` the files in each workspace by who
wrote them, `base` and `hint` the two checkpoints. `BeginCopy` and `EndCopy` split
the `copytree` of `restore_scratch_dir`, because a kill in between leaves part of
the files there. `Stop` ends an invocation at any place: it is killed, or its task
raises and `run_all` logs that. The cleanups are actors of their own
(`RemoveWorkspace`, `CleanBaseline`, `CleanHint`), enabled whenever a delivered
checkpoint's lock is free, because every `run.sh` of either arm ends with one, whether
it worked on this pair, on another, or skipped. Each may be killed at any file
(`Partial`), repeated, and come late: it lists its victims before it takes their
locks. There is no bound on kills, failures or cleanups. `ArchiveBaseline` lets the
operator run a delivered baseline anew while the old prefix is still retained.

**`Audits`** – `audit.py` and `state_audit.py` as two stages of one invocation. `rec`
holds the audit records of both stages, `ckpt` and `held` the checkpoints with
their locks, `task` the attempt an invocation is working on: `Take`, `Lock`, `Ask`,
`Answer`, `Prepare`, `Commit`, `CompleteAttempt`, `Remove`. `CompleteAttempt` unlocks
before `Remove` deletes, as `clear()` does. `RoleOf` says which label's call judges
a text; `Base` and `Reusable` take verdicts from an earlier record. `given` is a
history variable: every answer a judge ever gave.

### What the models assume of the environment

* `SequentialAttempt`: the provider's charges come from `Deltas` and `TrueUps`;
  generation stops within `SpendCap`.
* `PhaseStream`: every message of the transcript was announced by at least its
  `message_start` before its connection ended; the final count of a message is
  streamed before the provider starts the next; a count never exceeds the true
  one; an interrupted Result counts only turns whose counts are out; a replay
  comes only from a resumed CLI before it answers, and a stale Result only from
  one that generated nothing; after the answering Result comes no further output.
  Errors may come after it: rate-limit events, error Assistants, fatal Results and
  exceptions of every kind. All messages carry ids. The first of these is a real limit:
  a message lost in flight and replayed after a restart counts as fresh in the
  code, and nothing in the code could tell.

* `Banks`, `LateIntervention`, `Audits`: a session of a member, a phase or a judge
  call ends with an answer or an exception; what happens inside is in the modules
  above. Workspace names drawn at random do not collide.
* `Audits`: the write-ups of a finished attempt do not change. Nothing in the
  harness writes them again, and the state audit relies on it: its checkpoint
  identity contains neither the texts nor a protocol fingerprint.

## 3. Runs

Run in this directory, for instance
`tlc -workers 2 -config SequentialAttempt.cfg MCSequentialAttempt`.

| Run | Module, config | Distinct states | Question |
|---|---|---|---|
| `sequential` | `MCSequentialAttempt`, `SequentialAttempt.cfg` | 357 k | does an attempt survive kills anywhere? |
| `phase_stream` | `MCPhaseStream`, `PhaseStream.cfg` | 821 k | is a stream over several connections charged once and committed once? |
| `token_pool` | `MCTokenPool`, `TokenPool.cfg` | 24 k | can a waiter sleep too long, or a cooldown shrink? |
| `lifecycle` | `MCAttemptLifecycle`, `AttemptLifecycle.cfg` | 1.16 M | do concurrent invocations lose work or merge partial work? |
| `banks` | `MCBanks`, `Banks.cfg` | 203 k | is a bank certified whole, of one strategy set, within capacity, and does it end? |
| `late` | `MCLateIntervention`, `LateIntervention.cfg` | 1.21 M | do both late arms continue one and the same prefix, and nothing written after it? |
| `audits` | `MCAudits`, `Audits.cfg` | 443 k | does a record hold only verdicts given for its texts? |
| `token_pool_rotation` | `MCTokenPool`, `TokenPoolRotation.cfg` | – | violation: round-robin after `mark_dead` |
| `handoff_text` | `MCPhaseStream`, `HandoffText.cfg` | – | violation: a handoff erases streamed text |
| `duplicate_invocations` | `MCAttemptLifecycle`, `DuplicateInvocations.cfg` | – | violation: two workers on one attempt |
| `interrupted_merge` | `MCAttemptLifecycle`, `InterruptedMerge.cfg` | – | violation: checkpoint deleted after half a merge |
| `late_prefix_boundary` | `MCLateIntervention`, `PrefixBoundary.cfg` | – | violation: a prefix retained below its boundary |

### Bounds, and why they are enough

* **sequential**: Budget 9, Reserve 2 (soft limit 7), charges of 1 or 2, true-ups
  of 0 or 1, at most 10 tokens, convergence at 3 rounds with a streak of 2, two
  kills. A first phase, up to three critiques, revisions and a wrap-up fit below
  the soft limit, so convergence by streak, exhaustion inside and between phases,
  overshoot of both limits and a wrap-up all occur, and a phase can be killed, resumed
  and killed again at the torn write.
* **phase_stream**: two messages of 2 tokens, two phases, soft limit 3, one
  retry, one kill, one fault; a stream that ends without an answer costs no
  fault. Two messages let one phase be sealed and replayed in the other, one
  connection generate a message while the next replays it, and the cutoff fall on
  the first or a replacement connection. One fault with free empty streams lets a
  quota rejection, a transport loss, exhausted retries and a deferred handoff
  follow each other. With two faults (3.7 M states) nothing else was found.
* **token_pool**: two sessions, two keys, reset times 0 (unknown), 2 and 3, clock
  to 4, reports to time 2: a waiter can be woken by a disabled key, by an
  extended cooldown and by its timeout, or find the pool empty.
* **lifecycle**: three invocations, two units, one restart. Two invocations show
  the races of a lock with a cleanup; the third is needed to own the second inode.
  Invocations differ only by name and only safety is checked under symmetry.
* **banks**: two members and two strategies. Parallel banks: two of them with
  capacities 1, 3 and 4 in one invocation (fewer sessions than members, a
  remainder, two controllers at once), and one over three invocations with an
  edit. Uniform and planner-only banks: one over three invocations with an edit,
  so a set can be planned, half executed, edited away and planned again. `MaxCuts`
  is 0: a merge that is killed halfway is finding 4, and with it `BankResumable`
  and `OneStrategySet` fail as the observations below say.
* **late**: a unit of 2 tokens with a reserve of 1, a prefix of 2 units, phases of
  1 or 3 tokens, one critique without a gap to converge, two baselines begun from
  nothing; kills, failures and cleanups without a bound. A phase of 3 overshoots the
  limit of a unit and lands on that of the prefix, phases of 1 end exactly on both; the
  prefix converges early or runs to its wrap-up, and the hint arm may start while a
  second baseline is running. With one prefix retained for good, a third baseline
  meets what the second one does.
* **audits**: four units (sparse cuts 1 and 2, dense 1 to 3), scores 0 and 7,
  steps 1 and 3, three trajectories: a text that comes back after another, one
  that is missing at first, and none in full. Arms: a sequential attempt in three
  invocations one after another and in two that overlap; a bank of two members,
  of one with overlap, and of none; a planner's proposals. One kill.
* `CHECK_DEADLOCK FALSE` where the system may really stop: every session may have
  failed on an empty pool, every invocation may have ended and the operator need
  start no other, a refused workspace stops both late arms.

### What the properties say

`sequential`: `NeverRaises` no checkpoint a kill can leave is refused;
`OneTranscript` no second provider conversation is ever started;
`ProgressRebuilt` round and streak rebuilt from files equal those the
uninterrupted controller carries; `PhaseWindows` working phases begin below the
soft limit, one wrap-up, last, between the limits; `NoQueryPastCutoff`
`_checkpointed_phase` never submits or re-submits a prompt once the durable spend
of the phase has reached its cutoff; `DurableSpendNeverDrops`; `RefinesLedger`;
`AttemptEnds`. `NoQueryPastCutoff` is about starting and resuming phases: a live
reconnect *does* repeat the pending request past the cutoff, and the
replacement is interrupted at its first `message_start`
(`CutoffStopsEveryLeg`).

`phase_stream`: `ChargedOnce` and `ReportedIsCharged` bound the spend from above
by what was generated and from below by what was reported, through replays, true-ups and
restarts; `TextIsOfItsQuery` no replayed or discarded text enters a phase;
`CompletionIsFresh` only output generated on the connection of the Result
certifies a completion; `CutoffStopsEveryLeg`; `RetriesBounded`;
`AnswerIsCommitted` an answer that is there is committed with all its text and never
asked again, whatever else is replayed, retried, handed over or fails after it.
It has two exceptions, a kill and the failures over which the code itself gives an
answer up while its stream lasts (`GivenUp`): a non-retryable exception out of the
stream, a fatal error Result, and an error Assistant that takes back all fresh output.
Once the stream is over nothing but a kill is excepted.

`token_pool`: `NoStaleWait`, `CooldownsOnlyGrow`, `AcquireReturns`.

`lifecycle`: `PaidWorkKept`, `FinishedIsDelivered`, `PartialNeverMerged`,
`WorkspaceKept`, `OneWorkerUntilDelivered`. The last two hold only until the
attempt is delivered; what happens after is in the findings.

`banks`: `MarkerCertifiesMembers` no bank marker is written over missing members,
although `run_all` swallows a member's exception; `OneStrategySet` the executors of
a delivered bank worked on the strategies of the one set it publishes, each on the
one its index names; `WithinCapacity` planners and members of all banks together
stay within `--max-concurrency`; `StrategiesHidden` no executor runs while the
set is in the mounted tree; `BankResumable` a pending bank with finished
executors has the planner's checkpoint, unless the protocol was edited;
`InvocationEnds`.

`late`: `SiblingsAgree` two delivered arms forked the same native session, and every
budget cut up to the fork is the same in both; the cut exactly there is the proof
the prefix is recorded with. Among the files the hint was forked over were none that
the control, a hint or a later baseline had written. That they were *all* the prefix
left is not claimed: the observations below say why. `ForksRetained` says the same of
the fork itself, delivered or not; it is proved, not run.

`audits`: `VerdictsOfText` every recorded verdict was given for exactly the recorded
text, and equal texts of a record have one verdict; `RecordsFrozen` a verdict on
file never changes or disappears, also when a killed dense audit asks again;
`AcquiredForGood` no later label loses a state S, and a dense annotation takes no S
away. `RecordsFrozen`, the second half of `AcquiredForGood` and the scores of a bank are
claimed only for invocations that do not overlap (`arm.alone`): two that do
hold the same list of pending attempts, the second one judges an attempt again
after the first has removed its checkpoint, and its record replaces the first.

Every property of a passing run has a mutant in `PROJECT.json` that violates it.

### Fairness

* `SequentialAttempt!FairSpec` is weak fairness of `ProcessStep`: the process is
  scheduled, the operator restarts it, and the provider answers. `MaxKills`
  bounds kills and failed calls, so they stop: without that no attempt need end.
* `TokenPool!FairSpec` is weak fairness of `Tick` and of each session's
  `PoolCall`: time passes and the event loop runs ready tasks. Nothing is assumed
  of `Request`, `HitRateLimit`, `HitSpendLimit` and `StopUsing`: sessions may
  never ask, and keep a key for ever.
* `Banks!Spec` has weak fairness of `MainReturns`, `Trap`, each `Controller` and each
  `Task`: the event loop runs every task that can go on, each session ends with an
  answer or an exception, and `run.sh` carries its trap through unless it is killed. Nothing
  makes the operator start an invocation.
* `PhaseStream`, `AttemptLifecycle`, `LateIntervention` and `Audits` state no
  fairness; only safety is checked.

## 4. Proofs

`tlapm SequentialAttempt_proofs.tla` (2105 obligations) proves for every budget,
reserve, threshold, set of charges and number of kills:

| Theorem | Statement |
|---|---|
| `TypeCorrect` | `Spec => []TypeOK` |
| `AttemptNeverWedged` | `Spec => []NeverRaises` |
| `PaidSpendIsKept` | `Spec => DurableSpendNeverDrops` |
| `QueriesStayBelowCutoff` | `Spec => NoQueryPastCutoff` |

The assumptions are those named in `BudgetTracker` (`BudgetAssumption`) and
`SequentialAttempt` (`ControllerAssumption`); TLC evaluates them in every run.

`NeverRaises` is not inductive: that the next start accepts what it finds depends
on how far the killed process had come. `IInv` adds, conjunct by conjunct:

* `Whole \/ Torn` – either the phase files are exactly those `state.json` counts,
  or there is one more, carrying the id, label and a settled tracker of the
  active phase. These are the only two shapes a kill can leave.
* `Consistent` – each tracker, live or stored, passes the check of `restore`.
* `IdsDrawn` – phase ids are handed out in increasing order, so a stale file can
  never be taken for the active phase.
* `ActiveShape` – with which label, sequence number and cutoff a phase is begun.
* `ProcessShape` – for each control point, what the process knows of the disk:
  that the live tracker equals the stored one between queries and is ahead of it
  inside one, which labels may be active at which stage, and that the
  session UUID agrees.

`ReadBack` derives from it what `phases()` reads; `TrackerOps` and `WriteTears`
cover the accounting and the torn write; `EnterPhaseIInv` serves every stage
that enters a phase; one lemma per action completes the step. TLC checked `IInv`
as an invariant before it was proved.

Its second half goes on from there to what several processes of one attempt have in
common:

| Theorem | Statement |
|---|---|
| `OneConversation` | `Spec => []OneTranscript` |
| `WindowsAreKept` | `Spec => []PhaseWindows` |
| `ProgressIsRebuilt` | `Spec => []ProgressRebuilt` |
| `ImplementsLedger` | `Spec => RefinesLedger` |

`IInv` does not say enough for these: it is about what a restart accepts, not about
what was done before. `HistoryInv` adds `TranscriptShape` (every prompt went to the
UUID on disk, and a session in memory is that one), `WindowShape` (the counted phases
and the active one were begun inside their windows, and where nothing is active the
durable spend is that of the last phase), and `CounterShape` (inside the loop the
counters are ahead of the counted critiques by the one being run, and by no other). The
refinement maps `files`, minus a torn last one, to the ledger's phases (`Committed`,
`OpenPhase`, `Paid`); a kill, a restart, `Reconcile` and every write before the second
one of `finish_phase` are stutters, and that second write is the ledger's append. The
torn file is why the mapping cannot be read off the directory.

`tlapm PhaseStream_proofs.tla` (2010 obligations) proves for any number of messages,
counts, phases, retries, kills and provider failures:

| Theorem | Statement |
|---|---|
| `StreamTypes` | `Spec => []TypeOK` |
| `NothingChargedTwice` | `Spec => []ChargedOnce` |
| `HeardIsCharged` | `Spec => []ReportedIsCharged` |
| `OwnTextOnly` | `Spec => []TextIsOfItsQuery` |
| `EveryLegIsCut` | `Spec => []CutoffStopsEveryLeg` |
| `RetriesEnd` | `Spec => []RetriesBounded` |
| `CompletionsAreFresh` | `Spec => CompletionIsFresh` |
| `AnswersAreCommitted` | `Spec => AnswerIsCommitted` |

The assumptions are `StreamAssumption`, `MessageAssumption` and `BudgetAssumption`. The
spend is a counter, and every claim about it is a claim about a sum over messages, so
the heart of `IInv` is `Sound`: the spend *is* the sum over all messages of what each
stands for (`ChargedIn`), all it cost if a Result has paid for it, else the largest
count heard. `ChargedOnce` and `ReportedIsCharged` compare that sum term by term with
the costs and with `heard`. That a Result's true-up keeps it (`PaidIs`) is the subtle
step: it needs that the fresh ids of a connection are the messages generated on it and
none of them sealed (`LegKnows`), and what a Result's total can be worth for the query it
ends (`LegAnswers`: all own messages, or, once interrupted, no more than was observed).
`LegCut` and `QuerySound` carry the cutoff, the text and the prompts. All parts of
`IInv` were checked by TLC before they were proved.

Sums are `MapThenSumSet` of the community modules, defined by recursion on a set. Their
laws (`SumRemove`, `SumSplit`, `SumMonotone`, `SumChange`, ...) are proved from the
definition: that the recursion has a solution, and every law after it, is an
induction on the size of a set, which the provers can do as an argument about a least
counterexample (`LeastNatural`, `SubsetInduction`), a set instead of a predicate.

`tlapm TokenPool_proofs.tla` (325 obligations) proves for any sessions, rotation,
cooldowns and reported reset times:

| Theorem | Statement |
|---|---|
| `PoolConsistent` | `Spec => []TypeOK` |
| `NoWakeUpLost` | `Spec => []NoStaleWait` |
| `CooldownsNeverShrink` | `Spec => CooldownsOnlyGrow` |

`TypeOK` is not inductive: after `mark_dead` the cooldowns are those of exactly the
live keys only if no key is in the rotation twice (`Live`), which holds because the
configured keys are distinct and nothing is ever added. `NoStaleWait` then is
inductive with it: a report moves the earliest reset only together with waking
everybody who waits for it.

`tlapm AttemptLifecycle_proofs.tla` (1079 obligations) proves for any number of
invocations, phases and restarts:

| Theorem | Statement |
|---|---|
| `LifecycleTypes` | `Spec => []TypeOK` |
| `NothingHalfMerged` | `Spec => []PartialNeverMerged` |
| `FinishedIsMerged` | `Spec => []FinishedIsDelivered` |
| `WorkspaceIsFound` | `Spec => []WorkspaceKept` |
| `LockExcludes` | `Spec => []OneWorkerUntilDelivered` |
| `CommittedPhasesKept` | `Spec => PaidWorkKept` |

`LocalShape` ties each place of an invocation to its lock, its staging tree and the
results tree; `LockExclusive` is what `flock` gives: one holder per *inode*, not per
name. The two become exclusion through `Undelivered`: before delivery nothing has been
removed, so every open lock file is the one in the directory, the holder's memory is
what `state.json` holds, and the workspace that names exists. After delivery none of
this is true, and finding 3 is what happens then. Inode numbers and workspace names are
natural numbers without a bound, `Unused` one not in use; `UnusedIs` shows it exists.

`tlapm BudgetCuts_proofs.tla` (164 obligations) proves for trajectories of any
length, any texts and any threshold:

| Theorem | Statement |
|---|---|
| `CutIsHardStop` | `PhaseAtCut` = `HardStopped` |
| `ForkKeepsPrefixCuts` | up to the tokens of a prefix, the cut of prefix and offset continuation is the cut of the prefix |

The only assumption is `Metered`: cumulative counts never decrease, which is the
spend of `SequentialAttempt` from phase to phase. `LastOf` picks the greatest
member of a set of indices by `CHOOSE`, so first its existence is shown
(`LeastNatural`, from the well-foundedness of the naturals, turned around). Metered
counts make the phases within a threshold a prefix of the trajectory
(`WithinIsPrefix`); then the set the code filters and the set a stopped run would
have completed are one. For the second theorem the phases of the continuation lie
behind the fork (`OffsetBehindFork`), so below it both sets are the prefix's. At the
fork itself a continuation counts only from its first token: its phases spend at
least one, and that is part of the theorem's hypotheses.

`tlapm Banks_proofs.tla` (1927 obligations) proves for any number of banks, members
and strategies, any capacity and any history of failures, kills, edits and
restarts; the first four of any halfway merges too:

| Theorem | Statement |
|---|---|
| `TypeCorrect` | `Spec => []TypeOK` |
| `CertifiedWhole` | `Spec => []MarkerCertifiesMembers` |
| `ExecutorsBlind` | `Spec => []StrategiesHidden` |
| `PeakWithinCapacity` | `Spec => []WithinCapacity` |
| `MembersOfOneSet` | `Spec => [](cuts = 0 => OneStrategySet)` |
| `RestartsFindThePlan` | `Spec => [](cuts = 0 => BankResumable)` |

The only assumption is `BanksAssumption`. None of the properties is inductive alone.
`IInv` adds `QuietHost` (without a container every controller and task is closed,
so merge, cleanup and edits meet no live bank) and, per bank, `TasksInFanout` (a
member is in its task only while its bank fans out), `PlanHeld` (a bank that fans
out has a usable strategy set: without it a member's text, and so its checkpoint's
identity, would be undefined), `Unpublished` (no `strategies.json` in staging before
the executors have ended) and `NoBankMarker` (a planner-only tree never carries a
bank's certificate: such a tree is seeded back with its marker, so an inherited
certificate would stand over missing members). `ControllerFrame`, `TaskBank` and
`OtherBank` confine a step to its bank; `HostBanks` covers `run.sh` and its operator.

`PeakWithinCapacity` counts. `LimitInv` says what each limiter keeps: at most
`OuterLimit` controllers inside `main()`'s, at most `InnerLimit` tasks in a bank's own,
and no planner in a parallel arm. `AdmissionSteps` shows that one step adds at most one
element to either set, and only below its limit. `LimitsKeepCapacity` then has two
cases: with several controllers `OuterLimit * Branches <= capacity` and the live
members are a subset of controllers × members; with one controller it is either
planning or its members are bounded by `InnerLimit <= capacity`. This is where the
quotient of `nested_controller_limit` and its floor of one are needed.

The last two rest on `StrategyInv`, which TLC checked before it was proved. Per bank,
`SetInv` relates the planner's checkpoint, the staging tree, what the trap has still to
merge and the results tree: members were given what the plan says as long as there is
one (`Given`); a marker in the results tree certifies the members merged so far and
those still to come (`OnSet`, `Finishing`, `MergingTree`); a live container works on a
bank that has no marker (`SeededTree`); and a plan is lost only once its bank is done
(`PlansOf`). One lemma per action of `run.sh` and its operator, and one each for the
controller and the members of a bank. The hypothesis `cuts = 0` says that no merge has been killed
halfway so far: kills of a container, of a trap before or after its merge, failures,
restarts and edits are all included. Without it neither property holds (see the
observations after the findings).

`tlapm Audits_proofs.tla` (1850 obligations) proves for any directories, trajectories,
units, answers and invocations, overlapping or not, each killed at any step:

| Theorem | Statement |
|---|---|
| `AuditTypes` | `Spec => []TypeOK` |
| `RecordsAreJudgments` | `Spec => []VerdictsOfText` |
| `FrozenVerdicts` | `Spec => RecordsFrozen` |
| `StateIsAcquiredForGood` | `Spec => AcquiredForGood` |

The only assumption is `AuditsAssumption`. What a record holds depends on what the task
that wrote it had read, remembered and still had open, so `IInv` carries the same facts
through all of them:

* `Recorded` – of a record on file and of the one a task extends: its labels are one of
  the two schedules, each entry is `Faithful` (a verdict given for the text of the label,
  or `Missing`), equal texts have equal verdicts, and the S of an annotation are those
  from a complete recognition on (`Acquires`).
* `Remembered` – of a checkpoint on disk and of the one in memory: an answer kept for a
  label was given for that label's text.
* `TaskInv` – nothing is left `Open` when a task commits, so every text has an answer.
* `OnFile` – without overlap a task extends exactly what is on file, and a sparse
  schedule is asked for only where nothing is. This fails when invocations overlap,
  which is why `RecordsFrozen`, and of `AcquiredForGood` the part about an extension,
  speak of one invocation at a time.

`RoleIs` shows that the label judged for a text carries that text, whichever order the
stage judges in (`FirstLabel`); `VerdictsGiven` and `CommitRecord` then say what `Commit`
writes, and `Extends` that it drops no label. `Frame`, `Moved`, `Closed` and
`RecordWritten` reduce an action to the task that moves and the record it writes.

`tlapm LateIntervention_proofs.tla` (1194 obligations) proves for any units, stopping
rule, charges and number of baselines, with kills, failures and cleanups at any step:

| Theorem | Statement |
|---|---|
| `TypesOfBothArms` | `Spec => []TypeOK` |
| `DeliveredAreSiblings` | `Spec => []SiblingsAgree` |
| `HintForksRetained` | `Spec => []ForksRetained` |

The only assumption is `LateAssumption`. Both arms use one workspace and both clean it up,
so nothing about one arm is inductive without the other. The key is the last line of
`HintInv`: once the hint arm has begun, a baseline whose checkpoint is of the retained
prefix is over (`BaselineOver`: delivered and idle, its checkpoint left by a killed
cleanup), because before that its workspace is there and `restore_scratch_dir`
refuses. So nobody but the hint arm writes into its workspace any more; cleanups only
take files away. `CopyInv` is what that leaves: until the fork the restored workspace
is gone, whole, or thinned out, but `PrefixOnly`, and after it so is what the fork saw.
Its second half is `HintForksRetained`.

`SiblingsAgree` compares two deliveries made at different times. `ResultInv` says of each
alone that it has the native session and the phases of the retained prefix and is `Joined`
to it: metered, with its cuts up to the fork. `ForkIsJoined` derives that from
`ForkKeepsPrefixCuts` for any trajectory a role can commit (`CommitKeepsTrajectory`),
`CutAtFork` what the cut at the fork is. TLC checked all parts of `IInv` except `Shape`
first, with two baselines.

### Only model-checked

Liveness (`AttemptEnds`, `AcquireReturns`, `InvocationEnds`) is beyond the prover. Every
other property of a passing run is stated by a theorem.

## 5. Findings

1. **Round-robin order** (`token_pool_rotation`). `acquire` promises the next
   token in round-robin order; `mark_dead` removes a key without shifting the index, so a
   live key behind the removed one is passed over once.
2. **A handoff erases streamed text** (`handoff_text`). `current_stream_id`
   survives a reconnect. A quota error at the start of a replacement connection
   therefore retracts the text which the previous connection had streamed. Its
   tokens stay charged.
3. **Duplicate invocations** (`duplicate_invocations`). `.lock` is opened, then
   locked; a cleanup may unlink it in between, and two invocations run a
   delivered attempt again, each with a lock of its own.
4. **Half a merge** (`interrupted_merge`). `meta.json` is copied before
   `solution.md`; the cleanup reads its presence as the end of the merge.
5. **A prefix below its boundary** (`late_prefix_boundary`). `src/README.md` says
   the late prefix deliberately runs to its fixed 3x boundary. The code runs it
   with the no-gap rule of every other trajectory, and retains and forks it wherever it
   converged.

`PROJECT.json` quotes the promise each of them breaks.

### Observations that are not findings

No text of the repository promises otherwise, or the model leaves the case out by
a named bound, or a property names it as its exception; a maintainer should know of
them.

* Both late arms name one workspace, `restore_scratch_dir` takes any directory of a
  saved name for the restored one, and every `run.sh` of either arm cleans the shared
  namespace. If the baseline's cleanup is killed after it removed the workspace and
  before it removed the checkpoint, the next cleanup, of whatever invocation, removes
  or thins out what the hint arm has restored in the meantime. The fork then fails
  with the name saved; a kill inside the next copy leaves part of the snapshot
  under that name, and the start after it forks the native session over that part,
  although the function restores "an immutable native-session snapshot". Two kills are
  enough, and a cleanup that is killed inside the restored workspace, or overlaps the
  fork, does it with fewer steps. In the model these are the states in which
  `hint.saw` contains `Partial`; `ForksRetained` is what holds in them too.
* A rate-limit or server-error Assistant that arrives after the answering Result makes
  `run_phase` discard the fresh output (`solver.py:1275`), and the phase ends with "no
  fresh completed provider response"; a fatal Result after the answer, or an exception
  that is no transport failure, is raised over it. The answer is lost although
  `solver.py:209` says "If a response completed before a late rate-limit/transport
  envelope, commit it immediately". For a late rate-limit *event* and for a transport
  failure of the stream it is committed. The three cases are `GivenUp`, the exceptions
  of `AnswerIsCommitted`.
* A bank whose merge is killed between its own files and its members' loses its
  planner checkpoint to the next cleanup, because the marker is there; the bank is
  then refused until it is archived (`MaxCuts = 1`, same cause as finding 4).
* If the protocol is edited after such a kill and before any member was merged, the
  bank is planned anew. Should that container die once its members are written and
  before it certifies them, they are merged beside the old marker, and the bank
  counts as done with a manifest of strategies they were not given. With
  `MaxCuts = 1` TLC finds this as a violation of `OneStrategySet`.
* `restore_scratch_dir` copies before it saves the name. A kill inside the copy
  leaves a partial workspace that every later start of the arm refuses with
  `FileExistsError` until somebody removes it.
* A cleanup that is killed after it removed the baseline's workspace keeps the
  baseline's checkpoint; the next cleanup removes the workspace of that name again,
  which may by then be the hint arm's. That arm stops, refusing to reset a paid
  transcript.
* A dense audit that is killed after `prepare_completion` loses its checkpoint to
  the cleanup, because the sparse `audit.json` is taken for its marker: its judge
  calls are paid for again.
* `save_prefix_source` calls `rmtree` on a retained prefix only when
  `load_prefix_source` has refused it, so a kill there loses nothing that could
  have been used.
* `compress_uniform_strategies` stores the answers of all its three drafts. When
  none has the required length it raises, and so it does at every restart, since
  the stored drafts are replayed.

## 6. Not modelled, and why

* Selection: `run_selection` is a single-session attempt with one working phase and
  a wrap-up, through the same functions `SequentialAttempt` models; compression: a chain of judge
  calls under the checkpoint `Audits` models. What remains of both is parsing,
  sampling and a seeded shuffle.
* An orphaned container that outlives its `run.sh`.
* The hashes that validate a retained prefix: `load_prefix_source` finds a snapshot
  whole or refuses it.
* Provider failures inside a judge call (they are in `PhaseStream`), the proxy
  of the judge, the summaries over prefixes of a bank, the validation of a verdict.
* The termination of an audit: an invocation ends when its tasks do, as in `Banks`.
* In `run_phase`: tool records, messages without ids, the Result's aggregate
  text, costs. In the session: backoff times and the reading of stderr.
* Configuration, prompts, data models, reports, migrations, the OpenRouter proxy
  and the Codex account pool: text, validation, statistics and one-off scripts
  with no protocol state.

## 7. Plan

The order follows the money: what is paid for must not be lost or counted twice.

1. Done: accounting, checkpoint and controller with a refinement of the crash-free
   ledger and the first proofs; credential pool; lifecycle of an attempt; the message
   stream.
2. Done: banks with their proofs, late intervention, budget cuts with their proofs,
   audits.
3. Done: proofs of everything the runs check of the controller, its refinement, the
   message stream, the pool, the lifecycle, the banks, the audits and late intervention,
   liveness excepted.
4. Next: the accounting of `PhaseStream` as an implementation of what
   `SequentialAttempt` charges; selection and compression, if they gain protocol state.

The modules to be proved about declare no recursive operator.
