------------------------- MODULE SequentialAttempt -------------------------
(***************************************************************************)
(* One Self-Refine attempt (run.py: _run_sequential_role) driving its      *)
(* durable checkpoint, in a process that may be killed between any two     *)
(* steps and started again on the same identity.                           *)
(*                                                                         *)
(*     solve (critique revise)* [critique] [wrap_up]                       *)
(*                                                                         *)
(* The single-session arm is the same controller without the critique loop *)
(* (Refine = FALSE).  What the provider says is a choice: how many tokens  *)
(* each message charges, whether a critique reports no gap, whether a call *)
(* fails.                                                                  *)
(***************************************************************************)
EXTENDS AttemptCheckpoint

CONSTANTS
  Refine,         \* mode "sequential" (TRUE) or the one-phase arm (FALSE)
  InitialLabel,   \* label of the first phase: "solve", or "revise" for a late arm
  MinRounds,      \* SEQUENTIAL_MIN_ROUNDS_BEFORE_CONVERGENCE
  NoGapStreak,    \* SEQUENTIAL_NO_GAP_STREAK_TO_STOP
  Deltas,         \* tokens one streamed message can newly charge
  TrueUps,        \* tokens a ResultMessage can report beyond the stream
  SpendCap,       \* bound on the tokens the provider generates in all
  MaxKills        \* bound on process kills and failed calls

ASSUME ControllerAssumption ==
  /\ Refine \in BOOLEAN
  /\ InitialLabel \in {"solve", "revise"}
  /\ MinRounds \in Nat
  /\ NoGapStreak \in Nat \ {0}
  /\ Deltas \subseteq Nat \ {0}
  /\ TrueUps \subseteq Nat /\ 0 \in TrueUps
  /\ SpendCap \in Nat /\ SpendCap >= Budget
  /\ MaxKills \in Nat

VARIABLES
  disk,         \* state.json: the role's entry
  files,        \* the phase files
  uuid,         \* number of UUIDs drawn so far (sessions and phase ids)
  asked,        \* sessions a prompt has been submitted to (history)
  kills,        \* kills and failures so far
  stage,        \* where the process is in the controller, or "down"
  step,         \* where it is inside _checkpointed_phase / run_phase
  sess,         \* client.session_id
  tracker,      \* the live BudgetTracker
  interrupted,  \* run_phase: the cutoff was reached in this query
  fresh,        \* run_phase: fresh output arrived in this query
  rounds,       \* round_num
  streak        \* no_gap_streak

durable == <<disk, files>>
process == <<stage, step, sess, tracker, interrupted, fresh, rounds, streak>>
vars == <<disk, files, uuid, asked, kills, process>>

Stages == {"down", "load", "open", "session", "initial", "recover", "rebuild",
           "loop", "critiqued", "wrap_check", "wrap_open", "wrap_session",
           "wrap", "done", "raised"}
Steps == {"idle", "query", "stream", "persist", "commit"}

(***************************************************************************)
(* What the controller reads back from the phase list.                     *)
(***************************************************************************)
\* A critique that counts towards the streak
NoGapAt(i) == files[i].label = "critique" /\ ~files[i].exhausted /\ files[i].noGap

CritiqueAt == {i \in DOMAIN files : files[i].label = "critique"}

CritiqueCount == Cardinality(CritiqueAt)

\* consecutive no-gap critiques at the end of the list
TrailingNoGap ==
  Cardinality({i \in CritiqueAt : \A j \in CritiqueAt : j >= i => NoGapAt(j)})

\* Faulty variant: a restarted controller does not look for a wrap-up.
WrapUpForgotten == FALSE
HasWrapUp == \E i \in DOMAIN files : files[i].label = "wrap_up"

\* Faulty variant: one round too many.
SelfConvergedLate(round_num, no_gap) == round_num > MinRounds /\ no_gap >= NoGapStreak
SelfConverged(round_num, no_gap) == round_num >= MinRounds /\ no_gap >= NoGapStreak

\* Only a critique's text is ever read for the no-gap verdict.
Verdicts == IF disk.active.label = "critique" THEN BOOLEAN ELSE {FALSE}

ActiveIsWrap == disk.active.label = "wrap_up"

-----------------------------------------------------------------------------
Init ==
  /\ disk = NewRole
  /\ files = NoFiles
  /\ uuid = 0
  /\ asked = {}
  /\ kills = 0
  /\ stage = "down" /\ step = "idle"
  /\ sess = NoSession /\ tracker = NewTracker
  /\ interrupted = FALSE /\ fresh = FALSE
  /\ rounds = 0 /\ streak = 0

GoTo(s) == stage' = s /\ step' = "idle"

\* Everything a process holds in memory is gone when it stops.
Stopped(s) ==
  /\ GoTo(s)
  /\ sess' = NoSession /\ tracker' = NewTracker
  /\ interrupted' = FALSE /\ fresh' = FALSE
  /\ rounds' = 0 /\ streak' = 0

\* A ValueError or RuntimeError about the checkpoint itself: every further
\* start would raise it again, so the attempt can never finish.
Raise == Stopped("raised") /\ UNCHANGED <<durable, uuid, asked, kills>>

Start ==
  /\ stage = "down"
  /\ GoTo("load")
  /\ UNCHANGED <<durable, uuid, asked, kills, sess, tracker, interrupted, fresh,
                 rounds, streak>>

\* phases() then tracker()
LoadState ==
  /\ stage = "load"
  /\ LET st == Reconcile(disk, files) IN
       \/ /\ ~(Contiguous(files) /\ LedgerAgrees(st, files) /\ Restorable(st.tracker))
          /\ Raise
       \/ /\ Contiguous(files) /\ LedgerAgrees(st, files) /\ Restorable(st.tracker)
          /\ disk' = st
          /\ tracker' = st.tracker
          /\ GoTo("open")
          /\ UNCHANGED <<files, uuid, asked, kills, sess, interrupted, fresh,
                         rounds, streak>>

\* ResumableClaudeSession(session_id=checkpoint.session_id(role)): keep the
\* stored UUID or draw one.  The wrap-up phase opens a client of its own.
OpenSession ==
  /\ stage \in {"open", "wrap_open"}
  /\ IF disk.session = NoSession
     THEN sess' = uuid + 1 /\ uuid' = uuid + 1
     ELSE sess' = disk.session /\ uuid' = uuid
  /\ GoTo(IF stage = "open" THEN "session" ELSE "wrap_session")
  /\ UNCHANGED <<durable, asked, kills, tracker, interrupted, fresh, rounds, streak>>

SaveSession ==
  /\ stage \in {"session", "wrap_session"}
  /\ \/ ~SessionAccepted(disk, sess) /\ Raise
     \/ /\ SessionAccepted(disk, sess)
        /\ disk' = SaveSessionIn(disk, sess)
        /\ GoTo(IF stage = "session" THEN "initial" ELSE "wrap")
        /\ UNCHANGED <<files, uuid, asked, kills, sess, tracker, interrupted,
                       fresh, rounds, streak>>

(***************************************************************************)
(* _checkpointed_phase(label, stop), entered from the controller.          *)
(***************************************************************************)
\* No active phase: refuse an exhausted cutoff, else begin_phase.
BeginNew(label, stop) ==
  /\ ~HasActive(disk)
  /\ tracker.spent < stop
  /\ disk' = BeginPhaseIn(disk, uuid + 1, label, stop, tracker)
  /\ uuid' = uuid + 1
  /\ step' = "query"
  /\ UNCHANGED <<files, tracker>>

\* A phase killed at or past its cutoff is closed without another query.
FinalizeKilled(label) ==
  /\ disk.active.label = label
  /\ tracker.spent >= disk.active.stop
  /\ tracker' = FinishPhase(tracker, 0)
  /\ \E noGap \in Verdicts :
       files' = WritePhaseFile(files, disk, tracker', TRUE, noGap)
  /\ step' = "commit"
  /\ UNCHANGED <<disk, uuid>>

\* Faulty variant: asks again however much the phase has spent.
ResumeAlways(label) ==
  /\ disk.active.label = label
  /\ step' = "query"
  /\ UNCHANGED <<durable, uuid, tracker>>

\* prepare_process_resume: drop the partial progress, keep its charges.
ResumeKilled(label) ==
  /\ disk.active.label = label
  /\ tracker.spent < disk.active.stop
  /\ step' = "query"
  /\ UNCHANGED <<durable, uuid, tracker>>

EnterPhase(label, stop) ==
  /\ step = "idle"
  /\ \/ BeginNew(label, stop) \/ FinalizeKilled(label) \/ ResumeKilled(label)
  /\ UNCHANGED <<asked, kills, stage, sess, interrupted, fresh>>

PhaseRefused(label, stop) ==
  /\ step = "idle"
  /\ \/ ~HasActive(disk) /\ tracker.spent >= stop
     \/ HasActive(disk) /\ disk.active.label # label
  /\ Raise

(***************************************************************************)
(* run_phase: submit the prompt, charge and persist the stream, finish.    *)
(***************************************************************************)
Query ==
  /\ step = "query"
  /\ asked' = asked \cup {sess}
  /\ step' = "stream"
  /\ interrupted' = FALSE /\ fresh' = FALSE
  /\ UNCHANGED <<durable, uuid, kills, stage, sess, tracker, rounds, streak>>

\* tracker.add() on one envelope; the charge is in memory only
ChargeMessage ==
  /\ step = "stream"
  /\ \E d \in Deltas :
       /\ tracker.spent + d <= SpendCap
       /\ tracker' = Charge(tracker, d)
  /\ fresh' = TRUE
  /\ step' = "persist"
  /\ UNCHANGED <<durable, uuid, asked, kills, stage, sess, interrupted, rounds, streak>>

\* save_progress(), then interrupt_if_over_budget()
PersistProgress ==
  /\ step = "persist"
  /\ disk' = SaveProgressIn(disk, tracker, sess)
  /\ interrupted' = (interrupted \/ tracker.spent >= disk.active.stop)
  /\ step' = "stream"
  /\ UNCHANGED <<files, uuid, asked, kills, stage, sess, tracker, fresh, rounds, streak>>

\* The stream ends with an interrupted Result, or a completed one backed by
\* fresh output; the Result's own count can only add to the stream's.
FinishQuery ==
  /\ step = "stream"
  /\ interrupted \/ fresh
  /\ \E u \in TrueUps, noGap \in Verdicts :
       /\ u > 0 => fresh
       /\ tracker.spent + u <= SpendCap
       /\ tracker' = FinishPhase(tracker, tracker.streamed + u)
       /\ files' = WritePhaseFile(files, disk, tracker', interrupted, noGap)
  /\ step' = "commit"
  /\ UNCHANGED <<disk, uuid, asked, kills, stage, sess, interrupted, fresh, rounds, streak>>

\* The second write of finish_phase, and the return to the controller, which
\* updates the streak of a critique run inside the loop.
CommitPhase ==
  /\ step = "commit"
  /\ disk' = FinishPhaseIn(disk, tracker, sess)
  /\ GoTo(CASE stage = "initial" -> "recover"
            [] stage = "recover" -> "rebuild"
            [] stage = "loop" /\ disk.active.label = "critique" -> "critiqued"
            [] stage = "loop" /\ disk.active.label # "critique" -> "loop"
            [] stage = "critiqued" -> "loop"
            [] stage = "wrap" -> "done")
  /\ streak' = IF stage = "loop" /\ disk.active.label = "critique"
               THEN IF NoGapAt(disk.active.seq) THEN streak + 1 ELSE 0
               ELSE streak
  /\ UNCHANGED <<files, uuid, asked, kills, sess, tracker, interrupted, fresh, rounds>>

(***************************************************************************)
(* The controller.                                                         *)
(***************************************************************************)
Control(next) ==
  /\ step = "idle"
  /\ GoTo(next)
  /\ UNCHANGED <<durable, uuid, asked, kills, sess, tracker, interrupted, fresh>>

\* if not phases: run the first phase
InitialPhase ==
  /\ stage = "initial"
  /\ \/ /\ DOMAIN files = {}
        /\ EnterPhase(InitialLabel, SoftLimit)
        /\ UNCHANGED <<rounds, streak>>
     \/ DOMAIN files = {} /\ PhaseRefused(InitialLabel, SoftLimit)
     \/ DOMAIN files # {} /\ Control("recover") /\ UNCHANGED <<rounds, streak>>

\* an active solve, critique or revise is finished before anything new
RecoverPhase ==
  /\ stage = "recover"
  /\ IF Refine /\ disk.active.label \in {"solve", "critique", "revise"}
     THEN EnterPhase(disk.active.label, disk.active.stop)
     ELSE Control("rebuild")
  /\ UNCHANGED <<rounds, streak>>

\* Faulty variant: a restart starts the streak again.
RebuildWithoutStreak ==
  /\ stage = "rebuild"
  /\ Control(IF Refine THEN "loop" ELSE "wrap_check")
  /\ rounds' = CritiqueCount
  /\ streak' = 0

\* round_num and no_gap_streak are recomputed from the recovered list
RebuildProgress ==
  /\ stage = "rebuild"
  /\ Control(IF Refine THEN "loop" ELSE "wrap_check")
  /\ rounds' = CritiqueCount
  /\ streak' = TrailingNoGap

LoopOver == HasWrapUp \/ SoftExhausted(tracker) \/ SelfConverged(rounds, streak)

LeaveLoop ==
  /\ stage = "loop"
  /\ LoopOver
  /\ Control("wrap_check")
  /\ UNCHANGED <<rounds, streak>>

StartCritique ==
  /\ stage = "loop"
  /\ ~LoopOver
  /\ LastFile(files).label \in {"solve", "revise"}
  /\ \/ EnterPhase("critique", SoftLimit) /\ rounds' = rounds + 1 /\ UNCHANGED streak
     \/ PhaseRefused("critique", SoftLimit)

StartRevise ==
  /\ \/ stage = "loop" /\ ~LoopOver
     \/ stage = "critiqued" /\ ~SelfConverged(rounds, streak) /\ ~SoftExhausted(tracker)
  /\ LastFile(files).label = "critique"
  /\ \/ EnterPhase("revise", SoftLimit) /\ UNCHANGED <<rounds, streak>>
     \/ PhaseRefused("revise", SoftLimit)

\* break after a critique
BreakAfterCritique ==
  /\ stage = "critiqued"
  /\ SelfConverged(rounds, streak) \/ SoftExhausted(tracker)
  /\ Control("wrap_check")
  /\ UNCHANGED <<rounds, streak>>

WrapNeeded ==
  \/ ActiveIsWrap
  \/ SoftExhausted(tracker) /\ ~Exhausted(tracker) /\ ~HasWrapUp

\* Faulty variant: goes round until a wrap-up exists.
WrapCheckUntilWrapped ==
  /\ stage = "wrap_check"
  /\ Control(IF WrapNeeded THEN "wrap_open" ELSE IF HasWrapUp THEN "done" ELSE "rebuild")
  /\ UNCHANGED <<rounds, streak>>

\* _run_strict_wrap_phase: its early return, or a client of its own
WrapCheck ==
  /\ stage = "wrap_check"
  /\ Control(IF WrapNeeded THEN "wrap_open" ELSE "done")
  /\ UNCHANGED <<rounds, streak>>

WrapPhase ==
  /\ stage = "wrap"
  /\ LET stop == IF ActiveIsWrap THEN disk.active.stop ELSE Budget IN
       \/ EnterPhase("wrap_up", stop) /\ UNCHANGED <<rounds, streak>>
       \/ PhaseRefused("wrap_up", stop)

(***************************************************************************)
(* Kills and failures.                                                     *)
(***************************************************************************)
Kill ==
  /\ stage \notin {"down", "raised"}
  /\ kills < MaxKills
  /\ kills' = kills + 1
  /\ Stopped("down")
  /\ UNCHANGED <<durable, uuid, asked>>

\* run_phase raises (error result, no fresh result, retries used up); the
\* finally clause still saves the session, and the process ends.
CallFails ==
  /\ step \in {"query", "stream"}
  /\ kills < MaxKills
  /\ kills' = kills + 1
  /\ disk' = SaveSessionIn(disk, sess)
  /\ Stopped("down")
  /\ UNCHANGED <<files, uuid, asked>>

\* Nothing is left to do: the caller goes on to write the outputs.
Finished == stage = "done" /\ UNCHANGED vars

ProcessStep ==
  \/ Start \/ LoadState \/ OpenSession \/ SaveSession
  \/ InitialPhase \/ RecoverPhase \/ RebuildProgress
  \/ LeaveLoop \/ StartCritique \/ StartRevise \/ BreakAfterCritique
  \/ WrapCheck \/ WrapPhase
  \/ Query \/ ChargeMessage \/ PersistProgress \/ FinishQuery \/ CommitPhase

Next == ProcessStep \/ Kill \/ CallFails \/ Finished

Spec == Init /\ [][Next]_vars

\* The process is scheduled and the provider goes on answering; kills stop.
FairSpec == Spec /\ WF_vars(ProcessStep)

-----------------------------------------------------------------------------
(***************************************************************************)
(* Properties.                                                             *)
(***************************************************************************)
TypeOK ==
  /\ disk \in RoleStates
  /\ DOMAIN files \subseteq Nat /\ \A i \in DOMAIN files : files[i] \in PhaseFiles
  /\ uuid \in Nat /\ asked \subseteq Nat /\ kills \in 0..MaxKills
  /\ stage \in Stages /\ step \in Steps
  /\ sess \in Nat /\ tracker \in Trackers
  /\ interrupted \in BOOLEAN /\ fresh \in BOOLEAN
  /\ rounds \in Nat /\ streak \in Nat

\* Wherever the process is killed, what it leaves on disk is accepted by the
\* next start: no ledger/state mismatch, no inconsistent tracker, no changed
\* session UUID, no unexpected active phase, no phase begun at its cutoff.
NeverRaises == stage # "raised"

\* All prompts of an attempt go to one provider conversation: a restart never
\* starts a second transcript, even when killed before the UUID was saved.
OneTranscript == \A s, t \in asked : s = t

\* The streak and round count a restarted controller rebuilds from the phase
\* files are the ones the uninterrupted controller would be carrying.
ProgressRebuilt ==
  stage \in {"loop", "critiqued"} /\ step = "idle" =>
    rounds = CritiqueCount /\ streak = TrailingNoGap

SpentBefore(i) == IF i = 0 THEN 0 ELSE files[i-1].tracker.spent

\* The wrap-up runs at most once, after every working phase, and only in the
\* window between the soft limit and the hard budget; no working phase was
\* begun at or past the soft limit, whatever kills and overshoots happened.
PhaseWindows ==
  \A i \in DOMAIN files :
    IF files[i].label = "wrap_up"
    THEN /\ SpentBefore(i) \in SoftLimit..Budget-1
         /\ \A j \in DOMAIN files : j <= i
    ELSE SpentBefore(i) < SoftLimit

\* A prompt is never submitted once the durable spend of its phase has reached
\* the cutoff: a phase killed there is closed, not asked again.
NoQueryPastCutoff ==
  [][step' = "stream" /\ step = "query" => disk.tracker.spent < disk.active.stop]_vars

\* Paid tokens are never forgotten: no restart, resume, reconciliation or
\* phase boundary lowers the spend on disk.
DurableSpendNeverDrops == [][disk'.tracker.spent >= disk.tracker.spent]_vars

\* Killed or not, the attempt comes to an end once kills stop.
AttemptEnds == <>[](stage = "done")

(***************************************************************************)
(* The attempt implements a ledger that crashes cannot be seen in.         *)
(***************************************************************************)
\* The phase list phases() would return; a torn boundary counts as closed.
Committed ==
  [i \in DOMAIN files |->
     [label |-> files[i].label, spent |-> files[i].tracker.spent, noGap |-> NoGapAt(i)]]
OpenPhase == IF BoundaryTorn(disk, files) THEN "none" ELSE disk.active.label
Paid == IF BoundaryTorn(disk, files) THEN LastFile(files).tracker.spent
                                     ELSE disk.tracker.spent

Ledger == INSTANCE AttemptLedger WITH ledger <- Committed, open <- OpenPhase, paid <- Paid

\* Kills, restarts and torn phase boundaries are invisible in the ledger of
\* committed phases, the open phase and the spend.
RefinesLedger == Ledger!Spec
=============================================================================
