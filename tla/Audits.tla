------------------------------- MODULE Audits -------------------------------
(***************************************************************************)
(* The audit command: correctness verdicts for the write-ups of one arm's  *)
(* completed attempts, then route-state annotations for the same texts.    *)
(* An attempt is judged under a checkpoint that remembers the finished     *)
(* calls; identical texts share one verdict, and a dense audit             *)
(* (--all-checkpoints) extends a sparse one.                               *)
(*                                                                         *)
(* Sources: src/audit.py, src/state_audit.py, src/storage.py (the audit    *)
(* records), src/checkpoint.py (begin_call, call_result, finish_call,      *)
(* complete, clear), src/cleanup_checkpoints.py, run.sh.  The tasks of one *)
(* invocation run one after another here: they share no directory and no   *)
(* checkpoint.  Provider failures inside a call are in PhaseStream.        *)
(***************************************************************************)
EXTENDS BudgetCuts, FiniteSets

CONSTANTS
  Dirs,           \* attempt directories: the arm's seeds, or a bank's members
  Procs,          \* audit invocations that may overlap
  Units,          \* the arm's budget units
  Trajectories,   \* the write-ups of an attempt: one per multiplier, the last in full
  Scores, Steps,  \* what the judge and the annotator may answer
  Arms,           \* see ArmRecords
  None,           \* no invocation
  MaxKills        \* bound: killed invocations

\* The arm's mode, whether invocations overlap, its directories, and a bound
\* on the invocations.
ArmRecords == [mode : {"sequential", "bank", "strategies"}, alone : BOOLEAN,
               dirs : SUBSET Dirs, starts : Nat]

ASSUME AuditsAssumption ==
  /\ Units \in Nat \ {0} /\ MaxKills \in Nat
  /\ Arms \subseteq ArmRecords /\ None \notin Procs
  /\ \A t \in Trajectories : DOMAIN t = 1..Units
  /\ Scores \subseteq 0..7 /\ Steps \subseteq 0..3

VARIABLES
  arm,            \* the member of Arms that is audited
  text,           \* per directory: its trajectory; neither ever changes
  rec,            \* per stage and directory: audit.json, state_audit.json
  bank,           \* the bank's own verdict: its members' scores, <<>> when there is none
  ckpt,           \* per key: the checkpoint on disk, <<>> when there is none
  held,           \* per key: the invocation that locks its current .lock, or None
  cmd,            \* per invocation: the stage, the schedule, the tasks listed and left
  task,           \* per invocation: its open task, <<>> when there is none
  given,          \* every answer ever given: <<stage, directory, text, answer>>
  starts, kills

fixed == <<arm, text>>
vars == <<fixed, rec, bank, ckpt, held, cmd, task, given, starts, kills>>

Stages == {"audit", "state"}
Answers(stage) == IF stage = "audit" THEN Scores ELSE Steps
Labels == 1..Units
NoAnswer == -1

\* A checkpoint's identity; the texts are in it, or do not change.
Keys == Stages \X Dirs \X BOOLEAN

NoCommand == [stage |-> "idle", dense |-> FALSE, listed |-> {}, todo |-> {}, certify |-> FALSE]
NewState == [calls |-> [l \in Labels |-> NoAnswer], asked |-> {}, prepared |-> FALSE]

\* A record: per label its text, the verdict and the derived state
NoRecord == <<>>

Init ==
  /\ arm \in Arms
  /\ text \in {t \in [Dirs -> Trajectories] :
                 \A d \in Dirs \ arm.dirs : t[d] = CHOOSE u \in Trajectories : TRUE}
  /\ rec = [stage \in Stages |-> [d \in Dirs |-> NoRecord]]
  /\ bank = <<>>
  /\ ckpt = [k \in Keys |-> <<>>]
  /\ held = [k \in Keys |-> None]
  /\ cmd = [p \in Procs |-> NoCommand]
  /\ task = [p \in Procs |-> <<>>]
  /\ given = {} /\ starts = 0 /\ kills = 0

-----------------------------------------------------------------------------
(***************************************************************************)
(* What is judged, and what a verdict is taken from.                       *)
(***************************************************************************)
\* The cuts of the schedule; a planner's proposals are all judged.
Cuts(dense) ==
  CASE arm.mode = "bank"       -> {}
    [] arm.mode = "strategies" -> DenseCuts(Units)
    [] OTHER                   -> IF dense THEN DenseCuts(Units) ELSE SparseCuts(Units)

Wanted(dense) == Cuts(dense) \cup {Units}

\* The judge sees the full proof first; the annotator follows the trajectory.
Before(stage, l, m) ==
  IF stage = "audit" THEN m # Units /\ (l = Units \/ l < m) ELSE l < m

HasText(d, l) == text[d][l] # NoText
Texts(d, dense) == {l \in Wanted(dense) : HasText(d, l)}

\* Faulty variant: one verdict for the whole directory
RoleOfAny(stage, d, dense, l) ==
  CHOOSE m \in Texts(d, dense) :
    \A n \in Texts(d, dense) : n # m => Before(stage, m, n)

\* The first label with the same text is the one that is judged.
RoleOf(stage, d, dense, l) ==
  LET same == {m \in Texts(d, dense) : text[d][m] = text[d][l]}
  IN  CHOOSE m \in same : \A n \in same : n # m => Before(stage, m, n)

\* Labels of an earlier record whose text is this one's
Reusable(base, d, l) == {m \in DOMAIN base : base[m].text = text[d][l]}

HasSchedule(record, dense) == record # NoRecord /\ (dense => Cuts(TRUE) \subseteq DOMAIN record)

\* _state_record_current
Current(record, dense) == record # NoRecord /\ Cuts(dense) \subseteq DOMAIN record

Pending(stage, dense) ==
  CASE stage = "audit" /\ arm.mode = "sequential" ->
         {d \in arm.dirs : ~HasSchedule(rec.audit[d], dense)}
    [] stage = "audit" /\ arm.mode = "bank" ->
         {d \in arm.dirs : bank = <<>> /\ rec.audit[d] = NoRecord}
    [] stage = "audit" /\ arm.mode = "strategies" -> {}
    [] OTHER ->
         {d \in arm.dirs :
            /\ arm.mode = "sequential" => rec.audit[d] # NoRecord
            /\ arm.mode = "bank" => bank # <<>>
            /\ ~Current(rec.state[d], dense)}

-----------------------------------------------------------------------------
(***************************************************************************)
(* One invocation.                                                         *)
(***************************************************************************)
Idle(p) == cmd[p] = NoCommand
Opened(p) == task[p] # <<>>
T(p) == task[p][1]
Key(p) == <<cmd[p].stage, T(p).dir, cmd[p].dense>>
At(p, place) == Opened(p) /\ T(p).at = place
Put(p, t) == task' = [task EXCEPT ![p] = <<t>>]
Close(p) == task' = [task EXCEPT ![p] = <<>>]
Unlock(p) == held' = [k \in Keys |-> IF held[k] = p THEN None ELSE held[k]]
Save(p, mem) == ckpt' = [ckpt EXCEPT ![Key(p)] = <<mem>>]

Enter(p, stage, dense) ==
  cmd' = [cmd EXCEPT ![p] =
            [stage |-> stage, dense |-> dense,
             listed |-> Pending(stage, dense), todo |-> Pending(stage, dense),
             certify |-> stage = "audit" /\ arm.mode = "bank" /\ bank = <<>>]]

\* main() lists the pending attempts.
Launch(p) ==
  /\ Idle(p) /\ starts < arm.starts
  /\ arm.alone => \A q \in Procs : Idle(q)
  /\ starts' = starts + 1
  /\ \E dense \in IF arm.mode = "sequential" THEN BOOLEAN ELSE {FALSE} :
       Enter(p, "audit", dense)
  /\ UNCHANGED <<fixed, rec, bank, ckpt, held, task, given, kills>>

\* The state audit reads the record it may extend before it takes the lock; a
\* record that became current in the meantime ends the task, a correctness
\* audit that lacks one of the cuts fails it.
Take(p) ==
  /\ ~Idle(p) /\ ~Opened(p)
  /\ \E d \in cmd[p].todo :
       LET base == IF cmd[p].stage = "state" THEN rec.state[d] ELSE NoRecord
           over == \/ Current(base, cmd[p].dense)
                   \/ /\ cmd[p].stage = "state" /\ arm.mode = "sequential"
                      /\ ~Current(rec.audit[d], cmd[p].dense)
       IN  /\ cmd' = [cmd EXCEPT ![p].todo = @ \ {d}]
           /\ IF over THEN UNCHANGED task
              ELSE Put(p, [dir |-> d, at |-> "read", base |-> base, mem |-> NewState])
  /\ UNCHANGED <<fixed, rec, bank, ckpt, held, given, starts, kills>>

Missing == [text |-> NoText, verdict |-> 0, state |-> "null"]

\* No write-up at all: score 0 in full and at every cut, and no checkpoint.
Ungradeable(p) ==
  /\ At(p, "read") /\ cmd[p].stage = "audit" /\ ~HasText(T(p).dir, Units)
  /\ rec' = [rec EXCEPT !.audit[T(p).dir] = [l \in Wanted(cmd[p].dense) |-> Missing]]
  /\ Close(p)
  /\ UNCHANGED <<fixed, bank, ckpt, held, cmd, given, starts, kills>>

\* Faulty variant: a dense audit starts from nothing
BaseForgotten(p) == T(p).base

\* Frozen verdicts are reused when a dense audit extends a sparse one.
Base(p) ==
  IF cmd[p].stage = "audit" /\ cmd[p].dense THEN rec.audit[T(p).dir] ELSE T(p).base

\* AttemptCheckpoint(): "already running in another process", or its state
Lock(p) ==
  /\ At(p, "read") /\ ~(cmd[p].stage = "audit" /\ ~HasText(T(p).dir, Units))
  /\ LET found == ckpt[Key(p)]
         mem == IF found = <<>> THEN NewState ELSE found[1]
     IN  IF held[Key(p)] # None THEN Close(p) /\ UNCHANGED <<held, ckpt>>
         ELSE /\ held' = [held EXCEPT ![Key(p)] = p]
              /\ Save(p, mem)
              /\ Put(p, [T(p) EXCEPT !.at = "judge", !.base = Base(p), !.mem = mem])
  /\ UNCHANGED <<fixed, rec, bank, cmd, given, starts, kills>>

\* Roles still without an answer, and the first of them
Roles(p) == {RoleOf(cmd[p].stage, T(p).dir, cmd[p].dense, l) :
               l \in {m \in Texts(T(p).dir, cmd[p].dense) : Reusable(T(p).base, T(p).dir, m) = {}}}
Open(p) == {l \in Roles(p) : T(p).mem.calls[l] = NoAnswer}
First(p) == CHOOSE l \in Open(p) : \A m \in Open(p) : m # l => Before(cmd[p].stage, l, m)

\* begin_call, or prepare_process_resume for a call that was cut off
Ask(p) ==
  /\ At(p, "judge") /\ Open(p) # {}
  /\ LET mem == [T(p).mem EXCEPT !.asked = @ \cup {First(p)}] IN
       Save(p, mem) /\ Put(p, [T(p) EXCEPT !.at = "asked", !.mem = mem])
  /\ UNCHANGED <<fixed, rec, bank, held, cmd, given, starts, kills>>

\* finish_call stores the answer and clears the active marker in one write.
Answer(p) ==
  /\ At(p, "asked")
  /\ \E a \in Answers(cmd[p].stage) :
       LET mem == [T(p).mem EXCEPT !.calls[First(p)] = a] IN
         /\ Save(p, mem) /\ Put(p, [T(p) EXCEPT !.at = "judge", !.mem = mem])
         /\ given' = given \cup {<<cmd[p].stage, T(p).dir, text[T(p).dir][First(p)], a>>}
  /\ UNCHANGED <<fixed, rec, bank, held, cmd, starts, kills>>

\* The call failed, or its workspace is gone: run_all() logs it.
FailCall(p) ==
  /\ At(p, "asked")
  /\ Close(p) /\ Unlock(p)
  /\ UNCHANGED <<fixed, rec, bank, ckpt, cmd, given, starts, kills>>

\* Faulty variant: the record is written with calls outstanding
ReadyEarly(p) == At(p, "judge")

Ready(p) == At(p, "judge") /\ Open(p) = {}

\* prepare_completion, and the judge's scratches are archived.
Prepare(p) ==
  /\ Ready(p)
  /\ LET mem == [T(p).mem EXCEPT !.prepared = TRUE] IN
       Save(p, mem) /\ Put(p, [T(p) EXCEPT !.at = "commit", !.mem = mem])
  /\ UNCHANGED <<fixed, rec, bank, held, cmd, given, starts, kills>>

VerdictFor(p, l) ==
  LET reusable == Reusable(T(p).base, T(p).dir, l) IN
    IF reusable # {} THEN T(p).base[CHOOSE m \in reusable : TRUE].verdict
    ELSE T(p).mem.calls[RoleOf(cmd[p].stage, T(p).dir, cmd[p].dense, l)]

\* Faulty variant: each label is classified on its own
StateAlone(steps, seen, l) ==
  LET before == {m \in seen : m < l} IN
    CASE steps[l] = 3 -> "S"
      [] steps[l] < 3 /\ steps[l] > (IF before = {} THEN 0 ELSE steps[LastOf(before)]) -> "P"
      [] OTHER -> "U"

\* "S" is carried forward from an earlier label; "seen" are those with a text.
Acquired(steps, seen, l) == \E m \in seen : m <= l /\ steps[m] = 3

\* derive_state's "P": more steps than at the label before
Advances(steps, seen, l) ==
  LET before == {m \in seen : m < l}
  IN  steps[l] > (IF before = {} THEN 0 ELSE steps[LastOf(before)])

\* A planner's proposals have one state together.
AnyAcquired(steps, seen) == \E m \in seen : steps[m] = 3

StateAt(steps, seen, l) ==
  IF arm.mode = "strategies" THEN IF AnyAcquired(steps, seen) THEN "S" ELSE "U"
  ELSE IF Acquired(steps, seen, l) THEN "S"
  ELSE IF Advances(steps, seen, l) THEN "P" ELSE "U"

\* write_seed_audit, write_seed_state_audit: one atomic replacement
Commit(p) ==
  /\ At(p, "commit")
  /\ LET d == T(p).dir
         seen == Texts(d, cmd[p].dense)
         verdicts == [l \in seen |-> VerdictFor(p, l)]
         state(l) == IF cmd[p].stage = "state" THEN StateAt(verdicts, seen, l) ELSE "null"
     IN  rec' = [rec EXCEPT ![cmd[p].stage][d] =
           [l \in Wanted(cmd[p].dense) |->
              IF l \in seen
              THEN [text |-> text[d][l], verdict |-> verdicts[l], state |-> state(l)]
              ELSE Missing]]
  /\ Put(p, [T(p) EXCEPT !.at = "clear"])
  /\ UNCHANGED <<fixed, bank, ckpt, held, cmd, given, starts, kills>>

\* complete() marks the checkpoint, and clear() unlocks it ...
CompleteAttempt(p) ==
  /\ At(p, "clear")
  /\ Save(p, T(p).mem) /\ Unlock(p)
  /\ Put(p, [T(p) EXCEPT !.at = "remove"])
  /\ UNCHANGED <<fixed, rec, bank, cmd, given, starts, kills>>

\* ... before it removes the directory; a later process makes a new .lock.
Remove(p) ==
  /\ At(p, "remove")
  /\ ckpt' = [ckpt EXCEPT ![Key(p)] = <<>>]
  /\ held' = [held EXCEPT ![Key(p)] = None]
  /\ Close(p)
  /\ UNCHANGED <<fixed, rec, bank, cmd, given, starts, kills>>

\* _bank_audit_record: the members' verdicts make the bank's.
MembersAudited == \A d \in arm.dirs : rec.audit[d] # NoRecord
BankVerdict == [d \in arm.dirs |-> rec.audit[d][Units].verdict]

\* A member that failed leaves the bank without a verdict.
CertifyBank(p) ==
  /\ cmd[p].certify /\ cmd[p].todo = {} /\ ~Opened(p)
  /\ bank' = IF MembersAudited THEN <<BankVerdict>> ELSE bank
  /\ cmd' = [cmd EXCEPT ![p].certify = FALSE]
  /\ UNCHANGED <<fixed, rec, ckpt, held, task, given, starts, kills>>

-----------------------------------------------------------------------------
(***************************************************************************)
(* The end of an invocation.                                               *)
(***************************************************************************)
\* cleanup_completed: prepared, unlocked checkpoints with a marker in results
Cleaned(stages, locks) ==
  [k \in Keys |->
     IF /\ k[1] \in stages /\ locks[k] = None /\ rec[k[1]][k[2]] # NoRecord
        /\ ckpt[k] # <<>> /\ ckpt[k][1].prepared
     THEN <<>> ELSE ckpt[k]]

StageOver(p) == ~Idle(p) /\ ~Opened(p) /\ cmd[p].todo = {} /\ ~cmd[p].certify

\* Some listed task left no record: "rerun the same command".
Failed(p) ==
  \/ cmd[p].stage = "audit" /\ arm.mode = "bank" /\ bank = <<>>
  \/ cmd[p].listed \cap Pending(cmd[p].stage, cmd[p].dense) # {}

\* The state audit follows in a container of its own.
NextStage(p) ==
  /\ StageOver(p) /\ cmd[p].stage = "audit" /\ ~Failed(p)
  /\ Enter(p, "state", cmd[p].dense)
  /\ UNCHANGED <<fixed, rec, bank, ckpt, held, task, given, starts, kills>>

\* The state checkpoints are cleaned up only after a state audit that succeeded.
Stop(p) ==
  /\ StageOver(p) /\ (cmd[p].stage = "state" \/ Failed(p))
  /\ cmd' = [cmd EXCEPT ![p] = NoCommand]
  /\ ckpt' = Cleaned(IF Failed(p) THEN {"audit"} ELSE Stages, held)
  /\ UNCHANGED <<fixed, rec, bank, held, task, given, starts, kills>>

\* The container dies, and run.sh's trap cleans up, or is killed as well.
Kill(p) ==
  /\ ~Idle(p) /\ kills < MaxKills
  /\ kills' = kills + 1
  /\ Close(p) /\ Unlock(p)
  /\ cmd' = [cmd EXCEPT ![p] = NoCommand]
  /\ ckpt' \in {ckpt, Cleaned({"audit"}, held')}
  /\ UNCHANGED <<fixed, rec, bank, given, starts>>

Next ==
  \E p \in Procs :
    \/ Launch(p) \/ Take(p) \/ Ungradeable(p) \/ Lock(p) \/ Ask(p) \/ Answer(p)
    \/ FailCall(p) \/ Prepare(p) \/ Commit(p) \/ CompleteAttempt(p) \/ Remove(p)
    \/ CertifyBank(p) \/ NextStage(p) \/ Stop(p) \/ Kill(p)

Spec == Init /\ [][Next]_vars

-----------------------------------------------------------------------------
(***************************************************************************)
(* Properties                                                              *)
(***************************************************************************)
\* Every record, checkpoint and command is one the code can write or read.
TypeOK ==
  /\ arm \in Arms /\ text \in [Dirs -> Trajectories] /\ starts \in 0..arm.starts
  /\ \A stage \in Stages, d \in Dirs : \A l \in DOMAIN rec[stage][d] :
       /\ l \in Labels /\ rec[stage][d][l].verdict \in Answers(stage) \cup {0}
       /\ rec[stage][d][l].state \in {"S", "P", "U", "null"}
  /\ \A k \in Keys : held[k] \in Procs \cup {None} /\ Len(ckpt[k]) <= 1
  /\ \A p \in Procs : cmd[p].todo \subseteq arm.dirs /\ Len(task[p]) <= 1

\* A recorded verdict was given for exactly the text the attempt holds at that
\* label, whatever was killed, resumed, reused or raced in between; identical
\* texts of a record have one verdict ("Identical sequential snapshots must
\* receive one immutable audit verdict"), and without overlap a bank's scores
\* are the ones on file for its members.
VerdictsOfText ==
  /\ \A stage \in Stages, d \in Dirs :
       LET record == rec[stage][d] IN
         /\ \A l \in DOMAIN record : record[l].text # NoText =>
              /\ record[l].text = text[d][l]
              /\ <<stage, d, text[d][l], record[l].verdict>> \in given
         /\ \A l, m \in DOMAIN record :
              record[l].text = record[m].text => record[l].verdict = record[m].verdict
  /\ arm.alone /\ bank # <<>> =>
       \A d \in arm.dirs : bank[1][d] = rec.audit[d][Units].verdict

\* "Reuse frozen sparse verdicts when extending to dense checkpoints": without
\* overlap a verdict on file never changes or disappears, also when a killed
\* dense audit lost its checkpoint and asks the judge again.
RecordsFrozen ==
  [][arm.alone =>
       \A stage \in Stages, d \in Dirs : \A l \in DOMAIN rec[stage][d] :
         /\ l \in DOMAIN rec'[stage][d]
         /\ rec'[stage][d][l].text = rec[stage][d][l].text
         /\ rec'[stage][d][l].verdict = rec[stage][d][l].verdict]_vars

\* "Complete 3/3 recognition is acquired state S, which is carried forward":
\* along an annotated trajectory nothing after an S loses it, and a dense
\* annotation, which may turn a sparse P into U, takes no S away.
AcquiredForGood ==
  [][\A d \in Dirs :
       LET old == rec.state[d]
           new == rec'.state[d]
       IN  /\ \A l, m \in DOMAIN new :
                l < m /\ new[l].state = "S" /\ new[m].text # NoText => new[m].state = "S"
           /\ arm.alone => \A l \in DOMAIN old : old[l].state = "S" => new[l].state = "S"]_vars
=============================================================================
