---------------------------- MODULE Audits_proofs ----------------------------
(***************************************************************************)
(* Proofs about Audits for any directories, trajectories, units, answers   *)
(* and invocations, overlapping or not, killed at any step.                *)
(***************************************************************************)
EXTENDS Audits, BudgetCuts_proofs

\* The kinds of what is on disk and of what an invocation keeps
Entries == [text : {NoText} \cup {t[l] : t \in Trajectories, l \in Labels},
            verdict : Scores \cup Steps \cup {0}, state : {"S", "P", "U", "null"}]
Records == UNION {[S -> Entries] : S \in SUBSET Labels}
CallStates == [calls : [Labels -> Scores \cup Steps \cup {NoAnswer}], asked : SUBSET Labels,
               prepared : BOOLEAN]
Places == {"read", "judge", "asked", "commit", "clear", "remove"}
Tasks == [dir : Dirs, at : Places, base : Records, mem : CallStates]
Commands == [stage : Stages \cup {"idle"}, dense : BOOLEAN, listed : SUBSET arm.dirs,
             todo : SUBSET arm.dirs, certify : BOOLEAN]

Typed ==
  /\ arm \in Arms /\ text \in [Dirs -> Trajectories] /\ starts \in 0..arm.starts
  /\ rec \in [Stages -> [Dirs -> Records]]
  /\ ckpt \in [Keys -> {<<>>} \cup {<<mem>> : mem \in CallStates}]
  /\ held \in [Keys -> Procs \cup {None}]
  /\ cmd \in [Procs -> Commands]
  /\ task \in [Procs -> {<<>>} \cup {<<t>> : t \in Tasks}]

\* A record is absent, or has the labels of one of the two schedules.
Labelled(record) == record = NoRecord \/ DOMAIN record \in {Wanted(FALSE), Wanted(TRUE)}

\* A verdict that was given for the text of the label, or the score of a missing
\* write-up; an attempt that has none in full has none at all.
Faithful(stage, d, entry, l) ==
  IF HasText(d, l) /\ (stage = "audit" => HasText(d, Units))
  THEN entry.text = text[d][l] /\ <<stage, d, text[d][l], entry.verdict>> \in given
  ELSE entry = Missing

\* Equal texts of a record have equal verdicts.
OneVerdict(record) ==
  \A l, m \in DOMAIN record :
    record[l].text = record[m].text => record[l].verdict = record[m].verdict

\* The labels of an annotation that are S are those from a complete recognition on.
Recognized(record, l) ==
  \E m \in DOMAIN record :
    /\ arm.mode = "strategies" \/ m <= l
    /\ record[m].text # NoText /\ record[m].verdict = 3
Acquires(record) ==
  \A l \in DOMAIN record :
    record[l].state = "S" <=> record[l].text # NoText /\ Recognized(record, l)

Recorded(stage, d, record) ==
  /\ Labelled(record)
  /\ \A l \in DOMAIN record :
       Faithful(stage, d, record[l], l) /\ record[l].state \in {"S", "P", "U", "null"}
  /\ OneVerdict(record)
  /\ stage = "state" => Acquires(record)

\* An answer that is remembered for a label was given for its text.
Remembered(stage, d, mem) ==
  \A l \in Labels : mem.calls[l] # NoAnswer => <<stage, d, text[d][l], mem.calls[l]>> \in given

CommandInv(p) ==
  /\ ~Idle(p) => cmd[p].stage \in Stages
  /\ cmd[p].dense => arm.mode = "sequential"
  /\ cmd[p].certify => cmd[p].stage = "audit" /\ arm.mode = "bank"
  /\ Opened(p) => ~Idle(p)

TaskInv(p) ==
  Opened(p) =>
    /\ T(p).dir \in arm.dirs
    /\ Recorded(cmd[p].stage, T(p).dir, T(p).base)
    /\ Remembered(cmd[p].stage, T(p).dir, T(p).mem)
    /\ T(p).at # "read" /\ cmd[p].stage = "audit" => HasText(T(p).dir, Units)
    /\ T(p).at = "asked" => Open(p) # {}
    /\ T(p).at = "commit" => Open(p) = {}

\* What is on disk, and every answer so far
OnDisk ==
  /\ \A stage \in Stages, d \in Dirs : Recorded(stage, d, rec[stage][d])
  /\ \A k \in Keys : ckpt[k] # <<>> => Remembered(k[1], k[2], ckpt[k][1])
  /\ \A g \in given : g[1] \in Stages /\ g[4] \in Answers(g[1])

\* Without overlap an open task extends what is on file, a correctness audit
\* from its lock on, and a sparse schedule is asked for only where nothing is.
OnFile(p) ==
  /\ cmd[p].stage = "audit" =>
       /\ bank # <<>> => cmd[p].todo = {} /\ ~Opened(p)
       /\ ~cmd[p].dense => \A d \in cmd[p].todo : rec.audit[d] = NoRecord
  /\ Opened(p) /\ T(p).at \in {"read", "judge", "asked", "commit"} =>
       /\ T(p).dir \notin cmd[p].todo
       /\ ~cmd[p].dense => rec[cmd[p].stage][T(p).dir] = NoRecord
       /\ \/ T(p).at = "read" /\ cmd[p].stage = "audit" /\ T(p).base = NoRecord
          \/ T(p).base = rec[cmd[p].stage][T(p).dir]

BankOnFile ==
  bank # <<>> =>
    arm.mode = "bank" /\ \A d \in arm.dirs : bank[1][d] = rec.audit[d][Units].verdict

AloneInv ==
  arm.alone =>
    /\ \A p, q \in Procs : ~Idle(p) /\ ~Idle(q) => p = q
    /\ \A p \in Procs : OnFile(p)
    /\ BankOnFile

IInv ==
  /\ Typed
  /\ OnDisk
  /\ \A p \in Procs : CommandInv(p) /\ TaskInv(p)
  /\ AloneInv
-----------------------------------------------------------------------------
(***************************************************************************)
(* Schedules, and the label that is judged for a text.                     *)
(***************************************************************************)
LEMMA ArmTyped ==
  ASSUME NEW a \in Arms
  PROVE  /\ a.mode \in {"sequential", "bank", "strategies"} /\ a.alone \in BOOLEAN
         /\ a.dirs \subseteq Dirs /\ a.starts \in Nat
BY AuditsAssumption DEF ArmRecords

\* A dense schedule extends the sparse one, and both end with the full text.
LEMMA Schedules ==
  ASSUME arm \in Arms
  PROVE  /\ \A dense \in BOOLEAN :
              Wanted(dense) \subseteq Labels /\ Cuts(dense) \subseteq Wanted(dense)
              /\ Units \in Wanted(dense)
         /\ Cuts(FALSE) \subseteq Cuts(TRUE) /\ Wanted(FALSE) \subseteq Wanted(TRUE)
         /\ arm.mode # "sequential" => Cuts(FALSE) = Cuts(TRUE)
         /\ Units \in Labels
<1>1. Units \in Nat \ {0}
  BY AuditsAssumption
<1>2. SparseCuts(Units) \subseteq 1..(Units - 1) /\ DenseCuts(Units) = 1..(Units - 1)
  BY DEF SparseCuts, DenseCuts
<1>3. 1..(Units - 1) \subseteq Labels /\ Units \in Labels
  BY <1>1 DEF Labels
<1>4. /\ arm.mode = "bank" => \A dense \in BOOLEAN : Cuts(dense) = {}
      /\ arm.mode = "strategies" => \A dense \in BOOLEAN : Cuts(dense) = DenseCuts(Units)
      /\ arm.mode = "sequential" =>
           Cuts(TRUE) = DenseCuts(Units) /\ Cuts(FALSE) = SparseCuts(Units)
  BY DEF Cuts
<1>5. arm.mode \in {"sequential", "bank", "strategies"}
  BY ArmTyped
<1>6. \A dense \in BOOLEAN : Cuts(dense) \subseteq 1..(Units - 1)
  BY <1>2, <1>4, <1>5
<1>7. Cuts(FALSE) \subseteq Cuts(TRUE)
  BY <1>2, <1>4, <1>5
<1>8. arm.mode # "sequential" => Cuts(FALSE) = Cuts(TRUE)
  BY <1>4, <1>5
<1> QED
  BY <1>3, <1>6, <1>7, <1>8 DEF Wanted

\* In the order of either stage every nonempty set of labels has a first one.
LEMMA FirstLabel ==
  ASSUME NEW stage, NEW S \in SUBSET Labels, S # {}
  PROVE  \E l \in S : \A m \in S : m # l => Before(stage, l, m)
<1>1. Labels \subseteq Nat
  BY DEF Labels
<1>2. PICK least \in S : \A k \in S : least <= k
  BY <1>1, LeastNatural
<1>3. CASE stage = "audit" /\ Units \in S
  BY <1>3 DEF Before
<1>4. CASE ~(stage = "audit" /\ Units \in S)
  <2>1. \A m \in S : m # least => least < m
    BY <1>1, <1>2
  <2> QED
    BY <1>4, <2>1 DEF Before
<1> QED
  BY <1>3, <1>4

\* The judged label of a text is one of the schedule's that has this text.
LEMMA RoleIs ==
  ASSUME arm \in Arms, NEW stage, NEW d, NEW dense \in BOOLEAN, NEW l \in Texts(d, dense)
  PROVE  /\ RoleOf(stage, d, dense, l) \in Texts(d, dense)
         /\ text[d][RoleOf(stage, d, dense, l)] = text[d][l]
<1> DEFINE same == {m \in Texts(d, dense) : text[d][m] = text[d][l]}
<1>1. Texts(d, dense) \subseteq Labels
  BY Schedules DEF Texts
<1>2. same \in SUBSET Labels /\ same # {}
  BY <1>1
<1>3. \E m \in same : \A n \in same : n # m => Before(stage, m, n)
  BY <1>2, FirstLabel
<1>4. RoleOf(stage, d, dense, l) = CHOOSE m \in same : \A n \in same : n # m => Before(stage, m, n)
  BY DEF RoleOf
<1> HIDE DEF same
<1>5. RoleOf(stage, d, dense, l) \in same
  BY <1>3, <1>4
<1> QED
  BY <1>5 DEF same

\* One text is judged once.
LEMMA RoleOfText ==
  ASSUME NEW stage, NEW d, NEW dense, NEW l, NEW m, text[d][l] = text[d][m]
  PROVE  RoleOf(stage, d, dense, l) = RoleOf(stage, d, dense, m)
BY DEF RoleOf

-----------------------------------------------------------------------------
(***************************************************************************)
(* What a step leaves alone.                                               *)
(***************************************************************************)
\* Answers are only added, so what was given stays given.
LEMMA RecordKept ==
  ASSUME NEW stage, NEW d, UNCHANGED fixed, given \subseteq given',
         rec'[stage][d] = rec[stage][d], Recorded(stage, d, rec[stage][d])
  PROVE  (Recorded(stage, d, rec[stage][d]))'
<1>1. arm' = arm /\ text' = text
  BY DEF fixed
<1>2. (Labelled(rec[stage][d]))'
  BY <1>1 DEF Recorded, Labelled, Wanted, Cuts
<1>3. \A l \in DOMAIN rec[stage][d] : (Faithful(stage, d, rec[stage][d][l], l))'
  BY <1>1 DEF Recorded, Faithful, HasText
<1>4. (OneVerdict(rec[stage][d]))' /\ (stage = "state" => (Acquires(rec[stage][d]))')
  BY <1>1 DEF Recorded, OneVerdict, Acquires, Recognized
<1>5. \A l \in DOMAIN rec[stage][d] : rec[stage][d][l].state \in {"S", "P", "U", "null"}
  BY DEF Recorded
<1> QED
  BY <1>2, <1>3, <1>4, <1>5 DEF Recorded

LEMMA CommandKept ==
  ASSUME NEW p \in Procs, CommandInv(p), UNCHANGED fixed,
         cmd'[p] = cmd[p], task'[p] = task[p]
  PROVE  CommandInv(p)'
BY DEF CommandInv, Idle, Opened, fixed

LEMMA TaskKept ==
  ASSUME NEW p \in Procs, TaskInv(p), UNCHANGED fixed, given \subseteq given',
         cmd'[p] = cmd[p], task'[p] = task[p]
  PROVE  TaskInv(p)'
<1> SUFFICES ASSUME Opened(p)
             PROVE  TaskInv(p)'
  BY DEF TaskInv, Opened
<1>1. arm' = arm /\ text' = text /\ T(p)' = T(p)
  BY DEF fixed, T
<1>2. (Recorded(cmd[p].stage, T(p).dir, T(p).base))'
  <2>1. Recorded(cmd[p].stage, T(p).dir, T(p).base)
    BY DEF TaskInv
  <2> DEFINE stage == cmd[p].stage
             d     == T(p).dir
             base  == T(p).base
  <2>2. stage' = stage /\ d' = d /\ base' = base
    BY <1>1
  <2>3. (Labelled(base))'
    BY <1>1, <2>1, <2>2 DEF Recorded, Labelled, Wanted, Cuts
  <2>4. \A l \in DOMAIN base : (Faithful(stage, d, base[l], l))'
    BY <1>1, <2>1, <2>2 DEF Recorded, Faithful, HasText
  <2>5. (OneVerdict(base))' /\ (stage = "state" => (Acquires(base))')
    BY <1>1, <2>1, <2>2 DEF Recorded, OneVerdict, Acquires, Recognized
  <2>6. \A l \in DOMAIN base : base[l].state \in {"S", "P", "U", "null"}
    BY <2>1 DEF Recorded
  <2> QED
    BY <2>2, <2>3, <2>4, <2>5, <2>6 DEF Recorded
<1>3. (Remembered(cmd[p].stage, T(p).dir, T(p).mem))'
  BY <1>1 DEF TaskInv, Remembered
<1>4. Open(p)' = Open(p)
  BY <1>1 DEF Open, Roles, RoleOf, Texts, Wanted, Cuts, HasText, Reusable
<1> QED
  BY <1>1, <1>2, <1>3, <1>4 DEF TaskInv, HasText

\* What an open task is
LEMMA TaskShape ==
  ASSUME IInv, NEW p \in Procs
  PROVE  /\ cmd[p] \in Commands /\ arm \in Arms /\ text \in [Dirs -> Trajectories]
         /\ Opened(p) =>
              /\ T(p) \in Tasks /\ task[p] = <<T(p)>> /\ ~Idle(p)
              /\ cmd[p].stage \in Stages /\ T(p).dir \in Dirs /\ Key(p) \in Keys
<1>1. cmd[p] \in Commands /\ arm \in Arms /\ text \in [Dirs -> Trajectories]
  BY DEF IInv, Typed
<1>2. ASSUME Opened(p)
      PROVE  /\ T(p) \in Tasks /\ task[p] = <<T(p)>> /\ ~Idle(p)
             /\ cmd[p].stage \in Stages /\ T(p).dir \in Dirs
  <2>1. task[p] \in {<<t>> : t \in Tasks}
    BY <1>2 DEF IInv, Typed, Opened
  <2>2. T(p) \in Tasks /\ task[p] = <<T(p)>>
    BY <2>1 DEF T
  <2>3. ~Idle(p) /\ cmd[p].stage \in Stages
    BY <1>2 DEF IInv, CommandInv
  <2>4. T(p).dir \in Dirs
    BY <2>2 DEF Tasks
  <2> QED
    BY <2>2, <2>3, <2>4
<1>3. ASSUME Opened(p)
      PROVE  Key(p) \in Keys
  <2>1. cmd[p].dense \in BOOLEAN
    BY <1>1 DEF Commands
  <2> QED
    BY <1>2, <1>3, <2>1 DEF Key, Keys
<1> QED
  BY <1>1, <1>2, <1>3

LEMMA PutEffect ==
  ASSUME IInv, NEW p \in Procs, NEW t \in Tasks, Put(p, t)
  PROVE  /\ task' \in [Procs -> {<<>>} \cup {<<u>> : u \in Tasks}]
         /\ Opened(p)' /\ T(p)' = t
         /\ \A q \in Procs \ {p} : task'[q] = task[q]
BY DEF Put, IInv, Typed, Opened, T

LEMMA CloseEffect ==
  ASSUME IInv, NEW p \in Procs, Close(p)
  PROVE  /\ task' \in [Procs -> {<<>>} \cup {<<u>> : u \in Tasks}]
         /\ ~Opened(p)'
         /\ \A q \in Procs \ {p} : task'[q] = task[q]
BY DEF Close, IInv, Typed, Opened

LEMMA UnlockEffect ==
  ASSUME IInv, NEW p \in Procs, Unlock(p)
  PROVE  held' \in [Keys -> Procs \cup {None}]
BY DEF Unlock, IInv, Typed

\* The checkpoints, when one of them is written with what was answered
Checkpoints ==
  /\ ckpt \in [Keys -> {<<>>} \cup {<<mem>> : mem \in CallStates}]
  /\ \A k \in Keys : ckpt[k] # <<>> => Remembered(k[1], k[2], ckpt[k][1])

LEMMA CheckpointsKept ==
  ASSUME IInv, UNCHANGED fixed, given \subseteq given',
         ckpt' \in [Keys -> {<<>>} \cup {<<mem>> : mem \in CallStates}],
         \A k \in Keys : ckpt'[k] \in {<<>>, ckpt[k]}
  PROVE  Checkpoints'
<1>1. ASSUME NEW k \in Keys, ckpt'[k] # <<>>
      PROVE  (Remembered(k[1], k[2], ckpt[k][1]))'
  <2>1. ckpt'[k] = ckpt[k] /\ Remembered(k[1], k[2], ckpt[k][1])
    BY <1>1 DEF IInv, OnDisk
  <2> QED
    BY <2>1 DEF Remembered, fixed
<1> QED
  BY <1>1 DEF Checkpoints

LEMMA SaveEffect ==
  ASSUME IInv, NEW p \in Procs, NEW mem \in CallStates, Save(p, mem), Opened(p),
         UNCHANGED fixed, given \subseteq given',
         \A l \in Labels : mem.calls[l] # NoAnswer =>
           <<cmd[p].stage, T(p).dir, text[T(p).dir][l], mem.calls[l]>> \in given'
  PROVE  Checkpoints'
<1>1. Key(p) \in Keys /\ Key(p)[1] = cmd[p].stage /\ Key(p)[2] = T(p).dir
  BY TaskShape DEF Key
<1>2. ckpt \in [Keys -> {<<>>} \cup {<<m>> : m \in CallStates}]
  BY DEF IInv, Typed
<1>3. ckpt' \in [Keys -> {<<>>} \cup {<<m>> : m \in CallStates}]
  BY <1>1, <1>2 DEF Save
<1>4. ASSUME NEW k \in Keys, ckpt'[k] # <<>>
      PROVE  (Remembered(k[1], k[2], ckpt[k][1]))'
  <2>1. CASE k = Key(p)
    <3>1. ckpt'[k][1] = mem
      BY <1>1, <1>2, <2>1 DEF Save
    <3> QED
      BY <1>1, <2>1, <3>1 DEF Remembered, fixed
  <2>2. CASE k # Key(p)
    <3>1. ckpt'[k] = ckpt[k]
      BY <1>1, <1>2, <2>2 DEF Save
    <3>2. Remembered(k[1], k[2], ckpt[k][1])
      BY <1>4, <3>1 DEF IInv, OnDisk
    <3> QED
      BY <3>1, <3>2 DEF Remembered, fixed
  <2> QED
    BY <2>1, <2>2
<1> QED
  BY <1>3, <1>4 DEF Checkpoints

\* An invariant of every invocation: the one that moved, and the others.
LEMMA Frame ==
  ASSUME IInv, NEW p \in Procs, UNCHANGED fixed, given \subseteq given',
         \A q \in Procs \ {p} : cmd'[q] = cmd[q] /\ task'[q] = task[q],
         starts' \in 0..arm.starts,
         rec' \in [Stages -> [Dirs -> Records]],
         held' \in [Keys -> Procs \cup {None}],
         cmd' \in [Procs -> Commands],
         task' \in [Procs -> {<<>>} \cup {<<t>> : t \in Tasks}],
         Checkpoints',
         \A stage \in Stages, d \in Dirs : (Recorded(stage, d, rec[stage][d]))',
         \A g \in given' : g[1] \in Stages /\ g[4] \in Answers(g[1]),
         CommandInv(p)', TaskInv(p)',
         arm.alone =>
           /\ ~Idle(p) \/ \A q \in Procs : Idle(q)
           /\ OnFile(p)' /\ BankOnFile'
  PROVE  IInv'
<1>1. arm' = arm /\ text' = text /\ Commands' = Commands
  BY DEF fixed, Commands
<1>2. Typed'
  BY <1>1 DEF IInv, Typed, Checkpoints
<1>3. OnDisk'
  BY <1>1 DEF OnDisk, Checkpoints, Answers
<1>4. ASSUME NEW q \in Procs
      PROVE  CommandInv(q)' /\ TaskInv(q)'
  <2>1. CASE q = p
    BY <2>1
  <2>2. CASE q # p
    BY <2>2, CommandKept, TaskKept DEF IInv
  <2> QED
    BY <2>1, <2>2
<1>5. AloneInv'
  <2> SUFFICES ASSUME arm.alone
               PROVE  /\ \A q, r \in Procs : ~Idle(q)' /\ ~Idle(r)' => q = r
                      /\ \A q \in Procs : OnFile(q)'
                      /\ BankOnFile'
    BY <1>1 DEF AloneInv
  <2>1. \A q \in Procs \ {p} : Idle(q)
    BY DEF IInv, AloneInv
  <2>2. \A q \in Procs \ {p} : Idle(q)'
    BY <2>1 DEF Idle
  <2>3. ASSUME NEW q \in Procs \ {p}
        PROVE  OnFile(q)'
    <3>1. cmd'[q].stage = "idle"
      BY <2>2 DEF Idle, NoCommand
    <3>2. ~Opened(q)'
      BY <1>4, <2>2 DEF CommandInv
    <3> QED
      BY <3>1, <3>2 DEF OnFile
  <2> QED
    BY <2>2, <2>3
<1> QED
  BY <1>2, <1>3, <1>4, <1>5 DEF IInv

LEMMA RecordsKept ==
  ASSUME IInv, UNCHANGED <<fixed, rec>>, given \subseteq given'
  PROVE  /\ rec' \in [Stages -> [Dirs -> Records]]
         /\ \A stage \in Stages, d \in Dirs : (Recorded(stage, d, rec[stage][d]))'
<1>1. rec' = rec /\ rec \in [Stages -> [Dirs -> Records]]
  BY DEF IInv, Typed
<1>2. ASSUME NEW stage \in Stages, NEW d \in Dirs
      PROVE  (Recorded(stage, d, rec[stage][d]))'
  BY <1>1, RecordKept DEF IInv, OnDisk
<1> QED
  BY <1>1, <1>2

\* Nothing is on file yet, and nothing is remembered.
LEMMA Blank ==
  /\ NoRecord \in Records /\ DOMAIN NoRecord = {} /\ NewState \in CallStates
  /\ \A l \in Labels : NewState.calls[l] = NoAnswer
<1>1. DOMAIN NoRecord = {} /\ NoRecord \in [{} -> Entries]
  BY DEF NoRecord
<1>2. {} \in SUBSET Labels
  OBVIOUS
<1>3. NoRecord \in Records
  BY <1>1, <1>2 DEF Records
<1> QED
  BY <1>1, <1>3 DEF NewState, CallStates

LEMMA BlankRecorded ==
  ASSUME NEW stage, NEW d PROVE Recorded(stage, d, NoRecord)
BY Blank DEF Recorded, Labelled, OneVerdict, Acquires

\* A step that closes an invocation's task, or ends the invocation
LEMMA Closed ==
  ASSUME IInv, NEW p \in Procs, ~Idle(p), UNCHANGED <<fixed, rec, bank, given, starts>>,
         cmd' \in [Procs -> Commands], cmd'[p] \in {cmd[p], NoCommand},
         task' \in [Procs -> {<<>>} \cup {<<t>> : t \in Tasks}], ~Opened(p)',
         \A q \in Procs \ {p} : cmd'[q] = cmd[q] /\ task'[q] = task[q],
         held' \in [Keys -> Procs \cup {None}],
         Checkpoints'
  PROVE  IInv'
<1>1. arm' = arm
  BY DEF fixed
<1>2. /\ rec' \in [Stages -> [Dirs -> Records]]
      /\ \A stage \in Stages, d \in Dirs : (Recorded(stage, d, rec[stage][d]))'
  BY RecordsKept
<1>3. CommandInv(p)' /\ TaskInv(p)'
  <2>1. TaskInv(p)'
    BY DEF TaskInv
  <2>2. CASE cmd'[p] = cmd[p]
    BY <1>1, <2>1, <2>2 DEF IInv, CommandInv, Idle
  <2>3. CASE cmd'[p] = NoCommand
    BY <1>1, <2>1, <2>3 DEF CommandInv, Idle, NoCommand
  <2> QED
    BY <2>1, <2>2, <2>3
<1>4. ASSUME arm.alone
      PROVE  OnFile(p)' /\ BankOnFile'
  <2>1. OnFile(p) /\ BankOnFile
    BY <1>4 DEF IInv, AloneInv
  <2>2. BankOnFile'
    BY <1>1, <2>1 DEF BankOnFile
  <2>3. CASE cmd'[p] = cmd[p]
    BY <2>1, <2>2, <2>3 DEF OnFile
  <2>4. CASE cmd'[p] = NoCommand
    BY <2>2, <2>4 DEF OnFile, NoCommand
  <2> QED
    BY <2>3, <2>4
<1> QED
  BY <1>2, <1>3, <1>4, Frame DEF IInv, Typed, OnDisk

\* A step of an open task to its next place
LEMMA Moved ==
  ASSUME IInv, NEW p \in Procs, NEW t \in Tasks, Opened(p), Put(p, t),
         UNCHANGED <<fixed, rec, bank, cmd, starts>>, given \subseteq given',
         held' \in [Keys -> Procs \cup {None}], Checkpoints',
         \A g \in given' : g[1] \in Stages /\ g[4] \in Answers(g[1]),
         t.dir = T(p).dir,
         Recorded(cmd[p].stage, t.dir, t.base),
         \A l \in Labels : t.mem.calls[l] # NoAnswer =>
           <<cmd[p].stage, T(p).dir, text[T(p).dir][l], t.mem.calls[l]>> \in given',
         cmd[p].stage = "audit" => HasText(T(p).dir, Units),
         t.at \in {"asked", "commit"} =>
           /\ t.base = T(p).base /\ t.mem.calls = T(p).mem.calls
           /\ t.at = "asked" <=> Open(p) # {},
         arm.alone /\ t.at \in {"judge", "asked", "commit"} =>
           /\ T(p).at \in {"read", "judge", "asked", "commit"}
           /\ t.base = rec[cmd[p].stage][T(p).dir],
         t.at # "read"
  PROVE  IInv'
<1>1. /\ arm' = arm /\ text' = text /\ cmd' = cmd /\ rec' = rec /\ bank' = bank
  BY DEF fixed
<1>2. /\ rec' \in [Stages -> [Dirs -> Records]]
      /\ \A stage \in Stages, d \in Dirs : (Recorded(stage, d, rec[stage][d]))'
  BY RecordsKept
<1>3. /\ task' \in [Procs -> {<<>>} \cup {<<u>> : u \in Tasks}]
      /\ Opened(p)' /\ T(p)' = t /\ \A q \in Procs \ {p} : task'[q] = task[q]
  BY PutEffect
<1>4. ~Idle(p) /\ T(p).dir \in arm.dirs /\ CommandInv(p)
  BY TaskShape DEF IInv, TaskInv
<1>5. CommandInv(p)'
  BY <1>1, <1>4 DEF CommandInv, Idle
<1>6. (Recorded(cmd[p].stage, T(p).dir, T(p).base))'
  <2>1. (Labelled(T(p).base))'
    BY <1>1, <1>3 DEF Recorded, Labelled, Wanted, Cuts
  <2>2. \A l \in DOMAIN t.base : (Faithful(cmd[p].stage, T(p).dir, T(p).base[l], l))'
    BY <1>1, <1>3 DEF Recorded, Faithful, HasText
  <2>3. (OneVerdict(T(p).base))' /\ (cmd[p].stage = "state" => (Acquires(T(p).base))')
    BY <1>1, <1>3 DEF Recorded, OneVerdict, Acquires, Recognized
  <2>4. \A l \in DOMAIN t.base : t.base[l].state \in {"S", "P", "U", "null"}
    BY DEF Recorded
  <2> QED
    BY <1>1, <1>3, <2>1, <2>2, <2>3, <2>4 DEF Recorded
<1>7. (Remembered(cmd[p].stage, T(p).dir, T(p).mem))'
  BY <1>1, <1>3 DEF Remembered
<1>8. /\ t.at = "asked" => Open(p)' # {}
      /\ t.at = "commit" => Open(p)' = {}
  <2>1. t.at \in {"asked", "commit"} => Open(p)' = Open(p)
    BY <1>1, <1>3 DEF Open, Roles, RoleOf, Texts, Wanted, Cuts, HasText, Reusable
  <2> QED
    BY <2>1
<1>9. TaskInv(p)'
  BY <1>1, <1>3, <1>4, <1>6, <1>7, <1>8 DEF TaskInv, HasText
<1>10. ASSUME arm.alone
       PROVE  OnFile(p)' /\ BankOnFile'
  <2>1. OnFile(p) /\ BankOnFile
    BY <1>10 DEF IInv, AloneInv
  <2>2. BankOnFile'
    BY <1>1, <2>1 DEF BankOnFile
  <2>3. OnFile(p)'
    BY <1>1, <1>3, <1>10, <2>1 DEF OnFile
  <2> QED
    BY <2>2, <2>3
<1> QED
  BY <1>2, <1>3, <1>4, <1>5, <1>9, <1>10, Frame DEF IInv, Typed

\* A record that is written
Writes(stage, d, new) == rec' = [rec EXCEPT ![stage][d] = new]

LEMMA RecordWritten ==
  ASSUME IInv, NEW stage \in Stages, NEW d \in Dirs, NEW new \in Records,
         Writes(stage, d, new), UNCHANGED <<fixed, given>>,
         Recorded(stage, d, new)
  PROVE  /\ rec' \in [Stages -> [Dirs -> Records]] /\ rec'[stage][d] = new
         /\ \A s \in Stages, e \in Dirs : s # stage \/ e # d => rec'[s][e] = rec[s][e]
         /\ \A s \in Stages, e \in Dirs : (Recorded(s, e, rec[s][e]))'
<1>1. rec \in [Stages -> [Dirs -> Records]]
  BY DEF IInv, Typed
<1>2. /\ rec'[stage][d] = new
      /\ \A s \in Stages, e \in Dirs : s # stage \/ e # d => rec'[s][e] = rec[s][e]
  BY <1>1 DEF Writes
<1>3. rec' \in [Stages -> [Dirs -> Records]]
  <2>1. [rec[stage] EXCEPT ![d] = new] \in [Dirs -> Records]
    BY <1>1
  <2>2. rec' = [rec EXCEPT ![stage] = [rec[stage] EXCEPT ![d] = new]]
    BY <1>1 DEF Writes
  <2> QED
    BY <1>1, <2>1, <2>2
<1>4. (Recorded(stage, d, rec[stage][d]))'
  <2>1. arm' = arm /\ text' = text /\ given' = given
    BY DEF fixed
  <2>2. (Labelled(rec[stage][d]))'
    BY <1>2, <2>1 DEF Recorded, Labelled, Wanted, Cuts
  <2>3. \A l \in DOMAIN new : (Faithful(stage, d, rec[stage][d][l], l))'
    BY <1>2, <2>1 DEF Recorded, Faithful, HasText
  <2>4. (OneVerdict(rec[stage][d]))' /\ (stage = "state" => (Acquires(rec[stage][d]))')
    BY <1>2, <2>1 DEF Recorded, OneVerdict, Acquires, Recognized
  <2>5. \A l \in DOMAIN new : new[l].state \in {"S", "P", "U", "null"}
    BY DEF Recorded
  <2> QED
    BY <1>2, <2>2, <2>3, <2>4, <2>5 DEF Recorded
<1>5. ASSUME NEW s \in Stages, NEW e \in Dirs
      PROVE  (Recorded(s, e, rec[s][e]))'
  <2>1. CASE s = stage /\ e = d
    BY <1>4, <2>1
  <2>2. CASE s # stage \/ e # d
    BY <1>2, <2>2, RecordKept DEF IInv, OnDisk
  <2> QED
    BY <2>1, <2>2
<1> QED
  BY <1>2, <1>3, <1>5

-----------------------------------------------------------------------------
(***************************************************************************)
(* The actions of an invocation.                                           *)
(***************************************************************************)
\* The tasks a stage lists, and what is on file for them
LEMMA EnterEffect ==
  ASSUME IInv, NEW p \in Procs, NEW stage \in Stages, NEW dense \in BOOLEAN,
         Enter(p, stage, dense), UNCHANGED <<fixed, rec, bank, task>>,
         dense => arm.mode = "sequential", ~Opened(p)
  PROVE  /\ cmd' \in [Procs -> Commands] /\ \A q \in Procs \ {p} : cmd'[q] = cmd[q]
         /\ CommandInv(p)' /\ TaskInv(p)'
         /\ arm.alone => OnFile(p)' /\ BankOnFile'
<1>1. arm' = arm /\ ~Opened(p)'
  BY DEF fixed, Opened
<1>2. Pending(stage, dense) \in SUBSET arm.dirs
  BY DEF Pending
<1> DEFINE c == [stage |-> stage, dense |-> dense,
                 listed |-> Pending(stage, dense), todo |-> Pending(stage, dense),
                 certify |-> stage = "audit" /\ arm.mode = "bank" /\ bank = <<>>]
<1>3. c \in Commands
  BY <1>2 DEF Commands
<1>4. cmd' = [cmd EXCEPT ![p] = c] /\ cmd \in [Procs -> Commands]
  BY DEF Enter, IInv, Typed
<1>5. /\ c.stage = stage /\ c.dense = dense /\ c.todo = Pending(stage, dense)
      /\ c.certify <=> stage = "audit" /\ arm.mode = "bank" /\ bank = <<>>
  OBVIOUS
<1> HIDE DEF c
<1>6. /\ cmd' \in [Procs -> Commands] /\ cmd'[p] = c
      /\ \A q \in Procs \ {p} : cmd'[q] = cmd[q]
  BY <1>3, <1>4
<1>7. CommandInv(p)' /\ TaskInv(p)'
  BY <1>1, <1>5, <1>6 DEF CommandInv, TaskInv
<1>8. ASSUME arm.alone
      PROVE  OnFile(p)' /\ BankOnFile'
  <2>1. BankOnFile /\ BankOnFile'
    BY <1>1, <1>8 DEF IInv, AloneInv, BankOnFile
  <2>2. arm.mode \in {"sequential", "bank", "strategies"}
    BY ArmTyped DEF IInv, Typed
  <2>3. stage = "audit" /\ bank # <<>> => Pending(stage, dense) = {}
    BY <2>1 DEF Pending, BankOnFile
  <2>4. stage = "audit" /\ ~dense => \A d \in Pending(stage, dense) : rec.audit[d] = NoRecord
    BY <2>2 DEF Pending, HasSchedule
  <2>5. rec' = rec /\ bank' = bank
    OBVIOUS
  <2>6. OnFile(p)'
    BY <1>1, <1>5, <1>6, <2>3, <2>4, <2>5 DEF OnFile
  <2> QED
    BY <2>1, <2>6
<1> QED
  BY <1>6, <1>7, <1>8

LEMMA LaunchIInv == ASSUME IInv, NEW p \in Procs, Launch(p) PROVE IInv'
<1>1. PICK dense \in BOOLEAN :
        Enter(p, "audit", dense) /\ (dense => arm.mode = "sequential")
  BY DEF Launch
<1>2. /\ Idle(p) /\ UNCHANGED <<fixed, rec, bank, ckpt, held, task, given>>
      /\ arm.alone => \A q \in Procs : Idle(q)
      /\ starts < arm.starts /\ starts' = starts + 1
  BY DEF Launch
<1>3. ~Opened(p)
  BY <1>2 DEF IInv, CommandInv
<1>4. "audit" \in Stages
  BY DEF Stages
<1>5. /\ cmd' \in [Procs -> Commands] /\ \A q \in Procs \ {p} : cmd'[q] = cmd[q]
      /\ CommandInv(p)' /\ TaskInv(p)'
      /\ arm.alone => OnFile(p)' /\ BankOnFile'
  BY <1>1, <1>2, <1>3, <1>4, EnterEffect
<1>6. starts' \in 0..arm.starts
  <2>1. arm.starts \in Nat /\ starts \in 0..arm.starts
    BY ArmTyped DEF IInv, Typed
  <2> QED
    BY <1>2, <2>1
<1>7. Checkpoints'
  BY <1>2, CheckpointsKept DEF IInv, Typed
<1>8. /\ rec' \in [Stages -> [Dirs -> Records]]
      /\ \A stage \in Stages, d \in Dirs : (Recorded(stage, d, rec[stage][d]))'
  BY <1>2, RecordsKept
<1> QED
  BY <1>2, <1>5, <1>6, <1>7, <1>8, Frame DEF IInv, Typed, OnDisk

LEMMA NextStageIInv == ASSUME IInv, NEW p \in Procs, NextStage(p) PROVE IInv'
<1>1. /\ Enter(p, "state", cmd[p].dense) /\ ~Opened(p) /\ ~Idle(p)
      /\ UNCHANGED <<fixed, rec, bank, ckpt, held, task, given, starts>>
  BY DEF NextStage, StageOver
<1>2. cmd[p].dense \in BOOLEAN /\ (cmd[p].dense => arm.mode = "sequential") /\ "state" \in Stages
  BY TaskShape DEF IInv, CommandInv, Commands, Stages
<1>3. /\ cmd' \in [Procs -> Commands] /\ \A q \in Procs \ {p} : cmd'[q] = cmd[q]
      /\ CommandInv(p)' /\ TaskInv(p)'
      /\ arm.alone => OnFile(p)' /\ BankOnFile'
  BY <1>1, <1>2, EnterEffect
<1>4. Checkpoints'
  BY <1>1, CheckpointsKept DEF IInv, Typed
<1>5. /\ rec' \in [Stages -> [Dirs -> Records]]
      /\ \A stage \in Stages, d \in Dirs : (Recorded(stage, d, rec[stage][d]))'
  BY <1>1, RecordsKept
<1> QED
  BY <1>1, <1>3, <1>4, <1>5, Frame DEF IInv, Typed, OnDisk

LEMMA TakeIInv == ASSUME IInv, NEW p \in Procs, Take(p) PROVE IInv'
<1>1. PICK d \in cmd[p].todo :
        LET base == IF cmd[p].stage = "state" THEN rec.state[d] ELSE NoRecord
            over == \/ Current(base, cmd[p].dense)
                    \/ /\ cmd[p].stage = "state" /\ arm.mode = "sequential"
                       /\ ~Current(rec.audit[d], cmd[p].dense)
        IN  /\ cmd' = [cmd EXCEPT ![p].todo = @ \ {d}]
            /\ IF over THEN UNCHANGED task
               ELSE Put(p, [dir |-> d, at |-> "read", base |-> base, mem |-> NewState])
  BY DEF Take
<1> DEFINE base == IF cmd[p].stage = "state" THEN rec.state[d] ELSE NoRecord
           t    == [dir |-> d, at |-> "read", base |-> base, mem |-> NewState]
<1>2. /\ ~Idle(p) /\ ~Opened(p)
      /\ UNCHANGED <<fixed, rec, bank, ckpt, held, given, starts>>
  BY DEF Take
<1>3. arm' = arm /\ arm \in Arms /\ cmd[p] \in Commands /\ cmd \in [Procs -> Commands]
  BY <1>2, TaskShape DEF fixed, IInv, Typed
<1>4. /\ cmd' \in [Procs -> Commands] /\ \A q \in Procs \ {p} : cmd'[q] = cmd[q]
      /\ cmd'[p].stage = cmd[p].stage /\ cmd'[p].dense = cmd[p].dense
      /\ cmd'[p].certify = cmd[p].certify /\ cmd'[p].todo = cmd[p].todo \ {d}
      /\ cmd[p].stage \in Stages /\ cmd[p].dense \in BOOLEAN
  <2>1. [cmd[p] EXCEPT !.todo = @ \ {d}] \in Commands
    BY <1>3 DEF Commands
  <2>2. cmd' = [cmd EXCEPT ![p] = [cmd[p] EXCEPT !.todo = @ \ {d}]]
    BY <1>1, <1>3
  <2>3. cmd[p].stage \in Stages /\ cmd[p].dense \in BOOLEAN
    BY <1>2, <1>3 DEF IInv, CommandInv, Commands
  <2> QED
    BY <1>3, <2>1, <2>2, <2>3 DEF Commands
<1>5. ~Idle(p)'
  BY <1>4 DEF Idle, NoCommand, Stages
<1>6. d \in Dirs /\ d \in arm.dirs
  BY <1>3, ArmTyped DEF Commands
<1>7. base \in Records /\ Recorded(cmd[p].stage, d, base)
  <2>1. rec.state[d] \in Records /\ Recorded("state", d, rec.state[d])
    BY <1>6 DEF IInv, Typed, OnDisk, Stages
  <2> QED
    BY <2>1, Blank, BlankRecorded
<1>8. t \in Tasks
  BY <1>6, <1>7, Blank DEF Tasks, Places
<1>9. /\ t.dir = d /\ t.at = "read" /\ t.base = base /\ t.mem = NewState
  OBVIOUS
<1>10. /\ rec' \in [Stages -> [Dirs -> Records]]
       /\ \A stage \in Stages, e \in Dirs : (Recorded(stage, e, rec[stage][e]))'
       /\ Checkpoints'
  BY <1>2, RecordsKept, CheckpointsKept DEF IInv, Typed
<1>11. arm.alone => /\ BankOnFile' /\ (cmd[p].stage = "audit" => bank = <<>>)
                    /\ ~cmd[p].dense /\ cmd[p].stage = "audit" =>
                         \A e \in cmd[p].todo : rec.audit[e] = NoRecord
  BY <1>2, <1>3 DEF IInv, AloneInv, OnFile, BankOnFile
<1>12. CASE UNCHANGED task
  <2>1. ~Opened(p)' /\ CommandInv(p)' /\ TaskInv(p)'
    BY <1>2, <1>3, <1>4, <1>12 DEF Opened, CommandInv, TaskInv, IInv
  <2>2. arm.alone => OnFile(p)'
    BY <1>2, <1>4, <1>11, <2>1 DEF OnFile
  <2> QED
    BY <1>2, <1>4, <1>10, <1>11, <1>12, <2>1, <2>2, Frame DEF IInv, Typed, OnDisk
<1>13. CASE Put(p, t) /\ ~Current(base, cmd[p].dense)
  <2> HIDE DEF t
  <2>1. /\ task' \in [Procs -> {<<>>} \cup {<<u>> : u \in Tasks}]
        /\ Opened(p)' /\ T(p)' = t /\ \A q \in Procs \ {p} : task'[q] = task[q]
    BY <1>8, <1>13, PutEffect
  <2>2. CommandInv(p)'
    BY <1>3, <1>4, <1>5 DEF CommandInv, IInv
  <2>3. (Recorded(cmd[p].stage, T(p).dir, T(p).base))'
    <3> HIDE DEF base
    <3>1. /\ cmd'[p].stage = cmd[p].stage /\ T(p)'.dir = d /\ T(p)'.base = base
          /\ arm' = arm /\ text' = text /\ given' = given
      BY <1>2, <1>4, <1>9, <2>1 DEF fixed
    <3>2. (Labelled(T(p).base))'
      BY <1>7, <3>1 DEF Recorded, Labelled, Wanted, Cuts
    <3>3. \A l \in DOMAIN base : (Faithful(cmd[p].stage, T(p).dir, T(p).base[l], l))'
      BY <1>7, <3>1 DEF Recorded, Faithful, HasText
    <3>4. (OneVerdict(T(p).base))' /\ (cmd[p].stage = "state" => (Acquires(T(p).base))')
      BY <1>7, <3>1 DEF Recorded, OneVerdict, Acquires, Recognized
    <3>5. \A l \in DOMAIN base : base[l].state \in {"S", "P", "U", "null"}
      BY <1>7 DEF Recorded
    <3> QED
      BY <3>1, <3>2, <3>3, <3>4, <3>5 DEF Recorded
  <2>4. (Remembered(cmd[p].stage, T(p).dir, T(p).mem))'
    BY <1>9, <2>1, Blank DEF Remembered
  <2>5. TaskInv(p)'
    BY <1>3, <1>6, <1>9, <2>1, <2>3, <2>4 DEF TaskInv
  <2>6. ASSUME arm.alone
        PROVE  OnFile(p)'
    <3>1. ~cmd[p].dense => rec[cmd[p].stage][d] = NoRecord
      <4>1. CASE cmd[p].stage = "audit"
        BY <1>11, <2>6, <4>1
      <4>2. CASE cmd[p].stage = "state" /\ ~cmd[p].dense
        <5>1. ~Current(base, FALSE) /\ Labelled(base) /\ base = rec.state[d]
          BY <1>4, <1>7, <1>13, <4>2 DEF Recorded
        <5>2. Cuts(FALSE) \subseteq Wanted(FALSE) /\ Cuts(FALSE) \subseteq Wanted(TRUE)
          BY <1>3, Schedules
        <5> QED
          BY <4>2, <5>1, <5>2 DEF Current, Labelled
      <4> QED
        BY <1>4, <4>1, <4>2 DEF Stages
    <3>2. /\ cmd[p].stage = "state" => base = rec[cmd[p].stage][d]
          /\ cmd[p].stage # "state" => base = NoRecord
      OBVIOUS
    <3>3. rec' = rec /\ bank' = bank
      BY <1>2
    <3> HIDE DEF base
    <3> QED
      BY <1>4, <1>9, <1>11, <2>1, <2>6, <3>1, <3>2, <3>3 DEF OnFile, Stages
  <2> QED
    BY <1>2, <1>4, <1>10, <1>11, <2>1, <2>2, <2>5, <2>6, Frame DEF IInv, Typed, OnDisk
<1> QED
  BY <1>1, <1>12, <1>13

LEMMA CertifyBankIInv == ASSUME IInv, NEW p \in Procs, CertifyBank(p) PROVE IInv'
<1>1. /\ cmd[p].certify /\ cmd[p].todo = {} /\ ~Opened(p)
      /\ bank' = IF MembersAudited THEN <<BankVerdict>> ELSE bank
      /\ cmd' = [cmd EXCEPT ![p].certify = FALSE]
      /\ UNCHANGED <<fixed, rec, ckpt, held, task, given, starts>>
  BY DEF CertifyBank
<1>2. /\ cmd[p] \in Commands /\ arm' = arm /\ cmd \in [Procs -> Commands]
      /\ cmd[p].stage = "audit" /\ arm.mode = "bank" /\ ~Idle(p)
  BY <1>1, TaskShape DEF IInv, Typed, CommandInv, fixed, Idle, NoCommand
<1>3. /\ cmd' \in [Procs -> Commands] /\ \A q \in Procs \ {p} : cmd'[q] = cmd[q]
      /\ cmd'[p].stage = cmd[p].stage /\ cmd'[p].dense = cmd[p].dense
      /\ ~cmd'[p].certify /\ cmd'[p].todo = cmd[p].todo
  <2>1. [cmd[p] EXCEPT !.certify = FALSE] \in Commands
    BY <1>2 DEF Commands
  <2>2. cmd' = [cmd EXCEPT ![p] = [cmd[p] EXCEPT !.certify = FALSE]]
    BY <1>1, <1>2
  <2> QED
    BY <1>2, <2>1, <2>2 DEF Commands
<1>4. ~Opened(p)' /\ CommandInv(p)' /\ TaskInv(p)'
  BY <1>1, <1>2, <1>3 DEF Opened, CommandInv, TaskInv, IInv, Stages
<1>5. /\ rec' \in [Stages -> [Dirs -> Records]]
      /\ \A stage \in Stages, e \in Dirs : (Recorded(stage, e, rec[stage][e]))'
      /\ Checkpoints'
  BY <1>1, RecordsKept, CheckpointsKept DEF IInv, Typed
<1>6. ASSUME arm.alone
      PROVE  OnFile(p)' /\ BankOnFile'
  <2>1. OnFile(p)'
    BY <1>1, <1>2, <1>3, <1>4 DEF OnFile
  <2>2. BankOnFile
    BY <1>6 DEF IInv, AloneInv
  <2>3. CASE MembersAudited
    <3>1. bank' = <<BankVerdict>>
      BY <1>1, <2>3
    <3>2. \A d \in arm.dirs : bank'[1][d] = rec.audit[d][Units].verdict
      BY <3>1 DEF BankVerdict
    <3> QED
      BY <1>1, <1>2, <2>1, <3>2 DEF BankOnFile
  <2>4. CASE ~MembersAudited
    BY <1>1, <1>2, <2>1, <2>2, <2>4 DEF BankOnFile
  <2> QED
    BY <2>3, <2>4
<1> QED
  BY <1>1, <1>2, <1>3, <1>4, <1>5, <1>6, Frame DEF IInv, Typed, OnDisk

LEMMA CleanedEffect ==
  ASSUME IInv, NEW stages, NEW locks
  PROVE  /\ Cleaned(stages, locks) \in [Keys -> {<<>>} \cup {<<mem>> : mem \in CallStates}]
         /\ \A k \in Keys : Cleaned(stages, locks)[k] \in {<<>>, ckpt[k]}
BY DEF Cleaned, IInv, Typed

LEMMA StopIInv == ASSUME IInv, NEW p \in Procs, Stop(p) PROVE IInv'
<1>1. /\ ~Idle(p) /\ ~Opened(p) /\ cmd' = [cmd EXCEPT ![p] = NoCommand]
      /\ UNCHANGED <<fixed, rec, bank, held, task, given, starts>>
  BY DEF Stop, StageOver
<1>2. NoCommand \in Commands
  BY DEF NoCommand, Commands
<1>3. /\ cmd' \in [Procs -> Commands] /\ cmd'[p] = NoCommand
      /\ \A q \in Procs \ {p} : cmd'[q] = cmd[q]
  BY <1>1, <1>2 DEF IInv, Typed
<1>4. PICK stages : ckpt' = Cleaned(stages, held)
  BY DEF Stop
<1>5. PICK locks : locks = held
  OBVIOUS
<1>6. Checkpoints'
  BY <1>1, <1>4, <1>5, CleanedEffect, CheckpointsKept
<1> QED
  BY <1>1, <1>3, <1>6, Closed DEF IInv, Typed, Opened

LEMMA KillIInv == ASSUME IInv, NEW p \in Procs, Kill(p) PROVE IInv'
<1>1. /\ ~Idle(p) /\ Close(p) /\ Unlock(p) /\ cmd' = [cmd EXCEPT ![p] = NoCommand]
      /\ UNCHANGED <<fixed, rec, bank, given, starts>>
  BY DEF Kill
<1>2. NoCommand \in Commands
  BY DEF NoCommand, Commands
<1>3. /\ cmd' \in [Procs -> Commands] /\ cmd'[p] = NoCommand
      /\ \A q \in Procs \ {p} : cmd'[q] = cmd[q]
  BY <1>1, <1>2 DEF IInv, Typed
<1>4. /\ task' \in [Procs -> {<<>>} \cup {<<t>> : t \in Tasks}] /\ ~Opened(p)'
      /\ \A q \in Procs \ {p} : task'[q] = task[q]
  BY <1>1, CloseEffect
<1>5. held' \in [Keys -> Procs \cup {None}]
  BY <1>1, UnlockEffect
<1>6. PICK locks : ckpt' = ckpt \/ ckpt' = Cleaned({"audit"}, locks)
  BY DEF Kill
<1>7. Checkpoints'
  <2>1. CASE ckpt' = ckpt
    BY <1>1, <2>1, CheckpointsKept DEF IInv, Typed
  <2>2. CASE ckpt' = Cleaned({"audit"}, locks)
    BY <1>1, <2>2, CleanedEffect, CheckpointsKept
  <2> QED
    BY <1>6, <2>1, <2>2
<1> QED
  BY <1>1, <1>3, <1>4, <1>5, <1>7, Closed

LEMMA FailCallIInv == ASSUME IInv, NEW p \in Procs, FailCall(p) PROVE IInv'
<1>1. /\ Opened(p) /\ Close(p) /\ Unlock(p)
      /\ UNCHANGED <<fixed, rec, bank, ckpt, cmd, given, starts>>
  BY DEF FailCall, At
<1>2. ~Idle(p)
  BY <1>1, TaskShape
<1>3. /\ task' \in [Procs -> {<<>>} \cup {<<t>> : t \in Tasks}] /\ ~Opened(p)'
      /\ \A q \in Procs \ {p} : task'[q] = task[q]
  BY <1>1, CloseEffect
<1>4. held' \in [Keys -> Procs \cup {None}]
  BY <1>1, UnlockEffect
<1>5. Checkpoints'
  BY <1>1, CheckpointsKept DEF IInv, Typed
<1> QED
  BY <1>1, <1>2, <1>3, <1>4, <1>5, Closed DEF IInv, Typed

LEMMA RemoveIInv == ASSUME IInv, NEW p \in Procs, Remove(p) PROVE IInv'
<1>1. /\ Opened(p) /\ Close(p)
      /\ ckpt' = [ckpt EXCEPT ![Key(p)] = <<>>] /\ held' = [held EXCEPT ![Key(p)] = None]
      /\ UNCHANGED <<fixed, rec, bank, cmd, given, starts>>
  BY DEF Remove, At
<1>2. ~Idle(p)
  BY <1>1, TaskShape
<1>3. /\ task' \in [Procs -> {<<>>} \cup {<<t>> : t \in Tasks}] /\ ~Opened(p)'
      /\ \A q \in Procs \ {p} : task'[q] = task[q]
  BY <1>1, CloseEffect
<1>4. held' \in [Keys -> Procs \cup {None}]
  BY <1>1 DEF IInv, Typed
<1>5. ckpt \in [Keys -> {<<>>} \cup {<<mem>> : mem \in CallStates}]
  BY DEF IInv, Typed
<1>6. /\ ckpt' \in [Keys -> {<<>>} \cup {<<mem>> : mem \in CallStates}]
      /\ \A k \in Keys : ckpt'[k] \in {<<>>, ckpt[k]}
  BY <1>1, <1>5
<1>7. Checkpoints'
  BY <1>1, <1>6, CheckpointsKept
<1> QED
  BY <1>1, <1>2, <1>3, <1>4, <1>7, Closed DEF IInv, Typed

\* A call is asked for, and answered, for the first role that is open.
LEMMA FirstOpen ==
  ASSUME IInv, NEW p \in Procs, Opened(p)
  PROVE  Open(p) \subseteq Labels /\ (Open(p) # {} => First(p) \in Open(p))
<1>1. cmd[p].dense \in BOOLEAN /\ arm \in Arms
  BY TaskShape DEF Commands
<1>2. Texts(T(p).dir, cmd[p].dense) \subseteq Labels
  BY <1>1, Schedules DEF Texts
<1>3. Roles(p) \subseteq Labels
  BY <1>1, <1>2, RoleIs DEF Roles
<1>4. Open(p) \subseteq Labels
  BY <1>3 DEF Open
<1>5. ASSUME Open(p) # {}
      PROVE  \E l \in Open(p) : \A m \in Open(p) : m # l => Before(cmd[p].stage, l, m)
  BY <1>4, <1>5, FirstLabel
<1>6. Open(p) # {} => First(p) \in Open(p)
  BY <1>5 DEF First
<1> QED
  BY <1>4, <1>6

LEMMA AskIInv == ASSUME IInv, NEW p \in Procs, Ask(p) PROVE IInv'
<1> DEFINE mem == [T(p).mem EXCEPT !.asked = @ \cup {First(p)}]
           t   == [T(p) EXCEPT !.at = "asked", !.mem = mem]
<1>1. /\ Opened(p) /\ T(p).at = "judge" /\ Open(p) # {} /\ Save(p, mem) /\ Put(p, t)
      /\ UNCHANGED <<fixed, rec, bank, held, cmd, given, starts>>
  BY DEF Ask, At
<1>2. T(p) \in Tasks /\ cmd[p].stage \in Stages /\ T(p).mem \in CallStates
  BY <1>1, TaskShape DEF Tasks
<1>3. First(p) \in Labels
  BY <1>1, FirstOpen
<1>4. mem \in CallStates /\ mem.calls = T(p).mem.calls
  BY <1>2, <1>3 DEF CallStates
<1>5. Remembered(cmd[p].stage, T(p).dir, T(p).mem) /\ TaskInv(p)
  BY <1>1 DEF IInv, TaskInv
<1>6. Checkpoints'
  <2> HIDE DEF mem
  <2> QED
    BY <1>1, <1>4, <1>5, SaveEffect DEF Remembered
<1>7. /\ t \in Tasks /\ t.dir = T(p).dir /\ t.at = "asked" /\ t.base = T(p).base /\ t.mem = mem
  <2> HIDE DEF mem
  <2> QED
    BY <1>2, <1>4 DEF Tasks, Places
<1> HIDE DEF mem, t
<1>8. /\ Recorded(cmd[p].stage, T(p).dir, T(p).base)
      /\ cmd[p].stage = "audit" => HasText(T(p).dir, Units)
  BY <1>1, <1>5 DEF TaskInv
<1>9. arm.alone => T(p).base = rec[cmd[p].stage][T(p).dir]
  BY <1>1 DEF IInv, AloneInv, OnFile
<1>10. \A l \in Labels : t.mem.calls[l] # NoAnswer =>
         <<cmd[p].stage, T(p).dir, text[T(p).dir][l], t.mem.calls[l]>> \in given'
  BY <1>1, <1>4, <1>5, <1>7 DEF Remembered
<1>11. /\ held' \in [Keys -> Procs \cup {None}]
       /\ \A g \in given' : g[1] \in Stages /\ g[4] \in Answers(g[1])
  BY <1>1 DEF IInv, Typed, OnDisk
<1>12. Recorded(cmd[p].stage, t.dir, t.base)
  BY <1>7, <1>8
<1> QED
  BY <1>1, <1>4, <1>6, <1>7, <1>8, <1>9, <1>10, <1>11, <1>12, Moved

LEMMA AnswerIInv == ASSUME IInv, NEW p \in Procs, Answer(p) PROVE IInv'
<1>1. PICK a \in Answers(cmd[p].stage) :
        LET mem == [T(p).mem EXCEPT !.calls[First(p)] = a] IN
          /\ Save(p, mem) /\ Put(p, [T(p) EXCEPT !.at = "judge", !.mem = mem])
          /\ given' = given \cup {<<cmd[p].stage, T(p).dir, text[T(p).dir][First(p)], a>>}
  BY DEF Answer
<1> DEFINE mem == [T(p).mem EXCEPT !.calls[First(p)] = a]
           t   == [T(p) EXCEPT !.at = "judge", !.mem = mem]
<1>2. /\ Opened(p) /\ T(p).at = "asked"
      /\ UNCHANGED <<fixed, rec, bank, held, cmd, starts>>
  BY DEF Answer, At
<1>3. /\ T(p) \in Tasks /\ cmd[p].stage \in Stages /\ T(p).mem \in CallStates
      /\ T(p).mem.calls \in [Labels -> Scores \cup Steps \cup {NoAnswer}]
  BY <1>2, TaskShape DEF Tasks, CallStates
<1>4. TaskInv(p) /\ Remembered(cmd[p].stage, T(p).dir, T(p).mem) /\ Open(p) # {}
  BY <1>2 DEF IInv, TaskInv
<1>5. First(p) \in Labels
  BY <1>2, <1>4, FirstOpen
<1>6. a \in Scores \cup Steps
  BY DEF Answers
<1>7. /\ mem.calls = [T(p).mem.calls EXCEPT ![First(p)] = a]
      /\ mem.asked = T(p).mem.asked /\ mem.prepared = T(p).mem.prepared
      /\ mem = [calls |-> mem.calls, asked |-> mem.asked, prepared |-> mem.prepared]
  BY <1>3 DEF CallStates
<1>8. /\ mem.calls \in [Labels -> Scores \cup Steps \cup {NoAnswer}]
      /\ mem.calls[First(p)] = a
      /\ \A l \in Labels \ {First(p)} : mem.calls[l] = T(p).mem.calls[l]
  <2> HIDE DEF mem
  <2> QED
    BY <1>3, <1>5, <1>6, <1>7
<1>9. Save(p, mem) /\ Put(p, t)
  BY <1>1
<1>10. given' = given \cup {<<cmd[p].stage, T(p).dir, text[T(p).dir][First(p)], a>>}
  BY <1>1
<1>11. mem \in CallStates
  <2>1. mem.asked \in SUBSET Labels /\ mem.prepared \in BOOLEAN
    BY <1>3, <1>7 DEF CallStates
  <2> HIDE DEF mem
  <2> QED
    BY <1>7, <1>8, <2>1 DEF CallStates
<1> HIDE DEF mem
<1>12. \A l \in Labels : mem.calls[l] # NoAnswer =>
         <<cmd[p].stage, T(p).dir, text[T(p).dir][l], mem.calls[l]>> \in given'
  BY <1>4, <1>8, <1>10 DEF Remembered
<1>13. given \subseteq given'
  BY <1>10
<1>14. Checkpoints'
  BY <1>2, <1>9, <1>11, <1>12, <1>13, SaveEffect
<1>15. t \in Tasks /\ t.dir = T(p).dir /\ t.at = "judge" /\ t.base = T(p).base /\ t.mem = mem
  BY <1>3, <1>11 DEF Tasks, Places
<1> HIDE DEF t
<1>16. /\ Recorded(cmd[p].stage, T(p).dir, T(p).base)
       /\ cmd[p].stage = "audit" => HasText(T(p).dir, Units)
  BY <1>2, <1>4 DEF TaskInv
<1>17. arm.alone => T(p).base = rec[cmd[p].stage][T(p).dir]
  BY <1>2 DEF IInv, AloneInv, OnFile
<1>18. held' \in [Keys -> Procs \cup {None}]
  BY <1>2 DEF IInv, Typed
<1>19. \A g \in given' : g[1] \in Stages /\ g[4] \in Answers(g[1])
  BY <1>3, <1>10 DEF IInv, OnDisk
<1>20. Recorded(cmd[p].stage, t.dir, t.base)
  BY <1>15, <1>16
<1> QED
  BY <1>2, <1>9, <1>12, <1>13, <1>14, <1>15, <1>16, <1>17, <1>18, <1>19, <1>20, Moved

LEMMA PrepareIInv == ASSUME IInv, NEW p \in Procs, Prepare(p) PROVE IInv'
<1> DEFINE mem == [T(p).mem EXCEPT !.prepared = TRUE]
           t   == [T(p) EXCEPT !.at = "commit", !.mem = mem]
<1>1. /\ Opened(p) /\ T(p).at = "judge" /\ Open(p) = {} /\ Save(p, mem) /\ Put(p, t)
      /\ UNCHANGED <<fixed, rec, bank, held, cmd, given, starts>>
  BY DEF Prepare, Ready, At
<1>2. T(p) \in Tasks /\ cmd[p].stage \in Stages /\ T(p).mem \in CallStates
  BY <1>1, TaskShape DEF Tasks
<1>3. mem \in CallStates /\ mem.calls = T(p).mem.calls
  BY <1>2 DEF CallStates
<1>4. Remembered(cmd[p].stage, T(p).dir, T(p).mem) /\ TaskInv(p)
  BY <1>1 DEF IInv, TaskInv
<1>5. Checkpoints'
  <2> HIDE DEF mem
  <2> QED
    BY <1>1, <1>3, <1>4, SaveEffect DEF Remembered
<1>6. /\ t \in Tasks /\ t.dir = T(p).dir /\ t.at = "commit" /\ t.base = T(p).base /\ t.mem = mem
  <2> HIDE DEF mem
  <2> QED
    BY <1>2, <1>3 DEF Tasks, Places
<1> HIDE DEF mem, t
<1>7. /\ Recorded(cmd[p].stage, T(p).dir, T(p).base)
      /\ cmd[p].stage = "audit" => HasText(T(p).dir, Units)
  BY <1>1, <1>4 DEF TaskInv
<1>8. arm.alone => T(p).base = rec[cmd[p].stage][T(p).dir]
  BY <1>1 DEF IInv, AloneInv, OnFile
<1>9. \A l \in Labels : t.mem.calls[l] # NoAnswer =>
        <<cmd[p].stage, T(p).dir, text[T(p).dir][l], t.mem.calls[l]>> \in given'
  BY <1>1, <1>3, <1>4, <1>6 DEF Remembered
<1>10. /\ held' \in [Keys -> Procs \cup {None}]
       /\ \A g \in given' : g[1] \in Stages /\ g[4] \in Answers(g[1])
  BY <1>1 DEF IInv, Typed, OnDisk
<1>11. Recorded(cmd[p].stage, t.dir, t.base)
  BY <1>6, <1>7
<1> QED
  BY <1>1, <1>3, <1>5, <1>6, <1>7, <1>8, <1>9, <1>10, <1>11, Moved

LEMMA CompleteAttemptIInv == ASSUME IInv, NEW p \in Procs, CompleteAttempt(p) PROVE IInv'
<1> DEFINE t == [T(p) EXCEPT !.at = "remove"]
<1>1. /\ Opened(p) /\ T(p).at = "clear" /\ Save(p, T(p).mem) /\ Unlock(p) /\ Put(p, t)
      /\ UNCHANGED <<fixed, rec, bank, cmd, given, starts>>
  BY DEF CompleteAttempt, At
<1>2. T(p) \in Tasks /\ cmd[p].stage \in Stages /\ T(p).mem \in CallStates
  BY <1>1, TaskShape DEF Tasks
<1>3. TaskInv(p) /\ Remembered(cmd[p].stage, T(p).dir, T(p).mem)
  BY <1>1 DEF IInv, TaskInv
<1>4. PICK mem \in CallStates : mem = T(p).mem
  BY <1>2
<1>5. Checkpoints'
  BY <1>1, <1>3, <1>4, SaveEffect DEF Remembered
<1>6. t \in Tasks /\ t.dir = T(p).dir /\ t.at = "remove" /\ t.base = T(p).base /\ t.mem = T(p).mem
  BY <1>2 DEF Tasks, Places
<1> HIDE DEF t
<1>7. held' \in [Keys -> Procs \cup {None}]
  BY <1>1, UnlockEffect
<1>8. Recorded(cmd[p].stage, t.dir, t.base)
  BY <1>1, <1>3, <1>6 DEF TaskInv
<1>9. cmd[p].stage = "audit" => HasText(T(p).dir, Units)
  BY <1>1, <1>3 DEF TaskInv
<1>10. \A l \in Labels : t.mem.calls[l] # NoAnswer =>
         <<cmd[p].stage, T(p).dir, text[T(p).dir][l], t.mem.calls[l]>> \in given'
  BY <1>1, <1>3, <1>6 DEF Remembered
<1>11. \A g \in given' : g[1] \in Stages /\ g[4] \in Answers(g[1])
  BY <1>1 DEF IInv, OnDisk
<1> QED
  BY <1>1, <1>5, <1>6, <1>7, <1>8, <1>9, <1>10, <1>11, Moved

\* The record that is extended, and what the checkpoint remembers
LEMMA LockIInv == ASSUME IInv, NEW p \in Procs, Lock(p) PROVE IInv'
<1>1. /\ Opened(p) /\ T(p).at = "read"
      /\ cmd[p].stage = "audit" => HasText(T(p).dir, Units)
      /\ UNCHANGED <<fixed, rec, bank, cmd, given, starts>>
  BY DEF Lock, At
<1>2. /\ T(p) \in Tasks /\ cmd[p].stage \in Stages /\ ~Idle(p) /\ TaskInv(p)
      /\ T(p).dir \in Dirs /\ Key(p) \in Keys
      /\ Key(p)[1] = cmd[p].stage /\ Key(p)[2] = T(p).dir
  BY <1>1, TaskShape DEF IInv, Key
<1>3. /\ ckpt \in [Keys -> {<<>>} \cup {<<m>> : m \in CallStates}]
      /\ held \in [Keys -> Procs \cup {None}] /\ cmd \in [Procs -> Commands]
  BY DEF IInv, Typed
<1>4. CASE held[Key(p)] # None
  <2>1. Close(p) /\ UNCHANGED <<held, ckpt>>
    BY <1>4 DEF Lock
  <2>2. /\ task' \in [Procs -> {<<>>} \cup {<<t>> : t \in Tasks}] /\ ~Opened(p)'
        /\ \A q \in Procs \ {p} : task'[q] = task[q]
    BY <2>1, CloseEffect
  <2>3. Checkpoints'
    BY <1>1, <1>3, <2>1, CheckpointsKept
  <2> QED
    BY <1>1, <1>2, <1>3, <2>1, <2>2, <2>3, Closed
<1>5. CASE held[Key(p)] = None
  <2> DEFINE found == ckpt[Key(p)]
  <2>1. PICK mem : mem = IF found = <<>> THEN NewState ELSE found[1]
    OBVIOUS
  <2>2. PICK base : base = Base(p)
    OBVIOUS
  <2> DEFINE t == [T(p) EXCEPT !.at = "judge", !.base = base, !.mem = mem]
  <2>3. /\ held' = [held EXCEPT ![Key(p)] = p]
        /\ Save(p, mem) /\ Put(p, t)
    BY <1>5, <2>1, <2>2 DEF Lock
  <2>4. /\ mem \in CallStates
        /\ \A l \in Labels : mem.calls[l] # NoAnswer =>
             <<cmd[p].stage, T(p).dir, text[T(p).dir][l], mem.calls[l]>> \in given
    <3>1. CASE found = <<>>
      BY <2>1, <3>1, Blank
    <3>2. CASE found # <<>>
      <4>1. mem = ckpt[Key(p)][1] /\ mem \in CallStates
        BY <1>2, <1>3, <2>1, <3>2
      <4>2. Remembered(Key(p)[1], Key(p)[2], ckpt[Key(p)][1])
        BY <1>2, <3>2 DEF IInv, OnDisk
      <4> QED
        BY <1>2, <4>1, <4>2 DEF Remembered
    <3> QED
      BY <3>1, <3>2
  <2>5. base \in Records /\ Recorded(cmd[p].stage, T(p).dir, base)
    <3>1. CASE cmd[p].stage = "audit" /\ cmd[p].dense
      <4>1. base = rec.audit[T(p).dir]
        BY <2>2, <3>1 DEF Base
      <4>2. rec.audit[T(p).dir] \in Records /\ Recorded("audit", T(p).dir, rec.audit[T(p).dir])
        BY <1>2 DEF IInv, Typed, OnDisk, Stages
      <4> QED
        BY <3>1, <4>1, <4>2
    <3>2. CASE ~(cmd[p].stage = "audit" /\ cmd[p].dense)
      <4>1. base = T(p).base
        BY <2>2, <3>2 DEF Base
      <4> QED
        BY <1>1, <1>2, <4>1 DEF TaskInv, Tasks
    <3> QED
      BY <3>1, <3>2
  <2>6. arm.alone => base = rec[cmd[p].stage][T(p).dir]
    <3>1. arm.alone => OnFile(p)
      BY DEF IInv, AloneInv
    <3>2. cmd[p].stage = "audit" /\ cmd[p].dense => base = rec[cmd[p].stage][T(p).dir]
      BY <2>2 DEF Base
    <3>3. ~(cmd[p].stage = "audit" /\ cmd[p].dense) => base = T(p).base
      BY <2>2 DEF Base
    <3> QED
      BY <1>1, <3>1, <3>2, <3>3 DEF OnFile
  <2>7. t \in Tasks /\ t.dir = T(p).dir /\ t.at = "judge" /\ t.base = base /\ t.mem = mem
    BY <1>2, <2>4, <2>5 DEF Tasks, Places
  <2> HIDE DEF t, found
  <2>8. Checkpoints'
    BY <1>1, <2>3, <2>4, SaveEffect
  <2>9. held' \in [Keys -> Procs \cup {None}]
    BY <1>2, <1>3, <2>3
  <2>10. \A g \in given' : g[1] \in Stages /\ g[4] \in Answers(g[1])
    BY <1>1 DEF IInv, OnDisk
  <2>11. \A l \in Labels : t.mem.calls[l] # NoAnswer =>
           <<cmd[p].stage, T(p).dir, text[T(p).dir][l], t.mem.calls[l]>> \in given'
    BY <1>1, <2>4, <2>7
  <2>12. Recorded(cmd[p].stage, t.dir, t.base)
    BY <2>5, <2>7
  <2> QED
    BY <1>1, <2>3, <2>6, <2>7, <2>8, <2>9, <2>10, <2>11, <2>12, Moved
<1> QED
  BY <1>4, <1>5

-----------------------------------------------------------------------------
(***************************************************************************)
(* The two steps that write a record.                                      *)
(***************************************************************************)
\* The verdicts and the record that Commit writes
Verdicts(p) == [l \in Texts(T(p).dir, cmd[p].dense) |-> VerdictFor(p, l)]
Committed(p) ==
  [l \in Wanted(cmd[p].dense) |->
     IF l \in Texts(T(p).dir, cmd[p].dense)
     THEN [text |-> text[T(p).dir][l], verdict |-> Verdicts(p)[l],
           state |-> IF cmd[p].stage = "state"
                     THEN StateAt(Verdicts(p), Texts(T(p).dir, cmd[p].dense), l) ELSE "null"]
     ELSE Missing]

\* A verdict is one that was given for the text, and the same wherever the text
\* is the same; one that is already in the record that is extended is reused.
LEMMA VerdictsGiven ==
  ASSUME IInv, NEW p \in Procs, Opened(p), T(p).at = "commit",
         NEW l \in Texts(T(p).dir, cmd[p].dense)
  PROVE  /\ <<cmd[p].stage, T(p).dir, text[T(p).dir][l], VerdictFor(p, l)>> \in given
         /\ \A m : text[T(p).dir][m] = text[T(p).dir][l] => VerdictFor(p, m) = VerdictFor(p, l)
         /\ \A m \in Reusable(T(p).base, T(p).dir, l) : VerdictFor(p, l) = T(p).base[m].verdict
<1> DEFINE d     == T(p).dir
           base  == T(p).base
           stage == cmd[p].stage
           reusable == Reusable(base, d, l)
           role     == RoleOf(stage, d, cmd[p].dense, l)
<1>1. /\ TaskInv(p) /\ cmd[p].dense \in BOOLEAN /\ arm \in Arms
      /\ Recorded(stage, d, base) /\ Remembered(stage, d, T(p).mem) /\ Open(p) = {}
  BY TaskShape DEF IInv, TaskInv, Commands
<1>2. text[d][l] # NoText
  BY DEF Texts, HasText
<1>3. \A m \in reusable :
        base[m].text = text[d][l] /\ <<stage, d, text[d][l], base[m].verdict>> \in given
  <2> SUFFICES ASSUME NEW m \in reusable
               PROVE  /\ base[m].text = text[d][l]
                      /\ <<stage, d, text[d][l], base[m].verdict>> \in given
    OBVIOUS
  <2>1. m \in DOMAIN base /\ base[m].text = text[d][l]
    BY DEF Reusable
  <2>2. Faithful(stage, d, base[m], m)
    BY <1>1, <2>1 DEF Recorded
  <2>3. base[m] # Missing
    BY <1>2, <2>1 DEF Missing
  <2>4. base[m].text = text[d][m] /\ <<stage, d, text[d][m], base[m].verdict>> \in given
    BY <2>2, <2>3 DEF Faithful
  <2> QED
    BY <2>1, <2>4
<1>4. \A m, n \in reusable : base[m].verdict = base[n].verdict
  BY <1>1 DEF Recorded, OneVerdict, Reusable
<1>5. \A m : text[d][m] = text[d][l] => VerdictFor(p, m) = VerdictFor(p, l)
  <2> SUFFICES ASSUME NEW m, text[d][m] = text[d][l]
               PROVE  VerdictFor(p, m) = VerdictFor(p, l)
    OBVIOUS
  <2>1. Reusable(base, d, m) = Reusable(base, d, l)
    BY DEF Reusable
  <2>2. RoleOf(stage, d, cmd[p].dense, m) = RoleOf(stage, d, cmd[p].dense, l)
    BY RoleOfText
  <2> QED
    BY <2>1, <2>2 DEF VerdictFor
<1>6. CASE reusable # {}
  <2>1. VerdictFor(p, l) = base[CHOOSE m \in reusable : TRUE].verdict
    BY <1>6 DEF VerdictFor
  <2>2. (CHOOSE m \in reusable : TRUE) \in reusable
    BY <1>6
  <2> HIDE DEF reusable
  <2>3. /\ \A m \in reusable : VerdictFor(p, l) = base[m].verdict
        /\ <<stage, d, text[d][l], VerdictFor(p, l)>> \in given
    BY <1>3, <1>4, <2>1, <2>2
  <2> QED
    BY <1>5, <2>3 DEF reusable
<1>7. CASE reusable = {}
  <2>1. VerdictFor(p, l) = T(p).mem.calls[role]
    BY <1>7 DEF VerdictFor
  <2>2. role \in Texts(d, cmd[p].dense) /\ text[d][role] = text[d][l]
    BY <1>1, RoleIs
  <2>3. role \in Labels
    BY <1>1, <2>2, Schedules DEF Texts
  <2>4. role \in Roles(p)
    BY <1>7 DEF Roles
  <2>5. T(p).mem.calls[role] # NoAnswer
    BY <1>1, <2>4 DEF Open
  <2> HIDE DEF role
  <2>6. <<stage, d, text[d][l], VerdictFor(p, l)>> \in given
    BY <1>1, <2>1, <2>2, <2>3, <2>5 DEF Remembered
  <2> QED
    BY <1>5, <1>7, <2>6
<1> QED
  BY <1>6, <1>7

\* What is on file at a label, written again for a task that has it
LEMMA CommitRecord ==
  ASSUME IInv, NEW p \in Procs, Opened(p), T(p).at = "commit"
  PROVE  /\ Committed(p) \in Records /\ DOMAIN Committed(p) = Wanted(cmd[p].dense)
         /\ Recorded(cmd[p].stage, T(p).dir, Committed(p))
         /\ \A l \in DOMAIN T(p).base : l \in Wanted(cmd[p].dense) =>
              /\ Committed(p)[l].text = T(p).base[l].text
              /\ Committed(p)[l].verdict = T(p).base[l].verdict
<1> DEFINE d     == T(p).dir
           base  == T(p).base
           stage == cmd[p].stage
           seen  == Texts(d, cmd[p].dense)
           new   == Committed(p)
<1>1. /\ TaskInv(p) /\ cmd[p].dense \in BOOLEAN /\ arm \in Arms /\ stage \in Stages
      /\ text \in [Dirs -> Trajectories] /\ d \in Dirs
      /\ Recorded(stage, d, base)
      /\ stage = "audit" => HasText(d, Units)
  BY TaskShape DEF IInv, TaskInv, Commands
<1>2. Wanted(cmd[p].dense) \subseteq Labels
  BY <1>1, Schedules
<1>3. /\ DOMAIN new = Wanted(cmd[p].dense)
      /\ \A l \in Wanted(cmd[p].dense) :
           /\ l \in seen <=> HasText(d, l)
           /\ l \notin seen => new[l] = Missing
           /\ l \in seen =>
                /\ new[l] = [text |-> text[d][l], verdict |-> Verdicts(p)[l],
                             state |-> IF stage = "state"
                                       THEN StateAt(Verdicts(p), seen, l) ELSE "null"]
                /\ Verdicts(p)[l] = VerdictFor(p, l)
  BY DEF Committed, Verdicts, Texts
<1>4. \A l \in seen :
        /\ new[l].text = text[d][l] /\ new[l].text # NoText
        /\ new[l].verdict = VerdictFor(p, l) /\ new[l].verdict = Verdicts(p)[l]
        /\ stage = "state" => new[l].state = StateAt(Verdicts(p), seen, l)
        /\ stage # "state" => new[l].state = "null"
        /\ <<stage, d, text[d][l], new[l].verdict>> \in given
  <2> SUFFICES ASSUME NEW l \in seen
               PROVE  /\ new[l].text = text[d][l] /\ new[l].text # NoText
                      /\ new[l].verdict = VerdictFor(p, l) /\ new[l].verdict = Verdicts(p)[l]
                      /\ stage = "state" => new[l].state = StateAt(Verdicts(p), seen, l)
                      /\ stage # "state" => new[l].state = "null"
                      /\ <<stage, d, text[d][l], new[l].verdict>> \in given
    OBVIOUS
  <2>1. l \in Wanted(cmd[p].dense) /\ text[d][l] # NoText
    BY DEF Texts, HasText
  <2>2. <<stage, d, text[d][l], VerdictFor(p, l)>> \in given
    BY VerdictsGiven
  <2> HIDE DEF new, seen
  <2> QED
    BY <1>3, <2>1, <2>2 DEF seen
<1>5. \A l \in Wanted(cmd[p].dense) \ seen : new[l] = Missing /\ ~HasText(d, l)
  BY <1>3
<1>6. Missing.text = NoText /\ Missing.verdict = 0 /\ Missing.state = "null"
  BY DEF Missing
<1> HIDE DEF new, seen
<1>7. \A l \in Wanted(cmd[p].dense) : new[l].state \in {"S", "P", "U", "null"}
  <2>1. \A l : StateAt(Verdicts(p), seen, l) \in {"S", "P", "U", "null"}
    BY DEF StateAt
  <2> QED
    BY <1>4, <1>5, <1>6, <2>1
<1>8. new \in Records
  <2>1. ASSUME NEW l \in Wanted(cmd[p].dense)
        PROVE  new[l] \in Entries
    <3>1. CASE l \in seen
      <4>1. new[l].verdict \in Scores \cup Steps
        BY <1>4, <3>1 DEF IInv, OnDisk, Answers
      <4>2. text[d] \in Trajectories /\ l \in Labels
        BY <1>1, <1>2
      <4>3. new[l] = [text |-> text[d][l], verdict |-> new[l].verdict, state |-> new[l].state]
        BY <1>3, <3>1
      <4>4. text[d][l] \in {NoText} \cup {t[m] : t \in Trajectories, m \in Labels}
        BY <4>2
      <4> QED
        BY <1>7, <4>1, <4>3, <4>4 DEF Entries
    <3>2. CASE l \notin seen
      BY <1>5, <3>2 DEF Missing, Entries
    <3> QED
      BY <3>1, <3>2
  <2>2. new = [l \in Wanted(cmd[p].dense) |-> new[l]]
    BY DEF new, Committed
  <2>3. new \in [Wanted(cmd[p].dense) -> Entries]
    BY <2>1, <2>2
  <2> QED
    BY <1>2, <2>3 DEF Records
<1>9. Labelled(new)
  BY <1>1, <1>3 DEF Labelled
<1>10. \A l \in DOMAIN new : Faithful(stage, d, new[l], l)
  BY <1>1, <1>3, <1>4, <1>5 DEF Faithful
<1>11. OneVerdict(new)
  <2> SUFFICES ASSUME NEW l \in Wanted(cmd[p].dense), NEW m \in Wanted(cmd[p].dense),
                      new[l].text = new[m].text
               PROVE  new[l].verdict = new[m].verdict
    BY <1>3 DEF OneVerdict
  <2>1. CASE l \in seen
    <3>1. m \in seen
      BY <1>4, <1>5, <1>6, <2>1
    <3>2. text[d][m] = text[d][l]
      BY <1>4, <2>1, <3>1
    <3>3. VerdictFor(p, m) = VerdictFor(p, l)
      BY <2>1, <3>2, VerdictsGiven DEF seen
    <3> QED
      BY <1>4, <2>1, <3>1, <3>3
  <2>2. CASE l \notin seen
    <3>1. m \notin seen
      BY <1>4, <1>5, <1>6, <2>2
    <3> QED
      BY <1>5, <2>2, <3>1
  <2> QED
    BY <2>1, <2>2
<1>12. ASSUME stage = "state"
       PROVE  Acquires(new)
  <2> SUFFICES ASSUME NEW l \in Wanted(cmd[p].dense)
               PROVE  new[l].state = "S" <=> new[l].text # NoText /\ Recognized(new, l)
    BY <1>3 DEF Acquires
  <2>1. seen \subseteq Wanted(cmd[p].dense)
    BY DEF seen, Texts
  <2>2. Recognized(new, l) <=>
          \E m \in seen : (arm.mode = "strategies" \/ m <= l) /\ Verdicts(p)[m] = 3
    <3>1. \A m \in Wanted(cmd[p].dense) : new[m].text # NoText <=> m \in seen
      BY <1>4, <1>5, <1>6
    <3>2. \A m \in seen : new[m].verdict = Verdicts(p)[m]
      BY <1>4
    <3> QED
      BY <1>3, <2>1, <3>1, <3>2 DEF Recognized
  <2>3. CASE l \in seen
    <3>1. new[l].state = StateAt(Verdicts(p), seen, l) /\ new[l].text # NoText
      BY <1>4, <1>12, <2>3
    <3>2. StateAt(Verdicts(p), seen, l) = "S" <=>
            \E m \in seen : (arm.mode = "strategies" \/ m <= l) /\ Verdicts(p)[m] = 3
      BY DEF StateAt, AnyAcquired, Acquired
    <3> QED
      BY <2>2, <3>1, <3>2
  <2>4. CASE l \notin seen
    BY <1>5, <2>4 DEF Missing
  <2> QED
    BY <2>3, <2>4
<1>13. Recorded(stage, d, new)
  BY <1>3, <1>7, <1>9, <1>10, <1>11, <1>12 DEF Recorded
<1>14. ASSUME NEW l \in DOMAIN base, l \in Wanted(cmd[p].dense)
       PROVE  new[l].text = base[l].text /\ new[l].verdict = base[l].verdict
  <2>1. Faithful(stage, d, base[l], l)
    BY <1>1 DEF Recorded
  <2>2. CASE l \in seen
    <3>1. base[l].text = text[d][l]
      BY <1>1, <1>14, <1>3, <2>1, <2>2 DEF Faithful
    <3>2. l \in Reusable(base, d, l)
      BY <3>1 DEF Reusable
    <3>3. VerdictFor(p, l) = base[l].verdict
      BY <2>2, <3>2, VerdictsGiven DEF seen
    <3> QED
      BY <1>4, <2>2, <3>1, <3>3
  <2>3. CASE l \notin seen
    BY <1>5, <1>14, <2>1, <2>3 DEF Faithful
  <2> QED
    BY <2>2, <2>3
<1> QED
  BY <1>3, <1>8, <1>13, <1>14 DEF new

\* Without overlap the schedule of an open task has every label on file.
LEMMA Extends ==
  ASSUME IInv, NEW p \in Procs, Opened(p), arm.alone, T(p).at \in {"read", "commit"}
  PROVE  DOMAIN rec[cmd[p].stage][T(p).dir] \subseteq Wanted(cmd[p].dense)
<1> DEFINE old == rec[cmd[p].stage][T(p).dir]
<1>1. OnFile(p)
  BY DEF IInv, AloneInv
<1>2. cmd[p].stage \in Stages /\ T(p).dir \in Dirs /\ arm \in Arms /\ cmd[p].dense \in BOOLEAN
  BY TaskShape DEF Commands
<1>3. Labelled(old)
  BY <1>2 DEF IInv, OnDisk, Recorded
<1>4. CASE old = NoRecord
  BY <1>4, Blank
<1>5. CASE old # NoRecord
  <2>1. cmd[p].dense
    BY <1>1, <1>5 DEF OnFile
  <2>2. cmd[p].dense = TRUE
    BY <1>2, <2>1
  <2>3. DOMAIN old \in {Wanted(FALSE), Wanted(TRUE)}
    BY <1>3, <1>5 DEF Labelled
  <2>4. Wanted(FALSE) \subseteq Wanted(TRUE)
    BY <1>2, Schedules
  <2> HIDE DEF old
  <2>5. DOMAIN old \subseteq Wanted(TRUE)
    BY <2>3, <2>4
  <2> QED
    BY <2>2, <2>5 DEF old
<1> QED
  BY <1>4, <1>5

\* The record of an attempt without a write-up
LEMMA MissingRecord ==
  ASSUME IInv, NEW p \in Procs, Opened(p), cmd[p].stage = "audit", ~HasText(T(p).dir, Units)
  PROVE  /\ [l \in Wanted(cmd[p].dense) |-> Missing] \in Records
         /\ Recorded("audit", T(p).dir, [l \in Wanted(cmd[p].dense) |-> Missing])
         /\ \A l \in DOMAIN rec.audit[T(p).dir] : rec.audit[T(p).dir][l] = Missing
<1> DEFINE new == [l \in Wanted(cmd[p].dense) |-> Missing]
<1>1. T(p).dir \in Dirs /\ arm \in Arms /\ cmd[p].dense \in BOOLEAN
  BY TaskShape DEF Commands
<1>2. Wanted(cmd[p].dense) \in SUBSET Labels
  BY <1>1, Schedules
<1>3. Missing \in Entries
  <2> DEFINE texts == {t[l] : t \in Trajectories, l \in Labels}
             entries == [text : {NoText} \cup texts, verdict : Scores \cup Steps \cup {0},
                         state : {"S", "P", "U", "null"}]
  <2>1. entries = Entries
    BY DEF Entries
  <2> HIDE DEF texts
  <2>2. Missing \in entries
    BY DEF Missing
  <2> QED
    BY <2>1, <2>2
<1>4. new \in Records
  BY <1>2, <1>3 DEF Records
<1>5. Labelled(new) /\ OneVerdict(new)
  BY <1>1 DEF Labelled, OneVerdict
<1>6. \A l \in DOMAIN new :
        Faithful("audit", T(p).dir, new[l], l) /\ new[l].state \in {"S", "P", "U", "null"}
  BY DEF Faithful, Missing
<1>7. Recorded("audit", T(p).dir, new)
  BY <1>5, <1>6 DEF Recorded
<1>8. Recorded("audit", T(p).dir, rec.audit[T(p).dir])
  BY <1>1 DEF IInv, OnDisk, Stages
<1>9. \A l \in DOMAIN rec.audit[T(p).dir] : rec.audit[T(p).dir][l] = Missing
  BY <1>8 DEF Recorded, Faithful
<1> QED
  BY <1>4, <1>7, <1>9

LEMMA UngradeableIInv == ASSUME IInv, NEW p \in Procs, Ungradeable(p) PROVE IInv'
<1>1. /\ Opened(p) /\ T(p).at = "read" /\ cmd[p].stage = "audit" /\ ~HasText(T(p).dir, Units)
      /\ rec' = [rec EXCEPT !.audit[T(p).dir] = [l \in Wanted(cmd[p].dense) |-> Missing]]
      /\ Close(p) /\ UNCHANGED <<fixed, bank, ckpt, held, cmd, given, starts>>
  BY DEF Ungradeable, At
<1>2. PICK d \in Dirs : d = T(p).dir
  BY <1>1, TaskShape
<1>3. PICK new \in Records : new = [l \in Wanted(cmd[p].dense) |-> Missing]
  BY <1>1, MissingRecord
<1>4. Recorded("audit", d, new) /\ Writes("audit", d, new)
  BY <1>1, <1>2, <1>3, MissingRecord DEF Writes
<1>5. "audit" \in Stages
  BY DEF Stages
<1>6. /\ rec' \in [Stages -> [Dirs -> Records]]
      /\ \A s \in Stages, e \in Dirs : s # "audit" \/ e # d => rec'[s][e] = rec[s][e]
      /\ \A s \in Stages, e \in Dirs : (Recorded(s, e, rec[s][e]))'
  <2>1. UNCHANGED <<fixed, given>>
    BY <1>1
  <2> QED
    BY <2>1, <1>4, <1>5, RecordWritten
<1>7. /\ task' \in [Procs -> {<<>>} \cup {<<t>> : t \in Tasks}] /\ ~Opened(p)'
      /\ \A q \in Procs \ {p} : task'[q] = task[q]
  BY <1>1, CloseEffect
<1>8. Checkpoints'
  BY <1>1, CheckpointsKept DEF IInv, Typed
<1>9. ~Idle(p) /\ CommandInv(p)' /\ TaskInv(p)'
  BY <1>1, <1>7, TaskShape DEF IInv, CommandInv, TaskInv, Idle, fixed
<1>10. ASSUME arm.alone
       PROVE  OnFile(p)' /\ BankOnFile'
  <2>1. OnFile(p) /\ bank = <<>>
    BY <1>1, <1>10 DEF IInv, AloneInv, OnFile
  <2>2. cmd[p].todo \subseteq Dirs /\ d \notin cmd[p].todo
    <3>1. cmd[p] \in Commands /\ arm.dirs \subseteq Dirs
      BY TaskShape, ArmTyped
    <3> QED
      BY <1>1, <1>2, <2>1, <3>1 DEF OnFile, Commands
  <2>3. \A e \in cmd[p].todo : rec'.audit[e] = rec.audit[e]
    BY <1>5, <1>6, <2>2
  <2>4. OnFile(p)'
    BY <1>1, <1>7, <2>1, <2>3 DEF OnFile
  <2> QED
    BY <1>1, <2>1, <2>4 DEF BankOnFile
<1> QED
  BY <1>1, <1>6, <1>7, <1>8, <1>9, <1>10, Frame DEF IInv, Typed, OnDisk

LEMMA CommitIInv == ASSUME IInv, NEW p \in Procs, Commit(p) PROVE IInv'
<1> DEFINE t == [T(p) EXCEPT !.at = "clear"]
<1>1. /\ Opened(p) /\ T(p).at = "commit" /\ Put(p, t)
      /\ rec' = [rec EXCEPT ![cmd[p].stage][T(p).dir] = Committed(p)]
      /\ UNCHANGED <<fixed, bank, ckpt, held, cmd, given, starts>>
  <2>1. Commit(p)
    OBVIOUS
  <2> QED
    BY <2>1 DEF Commit, At, Committed, Verdicts
<1>2. /\ T(p) \in Tasks /\ cmd[p] \in Commands /\ ~Idle(p) /\ TaskInv(p)
  BY <1>1, TaskShape DEF IInv
<1>3. PICK d \in Dirs, stage \in Stages : d = T(p).dir /\ stage = cmd[p].stage
  BY <1>1, TaskShape
<1>4. PICK new \in Records : new = Committed(p)
  BY <1>1, CommitRecord
<1>5. Recorded(stage, d, new) /\ Writes(stage, d, new)
  BY <1>1, <1>3, <1>4, CommitRecord DEF Writes
<1>6. /\ rec' \in [Stages -> [Dirs -> Records]]
      /\ \A s \in Stages, e \in Dirs : s # stage \/ e # d => rec'[s][e] = rec[s][e]
      /\ \A s \in Stages, e \in Dirs : (Recorded(s, e, rec[s][e]))'
  <2>1. UNCHANGED <<fixed, given>>
    BY <1>1
  <2> QED
    BY <2>1, <1>5, RecordWritten
<1>7. t \in Tasks /\ t.dir = d /\ t.at = "clear" /\ t.base = T(p).base /\ t.mem = T(p).mem
  BY <1>2, <1>3 DEF Tasks, Places
<1> HIDE DEF t
<1>8. /\ task' \in [Procs -> {<<>>} \cup {<<u>> : u \in Tasks}]
      /\ Opened(p)' /\ T(p)' = t /\ \A q \in Procs \ {p} : task'[q] = task[q]
  BY <1>1, <1>7, PutEffect
<1>9. Checkpoints'
  BY <1>1, CheckpointsKept DEF IInv, Typed
<1>10. arm' = arm /\ text' = text
  BY <1>1 DEF fixed
<1>11. CommandInv(p)'
  BY <1>1, <1>2, <1>10 DEF IInv, CommandInv, Idle
<1>12. TaskInv(p)'
  <2>1. Recorded(stage, d, t.base) /\ Remembered(stage, d, t.mem)
    BY <1>1, <1>2, <1>3, <1>7 DEF TaskInv
  <2>2. (Recorded(cmd[p].stage, T(p).dir, T(p).base))'
    <3>1. (Labelled(T(p).base))'
      BY <1>8, <1>10, <2>1 DEF Recorded, Labelled, Wanted, Cuts
    <3>2. \A l \in DOMAIN t.base : (Faithful(cmd[p].stage, T(p).dir, T(p).base[l], l))'
      BY <1>1, <1>3, <1>7, <1>8, <1>10, <2>1 DEF Recorded, Faithful, HasText
    <3>3. (OneVerdict(T(p).base))' /\ (stage = "state" => (Acquires(T(p).base))')
      BY <1>8, <1>10, <2>1 DEF Recorded, OneVerdict, Acquires, Recognized
    <3>4. \A l \in DOMAIN t.base : t.base[l].state \in {"S", "P", "U", "null"}
      BY <2>1 DEF Recorded
    <3> QED
      BY <1>1, <1>3, <1>8, <3>1, <3>2, <3>3, <3>4 DEF Recorded
  <2>3. (Remembered(cmd[p].stage, T(p).dir, T(p).mem))'
    BY <1>1, <1>3, <1>7, <1>8, <1>10, <2>1 DEF Remembered
  <2> QED
    BY <1>1, <1>2, <1>3, <1>7, <1>8, <1>10, <2>2, <2>3 DEF TaskInv, HasText
<1>13. ASSUME arm.alone
       PROVE  OnFile(p)' /\ BankOnFile'
  <2>1. OnFile(p) /\ BankOnFile
    BY <1>13 DEF IInv, AloneInv
  <2>2. cmd[p].todo \subseteq Dirs /\ arm.dirs \subseteq Dirs /\ d \notin cmd[p].todo
    <3>1. arm.dirs \subseteq Dirs
      BY TaskShape, ArmTyped
    <3> QED
      BY <1>1, <1>2, <1>3, <2>1, <3>1 DEF OnFile, Commands
  <2>3. \A e \in cmd[p].todo : rec'.audit[e] = rec.audit[e]
    BY <1>6, <2>2 DEF Stages
  <2>4. OnFile(p)'
    BY <1>1, <1>3, <1>7, <1>8, <2>1, <2>3 DEF OnFile
  <2>5. BankOnFile'
    <3>1. CASE stage = "audit"
      BY <1>1, <1>3, <2>1, <3>1 DEF OnFile, BankOnFile
    <3>2. CASE stage = "state"
      <4>1. \A e \in arm.dirs : rec'.audit[e] = rec.audit[e]
        BY <1>6, <2>2, <3>2 DEF Stages
      <4> QED
        BY <1>1, <1>10, <2>1, <4>1 DEF BankOnFile
    <3> QED
      BY <3>1, <3>2 DEF Stages
  <2> QED
    BY <2>4, <2>5
<1> QED
  BY <1>1, <1>2, <1>6, <1>8, <1>9, <1>11, <1>12, <1>13, Frame DEF IInv, Typed, OnDisk

-----------------------------------------------------------------------------
(***************************************************************************)
(* The invariant, and what follows from it.                                *)
(***************************************************************************)
LEMMA InitIInv == ASSUME Init PROVE IInv
<1>1. arm \in Arms /\ text \in [Dirs -> Trajectories] /\ starts = 0 /\ given = {} /\ bank = <<>>
  BY DEF Init
<1>2. /\ rec = [stage \in Stages |-> [d \in Dirs |-> NoRecord]]
      /\ ckpt = [k \in Keys |-> <<>>] /\ held = [k \in Keys |-> None]
      /\ cmd = [p \in Procs |-> NoCommand] /\ task = [p \in Procs |-> <<>>]
  BY DEF Init
<1>3. NoCommand \in Commands
  BY DEF NoCommand, Commands
<1>4. Typed
  <2>1. arm.starts \in Nat
    BY <1>1, ArmTyped
  <2>2. rec \in [Stages -> [Dirs -> Records]]
    BY <1>2, Blank
  <2> QED
    BY <1>1, <1>2, <1>3, <2>1, <2>2 DEF Typed
<1>5. OnDisk
  <2>1. \A stage \in Stages, d \in Dirs : Recorded(stage, d, rec[stage][d])
    BY <1>2, BlankRecorded
  <2> QED
    BY <1>1, <1>2, <2>1 DEF OnDisk
<1>6. \A p \in Procs : Idle(p) /\ ~Opened(p) /\ cmd[p] = NoCommand
  BY <1>2 DEF Idle, Opened
<1>7. \A p \in Procs : CommandInv(p) /\ TaskInv(p)
  BY <1>6 DEF CommandInv, TaskInv, NoCommand
<1>8. AloneInv
  BY <1>1, <1>6 DEF AloneInv, OnFile, BankOnFile, NoCommand
<1> QED
  BY <1>4, <1>5, <1>7, <1>8 DEF IInv

LEMMA StutterIInv == ASSUME IInv, UNCHANGED vars PROVE IInv'
<1>1. UNCHANGED <<arm, text, rec, bank, ckpt, held, cmd, task, given, starts>>
  BY DEF vars, fixed
<1>2. Typed'
  BY <1>1 DEF IInv, Typed, Commands
<1>3. OnDisk'
  <2>1. /\ \A stage \in Stages, d \in Dirs : (Recorded(stage, d, rec[stage][d]))'
        /\ Checkpoints'
    BY <1>1, RecordsKept, CheckpointsKept DEF IInv, Typed, fixed
  <2> QED
    BY <1>1, <2>1 DEF IInv, OnDisk, Checkpoints, Answers
<1>4. \A p \in Procs : CommandInv(p)' /\ TaskInv(p)'
  BY <1>1, CommandKept, TaskKept DEF IInv, fixed
<1>5. AloneInv'
  BY <1>1 DEF IInv, AloneInv, OnFile, BankOnFile, Idle, Opened, T
<1> QED
  BY <1>2, <1>3, <1>4, <1>5 DEF IInv

LEMMA NextIInv == ASSUME IInv, [Next]_vars PROVE IInv'
<1>1. CASE UNCHANGED vars
  BY <1>1, StutterIInv
<1>2. ASSUME NEW p \in Procs,
             \/ Launch(p) \/ Take(p) \/ Ungradeable(p) \/ Lock(p) \/ Ask(p) \/ Answer(p)
             \/ FailCall(p) \/ Prepare(p) \/ Commit(p) \/ CompleteAttempt(p) \/ Remove(p)
             \/ CertifyBank(p) \/ NextStage(p) \/ Stop(p) \/ Kill(p)
      PROVE  IInv'
  BY <1>2, LaunchIInv, TakeIInv, UngradeableIInv, LockIInv, AskIInv, AnswerIInv, FailCallIInv,
     PrepareIInv, CommitIInv, CompleteAttemptIInv, RemoveIInv, CertifyBankIInv, NextStageIInv,
     StopIInv, KillIInv
<1> QED
  BY <1>1, <1>2 DEF Next

\* Every reachable state satisfies the invariant the theorems below rest on.
THEOREM Inductive == Spec => []IInv
<1>1. Init => IInv
  BY InitIInv
<1>2. IInv /\ [Next]_vars => IInv'
  BY NextIInv
<1> QED
  BY <1>1, <1>2, PTL DEF Spec

\* Whatever overlaps, is killed or resumed, what is on disk is what the code can
\* write and read: the verdicts are on their stage's scale, a checkpoint is one
\* state, a lock has at most one holder.
THEOREM AuditTypes == Spec => []TypeOK
<1>1. ASSUME IInv
      PROVE  TypeOK
  <2>1. Typed /\ OnDisk
    BY <1>1 DEF IInv
  <2>2. ASSUME NEW stage \in Stages, NEW d \in Dirs, NEW l \in DOMAIN rec[stage][d]
        PROVE  /\ l \in Labels /\ rec[stage][d][l].verdict \in Answers(stage) \cup {0}
               /\ rec[stage][d][l].state \in {"S", "P", "U", "null"}
    <3>1. rec[stage][d] \in Records
      BY <2>1 DEF Typed
    <3>2. l \in Labels
      BY <3>1 DEF Records
    <3>3. /\ Faithful(stage, d, rec[stage][d][l], l)
          /\ rec[stage][d][l].state \in {"S", "P", "U", "null"}
      BY <2>1 DEF OnDisk, Recorded
    <3>4. rec[stage][d][l].verdict \in Answers(stage) \cup {0}
      BY <2>1, <3>3 DEF OnDisk, Faithful, Missing
    <3> QED
      BY <3>2, <3>3, <3>4
  <2>3. \A k \in Keys : held[k] \in Procs \cup {None} /\ Len(ckpt[k]) <= 1
    <3> SUFFICES ASSUME NEW k \in Keys
                 PROVE  held[k] \in Procs \cup {None} /\ Len(ckpt[k]) <= 1
      OBVIOUS
    <3>1. held[k] \in Procs \cup {None}
      BY <2>1 DEF Typed
    <3>2. ckpt[k] \in {<<>>} \cup {<<mem>> : mem \in CallStates}
      BY <2>1 DEF Typed
    <3>3. CASE ckpt[k] = <<>>
      BY <3>1, <3>3
    <3>4. ASSUME NEW mem \in CallStates, ckpt[k] = <<mem>>
          PROVE  Len(ckpt[k]) <= 1
      BY <3>4
    <3> QED
      BY <3>1, <3>2, <3>3, <3>4
  <2>4. \A p \in Procs : cmd[p].todo \subseteq arm.dirs /\ Len(task[p]) <= 1
    <3> SUFFICES ASSUME NEW p \in Procs
                 PROVE  cmd[p].todo \subseteq arm.dirs /\ Len(task[p]) <= 1
      OBVIOUS
    <3>1. cmd[p].todo \subseteq arm.dirs
      BY <2>1 DEF Typed, Commands
    <3>2. task[p] \in {<<>>} \cup {<<t>> : t \in Tasks}
      BY <2>1 DEF Typed
    <3>3. CASE task[p] = <<>>
      BY <3>1, <3>3
    <3>4. ASSUME NEW t \in Tasks, task[p] = <<t>>
          PROVE  Len(task[p]) <= 1
      BY <3>4
    <3> QED
      BY <3>1, <3>2, <3>3, <3>4
  <2> QED
    BY <2>1, <2>2, <2>3, <2>4 DEF Typed, TypeOK
<1> QED
  BY <1>1, Inductive, PTL

\* Every recorded verdict was given for the text that the attempt holds at that
\* label, one per text, and without overlap a bank's scores are those of its
\* members: for any trajectories and any answers of the judge.
THEOREM RecordsAreJudgments == Spec => []VerdictsOfText
<1>1. ASSUME IInv
      PROVE  VerdictsOfText
  <2>1. ASSUME NEW stage \in Stages, NEW d \in Dirs
        PROVE  LET record == rec[stage][d] IN
                 /\ \A l \in DOMAIN record : record[l].text # NoText =>
                      /\ record[l].text = text[d][l]
                      /\ <<stage, d, text[d][l], record[l].verdict>> \in given
                 /\ \A l, m \in DOMAIN record :
                      record[l].text = record[m].text => record[l].verdict = record[m].verdict
    <3>1. Recorded(stage, d, rec[stage][d])
      BY <1>1 DEF IInv, OnDisk
    <3> QED
      BY <3>1 DEF Recorded, Faithful, OneVerdict, Missing
  <2>2. arm.alone /\ bank # <<>> =>
          \A d \in arm.dirs : bank[1][d] = rec.audit[d][Units].verdict
    BY <1>1 DEF IInv, AloneInv, BankOnFile
  <2> QED
    BY <2>1, <2>2 DEF VerdictsOfText
<1> QED
  BY <1>1, Inductive, PTL

\* Without overlap a step writes at most what is on file at the labels it has.
LEMMA VerdictKept ==
  ASSUME IInv, [Next]_vars, arm.alone,
         NEW stage \in Stages, NEW d \in Dirs, NEW l \in DOMAIN rec[stage][d]
  PROVE  /\ l \in DOMAIN rec'[stage][d]
         /\ rec'[stage][d][l].text = rec[stage][d][l].text
         /\ rec'[stage][d][l].verdict = rec[stage][d][l].verdict
<1>1. CASE rec' = rec
  BY <1>1
<1>2. ASSUME NEW p \in Procs, Ungradeable(p)
      PROVE  /\ l \in DOMAIN rec'[stage][d]
             /\ rec'[stage][d][l].text = rec[stage][d][l].text
             /\ rec'[stage][d][l].verdict = rec[stage][d][l].verdict
  <2>1. /\ Opened(p) /\ T(p).at = "read" /\ cmd[p].stage = "audit" /\ ~HasText(T(p).dir, Units)
        /\ rec' = [rec EXCEPT !.audit[T(p).dir] = [k \in Wanted(cmd[p].dense) |-> Missing]]
    BY <1>2 DEF Ungradeable, At
  <2>2. rec \in [Stages -> [Dirs -> Records]] /\ "audit" \in Stages
    BY DEF IInv, Typed, Stages
  <2>3. CASE stage = "audit" /\ d = T(p).dir
    <3>1. rec'[stage][d] = [k \in Wanted(cmd[p].dense) |-> Missing]
      BY <2>1, <2>2, <2>3
    <3>2. l \in Wanted(cmd[p].dense)
      BY <2>1, <2>3, Extends
    <3>3. rec[stage][d][l] = Missing
      BY <2>1, <2>3, MissingRecord
    <3> QED
      BY <3>1, <3>2, <3>3
  <2>4. CASE ~(stage = "audit" /\ d = T(p).dir)
    <3>1. rec'[stage][d] = rec[stage][d]
      BY <2>1, <2>2, <2>4
    <3> QED
      BY <3>1
  <2> QED
    BY <2>3, <2>4
<1>3. ASSUME NEW p \in Procs, Commit(p)
      PROVE  /\ l \in DOMAIN rec'[stage][d]
             /\ rec'[stage][d][l].text = rec[stage][d][l].text
             /\ rec'[stage][d][l].verdict = rec[stage][d][l].verdict
  <2>1. /\ Opened(p) /\ T(p).at = "commit"
        /\ rec' = [rec EXCEPT ![cmd[p].stage][T(p).dir] = Committed(p)]
    <3>1. Commit(p)
      BY <1>3
    <3> QED
      BY <3>1 DEF Commit, At, Committed, Verdicts
  <2>2. /\ rec \in [Stages -> [Dirs -> Records]]
        /\ cmd[p].stage \in Stages /\ T(p).dir \in Dirs
    BY <2>1, TaskShape DEF IInv, Typed
  <2>3. CASE stage = cmd[p].stage /\ d = T(p).dir
    <3>1. rec'[stage][d] = Committed(p)
      BY <2>1, <2>2, <2>3
    <3>2. l \in Wanted(cmd[p].dense)
      BY <2>1, <2>3, Extends
    <3>3. T(p).base = rec[stage][d]
      BY <2>1, <2>3 DEF IInv, AloneInv, OnFile
    <3> QED
      BY <2>1, <3>1, <3>2, <3>3, CommitRecord
  <2>4. CASE ~(stage = cmd[p].stage /\ d = T(p).dir)
    <3>1. rec'[stage][d] = rec[stage][d]
      BY <2>1, <2>2, <2>4
    <3> QED
      BY <3>1
  <2> QED
    BY <2>3, <2>4
<1>4. rec' = rec \/ \E p \in Procs : Ungradeable(p) \/ Commit(p)
  BY DEF Next, vars, Launch, Take, Lock, Ask, Answer, FailCall, Prepare, CompleteAttempt, Remove,
     CertifyBank, NextStage, Stop, Kill
<1> QED
  BY <1>1, <1>2, <1>3, <1>4

\* Without overlap no verdict on file changes or disappears, whatever is asked
\* again after a kill.
THEOREM FrozenVerdicts == Spec => RecordsFrozen
<1>1. ASSUME IInv, [Next]_vars
      PROVE  [arm.alone =>
                \A stage \in Stages, d \in Dirs : \A l \in DOMAIN rec[stage][d] :
                  /\ l \in DOMAIN rec'[stage][d]
                  /\ rec'[stage][d][l].text = rec[stage][d][l].text
                  /\ rec'[stage][d][l].verdict = rec[stage][d][l].verdict]_vars
  BY <1>1, VerdictKept
<1> QED
  BY <1>1, Inductive, PTL DEF Spec, RecordsFrozen

\* After an S every label with a text is S, and a dense annotation keeps the S
\* of the sparse one it extends.
THEOREM StateIsAcquiredForGood == Spec => AcquiredForGood
<1>1. ASSUME IInv, IInv', [Next]_vars
      PROVE  [\A d \in Dirs :
                LET old == rec.state[d]
                    new == rec'.state[d]
                IN  /\ \A l, m \in DOMAIN new :
                         l < m /\ new[l].state = "S" /\ new[m].text # NoText => new[m].state = "S"
                    /\ arm.alone =>
                         \A l \in DOMAIN old : old[l].state = "S" => new[l].state = "S"]_vars
  <2> SUFFICES ASSUME NEW d \in Dirs
               PROVE  /\ \A l, m \in DOMAIN rec'.state[d] :
                           l < m /\ rec'.state[d][l].state = "S" /\ rec'.state[d][m].text # NoText
                             => rec'.state[d][m].state = "S"
                      /\ arm.alone => \A l \in DOMAIN rec.state[d] :
                           rec.state[d][l].state = "S" => rec'.state[d][l].state = "S"
    OBVIOUS
  <2>1. PICK old : old = rec.state[d]
    OBVIOUS
  <2>2. PICK new : new = rec'.state[d]
    OBVIOUS
  <2>3. arm' = arm /\ "state" \in Stages
    BY <1>1 DEF Next, vars, fixed, Launch, Take, Ungradeable, Lock, Ask, Answer, FailCall, Prepare,
       Commit, CompleteAttempt, Remove, CertifyBank, NextStage, Stop, Kill, Stages
  <2>4. Acquires(old)
    BY <1>1, <2>1, <2>3 DEF IInv, OnDisk, Recorded
  <2>5. Acquires(new)
    <3>1. (Acquires(rec.state[d]))'
      BY <1>1, <2>3 DEF IInv, OnDisk, Recorded
    <3> QED
      BY <2>2, <2>3, <3>1 DEF Acquires, Recognized
  <2>6. DOMAIN new \subseteq Int
    <3>1. rec' \in [Stages -> [Dirs -> Records]]
      BY <1>1 DEF IInv, Typed
    <3>2. new \in Records
      BY <2>2, <2>3, <3>1
    <3>3. Labels \subseteq Int
      BY DEF Labels
    <3> QED
      BY <3>2, <3>3 DEF Records
  <2>7. \A l, m \in DOMAIN new :
          l < m /\ new[l].state = "S" /\ new[m].text # NoText => new[m].state = "S"
    <3> SUFFICES ASSUME NEW l \in DOMAIN new, NEW m \in DOMAIN new,
                        l < m, new[l].state = "S", new[m].text # NoText
                 PROVE  new[m].state = "S"
      OBVIOUS
    <3>1. PICK k \in DOMAIN new : /\ arm.mode = "strategies" \/ k <= l
                                  /\ new[k].text # NoText /\ new[k].verdict = 3
      BY <2>5 DEF Acquires, Recognized
    <3>2. arm.mode = "strategies" \/ k <= m
      BY <2>6, <3>1
    <3>3. Recognized(new, m)
      BY <3>1, <3>2 DEF Recognized
    <3> QED
      BY <2>5, <3>3 DEF Acquires
  <2>8. ASSUME arm.alone, NEW l \in DOMAIN old, old[l].state = "S"
        PROVE  new[l].state = "S"
    <3>1. \A k \in DOMAIN old :
            k \in DOMAIN new /\ new[k].text = old[k].text /\ new[k].verdict = old[k].verdict
      BY <1>1, <2>1, <2>2, <2>3, <2>8, VerdictKept
    <3>2. PICK k \in DOMAIN old : /\ arm.mode = "strategies" \/ k <= l
                                  /\ old[k].text # NoText /\ old[k].verdict = 3
      BY <2>4, <2>8 DEF Acquires, Recognized
    <3>3. old[l].text # NoText
      BY <2>4, <2>8 DEF Acquires
    <3>4. Recognized(new, l) /\ new[l].text # NoText /\ l \in DOMAIN new
      BY <2>8, <3>1, <3>2, <3>3 DEF Recognized
    <3> QED
      BY <2>5, <3>4 DEF Acquires
  <2> QED
    BY <2>1, <2>2, <2>7, <2>8
<1> QED
  BY <1>1, Inductive, PTL DEF Spec, AcquiredForGood
=============================================================================
