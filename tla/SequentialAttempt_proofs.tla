---------------------- MODULE SequentialAttempt_proofs ----------------------
(***************************************************************************)
(* Proofs about SequentialAttempt, for every budget, reserve, round and    *)
(* streak threshold, charge and number of kills.                           *)
(*                                                                         *)
(* NeverRaises is not inductive: that LoadState accepts what it finds      *)
(* depends on how far the killed process had got.  IInv says, for every    *)
(* control point, what the two files on disk and the live tracker agree on. *)
(* HistoryInv then says what several processes of one attempt have in      *)
(* common, and with it the refinement of AttemptLedger is proved.          *)
(***************************************************************************)
EXTENDS SequentialAttempt, FiniteSetTheorems, TLAPS

Working == {"solve", "critique", "revise"}

\* The phase file is written and state.json does not know it yet.
Torn ==
  /\ HasActive(disk)
  /\ DOMAIN files = 0..disk.next
  /\ files[disk.next].id = disk.active.id
  /\ files[disk.next].tracker.spent >= disk.tracker.spent
  /\ files[disk.next].tracker.streamed = 0
  /\ files[disk.next].label = disk.active.label

\* The phase file of everything state.json has counted, and of nothing else.
Whole ==
  /\ DOMAIN files = 0..disk.next-1
  /\ HasActive(disk) => \A i \in DOMAIN files : files[i].id < disk.active.id

Consistent ==
  /\ Restorable(disk.tracker)
  /\ \A i \in DOMAIN files : Restorable(files[i].tracker)
  /\ Restorable(tracker)

\* Ids are handed out in order; NoActive is the only inactive value.
IdsDrawn ==
  /\ \A i \in DOMAIN files : files[i].id \in 1..uuid
  /\ disk.active.id <= uuid
  /\ ~HasActive(disk) => disk.active = NoActive

\* What an active phase was begun with.
ActiveShape ==
  /\ HasActive(disk) =>
       /\ disk.active.seq = disk.next
       /\ disk.active.label \in Labels
       /\ disk.active.stop = IF ActiveIsWrap THEN Budget ELSE SoftLimit
       /\ ActiveIsWrap => SoftExhausted(disk.tracker)
       /\ disk.next = 0 => disk.active.label = InitialLabel
       /\ ~Refine /\ ~ActiveIsWrap => disk.next = 0
  /\ ~HasActive(disk) /\ disk.next = 0 => disk.tracker.spent = 0

Loaded == Stages \ {"down", "load", "raised"}
SessionKept == Loaded \ {"open", "session", "wrap_session"}
AfterRecover == {"rebuild", "loop", "critiqued", "wrap_check", "wrap_open",
                 "wrap_session", "wrap", "done"}

\* Where the process is and what that says about the disk.
ProcessShape ==
  /\ step # "idle" =>
       /\ stage \in {"initial", "recover", "loop", "critiqued", "wrap"}
       /\ HasActive(disk)
       /\ stage = "initial" => disk.next = 0
       /\ stage \in {"recover", "loop", "critiqued"} => disk.active.label \in Working
       /\ stage = "wrap" => ActiveIsWrap
  /\ step = "commit" => Torn /\ tracker = files[disk.next].tracker
  /\ stage \in Loaded /\ step # "commit" => Whole /\ tracker.spent >= disk.tracker.spent
  /\ stage \in Loaded /\ step \in {"idle", "query"} => tracker = disk.tracker
  /\ stage \in {"session", "wrap_session"} => SessionAccepted(disk, sess)
  /\ stage \in SessionKept => sess = disk.session \/ disk.session = NoSession
  /\ stage \in {"loop", "critiqued"} => Refine
  /\ stage \in AfterRecover \cup {"recover"} => disk.next > 0
  /\ stage \in AfterRecover /\ step = "idle" => ~HasActive(disk) \/ ActiveIsWrap
  /\ stage \in {"wrap_open", "wrap_session", "wrap"} /\ step = "idle" =>
       ActiveIsWrap \/ (SoftExhausted(tracker) /\ ~Exhausted(tracker))

IInv ==
  /\ TypeOK
  /\ Whole \/ Torn
  /\ Consistent
  /\ IdsDrawn
  /\ ActiveShape
  /\ ProcessShape
  /\ NeverRaises

-----------------------------------------------------------------------------
(***************************************************************************)
(* The phase ledger and its length.                                        *)
(***************************************************************************)
\* A ledger numbered 0..n-1 holds n records (phases(): len(records)).
LEMMA RecordedIs ==
  ASSUME NEW n \in Nat, NEW f, DOMAIN f = 0..n-1
  PROVE  /\ Recorded(f) = n
         /\ Contiguous(f)
         /\ n > 0 => LastFile(f) = f[n-1]
<1>1. Cardinality(0..n-1) = n
  BY FS_Interval
<1>2. QED
  BY <1>1 DEF Recorded, Contiguous, LastFile

\* What phases() finds on disk: a torn boundary exactly when Torn says so.
LEMMA ReadBack ==
  ASSUME IInv
  PROVE  /\ Contiguous(files)
         /\ Whole => ~BoundaryTorn(disk, files) /\ Recorded(files) = disk.next
         /\ Torn => /\ BoundaryTorn(disk, files)
                    /\ Recorded(files) = disk.next + 1
                    /\ LastFile(files) = files[disk.next]
<1>1. disk.next \in Nat
  BY DEF IInv, TypeOK, RoleStates
<1>2. CASE Whole
  <2>1. DOMAIN files = 0..disk.next-1
    BY <1>2 DEF Whole
  <2>2. Recorded(files) = disk.next /\ Contiguous(files)
        /\ (disk.next > 0 => LastFile(files) = files[disk.next-1])
    BY <1>1, <2>1, RecordedIs
  <2>3. ~BoundaryTorn(disk, files)
    <3>1. SUFFICES ASSUME BoundaryTorn(disk, files) PROVE FALSE
      OBVIOUS
    <3>2. disk.next > 0 /\ disk.next-1 \in DOMAIN files
      BY <1>1, <2>1, <3>1 DEF BoundaryTorn
    <3>3. files[disk.next-1].id = disk.active.id
      BY <2>2, <3>1, <3>2 DEF BoundaryTorn
    <3>4. files[disk.next-1].id < disk.active.id
      BY <1>2, <3>1, <3>2 DEF Whole, BoundaryTorn
    <3>5. QED
      BY <3>2, <3>3, <3>4 DEF IInv, TypeOK, PhaseFiles, RoleStates, Actives
  <2>4. ~Torn
    BY <1>1, <2>1 DEF Torn
  <2>5. QED
    BY <2>2, <2>3, <2>4
<1>3. CASE Torn
  <2>1. DOMAIN files = 0..(disk.next+1)-1
    BY <1>1, <1>3 DEF Torn
  <2>2. /\ Recorded(files) = disk.next + 1
        /\ Contiguous(files)
        /\ LastFile(files) = files[disk.next]
    BY <1>1, <2>1, RecordedIs
  <2>3. BoundaryTorn(disk, files)
    BY <1>1, <1>3, <2>1, <2>2 DEF Torn, BoundaryTorn
  <2>4. ~Whole
    BY <1>1, <2>1 DEF Whole
  <2>5. QED
    BY <2>2, <2>3, <2>4
<1>4. QED
  BY <1>2, <1>3 DEF IInv

-----------------------------------------------------------------------------
(***************************************************************************)
(* IInv holds initially and every step keeps it.                           *)
(***************************************************************************)
LEMMA InitIInv == Init => IInv
<1> SUFFICES ASSUME Init PROVE IInv
  OBVIOUS
<1>1. TypeOK
  <2>1. disk \in RoleStates /\ tracker \in Trackers
    BY DEF Init, NewRole, NewTracker, NoActive, NoSession, RoleStates, Trackers, Actives
  <2>2. DOMAIN files = {}
    BY DEF Init, NoFiles
  <2>3. kills \in 0..MaxKills
    BY ControllerAssumption DEF Init
  <2>4. QED
    BY <2>1, <2>2, <2>3 DEF Init, TypeOK, NoSession, Stages, Steps
<1>2. Whole
  BY DEF Init, Whole, NewRole, NoActive, NoFiles, HasActive
<1>3. Consistent /\ IdsDrawn /\ ActiveShape /\ ProcessShape /\ NeverRaises
  BY DEF Init, Consistent, IdsDrawn, ActiveShape, ProcessShape, NeverRaises, NewRole,
         NewTracker, NoActive, NoFiles, HasActive, Restorable, Loaded, SessionKept,
         AfterRecover, ActiveIsWrap
<1>4. QED
  BY <1>1, <1>2, <1>3 DEF IInv

\* A process that stops forgets its memory and leaves the disk as it is.
LEMMA StoppedIInv ==
  ASSUME IInv, Stopped("down"), UNCHANGED <<disk, files, uuid>>,
         asked' \subseteq Nat, kills' \in 0..MaxKills
  PROVE  IInv'
<1>1. TypeOK'
  BY DEF IInv, TypeOK, Stopped, GoTo, NoSession, NewTracker, Trackers, Stages, Steps
<1>2. (Whole \/ Torn)'
  BY DEF IInv, Whole, Torn
<1>3. (Consistent /\ IdsDrawn /\ ActiveShape)'
  BY DEF IInv, Consistent, IdsDrawn, ActiveShape, ActiveIsWrap, Stopped, GoTo,
         NewTracker, Restorable
<1>4. (ProcessShape /\ NeverRaises)'
  BY DEF ProcessShape, NeverRaises, Stopped, GoTo, Loaded, SessionKept, AfterRecover
<1>5. QED
  BY <1>1, <1>2, <1>3, <1>4 DEF IInv

\* Neither add() nor finish_phase() breaks the cross-check of restore() or
\* lowers the spend.
LEMMA TrackerOps ==
  ASSUME NEW t \in Trackers, NEW d \in Nat, Restorable(t)
  PROVE  /\ Charge(t, d) \in Trackers /\ FinishPhase(t, d) \in Trackers
         /\ Restorable(Charge(t, d)) /\ Restorable(FinishPhase(t, d))
         /\ Charge(t, d).spent >= t.spent /\ FinishPhase(t, d).spent >= t.spent
         /\ FinishPhase(t, d).streamed = 0
<1>1. t.spent \in Nat /\ t.completed \in Nat /\ t.streamed \in Nat
      /\ t.spent = t.completed + t.streamed
  BY DEF Trackers, Restorable
<1>2. /\ Charge(t, d) \in Trackers
      /\ Charge(t, d).spent = t.spent + d
      /\ Charge(t, d).completed = t.completed
      /\ Charge(t, d).streamed = t.streamed + d
  BY <1>1 DEF Trackers, Charge
<1>3. PICK phase \in Nat :
        /\ phase >= t.streamed
        /\ FinishPhase(t, d) = [spent |-> t.completed + phase,
                                completed |-> t.completed + phase, streamed |-> 0]
  BY <1>1 DEF FinishPhase
<1>4. QED
  BY <1>1, <1>2, <1>3 DEF Trackers, Restorable

\* The first write of finish_phase tears the boundary and nothing else.
LEMMA WriteTears ==
  ASSUME IInv, Whole, HasActive(disk),
         NEW t \in Trackers, Restorable(t), t.streamed = 0,
         t.spent >= disk.tracker.spent,
         NEW exhausted \in BOOLEAN, NEW noGap \in BOOLEAN,
         files' = WritePhaseFile(files, disk, t, exhausted, noGap),
         UNCHANGED <<disk, uuid>>
  PROVE  /\ Torn' /\ files'[disk.next].tracker = t
         /\ DOMAIN files' \subseteq Nat
         /\ \A i \in DOMAIN files' : files'[i] \in PhaseFiles
         /\ \A i \in DOMAIN files' : Restorable(files'[i].tracker)
         /\ IdsDrawn'
         /\ ActiveShape'
<1> DEFINE record == [id |-> disk.active.id, label |-> disk.active.label, tracker |-> t,
                      exhausted |-> exhausted, noGap |-> noGap]
<1>1. disk.next \in Nat /\ disk.active.seq = disk.next /\ disk.active.label \in Labels
      /\ disk.active.id \in 1..uuid
  BY DEF IInv, TypeOK, RoleStates, Actives, ActiveShape, IdsDrawn, HasActive
<1>2. DOMAIN files = 0..disk.next-1
  BY DEF Whole
<1>3. DOMAIN files' = 0..disk.next
  BY <1>1, <1>2 DEF WritePhaseFile
<1>4. /\ files'[disk.next] = record
      /\ \A i \in DOMAIN files : files'[i] = files[i]
      /\ \A i \in DOMAIN files' : i \in DOMAIN files \/ i = disk.next
  BY <1>1, <1>2 DEF WritePhaseFile
<1>5. record \in PhaseFiles
  BY <1>1 DEF PhaseFiles, IInv, TypeOK
<1> HIDE DEF record
<1>6. record.id = disk.active.id /\ record.label = disk.active.label /\ record.tracker = t
  BY DEF record
<1>7. Torn'
  BY <1>1, <1>3, <1>4, <1>6 DEF Torn, HasActive
<1>8. \A i \in DOMAIN files' : files'[i] \in PhaseFiles
  BY <1>4, <1>5 DEF IInv, TypeOK
<1>9. \A i \in DOMAIN files' : Restorable(files'[i].tracker)
  BY <1>4, <1>6 DEF IInv, Consistent
<1>10. IdsDrawn'
  BY <1>1, <1>4, <1>6 DEF IInv, IdsDrawn, HasActive
<1>11. ActiveShape'
  BY DEF IInv, ActiveShape, HasActive, ActiveIsWrap
<1>12. QED
  BY <1>1, <1>3, <1>4, <1>6, <1>7, <1>8, <1>9, <1>10, <1>11

-----------------------------------------------------------------------------
(***************************************************************************)
(* _checkpointed_phase, from the controller or on recovery.                *)
(***************************************************************************)
\* A controller that asks for the right phase at the right cutoff keeps IInv,
\* whether the phase is begun, resumed or closed.
LEMMA EnterPhaseIInv ==
  ASSUME IInv, NEW label \in Labels, NEW stop, EnterPhase(label, stop),
         stage \in {"initial", "recover", "loop", "critiqued", "wrap"},
         stage = "initial" => disk.next = 0,
         stage \in {"recover", "loop", "critiqued"} => label \in Working,
         stage = "wrap" => label = "wrap_up",
         ~HasActive(disk) =>
           /\ stop = IF label = "wrap_up" THEN Budget ELSE SoftLimit
           /\ label = "wrap_up" => SoftExhausted(tracker)
           /\ disk.next = 0 => label = InitialLabel
           /\ ~Refine /\ label # "wrap_up" => disk.next = 0,
         rounds' \in Nat, streak' \in Nat
  PROVE  IInv'
<1> USE BudgetAssumption
<1>a. /\ step = "idle" /\ tracker = disk.tracker /\ Whole
      /\ UNCHANGED <<asked, kills, stage, sess, interrupted, fresh>>
  BY DEF EnterPhase, IInv, ProcessShape, Loaded, Stages
<1>b. /\ disk \in RoleStates /\ tracker \in Trackers /\ uuid \in Nat
      /\ Restorable(tracker)
  BY DEF IInv, TypeOK, Consistent
<1>c. SoftLimit \in Nat /\ Budget \in Nat
  BY DEF SoftLimit
<1>1. CASE BeginNew(label, stop)
  <2> DEFINE active == [id |-> uuid + 1, seq |-> disk.next, label |-> label, stop |-> stop]
  <2>1. /\ ~HasActive(disk) /\ uuid' = uuid + 1 /\ step' = "query"
        /\ disk' = [disk EXCEPT !.active = active, !.tracker = tracker]
        /\ UNCHANGED <<files, tracker>>
    BY <1>1 DEF BeginNew, BeginPhaseIn
  <2>2. active \in Actives
    BY <1>b, <1>c, <2>1 DEF Actives, RoleStates
  <2>3. /\ disk' \in RoleStates /\ disk'.active = active /\ disk'.next = disk.next
        /\ disk'.session = disk.session /\ disk'.tracker = tracker
    BY <1>b, <2>1, <2>2 DEF RoleStates
  <2>4. /\ active.id = uuid + 1 /\ active.seq = disk.next /\ active.label = label
        /\ active.stop = stop
    OBVIOUS
  <2> HIDE DEF active
  <2>5. TypeOK'
    BY <1>a, <1>b, <2>1, <2>3 DEF IInv, TypeOK, Steps
  <2>6. HasActive(disk)'
    BY <1>b, <2>3, <2>4 DEF HasActive
  <2>7. Whole'
    BY <1>a, <1>b, <2>1, <2>3, <2>4 DEF Whole, IInv, IdsDrawn, TypeOK, PhaseFiles
  <2>8. Consistent'
    BY <1>a, <1>b, <2>1, <2>3 DEF IInv, Consistent
  <2>9. IdsDrawn'
    BY <1>b, <2>1, <2>3, <2>4, <2>6 DEF IInv, IdsDrawn, TypeOK, PhaseFiles
  <2>10. ActiveShape'
    BY <1>a, <2>1, <2>3, <2>4, <2>6 DEF ActiveShape, ActiveIsWrap, SoftExhausted
  <2>11. (ProcessShape /\ NeverRaises)'
    BY <1>a, <1>b, <2>1, <2>3, <2>4, <2>6, <2>7
       DEF IInv, ProcessShape, NeverRaises, ActiveIsWrap, Loaded, SessionKept,
           AfterRecover, SessionAccepted, Trackers
  <2>12. QED
    BY <2>5, <2>7, <2>8, <2>9, <2>10, <2>11 DEF IInv
<1>d. ASSUME disk.active.label = label PROVE HasActive(disk)
  BY <1>d DEF IInv, IdsDrawn, NoActive, Labels
<1>2. CASE FinalizeKilled(label)
  <2>1. /\ HasActive(disk) /\ disk.active.label = label
        /\ tracker' = FinishPhase(tracker, 0) /\ step' = "commit"
        /\ UNCHANGED <<disk, uuid>>
    BY <1>2, <1>d DEF FinalizeKilled
  <2>2. PICK noGap \in Verdicts : files' = WritePhaseFile(files, disk, tracker', TRUE, noGap)
    BY <1>2 DEF FinalizeKilled
  <2>3. noGap \in BOOLEAN
    BY DEF Verdicts
  <2>4. /\ tracker' \in Trackers /\ Restorable(tracker') /\ tracker'.streamed = 0
        /\ tracker'.spent >= disk.tracker.spent
    BY <1>a, <1>b, <2>1, TrackerOps
  <2>5. /\ Torn' /\ files'[disk.next].tracker = tracker'
        /\ DOMAIN files' \subseteq Nat
        /\ \A i \in DOMAIN files' : files'[i] \in PhaseFiles
        /\ \A i \in DOMAIN files' : Restorable(files'[i].tracker)
        /\ IdsDrawn' /\ ActiveShape'
    BY <1>a, <2>1, <2>2, <2>3, <2>4, WriteTears
  <2>6. TypeOK'
    BY <1>a, <1>b, <2>1, <2>4, <2>5 DEF IInv, TypeOK, Steps
  <2>7. Consistent'
    BY <1>b, <2>1, <2>4, <2>5 DEF IInv, Consistent
  <2>8. (ProcessShape /\ NeverRaises)'
    BY <1>a, <2>1, <2>5
       DEF IInv, ProcessShape, NeverRaises, ActiveIsWrap, Loaded, SessionKept,
           AfterRecover, SessionAccepted, HasActive
  <2>9. QED
    BY <2>5, <2>6, <2>7, <2>8 DEF IInv
<1>3. CASE ResumeKilled(label)
  <2>1. HasActive(disk) /\ disk.active.label = label /\ step' = "query"
        /\ UNCHANGED <<disk, files, uuid, tracker>>
    BY <1>3, <1>d DEF ResumeKilled, durable
  <2>2. TypeOK'
    BY <1>a, <2>1 DEF IInv, TypeOK, Steps
  <2>3. (Whole /\ Consistent /\ IdsDrawn /\ ActiveShape)'
    BY <1>a, <2>1 DEF IInv, Whole, Consistent, IdsDrawn, ActiveShape, ActiveIsWrap
  <2>4. (ProcessShape /\ NeverRaises)'
    BY <1>a, <2>1, <2>3
       DEF IInv, ProcessShape, NeverRaises, ActiveIsWrap, Loaded, SessionKept,
           AfterRecover, SessionAccepted, HasActive
  <2>5. QED
    BY <2>2, <2>3, <2>4 DEF IInv
<1>4. QED
  BY <1>1, <1>2, <1>3 DEF EnterPhase

-----------------------------------------------------------------------------
(***************************************************************************)
(* Starting: load, open, save the session.                                 *)
(***************************************************************************)
LEMMA StartIInv == ASSUME IInv, Start PROVE IInv'
<1>1. TypeOK'
  BY DEF Start, GoTo, durable, IInv, TypeOK, Stages, Steps
<1>2. ((Whole \/ Torn) /\ Consistent /\ IdsDrawn /\ ActiveShape)'
  BY DEF Start, GoTo, durable, IInv, Whole, Torn, Consistent, IdsDrawn, ActiveShape,
         ActiveIsWrap
<1>3. (ProcessShape /\ NeverRaises)'
  BY DEF Start, GoTo, ProcessShape, NeverRaises, Loaded, SessionKept, AfterRecover
<1>4. QED
  BY <1>1, <1>2, <1>3 DEF IInv

\* phases() and tracker() accept whatever a killed process left, and repair it.
LEMMA LoadStateIInv == ASSUME IInv, LoadState PROVE IInv'
<1> DEFINE st == Reconcile(disk, files)
<1>1. disk \in RoleStates /\ disk.next \in Nat /\ NoActive \in Actives
  BY DEF IInv, TypeOK, RoleStates, NoActive, Actives
<1>2. /\ st \in RoleStates /\ Restorable(st.tracker)
      /\ DOMAIN files = 0..st.next-1 /\ Recorded(files) = st.next
      /\ st.session = disk.session
      /\ st.tracker.spent >= disk.tracker.spent
      /\ Whole => st = disk
      /\ Torn => st.active = NoActive /\ st.next = disk.next + 1
  <2>1. CASE Whole
    BY <1>1, <2>1, ReadBack
       DEF Reconcile, Whole, IInv, Consistent, RoleStates, Trackers, Torn
  <2>2. CASE Torn
    <3>1. st = [disk EXCEPT !.tracker = files[disk.next].tracker, !.active = NoActive,
                            !.next = disk.next + 1]
      BY <2>2, ReadBack DEF Reconcile
    <3>2. disk.next \in DOMAIN files /\ DOMAIN files = 0..disk.next
      BY <1>1, <2>2 DEF Torn
    <3>3. files[disk.next].tracker \in Trackers /\ Restorable(files[disk.next].tracker)
      BY <3>2 DEF IInv, TypeOK, PhaseFiles, Consistent
    <3> HIDE DEF st
    <3>4. /\ st \in RoleStates /\ st.tracker = files[disk.next].tracker
          /\ st.next = disk.next + 1 /\ st.active = NoActive /\ st.session = disk.session
      <4>1. disk.next + 1 \in Nat
        BY <1>1
      <4> HIDE DEF NoActive
      <4>2. QED
        BY <1>1, <3>1, <3>3, <4>1 DEF RoleStates
    <3>5. ~Whole
      BY <1>1, <2>2 DEF Torn, Whole
    <3>6. QED
      BY <1>1, <2>2, <3>2, <3>3, <3>4, <3>5, ReadBack DEF Torn
  <2>3. QED
    BY <2>1, <2>2 DEF IInv
<1>3. Contiguous(files) /\ LedgerAgrees(st, files)
  BY <1>2, ReadBack DEF LedgerAgrees
<1>4. /\ stage = "load" /\ disk' = st /\ tracker' = st.tracker
      /\ stage' = "open" /\ step' = "idle"
      /\ UNCHANGED <<files, uuid, asked, kills, sess, interrupted, fresh, rounds, streak>>
  BY <1>2, <1>3 DEF LoadState, GoTo
<1>5. st.active \in Actives /\ (~HasActive(st) => st.active = NoActive)
      /\ st.active.id <= uuid
  BY <1>1, <1>2 DEF IInv, IdsDrawn, HasActive, NoActive, RoleStates, TypeOK
<1> HIDE DEF st
<1>6. TypeOK'
  BY <1>2, <1>4 DEF IInv, TypeOK, Stages, Steps, RoleStates
<1>7. Whole'
  BY <1>1, <1>2, <1>4 DEF IInv, Whole, HasActive, NoActive
<1>8. (Consistent /\ IdsDrawn)'
  BY <1>2, <1>4, <1>5 DEF IInv, Consistent, IdsDrawn, HasActive
<1>9. ActiveShape'
  BY <1>1, <1>2, <1>4 DEF IInv, ActiveShape, ActiveIsWrap, HasActive, NoActive
<1>10. tracker'.spent >= disk'.tracker.spent
  BY <1>2, <1>4 DEF RoleStates, Trackers
<1>11. (ProcessShape /\ NeverRaises)'
  BY <1>4, <1>7, <1>10
     DEF ProcessShape, NeverRaises, Loaded, SessionKept, AfterRecover, Stages
<1>12. QED
  BY <1>6, <1>7, <1>8, <1>9, <1>11 DEF IInv

LEMMA OpenSessionIInv == ASSUME IInv, OpenSession PROVE IInv'
<1>1. /\ stage \in {"open", "wrap_open"} /\ step' = "idle"
      /\ stage' = IF stage = "open" THEN "session" ELSE "wrap_session"
      /\ sess' \in Nat /\ uuid' \in Nat /\ uuid' >= uuid
      /\ SessionAccepted(disk, sess')
      /\ UNCHANGED <<disk, files, asked, kills, tracker, interrupted, fresh, rounds, streak>>
  BY DEF OpenSession, GoTo, durable, SessionAccepted, IInv, TypeOK, RoleStates, NoSession
<1>2. step = "idle"
  BY <1>1 DEF IInv, ProcessShape
<1>3. TypeOK'
  BY <1>1 DEF IInv, TypeOK, Stages, Steps
<1>4. ((Whole \/ Torn) /\ Consistent /\ ActiveShape)'
  BY <1>1 DEF IInv, Whole, Torn, Consistent, ActiveShape, ActiveIsWrap
<1>5. IdsDrawn'
  BY <1>1 DEF IInv, IdsDrawn, TypeOK, RoleStates, Actives, PhaseFiles
<1>6. (ProcessShape /\ NeverRaises)'
  BY <1>1, <1>2 DEF IInv, ProcessShape, NeverRaises, Loaded, SessionKept, AfterRecover,
         Stages, Whole, ActiveIsWrap, SessionAccepted
<1>7. QED
  BY <1>3, <1>4, <1>5, <1>6 DEF IInv

\* The session UUID found on disk is the one the process opened.
LEMMA SaveSessionIInv == ASSUME IInv, SaveSession PROVE IInv'
<1>1. SessionAccepted(disk, sess) /\ step = "idle"
  BY DEF SaveSession, IInv, ProcessShape
<1>2. /\ stage \in {"session", "wrap_session"} /\ step' = "idle"
      /\ stage' = IF stage = "session" THEN "initial" ELSE "wrap"
      /\ disk' = [disk EXCEPT !.session = sess]
      /\ UNCHANGED <<files, uuid, asked, kills, sess, tracker, interrupted, fresh,
                     rounds, streak>>
  BY <1>1 DEF SaveSession, SaveSessionIn, GoTo
<1>3. /\ disk' \in RoleStates /\ disk'.session = sess /\ disk'.tracker = disk.tracker
      /\ disk'.active = disk.active /\ disk'.next = disk.next
  BY <1>2 DEF IInv, TypeOK, RoleStates
<1>4. TypeOK'
  BY <1>2, <1>3 DEF IInv, TypeOK, Stages, Steps
<1>5. ((Whole \/ Torn) /\ Consistent /\ IdsDrawn /\ ActiveShape)'
  BY <1>2, <1>3 DEF IInv, Whole, Torn, Consistent, IdsDrawn, ActiveShape, ActiveIsWrap,
         HasActive
<1>6. stage = "session" => stage' = "initial"
  BY <1>2
<1>7. (ProcessShape /\ NeverRaises)'
  BY <1>1, <1>2, <1>3 DEF IInv, ProcessShape, NeverRaises, Loaded, SessionKept,
         AfterRecover, Stages, Whole, ActiveIsWrap, HasActive
<1>8. QED
  BY <1>4, <1>5, <1>7 DEF IInv

-----------------------------------------------------------------------------
(***************************************************************************)
(* run_phase.                                                              *)
(***************************************************************************)
\* What holds whenever a query is being run.
LEMMA InQuery ==
  ASSUME IInv, step \in {"query", "stream", "persist"}
  PROVE  /\ Whole /\ HasActive(disk) /\ tracker.spent >= disk.tracker.spent
         /\ stage \in {"initial", "recover", "loop", "critiqued", "wrap"}
         /\ disk \in RoleStates /\ tracker \in Trackers /\ Restorable(tracker)
  BY DEF IInv, TypeOK, Consistent, ProcessShape, Loaded, Stages

LEMMA QueryIInv == ASSUME IInv, Query PROVE IInv'
<1>1. /\ step = "query" /\ step' = "stream" /\ asked' = asked \cup {sess}
      /\ interrupted' = FALSE /\ fresh' = FALSE
      /\ UNCHANGED <<disk, files, uuid, kills, stage, sess, tracker, rounds, streak>>
  BY DEF Query, durable
<1>2. TypeOK'
  BY <1>1 DEF IInv, TypeOK, Steps
<1>3. ((Whole \/ Torn) /\ Consistent /\ IdsDrawn /\ ActiveShape)'
  BY <1>1 DEF IInv, Whole, Torn, Consistent, IdsDrawn, ActiveShape, ActiveIsWrap
<1>4. (ProcessShape /\ NeverRaises)'
  BY <1>1, InQuery DEF IInv, ProcessShape, NeverRaises, Whole, ActiveIsWrap
<1>5. QED
  BY <1>2, <1>3, <1>4 DEF IInv

LEMMA ChargeMessageIInv == ASSUME IInv, ChargeMessage PROVE IInv'
<1>1. PICK d \in Deltas : tracker' = Charge(tracker, d)
  BY DEF ChargeMessage
<1>2. /\ step = "stream" /\ step' = "persist" /\ fresh' = TRUE
      /\ UNCHANGED <<disk, files, uuid, asked, kills, stage, sess, interrupted, rounds,
                     streak>>
  BY DEF ChargeMessage, durable
<1>3. d \in Nat
  BY ControllerAssumption
<1>4. tracker' \in Trackers /\ Restorable(tracker') /\ tracker'.spent >= tracker.spent
  BY <1>1, <1>2, <1>3, InQuery, TrackerOps
<1>5. tracker'.spent >= disk.tracker.spent
  BY <1>2, <1>4, InQuery DEF Trackers, RoleStates
<1>6. TypeOK'
  BY <1>2, <1>4 DEF IInv, TypeOK, Steps
<1>7. ((Whole \/ Torn) /\ Consistent /\ IdsDrawn /\ ActiveShape)'
  BY <1>2, <1>4 DEF IInv, Whole, Torn, Consistent, IdsDrawn, ActiveShape, ActiveIsWrap
<1>8. (ProcessShape /\ NeverRaises)'
  BY <1>2, <1>5, InQuery DEF IInv, ProcessShape, NeverRaises, Whole, ActiveIsWrap
<1>9. QED
  BY <1>6, <1>7, <1>8 DEF IInv

LEMMA PersistProgressIInv == ASSUME IInv, PersistProgress PROVE IInv'
<1>1. /\ step = "persist" /\ step' = "stream" /\ interrupted' \in BOOLEAN
      /\ disk' = [disk EXCEPT !.tracker = tracker, !.session = sess]
      /\ UNCHANGED <<files, uuid, asked, kills, stage, sess, tracker, fresh, rounds, streak>>
  BY DEF PersistProgress, SaveProgressIn, IInv, TypeOK
<1>2. /\ disk' \in RoleStates /\ disk'.session = sess /\ disk'.tracker = tracker
      /\ disk'.active = disk.active /\ disk'.next = disk.next
  BY <1>1 DEF IInv, TypeOK, RoleStates
<1>3. TypeOK'
  BY <1>1, <1>2 DEF IInv, TypeOK, Steps
<1>4. (Whole /\ Consistent /\ IdsDrawn)'
  BY <1>1, <1>2, InQuery DEF IInv, Whole, Consistent, IdsDrawn, HasActive
<1>5. ActiveShape'
  BY <1>1, <1>2, InQuery, BudgetAssumption
     DEF IInv, ActiveShape, ActiveIsWrap, HasActive, SoftExhausted, SoftLimit, RoleStates,
         Trackers
<1>6. (ProcessShape /\ NeverRaises)'
  BY <1>1, <1>2, <1>4, InQuery
     DEF IInv, ProcessShape, NeverRaises, ActiveIsWrap, HasActive, Trackers
<1>7. QED
  BY <1>3, <1>4, <1>5, <1>6 DEF IInv

LEMMA FinishQueryIInv == ASSUME IInv, FinishQuery PROVE IInv'
<1>1. PICK u \in TrueUps, noGap \in Verdicts :
        /\ tracker' = FinishPhase(tracker, tracker.streamed + u)
        /\ files' = WritePhaseFile(files, disk, tracker', interrupted, noGap)
  BY DEF FinishQuery
<1>2. /\ step = "stream" /\ step' = "commit"
      /\ UNCHANGED <<disk, uuid, asked, kills, stage, sess, interrupted, fresh, rounds, streak>>
  BY DEF FinishQuery
<1>3. noGap \in BOOLEAN /\ interrupted \in BOOLEAN
  BY DEF Verdicts, IInv, TypeOK
<1>4. tracker.streamed + u \in Nat
  BY <1>2, InQuery, ControllerAssumption DEF Trackers
<1>5. /\ tracker' \in Trackers /\ Restorable(tracker') /\ tracker'.streamed = 0
      /\ tracker'.spent >= tracker.spent
  BY <1>1, <1>2, <1>4, InQuery, TrackerOps
<1>6. tracker'.spent >= disk.tracker.spent
  BY <1>2, <1>5, InQuery DEF Trackers, RoleStates
<1>7. /\ Torn' /\ files'[disk.next].tracker = tracker'
      /\ DOMAIN files' \subseteq Nat
      /\ \A i \in DOMAIN files' : files'[i] \in PhaseFiles
      /\ \A i \in DOMAIN files' : Restorable(files'[i].tracker)
      /\ IdsDrawn' /\ ActiveShape'
  BY <1>1, <1>2, <1>3, <1>5, <1>6, InQuery, WriteTears
<1>8. TypeOK'
  BY <1>2, <1>5, <1>7 DEF IInv, TypeOK, Steps
<1>9. Consistent'
  BY <1>2, <1>5, <1>7 DEF IInv, Consistent
<1>10. (ProcessShape /\ NeverRaises)'
  BY <1>2, <1>7, InQuery DEF IInv, ProcessShape, NeverRaises, ActiveIsWrap, HasActive
<1>11. QED
  BY <1>7, <1>8, <1>9, <1>10 DEF IInv

\* The second write of finish_phase makes the ledger whole again.
LEMMA CommitPhaseIInv == ASSUME IInv, CommitPhase PROVE IInv'
<1>1. /\ step = "commit" /\ step' = "idle"
      /\ disk' = [disk EXCEPT !.session = sess, !.tracker = tracker, !.active = NoActive,
                              !.next = disk.active.seq + 1]
      /\ UNCHANGED <<files, uuid, asked, kills, sess, tracker, interrupted, fresh, rounds>>
  BY DEF CommitPhase, FinishPhaseIn, GoTo
<1>2. /\ Torn /\ tracker = files[disk.next].tracker
      /\ stage \in {"initial", "recover", "loop", "critiqued", "wrap"}
      /\ disk.active.seq = disk.next /\ disk.next \in Nat /\ NoActive \in Actives
  BY <1>1 DEF IInv, ProcessShape, ActiveShape, TypeOK, RoleStates, NoActive, Actives
<1>3. /\ disk' \in RoleStates /\ disk'.session = sess /\ disk'.tracker = tracker
      /\ disk'.active = NoActive /\ disk'.next = disk.next + 1
  <2>1. disk.active.seq + 1 \in Nat
    BY <1>2
  <2> HIDE DEF NoActive
  <2>2. QED
    BY <1>1, <1>2, <2>1 DEF IInv, TypeOK, RoleStates
<1>4. streak' \in Nat
  BY DEF CommitPhase, IInv, TypeOK
<1>5. /\ stage' \in {"recover", "rebuild", "loop", "critiqued", "done"}
      /\ stage' \in {"loop", "critiqued"} => Refine
  BY <1>2 DEF CommitPhase, GoTo, IInv, ProcessShape
<1>6. TypeOK'
  BY <1>1, <1>3, <1>4, <1>5 DEF IInv, TypeOK, Stages, Steps
<1>7. Whole'
  BY <1>1, <1>2, <1>3 DEF Torn, Whole, HasActive, NoActive
<1>8. (Consistent /\ IdsDrawn)'
  BY <1>1, <1>2, <1>3 DEF IInv, Consistent, IdsDrawn, HasActive, NoActive, TypeOK
<1>9. ActiveShape'
  BY <1>2, <1>3 DEF ActiveShape, ActiveIsWrap, HasActive, NoActive
<1>10. (ProcessShape /\ NeverRaises)'
  <2>1. ~HasActive(disk)' /\ disk'.next > 0
    BY <1>2, <1>3 DEF HasActive, NoActive
  <2>2. tracker' = disk'.tracker /\ tracker'.spent >= disk'.tracker.spent
    <3>1. tracker' = disk'.tracker
      BY <1>1, <1>3
    <3>2. disk'.tracker.spent \in Nat
      BY <1>3 DEF RoleStates, Trackers
    <3>3. QED
      BY <3>1, <3>2
  <2>3. sess' = disk'.session
    BY <1>1, <1>3
  <2>4. QED
    BY <1>1, <1>5, <1>7, <2>1, <2>2, <2>3 DEF ProcessShape, NeverRaises
<1>11. QED
  BY <1>6, <1>7, <1>8, <1>9, <1>10 DEF IInv

-----------------------------------------------------------------------------
(***************************************************************************)
(* The controller.                                                         *)
(***************************************************************************)
\* Between phases the ledger is whole and the live tracker is the saved one.
LEMMA BetweenPhases ==
  ASSUME IInv, step = "idle", stage \in Loaded
  PROVE  /\ Whole /\ tracker = disk.tracker
         /\ disk \in RoleStates /\ tracker \in Trackers /\ disk.next \in Nat
  BY DEF IInv, TypeOK, ProcessShape, RoleStates

\* The saved ledger is empty exactly when nothing has been committed.
LEMMA EmptyLedger ==
  ASSUME IInv, Whole
  PROVE  DOMAIN files = {} <=> disk.next = 0
<1>1. disk.next \in Nat /\ DOMAIN files = 0..disk.next-1
  BY DEF Whole, IInv, TypeOK, RoleStates
<1>2. CASE disk.next = 0
  BY <1>1, <1>2
<1>3. CASE disk.next > 0
  <2>1. 0 \in DOMAIN files
    BY <1>1, <1>3
  <2>2. QED
    BY <1>3, <2>1
<1>4. QED
  BY <1>1, <1>2, <1>3

LEMMA CountsAreNat ==
  ASSUME IInv, Whole
  PROVE  CritiqueCount \in Nat /\ TrailingNoGap \in Nat
<1>1. IsFiniteSet(DOMAIN files)
  BY FS_Interval DEF Whole, IInv, TypeOK, RoleStates
<1>2. IsFiniteSet(CritiqueAt)
  BY <1>1, FS_Subset DEF CritiqueAt
<1>3. IsFiniteSet({i \in CritiqueAt : \A j \in CritiqueAt : j >= i => NoGapAt(j)})
  BY <1>2, FS_Subset
<1>4. QED
  BY <1>2, <1>3, FS_CardinalityType DEF CritiqueCount, TrailingNoGap

\* A move between control points that changes no file and no counter but the
\* rebuilt ones.
LEMMA ControlIInv ==
  ASSUME IInv, stage \in Loaded, NEW next \in Loaded \ {"open", "session", "wrap_session"},
         Control(next), rounds' \in Nat, streak' \in Nat,
         stage \in SessionKept,
         next \in AfterRecover \cup {"recover"} => disk.next > 0,
         next \in AfterRecover => ~HasActive(disk) \/ ActiveIsWrap,
         next \in {"loop", "critiqued"} => Refine,
         next \in {"wrap_open", "wrap"} =>
           ActiveIsWrap \/ (SoftExhausted(tracker) /\ ~Exhausted(tracker))
  PROVE  IInv'
<1>1. /\ step = "idle" /\ step' = "idle" /\ stage' = next
      /\ UNCHANGED <<disk, files, uuid, asked, kills, sess, tracker, interrupted, fresh>>
  BY DEF Control, GoTo, durable
<1>2. TypeOK'
  BY <1>1 DEF IInv, TypeOK, Loaded, Stages, Steps
<1>3. ((Whole \/ Torn) /\ Consistent /\ IdsDrawn /\ ActiveShape)'
  BY <1>1 DEF IInv, Whole, Torn, Consistent, IdsDrawn, ActiveShape, ActiveIsWrap
<1>4. Whole' /\ tracker' = disk'.tracker /\ tracker'.spent >= disk'.tracker.spent
  BY <1>1, BetweenPhases DEF Whole, RoleStates, Trackers
<1>5. sess' = disk'.session \/ disk'.session = NoSession
  BY <1>1 DEF IInv, ProcessShape
<1>6. (ProcessShape /\ NeverRaises)'
  BY <1>1, <1>4, <1>5
     DEF ProcessShape, NeverRaises, Loaded, SessionKept, Stages, ActiveIsWrap
<1>7. QED
  BY <1>2, <1>3, <1>6 DEF IInv

LEMMA InitialPhaseIInv == ASSUME IInv, InitialPhase PROVE IInv'
<1>1. stage = "initial" /\ "initial" \in Loaded /\ "initial" \in SessionKept
  BY DEF InitialPhase, Loaded, SessionKept, Stages
<1>2. rounds \in Nat /\ streak \in Nat
  BY DEF IInv, TypeOK
<1>3. InitialLabel \in Working /\ InitialLabel \in Labels /\ InitialLabel # "wrap_up"
  BY ControllerAssumption DEF Working, Labels
<1>4. CASE DOMAIN files = {} /\ EnterPhase(InitialLabel, SoftLimit) /\ UNCHANGED <<rounds, streak>>
  <2>1. step = "idle" /\ disk.next = 0
    BY <1>1, <1>4, BetweenPhases, EmptyLedger DEF EnterPhase
  <2>2. QED
    BY <1>1, <1>2, <1>3, <1>4, <2>1, EnterPhaseIInv
<1>5. CASE DOMAIN files = {} /\ PhaseRefused(InitialLabel, SoftLimit)
  <2>1. step = "idle" /\ disk.next = 0 /\ tracker = disk.tracker
    BY <1>1, <1>5, BetweenPhases, EmptyLedger DEF PhaseRefused
  <2>2. CASE ~HasActive(disk) /\ tracker.spent >= SoftLimit
    BY <2>1, <2>2, BudgetAssumption DEF IInv, ActiveShape, SoftLimit
  <2>3. CASE HasActive(disk) /\ disk.active.label # InitialLabel
    BY <2>1, <2>3 DEF IInv, ActiveShape
  <2>4. QED
    BY <1>5, <2>2, <2>3 DEF PhaseRefused
<1>6. CASE DOMAIN files # {} /\ Control("recover") /\ UNCHANGED <<rounds, streak>>
  <2>1. disk.next > 0
    BY <1>1, <1>6, BetweenPhases, EmptyLedger DEF Control
  <2>2. "recover" \in Loaded \ {"open", "session", "wrap_session"}
        /\ "recover" \notin AfterRecover /\ "recover" \notin {"wrap_open", "wrap"}
    BY DEF Loaded, Stages, AfterRecover
  <2>3. QED
    BY <1>1, <1>2, <1>6, <2>1, <2>2, ControlIInv
<1>7. QED
  BY <1>4, <1>5, <1>6 DEF InitialPhase

LEMMA RecoverPhaseIInv == ASSUME IInv, RecoverPhase PROVE IInv'
<1>1. /\ stage = "recover" /\ "recover" \in Loaded /\ "recover" \in SessionKept
      /\ rounds' \in Nat /\ streak' \in Nat
  BY DEF RecoverPhase, Loaded, SessionKept, Stages, IInv, TypeOK
<1>2. disk.next > 0
  BY <1>1 DEF IInv, ProcessShape
<1>3. CASE Refine /\ disk.active.label \in Working
  <2>1. EnterPhase(disk.active.label, disk.active.stop)
    BY <1>3 DEF RecoverPhase, Working
  <2>2. HasActive(disk) /\ disk.active.label \in Labels
    BY <1>3 DEF IInv, IdsDrawn, NoActive, Working, Labels
  <2>3. QED
    BY <1>1, <1>3, <2>1, <2>2, EnterPhaseIInv
<1>4. CASE ~(Refine /\ disk.active.label \in Working)
  <2>1. Control("rebuild")
    BY <1>4 DEF RecoverPhase, Working
  <2>2. ~HasActive(disk) \/ ActiveIsWrap
    BY <1>2, <1>4 DEF IInv, ActiveShape, ActiveIsWrap, Labels, Working
  <2>3. "rebuild" \in Loaded \ {"open", "session", "wrap_session"}
        /\ "rebuild" \notin {"wrap_open", "wrap"}
    BY DEF Loaded, Stages
  <2>4. QED
    BY <1>1, <1>2, <2>1, <2>2, <2>3, ControlIInv
<1>5. QED
  BY <1>3, <1>4

LEMMA RebuildProgressIInv == ASSUME IInv, RebuildProgress PROVE IInv'
<1> DEFINE next == IF Refine THEN "loop" ELSE "wrap_check"
<1>1. /\ stage = "rebuild" /\ step = "idle" /\ Control(next)
      /\ rounds' = CritiqueCount /\ streak' = TrailingNoGap
  BY DEF RebuildProgress, Control
<1>2. "rebuild" \in Loaded /\ "rebuild" \in SessionKept /\ "rebuild" \in AfterRecover
  BY DEF Loaded, SessionKept, AfterRecover, Stages
<1>3. rounds' \in Nat /\ streak' \in Nat
  BY <1>1, <1>2, BetweenPhases, CountsAreNat
<1>4. disk.next > 0 /\ (~HasActive(disk) \/ ActiveIsWrap)
  BY <1>1, <1>2 DEF IInv, ProcessShape
<1>5. next \in Loaded \ {"open", "session", "wrap_session"}
      /\ next \notin {"wrap_open", "wrap"}
  BY DEF Loaded, Stages
<1>6. QED
  BY <1>1, <1>2, <1>3, <1>4, <1>5, ControlIInv

\* In the loop the active phase, if any, is a wrap-up, and then the loop is over.
LEMMA LoopEntry ==
  ASSUME IInv, step = "idle", stage \in {"loop", "critiqued"}, ~SoftExhausted(tracker)
  PROVE  /\ ~HasActive(disk) /\ disk.next > 0 /\ tracker = disk.tracker
         /\ tracker.spent < SoftLimit /\ Refine
<1>1. stage \in Loaded /\ stage \in AfterRecover
  BY DEF Loaded, AfterRecover, Stages
<1>2. tracker = disk.tracker
  BY <1>1, BetweenPhases
<1>3. ~HasActive(disk) \/ ActiveIsWrap
  BY <1>1 DEF IInv, ProcessShape
<1>4. ~HasActive(disk)
  BY <1>2, <1>3 DEF IInv, ActiveShape
<1>5. tracker.spent < SoftLimit
  BY BudgetAssumption, <1>1, BetweenPhases DEF SoftExhausted, SoftLimit, Trackers
<1>6. disk.next > 0 /\ Refine
  BY <1>1 DEF IInv, ProcessShape
<1>7. QED
  BY <1>2, <1>4, <1>5, <1>6

LEMMA LeaveLoopIInv == ASSUME IInv, LeaveLoop \/ BreakAfterCritique PROVE IInv'
<1>1. /\ stage \in {"loop", "critiqued"} /\ step = "idle" /\ Control("wrap_check")
      /\ rounds' \in Nat /\ streak' \in Nat
  BY DEF LeaveLoop, BreakAfterCritique, Control, IInv, TypeOK
<1>2. stage \in Loaded /\ stage \in AfterRecover /\ stage \in SessionKept
  BY <1>1 DEF Loaded, AfterRecover, SessionKept, Stages
<1>3. disk.next > 0 /\ (~HasActive(disk) \/ ActiveIsWrap)
  BY <1>1, <1>2 DEF IInv, ProcessShape
<1>4. "wrap_check" \in Loaded \ {"open", "session", "wrap_session"}
      /\ "wrap_check" \notin {"wrap_open", "wrap"}
      /\ "wrap_check" \notin {"loop", "critiqued"}
  BY DEF Loaded, Stages
<1>5. QED
  BY <1>1, <1>2, <1>3, <1>4, ControlIInv

\* A critique or revision asked for inside the loop.
LEMMA LoopPhaseIInv ==
  ASSUME IInv, NEW label \in {"critique", "revise"},
         stage \in {"loop", "critiqued"}, ~SoftExhausted(tracker),
         \/ EnterPhase(label, SoftLimit) /\ rounds' \in Nat /\ streak' \in Nat
         \/ PhaseRefused(label, SoftLimit)
  PROVE  IInv'
<1>1. step = "idle" /\ label \in Labels /\ label \in Working /\ label # "wrap_up"
  BY DEF EnterPhase, PhaseRefused, Labels, Working
<1>2. /\ ~HasActive(disk) /\ disk.next > 0 /\ tracker = disk.tracker
      /\ tracker.spent < SoftLimit /\ Refine
  BY <1>1, LoopEntry
<1>3. tracker.spent \in Nat /\ SoftLimit \in Nat
  BY BudgetAssumption DEF IInv, TypeOK, Trackers, SoftLimit
<1>4. ~PhaseRefused(label, SoftLimit)
  BY <1>2, <1>3 DEF PhaseRefused
<1>5. disk.next # 0
  BY <1>2 DEF IInv, TypeOK, RoleStates
<1>6. QED
  BY <1>1, <1>2, <1>4, <1>5, EnterPhaseIInv

LEMMA StartCritiqueIInv == ASSUME IInv, StartCritique PROVE IInv'
<1>1. stage = "loop" /\ ~SoftExhausted(tracker)
  BY DEF StartCritique, LoopOver
<1>2. rounds + 1 \in Nat /\ streak \in Nat
  BY DEF IInv, TypeOK
<1>3. \/ EnterPhase("critique", SoftLimit) /\ rounds' \in Nat /\ streak' \in Nat
      \/ PhaseRefused("critique", SoftLimit)
  BY <1>2 DEF StartCritique
<1>4. QED
  BY <1>1, <1>3, LoopPhaseIInv

LEMMA StartReviseIInv == ASSUME IInv, StartRevise PROVE IInv'
<1>1. stage \in {"loop", "critiqued"} /\ ~SoftExhausted(tracker)
  BY DEF StartRevise, LoopOver
<1>2. \/ EnterPhase("revise", SoftLimit) /\ rounds' \in Nat /\ streak' \in Nat
      \/ PhaseRefused("revise", SoftLimit)
  BY DEF StartRevise, IInv, TypeOK
<1>3. QED
  BY <1>1, <1>2, LoopPhaseIInv

LEMMA WrapCheckIInv == ASSUME IInv, WrapCheck PROVE IInv'
<1> DEFINE next == IF WrapNeeded THEN "wrap_open" ELSE "done"
<1>1. stage = "wrap_check" /\ step = "idle" /\ Control(next)
      /\ rounds' \in Nat /\ streak' \in Nat
  BY DEF WrapCheck, Control, IInv, TypeOK
<1>2. stage \in Loaded /\ stage \in AfterRecover /\ stage \in SessionKept
  BY <1>1 DEF Loaded, AfterRecover, SessionKept, Stages
<1>3. disk.next > 0 /\ (~HasActive(disk) \/ ActiveIsWrap)
  BY <1>1, <1>2 DEF IInv, ProcessShape
<1>4. next \in Loaded \ {"open", "session", "wrap_session"}
      /\ next \notin {"loop", "critiqued"}
      /\ (next \in {"wrap_open", "wrap"} =>
            ActiveIsWrap \/ (SoftExhausted(tracker) /\ ~Exhausted(tracker)))
  BY DEF Loaded, Stages, WrapNeeded
<1>5. QED
  BY <1>1, <1>2, <1>3, <1>4, ControlIInv

LEMMA WrapPhaseIInv == ASSUME IInv, WrapPhase PROVE IInv'
<1>1. PICK stop : /\ stop = IF ActiveIsWrap THEN disk.active.stop ELSE Budget
                  /\ \/ EnterPhase("wrap_up", stop) /\ UNCHANGED <<rounds, streak>>
                     \/ PhaseRefused("wrap_up", stop)
  BY DEF WrapPhase
<1>2. stage = "wrap" /\ step = "idle" /\ "wrap_up" \in Labels
  BY <1>1 DEF WrapPhase, EnterPhase, PhaseRefused, Labels
<1>3. stage \in Loaded /\ stage \in AfterRecover
  BY <1>2 DEF Loaded, AfterRecover, Stages
<1>4. /\ ~HasActive(disk) \/ ActiveIsWrap
      /\ ActiveIsWrap \/ (SoftExhausted(tracker) /\ ~Exhausted(tracker))
      /\ disk.next > 0 /\ disk.next # 0
  BY <1>2, <1>3 DEF IInv, ProcessShape, TypeOK, RoleStates
<1>5. ActiveIsWrap => HasActive(disk)
  BY DEF ActiveIsWrap, IInv, IdsDrawn, NoActive
<1>6. ~PhaseRefused("wrap_up", stop)
  BY <1>1, <1>4, <1>5, BudgetAssumption
     DEF PhaseRefused, ActiveIsWrap, Exhausted, IInv, TypeOK, Trackers
<1>7. rounds \in Nat /\ streak \in Nat
  BY DEF IInv, TypeOK
<1>8. QED
  BY <1>1, <1>2, <1>4, <1>5, <1>6, <1>7, EnterPhaseIInv

-----------------------------------------------------------------------------
(***************************************************************************)
(* Kills, failures, and the theorems.                                      *)
(***************************************************************************)
LEMMA KillIInv == ASSUME IInv, Kill PROVE IInv'
<1>1. kills' \in 0..MaxKills
  BY ControllerAssumption DEF Kill, IInv, TypeOK
<1>2. QED
  BY <1>1, StoppedIInv DEF Kill, durable, IInv, TypeOK

LEMMA CallFailsIInv == ASSUME IInv, CallFails PROVE IInv'
<1>1. /\ step \in {"query", "stream"} /\ disk' = [disk EXCEPT !.session = sess]
      /\ Stopped("down") /\ UNCHANGED <<files, uuid, asked>>
      /\ kills' \in 0..MaxKills
  BY ControllerAssumption DEF CallFails, SaveSessionIn, IInv, TypeOK
<1>2. /\ disk' \in RoleStates /\ disk'.tracker = disk.tracker
      /\ disk'.active = disk.active /\ disk'.next = disk.next
  BY <1>1 DEF IInv, TypeOK, RoleStates
<1>3. TypeOK'
  BY <1>1, <1>2 DEF IInv, TypeOK, Stopped, GoTo, NoSession, NewTracker, Trackers, Stages,
         Steps
<1>4. Whole'
  BY <1>1, <1>2, InQuery DEF Whole, HasActive
<1>5. (Consistent /\ IdsDrawn /\ ActiveShape)'
  BY <1>1, <1>2 DEF IInv, Consistent, IdsDrawn, ActiveShape, ActiveIsWrap, HasActive,
         Stopped, NewTracker, Restorable
<1>6. (ProcessShape /\ NeverRaises)'
  BY <1>1 DEF ProcessShape, NeverRaises, Stopped, GoTo, Loaded, SessionKept, AfterRecover
<1>7. QED
  BY <1>3, <1>4, <1>5, <1>6 DEF IInv

LEMMA StepIInv == IInv /\ [Next]_vars => IInv'
<1> SUFFICES ASSUME IInv, [Next]_vars PROVE IInv'
  OBVIOUS
<1>1. CASE ProcessStep
  BY <1>1, StartIInv, LoadStateIInv, OpenSessionIInv, SaveSessionIInv, InitialPhaseIInv,
     RecoverPhaseIInv, RebuildProgressIInv, LeaveLoopIInv, StartCritiqueIInv,
     StartReviseIInv, WrapCheckIInv, WrapPhaseIInv, QueryIInv, ChargeMessageIInv,
     PersistProgressIInv, FinishQueryIInv, CommitPhaseIInv DEF ProcessStep
<1>2. CASE Kill
  BY <1>2, KillIInv
<1>3. CASE CallFails
  BY <1>3, CallFailsIInv
<1>4. CASE UNCHANGED vars
  BY <1>4 DEF vars, durable, process, IInv, TypeOK, Whole, Torn, Consistent, IdsDrawn,
              ActiveShape, ActiveIsWrap, ProcessShape, NeverRaises
<1>5. QED
  BY <1>1, <1>2, <1>3, <1>4 DEF Next, Finished

LEMMA Inductive == Spec => []IInv
<1>1. QED
  BY InitIInv, StepIInv, PTL DEF Spec

\* Every variable keeps its type, whatever the provider charges.
THEOREM TypeCorrect == Spec => []TypeOK
<1>1. IInv => TypeOK
  BY DEF IInv
<1>2. QED
  BY <1>1, Inductive, PTL

\* However often and wherever the process is killed, no start of it, and no
\* phase it asks for, is refused because of what an earlier one left on disk.
THEOREM AttemptNeverWedged == Spec => []NeverRaises
<1>1. IInv => NeverRaises
  BY DEF IInv
<1>2. QED
  BY <1>1, Inductive, PTL

-----------------------------------------------------------------------------
(***************************************************************************)
(* Action properties.                                                      *)
(***************************************************************************)
\* Reconciliation adopts the torn phase's own snapshot, which counts no less.
LEMMA ReconcileKeepsSpend ==
  ASSUME IInv
  PROVE  Reconcile(disk, files).tracker.spent >= disk.tracker.spent
<1>1. disk.tracker.spent \in Nat /\ disk \in RoleStates
  BY DEF IInv, TypeOK, RoleStates, Trackers
<1>2. CASE Whole
  BY <1>1, <1>2, ReadBack DEF Reconcile
<1>3. CASE Torn
  <2> DEFINE last == files[disk.next].tracker
  <2>1. Reconcile(disk, files) = [disk EXCEPT !.tracker = last, !.active = NoActive,
                                              !.next = disk.next + 1]
    BY <1>3, ReadBack DEF Reconcile
  <2>2. Reconcile(disk, files).tracker = last
    BY <1>1, <2>1 DEF RoleStates
  <2>3. QED
    BY <1>3, <2>2 DEF Torn
<1>4. QED
  BY <1>2, <1>3 DEF IInv

\* A phase entered from the controller saves the tracker it loaded.
LEMMA EnterKeepsSpend ==
  ASSUME IInv, NEW label, NEW stop, EnterPhase(label, stop), stage \in Loaded
  PROVE  disk'.tracker.spent >= disk.tracker.spent
<1>1. tracker = disk.tracker /\ disk.tracker.spent \in Nat /\ disk \in RoleStates
  BY BetweenPhases DEF EnterPhase, RoleStates, Trackers
<1>2. disk' = disk \/ disk' = BeginPhaseIn(disk, uuid + 1, label, stop, tracker)
  BY DEF EnterPhase, BeginNew, FinalizeKilled, ResumeKilled, durable
<1>3. disk'.tracker = disk.tracker
  BY <1>1, <1>2 DEF BeginPhaseIn, RoleStates
<1>4. QED
  BY <1>1, <1>3

LEMMA StepKeepsSpend ==
  ASSUME IInv, [Next]_vars
  PROVE  disk'.tracker.spent >= disk.tracker.spent
<1>1. disk.tracker.spent \in Nat /\ disk \in RoleStates
  BY DEF IInv, TypeOK, RoleStates, Trackers
<1>2. CASE UNCHANGED disk
  BY <1>1, <1>2
<1>3. CASE LoadState
  BY <1>1, <1>3, ReconcileKeepsSpend DEF LoadState, Raise, durable
<1>4. CASE SaveSession \/ CallFails
  <2>1. disk' = disk \/ disk' = SaveSessionIn(disk, sess)
    BY <1>4 DEF SaveSession, CallFails, Raise, durable
  <2>2. disk'.tracker = disk.tracker
    BY <1>1, <2>1 DEF SaveSessionIn, RoleStates
  <2>3. QED
    BY <1>1, <2>2
<1>5. CASE PersistProgress
  <2>1. disk'.tracker = tracker
    BY <1>1, <1>5 DEF PersistProgress, SaveProgressIn, RoleStates
  <2>2. QED
    BY <1>5, <2>1, InQuery DEF PersistProgress
<1>6. CASE CommitPhase
  <2>1. disk'.tracker = tracker
    BY <1>1, <1>6 DEF CommitPhase, FinishPhaseIn, RoleStates
  <2>2. Torn /\ tracker = files[disk.next].tracker
    BY <1>6 DEF CommitPhase, IInv, ProcessShape
  <2>3. QED
    BY <2>1, <2>2 DEF Torn
<1>7. CASE InitialPhase \/ RecoverPhase \/ StartCritique \/ StartRevise \/ WrapPhase
  <2>1. stage \in Loaded
    BY <1>7 DEF InitialPhase, RecoverPhase, StartCritique, StartRevise, WrapPhase, Loaded,
                Stages
  <2>2. \/ UNCHANGED disk
        \/ \E label, stop : EnterPhase(label, stop)
    BY <1>7 DEF InitialPhase, RecoverPhase, StartCritique, StartRevise, WrapPhase,
                PhaseRefused, Raise, Control, durable
  <2>3. QED
    BY <1>1, <2>1, <2>2, EnterKeepsSpend
<1>8. CASE \/ Start \/ OpenSession \/ RebuildProgress \/ LeaveLoop \/ BreakAfterCritique
           \/ WrapCheck \/ Query \/ ChargeMessage \/ FinishQuery \/ Kill \/ Finished
  BY <1>2, <1>8 DEF Start, OpenSession, RebuildProgress, LeaveLoop, BreakAfterCritique,
     WrapCheck, Query, ChargeMessage, FinishQuery, Kill, Finished, Control, durable, vars
<1>9. CASE UNCHANGED vars
  BY <1>2, <1>9 DEF vars, durable
<1>10. QED
  BY <1>3, <1>4, <1>5, <1>6, <1>7, <1>8, <1>9 DEF Next, ProcessStep

\* No kill, resume, reconciliation or phase boundary lowers the spend on disk.
THEOREM PaidSpendIsKept == Spec => DurableSpendNeverDrops
<1>1. IInv /\ [Next]_vars => [disk'.tracker.spent >= disk.tracker.spent]_vars
  BY StepKeepsSpend
<1>2. QED
  BY <1>1, Inductive, PTL DEF Spec, DurableSpendNeverDrops

\* A prompt about to be submitted is below its phase's cutoff.
QueryBelowCutoff == step = "query" => tracker.spent < disk.active.stop

LEMMA StepQueryBelowCutoff ==
  ASSUME IInv, QueryBelowCutoff, [Next]_vars
  PROVE  QueryBelowCutoff'
<1> SUFFICES ASSUME step' = "query" PROVE (tracker.spent < disk.active.stop)'
  BY DEF QueryBelowCutoff
<1>1. CASE step = "query"
  <2>1. UNCHANGED <<disk, tracker>>
    <3>1. CASE ProcessStep
      BY <1>1, <3>1 DEF ProcessStep, Start, LoadState, OpenSession, SaveSession,
         InitialPhase, RecoverPhase, RebuildProgress, LeaveLoop, StartCritique,
         StartRevise, BreakAfterCritique, WrapCheck, WrapPhase, Query, ChargeMessage,
         PersistProgress, FinishQuery, CommitPhase, EnterPhase, PhaseRefused, Control,
         GoTo, Raise, Stopped
    <3>2. CASE Kill \/ CallFails
      BY <3>2 DEF Kill, CallFails, Stopped, GoTo
    <3>3. CASE Finished \/ UNCHANGED vars
      BY <3>3 DEF Finished, vars, durable, process
    <3>4. QED
      BY <3>1, <3>2, <3>3 DEF Next
  <2>2. QED
    BY <1>1, <2>1 DEF QueryBelowCutoff
<1>2. CASE step # "query"
  <2>1. PICK label, stop : EnterPhase(label, stop) /\ (BeginNew(label, stop) \/ ResumeKilled(label))
    <3>1. CASE ProcessStep
      <4>1. InitialPhase \/ RecoverPhase \/ StartCritique \/ StartRevise \/ WrapPhase
        BY <1>2, <3>1 DEF ProcessStep, Start, LoadState, OpenSession, SaveSession,
           RebuildProgress, LeaveLoop, BreakAfterCritique, WrapCheck, Query,
           ChargeMessage, PersistProgress, FinishQuery, CommitPhase, Control, GoTo,
           Raise, Stopped
      <4>2. \E label, stop : EnterPhase(label, stop)
        BY <4>1 DEF InitialPhase, RecoverPhase, StartCritique, StartRevise, WrapPhase,
           PhaseRefused, Raise, Stopped, Control, GoTo
      <4>3. QED
        BY <4>2 DEF EnterPhase, FinalizeKilled
    <3>2. CASE Kill \/ CallFails
      BY <3>2 DEF Kill, CallFails, Stopped, GoTo
    <3>3. CASE Finished \/ UNCHANGED vars
      BY <1>2, <3>3 DEF Finished, vars, process
    <3>4. QED
      BY <3>1, <3>2, <3>3 DEF Next
  <2>2. CASE BeginNew(label, stop)
    <3>1. /\ disk' = [disk EXCEPT !.active = [id |-> uuid + 1, seq |-> disk.next,
                                              label |-> label, stop |-> stop],
                                  !.tracker = tracker]
          /\ tracker' = tracker /\ tracker.spent < stop
      BY <2>2 DEF BeginNew, BeginPhaseIn
    <3>2. disk'.active.stop = stop
      BY <3>1 DEF IInv, TypeOK, RoleStates
    <3>3. QED
      BY <3>1, <3>2
  <2>3. CASE ResumeKilled(label)
    BY <2>3 DEF ResumeKilled, durable
  <2>4. QED
    BY <2>1, <2>2, <2>3
<1>3. QED
  BY <1>1, <1>2

\* No prompt is submitted at or past the cutoff of its phase: a phase killed
\* there is closed from its saved progress.
THEOREM QueriesStayBelowCutoff == Spec => NoQueryPastCutoff
<1>1. Init => QueryBelowCutoff
  BY DEF Init, QueryBelowCutoff
<1>2. IInv /\ QueryBelowCutoff /\ [Next]_vars => QueryBelowCutoff'
  BY StepQueryBelowCutoff
<1>3. IInv /\ QueryBelowCutoff =>
        [step' = "stream" /\ step = "query" => disk.tracker.spent < disk.active.stop]_vars
  <2>1. SUFFICES ASSUME IInv, step = "query" PROVE tracker = disk.tracker
    BY DEF QueryBelowCutoff
  <2>2. QED
    BY <2>1 DEF IInv, ProcessShape, Loaded, Stages
<1>4. QED
  BY <1>1, <1>2, <1>3, Inductive, PTL DEF Spec, NoQueryPastCutoff

-----------------------------------------------------------------------------
(***************************************************************************)
(* What SequentialAttempt keeps beyond one process: one provider           *)
(* conversation, the spending windows of its phases, the progress a        *)
(* restarted controller rebuilds; and, from these, that it implements      *)
(* AttemptLedger, in which no process ever stops.                          *)
(***************************************************************************)
\* Every prompt has gone to the session state.json names, and the next will.
TranscriptShape ==
  /\ asked \subseteq {disk.session} \ {NoSession}
  /\ stage \in {"session", "wrap_session"} => sess # NoSession
  /\ stage \in SessionKept => sess = disk.session /\ sess # NoSession

\* The wrap-up's window, and the working phases'.
InWindow(label, spent) ==
  IF label = "wrap_up" THEN spent \in SoftLimit..Budget-1 ELSE spent < SoftLimit

\* The counted phases were begun in their windows, the active one too; no
\* phase follows a wrap-up.
WindowsOnDisk ==
  /\ PhaseWindows
  /\ ~HasActive(disk) => disk.tracker.spent = SpentBefore(disk.next)
  /\ HasActive(disk) =>
       /\ InWindow(disk.active.label, SpentBefore(disk.next))
       /\ \A i \in 0..disk.next-1 : files[i].label # "wrap_up"

\* No phase is about to be begun after a wrap-up either.
WindowShape ==
  /\ WindowsOnDisk
  /\ stage = "critiqued" /\ step = "idle" => ~HasWrapUp
  /\ stage \in {"wrap_open", "wrap_session", "wrap"} /\ step = "idle" =>
       ActiveIsWrap \/ ~HasWrapUp

\* The critiques that state.json has counted: all but a torn one.
Counted == CritiqueAt \ {disk.next}
CountedTail == {i \in Counted : \A j \in Counted : j >= i => NoGapAt(j)}

\* Inside the loop the counters are ahead of the counted critiques only by the
\* round of the critique being run.
CounterShape ==
  stage \in {"loop", "critiqued"} =>
    /\ streak = Cardinality(CountedTail)
    /\ rounds = Cardinality(Counted)
                  + (IF step # "idle" /\ disk.active.label = "critique" THEN 1 ELSE 0)
    /\ stage = "critiqued" /\ step # "idle" => disk.active.label = "revise"

HistoryInv == TranscriptShape /\ WindowShape /\ CounterShape

-----------------------------------------------------------------------------
(***************************************************************************)
(* What the steps of a process have in common.                             *)
(***************************************************************************)
\* The steps between two phases that read or write no file
ControlStep ==
  \/ RebuildProgress \/ LeaveLoop \/ BreakAfterCritique \/ WrapCheck
  \/ InitialPhase /\ stage' = "recover"
  \/ RecoverPhase /\ stage' = "rebuild"

\* The controller enters a phase.
PhaseEntered ==
  \E label \in Labels, stop \in Nat :
    /\ EnterPhase(label, stop)
    /\ \/ InitialPhase /\ label = InitialLabel /\ DOMAIN files = {}
       \/ RecoverPhase /\ HasActive(disk)
       \/ StartCritique /\ label = "critique"
       \/ StartRevise /\ label = "revise"
       \/ WrapPhase /\ label = "wrap_up" /\ (ActiveIsWrap \/ stop = Budget)

\* The stages a phase is run at
PhaseStages == {"initial", "recover", "loop", "critiqued", "wrap"}

\* A step of the controller moves on or enters a phase; it never raises.
LEMMA ControllerSteps ==
  ASSUME IInv, IInv',
         \/ InitialPhase \/ RecoverPhase \/ RebuildProgress \/ LeaveLoop \/ StartCritique
         \/ StartRevise \/ BreakAfterCritique \/ WrapCheck \/ WrapPhase
  PROVE  \/ /\ ControlStep
            /\ step = "idle" /\ step' = "idle"
            /\ UNCHANGED <<disk, files, uuid, asked, sess, tracker>>
         \/ /\ PhaseEntered
            /\ stage \in PhaseStages /\ stage' = stage
            /\ step = "idle" /\ step' # "idle"
            /\ UNCHANGED <<asked, sess>>
<1> USE BudgetAssumption, ControllerAssumption
<1>1. stage' # "raised"
  BY DEF IInv, NeverRaises
<1>2. ASSUME NEW label, NEW stop
      PROVE  ~PhaseRefused(label, stop)
  BY <1>1 DEF PhaseRefused, Raise, Stopped, GoTo
<1>3. /\ InitialLabel \in Labels /\ {"critique", "revise", "wrap_up"} \subseteq Labels
      /\ SoftLimit \in Nat /\ Budget \in Nat /\ disk.active.stop \in Nat
  BY DEF Labels, SoftLimit, IInv, TypeOK, RoleStates, Actives
<1>4. ASSUME NEW next, Control(next)
      PROVE  /\ step = "idle" /\ step' = "idle" /\ stage' = next
             /\ UNCHANGED <<disk, files, uuid, asked, sess, tracker>>
  BY <1>4 DEF Control, GoTo, durable
<1>5. ASSUME NEW label, NEW stop, EnterPhase(label, stop)
      PROVE  step = "idle" /\ step' # "idle" /\ stage' = stage /\ UNCHANGED <<asked, sess>>
  BY <1>5 DEF EnterPhase, BeginNew, FinalizeKilled, ResumeKilled
<1>6. CASE RebuildProgress \/ LeaveLoop \/ BreakAfterCritique \/ WrapCheck
  BY <1>4, <1>6 DEF RebuildProgress, LeaveLoop, BreakAfterCritique, WrapCheck, ControlStep
<1>7. CASE InitialPhase
  BY <1>2, <1>3, <1>4, <1>5, <1>7 DEF InitialPhase, ControlStep, PhaseEntered, PhaseStages
<1>8. CASE RecoverPhase
  <2>1. CASE Refine /\ disk.active.label \in {"solve", "critique", "revise"}
    <3>1. EnterPhase(disk.active.label, disk.active.stop) /\ stage = "recover"
      BY <1>8, <2>1 DEF RecoverPhase
    <3>2. disk.active.label \in Labels /\ HasActive(disk)
      BY <2>1 DEF Labels, IInv, IdsDrawn, NoActive
    <3> QED
      BY <1>3, <1>5, <1>8, <3>1, <3>2 DEF PhaseEntered, PhaseStages
  <2>2. CASE ~(Refine /\ disk.active.label \in {"solve", "critique", "revise"})
    BY <1>4, <1>8, <2>2 DEF RecoverPhase, ControlStep
  <2> QED
    BY <2>1, <2>2
<1>9. CASE StartCritique
  BY <1>2, <1>3, <1>5, <1>9 DEF StartCritique, PhaseEntered, PhaseStages
<1>10. CASE StartRevise
  BY <1>2, <1>3, <1>5, <1>10 DEF StartRevise, PhaseEntered, PhaseStages
<1>11. CASE WrapPhase
  BY <1>2, <1>3, <1>5, <1>11 DEF WrapPhase, PhaseEntered, PhaseStages
<1> QED
  BY <1>6, <1>7, <1>8, <1>9, <1>10, <1>11

\* Entering a phase begins it, closes it or resumes it, on a whole ledger.
LEMMA Entered ==
  ASSUME IInv, PhaseEntered
  PROVE  /\ Whole /\ step = "idle" /\ tracker = disk.tracker
         /\ disk'.session = disk.session
         /\ \E label \in Labels, stop \in Nat :
              BeginNew(label, stop) \/ FinalizeKilled(label) \/ ResumeKilled(label)
<1>1. PICK label \in Labels, stop \in Nat :
        /\ EnterPhase(label, stop)
        /\ InitialPhase \/ RecoverPhase \/ StartCritique \/ StartRevise \/ WrapPhase
  BY DEF PhaseEntered
<1>2. stage \in Loaded /\ step = "idle"
  BY <1>1 DEF InitialPhase, RecoverPhase, StartCritique, StartRevise, WrapPhase, Loaded,
              Stages, EnterPhase
<1>3. Whole /\ tracker = disk.tracker /\ disk \in RoleStates
  BY <1>2, BetweenPhases
<1>4. disk'.session = disk.session
  BY <1>1, <1>3 DEF EnterPhase, BeginNew, FinalizeKilled, ResumeKilled, BeginPhaseIn, durable,
                    RoleStates
<1> QED
  BY <1>1, <1>2, <1>3, <1>4 DEF EnterPhase

-----------------------------------------------------------------------------
(***************************************************************************)
(* One conversation.                                                       *)
(***************************************************************************)
\* Whatever a step does, the next prompt goes to the session on disk.
LEMMA StepTranscript ==
  ASSUME IInv, IInv', TranscriptShape, [Next]_vars
  PROVE  TranscriptShape'
<1>1. disk \in RoleStates /\ uuid \in Nat /\ stage' # "raised"
  BY DEF IInv, TypeOK, NeverRaises
<1>2. PhaseStages \subseteq SessionKept
  BY DEF PhaseStages, SessionKept, Loaded, Stages
<1>3. step # "idle" => stage \in PhaseStages
  BY DEF IInv, ProcessShape, PhaseStages
<1>4. CASE Start
  BY <1>4 DEF Start, GoTo, durable, TranscriptShape, SessionKept, Loaded
<1>5. CASE LoadState
  <2>1. disk' = Reconcile(disk, files) /\ stage' = "open" /\ UNCHANGED <<asked, sess>>
    BY <1>1, <1>5 DEF LoadState, Raise, Stopped, GoTo
  <2>2. disk'.session = disk.session
    BY <1>1, <2>1 DEF Reconcile, RoleStates
  <2> QED
    BY <2>1, <2>2 DEF TranscriptShape, SessionKept, Loaded
<1>6. CASE OpenSession
  <2>1. /\ stage' \in {"session", "wrap_session"} /\ UNCHANGED <<disk, asked>>
        /\ sess' # NoSession
    BY <1>1, <1>6 DEF OpenSession, GoTo, durable, NoSession
  <2> QED
    BY <2>1 DEF TranscriptShape, SessionKept
<1>7. CASE SaveSession
  <2>1. /\ SessionAccepted(disk, sess) /\ disk' = [disk EXCEPT !.session = sess]
        /\ stage \in {"session", "wrap_session"} /\ stage' \in {"initial", "wrap"}
        /\ UNCHANGED <<asked, sess>>
    BY <1>1, <1>7 DEF SaveSession, SaveSessionIn, Raise, Stopped, GoTo
  <2>2. disk'.session = sess
    BY <1>1, <2>1 DEF RoleStates
  <2> QED
    BY <2>1, <2>2 DEF TranscriptShape, SessionAccepted
<1>8. CASE \/ InitialPhase \/ RecoverPhase \/ RebuildProgress \/ LeaveLoop \/ StartCritique
           \/ StartRevise \/ BreakAfterCritique \/ WrapCheck \/ WrapPhase
  <2>1. stage \in SessionKept
    BY <1>8 DEF InitialPhase, RecoverPhase, RebuildProgress, LeaveLoop, StartCritique,
                StartRevise, BreakAfterCritique, WrapCheck, WrapPhase, SessionKept, Loaded,
                Stages
  <2>2. disk'.session = disk.session /\ UNCHANGED <<asked, sess>>
    BY <1>8, ControllerSteps, Entered
  <2>3. stage' \notin {"session", "wrap_session"}
    BY <1>8, ControllerSteps
       DEF ControlStep, Control, GoTo, RebuildProgress, LeaveLoop, BreakAfterCritique,
           WrapCheck, PhaseStages
  <2> QED
    BY <2>1, <2>2, <2>3 DEF TranscriptShape
<1>9. CASE Query \/ ChargeMessage \/ FinishQuery
  <2>1. /\ stage \in SessionKept /\ stage' = stage /\ UNCHANGED <<disk, sess>>
        /\ asked' \subseteq asked \cup {sess}
    BY <1>2, <1>3, <1>9 DEF Query, ChargeMessage, FinishQuery, durable
  <2> QED
    BY <2>1 DEF TranscriptShape
<1>10. CASE PersistProgress \/ CommitPhase
  <2>1. /\ stage \in SessionKept /\ stage \notin {"session", "wrap_session"}
        /\ UNCHANGED <<asked, sess>>
    BY <1>2, <1>3, <1>10 DEF PersistProgress, CommitPhase, PhaseStages
  <2>2. disk'.session = sess
    BY <1>1, <1>10 DEF PersistProgress, CommitPhase, SaveProgressIn, FinishPhaseIn, RoleStates
  <2>3. stage' \notin {"session", "wrap_session"}
    BY <1>3, <1>10 DEF PersistProgress, CommitPhase, GoTo, PhaseStages
  <2> QED
    BY <2>1, <2>2, <2>3 DEF TranscriptShape
<1>11. CASE Kill
  BY <1>11 DEF Kill, Stopped, GoTo, durable, TranscriptShape, SessionKept, Loaded
<1>12. CASE CallFails
  <2>1. /\ stage \in SessionKept /\ stage' = "down" /\ UNCHANGED asked
        /\ disk' = [disk EXCEPT !.session = sess]
    BY <1>2, <1>3, <1>12 DEF CallFails, Stopped, GoTo, SaveSessionIn
  <2>2. disk'.session = disk.session
    BY <1>1, <2>1 DEF TranscriptShape, RoleStates
  <2> QED
    BY <2>1, <2>2 DEF TranscriptShape, SessionKept, Loaded
<1>13. CASE UNCHANGED vars
  BY <1>13 DEF vars, durable, process, TranscriptShape
<1> QED
  BY <1>4, <1>5, <1>6, <1>7, <1>8, <1>9, <1>10, <1>11, <1>12, <1>13
     DEF Next, ProcessStep, Finished

-----------------------------------------------------------------------------
(***************************************************************************)
(* The windows of the phases.                                              *)
(***************************************************************************)
\* A record appended to the ledger changes nothing before it.
LEMMA Appended ==
  ASSUME IInv, Whole, HasActive(disk),
         NEW t, NEW exhausted, NEW noGap,
         files' = WritePhaseFile(files, disk, t, exhausted, noGap), disk' = disk
  PROVE  /\ disk.next \in Nat /\ DOMAIN files = 0..disk.next-1
         /\ DOMAIN files' = 0..disk.next
         /\ \A i \in DOMAIN files : files'[i] = files[i]
         /\ files'[disk.next].label = disk.active.label
         /\ files'[disk.next].tracker = t
         /\ \A i \in 0..disk.next : SpentBefore(i)' = SpentBefore(i)
<1>1. disk.next \in Nat /\ disk.active.seq = disk.next
  BY DEF IInv, TypeOK, RoleStates, ActiveShape
<1>2. DOMAIN files = 0..disk.next-1
  BY DEF Whole
<1>3. /\ DOMAIN files' = 0..disk.next
      /\ \A i \in DOMAIN files : files'[i] = files[i]
      /\ files'[disk.next].label = disk.active.label
      /\ files'[disk.next].tracker = t
  BY <1>1, <1>2 DEF WritePhaseFile
<1>4. ASSUME NEW i \in 0..disk.next
      PROVE  SpentBefore(i)' = SpentBefore(i)
  <2>1. i = 0 \/ i-1 \in DOMAIN files
    BY <1>1, <1>2
  <2> QED
    BY <1>3, <2>1 DEF SpentBefore
<1> QED
  BY <1>1, <1>2, <1>3, <1>4

\* A phase file keeps the window its phase was begun in.
LEMMA WriteWindows ==
  ASSUME IInv, Whole, HasActive(disk), WindowsOnDisk,
         NEW t, NEW exhausted, NEW noGap,
         files' = WritePhaseFile(files, disk, t, exhausted, noGap), disk' = disk
  PROVE  WindowsOnDisk'
<1>1. /\ disk.next \in Nat /\ DOMAIN files = 0..disk.next-1
      /\ DOMAIN files' = 0..disk.next
      /\ \A i \in DOMAIN files : files'[i] = files[i]
      /\ files'[disk.next].label = disk.active.label
      /\ \A i \in 0..disk.next : SpentBefore(i)' = SpentBefore(i)
  BY Appended
<1>2. /\ PhaseWindows
      /\ InWindow(disk.active.label, SpentBefore(disk.next))
      /\ \A i \in 0..disk.next-1 : files[i].label # "wrap_up"
  BY DEF WindowsOnDisk
<1>3. \A i \in 0..disk.next-1 : files'[i].label # "wrap_up"
  BY <1>1, <1>2
<1>4. ASSUME NEW i \in DOMAIN files'
      PROVE  IF files'[i].label = "wrap_up"
             THEN /\ SpentBefore(i)' \in SoftLimit..Budget-1
                  /\ \A j \in DOMAIN files' : j <= i
             ELSE SpentBefore(i)' < SoftLimit
  <2>1. CASE i = disk.next
    BY <1>1, <1>2, <2>1 DEF InWindow
  <2>2. CASE i # disk.next
    <3>1. i \in 0..disk.next-1 /\ i \in DOMAIN files
      BY <1>1, <2>2
    <3>2. SpentBefore(i) < SoftLimit
      BY <1>2, <3>1 DEF PhaseWindows
    <3> QED
      BY <1>1, <1>3, <3>1, <3>2
  <2> QED
    BY <2>1, <2>2
<1>5. PhaseWindows'
  BY <1>4 DEF PhaseWindows, SoftLimit
<1>6. HasActive(disk)' /\ disk'.next = disk.next /\ disk'.active = disk.active
  OBVIOUS
<1>7. InWindow(disk.active.label, SpentBefore(disk.next))'
  BY <1>1, <1>2 DEF InWindow, SoftLimit
<1> QED
  BY <1>3, <1>5, <1>6, <1>7 DEF WindowsOnDisk

\* What is on disk decides, and of state.json only the active phase, the number
\* of the next one and, between phases, the spend.
LEMMA SameWindows ==
  ASSUME WindowsOnDisk, files' = files, disk'.active = disk.active, disk'.next = disk.next,
         HasActive(disk) \/ disk'.tracker = disk.tracker
  PROVE  WindowsOnDisk'
<1>1. HasActive(disk)' = HasActive(disk)
  BY DEF HasActive
<1>2. PhaseWindows' /\ SpentBefore(disk.next)' = SpentBefore(disk.next)
  BY DEF WindowsOnDisk, PhaseWindows, SpentBefore, SoftLimit
<1> QED
  BY <1>1, <1>2 DEF WindowsOnDisk, InWindow, SoftLimit

\* Closing a torn boundary, at once or on the next start, keeps the windows.
LEMMA CloseWindows ==
  ASSUME IInv, Torn, WindowsOnDisk, files' = files,
         disk'.active = NoActive, disk'.next = disk.next + 1,
         disk'.tracker = files[disk.next].tracker
  PROVE  WindowsOnDisk'
<1>1. disk.next \in Nat
  BY DEF IInv, TypeOK, RoleStates
<1>2. ~HasActive(disk)'
  BY DEF HasActive, NoActive
<1>3. PhaseWindows'
  BY DEF WindowsOnDisk, PhaseWindows, SpentBefore, SoftLimit
<1>4. SpentBefore(disk.next)' = files[disk.next].tracker.spent
  BY <1>1 DEF SpentBefore
<1> QED
  BY <1>2, <1>3, <1>4 DEF WindowsOnDisk

\* Where the controller begins a phase the rules of its window hold, and no
\* wrap-up has been committed.
LEMMA BeginInWindow ==
  ASSUME IInv, WindowShape, NEW label \in Labels, NEW stop \in Nat,
         BeginNew(label, stop), EnterPhase(label, stop),
         \/ InitialPhase /\ label = InitialLabel /\ DOMAIN files = {}
         \/ RecoverPhase /\ HasActive(disk)
         \/ StartCritique /\ label = "critique"
         \/ StartRevise /\ label = "revise"
         \/ WrapPhase /\ label = "wrap_up" /\ (ActiveIsWrap \/ stop = Budget)
  PROVE  InWindow(label, tracker.spent) /\ ~HasWrapUp
<1> USE BudgetAssumption, ControllerAssumption
<1>1. /\ step = "idle" /\ ~HasActive(disk) /\ tracker.spent < stop
  BY DEF BeginNew, EnterPhase
<1>2. disk.active = NoActive /\ ~ActiveIsWrap
  BY <1>1 DEF IInv, IdsDrawn, ActiveIsWrap, NoActive
<1>3. stage \in Loaded
  BY DEF InitialPhase, RecoverPhase, StartCritique, StartRevise, WrapPhase, Loaded, Stages
<1>4. /\ Whole /\ tracker = disk.tracker /\ tracker.spent \in Nat
      /\ SoftLimit \in Nat /\ SoftLimit > 0 /\ Budget \in Nat
  BY <1>1, <1>3, BetweenPhases DEF SoftLimit, Trackers
<1>5. CASE InitialPhase /\ label = InitialLabel /\ DOMAIN files = {}
  <2>1. disk.next = 0
    BY <1>4, <1>5, EmptyLedger
  <2>2. tracker.spent = 0
    BY <1>1, <1>4, <2>1 DEF IInv, ActiveShape
  <2> QED
    BY <1>4, <1>5, <2>2 DEF InWindow, HasWrapUp
<1>6. CASE StartCritique /\ label = "critique"
  BY <1>4, <1>6 DEF StartCritique, LoopOver, SoftExhausted, InWindow
<1>7. CASE StartRevise /\ label = "revise"
  <2>1. ~SoftExhausted(tracker)
    BY <1>7 DEF StartRevise, LoopOver
  <2>2. ~HasWrapUp
    BY <1>1, <1>7 DEF StartRevise, LoopOver, WindowShape
  <2> QED
    BY <1>4, <1>7, <2>1, <2>2 DEF SoftExhausted, InWindow
<1>8. CASE WrapPhase /\ label = "wrap_up" /\ (ActiveIsWrap \/ stop = Budget)
  <2>1. stage = "wrap" /\ stop = Budget
    BY <1>2, <1>8 DEF WrapPhase
  <2>2. SoftExhausted(tracker) /\ ~HasWrapUp
    BY <1>1, <1>2, <2>1 DEF IInv, ProcessShape, WindowShape
  <2> QED
    BY <1>1, <1>4, <1>8, <2>1, <2>2 DEF InWindow, SoftExhausted
<1> QED
  BY <1>1, <1>5, <1>6, <1>7, <1>8

\* What the controller begins, closes or resumes keeps the windows.
LEMMA EnteredWindows ==
  ASSUME IInv, WindowShape, PhaseEntered
  PROVE  WindowsOnDisk'
<1>1. PICK label \in Labels, stop \in Nat :
        /\ EnterPhase(label, stop)
        /\ \/ InitialPhase /\ label = InitialLabel /\ DOMAIN files = {}
           \/ RecoverPhase /\ HasActive(disk)
           \/ StartCritique /\ label = "critique"
           \/ StartRevise /\ label = "revise"
           \/ WrapPhase /\ label = "wrap_up" /\ (ActiveIsWrap \/ stop = Budget)
  BY DEF PhaseEntered
<1>2. Whole /\ tracker = disk.tracker /\ disk \in RoleStates /\ uuid \in Nat /\ disk.next \in Nat
  BY Entered DEF IInv, TypeOK, RoleStates
<1>3. WindowsOnDisk
  BY DEF WindowShape
<1>4. CASE BeginNew(label, stop)
  <2>1. InWindow(label, tracker.spent) /\ ~HasWrapUp
    BY <1>1, <1>4, BeginInWindow
  <2>2. /\ ~HasActive(disk) /\ files' = files
        /\ disk'.active.id = uuid + 1 /\ disk'.active.label = label
        /\ disk'.next = disk.next
    BY <1>2, <1>4 DEF BeginNew, BeginPhaseIn, RoleStates
  <2>3. HasActive(disk)'
    BY <1>2, <2>2 DEF HasActive
  <2>4. SpentBefore(disk.next)' = tracker.spent
    BY <1>2, <1>3, <2>2 DEF WindowsOnDisk, SpentBefore
  <2>5. InWindow(disk.active.label, SpentBefore(disk.next))'
    BY <2>1, <2>2, <2>4 DEF InWindow, SoftLimit
  <2>6. \A i \in 0..disk'.next-1 : files'[i].label # "wrap_up"
    BY <1>2, <2>1, <2>2 DEF HasWrapUp, Whole
  <2>7. PhaseWindows'
    BY <1>3, <2>2 DEF WindowsOnDisk, PhaseWindows, SpentBefore, SoftLimit
  <2> QED
    BY <2>3, <2>5, <2>6, <2>7 DEF WindowsOnDisk
<1>5. CASE FinalizeKilled(label)
  <2>1. HasActive(disk)
    BY <1>5 DEF FinalizeKilled, IInv, IdsDrawn, NoActive, Labels
  <2>2. PICK noGap \in Verdicts : files' = WritePhaseFile(files, disk, tracker', TRUE, noGap)
    BY <1>5 DEF FinalizeKilled
  <2>3. disk' = disk
    BY <1>5 DEF FinalizeKilled
  <2> QED
    BY <1>2, <1>3, <2>1, <2>2, <2>3, WriteWindows
<1>6. CASE ResumeKilled(label)
  BY <1>3, <1>6, SameWindows DEF ResumeKilled, durable
<1> QED
  BY <1>1, <1>4, <1>5, <1>6 DEF EnterPhase

\* Every step keeps the windows of the phases, and begins none after a wrap-up.
LEMMA StepWindows ==
  ASSUME IInv, IInv', WindowShape, [Next]_vars
  PROVE  WindowShape'
<1>1. /\ disk \in RoleStates /\ disk.next \in Nat /\ stage' # "raised"
      /\ WindowsOnDisk
  BY DEF IInv, TypeOK, NeverRaises, RoleStates, WindowShape
<1>2. step # "idle" => stage \in PhaseStages /\ HasActive(disk)
  BY DEF IInv, ProcessShape, PhaseStages
<1>3. CASE Start
  <2>1. WindowsOnDisk'
    BY <1>1, <1>3, SameWindows DEF Start, durable
  <2>2. stage' = "load"
    BY <1>3 DEF Start, GoTo
  <2> QED
    BY <2>1, <2>2 DEF WindowShape
<1>4. CASE LoadState
  <2>1. disk' = Reconcile(disk, files) /\ stage' = "open" /\ files' = files
    BY <1>1, <1>4 DEF LoadState, Raise, Stopped, GoTo
  <2>2. WindowsOnDisk'
    <3>1. CASE Whole
      <4>1. disk' = disk
        BY <2>1, <3>1, ReadBack DEF Reconcile
      <4> QED
        BY <1>1, <2>1, <4>1, SameWindows
    <3>2. CASE Torn
      <4>1. disk' = [disk EXCEPT !.tracker = files[disk.next].tracker, !.active = NoActive,
                                 !.next = disk.next + 1]
        BY <2>1, <3>2, ReadBack DEF Reconcile
      <4>2. /\ disk'.active = NoActive /\ disk'.next = disk.next + 1
            /\ disk'.tracker = files[disk.next].tracker
        BY <1>1, <4>1 DEF RoleStates
      <4> QED
        BY <1>1, <2>1, <3>2, <4>2, CloseWindows
    <3> QED
      BY <3>1, <3>2 DEF IInv
  <2> QED
    BY <2>1, <2>2 DEF WindowShape
<1>5. CASE OpenSession
  <2>1. disk' = disk /\ files' = files
    BY <1>5 DEF OpenSession, durable
  <2>2. WindowsOnDisk'
    BY <1>1, <2>1, SameWindows
  <2>3. \/ stage' = "session"
        \/ stage = "wrap_open" /\ stage' = "wrap_session" /\ step = "idle"
    BY <1>2, <1>5 DEF OpenSession, GoTo, PhaseStages
  <2> QED
    BY <2>1, <2>2, <2>3 DEF WindowShape, ActiveIsWrap, HasWrapUp
<1>6. CASE SaveSession
  <2>1. /\ disk' = [disk EXCEPT !.session = sess] /\ files' = files
        /\ \/ stage' = "initial"
           \/ stage = "wrap_session" /\ stage' = "wrap" /\ step = "idle"
    BY <1>1, <1>2, <1>6
       DEF SaveSession, SaveSessionIn, Raise, Stopped, GoTo, PhaseStages
  <2>2. disk'.active = disk.active /\ disk'.next = disk.next /\ disk'.tracker = disk.tracker
    BY <1>1, <2>1 DEF RoleStates
  <2>3. WindowsOnDisk'
    BY <1>1, <2>1, <2>2, SameWindows
  <2> QED
    BY <2>1, <2>2, <2>3 DEF WindowShape, ActiveIsWrap, HasWrapUp
<1>7. CASE \/ InitialPhase \/ RecoverPhase \/ RebuildProgress \/ LeaveLoop \/ StartCritique
           \/ StartRevise \/ BreakAfterCritique \/ WrapCheck \/ WrapPhase
  <2>1. CASE PhaseEntered /\ step' # "idle"
    BY <2>1, EnteredWindows DEF WindowShape
  <2>2. CASE ControlStep /\ UNCHANGED <<disk, files, tracker>>
    <3>1. WindowsOnDisk'
      BY <1>1, <2>2, SameWindows
    <3>2. \/ stage' \in {"recover", "rebuild", "loop", "wrap_check", "done"}
          \/ stage' = "wrap_open" /\ WrapNeeded
      BY <2>2 DEF ControlStep, Control, GoTo, RebuildProgress, LeaveLoop,
                  BreakAfterCritique, WrapCheck
    <3> QED
      BY <2>2, <3>1, <3>2 DEF WindowShape, WrapNeeded, ActiveIsWrap, HasWrapUp
  <2> QED
    BY <1>7, <2>1, <2>2, ControllerSteps
<1>8. CASE Query \/ ChargeMessage
  <2>1. disk' = disk /\ files' = files /\ step' # "idle"
    BY <1>8 DEF Query, ChargeMessage, durable
  <2> QED
    BY <1>1, <2>1, SameWindows DEF WindowShape
<1>9. CASE PersistProgress
  <2>1. /\ disk' = [disk EXCEPT !.tracker = tracker, !.session = sess]
        /\ files' = files /\ step' # "idle" /\ HasActive(disk)
    BY <1>2, <1>9 DEF PersistProgress, SaveProgressIn
  <2>2. disk'.active = disk.active /\ disk'.next = disk.next
    BY <1>1, <2>1 DEF RoleStates
  <2> QED
    BY <1>1, <2>1, <2>2, SameWindows DEF WindowShape
<1>10. CASE FinishQuery
  <2>1. Whole /\ HasActive(disk)
    BY <1>2, <1>10 DEF FinishQuery, IInv, ProcessShape, Loaded, Stages
  <2>2. PICK noGap : files' = WritePhaseFile(files, disk, tracker', interrupted, noGap)
    BY <1>10 DEF FinishQuery
  <2>3. disk' = disk /\ step' # "idle"
    BY <1>10 DEF FinishQuery
  <2>4. WindowsOnDisk'
    BY <1>1, <2>1, <2>2, <2>3, WriteWindows
  <2> QED
    BY <2>3, <2>4 DEF WindowShape
<1>11. CASE CommitPhase
  <2>1. /\ disk' = [disk EXCEPT !.session = sess, !.tracker = tracker, !.active = NoActive,
                                !.next = disk.active.seq + 1]
        /\ files' = files /\ step = "commit"
    BY <1>11 DEF CommitPhase, FinishPhaseIn
  <2>2. Torn /\ tracker = files[disk.next].tracker /\ disk.active.seq = disk.next
    BY <1>2, <2>1 DEF IInv, ProcessShape, ActiveShape
  <2>3. /\ disk'.active = NoActive /\ disk'.next = disk.next + 1
        /\ disk'.tracker = files[disk.next].tracker
    BY <1>1, <2>1, <2>2 DEF RoleStates
  <2>4. WindowsOnDisk'
    BY <1>1, <2>1, <2>2, <2>3, CloseWindows
  <2>5. stage' \notin {"wrap_open", "wrap_session", "wrap"}
    BY <1>2, <1>11, <2>1 DEF CommitPhase, GoTo, PhaseStages
  <2>6. stage' = "critiqued" => ~HasWrapUp'
    <3>1. SUFFICES ASSUME stage' = "critiqued", NEW i \in DOMAIN files
                   PROVE  files[i].label # "wrap_up"
      BY <2>1 DEF HasWrapUp
    <3>2. disk.active.label = "critique"
      BY <1>2, <1>11, <2>1, <3>1 DEF CommitPhase, GoTo, PhaseStages
    <3>3. i = disk.next \/ i \in 0..disk.next-1
      BY <1>1, <2>2 DEF Torn
    <3> QED
      BY <1>1, <2>2, <3>2, <3>3 DEF WindowsOnDisk, Torn
  <2> QED
    BY <2>4, <2>5, <2>6 DEF WindowShape
<1>12. CASE Kill
  BY <1>1, <1>12, SameWindows DEF Kill, Stopped, GoTo, durable, WindowShape
<1>13. CASE CallFails
  <2>1. disk' = [disk EXCEPT !.session = sess] /\ files' = files /\ stage' = "down"
    BY <1>13 DEF CallFails, SaveSessionIn, Stopped, GoTo
  <2>2. disk'.active = disk.active /\ disk'.next = disk.next /\ disk'.tracker = disk.tracker
    BY <1>1, <2>1 DEF RoleStates
  <2> QED
    BY <1>1, <2>1, <2>2, SameWindows DEF WindowShape
<1>14. CASE UNCHANGED vars
  BY <1>1, <1>14, SameWindows DEF vars, durable, process, WindowShape, ActiveIsWrap, HasWrapUp
<1> QED
  BY <1>3, <1>4, <1>5, <1>6, <1>7, <1>8, <1>9, <1>10, <1>11, <1>12, <1>13, <1>14
     DEF Next, ProcessStep, Finished

-----------------------------------------------------------------------------
(***************************************************************************)
(* The counters of the loop.                                               *)
(***************************************************************************)
\* On a whole ledger every critique is counted.
LEMMA WholeIsCounted ==
  ASSUME IInv, Whole
  PROVE  /\ Counted = CritiqueAt
         /\ CritiqueCount = Cardinality(Counted)
         /\ TrailingNoGap = Cardinality(CountedTail)
<1>1. disk.next \in Nat /\ disk.next \notin DOMAIN files
  BY DEF Whole, IInv, TypeOK, RoleStates
<1>2. Counted = CritiqueAt
  BY <1>1 DEF Counted, CritiqueAt
<1> QED
  BY <1>2 DEF CritiqueCount, TrailingNoGap, CountedTail

\* The counted critiques are finitely many, and so is their clean tail.
LEMMA CountedIsFinite ==
  ASSUME IInv
  PROVE  /\ IsFiniteSet(Counted) /\ IsFiniteSet(CountedTail)
         /\ disk.next \notin Counted /\ Counted \subseteq 0..disk.next-1
<1>1. disk.next \in Nat
  BY DEF IInv, TypeOK, RoleStates
<1>2. Counted \subseteq 0..disk.next-1
  BY <1>1 DEF IInv, Whole, Torn, Counted, CritiqueAt
<1>3. IsFiniteSet(Counted)
  <2>1. IsFiniteSet(0..disk.next-1)
    BY <1>1, FS_Interval
  <2> QED
    BY <1>2, <2>1, FS_Subset
<1>4. IsFiniteSet(CountedTail)
  BY <1>3, FS_Subset DEF CountedTail
<1> QED
  BY <1>1, <1>2, <1>3, <1>4

\* Counts depend on the files that state.json has counted.
LEMMA SameCounted ==
  ASSUME IInv, Counted' = Counted, \A i \in Counted : files'[i] = files[i]
  PROVE  CountedTail' = CountedTail
  BY DEF CountedTail, NoGapAt

\* Closing the boundary of a critique counts it, and extends the clean tail or
\* cuts it off.
LEMMA CountCritique ==
  ASSUME IInv, Torn, disk.active.label = "critique", files' = files,
         disk'.next = disk.next + 1
  PROVE  /\ Cardinality(Counted') = Cardinality(Counted) + 1
         /\ Cardinality(CountedTail') =
              IF NoGapAt(disk.next) THEN Cardinality(CountedTail) + 1 ELSE 0
<1>1. /\ disk.next \in Nat /\ DOMAIN files = 0..disk.next
      /\ files[disk.next].label = "critique"
  BY DEF IInv, TypeOK, RoleStates, Torn
<1>2. Counted' = Counted \cup {disk.next}
  BY <1>1 DEF Counted, CritiqueAt
<1>3. Cardinality(Counted') = Cardinality(Counted) + 1
  BY <1>2, CountedIsFinite, FS_AddElement
<1>4. \A i \in Counted : i < disk.next /\ i \in Nat
  BY <1>1, CountedIsFinite
<1>5. CASE NoGapAt(disk.next)
  <2>1. CountedTail' = CountedTail \cup {disk.next}
    BY <1>1, <1>2, <1>4, <1>5 DEF CountedTail, NoGapAt
  <2>2. disk.next \notin CountedTail
    BY <1>1, <1>4 DEF CountedTail
  <2> QED
    BY <1>3, <1>5, <2>1, <2>2, CountedIsFinite, FS_AddElement
<1>6. CASE ~NoGapAt(disk.next)
  <2>1. CountedTail' = {}
    BY <1>1, <1>2, <1>4, <1>6 DEF CountedTail, NoGapAt
  <2> QED
    BY <1>3, <1>6, <2>1, FS_EmptySet
<1> QED
  BY <1>5, <1>6

\* In the loop a critique adds a round when it starts and a verdict when it is
\* committed; nothing else moves the counters.
LEMMA StepCounters ==
  ASSUME IInv, IInv', CounterShape, [Next]_vars
  PROVE  CounterShape'
<1> SUFFICES ASSUME stage' \in {"loop", "critiqued"}
             PROVE  CounterShape'
  BY DEF CounterShape
<1>1. /\ disk \in RoleStates /\ disk.next \in Nat
      /\ rounds \in Nat /\ streak \in Nat
  BY DEF IInv, TypeOK, RoleStates
<1>2. step # "idle" => stage \in PhaseStages /\ HasActive(disk)
  BY DEF IInv, ProcessShape, PhaseStages
<1>3. CASE \/ Start \/ LoadState \/ OpenSession \/ SaveSession \/ Kill \/ CallFails
  BY <1>3 DEF Start, LoadState, OpenSession, SaveSession, Kill, CallFails, Raise, Stopped, GoTo
<1>4. ASSUME disk'.active = disk.active, disk'.next = disk.next, files' = files,
             UNCHANGED <<stage, rounds, streak>>, (step # "idle") <=> (step' # "idle")
      PROVE  CounterShape'
  <2>1. Counted' = Counted /\ CountedTail' = CountedTail
    BY <1>4 DEF Counted, CountedTail, CritiqueAt, NoGapAt
  <2> QED
    BY <1>4, <2>1 DEF CounterShape
<1>5. CASE RebuildProgress
  <2>1. /\ step' = "idle" /\ rounds' = CritiqueCount /\ streak' = TrailingNoGap
        /\ disk' = disk /\ files' = files /\ step = "idle" /\ stage = "rebuild"
    BY <1>5 DEF RebuildProgress, Control, GoTo, durable
  <2>2. Whole
    BY <2>1, BetweenPhases DEF Loaded, Stages
  <2>3. Counted' = Counted /\ CountedTail' = CountedTail
    BY <2>1 DEF Counted, CountedTail, CritiqueAt, NoGapAt
  <2>4. Cardinality(Counted) \in Nat
    BY CountedIsFinite, FS_CardinalityType
  <2> QED
    BY <2>1, <2>2, <2>3, <2>4, WholeIsCounted DEF CounterShape
<1>6. CASE \/ InitialPhase \/ RecoverPhase \/ LeaveLoop \/ BreakAfterCritique
           \/ WrapCheck \/ WrapPhase
  <2>1. ~ControlStep
    BY <1>6 DEF ControlStep, LeaveLoop, BreakAfterCritique, WrapCheck, InitialPhase,
                RecoverPhase, RebuildProgress, WrapPhase, Control, GoTo
  <2>2. stage' = stage
    BY <1>6, <2>1, ControllerSteps
  <2> QED
    BY <1>6, <2>1, <2>2, ControllerSteps
       DEF InitialPhase, RecoverPhase, WrapPhase, LeaveLoop, BreakAfterCritique, WrapCheck,
           Control, GoTo
<1>7. CASE StartCritique \/ StartRevise
  <2>1. /\ step = "idle" /\ step' # "idle" /\ stage' = stage /\ stage \in {"loop", "critiqued"}
    BY <1>7, ControllerSteps
       DEF ControlStep, StartCritique, StartRevise, RebuildProgress, LeaveLoop,
           BreakAfterCritique, WrapCheck, InitialPhase, RecoverPhase
  <2>2. ~HasActive(disk)
    BY <1>7, <2>1, LoopEntry DEF StartCritique, StartRevise, LoopOver
  <2>3. stage' # "raised"
    BY <2>1
  <2>4. PICK label : /\ BeginNew(label, SoftLimit)
                     /\ \/ label = "critique" /\ stage = "loop" /\ rounds' = rounds + 1
                        \/ label = "revise" /\ rounds' = rounds
                     /\ streak' = streak
    <3>1. ~FinalizeKilled("critique") /\ ~FinalizeKilled("revise")
          /\ ~ResumeKilled("critique") /\ ~ResumeKilled("revise")
      <4>1. disk.active.label = "none"
        BY <2>2 DEF IInv, IdsDrawn, NoActive
      <4> QED
        BY <4>1 DEF FinalizeKilled, ResumeKilled
    <3> QED
      BY <1>7, <2>3, <3>1
         DEF StartCritique, StartRevise, EnterPhase, PhaseRefused, Raise, Stopped, GoTo
  <2>5. /\ disk'.active.label = label /\ disk'.next = disk.next /\ files' = files
    BY <1>1, <2>4 DEF BeginNew, BeginPhaseIn, RoleStates
  <2>6. Counted' = Counted /\ CountedTail' = CountedTail
    BY <2>5 DEF Counted, CountedTail, CritiqueAt, NoGapAt
  <2>7. Cardinality(Counted) \in Nat
    BY CountedIsFinite, FS_CardinalityType
  <2> QED
    BY <2>1, <2>4, <2>5, <2>6, <2>7 DEF CounterShape
<1>8. CASE Query \/ ChargeMessage
  BY <1>4, <1>8 DEF Query, ChargeMessage, durable
<1>9. CASE PersistProgress
  <2>1. /\ disk' = [disk EXCEPT !.tracker = tracker, !.session = sess]
        /\ files' = files /\ step' # "idle" /\ step # "idle"
        /\ UNCHANGED <<stage, rounds, streak>>
    BY <1>9 DEF PersistProgress, SaveProgressIn
  <2>2. disk'.active = disk.active /\ disk'.next = disk.next
    BY <1>1, <2>1 DEF RoleStates
  <2> QED
    BY <1>4, <2>1, <2>2
<1>10. CASE FinishQuery
  <2>1. Whole /\ HasActive(disk)
    BY <1>2, <1>10 DEF FinishQuery, IInv, ProcessShape, Loaded, Stages
  <2>2. PICK noGap : files' = WritePhaseFile(files, disk, tracker', interrupted, noGap)
    BY <1>10 DEF FinishQuery
  <2>3. /\ disk' = disk /\ step # "idle" /\ step' # "idle"
        /\ UNCHANGED <<stage, rounds, streak>>
    BY <1>10 DEF FinishQuery
  <2>4. /\ DOMAIN files = 0..disk.next-1 /\ DOMAIN files' = 0..disk.next
        /\ \A i \in DOMAIN files : files'[i] = files[i]
    BY <2>1, <2>2, <2>3, Appended
  <2>5. Counted' = Counted
    BY <1>1, <2>3, <2>4 DEF Counted, CritiqueAt
  <2>6. CountedTail' = CountedTail
    BY <2>4, <2>5, SameCounted DEF Counted, CritiqueAt
  <2> QED
    BY <2>3, <2>5, <2>6 DEF CounterShape
<1>11. CASE CommitPhase
  <2>1. /\ disk' = [disk EXCEPT !.session = sess, !.tracker = tracker, !.active = NoActive,
                                !.next = disk.active.seq + 1]
        /\ files' = files /\ step = "commit" /\ step' = "idle"
        /\ rounds' = rounds
    BY <1>11 DEF CommitPhase, FinishPhaseIn, GoTo
  <2>2. Torn /\ disk.active.seq = disk.next
    BY <1>2, <2>1 DEF IInv, ProcessShape, ActiveShape
  <2>3. disk'.next = disk.next + 1
    BY <1>1, <2>1, <2>2 DEF RoleStates
  <2>4. stage \in {"loop", "critiqued"}
    BY <1>2, <1>11, <2>1 DEF CommitPhase, GoTo, PhaseStages
  <2>5. CASE disk.active.label = "critique"
    <3>1. stage = "loop"
      BY <2>1, <2>4, <2>5 DEF CounterShape
    <3>2. streak' = IF NoGapAt(disk.next) THEN streak + 1 ELSE 0
      BY <1>11, <2>2, <2>5, <3>1 DEF CommitPhase
    <3> QED
      BY <2>1, <2>2, <2>3, <2>4, <2>5, <3>2, CountCritique, CountedIsFinite,
         FS_CardinalityType DEF CounterShape
  <2>6. CASE disk.active.label # "critique"
    <3>1. streak' = streak
      BY <1>11, <2>6 DEF CommitPhase
    <3>2. Counted' = Counted
      BY <1>1, <2>1, <2>2, <2>3, <2>6 DEF Counted, CritiqueAt, Torn
    <3>3. CountedTail' = CountedTail
      BY <2>1, <3>2, SameCounted
    <3> QED
      BY <2>1, <2>4, <2>6, <3>1, <3>2, <3>3 DEF CounterShape
  <2> QED
    BY <2>5, <2>6
<1>12. CASE UNCHANGED vars
  BY <1>4, <1>12 DEF vars, durable, process
<1> QED
  BY <1>3, <1>5, <1>6, <1>7, <1>8, <1>9, <1>10, <1>11, <1>12
     DEF Next, ProcessStep, Finished

-----------------------------------------------------------------------------
(***************************************************************************)
(* The invariants.                                                         *)
(***************************************************************************)
LEMMA InitHistory == Init => HistoryInv
<1> SUFFICES ASSUME Init PROVE HistoryInv
  OBVIOUS
<1>1. TranscriptShape
  BY DEF Init, TranscriptShape, SessionKept, Loaded
<1>2. WindowShape
  BY DEF Init, WindowShape, WindowsOnDisk, PhaseWindows, SpentBefore, NewRole, NewTracker,
         NoActive, NoFiles, HasActive
<1>3. CounterShape
  BY DEF Init, CounterShape
<1> QED
  BY <1>1, <1>2, <1>3 DEF HistoryInv

LEMMA StepHistory == IInv /\ IInv' /\ HistoryInv /\ [Next]_vars => HistoryInv'
  BY StepTranscript, StepWindows, StepCounters DEF HistoryInv

LEMMA HistoryInductive == Spec => [](IInv /\ HistoryInv)
<1>1. IInv /\ HistoryInv /\ [Next]_vars => IInv' /\ HistoryInv'
  BY StepIInv, StepHistory
<1> QED
  BY <1>1, InitIInv, InitHistory, PTL DEF Spec

\* All prompts of an attempt go to one provider conversation, wherever it was
\* killed between drawing, saving and using the session UUID.
THEOREM OneConversation == Spec => []OneTranscript
<1>1. HistoryInv => OneTranscript
  BY DEF HistoryInv, TranscriptShape, OneTranscript
<1> QED
  BY <1>1, HistoryInductive, PTL

\* The wrap-up runs at most once, last, between the soft limit and the budget,
\* and no working phase is begun at or past the soft limit.
THEOREM WindowsAreKept == Spec => []PhaseWindows
<1>1. HistoryInv => PhaseWindows
  BY DEF HistoryInv, WindowShape, WindowsOnDisk
<1> QED
  BY <1>1, HistoryInductive, PTL

\* Between phases of the loop the counters are those of the phase files.
LEMMA CountersRebuilt == IInv /\ HistoryInv => ProgressRebuilt
<1> SUFFICES ASSUME IInv, HistoryInv, stage \in {"loop", "critiqued"}, step = "idle"
             PROVE  rounds = CritiqueCount /\ streak = TrailingNoGap
  BY DEF ProgressRebuilt
<1>1. Whole
  BY BetweenPhases DEF Loaded, Stages
<1>2. Cardinality(Counted) \in Nat
  BY CountedIsFinite, FS_CardinalityType
<1> QED
  BY <1>1, <1>2, WholeIsCounted DEF HistoryInv, CounterShape

\* The round count and the no-gap streak that a restarted controller rebuilds
\* are the ones the uninterrupted controller carries.
THEOREM ProgressIsRebuilt == Spec => []ProgressRebuilt
  BY CountersRebuilt, HistoryInductive, PTL

-----------------------------------------------------------------------------
(***************************************************************************)
(* The refinement: every step is a step of the ledger or invisible in it.  *)
(***************************************************************************)
\* The ledger as read through state.json: a torn boundary is a closed phase.
LEMMA LedgerRead ==
  ASSUME IInv
  PROVE  /\ Whole => OpenPhase = disk.active.label /\ Paid = disk.tracker.spent
         /\ Torn => OpenPhase = "none" /\ Paid = files[disk.next].tracker.spent
         /\ DOMAIN Committed = DOMAIN files
         /\ \A i \in DOMAIN files :
              /\ Committed[i].label = files[i].label
              /\ Committed[i].spent = files[i].tracker.spent
              /\ Committed[i].noGap = NoGapAt(i)
  BY ReadBack DEF OpenPhase, Paid, Committed

\* The same of the next state.
LEMMA LedgerReadNext ==
  (IInv => /\ Whole => OpenPhase = disk.active.label /\ Paid = disk.tracker.spent
           /\ Torn => OpenPhase = "none" /\ Paid = files[disk.next].tracker.spent)'
<1>1. IInv => /\ Whole => OpenPhase = disk.active.label /\ Paid = disk.tracker.spent
              /\ Torn => OpenPhase = "none" /\ Paid = files[disk.next].tracker.spent
  BY LedgerRead
<1> QED
  BY <1>1, PTL

\* AttemptLedger counts with the same Cardinality.
LEMMA LedgerCounts == \A S : Ledger!Cardinality(S) = Cardinality(S)
  BY DEF Ledger!Cardinality, Cardinality

\* A step that leaves the active phase, the spend and the files alone is not seen.
LEMMA Unseen ==
  ASSUME files' = files, disk'.active = disk.active, disk'.tracker = disk.tracker
  PROVE  UNCHANGED <<Committed, OpenPhase, Paid>>
<1>1. BoundaryTorn(disk, files)' = BoundaryTorn(disk, files)
  BY DEF BoundaryTorn, HasActive, LastFile, Recorded
<1> QED
  BY <1>1 DEF Committed, OpenPhase, Paid, NoGapAt, LastFile, Recorded

\* Closing a torn boundary is not seen: it counted as closed.
LEMMA CloseUnseen ==
  ASSUME IInv, IInv', Torn, files' = files, disk'.active = NoActive,
         disk'.tracker = files[disk.next].tracker
  PROVE  UNCHANGED <<Committed, OpenPhase, Paid>>
<1>1. ~BoundaryTorn(disk, files)'
  BY DEF BoundaryTorn, HasActive, NoActive
<1>2. OpenPhase' = "none" /\ Paid' = disk'.tracker.spent
  BY <1>1 DEF OpenPhase, Paid, NoActive
<1>3. Committed' = Committed
  BY DEF Committed, NoGapAt
<1> QED
  BY <1>2, <1>3, LedgerRead

\* The rules by which the controller begins a phase are those of the ledger.
LEMMA BeginOpens ==
  ASSUME IInv, IInv', HistoryInv, NEW label \in Labels, NEW stop \in Nat,
         BeginNew(label, stop), EnterPhase(label, stop),
         \/ InitialPhase /\ label = InitialLabel /\ DOMAIN files = {}
         \/ RecoverPhase /\ HasActive(disk)
         \/ StartCritique /\ label = "critique"
         \/ StartRevise /\ label = "revise"
         \/ WrapPhase /\ label = "wrap_up" /\ (ActiveIsWrap \/ stop = Budget)
  PROVE  Ledger!Open(label)
<1> USE BudgetAssumption, ControllerAssumption
<1>1. /\ step = "idle" /\ ~HasActive(disk) /\ files' = files
      /\ disk' = BeginPhaseIn(disk, uuid + 1, label, stop, tracker)
  BY DEF BeginNew, EnterPhase
<1>2. stage \in Loaded
  BY DEF InitialPhase, RecoverPhase, StartCritique, StartRevise, WrapPhase, Loaded, Stages
<1>3. /\ Whole /\ tracker = disk.tracker /\ disk \in RoleStates /\ disk.next \in Nat
      /\ tracker.spent \in Nat /\ Recorded(files) = disk.next
      /\ (disk.next > 0 => LastFile(files) = files[disk.next-1] /\ disk.next-1 \in DOMAIN files)
  BY <1>1, <1>2, BetweenPhases, RecordedIs DEF Whole, Trackers
<1>4. disk.active = NoActive /\ OpenPhase = "none" /\ Paid = tracker.spent
  BY <1>1, <1>3, LedgerRead DEF IInv, IdsDrawn, NoActive
<1>5. InWindow(label, tracker.spent) /\ ~HasWrapUp
  BY BeginInWindow DEF HistoryInv
<1>6. disk'.active.label = label /\ disk'.tracker = disk.tracker
  BY <1>1, <1>3 DEF BeginPhaseIn, RoleStates
<1>7. OpenPhase' = label /\ Paid' = Paid /\ Committed' = Committed
  <2>1. Whole'
    <3>1. ~Torn
      BY <1>3 DEF Torn, Whole
    <3>2. disk'.next = disk.next
      BY <1>1, <1>3 DEF BeginPhaseIn, RoleStates
    <3> QED
      BY <1>1, <1>3, <3>2 DEF IInv, Torn, Whole
  <2>2. OpenPhase' = disk'.active.label /\ Paid' = disk'.tracker.spent
    BY <2>1, LedgerReadNext
  <2> QED
    BY <1>1, <1>3, <1>4, <1>6, <2>2 DEF Committed, NoGapAt
<1>8. Ledger!Size = disk.next /\ (disk.next > 0 => Ledger!Last.label = LastFile(files).label)
  BY <1>3, LedgerRead, LedgerCounts DEF Ledger!Size, Ledger!Last, Recorded
<1>9. ~Ledger!Wrapped
  BY <1>5, LedgerRead DEF Ledger!Wrapped, HasWrapUp
<1>10. Ledger!Soft = SoftLimit
  BY DEF Ledger!Soft, SoftLimit
<1>11. Ledger!Critiques = CritiqueAt /\ Cardinality(Ledger!CleanTail) = TrailingNoGap
  <2>1. Ledger!Critiques = CritiqueAt
    BY LedgerRead DEF Ledger!Critiques, CritiqueAt
  <2>2. \A j \in CritiqueAt : Committed[j].noGap = NoGapAt(j)
    BY LedgerRead DEF CritiqueAt
  <2>3. Ledger!CleanTail = {i \in CritiqueAt : \A j \in CritiqueAt : j >= i => NoGapAt(j)}
    BY <2>1, <2>2 DEF Ledger!CleanTail
  <2> QED
    BY <2>1, <2>3 DEF TrailingNoGap
<1>12. ASSUME StartCritique \/ StartRevise
       PROVE  Ledger!Refining /\ disk.next > 0
  <2>1. stage \in {"loop", "critiqued"} /\ ~SelfConverged(rounds, streak) /\ ~SoftExhausted(tracker)
    BY <1>12 DEF StartCritique, StartRevise, LoopOver
  <2>2. disk.next > 0 /\ tracker.spent < SoftLimit /\ Refine
    BY <1>1, <2>1, LoopEntry
  <2>3. rounds = CritiqueCount /\ streak = TrailingNoGap
    BY <1>1, <2>1, CountersRebuilt DEF ProgressRebuilt
  <2>4. ~Ledger!Converged
    BY <1>11, <2>1, <2>3, LedgerCounts DEF Ledger!Converged, SelfConverged, CritiqueCount
  <2> QED
    BY <1>4, <1>9, <1>10, <2>2, <2>4 DEF Ledger!Refining
<1>13. Ledger!MayOpen(label)
  <2>1. CASE InitialPhase /\ label = InitialLabel /\ DOMAIN files = {}
    BY <1>3, <1>8, <2>1, EmptyLedger DEF Ledger!MayOpen
  <2>2. CASE StartCritique /\ label = "critique"
    BY <1>8, <1>12, <2>2 DEF Ledger!MayOpen, StartCritique
  <2>3. CASE StartRevise /\ label = "revise"
    BY <1>8, <1>12, <2>3 DEF Ledger!MayOpen, StartRevise
  <2>4. CASE WrapPhase /\ label = "wrap_up" /\ (ActiveIsWrap \/ stop = Budget)
    <3>1. disk.next > 0
      BY <1>1, <2>4 DEF WrapPhase, IInv, ProcessShape, AfterRecover
    <3>2. SoftLimit <= Paid /\ Paid < Budget
      BY <1>3, <1>4, <1>5, <2>4 DEF InWindow, SoftLimit
    <3> QED
      BY <1>8, <1>9, <1>10, <2>4, <3>1, <3>2 DEF Ledger!MayOpen
  <2> QED
    BY <1>1, <2>1, <2>2, <2>3, <2>4
<1> QED
  BY <1>4, <1>7, <1>13 DEF Ledger!Open

\* The first write of finish_phase commits the phase to the ledger.
LEMMA WriteCommits ==
  ASSUME IInv, IInv', Whole, HasActive(disk), Torn',
         NEW t, NEW exhausted, NEW noGap,
         files' = WritePhaseFile(files, disk, t, exhausted, noGap), disk' = disk
  PROVE  Ledger!Commit
<1>1. /\ disk.next \in Nat /\ DOMAIN files = 0..disk.next-1
      /\ DOMAIN files' = 0..disk.next
      /\ \A i \in DOMAIN files : files'[i] = files[i]
      /\ files'[disk.next].label = disk.active.label
  BY Appended
<1>2. /\ OpenPhase = disk.active.label /\ Paid = disk.tracker.spent
      /\ OpenPhase # "none"
  BY LedgerRead DEF IInv, ActiveShape, Labels
<1>3. OpenPhase' = "none" /\ Paid' = files'[disk.next].tracker.spent
  BY LedgerReadNext
<1>4. /\ DOMAIN Committed = DOMAIN files /\ DOMAIN Committed' = DOMAIN files'
      /\ \A i \in DOMAIN files : Committed'[i] = Committed[i]
      /\ Committed'[disk.next].label = files'[disk.next].label
      /\ Committed'[disk.next].spent = files'[disk.next].tracker.spent
  BY <1>1 DEF Committed, NoGapAt
<1>5. Ledger!Size = disk.next
  BY <1>1, <1>4, RecordedIs, LedgerCounts DEF Ledger!Size, Recorded
<1>6. DOMAIN Committed' = DOMAIN Committed \cup {disk.next}
  BY <1>1, <1>4
<1>7. Paid' >= Paid
  BY <1>2, <1>3 DEF Torn
<1> QED
  BY <1>1, <1>2, <1>3, <1>4, <1>5, <1>6, <1>7 DEF Ledger!Commit

\* A phase entered from the controller is opened, committed or still open.
LEMMA EnteredLedger ==
  ASSUME IInv, IInv', HistoryInv, PhaseEntered
  PROVE  [Ledger!Next]_(Ledger!vars)
<1>1. PICK label \in Labels, stop \in Nat :
        /\ EnterPhase(label, stop)
        /\ \/ InitialPhase /\ label = InitialLabel /\ DOMAIN files = {}
           \/ RecoverPhase /\ HasActive(disk)
           \/ StartCritique /\ label = "critique"
           \/ StartRevise /\ label = "revise"
           \/ WrapPhase /\ label = "wrap_up" /\ (ActiveIsWrap \/ stop = Budget)
  BY DEF PhaseEntered
<1>2. CASE BeginNew(label, stop)
  <2>1. Ledger!Open(label)
    BY <1>1, <1>2, BeginOpens
  <2> QED
    BY <2>1 DEF Ledger!Next, Labels
<1>3. CASE FinalizeKilled(label)
  <2>1. Whole /\ HasActive(disk) /\ disk' = disk
    <3>1. Whole
      BY Entered
    <3>2. disk.active.label \in Labels /\ disk' = disk
      BY <1>3 DEF FinalizeKilled
    <3> QED
      BY <3>1, <3>2 DEF IInv, IdsDrawn, NoActive, Labels
  <2>2. PICK noGap : files' = WritePhaseFile(files, disk, tracker', TRUE, noGap)
    BY <1>3 DEF FinalizeKilled
  <2>3. Torn'
    BY <1>3 DEF FinalizeKilled, IInv, ProcessShape
  <2> QED
    BY <2>1, <2>2, <2>3, WriteCommits DEF Ledger!Next
<1>4. CASE ResumeKilled(label)
  BY <1>4, Unseen DEF ResumeKilled, durable, Ledger!vars
<1> QED
  BY <1>1, <1>2, <1>3, <1>4 DEF EnterPhase

\* Every step of the attempt, kills included, is a step of its ledger or none.
LEMMA StepLedger ==
  ASSUME IInv, IInv', HistoryInv, [Next]_vars
  PROVE  [Ledger!Next]_(Ledger!vars)
<1>1. disk \in RoleStates /\ stage' # "raised"
  BY DEF IInv, TypeOK, NeverRaises
<1>2. step # "idle" => stage \in PhaseStages /\ HasActive(disk)
  BY DEF IInv, ProcessShape, PhaseStages
<1>3. CASE \/ Start \/ OpenSession \/ Query \/ ChargeMessage \/ Kill
  BY <1>3, Unseen DEF Start, OpenSession, Query, ChargeMessage, Kill, durable, Ledger!vars
<1>4. CASE LoadState
  <2>1. disk' = Reconcile(disk, files) /\ files' = files
    BY <1>1, <1>4 DEF LoadState, Raise, Stopped, GoTo
  <2>2. CASE Whole
    <3>1. disk' = disk
      BY <2>1, <2>2, ReadBack DEF Reconcile
    <3> QED
      BY <2>1, <3>1, Unseen DEF Ledger!vars
  <2>3. CASE Torn
    <3>1. disk' = [disk EXCEPT !.tracker = files[disk.next].tracker, !.active = NoActive,
                               !.next = disk.next + 1]
      BY <2>1, <2>3, ReadBack DEF Reconcile
    <3>2. disk'.active = NoActive /\ disk'.tracker = files[disk.next].tracker
      BY <1>1, <3>1 DEF RoleStates
    <3> QED
      BY <2>1, <2>3, <3>2, CloseUnseen DEF Ledger!vars
  <2> QED
    BY <2>2, <2>3 DEF IInv
<1>5. CASE SaveSession \/ CallFails
  <2>1. disk' = [disk EXCEPT !.session = sess] /\ files' = files
    BY <1>1, <1>5 DEF SaveSession, CallFails, SaveSessionIn, Raise, Stopped, GoTo
  <2>2. disk'.active = disk.active /\ disk'.tracker = disk.tracker
    BY <1>1, <2>1 DEF RoleStates
  <2> QED
    BY <2>1, <2>2, Unseen DEF Ledger!vars
<1>6. CASE \/ InitialPhase \/ RecoverPhase \/ RebuildProgress \/ LeaveLoop \/ StartCritique
           \/ StartRevise \/ BreakAfterCritique \/ WrapCheck \/ WrapPhase
  <2>1. UNCHANGED <<disk, files>> => UNCHANGED Ledger!vars
    BY Unseen DEF Ledger!vars
  <2> QED
    BY <1>6, <2>1, ControllerSteps, EnteredLedger
<1>7. CASE PersistProgress
  <2>1. /\ disk' = [disk EXCEPT !.tracker = tracker, !.session = sess]
        /\ files' = files /\ step' = "stream" /\ step = "persist"
    BY <1>7 DEF PersistProgress, SaveProgressIn
  <2>2. disk'.active = disk.active /\ disk'.tracker = tracker
    BY <1>1, <2>1 DEF RoleStates
  <2>3. /\ Whole /\ Whole' /\ tracker.spent >= disk.tracker.spent
        /\ tracker.spent \in Nat /\ disk.tracker.spent \in Nat
    BY <1>2, <1>7, <2>1
       DEF PersistProgress, IInv, ProcessShape, Loaded, Stages, TypeOK, RoleStates, Trackers
  <2>4. /\ OpenPhase = disk.active.label /\ Paid = disk.tracker.spent
        /\ OpenPhase' = disk.active.label /\ Paid' = tracker.spent
    BY <2>2, <2>3, LedgerRead, LedgerReadNext
  <2>5. OpenPhase # "none"
    BY <1>2, <2>1, <2>4 DEF IInv, ActiveShape, Labels
  <2>6. Committed' = Committed
    BY <2>1 DEF Committed, NoGapAt
  <2> QED
    BY <2>3, <2>4, <2>5, <2>6 DEF Ledger!Next, Ledger!Pay, Ledger!vars
<1>8. CASE FinishQuery
  <2>1. Whole /\ HasActive(disk) /\ disk' = disk /\ Torn'
    BY <1>2, <1>8 DEF FinishQuery, IInv, ProcessShape, Loaded, Stages
  <2>2. PICK noGap : files' = WritePhaseFile(files, disk, tracker', interrupted, noGap)
    BY <1>8 DEF FinishQuery
  <2> QED
    BY <2>1, <2>2, WriteCommits DEF Ledger!Next
<1>9. CASE CommitPhase
  <2>1. /\ disk' = [disk EXCEPT !.session = sess, !.tracker = tracker, !.active = NoActive,
                                !.next = disk.active.seq + 1]
        /\ files' = files /\ step = "commit"
    BY <1>9 DEF CommitPhase, FinishPhaseIn
  <2>2. Torn /\ tracker = files[disk.next].tracker
    BY <2>1 DEF IInv, ProcessShape
  <2>3. disk'.active = NoActive /\ disk'.tracker = files[disk.next].tracker
    BY <1>1, <2>1, <2>2 DEF RoleStates
  <2> QED
    BY <2>1, <2>2, <2>3, CloseUnseen DEF Ledger!vars
<1>10. CASE UNCHANGED vars
  BY <1>10, Unseen DEF vars, durable, Ledger!vars
<1> QED
  BY <1>3, <1>4, <1>5, <1>6, <1>7, <1>8, <1>9, <1>10 DEF Next, ProcessStep, Finished

LEMMA InitLedger == Init => Ledger!Init
<1> SUFFICES ASSUME Init PROVE Ledger!Init
  OBVIOUS
<1>1. DOMAIN Committed = {}
  BY DEF Init, NoFiles, Committed
<1>2. ~BoundaryTorn(disk, files)
  BY DEF Init, NewRole, NoActive, BoundaryTorn, HasActive
<1>3. OpenPhase = "none" /\ Paid = 0
  BY <1>2 DEF Init, NewRole, NoActive, NewTracker, OpenPhase, Paid
<1> QED
  BY <1>1, <1>3 DEF Ledger!Init

\* Killed and restarted at will, torn between its two files, the attempt is a
\* ledger of phases opened by the rules, paid for, and appended once, in order.
THEOREM ImplementsLedger == Spec => RefinesLedger
<1>1. IInv /\ IInv' /\ HistoryInv /\ [Next]_vars => [Ledger!Next]_(Ledger!vars)
  BY StepLedger
<1>2. Spec => [](IInv /\ HistoryInv)
  BY HistoryInductive
<1> QED
  BY <1>1, <1>2, InitLedger, PTL DEF Spec, RefinesLedger, Ledger!Spec
=============================================================================
