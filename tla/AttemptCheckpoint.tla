------------------------- MODULE AttemptCheckpoint -------------------------
(***************************************************************************)
(* What one checkpoint role keeps on disk, and how each operation of class *)
(* AttemptCheckpoint (src/checkpoint.py) changes it.                       *)
(*                                                                         *)
(*   st     the role's entry in state.json, replaced atomically by _save() *)
(*   files  the phase files, by sequence number                            *)
(*                                                                         *)
(* Every method but one ends in a single _save(), so it is one durable     *)
(* step.  finish_phase is the exception: it writes a phase file and then   *)
(* state.json, and a process killed in between leaves the two disagreeing  *)
(* until phases() repairs them on the next start.                          *)
(***************************************************************************)
EXTENDS BudgetTracker, FiniteSets

NoSession == 0      \* session_id None; provider session UUIDs are numbers

\* A role with no active phase.  Phase ids start at 1.
NoActive == [id |-> 0, seq |-> 0, label |-> "none", stop |-> 0]

Labels == {"solve", "critique", "revise", "wrap_up"}

Actives == [id: Nat, seq: Nat, label: Labels \cup {"none"}, stop: Nat]

RoleStates == [session: Nat, tracker: Trackers, active: Actives, next: Nat]

\* A phase file: the PhaseResult fields the controllers read back, and the
\* tracker snapshot stored beside them.
PhaseFiles == [id: Nat, label: Labels, tracker: Trackers,
               exhausted: BOOLEAN, noGap: BOOLEAN]

\* A missing tracker entry is created at zero the first time it is asked for,
\* so it is represented as zero from the start.
NewRole == [session |-> NoSession, tracker |-> NewTracker,
            active |-> NoActive, next |-> 0]

NoFiles == [i \in {} |-> NoActive]

HasActive(st) == st.active.id # 0

(***************************************************************************)
(* phases(): the files must be numbered 0..n-1; an active phase whose file *)
(* is already the last one is closed; then the counts must agree.          *)
(***************************************************************************)
Recorded(files) == Cardinality(DOMAIN files)      \* len(records)

Contiguous(files) == DOMAIN files = 0..Recorded(files)-1

LastFile(files) == files[Recorded(files)-1]

BoundaryTorn(st, files) ==
  /\ HasActive(st)
  /\ DOMAIN files # {}
  /\ LastFile(files).id = st.active.id

\* Faulty variant: closes the phase without counting its file.
ReconcileUncounted(st, files) ==
  IF BoundaryTorn(st, files)
  THEN [st EXCEPT !.tracker = LastFile(files).tracker, !.active = NoActive]
  ELSE st

Reconcile(st, files) ==
  IF BoundaryTorn(st, files)
  THEN [st EXCEPT !.tracker = LastFile(files).tracker,
                  !.active = NoActive,
                  !.next = Recorded(files)]
  ELSE st

LedgerAgrees(st, files) == st.next = Recorded(files)

(***************************************************************************)
(* The writes.                                                             *)
(***************************************************************************)
SessionAccepted(st, s) == st.session \in {NoSession, s}
\* Faulty variant: leaves the UUID to the next progress record.
SaveSessionLater(st, s) == st
SaveSessionIn(st, s) == [st EXCEPT !.session = s]

BeginPhaseIn(st, id, label, stop, t) ==
  [st EXCEPT !.active = [id |-> id, seq |-> st.next, label |-> label, stop |-> stop],
             !.tracker = t]

SaveProgressIn(st, t, s) == [st EXCEPT !.tracker = t, !.session = s]

\* Faulty variant: the active marker is cleared before the record is built.
WritePhaseFileAfterClear(files, st, t, exhausted, noGap) ==
  LET record == [id |-> st.active.id, label |-> NoActive.label, tracker |-> t,
                 exhausted |-> exhausted, noGap |-> noGap]
  IN  [i \in DOMAIN files \cup {st.active.seq} |->
         IF i = st.active.seq THEN record ELSE files[i]]

\* finish_phase, first write: the phase file at the active sequence number
WritePhaseFile(files, st, t, exhausted, noGap) ==
  LET record == [id |-> st.active.id, label |-> st.active.label, tracker |-> t,
                 exhausted |-> exhausted, noGap |-> noGap]
  IN  [i \in DOMAIN files \cup {st.active.seq} |->
         IF i = st.active.seq THEN record ELSE files[i]]

\* finish_phase, second write: state.json
FinishPhaseIn(st, t, s) ==
  [st EXCEPT !.session = s, !.tracker = t, !.active = NoActive,
             !.next = st.active.seq + 1]
=============================================================================
