---------------------------- MODULE PhaseStream ----------------------------
(***************************************************************************)
(* One conversation at the level of provider messages: run_phase reading   *)
(* the stream of a ResumableClaudeSession, envelope by envelope, while the  *)
(* CLI behind it may be rejected, lose its stream, be reopened on the same  *)
(* transcript, and replay what it streamed before (src/solver.py).         *)
(*                                                                         *)
(* A query is one prompt of a phase.  Its stream has one or more legs, one  *)
(* per CLI process.  The handler of an envelope holds no await before it    *)
(* has charged and saved, so it is one step, and the tracker in memory is   *)
(* always the one on disk.  A committed phase is one step here;             *)
(* SequentialAttempt has its two writes.                                    *)
(*                                                                         *)
(* Of a message only its id, its token count and the fact that its text is  *)
(* kept are modelled.                                                       *)
(***************************************************************************)
EXTENDS MessageTracker, Sequences

CONSTANTS
  Cost,        \* output tokens of each message
  MaxRetries,  \* TRANSPORT_RECOVERY_MAX_RETRIES
  MaxPhases,   \* bound on the phases of the conversation
  MaxKills,    \* bound on process kills
  MaxFaults    \* bound on provider failures of any kind

ASSUME StreamAssumption ==
  /\ Cost \in [Ids -> Nat \ {0}]
  /\ MaxRetries \in Nat /\ MaxPhases \in Nat /\ MaxKills \in Nat /\ MaxFaults \in Nat

VARIABLES
  tr,       \* the tracker, in memory and in state.json
  active,   \* state.json has an active phase
  phases,   \* committed phases: messages in the text, exhausted, `after`
  text,     \* messages whose text block is kept (saved in progress)
  residual, \* messages kept only as streamed text (saved in progress)
  at,       \* where the process is
  query,    \* run_phase: state of the running query
  leg,      \* run_phase and receive_response: state of the running leg
  resumed,  \* the CLI was opened by resume and has not answered since
  deferred, \* _deferred_recovery is set
  opened,   \* a session UUID has been saved
  made,     \* the provider's transcript holds messages 1..made
  heard,    \* largest count ever streamed for each message (history)
  asked,    \* submissions and quota rejections of this query (history)
  kills, faults

tracker == <<tr, active, phases>>
kept    == <<text, residual>>
bounds  == <<kills, faults>>
vars == <<tracker, kept, at, query, leg, resumed, deferred, opened, made, heard,
          asked, bounds>>

StopAt == SoftLimit     \* stop_at_tokens of a working phase

SumOf(f, S) == MapThenSumSet(LAMBDA m : f[m], S)
NoCount == [m \in Ids |-> 0]

\* A new leg: connection_known_before is what is known when it opens.
NewLeg == [known    |-> Known(tr),  \* ids known before this connection
           started  |-> {},         \* ids this connection has streamed
           own      |-> {},         \* messages it has generated (provider)
           observed |-> NoCount,    \* connection_observed_tokens
           output   |-> {},         \* connection_fresh_output_ids
           cut      |-> FALSE,      \* it is in interrupted_connections
           limited  |-> FALSE,      \* rate_limit_reset is set
           lost     |-> FALSE,      \* transport_failure is set
           spent    |-> FALSE,      \* spend_limited
           complete |-> FALSE,      \* completed_response
           fatal    |-> FALSE,      \* leg_saw_fatal_result
           done     |-> "none",     \* last Result with turns: "ok" or "error"
           tokens   |-> 0]          \* output_tokens of the Result that counts

NewQuery == [initial     |-> Known(tr),  \* phase_initial_message_ids
             current     |-> 0,          \* current_stream_id
             interrupted |-> FALSE,      \* the cutoff was reached
             results     |-> FALSE,      \* result_records is not empty
             retries     |-> 0,          \* transport_retries
             after       |-> made]       \* length of the transcript (history)

\* run_phase's locals outside a phase, and those of the session's last response
NoLeg   == [NewLeg EXCEPT !.known = {}]
NoQuery == [NewQuery EXCEPT !.initial = {}, !.after = 0]
NoAsk   == [prompts |-> 0, rejections |-> 0]
PhaseOver == leg' = NoLeg /\ query' = NoQuery /\ asked' = NoAsk

FreshIds == leg.started \ leg.known
\* the stream `current` belongs to this leg
Streaming == query.current \in leg.started

Init ==
  /\ tr = NewIdTracker /\ active = FALSE /\ phases = <<>>
  /\ text = {} /\ residual = {}
  /\ made = 0 /\ heard = NoCount
  /\ at = "down"
  /\ query = NoQuery /\ leg = NoLeg /\ asked = NoAsk
  /\ resumed = FALSE /\ deferred = FALSE /\ opened = FALSE
  /\ kills = 0 /\ faults = 0

Fault == faults < MaxFaults /\ faults' = faults + 1

-----------------------------------------------------------------------------
(***************************************************************************)
(* Envelopes.                                                              *)
(***************************************************************************)
\* Faulty variant: the interrupt is sent once per phase.
CutOnce(l) == l.cut \/ (~query.interrupted /\ tr'.count.spent >= StopAt)

\* interrupt_if_over_budget(), once per connection, with the new leg state l
Cut(l) == l.cut \/ tr'.count.spent >= StopAt
Interrupted(l) == query.interrupted \/ (~l.cut /\ tr'.count.spent >= StopAt)

\* The provider starts a message of its own: not before the counts of the
\* previous ones are out, and not after it has answered.
Generates(m) ==
  /\ m = made + 1 /\ m \in Ids
  /\ \A o \in leg.own : leg.observed[o] = Cost[o]
  /\ made' = m

\* A resumed CLI streams part of its transcript again before it answers.
Replays(m) ==
  /\ resumed /\ leg.own = {}
  /\ m \in 1..made
  /\ UNCHANGED made

\* message_start
MessageStart ==
  /\ at = "asked" /\ leg.done = "none"
  /\ \E m \in Ids \ leg.started :
       /\ Generates(m) \/ Replays(m)
       /\ tr' = Observe(tr, m)
       /\ leg' = [leg EXCEPT !.started = @ \cup {m},
                             !.own = IF made' = m /\ made < m THEN @ \cup {m} ELSE @,
                             !.cut = Cut(leg)]
       /\ query' = [query EXCEPT !.current = m, !.interrupted = Interrupted(leg)]
  /\ UNCHANGED <<active, phases, kept, at, resumed, deferred, opened, heard, asked, bounds>>

\* add_streamed_usage() for the current message
Metered(m, u) ==
  /\ tr' = Add(tr, m, u)
  /\ leg' = [leg EXCEPT
       !.observed[m] = IF u > @ THEN u ELSE @,
       !.output = IF u > 0 /\ m \in FreshIds THEN @ \cup {m} ELSE @,
       !.cut = Cut(leg)]
  /\ query' = [query EXCEPT !.interrupted = Interrupted(leg)]
  /\ heard' = [heard EXCEPT ![m] = IF u > @ THEN u ELSE @]

\* message_delta
MessageDelta ==
  /\ at = "asked" /\ leg.done = "none" /\ Streaming
  /\ \E u \in 1..Cost[query.current] :
       u > leg.observed[query.current] /\ Metered(query.current, u)
  /\ UNCHANGED <<active, phases, kept, at, resumed, deferred, opened, made, asked, bounds>>

\* content_block_delta: kept for a message that is new on this connection
TextDelta ==
  /\ at = "asked" /\ leg.done = "none" /\ Streaming
  /\ query.current \in FreshIds
  /\ query.current \notin text
  /\ residual' = residual \cup {query.current}
  /\ UNCHANGED <<tracker, text, at, query, leg, resumed, deferred, opened, made,
                 heard, asked, bounds>>

\* Faulty variant: text of replayed history is kept as well.
AnyContent(m) == m \in Ids

\* Text may only enter from messages unknown when the query was submitted.
ContentAllowed(m) == m \notin query.initial

\* AssistantMessage with content, and with the count it happens to carry
Assistant ==
  /\ at = "asked" /\ leg.done = "none" /\ Streaming
  /\ LET m == query.current IN
       /\ \E u \in 0..Cost[m] : Metered(m, u)
       /\ IF ContentAllowed(m)
          THEN text' = text \cup {m} /\ residual' = residual \ {m}
          ELSE UNCHANGED kept
  /\ UNCHANGED <<active, phases, at, resumed, deferred, opened, made, asked, bounds>>

\* A synthetic error Assistant retracts the stream it follows.  It may come
\* with a stream of its own, or with none, and then the stream is the last one
\* that was started, on whatever leg.  After the answer it retracts that.
ErrorAssistant ==
  /\ at = "asked" /\ Fault
  /\ tr' = tr
  /\ \E kind \in {"rate_limit", "server_error"}, ownStream \in BOOLEAN :
       /\ leg' = [leg EXCEPT
            !.limited = @ \/ kind = "rate_limit",
            !.lost = @ \/ kind = "server_error",
            !.cut = IF ownStream THEN Cut(leg) ELSE @,
            !.output = IF ownStream THEN @ ELSE @ \ {query.current}]
       /\ query' = [query EXCEPT
            !.current = IF ownStream THEN 0 ELSE @,
            !.interrupted = IF ownStream THEN Interrupted(leg) ELSE @]
       /\ residual' = IF ownStream THEN residual ELSE residual \ {query.current}
  /\ UNCHANGED <<active, phases, text, at, resumed, deferred, opened, made, heard,
                 asked, kills>>

RateLimitEvent ==
  /\ at = "asked" /\ ~leg.limited /\ Fault
  /\ leg' = [leg EXCEPT !.limited = TRUE]
  /\ UNCHANGED <<tracker, kept, at, query, resumed, deferred, opened, made, heard,
                 asked, kills>>

(***************************************************************************)
(* Results.                                                                *)
(***************************************************************************)
\* What receive_response and run_phase do with a Result that is passed on: the
\* last one with turns counts, or the last of all once the phase is interrupted.
Yields(turns, error, tokens) ==
  /\ leg' = [leg EXCEPT
       !.complete = @ \/ (~error /\ turns /\ (leg.started # {} \/ tokens > 0)),
       !.fatal = @ \/ error,
       !.done = IF ~turns THEN @ ELSE IF error THEN "error" ELSE "ok",
       !.tokens = IF turns \/ query.interrupted THEN tokens ELSE @]
  /\ query' = [query EXCEPT !.results = TRUE]

\* The answer: per-query usage, or none.  An interrupted query reports only the
\* turns that were over, whose counts are out.
AnswerResult ==
  /\ at = "asked" /\ leg.done = "none" /\ leg.own # {}
  /\ LET over  == {m \in leg.own : leg.observed[m] = Cost[m]}
         total == SumOf(Cost, IF query.interrupted THEN over ELSE leg.own)
     IN \E tokens \in {0, total} : Yields(TRUE, FALSE, tokens)
  /\ UNCHANGED <<tracker, kept, at, resumed, deferred, opened, made, heard, asked, bounds>>

\* A resumed CLI ends with the Result of an earlier query.
StaleResult ==
  /\ at = "asked" /\ leg.done = "none" /\ leg.own = {} /\ resumed /\ made > 0
  /\ Yields(TRUE, FALSE, SumOf(Cost, 1..made))
  /\ UNCHANGED <<tracker, kept, at, resumed, deferred, opened, made, heard, asked, bounds>>

\* "No response requested.": no turns, no tokens
EmptyResult ==
  /\ at = "asked" /\ Fault
  /\ Yields(FALSE, FALSE, 0)
  /\ UNCHANGED <<tracker, kept, at, resumed, deferred, opened, made, heard, asked, kills>>

\* An error Result: retryable ones and those of a rejected leg are not passed on;
\* another one, with turns, makes the phase fail, also after an answer.
ErrorResult ==
  /\ at = "asked" /\ Fault
  /\ \/ leg' = [leg EXCEPT !.lost = TRUE] /\ UNCHANGED query
     \/ leg.limited /\ UNCHANGED <<leg, query>>
     \/ ~leg.limited /\ \E turns \in BOOLEAN : Yields(turns, TRUE, 0)
  /\ UNCHANGED <<tracker, kept, at, resumed, deferred, opened, made, heard, asked, kills>>

(***************************************************************************)
(* The end of a leg, and what receive_response makes of it.                *)
(***************************************************************************)
EndLeg(flags) ==
  /\ at = "asked"
  /\ at' = "over"
  /\ leg' = flags
  /\ UNCHANGED <<tracker, kept, query, resumed, deferred, opened, made, heard, asked, kills>>

StreamEnds == EndLeg(leg) /\ UNCHANGED faults

\* An exception: ignored after a rejection, else a spend limit or a transport
\* failure
StreamBreaks ==
  /\ Fault
  /\ \/ leg.limited /\ EndLeg(leg)
     \/ ~leg.limited /\ EndLeg([leg EXCEPT !.spent = TRUE])
     \/ ~leg.limited /\ EndLeg([leg EXCEPT !.lost = TRUE])

\* The process of the attempt is gone: what is on disk stays.
Down ==
  /\ at' = "down"
  /\ PhaseOver
  /\ resumed' = FALSE /\ deferred' = FALSE
  /\ UNCHANGED <<tracker, kept, opened, made, heard>>

\* any other exception, whether or not the leg has answered
StreamRaises ==
  /\ at = "asked" /\ ~leg.limited /\ Fault
  /\ Down /\ UNCHANGED kills

Rejected == leg.limited \/ leg.spent

\* No failure was reported, but nothing came back either.
Unanswered == ~leg.complete /\ ~leg.fatal /\ ~query.interrupted

Lost == ~Rejected /\ (leg.lost \/ Unanswered)

\* The response had completed before the failure: keep it, and hand over to
\* another credential only when there is another query.
DeferRecovery ==
  /\ at = "over" /\ leg.complete
  /\ Rejected \/ Lost
  /\ deferred' = TRUE
  /\ at' = "collect"
  /\ UNCHANGED <<tracker, kept, query, leg, resumed, opened, made, heard, asked, bounds>>

\* _recover(): the same transcript in a new CLI, which is asked to go on
Reopen(q, rejections) ==
  /\ query' = q
  /\ leg' = NewLeg
  /\ resumed' = TRUE
  /\ asked' = [prompts |-> asked.prompts + 1, rejections |-> rejections]
  /\ at' = "asked"
  /\ UNCHANGED <<tracker, kept, deferred, opened, made, heard, bounds>>

\* Faulty variant: a late rejection asks again although the answer is there.
RecoverAnswered == at = "over" /\ Rejected /\ Reopen(query, asked.rejections + 1)

RecoverRejected ==
  /\ at = "over" /\ ~leg.complete /\ Rejected
  /\ Reopen(query, asked.rejections + 1)

\* Faulty variants: the retry is not counted, or the limit is not looked at.
RetryUncounted ==
  /\ at = "over" /\ ~leg.complete /\ Lost
  /\ Reopen(query, asked.rejections)
RetryUnlimited ==
  /\ at = "over" /\ ~leg.complete /\ Lost
  /\ Reopen([query EXCEPT !.retries = @ + 1], asked.rejections)

RetryTransport ==
  /\ at = "over" /\ ~leg.complete /\ Lost
  /\ query.retries < MaxRetries
  /\ Reopen([query EXCEPT !.retries = @ + 1], asked.rejections)

GiveUp ==
  /\ at = "over" /\ ~leg.complete /\ Lost
  /\ query.retries >= MaxRetries
  /\ Down /\ UNCHANGED bounds

ReturnResponse ==
  /\ at = "over" /\ ~Rejected /\ ~Lost
  /\ at' = "collect"
  /\ UNCHANGED <<tracker, kept, query, leg, resumed, deferred, opened, made, heard,
                 asked, bounds>>

(***************************************************************************)
(* The end of run_phase.                                                   *)
(***************************************************************************)
ObservedFresh == SumOf(leg.observed, FreshIds)

\* tokens the Result reports beyond the stream of its own connection
Unstreamed ==
  IF leg.output # {} /\ leg.tokens > ObservedFresh THEN leg.tokens - ObservedFresh ELSE 0

\* Faulty variant: the fresh ids are sealed whatever the Result reports.
PaidForAnyway == FreshIds

\* the Result has paid for every fresh id of its connection (a Result of an
\* earlier leg counts as one of 0 tokens: it was empty or an error)
PaidFor == IF leg.output # {} /\ leg.tokens >= ObservedFresh /\ ~query.interrupted
           THEN FreshIds ELSE {}

\* Faulty variant: any Result with turns is a completion.
AcceptedWithTurns == query.results /\ (query.interrupted \/ leg.done = "ok")

\* run_phase accepts a Result with turns from a connection with fresh output,
\* or any Result once it has interrupted
Accepted ==
  /\ query.results
  /\ query.interrupted \/ (leg.done = "ok" /\ leg.output # {})

CommitText(exhausted) ==
  /\ phases' = Append(phases, [text |-> text \cup residual, exhausted |-> exhausted,
                               after |-> query.after])
  /\ active' = FALSE
  /\ text' = {} /\ residual' = {}

CommitPhase ==
  /\ at = "collect" /\ Accepted
  /\ tr' = CloseCount(Seal(tr, PaidFor), tr.count.streamed + Unstreamed)
  /\ CommitText(query.interrupted)
  /\ resumed' = (resumed /\ leg.output = {})
  /\ at' = "ready"
  /\ PhaseOver
  /\ UNCHANGED <<deferred, opened, made, heard, bounds>>

RejectResponse ==
  /\ at = "collect" /\ ~Accepted
  /\ Down /\ UNCHANGED bounds

(***************************************************************************)
(* The controller's side: opening the session, phases, kills.              *)
(***************************************************************************)
Restart ==
  /\ at = "down"
  /\ at' = "ready"
  /\ resumed' = opened /\ opened' = TRUE /\ deferred' = FALSE
  /\ UNCHANGED <<tracker, kept, query, leg, made, heard, asked, bounds>>

\* A new phase, or a killed one whose partial text is discarded; a deferred
\* handoff happens now.
Ask ==
  /\ at = "ready" /\ tr.count.spent < StopAt
  /\ active \/ Len(phases) < MaxPhases
  /\ active' = TRUE
  /\ text' = {} /\ residual' = {}
  /\ query' = NewQuery /\ leg' = NewLeg
  /\ asked' = [prompts |-> 1, rejections |-> 0]
  /\ resumed' = (resumed \/ deferred) /\ deferred' = FALSE
  /\ at' = "asked"
  /\ UNCHANGED <<tr, phases, opened, made, heard, bounds>>

\* A phase killed at its cutoff is closed with what it had saved.
FinalizeKilled ==
  /\ at = "ready" /\ active /\ tr.count.spent >= StopAt
  /\ tr' = CloseCount(tr, 0)
  /\ CommitText(TRUE)
  /\ UNCHANGED <<at, query, leg, resumed, deferred, opened, made, heard, asked, bounds>>

Kill ==
  /\ at # "down" /\ kills < MaxKills
  /\ kills' = kills + 1
  /\ Down /\ UNCHANGED faults

Finished ==
  /\ at = "ready" /\ ~active
  /\ tr.count.spent >= StopAt \/ Len(phases) = MaxPhases
  /\ UNCHANGED vars

Envelope == MessageStart \/ MessageDelta \/ TextDelta \/ Assistant
Failure  == ErrorAssistant \/ RateLimitEvent \/ EmptyResult \/ ErrorResult
            \/ StreamBreaks \/ StreamRaises
Result   == AnswerResult \/ StaleResult
Control  == DeferRecovery \/ RecoverRejected \/ RetryTransport \/ GiveUp
            \/ ReturnResponse \/ CommitPhase \/ RejectResponse
            \/ Restart \/ Ask \/ FinalizeKilled

Next == Envelope \/ Failure \/ Result \/ StreamEnds \/ Control \/ Kill \/ Finished

Spec == Init /\ [][Next]_vars

-----------------------------------------------------------------------------
TypeOK ==
  /\ tr \in IdTrackers
  /\ active \in BOOLEAN
  /\ \A i \in DOMAIN phases :
       phases[i] \in [text: SUBSET Ids, exhausted: BOOLEAN, after: Nat]
  /\ text \subseteq Ids /\ residual \subseteq Ids
  /\ at \in {"down", "ready", "asked", "over", "collect"}
  /\ query \in [initial: SUBSET Ids, current: Ids \cup {0}, interrupted: BOOLEAN,
                results: BOOLEAN, retries: 0..MaxRetries, after: Nat]
  /\ leg \in [known: SUBSET Ids, started: SUBSET Ids, own: SUBSET Ids,
              observed: [Ids -> Nat], output: SUBSET Ids,
              cut: BOOLEAN, limited: BOOLEAN, lost: BOOLEAN, spent: BOOLEAN,
              complete: BOOLEAN, fatal: BOOLEAN, done: {"none", "ok", "error"},
              tokens: Nat]
  /\ resumed \in BOOLEAN /\ deferred \in BOOLEAN /\ opened \in BOOLEAN
  /\ made \in Nat /\ heard \in [Ids -> Nat]
  /\ asked \in [prompts: Nat, rejections: Nat]
  /\ kills \in 0..MaxKills /\ faults \in 0..MaxFaults

\* No token is charged twice: through replays, reconnects, restarts and Result
\* true-ups the spend never exceeds what the provider generated.
ChargedOnce == tr.count.spent <= SumOf(Cost, 1..made)

\* README: "all reported prefix and replacement tokens remain charged".  What
\* was ever streamed for the messages of the conversation stays in the spend.
ReportedIsCharged == SumOf(heard, Ids) <= tr.count.spent

\* README: "replayed IDs, zero-turn replay, and unmetered output can never
\* certify completion".  A phase is committed as complete only if the provider
\* generated metered output on the very connection whose Result ended it.
CompletionIsFresh ==
  [][Len(phases') > Len(phases) /\ ~phases'[Len(phases')].exhausted =>
       \E m \in leg.own : heard[m] > 0]_vars

\* Neither replayed history nor the discarded text of a killed process gets
\* into a committed phase: its text is of messages generated after its query.
TextIsOfItsQuery ==
  \A i \in DOMAIN phases : \A m \in phases[i].text : m > phases[i].after

\* A connection that streams anything once the cutoff is reached has been
\* interrupted, replacements of an interrupted connection included.
CutoffStopsEveryLeg ==
  at = "asked" /\ leg.started # {} /\ tr.count.spent >= StopAt =>
    leg.cut /\ query.interrupted

\* The prompt goes out once, once more per quota rejection, and at most
\* MaxRetries times more, however the transport fails.
RetriesBounded == asked.prompts <= 1 + MaxRetries + asked.rejections

\* "If a response completed before a late rate-limit/transport envelope, commit it
\* immediately and defer the credential handoff": an answered query is committed,
\* with the text it has, through any rejection, transport failure or empty Result
\* that follows; nothing it meets once the stream is over makes the process ask
\* again or fail.  While the stream lasts the code itself gives an answer up in
\* three cases: an exception that is no quota, spend or transport failure, an
\* error Result with turns, and an error Assistant that retracts all fresh output.
Answered == at \in {"asked", "over", "collect"} /\ leg.done = "ok" /\ leg.output # {}

GivenUp ==
  /\ at = "asked" /\ faults' > faults
  /\ \/ at' = "down" /\ ~leg.limited
     \/ at' = "asked" /\ leg'.done = "error" /\ leg'.fatal
     \/ at' = "asked" /\ leg'.output = {} /\ leg.output = {query.current}

AnswerIsCommitted ==
  [][Answered /\ kills' = kills =>
       \/ Answered'
       \/ /\ Len(phases') = Len(phases) + 1
          /\ phases'[Len(phases')].text = text \cup residual
       \/ GivenUp]_vars

\* receive_response: "so a credential handoff cannot silently erase paid model
\* output".  What earlier legs of the query have streamed stays in its text.
HandoffKeepsText ==
  [][at = "asked" /\ at' = "asked" =>
       (text \cup residual) \ leg.started \subseteq text' \cup residual']_vars
=============================================================================
