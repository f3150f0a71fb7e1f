----------------------------- MODULE TokenPool -----------------------------
(***************************************************************************)
(* The shared pool of API keys (src/token_pool.py) and the sessions that   *)
(* take keys from it (ResumableClaudeSession._open, _recover and           *)
(* _defer_completed_recovery in src/solver.py).                            *)
(*                                                                         *)
(* A key is assigned, not leased: several sessions may hold the same one.  *)
(* Each method body under _lock holds no await, so it is one step; between *)
(* the end of acquire()'s locked block and its wake-up anything may happen.*)
(* The event a sleeper waits on is replaced at every signal, so an event   *)
(* is represented by whether it has been set for each sleeper.             *)
(***************************************************************************)
EXTENDS Integers, Sequences, FiniteSets

CONSTANTS
  Sessions,     \* tasks that open sessions
  Keys,         \* the configured credentials
  Rotation,     \* their order, without duplicates
  Buffer,       \* RESET_WAIT_BUFFER_SECONDS
  Fallback,     \* RATE_LIMIT_FALLBACK_COOLDOWN_SECONDS
  ResetTimes,   \* reset times a provider may report (0 stands for none)
  LastReport,   \* bound: no rate limit is hit after this time
  MaxTime       \* bound on the clock

Injective(s) == \A i, j \in DOMAIN s : s[i] = s[j] => i = j
Elements(s) == {s[i] : i \in DOMAIN s}

ASSUME PoolAssumption ==
  /\ Rotation \in Seq(Keys) /\ Rotation # <<>> /\ Injective(Rotation)
  /\ Buffer \in Nat /\ Fallback \in Nat \ {0}
  /\ ResetTimes \subseteq Nat
  /\ LastReport \in Nat /\ MaxTime \in Nat
  /\ \A r \in ResetTimes : r + Buffer <= MaxTime
  /\ LastReport + Fallback <= MaxTime

VARIABLES
  tokens,      \* _tokens: the live keys, in order
  coolUntil,   \* _cool_until, for the live keys
  nextIndex,   \* _next_index
  now,         \* time.time()
  pc,          \* per session: what it is doing
  held,        \* per session: the key it uses or is about to report
  wakeAt,      \* per session: end of its bounded sleep in acquire()
  woken,       \* per session: the event it waits on has been set
  granted      \* last key acquire() returned, <<>> before the first (history)

pool == <<tokens, coolUntil, nextIndex>>
vars == <<tokens, coolUntil, nextIndex, now, pc, held, wakeAt, woken, granted>>

PCs == {"idle", "acquire", "waiting", "using", "limited", "spent", "failed"}

Count == Len(tokens)
KeyAt(i) == tokens[i + 1]
Cooling(k) == coolUntil[k] > now

\* min(self._cool_until.values())
EarliestReset ==
  CHOOSE t \in {coolUntil[k] : k \in DOMAIN coolUntil} :
    \A k \in DOMAIN coolUntil : t <= coolUntil[k]

\* Faulty variant: the wrong neighbour is removed
WithoutNext(s, i) == [j \in 1..Len(s)-1 |-> IF j <= i THEN s[j] ELSE s[j+1]]

Without(s, i) == [j \in 1..Len(s)-1 |-> IF j < i THEN s[j] ELSE s[j+1]]

Init ==
  /\ tokens = Rotation
  /\ coolUntil = [k \in Elements(Rotation) |-> 0]
  /\ nextIndex = 0
  /\ now = 1
  /\ pc = [s \in Sessions |-> "idle"]
  /\ held = [s \in Sessions |-> Rotation[1]]
  /\ wakeAt = [s \in Sessions |-> 0]
  /\ woken = [s \in Sessions |-> FALSE]
  /\ granted = <<>>

\* Faulty variant: the event is replaced and never set
SignalNobody == UNCHANGED woken

\* _signal_changed_locked: set the event of everyone asleep now; whoever goes
\* to sleep later waits on a new one.
SignalChanged == woken' = [s \in Sessions |-> woken[s] \/ pc[s] = "waiting"]

-----------------------------------------------------------------------------
(***************************************************************************)
(* acquire()                                                               *)
(***************************************************************************)
\* _open() calls acquire()
Request(s) ==
  /\ pc[s] = "idle"
  /\ pc' = [pc EXCEPT ![s] = "acquire"]
  /\ UNCHANGED <<pool, now, held, wakeAt, woken, granted>>

\* every key has been disabled: fail loudly
AcquireFails(s) ==
  /\ pc[s] = "acquire"
  /\ Count = 0
  /\ pc' = [pc EXCEPT ![s] = "failed"]
  /\ UNCHANGED <<pool, now, held, wakeAt, woken, granted>>

\* the first key at or after nextIndex that is not cooling
AcquireGrants(s) ==
  /\ pc[s] = "acquire"
  /\ \E offset \in 0..Count-1 :
       LET index == (nextIndex + offset) % Count IN
         /\ ~Cooling(KeyAt(index))
         /\ \A o \in 0..offset-1 : Cooling(KeyAt((nextIndex + o) % Count))
         /\ nextIndex' = (index + 1) % Count
         /\ held' = [held EXCEPT ![s] = KeyAt(index)]
         /\ granted' = <<KeyAt(index)>>
  /\ pc' = [pc EXCEPT ![s] = "using"]
  /\ UNCHANGED <<tokens, coolUntil, now, wakeAt, woken>>

\* all keys are cooling: note the event and the earliest reset, then sleep
AcquireSleeps(s) ==
  /\ pc[s] = "acquire"
  /\ Count > 0
  /\ \A i \in 1..Count : Cooling(tokens[i])
  /\ pc' = [pc EXCEPT ![s] = "waiting"]
  /\ wakeAt' = [wakeAt EXCEPT ![s] = EarliestReset]
  /\ woken' = [woken EXCEPT ![s] = FALSE]
  /\ UNCHANGED <<pool, now, held, granted>>

\* Faulty variant: no bound on the sleep
WakeBySignal(s) ==
  /\ pc[s] = "waiting"
  /\ woken[s]
  /\ pc' = [pc EXCEPT ![s] = "acquire"]
  /\ UNCHANGED <<pool, now, held, wakeAt, woken, granted>>

\* the event was set, or the bounded wait ran out: scan again
Wake(s) ==
  /\ pc[s] = "waiting"
  /\ woken[s] \/ now >= wakeAt[s]
  /\ pc' = [pc EXCEPT ![s] = "acquire"]
  /\ UNCHANGED <<pool, now, held, wakeAt, woken, granted>>

(***************************************************************************)
(* What happens to a key in use.                                           *)
(***************************************************************************)
HitRateLimit(s) ==
  /\ pc[s] = "using" /\ now <= LastReport
  /\ pc' = [pc EXCEPT ![s] = "limited"]
  /\ UNCHANGED <<pool, now, held, wakeAt, woken, granted>>

HitSpendLimit(s) ==
  /\ pc[s] = "using"
  /\ pc' = [pc EXCEPT ![s] = "spent"]
  /\ UNCHANGED <<pool, now, held, wakeAt, woken, granted>>

\* the session closes, or reopens after a transport failure
StopUsing(s) ==
  /\ pc[s] = "using"
  /\ \E next \in {"idle", "acquire"} : pc' = [pc EXCEPT ![s] = next]
  /\ UNCHANGED <<pool, now, held, wakeAt, woken, granted>>

CoolDown(reset) == IF reset + Buffer <= now THEN now + Fallback ELSE reset + Buffer

\* Faulty variant: the last report wins
LastOf(a, b) == b

Later(a, b) == IF a >= b THEN a ELSE b

\* mark_rate_limited, then _open at once (_recover) or at the next query (_defer)
MarkRateLimited(s) ==
  /\ pc[s] = "limited" /\ now <= LastReport
  /\ \E reset \in ResetTimes :
       IF held[s] \in DOMAIN coolUntil
       THEN /\ coolUntil' = [coolUntil EXCEPT ![held[s]] = Later(@, CoolDown(reset))]
            /\ SignalChanged
       ELSE UNCHANGED <<coolUntil, woken>>
  /\ \E next \in {"idle", "acquire"} : pc' = [pc EXCEPT ![s] = next]
  /\ UNCHANGED <<tokens, nextIndex, now, held, wakeAt, granted>>

\* mark_dead: the rotation index is only wrapped, not shifted with the list
MarkDead(s) ==
  /\ pc[s] = "spent"
  /\ \/ /\ held[s] \notin Elements(tokens)
        /\ UNCHANGED <<pool, woken>>
     \/ \E i \in 1..Count :
          /\ tokens[i] = held[s]
          /\ tokens' = Without(tokens, i)
          /\ coolUntil' = [k \in DOMAIN coolUntil \ {held[s]} |-> coolUntil[k]]
          /\ nextIndex' = IF Count = 1 THEN 0 ELSE nextIndex % (Count - 1)
          /\ SignalChanged
  /\ \E next \in {"idle", "acquire"} : pc' = [pc EXCEPT ![s] = next]
  /\ UNCHANGED <<now, held, wakeAt, granted>>

\* A pending report is made before the clock runs past what the bound allows.
Tick ==
  /\ now < MaxTime
  /\ now < LastReport \/ \A s \in Sessions : pc[s] # "limited"
  /\ now' = now + 1
  /\ UNCHANGED <<pool, pc, held, wakeAt, woken, granted>>

PoolCall(s) ==
  \/ AcquireFails(s) \/ AcquireGrants(s) \/ AcquireSleeps(s) \/ Wake(s)
  \/ MarkRateLimited(s) \/ MarkDead(s)

Next ==
  \/ \E s \in Sessions :
       \/ Request(s) \/ PoolCall(s)
       \/ HitRateLimit(s) \/ HitSpendLimit(s) \/ StopUsing(s)
  \/ Tick

Spec == Init /\ [][Next]_vars

\* The event loop runs every ready task, and time passes.
FairSpec == Spec /\ WF_vars(Tick) /\ \A s \in Sessions : WF_vars(PoolCall(s))

-----------------------------------------------------------------------------
\* Types, among them that _cool_until has exactly the live keys and that
\* _next_index points at one of them.
TypeOK ==
  /\ tokens \in Seq(Keys)
  /\ coolUntil \in [Elements(tokens) -> Nat]
  /\ nextIndex = 0 \/ nextIndex \in 1..Count-1
  /\ now \in Nat
  /\ pc \in [Sessions -> PCs]
  /\ held \in [Sessions -> Keys]
  /\ wakeAt \in [Sessions -> Nat]
  /\ woken \in [Sessions -> BOOLEAN]
  /\ granted \in Seq(Keys)

\* A session asleep in acquire() with nobody having woken it sleeps until
\* exactly the earliest reset of the keys that are live now, whatever was
\* disabled or cooled since it fell asleep; and never on an empty pool.
NoStaleWait ==
  \A s \in Sessions :
    pc[s] = "waiting" /\ ~woken[s] => Count > 0 /\ wakeAt[s] = EarliestReset

\* A report that arrives late or out of order never shortens a cooldown, and
\* a report about a disabled key never brings it back.
CooldownsOnlyGrow ==
  [][/\ DOMAIN coolUntil' \subseteq DOMAIN coolUntil
     /\ \A k \in DOMAIN coolUntil' : coolUntil'[k] >= coolUntil[k]]_vars

\* Whoever calls acquire() gets a key or is told that none is left.
AcquireReturns ==
  \A s \in Sessions :
    pc[s] \in {"acquire", "waiting"} ~> pc[s] \in {"using", "failed"}

\* acquire(): "Return the next non-cooling token in round-robin order."  In the
\* order the pool was given, no live, non-cooling key lies between the last
\* key handed out and the next.
Position(k) == CHOOSE i \in DOMAIN Rotation : Rotation[i] = k
Steps(from, to) == (Position(to) - Position(from) - 1) % Len(Rotation)

RoundRobin ==
  [][\A s \in Sessions :
       pc[s] = "acquire" /\ pc'[s] = "using" /\ granted # <<>> =>
         \A k \in Elements(tokens) :
           ~Cooling(k) => Steps(granted[1], held'[s]) <= Steps(granted[1], k)]_vars
=============================================================================
