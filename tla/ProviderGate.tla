---------------------------- MODULE ProviderGate ----------------------------
(***************************************************************************)
(* The gate every physical request to a model endpoint goes through        *)
(* (backend/model_router: router.py, admission.py, circuit.py, retry.py,   *)
(* request_recovery.py, runtime.py), for one endpoint.                     *)
(*                                                                         *)
(* Processes on one desktop share two SQLite files.  provider_slots is a   *)
(* queue of tickets with leases: a ticket polls until it is the oldest one *)
(* waiting and fewer than Limit are active, then a heartbeat renews it.    *)
(* endpoint_health is the circuit: consecutive failures, a cooldown, and   *)
(* one probe with a lease of its own.  A logical request makes up to       *)
(* MaxAttempts physical attempts, each through the gate.                   *)
(*                                                                         *)
(* A member of Requests is one logical request at a time of one process.   *)
(* Times are remaining ticks: a row is expired at 0.                       *)
(***************************************************************************)
EXTENDS Integers, FiniteSets, Sequences

CONSTANTS
    Requests,     \* callers of ModelRuntime.generate / stream_model
    None,         \* no probe
    Limit,        \* ProviderAdmissionController.limit
    SlotLease,    \* lease of a ticket (10 s; a heartbeat or poll every tick)
    ProbeLease,   \* lease of a probe (350 s)
    MaxRequest,   \* longest physical request (TransportPolicy.total_seconds)
    CoolBase,     \* first cooldown (30 s); the next ones double, at most twice
    Threshold,    \* ProviderCircuitBreaker.failure_threshold
    MaxAttempts,  \* RetryPolicy.max_attempts
    Hints,        \* Retry-After values an endpoint sends, 0 for none
    RetryCap,     \* longest in-request delay (30 s), longer waits are the job's
    MaxStalls, MaxDeaths        \* bounds of the exploration

ASSUME GateAssumption ==
    /\ None \notin Requests
    /\ Limit \in Nat \ {0} /\ Threshold \in Nat \ {0} /\ MaxAttempts \in Nat \ {0}
    /\ SlotLease \in Nat \ {0, 1} /\ ProbeLease \in Nat \ {0}
    /\ MaxRequest \in Nat /\ CoolBase \in Nat \ {0}
    /\ Hints \subseteq Nat /\ RetryCap \in Nat
    /\ MaxStalls \in Nat /\ MaxDeaths \in Nat

VARIABLES
    pc,           \* where each request is
    tries,        \* physical attempts made for it
    due,          \* ticks until its retry, or what a failure that is not retried asks to wait
    next,         \* what follows the attempt that is leaving: "stop" or "retry"
    held,         \* its attempt was admitted as a probe
    age,          \* ticks its attempt has been in flight
    stall,        \* its process: runs, hangs now, has hung during this attempt
    waiting,      \* provider_slots with active = 0, by sequence
    active,       \* provider_slots with active = 1
    left,         \* remaining lease of each ticket
    fails, openLeft, probe, probeLeft,    \* endpoint_health
    stalls, deaths

request == <<pc, tries, due, next, held, age>>
slots   == <<waiting, active, left>>
circuit == <<fails, openLeft, probe, probeLeft>>
bounds  == <<stall, stalls, deaths>>
vars    == <<request, slots, circuit, bounds>>

Steps == {"idle", "backoff", "queued", "admitted", "sending", "leaving", "down"}
MaxFails == Threshold + 2       \* the cooldown no longer grows from here on
MaxAge == IF MaxRequest > ProbeLease THEN MaxRequest ELSE ProbeLease

FieldTypes ==
    /\ pc \in [Requests -> Steps]
    /\ tries \in [Requests -> 0 .. MaxAttempts]
    /\ due \in [Requests -> Nat]
    /\ next \in [Requests -> {"stop", "retry"}]
    /\ held \in [Requests -> BOOLEAN]
    /\ age \in [Requests -> 0 .. MaxAge]
    /\ stall \in [Requests -> {"no", "now", "was"}]
    /\ active \subseteq Requests
    /\ left \in [Requests -> 0 .. SlotLease]
    /\ fails \in 0 .. MaxFails
    /\ openLeft \in Nat /\ probeLeft \in 0 .. ProbeLease
    /\ probe \in Requests \cup {None}
    /\ stalls \in 0 .. MaxStalls /\ deaths \in 0 .. MaxDeaths

TypeOK == FieldTypes /\ waiting \in Seq(Requests)

Init ==
    /\ pc = [r \in Requests |-> "idle"]
    /\ tries = [r \in Requests |-> 0]
    /\ due = [r \in Requests |-> 0]
    /\ next = [r \in Requests |-> "stop"]
    /\ held = [r \in Requests |-> FALSE]
    /\ age = [r \in Requests |-> 0]
    /\ stall = [r \in Requests |-> "no"]
    /\ waiting = <<>> /\ active = {}
    /\ left = [r \in Requests |-> 0]
    /\ fails = 0 /\ openLeft = 0 /\ probe = None /\ probeLeft = 0
    /\ stalls = 0 /\ deaths = 0

Runs(r) == stall[r] # "now"
Dec(n) == IF n > 0 THEN n - 1 ELSE 0
LeastOf(a, b) == IF a < b THEN a ELSE b
MostOf(a, b) == IF a > b THEN a ELSE b

----------------------------------------------------------------------------
(* Admission *)

\* Mutant: a probe that is out holds nobody back.
CoolingOnly == openLeft > 0
Cooling == openLeft > 0 \/ probeLeft > 0

\* An attempt starts: require_available, before joining the queue.  A refusal
\* has the origin provider_circuit, which no retry policy retries.
Attempt(r) ==
    /\ Runs(r)
    /\ pc[r] = "idle" \/ (pc[r] = "backoff" /\ due[r] = 0)
    /\ IF Cooling
         THEN /\ pc' = [pc EXCEPT ![r] = "idle"]
              /\ tries' = [tries EXCEPT ![r] = 0]
              /\ UNCHANGED stall
         ELSE /\ pc' = [pc EXCEPT ![r] = "queued"]
              /\ tries' = [tries EXCEPT ![r] = @ + 1]
              /\ stall' = [stall EXCEPT ![r] = "no"]
    /\ UNCHANGED <<due, next, held, age, slots, circuit, stalls, deaths>>

\* The tickets that a DELETE leaves in the queue, in their order.
Keeping(queue, kept) ==
    LET first[i \in 0 .. Len(queue)] ==
            IF i = 0 THEN <<>>
            ELSE IF queue[i] \in kept THEN Append(first[i - 1], queue[i]) ELSE first[i - 1]
    IN  first[Len(queue)]

\* The transaction of _distributed_acquire: expired tickets are deleted, the
\* own one is inserted or refreshed, and taken when it is first and there is room.
Unexpired == {q \in Requests : left[q] > 0}
LiveWaiting == Keeping(waiting, Unexpired)
\* Mutant: expired tickets stay active.
ForeverActive == active
LiveActive == {q \in active : left[q] > 0}
Queue(r) == IF \E i \in 1 .. Len(LiveWaiting) : LiveWaiting[i] = r
              THEN LiveWaiting ELSE Append(LiveWaiting, r)
\* Mutant: the room is not checked.
AcquireAnyway(r) == Head(Queue(r)) = r
Acquires(r) == Cardinality(LiveActive) < Limit /\ Head(Queue(r)) = r

Poll(r) ==
    /\ Runs(r) /\ pc[r] = "queued"
    /\ IF Acquires(r)
         THEN /\ waiting' = Tail(Queue(r))
              /\ active' = LiveActive \cup {r}
              /\ pc' = [pc EXCEPT ![r] = "admitted"]
         ELSE /\ waiting' = Queue(r)
              /\ active' = LiveActive
              /\ UNCHANGED pc
    /\ left' = [left EXCEPT ![r] = SlotLease]
    /\ UNCHANGED <<tries, due, next, held, age, circuit, bounds>>

\* _release.
Without(r) ==
    /\ waiting' = Keeping(waiting, Requests \ {r})
    /\ active' = active \ {r}
    /\ left' = [left EXCEPT ![r] = 0]

\* PROVIDER_BUSY after the queue timeout, or the request is cancelled while it
\* waits: neither is retried.
Leave(r) ==
    /\ Runs(r) /\ pc[r] = "queued"
    /\ Without(r)
    /\ pc' = [pc EXCEPT ![r] = "idle"]
    /\ tries' = [tries EXCEPT ![r] = 0]
    /\ UNCHANGED <<due, next, held, age, circuit, bounds>>

----------------------------------------------------------------------------
(* The circuit *)

\* _admit: refused while cooling or while a probe's lease runs; the probe of an
\* endpoint with enough failures; an ordinary request otherwise.
Admit(r) ==
    /\ Runs(r) /\ pc[r] = "admitted"
    /\ IF Cooling
         THEN /\ pc' = [pc EXCEPT ![r] = "leaving"]
              /\ next' = [next EXCEPT ![r] = "stop"]
              /\ UNCHANGED <<held, circuit>>
         ELSE /\ pc' = [pc EXCEPT ![r] = "sending"]
              /\ IF fails >= Threshold
                   THEN /\ probe' = r /\ probeLeft' = ProbeLease
                        /\ held' = [held EXCEPT ![r] = TRUE]
                   ELSE UNCHANGED <<held, probe, probeLeft>>
              /\ UNCHANGED <<next, fails, openLeft>>
    /\ UNCHANGED <<tries, due, age, slots, bounds>>

\* _settle ignores a probe that was replaced, and an ordinary request that ends
\* while a probe is out or the endpoint cools.
\* Mutant: an ordinary result is taken whatever happened meanwhile.
OrdinaryCounts(r) == held[r] /\ probe # r
\* Mutant: only a cooldown makes a result stale, not somebody's probe.
ProbeIgnored(r) == IF held[r] THEN probe # r ELSE openLeft > 0
Stale(r) == IF held[r] THEN probe # r ELSE probe # None \/ openLeft > 0

\* CoolBase * 2 ^ min(n - Threshold, 2).
Cooldown(n) == IF n = Threshold THEN CoolBase
               ELSE IF n = Threshold + 1 THEN 2 * CoolBase ELSE 4 * CoolBase

\* The three results _settle records.
Clear == fails' = 0 /\ openLeft' = 0 /\ probe' = None /\ probeLeft' = 0
GiveBack(r) ==
    /\ IF held[r] THEN probe' = None /\ probeLeft' = 0
                  ELSE UNCHANGED <<probe, probeLeft>>
    /\ UNCHANGED <<fails, openLeft>>
Count(hint) ==
    LET n == LeastOf(MaxFails, IF hint > 0 THEN MostOf(Threshold, fails + 1) ELSE fails + 1)
    IN  /\ fails' = n
        /\ openLeft' = IF n >= Threshold THEN MostOf(Cooldown(n), hint) ELSE 0
        /\ probe' = None /\ probeLeft' = 0

Settle(r, result) == IF Stale(r) THEN UNCHANGED circuit ELSE result

\* The attempt ends; the finally clauses release the slot in a later step,
\* because the heartbeat is awaited first.
Ends(r, then, delay) ==
    /\ pc' = [pc EXCEPT ![r] = "leaving"]
    /\ next' = [next EXCEPT ![r] = then]
    /\ due' = [due EXCEPT ![r] = delay]
    /\ held' = [held EXCEPT ![r] = FALSE]
    /\ age' = [age EXCEPT ![r] = 0]
    /\ UNCHANGED <<tries, slots, bounds>>

Sends(r) == Runs(r) /\ pc[r] = "sending"

Succeed(r) == Sends(r) /\ Settle(r, Clear) /\ Ends(r, "stop", 0)

\* Mutant: one attempt too many.
OneMoreAttempt(r) == tries[r] <= MaxAttempts
AttemptsLeft(r) == tries[r] < MaxAttempts

\* A transient failure.  RetryPolicy and retry_wait: another attempt if the
\* circuit is not open, attempts are left and the delay is short enough.
Fail(r, hint) ==
    /\ Sends(r)
    /\ Settle(r, Count(hint))
    /\ LET delay == IF hint > 0 THEN hint ELSE 1
           again == ~Cooling' /\ AttemptsLeft(r) /\ delay <= RetryCap
       IN  Ends(r, IF again THEN "retry" ELSE "stop", IF again THEN delay ELSE hint)

\* Any other failure settles like a success: the endpoint did answer.  A
\* malformed response may be retried, a refused one is not.
Reject(r) ==
    /\ Sends(r)
    /\ Settle(r, Clear)
    /\ \/ Ends(r, "stop", 0)
       \/ AttemptsLeft(r) /\ Ends(r, "retry", 1)

\* The caller cancels the request or its deadline passes.
Cancel(r) == Sends(r) /\ Settle(r, GiveBack(r)) /\ Ends(r, "stop", 0)

Finish(r) == Succeed(r) \/ (\E h \in Hints : Fail(r, h)) \/ Reject(r) \/ Cancel(r)

\* The heartbeat of a slot.  One that finds its ticket expired or deleted
\* cancels the request it belongs to.
Renew(r) ==
    /\ Sends(r) /\ left[r] < SlotLease
    /\ IF left[r] > 0
         THEN /\ left' = [left EXCEPT ![r] = SlotLease]
              /\ UNCHANGED <<request, waiting, active, circuit, bounds>>
         ELSE Settle(r, GiveBack(r)) /\ Ends(r, "stop", 0)

Release(r) ==
    /\ Runs(r) /\ pc[r] = "leaving"
    /\ Without(r)
    /\ pc' = [pc EXCEPT ![r] = IF next[r] = "retry" THEN "backoff" ELSE "idle"]
    /\ tries' = [tries EXCEPT ![r] = IF next[r] = "retry" THEN @ ELSE 0]
    /\ due' = [due EXCEPT ![r] = IF next[r] = "retry" THEN @ ELSE 0]
    /\ next' = [next EXCEPT ![r] = "stop"]
    /\ UNCHANGED <<held, age, circuit, bounds>>

----------------------------------------------------------------------------
(* Time, stalled and dead processes *)

\* A process whose event loop does not turn: no polls, no heartbeats.
Stall(r) ==
    /\ stalls < MaxStalls /\ Runs(r)
    /\ pc[r] \in {"queued", "admitted", "sending", "leaving"}
    /\ stall' = [stall EXCEPT ![r] = "now"]
    /\ stalls' = stalls + 1
    /\ UNCHANGED <<request, slots, circuit, deaths>>

Resume(r) ==
    /\ stall[r] = "now"
    /\ stall' = [stall EXCEPT ![r] = "was"]
    /\ UNCHANGED <<request, slots, circuit, stalls, deaths>>

\* A process dies: its ticket and its probe stay in the files.
Die(r) ==
    /\ deaths < MaxDeaths /\ pc[r] # "down"
    /\ pc' = [pc EXCEPT ![r] = "down"]
    /\ stall' = [stall EXCEPT ![r] = "no"]
    /\ tries' = [tries EXCEPT ![r] = 0]
    /\ due' = [due EXCEPT ![r] = 0]
    /\ next' = [next EXCEPT ![r] = "stop"]
    /\ held' = [held EXCEPT ![r] = FALSE]
    /\ age' = [age EXCEPT ![r] = 0]
    /\ deaths' = deaths + 1
    /\ UNCHANGED <<slots, circuit, stalls>>

\* A process that runs polls or renews every tick, takes no time between its
\* synchronous steps, and ends a request at MaxRequest.
Punctual(r) ==
    /\ pc[r] \notin {"admitted", "leaving"}
    /\ pc[r] \in {"queued", "sending"} => left[r] = SlotLease
    /\ pc[r] = "sending" => age[r] < MaxRequest

Tick ==
    /\ \A r \in Requests : Runs(r) => Punctual(r)
    /\ left' = [r \in Requests |-> Dec(left[r])]
    /\ openLeft' = Dec(openLeft)
    /\ probeLeft' = Dec(probeLeft)
    /\ due' = [r \in Requests |-> IF pc[r] = "backoff" THEN Dec(due[r]) ELSE due[r]]
    /\ age' = [r \in Requests |-> IF pc[r] = "sending" THEN LeastOf(MaxAge, age[r] + 1)
                                                       ELSE age[r]]
    /\ UNCHANGED <<pc, tries, next, held, waiting, active, fails, probe, bounds>>

Next ==
    \/ \E r \in Requests :
         \/ Attempt(r) \/ Poll(r) \/ Leave(r) \/ Admit(r)
         \/ Finish(r) \/ Renew(r) \/ Release(r)
         \/ Stall(r) \/ Resume(r) \/ Die(r)
    \/ Tick

\* Polls, heartbeats and timers are timers of an event loop that turns; a
\* request ends by itself or at its deadline.  Nobody has to call or to leave, and
\* time passes: calls that start and end at once do not hold it up for ever.
Fairness ==
    /\ SF_vars(Tick)
    /\ \A r \in Requests :
         /\ WF_vars(Poll(r)) /\ WF_vars(Admit(r)) /\ WF_vars(Renew(r))
         /\ WF_vars(Finish(r)) /\ WF_vars(Release(r)) /\ WF_vars(Resume(r))

Spec == Init /\ [][Next]_vars /\ Fairness

----------------------------------------------------------------------------
(* Properties *)

\* ProviderAdmissionController: "Bound turns per model endpoint".  Requests in
\* flight whose event loop kept turning are never more than the limit, whatever
\* the other processes on the queue do, hang or die.
InFlight == Cardinality({r \in Requests : pc[r] = "sending" /\ stall[r] = "no"}) <= Limit

\* "One probe across desktop processes" (circuit.py): two probes are in flight
\* together only when one of them outlived the probe lease.
OneProbe ==
    \A r, s \in Requests :
        (r # s /\ pc[r] = "sending" /\ pc[s] = "sending" /\ held[r] /\ held[s])
            => (age[r] >= ProbeLease \/ age[s] >= ProbeLease)

\* No result that arrives late, of a request that was admitted before the endpoint
\* failed, closes the circuit or shortens its cooldown (circuit.py: _settle).
CooldownKept == [][openLeft > 0 => openLeft' >= openLeft - 1]_vars

\* "A provider's longer Retry-After remains authoritative": a failure that asks to wait
\* longer than the running cooldown prolongs it.  False of the code, whose _settle takes
\* no ordinary result while the endpoint cools (circuit.py).
RetryAfterCounts ==
    [][\A r \in Requests, h \in Hints : openLeft > 0 /\ Fail(r, h) => openLeft' >= h]_vars

\* While a probe's lease runs nobody but the prober decides about the circuit:
\* its record changes only in a step in which the prober's own attempt ends.
ProbeDecides ==
    [][(probeLeft > 0 /\ probe' # probe)
          => (pc[probe] = "sending" /\ pc'[probe] = "leaving")]_vars

\* A request that waits is admitted, or gives up, even if nobody times out:
\* tickets of dead and hung processes do not block the queue.
QueueMoves == \A r \in Requests : (pc[r] = "queued") ~> (pc[r] # "queued")
=============================================================================
