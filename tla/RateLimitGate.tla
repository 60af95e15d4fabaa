---------------------------- MODULE RateLimitGate ----------------------------
(***************************************************************************)
(* The HTTP transport that all controllers of the manager share: one gate, *)
(* closed by an answer in which GitHub says that it is called too often,   *)
(* until the time that this answer names.  The gate is asked and closed    *)
(* under a lock; the request, and the metric that shows the gate, are not. *)
(***************************************************************************)
EXTENDS Integers, FiniteSets

CONSTANTS
    Workers,     \* the controllers, each with one request at a time
    Delays,      \* how far ahead, in seconds, the time in an answer is; a date
                 \* that has passed is behind
    MaxLimits    \* bound: answers of this kind

ASSUME DelaysAssumption == Delays \subseteq Int
ASSUME MaxLimitsAssumption == MaxLimits \in Nat

VARIABLES
    now,
    blockedUntil,   \* the gate; 0 is the zero time
    gauge,          \* rate_limit_blocked_until_timestamp_seconds
    pc,
    retryAt,        \* per worker: RetryAt of the answer it is handling
    until,          \* per worker: what block returned, until it is used
    wakeAt,         \* per worker: when its resource comes back (RequeueAfter)
    limits,         \* limiting answers so far
    told,           \* history: the latest time that any such answer, once handled,
                    \* has named
    overran         \* history: who has called GitHub since the gate was closed

gateVars == <<now, blockedUntil, gauge, pc, retryAt, until, wakeAt, limits, told, overran>>

Later(a, b) == IF a > b THEN a ELSE b

GateInit ==
    /\ now = 1 /\ blockedUntil = 0 /\ gauge = 0
    /\ pc = [w \in Workers |-> "idle"]
    /\ retryAt = [w \in Workers |-> 0]
    /\ until = [w \in Workers |-> 0]
    /\ wakeAt = [w \in Workers |-> 0]
    /\ limits = 0
    /\ told = 0 /\ overran = {}

Closed == blockedUntil > now

At(w, label) == pc' = [pc EXCEPT ![w] = label]

\* RateLimitError.RetryAfter: a second at least.
RetryAfter(time) == Later(time, now + 1)

\* Wrong: one refused reconcile comes back, the others do not.
CurrentError_OneWaits(w) ==
    /\ pc[w] = "idle" /\ wakeAt[w] <= now
    /\ IF Closed /\ \A v \in Workers : wakeAt[v] <= now
         THEN /\ wakeAt' = [wakeAt EXCEPT ![w] = RetryAfter(blockedUntil)]
              /\ UNCHANGED pc
         ELSE /\ At(w, IF Closed THEN "dropped" ELSE "send")
              /\ UNCHANGED wakeAt
    /\ UNCHANGED <<now, blockedUntil, gauge, retryAt, until, limits, told, overran>>

\* Wrong: every client has a gate of its own.
CurrentError_Unshared(w) ==
    /\ pc[w] = "idle" /\ wakeAt[w] <= now
    /\ At(w, "send")
    /\ UNCHANGED <<now, blockedUntil, gauge, retryAt, until, wakeAt, limits, told, overran>>

\* currentError: a request passes while the gate is open; otherwise its
\* reconcile comes back when the gate opens.
CurrentError(w) ==
    /\ pc[w] = "idle" /\ wakeAt[w] <= now
    /\ \/ ~Closed /\ At(w, "send") /\ UNCHANGED wakeAt
       \/ /\ Closed
          /\ wakeAt' = [wakeAt EXCEPT ![w] = RetryAfter(blockedUntil)]
          /\ UNCHANGED pc
    /\ UNCHANGED <<now, blockedUntil, gauge, retryAt, until, limits, told, overran>>

\* The resource comes back for another reason: it was edited, or a
\* dependency.
Event(w) ==
    /\ pc[w] = "idle" /\ wakeAt[w] > now
    /\ wakeAt' = [wakeAt EXCEPT ![w] = now]
    /\ UNCHANGED <<now, blockedUntil, gauge, pc, retryAt, until, limits, told, overran>>

\* The request reaches GitHub.
Send(w) ==
    /\ pc[w] = "send"
    /\ At(w, "sent")
    /\ overran' = IF Closed THEN overran \cup {w} ELSE overran
    /\ UNCHANGED <<now, blockedUntil, gauge, retryAt, until, wakeAt, limits, told>>

\* An answer that names no limit, or a failed transport.
Answer(w) ==
    /\ pc[w] = "sent"
    /\ At(w, "idle")
    /\ UNCHANGED <<now, blockedUntil, gauge, retryAt, until, wakeAt, limits, told, overran>>

\* rateLimitErrorFromResponse: Retry-After, the reset time or a minute, and one
\* second on top.
Limit(w) ==
    /\ pc[w] = "sent" /\ limits < MaxLimits
    /\ limits' = limits + 1
    /\ \E delay \in Delays : retryAt' = [retryAt EXCEPT ![w] = now + delay + 1]
    /\ At(w, "limited")
    /\ UNCHANGED <<now, blockedUntil, gauge, until, wakeAt, told, overran>>

\* Wrong: the last answer counts, not the latest time.
NewLimit_Last(w) == retryAt[w]

\* The gate only ever closes for longer.
NewLimit(w) == Later(blockedUntil, retryAt[w])

Block(w) ==
    /\ pc[w] = "limited"
    /\ blockedUntil' = NewLimit(w)
    /\ until' = [until EXCEPT ![w] = blockedUntil']
    /\ told' = Later(told, retryAt[w])
    /\ overran' = IF Closed THEN overran ELSE {}
    /\ At(w, "observe")
    /\ UNCHANGED <<now, gauge, retryAt, wakeAt, limits>>

\* observeRateLimit, and the error returned to the reconcile: it carries the
\* time of the worker's own answer.
Observe(w) ==
    /\ pc[w] = "observe"
    /\ gauge' = until[w]
    /\ wakeAt' = [wakeAt EXCEPT ![w] = RetryAfter(retryAt[w])]
    /\ At(w, "idle")
    /\ retryAt' = [retryAt EXCEPT ![w] = 0] /\ until' = [until EXCEPT ![w] = 0]
    /\ UNCHANGED <<now, blockedUntil, limits, told, overran>>

\* Time passes while anybody waits for it.
Tick ==
    /\ Closed \/ \E w \in Workers : wakeAt[w] > now
    /\ now' = now + 1
    /\ UNCHANGED <<blockedUntil, gauge, pc, retryAt, until, wakeAt, limits, told, overran>>

RoundTrip(w) ==
    CurrentError(w) \/ Send(w) \/ Answer(w) \/ Limit(w) \/ Block(w) \/ Observe(w)

GateNext == Tick \/ \E w \in Workers : RoundTrip(w) \/ Event(w)

GateFairness == WF_gateVars(Tick) /\ \A w \in Workers : WF_gateVars(RoundTrip(w))

GateSpec == GateInit /\ [][GateNext]_gateVars
FairGateSpec == GateSpec /\ GateFairness

-----------------------------------------------------------------------------
(* Properties *)

PCs == {"idle", "send", "sent", "limited", "observe"}

\* Types; the gauge never shows a time that the gate has not reached.
GateTypeOK ==
    /\ now \in Nat /\ limits \in 0..MaxLimits
    /\ blockedUntil \in Int /\ gauge \in Int /\ told \in Int
    /\ pc \in [Workers -> PCs]
    /\ retryAt \in [Workers -> Int] /\ until \in [Workers -> Int]
    /\ wakeAt \in [Workers -> Int]
    /\ overran \subseteq Workers
    /\ gauge <= blockedUntil

\* A request passes the gate only when every limit that was handled before has
\* run out, in whatever order the answers came.
PassesAfterLimits ==
    [][\A w \in Workers : pc[w] = "idle" /\ pc'[w] = "send" => told <= now]_gateVars

\* A request on its way when the gate closes is still sent, but only that one: no
\* worker calls GitHub twice while the gate stays closed.
OneOverrunEach ==
    [][\A w \in Workers : pc[w] = "send" /\ pc'[w] = "sent" /\ Closed => w \notin overran]_gateVars

\* Nobody is shut out: once GitHub stops limiting, every worker gets through,
\* again and again.
EverybodyGetsThrough == \A w \in Workers : []<>(pc[w] = "sent")
=============
