------------------------------ MODULE TokenCache ------------------------------
(***************************************************************************)
(* CachedTokenProvider: the controllers of the manager share one cache of  *)
(* GitHub App installation tokens.  A controller reads the private key     *)
(* from its Secret and asks the cache for a token; the cache asks GitHub   *)
(* for a new one when it has none, or one that expires soon, and holds its *)
(* only mutex until GitHub has answered.                                   *)
(*                                                                         *)
(* The address, the application and the installation are one with the key  *)
(* here: `Credentials' are the things for which a token can be asked.      *)
(***************************************************************************)
EXTENDS Integers

CONSTANTS
    Controllers,       \* the controllers, each with one reconcile at a time
    Credentials,
    Nobody,        \* the mutex is free
    Lifetimes,     \* how long GitHub makes a token live
    Margin,        \* installationRefreshMargin
    MaxTime,       \* bound: the clock
    MaxFailures    \* bound: requests that fail, answers that are lost

ASSUME NobodyAssumption == Nobody \notin Controllers
ASSUME TimesAssumption ==
    /\ Lifetimes \subseteq Int
    /\ Margin \in Nat /\ MaxTime \in Nat /\ MaxFailures \in Nat

\* The zero time stands for an entry that is not there.
Tokens == [for : Credentials, expires : Int]

VARIABLES
    clock,
    credentials,   \* what the Secret holds
    cache,         \* per credentials: the token kept for them, of any owner
    mutex,
    stage,
    wanted,        \* per worker: the credentials that it has read
    token,         \* per worker: the token in its hands
    failures,
    longest        \* history: per credentials, the last expiry among the tokens
                   \* received for them

tokenVars == <<clock, credentials, cache, mutex, stage, wanted, token, failures, longest>>

NoToken(c) == [for |-> c, expires |-> 0]

TokenInit ==
    /\ clock = 0
    /\ credentials \in Credentials
    /\ cache = [c \in Credentials |-> NoToken(c)]
    /\ mutex = Nobody
    /\ stage = [w \in Controllers |-> "idle"]
    /\ wanted = [w \in Controllers |-> credentials]
    /\ token = [w \in Controllers |-> NoToken(credentials)]
    /\ failures = 0
    /\ longest = [c \in Credentials |-> 0]

Moves(w, label) == stage' = [stage EXCEPT ![w] = label]

\* Wrong: the key of the cache leaves out the private key.
InstallationTokenCacheKey_NoHash(c) == CHOOSE any \in Credentials : TRUE

\* installationTokenCacheKey
InstallationTokenCacheKey(c) == c

\* What the cache has for a worker, and whether it lives long enough.
Cached(w) == cache[InstallationTokenCacheKey(wanted[w])]
Usable(w) == clock + Margin < Cached(w).expires

\* resolveProviderToken reads the Secret, and asks.
ReadCredentials(w) ==
    /\ stage[w] = "idle"
    /\ wanted' = [wanted EXCEPT ![w] = credentials]
    /\ Moves(w, "waiting")
    /\ UNCHANGED <<clock, credentials, cache, mutex, token, failures, longest>>

\* Wrong: the mutex is given back before the request.
Lock_Released(w) ==
    /\ stage[w] = "waiting" /\ mutex = Nobody
    /\ IF Usable(w)
         THEN token' = [token EXCEPT ![w] = Cached(w)] /\ Moves(w, "using")
         ELSE Moves(w, "requesting") /\ UNCHANGED token
    /\ UNCHANGED <<clock, credentials, cache, mutex, wanted, failures, longest>>

\* Under the mutex: the cached token, or a request that keeps the mutex.
Lock(w) ==
    /\ stage[w] = "waiting" /\ mutex = Nobody
    /\ \/ /\ Usable(w)
          /\ token' = [token EXCEPT ![w] = Cached(w)]
          /\ Moves(w, "using")
          /\ UNCHANGED mutex
       \/ /\ ~Usable(w)
          /\ mutex' = w
          /\ Moves(w, "requesting")
          /\ UNCHANGED token
    /\ UNCHANGED <<clock, credentials, cache, wanted, failures, longest>>

\* GitHub issues a token.
Issue(w) ==
    /\ stage[w] = "requesting"
    /\ \E life \in Lifetimes :
          token' = [token EXCEPT ![w] = [for |-> wanted[w], expires |-> clock + life]]
    /\ Moves(w, "answered")
    /\ UNCHANGED <<clock, credentials, cache, mutex, wanted, failures, longest>>

\* The answer is kept, whatever time the token has left, and used.
Keep(w) ==
    /\ stage[w] = "answered"
    /\ cache' = [cache EXCEPT ![InstallationTokenCacheKey(wanted[w])] = token[w]]
    /\ longest' = [longest EXCEPT ![wanted[w]] =
                      IF token[w].expires > @ THEN token[w].expires ELSE @]
    /\ mutex' = Nobody
    /\ Moves(w, "using")
    /\ UNCHANGED <<clock, credentials, wanted, token, failures>>

\* The worker returns, without its token.
Forget(w) == Moves(w, "idle") /\ token' = [token EXCEPT ![w] = NoToken(wanted[w])]

\* Wrong: a return without the deferred unlock.
Fail_Locked(w) ==
    /\ stage[w] \in {"requesting", "answered"}
    /\ failures < MaxFailures /\ failures' = failures + 1
    /\ Forget(w)
    /\ UNCHANGED <<clock, credentials, cache, mutex, wanted, longest>>

\* The request or its answer is lost or refused, the key cannot be read, the
\* gate of the transport is closed: nothing is kept, the reconcile comes back.
Fail(w) ==
    /\ stage[w] \in {"requesting", "answered"}
    /\ failures < MaxFailures /\ failures' = failures + 1
    /\ mutex' = Nobody
    /\ Forget(w)
    /\ UNCHANGED <<clock, credentials, cache, wanted, longest>>

\* The reconcile has made its calls.
Finish(w) ==
    /\ stage[w] = "using"
    /\ Forget(w)
    /\ UNCHANGED <<clock, credentials, cache, mutex, wanted, failures, longest>>

\* Somebody replaces the private key in the Secret.
Rotate ==
    /\ credentials' \in Credentials \ {credentials}
    /\ UNCHANGED <<clock, cache, mutex, stage, wanted, token, failures, longest>>

ClockTick ==
    /\ clock < MaxTime
    /\ clock' = clock + 1
    /\ UNCHANGED <<credentials, cache, mutex, stage, wanted, token, failures, longest>>

Request(w) == Issue(w) \/ Keep(w) \/ Fail(w)

TokenNext ==
    \/ ClockTick \/ Rotate
    \/ \E w \in Controllers : ReadCredentials(w) \/ Lock(w) \/ Request(w) \/ Finish(w)

\* A request ends, for the client has a timeout; sync.Mutex does not let a
\* waiter starve.
TokenFairness == \A w \in Controllers :
    /\ WF_tokenVars(ReadCredentials(w)) /\ WF_tokenVars(Request(w)) /\ WF_tokenVars(Finish(w))
    /\ SF_tokenVars(Lock(w))

TokenSpec == TokenInit /\ [][TokenNext]_tokenVars
FairTokenSpec == TokenSpec /\ TokenFairness

-----------------------------------------------------------------------------
(* Properties *)

Stages == {"idle", "waiting", "requesting", "answered", "using"}

\* Types; the mutex is with the worker whose request is under way.
TokenTypeOK ==
    /\ clock \in Nat /\ credentials \in Credentials /\ failures \in 0..MaxFailures
    /\ cache \in [Credentials -> Tokens]
    /\ mutex \in Controllers \cup {Nobody}
    /\ stage \in [Controllers -> Stages]
    /\ wanted \in [Controllers -> Credentials]
    /\ token \in [Controllers -> Tokens]
    /\ longest \in [Credentials -> Int]
    /\ \A w \in Controllers : stage[w] \in {"requesting", "answered"} <=> mutex = w

\* A reconcile calls GitHub with a token of the credentials that it has read, never
\* with one left over from a key that was replaced before (installationTokenCacheKey).
TokenOfCredentials ==
    \A w \in Controllers : stage[w] = "using" => token[w].for = wanted[w]

\* GitHub is asked for a token only when none that it has given for the same
\* credentials lives longer than the margin: controllers that start together
\* share the first one (ResolveToken's mutex).
NoTokenWasted ==
    [][\A w \in Controllers : stage[w] = "requesting" /\ stage'[w] = "answered" =>
          longest[wanted[w]] <= clock + Margin]_tokenVars

\* One slow or failed request holds everybody up, but nobody for ever.
EverybodyIsServed == \A w \in Controllers : []<>(stage[w] = "using")
=============================================================================
