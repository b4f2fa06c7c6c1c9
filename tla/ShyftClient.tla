---------------------------- MODULE ShyftClient ----------------------------
(***************************************************************************)
(* ShyftClient.withRetry (src/src/services/external/ShyftClient.ts:96-152) *)
(* over the shared limiter: every REST call of the program goes through it.*)
(*                                                                         *)
(* A call makes up to maxRetries attempts.  An attempt asks the limiter;   *)
(* when denied it sleeps resetIn + 100 ms and then runs the operation      *)
(* without asking again.  An error decides how the call goes on: 429       *)
(* sleeps twice the delay, 417 gives up at once, anything else (a throwing *)
(* limiter included) sleeps the delay if an attempt is left.               *)
(***************************************************************************)
EXTENDS RateLimiter

CONSTANTS
    maxRetries,     \* attempts per call
    retryDelayMs,   \* base of the exponential backoff
    sleepMargin,    \* the 100 ms added to resetIn
    MaxCalls,       \* bound: calls of withRetry in a behaviour
    RedisFails      \* bound: whether Redis may reject a command or close

ASSUME ClientAssumption ==
    /\ maxRetries \in Nat \ {0}
    /\ retryDelayMs \in Nat \ {0} /\ sleepMargin \in Nat \ {0}
    /\ MaxCalls \in Nat /\ RedisFails \in BOOLEAN

VARIABLES
    call,       \* call[c]: where the call of c is in withRetry
    calls,      \* how many calls were made
    paid        \* history: the checks that an operation went ahead under

vars == <<now, redisOpen, requests, check, checks, granted, call, calls, paid>>

\* "checking": inside checkLimit; "waiting": the sleep of a denied attempt;
\* "running": the operation is in flight; "backoff": the sleep of the handler.
Idle == [stage |-> "idle", attempt |-> 1, wake |-> 0, id |-> 0, counted |-> {}]

-----------------------------------------------------------------------------
Init ==
    /\ LimiterInit
    /\ call = [c \in Callers |-> Idle]
    /\ calls = 0
    /\ paid = {}

\* checkLimit as the client meets it: it answers, fails open, or throws.
AskLimiter(c) ==
    \/ CheckLimit(c)
    \/ RedisFails /\ CheckError(c)
    \/ CheckThrows(c)

\* A new call: attempt 1 begins with the limiter.
Begin(c) ==
    /\ call[c].stage = "idle"
    /\ calls < MaxCalls
    /\ calls' = calls + 1
    /\ call' = [call EXCEPT ![c] = [Idle EXCEPT !.stage = "checking"]]
    /\ AskLimiter(c)
    /\ UNCHANGED paid

\* The reply to the limiter's second command.
LimiterReplies(c) ==
    /\ call[c].stage = "checking"
    /\ ReadOldest(c) \/ (RedisFails /\ OldestError(c))
    /\ UNCHANGED <<call, calls, paid>>

\* The request leaves for the REST API, under the check id.
Run(c, id) ==
    /\ paid' = paid \cup {id}
    /\ call' = [call EXCEPT ![c] = [Idle EXCEPT !.stage = "running",
                                               !.attempt = call[c].attempt,
                                               !.id = id]]

\* Allowed: run the operation.
Allowed(c) ==
    /\ call[c].stage = "checking"
    /\ check[c].stage = "answered" /\ check[c].allowed
    /\ Run(c, check[c].id)
    /\ Return(c)
    /\ UNCHANGED calls

\* Mutant: the sleep forgets resetIn.
DeniedMarginOnly(c) ==
    /\ call[c].stage = "checking"
    /\ check[c].stage = "answered" /\ ~check[c].allowed
    /\ call' = [call EXCEPT ![c].stage = "waiting",
                            ![c].wake = now + sleepMargin,
                            ![c].id = check[c].id,
                            ![c].counted = check[c].counted]
    /\ Return(c)
    /\ UNCHANGED <<calls, paid>>

\* Denied: sleep(resetIn + 100).
Denied(c) ==
    /\ call[c].stage = "checking"
    /\ check[c].stage = "answered" /\ ~check[c].allowed
    /\ call' = [call EXCEPT ![c].stage = "waiting",
                            ![c].wake = now + check[c].resetIn + sleepMargin,
                            ![c].id = check[c].id,
                            ![c].counted = check[c].counted]
    /\ Return(c)
    /\ UNCHANGED <<calls, paid>>

\* The sleep of a denied attempt ends: the operation runs, unchecked.
Awake(c) ==
    /\ call[c].stage = "waiting"
    /\ now >= call[c].wake
    /\ Run(c, call[c].id)
    /\ UNCHANGED <<limiterVars, calls>>

delay(c) == retryDelayMs * 2 ^ (call[c].attempt - 1)

Sleep(c, ms) ==
    call' = [call EXCEPT ![c].stage = "backoff", ![c].wake = now + ms]

\* The call returns or throws to its caller.
Settle(c) == call' = [call EXCEPT ![c] = Idle]

\* The generic branch of the catch: sleep only if an attempt is left.
Fail(c) ==
    IF call[c].attempt < maxRetries THEN Sleep(c, delay(c)) ELSE Settle(c)

\* checkLimit threw inside the try: an error like any other.
LimiterThrew(c) ==
    /\ call[c].stage = "checking"
    /\ check[c].stage = "threw"
    /\ Fail(c)
    /\ Return(c)
    /\ UNCHANGED <<calls, paid>>

\* The REST API answers: success or 417 settle the call, 429 sleeps twice the
\* delay (after the last attempt too), other errors take the generic branch.
Answered(c) ==
    /\ call[c].stage = "running"
    /\ Settle(c) \/ Sleep(c, 2 * delay(c)) \/ Fail(c)
    /\ UNCHANGED <<limiterVars, calls, paid>>

\* Mutant: the limiter is asked once per call, before the loop: the retry runs
\* under the check of the attempt before.
RetryUnchecked(c) ==
    /\ call[c].stage = "backoff"
    /\ now >= call[c].wake
    /\ call[c].attempt < maxRetries
    /\ paid' = paid \cup {call[c].id}
    /\ call' = [call EXCEPT ![c].stage = "running", ![c].attempt = @ + 1]
    /\ UNCHANGED <<limiterVars, calls>>

\* The handler's sleep ends and the loop goes round: the next attempt asks
\* the limiter again.
Retry(c) ==
    /\ call[c].stage = "backoff"
    /\ now >= call[c].wake
    /\ call[c].attempt < maxRetries
    /\ call' = [call EXCEPT ![c] =
            [Idle EXCEPT !.stage = "checking", !.attempt = call[c].attempt + 1]]
    /\ AskLimiter(c)
    /\ UNCHANGED <<calls, paid>>

\* Mutant: the end of the loop is missed by one.
GiveUpLate(c) ==
    /\ call[c].stage = "backoff"
    /\ now >= call[c].wake
    /\ call[c].attempt > maxRetries
    /\ Settle(c)
    /\ UNCHANGED <<limiterVars, calls, paid>>

\* ... or the loop is over: throw lastError.
GiveUp(c) ==
    /\ call[c].stage = "backoff"
    /\ now >= call[c].wake
    /\ call[c].attempt = maxRetries
    /\ Settle(c)
    /\ UNCHANGED <<limiterVars, calls, paid>>

\* Mutant: the process empties the sorted set when it starts.
RestartClearing ==
    /\ redisOpen' = TRUE
    /\ requests' = {}
    /\ check' = [c \in Callers |-> NoCheck]
    /\ call' = [c \in Callers |-> Idle]
    /\ UNCHANGED <<now, checks, granted, calls, paid>>

\* A crash and a restart of the process: the calls in flight are gone, the
\* sorted set is not.
ProcessRestarts ==
    /\ Restart
    /\ call' = [c \in Callers |-> Idle]
    /\ UNCHANGED <<calls, paid>>

ConnectionEnds ==
    /\ RedisFails
    /\ RedisCloses
    /\ UNCHANGED <<call, calls, paid>>

EntriesExpire ==
    /\ KeyExpires
    /\ UNCHANGED <<call, calls, paid>>

\* Time passes while something depends on it: a sleep, or a live key.
TimePasses ==
    /\ \/ \E c \in Callers : call[c].stage \in {"waiting", "backoff"} /\ now < call[c].wake
       \/ \E r \in requests : now < r.score + keyTtl
    /\ Tick
    /\ UNCHANGED <<call, calls, paid>>

\* What a call in progress does next, whoever makes it move.
Progress(c) ==
    \/ LimiterReplies(c) \/ Allowed(c) \/ Denied(c) \/ Awake(c)
    \/ LimiterThrew(c) \/ Answered(c) \/ Retry(c) \/ GiveUp(c)

Next ==
    \/ \E c \in Callers : Begin(c) \/ Progress(c)
    \/ ProcessRestarts \/ ConnectionEnds \/ EntriesExpire \/ TimePasses

Spec == Init /\ [][Next]_vars

\* Timers fire, replies arrive and the API answers or the request fails:
\* every asynchronous step a call waits for happens.
FairSpec == Spec /\ WF_vars(TimePasses) /\ \A c \in Callers : WF_vars(Progress(c))

-----------------------------------------------------------------------------
\* The types of the calls: none makes more than maxRetries attempts
\* (ShyftClient.ts:102).
ClientTypeOK ==
    /\ call \in [Callers ->
          [stage : {"idle", "checking", "waiting", "running", "backoff"},
           attempt : 1 .. maxRetries, wake : Nat, id : Nat,
           counted : SUBSET Entry]]
    /\ calls \in 0 .. MaxCalls
    /\ paid \in SUBSET Nat

\* This step sends the request of c.
Sends(c) == call[c].stage # "running" /\ call'[c].stage = "running"

\* A denied attempt never goes ahead before one of the entries it was denied
\* for has left the window (ShyftClient.ts:106-112): not when other callers
\* added and pruned between the count and the read of the oldest entry, not
\* after an expiry of the key.
DenialHonoured ==
    [][\A c \in Callers : Sends(c) /\ call[c].stage = "waiting" =>
           \E r \in call[c].counted : r.score + windowMs < now]_vars

\* Every operation is paid for by a check of its own: none goes ahead under a
\* check that was not made, or under one that an operation went ahead under at
\* any time before, be it of an earlier attempt, an earlier call or another
\* caller, and whether the check was granted, denied or let through on a Redis
\* error, before a restart or after it (ShyftClient.ts:102-114).
EveryOperationPaid ==
    [][\A c \in Callers : Sends(c) =>
           call'[c].id < checks /\ call'[c].id \notin paid]_vars

\* Every call returns or throws: no combination of denials, errors, a closed
\* Redis and other callers keeps it in the loop (ShyftClient.ts:102-148).
CallsSettle ==
    \A c \in Callers : call[c].stage # "idle" ~> call[c].stage = "idle"
=============================================================================
