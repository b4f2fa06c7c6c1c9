---------------------------- MODULE RateLimiter ----------------------------
(***************************************************************************)
(* The sliding-window limiter of src/src/services/queue/RateLimiter.ts.    *)
(*                                                                         *)
(* One Redis sorted set holds an entry per check made in the last window.  *)
(* checkLimit sends one MULTI (prune, count, add, expire), which Redis     *)
(* runs as one step, and then, when the count is not zero, a separate      *)
(* ZRANGE for the oldest entry: other callers run between the two.  The    *)
(* set lives in Redis and survives a restart of the process; the checks in *)
(* flight do not.                                                          *)
(*                                                                         *)
(* Time is Date.now() in abstract units.  A check reads it and queues its  *)
(* MULTI in one synchronous block and Redis runs the commands of one       *)
(* connection in order, so the MULTI is placed at the time the check read. *)
(***************************************************************************)
EXTENDS Integers, FiniteSets

CONSTANTS
    Callers,        \* the asynchronous activities that may be inside the limiter
    maxRequests,    \* RateLimiterConfig.maxRequests
    windowMs,       \* RateLimiterConfig.windowMs, in units of time
    keyTtl,         \* EXPIRE of the key: ceil(windowMs / 1000) + 1 seconds
    MaxTime,        \* bound: last instant of the clock
    MaxChecks       \* bound: how many checks a behaviour makes

ASSUME LimiterAssumption ==
    /\ maxRequests \in Nat \ {0}
    /\ windowMs \in Nat \ {0}
    /\ keyTtl \in Nat /\ keyTtl >= windowMs
    /\ MaxTime \in Nat /\ MaxChecks \in Nat

VARIABLES
    now,        \* Date.now()
    redisOpen,  \* redisClient.isOpen, what getRedisClient() tests
    requests,   \* the sorted set "ratelimit:<name>:requests"
    check,      \* check[c]: the limiter call c is inside, and its answer
    checks,     \* how many members were ever added (stands for Math.random())
    granted     \* history: the last windowMs of checks that were under the limit

limiterVars == <<now, redisOpen, requests, check, checks, granted>>

\* A member `${now}:${Math.random()}` with its score.
Entry == [score : Nat, id : Nat]

Stages == {"idle", "counted", "answered", "threw", "pruned", "status"}

\* at: the "now" of the call; counted: the members its ZCARD counted;
\* allowed, resetIn: the answer.
NoCheck == [stage |-> "idle", at |-> 0, counted |-> {}, id |-> 0,
            allowed |-> FALSE, resetIn |-> 0]

CheckRecord == [stage : Stages, at : Nat, counted : SUBSET Entry, id : Nat,
                allowed : BOOLEAN, resetIn : Nat]

\* A call that starts now.
Started(stage, allowed) ==
    [stage |-> stage, at |-> now, counted |-> {}, id |-> checks,
     allowed |-> allowed, resetIn |-> 0]

(***************************************************************************)
(* The arithmetic of checkLimit.                                           *)
(***************************************************************************)
\* Mutant: the prune drops an entry one unit early.
InWindowShort(r, t) == r.score > t - windowMs + 1

\* ZREMRANGEBYSCORE -inf..windowStart keeps what is strictly younger.
InWindow(r, t) == r.score > t - windowMs

\* Mutant: "<=" for "<".
UnderLimitInclusive(count) == count <= maxRequests

UnderLimit(count) == count < maxRequests

\* Math.max(0, oldestTime + windowMs - now), with the "now" of the call.
ResetIn(oldest, at) ==
    IF oldest + windowMs > at THEN oldest + windowMs - at ELSE 0

-----------------------------------------------------------------------------
LimiterInit ==
    /\ now = 0
    /\ redisOpen = TRUE
    /\ requests = {}
    /\ check = [c \in Callers |-> NoCheck]
    /\ checks = 0
    /\ granted = {}

\* The MULTI of checkLimit, run by Redis: prune, count, add (whatever the
\* count says), expire.  An empty window is answered without a second read.
CheckLimit(c) ==
    /\ check[c].stage = "idle"
    /\ redisOpen
    /\ checks < MaxChecks
    /\ LET counted == {r \in requests : InWindow(r, now)}
           entry   == [score |-> now, id |-> checks]
           under   == UnderLimit(Cardinality(counted))
       IN  /\ requests' = counted \cup {entry}
           /\ granted' = IF under THEN granted \cup {entry} ELSE granted
           /\ check' = [check EXCEPT ![c] =
                 [stage   |-> IF counted = {} THEN "answered" ELSE "counted",
                  at      |-> now,
                  counted |-> counted,
                  id      |-> checks,
                  allowed |-> under,
                  resetIn |-> windowMs]]
    /\ checks' = checks + 1
    /\ UNCHANGED <<now, redisOpen>>

\* Mutant: the wait is computed from the clock at the time of the reply.
ReadOldestLate(c) ==
    /\ check[c].stage = "counted"
    /\ redisOpen
    /\ \/ /\ requests = {}
          /\ check' = [check EXCEPT ![c].stage = "answered"]
       \/ \E oldest \in requests :
             /\ \A r \in requests : oldest.score <= r.score
             /\ check' = [check EXCEPT ![c].stage = "answered",
                                       ![c].resetIn = ResetIn(oldest.score, now)]
    /\ UNCHANGED <<now, redisOpen, requests, checks, granted>>

\* Mutant: the test for an empty reply is dropped, so that the wait is not a
\* number (-1 stands for NaN).
ReadOldestUnchecked(c) ==
    /\ check[c].stage = "counted"
    /\ redisOpen
    /\ \/ /\ requests = {}
          /\ check' = [check EXCEPT ![c].stage = "answered", ![c].resetIn = -1]
       \/ \E oldest \in requests :
             /\ \A r \in requests : oldest.score <= r.score
             /\ check' = [check EXCEPT
                    ![c].stage = "answered",
                    ![c].resetIn = ResetIn(oldest.score, check[c].at)]
    /\ UNCHANGED <<now, redisOpen, requests, checks, granted>>

\* The reply to ZRANGE 0 0: by now other checks may have pruned and added,
\* and the key may have expired or been deleted.
ReadOldest(c) ==
    /\ check[c].stage = "counted"
    /\ redisOpen
    /\ \/ /\ requests = {}
          /\ check' = [check EXCEPT ![c].stage = "answered"]
       \/ \E oldest \in requests :
             /\ \A r \in requests : oldest.score <= r.score
             /\ check' = [check EXCEPT
                    ![c].stage = "answered",
                    ![c].resetIn = ResetIn(oldest.score, check[c].at)]
    /\ UNCHANGED <<now, redisOpen, requests, checks, granted>>

\* The MULTI is rejected: the caller is let through.  When only the reply
\* was lost, Redis has run it.
CheckError(c) ==
    /\ check[c].stage = "idle"
    /\ redisOpen
    /\ checks < MaxChecks
    /\ check' = [check EXCEPT ![c] = Started("answered", TRUE)]
    /\ \/ UNCHANGED requests
       \/ requests' = {r \in requests : InWindow(r, now)}
                        \cup {[score |-> now, id |-> checks]}
    /\ checks' = checks + 1
    /\ UNCHANGED <<now, redisOpen, granted>>

\* The ZRANGE is rejected: the same handler lets the caller through, even
\* one whose count was over the limit.
OldestError(c) ==
    /\ check[c].stage = "counted"
    /\ check' = [check EXCEPT ![c].stage = "answered",
                              ![c].allowed = TRUE,
                              ![c].resetIn = 0]
    /\ UNCHANGED <<now, redisOpen, requests, checks, granted>>

\* getRedisClient() is called before the try: a closed client throws out of
\* checkLimit (and of getStatus and reset).
CheckThrows(c) ==
    /\ check[c].stage = "idle"
    /\ ~redisOpen
    /\ checks < MaxChecks
    /\ check' = [check EXCEPT ![c] = Started("threw", FALSE)]
    /\ checks' = checks + 1
    /\ UNCHANGED <<now, redisOpen, requests, granted>>

\* The caller goes on with the answer, or with the exception.
Return(c) ==
    /\ check[c].stage \in {"answered", "threw", "status"}
    /\ check' = [check EXCEPT ![c] = NoCheck]
    /\ UNCHANGED <<now, redisOpen, requests, checks, granted>>

\* getStatus: prune with the time of the call ...
StatusPrune(c) ==
    /\ check[c].stage = "idle"
    /\ redisOpen
    /\ requests' = {r \in requests : InWindow(r, now)}
    /\ check' = [check EXCEPT ![c] = Started("pruned", FALSE)]
    /\ UNCHANGED <<now, redisOpen, checks, granted>>

\* ... and count in a second round trip; an error reports "allowed".
StatusCount(c) ==
    /\ check[c].stage = "pruned"
    /\ \/ check' = [check EXCEPT
              ![c].stage = "status",
              ![c].allowed = UnderLimit(Cardinality(requests)),
              ![c].resetIn = windowMs]
       \/ check' = [check EXCEPT ![c].stage = "status", ![c].allowed = TRUE]
    /\ UNCHANGED <<now, redisOpen, requests, checks, granted>>

\* reset(): DEL.  A reset hands out a fresh quota, so the history restarts.
Reset ==
    /\ redisOpen
    /\ requests # {}
    /\ requests' = {}
    /\ granted' = {}
    /\ UNCHANGED <<now, redisOpen, check, checks>>

\* The EXPIRE of the last added member runs out.
KeyExpires ==
    /\ requests # {}
    /\ \A r \in requests : now >= r.score + keyTtl
    /\ requests' = {}
    /\ UNCHANGED <<now, redisOpen, check, checks, granted>>

\* The client gives up reconnecting (retries > 10) or is quit at shutdown.
RedisCloses ==
    /\ redisOpen
    /\ redisOpen' = FALSE
    /\ UNCHANGED <<now, requests, check, checks, granted>>

\* A crash and a restart: connectRedis() again, the calls in flight are gone.
Restart ==
    /\ redisOpen' = TRUE
    /\ check' = [c \in Callers |-> NoCheck]
    /\ UNCHANGED <<now, requests, checks, granted>>

Tick ==
    /\ now < MaxTime
    /\ now' = now + 1
    /\ granted' = {g \in granted : g.score + windowMs > now + 1}
    /\ UNCHANGED <<redisOpen, requests, check, checks>>

LimiterStep(c) ==
    \/ CheckLimit(c) \/ ReadOldest(c) \/ CheckError(c) \/ OldestError(c)
    \/ CheckThrows(c) \/ Return(c) \/ StatusPrune(c) \/ StatusCount(c)

LimiterNext ==
    \/ \E c \in Callers : LimiterStep(c)
    \/ Reset \/ KeyExpires \/ RedisCloses \/ Restart \/ Tick

\* A behaviour of the limiter, whoever calls it.  ShyftClient is checked to
\* keep to it: whatever withRetry does to the limiter, a restart of the process
\* included, is a step of the limiter, so that what is proved about the limiter
\* holds of the grants of those calls (ShyftClient.ts:104-112).
LimiterSpec == LimiterInit /\ [][LimiterNext]_limiterVars

-----------------------------------------------------------------------------
\* The types: in particular the wait of an answer is never negative or not a
\* number (RateLimiter.ts:83-105).
LimiterTypeOK ==
    /\ now \in Nat
    /\ redisOpen \in BOOLEAN
    /\ requests \in SUBSET Entry
    /\ check \in [Callers -> CheckRecord]
    /\ checks \in Nat
    /\ granted \in SUBSET Entry

\* In no window of length windowMs, wherever it ends, does the limiter grant
\* by counting more than maxRequests checks: not with checks interleaved at
\* will, with status reads pruning the set, with Redis failing in between,
\* with the key expiring, or across a restart of the process
\* (RateLimiter.ts:53-120).  granted holds the grants of the window that ends
\* now; checks let through on a Redis error are not grants by counting.
SlidingWindow == Cardinality(granted) <= maxRequests

\* Waiting resetIn is never in vain: once a denied caller has waited what its
\* answer says, at least one of the entries it was denied for has left the
\* window, although the oldest entry was read after the count, with other
\* callers' checks in between (RateLimiter.ts:83-90).
ResetInSound ==
    \A c \in Callers :
        check[c].stage = "answered" /\ ~check[c].allowed =>
            \E r \in check[c].counted :
                r.score + windowMs <= check[c].at + check[c].resetIn

=============================================================================
