------------------------ MODULE TransactionStreamer ------------------------
(***************************************************************************)
(* The life of the transaction stream: start, stop and the subscription    *)
(* loop of TransactionStreamer.ts over the client of GrpcClient.ts.        *)
(*                                                                         *)
(* start() connects and leaves subscribe() running behind it.  When        *)
(* subscribe() rejects, its catch sets a timer that subscribes again; when *)
(* connect() throws, start() sets a timer that starts again.  stop()       *)
(* clears isRunning and disconnects; it cancels no timer and ends no       *)
(* stream.  What a stream delivers is in TransactionPipeline.              *)
(***************************************************************************)
EXTENDS Integers, FiniteSets

CONSTANTS
    Subscriptions,          \* the calls of subscribe() that may be under way
    maxReconnectAttempts,
    MaxStarts,              \* bound: how often the streamer is started
    MaxErrors,              \* bound: how many errors a behaviour has
    MaxEnds                 \* bound: how many streams the server ends without one

ASSUME StreamerAssumption ==
    /\ maxReconnectAttempts \in Nat \ {0}
    /\ MaxStarts \in Nat /\ MaxErrors \in Nat /\ MaxEnds \in Nat
    /\ IsFiniteSet(Subscriptions)
    /\ Cardinality(Subscriptions) >= MaxStarts

VARIABLES
    isConnectedFlag, reconnectAttempt, subscription,    \* the client
    isRunning,
    startTimers,    \* pending setTimeout(() => this.start(), 5000)
    loopTimers,     \* pending setTimeout(runSubscriptionLoop, 5000)
    starts,         \* how often start() began to run
    errors,         \* how many errors there were
    ends            \* how many streams the server ended

grpcVars == <<isConnectedFlag, reconnectAttempt, subscription>>
streamVars == <<grpcVars, isRunning, startTimers, loopTimers, starts, errors, ends>>

Grpc == INSTANCE GrpcClient

Loops == {s \in Subscriptions : Grpc!Active(s)}

StreamInit ==
    /\ Grpc!Init
    /\ isRunning = FALSE
    /\ startTimers = 0
    /\ loopTimers = 0
    /\ starts = 0
    /\ errors = 0
    /\ ends = 0

(***************************************************************************)
(* start()                                                                 *)
(***************************************************************************)
\* connect() succeeds and the loop subscribes at once.
StartLoop(timers) ==
    /\ ~isRunning
    /\ starts < MaxStarts
    /\ isRunning' = TRUE
    /\ starts' = starts + 1
    /\ startTimers' = timers
    /\ \E s \in Subscriptions : Grpc!Subscribe(s)
    /\ UNCHANGED <<loopTimers, errors, ends>>

\* connect() throws: start() is called again by a timer.
StartFails(timers) ==
    /\ ~isRunning
    /\ errors < MaxErrors
    /\ Grpc!ConnectThrows
    /\ startTimers' = timers + 1
    /\ errors' = errors + 1
    /\ UNCHANGED <<subscription, isRunning, loopTimers, starts, ends>>

Start == StartLoop(startTimers) \/ StartFails(startTimers)

\* The timer of a failed start(): it does not ask whether stop() was called.
StartTimer ==
    /\ startTimers > 0
    /\ \/ StartLoop(startTimers - 1)
       \/ StartFails(startTimers - 1)
       \/ /\ isRunning
          /\ startTimers' = startTimers - 1
          /\ UNCHANGED <<grpcVars, isRunning, loopTimers, starts, errors, ends>>

\* stop(), which may be called at any time.
Stop ==
    /\ isRunning' = FALSE
    /\ Grpc!Disconnect
    /\ UNCHANGED <<startTimers, loopTimers, starts, errors, ends>>

(***************************************************************************)
(* The subscription loop.                                                  *)
(***************************************************************************)
\* The catch of runSubscriptionLoop, with "timers" timers left.
SubscribeRejects(timers) ==
    loopTimers' = IF isRunning THEN timers + 1 ELSE timers

Opened(s) ==
    /\ Grpc!Opened(s)
    /\ UNCHANGED <<isRunning, startTimers, loopTimers, starts, errors, ends>>

\* Mutant: a subscription that gave up is not taken up again.
BreakForGood(s) ==
    /\ errors < MaxErrors
    /\ errors' = errors + 1
    /\ Grpc!Failing(s)
    /\ Grpc!Retry(s) \/ Grpc!GiveUp(s)
    /\ UNCHANGED <<isRunning, startTimers, loopTimers, starts, ends>>

\* An error in the stream, in opening it or in connecting again.
Break(s) ==
    /\ errors < MaxErrors
    /\ errors' = errors + 1
    /\ Grpc!Failing(s)
    /\ \/ Grpc!Retry(s) /\ UNCHANGED loopTimers
       \/ Grpc!GiveUp(s) /\ SubscribeRejects(loopTimers)
    /\ UNCHANGED <<isRunning, startTimers, starts, ends>>

Reconnected(s) ==
    /\ Grpc!Reconnected(s)
    /\ UNCHANGED <<isRunning, startTimers, loopTimers, starts, errors, ends>>

\* The server ends the stream: subscribe() resolves, and its caller only has
\* a catch.
ServerEnds(s) ==
    /\ ends < MaxEnds
    /\ ends' = ends + 1
    /\ Grpc!Ends(s)
    /\ UNCHANGED <<isRunning, startTimers, loopTimers, starts, errors>>

\* Mutant: the timer stays set when it has fired (setInterval for
\* setTimeout).
LoopTimerInterval ==
    /\ loopTimers > 0
    /\ isRunning
    /\ \E s \in Subscriptions : Grpc!Subscribe(s)
    /\ UNCHANGED <<isRunning, startTimers, loopTimers, starts, errors, ends>>

\* Mutant: the loop does not run again while the client is connected.
LoopTimerUnlessConnected ==
    /\ loopTimers > 0
    /\ loopTimers' = loopTimers - 1
    /\ IF isRunning /\ ~isConnectedFlag
       THEN \E s \in Subscriptions : Grpc!Subscribe(s)
       ELSE UNCHANGED grpcVars
    /\ UNCHANGED <<isRunning, startTimers, starts, errors, ends>>

\* The timer of the loop: subscribe again, if the streamer still runs.
LoopTimer ==
    /\ loopTimers > 0
    /\ \/ /\ isRunning
          /\ \E s \in Subscriptions : Grpc!Subscribe(s)
          /\ loopTimers' = loopTimers - 1
          /\ UNCHANGED errors
       \/ /\ isRunning
          /\ errors < MaxErrors
          /\ Grpc!ConnectThrows
          /\ SubscribeRejects(loopTimers - 1)
          /\ errors' = errors + 1
          /\ UNCHANGED subscription
       \/ /\ ~isRunning
          /\ loopTimers' = loopTimers - 1
          /\ UNCHANGED <<grpcVars, errors>>
    /\ UNCHANGED <<isRunning, startTimers, starts, ends>>

LoopStep(s) == Opened(s) \/ Break(s) \/ Reconnected(s) \/ ServerEnds(s)

StreamNext ==
    \/ Start \/ StartTimer \/ Stop \/ LoopTimer
    \/ \E s \in Subscriptions : LoopStep(s)

StreamSpec == StreamInit /\ [][StreamNext]_streamVars

\* Timers fire, and an attempt to open a stream comes to an end.
Fairness ==
    /\ WF_streamVars(LoopTimer)
    /\ WF_streamVars(StartTimer)
    /\ \A s \in Subscriptions : WF_streamVars(Opened(s)) /\ WF_streamVars(Reconnected(s))

FairSpec == StreamSpec /\ Fairness

-----------------------------------------------------------------------------
\* The types: in particular the client never counts more attempts than
\* maxReconnectAttempts, whichever subscription makes them (GrpcClient.ts:129-149).
StreamTypeOK ==
    /\ Grpc!GrpcTypeOK
    /\ isRunning \in BOOLEAN
    /\ startTimers \in Nat
    /\ loopTimers \in Nat
    /\ starts \in 0..MaxStarts
    /\ errors \in 0..MaxErrors
    /\ ends \in 0..MaxEnds

\* Each start makes at most one loop, for good: whatever stream errors,
\* rejected subscriptions, timers, stops and restarts interleave, there are
\* never more loops, subscribed or waiting for their timer, than starts
\* (TransactionStreamer.ts:111-181), so that a transaction is delivered at
\* most once per start and subscription it matches.
LoopsBounded == Cardinality(Loops) + loopTimers <= starts

\* While the streamer runs, a subscription is open, being opened, sleeping
\* before another attempt, or due by a timer.
RunningIsServed == isRunning => Loops # {} \/ loopTimers > 0

\* So it is as long as the server ends no stream without an error: nothing
\* that fails leaves a running streamer without a subscription
\* (GrpcClient.ts:129-149, 312-323; TransactionStreamer.ts:150-169).
ErrorsAreRetried == ends = 0 => RunningIsServed

\* When the errors are over, a running streamer receives transactions again,
\* unless it is stopped or the server ended a stream: no combination of
\* accumulated attempts, timers and leftover connections ends the retries
\* (GrpcClient.ts:129-149, 278-324).
Recovers == isRunning ~> (Grpc!Streaming # {} \/ ~isRunning \/ ends > 0)

=============================================================================
