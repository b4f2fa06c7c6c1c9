----------------------------- MODULE GrpcClient -----------------------------
(***************************************************************************)
(* The Yellowstone client of src/src/services/external/GrpcClient.ts.      *)
(*                                                                         *)
(* subscribe() is an activity that lives as long as its stream: it opens   *)
(* the stream, reads it, and on an error sleeps and opens it again.  All   *)
(* the subscriptions of a client share its connection and its count of     *)
(* attempts.  Connecting only constructs an object, so that connect() and  *)
(* disconnect() take no time; opening a stream, reading it and sleeping    *)
(* do.  How long a sleep takes is left open: timers fire in any order.     *)
(*                                                                         *)
(* client and isConnectedFlag are always set together: one variable.       *)
(***************************************************************************)
EXTENDS Integers

CONSTANTS
    Subscriptions,          \* the calls of subscribe() that may be under way
    maxReconnectAttempts    \* 10 unless the options say otherwise

VARIABLES
    isConnectedFlag,    \* client is constructed, and isConnectedFlag is set
    reconnectAttempt,
    subscription        \* subscription[s]: how far the call s has come

grpcVars == <<isConnectedFlag, reconnectAttempt, subscription>>

SubscriptionStages == {"none", "opening", "streaming", "backoff"}

Active(s) == subscription[s] # "none"

Streaming == {s \in Subscriptions : subscription[s] = "streaming"}

Init ==
    /\ isConnectedFlag = FALSE
    /\ reconnectAttempt = 0
    /\ subscription = [s \in Subscriptions |-> "none"]

To(s, stage) == subscription' = [subscription EXCEPT ![s] = stage]

\* connect(): only a fresh connection forgets the attempts made before.
Connect ==
    /\ isConnectedFlag' = TRUE
    /\ reconnectAttempt' = IF isConnectedFlag THEN reconnectAttempt ELSE 0

\* connect() throws: the constructor of the client does.
ConnectThrows ==
    /\ ~isConnectedFlag
    /\ UNCHANGED <<isConnectedFlag, reconnectAttempt>>

\* disconnect(): the client is dropped, the open streams are not ended.
Disconnect ==
    /\ isConnectedFlag' = FALSE
    /\ UNCHANGED <<reconnectAttempt, subscription>>

\* subscribe(), up to "await this.client.subscribe()".
Subscribe(s) ==
    /\ ~Active(s)
    /\ Connect
    /\ To(s, "opening")

\* The stream is open and the request is written to it.
Opened(s) ==
    /\ subscription[s] = "opening"
    /\ To(s, "streaming")
    /\ UNCHANGED <<isConnectedFlag, reconnectAttempt>>

\* The server ends the stream: "for await" is over, subscribe() resolves.
Ends(s) ==
    /\ subscription[s] = "streaming"
    /\ To(s, "none")
    /\ UNCHANGED <<isConnectedFlag, reconnectAttempt>>

\* Mutant: "<=" for "<" in the test of the attempts.
RetryOnceMore(s) ==
    /\ reconnectAttempt <= maxReconnectAttempts
    /\ reconnectAttempt' = reconnectAttempt + 1
    /\ To(s, "backoff")
    /\ UNCHANGED isConnectedFlag

\* handleReconnect(): another attempt, after a sleep.
Retry(s) ==
    /\ reconnectAttempt < maxReconnectAttempts
    /\ reconnectAttempt' = reconnectAttempt + 1
    /\ To(s, "backoff")
    /\ UNCHANGED isConnectedFlag

\* handleReconnect() returns false: subscribe() rejects.
GiveUp(s) ==
    /\ reconnectAttempt >= maxReconnectAttempts
    /\ To(s, "none")
    /\ UNCHANGED <<isConnectedFlag, reconnectAttempt>>

\* The sleep is over and connect() succeeds: subscribe() calls itself.
Reconnected(s) ==
    /\ subscription[s] = "backoff"
    /\ Connect
    /\ To(s, "opening")

\* An error that takes subscribe() to handleReconnect(): the stream breaks,
\* or cannot be opened; or the sleep is over and connect() throws.
Failing(s) ==
    \/ subscription[s] \in {"opening", "streaming"}
    \/ subscription[s] = "backoff" /\ ~isConnectedFlag

\* The types of the client.
GrpcTypeOK ==
    /\ isConnectedFlag \in BOOLEAN
    /\ reconnectAttempt \in 0..maxReconnectAttempts
    /\ subscription \in [Subscriptions -> SubscriptionStages]

=============================================================================
