---------------------------- MODULE TradeLedger ----------------------------
(***************************************************************************)
(* What the transaction pipeline promises, without its handlers: an        *)
(* account per signature.  A signature starts with one credit; taking      *)
(* effect (a trade recorded, a job queued) spends a credit; so may a       *)
(* failure; only losing the memory of the signature gives a credit back.   *)
(* A row is stored only for a signature that took effect.                  *)
(***************************************************************************)
EXTENDS Integers

CONSTANT Signatures

VARIABLES
    credit,     \* credit[s]: how many more times s may take effect
    effects,    \* effects[s]: how many times it did
    stored,     \* the signatures that have a row
    forgotten   \* forgotten[s]: how many credits were given back

ledgerVars == <<credit, effects, stored, forgotten>>

\* [s |-> f[s] + 1] on a set.
Bump(f, S) == [s \in Signatures |-> IF s \in S THEN f[s] + 1 ELSE f[s]]

LedgerInit ==
    /\ credit = [s \in Signatures |-> 1]
    /\ effects = [s \in Signatures |-> 0]
    /\ stored = {}
    /\ forgotten = [s \in Signatures |-> 0]

TakeEffect(s) ==
    /\ credit[s] > 0
    /\ credit' = [credit EXCEPT ![s] = @ - 1]
    /\ effects' = [effects EXCEPT ![s] = @ + 1]
    /\ UNCHANGED <<stored, forgotten>>

\* An attempt failed for good, and nothing can be said to have happened.
Waste(s) ==
    /\ credit[s] > 0
    /\ credit' = [credit EXCEPT ![s] = @ - 1]
    /\ UNCHANGED <<effects, stored, forgotten>>

Store(s) ==
    /\ effects[s] > 0
    /\ stored' = stored \cup {s}
    /\ UNCHANGED <<credit, effects, forgotten>>

\* The memory of S is lost while the process runs; W uses up a credit
\* in the same step.
Forget(S, W) ==
    /\ \A s \in W : credit[s] > 0 /\ s \notin S
    /\ credit' = [s \in Signatures |->
                     IF s \in W THEN credit[s] - 1
                     ELSE IF s \in S THEN credit[s] + 1 ELSE credit[s]]
    /\ forgotten' = Bump(forgotten, S)
    /\ UNCHANGED <<effects, stored>>

\* All memory is lost, that of S among it, and every attempt with it.
StartOver(S) ==
    /\ \A s \in Signatures \ S : credit[s] > 0
    /\ credit' = [s \in Signatures |-> 1]
    /\ forgotten' = Bump(forgotten, S)
    /\ UNCHANGED <<effects, stored>>

LedgerNext ==
    \/ \E s \in Signatures : TakeEffect(s) \/ Waste(s) \/ Store(s)
    \/ \E S, W \in SUBSET Signatures : Forget(S, W)
    \/ \E S \in SUBSET Signatures : StartOver(S)

LedgerSpec == LedgerInit /\ [][LedgerNext]_ledgerVars

=============================================================================
