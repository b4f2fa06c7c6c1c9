-------------------------- MODULE SignatureMemory --------------------------
(***************************************************************************)
(* The deduplication memory of TransactionStreamer.ts: one transaction     *)
(* can match several subscriptions and is delivered again after a          *)
(* reconnection, so the streamer remembers the signatures it has processed *)
(* and skips the ones it knows.                                            *)
(*                                                                         *)
(* processedSignatures is a JavaScript Set, which iterates in the order of *)
(* insertion: a sequence.  The test and the insertion of handleUpdate run  *)
(* in one macrotask, so that a delivery is one step.                       *)
(***************************************************************************)
EXTENDS Integers, Sequences

CONSTANTS
    Signatures,     \* transaction signatures
    MaxProcessed,   \* MAX_PROCESSED_SIGNATURES (10000)
    CleanupEvery    \* insertions between two cleanups (1000)

ASSUME MemoryAssumption ==
    /\ MaxProcessed \in Nat \ {0}
    /\ CleanupEvery \in Nat \ {0}

VARIABLES
    processedSignatures,
    signatureCleanupCounter,
    age     \* history: age[s], how many signatures were accepted after s (at
            \* most MaxProcessed, which also stands for "never accepted")

memoryVars == <<processedSignatures, signatureCleanupCounter, age>>

Remembered == {processedSignatures[i] : i \in 1..Len(processedSignatures)}

\* Mutant: slice(0, MAX) for slice(-MAX).
KeepOldest(seq) ==
    IF Len(seq) <= MaxProcessed THEN seq ELSE SubSeq(seq, 1, MaxProcessed)

\* cleanupProcessedSignatures: the last MaxProcessed insertions stay.
KeepRecent(seq) ==
    IF Len(seq) <= MaxProcessed
    THEN seq
    ELSE SubSeq(seq, Len(seq) - MaxProcessed + 1, Len(seq))

NeverAccepted == [s \in Signatures |-> MaxProcessed]

MemoryInit ==
    /\ processedSignatures = << >>
    /\ signatureCleanupCounter = 0
    /\ age = NeverAccepted

\* Everybody else's age after s was accepted.
AgesAfter(s) ==
    [t \in Signatures |->
        IF t = s THEN 0
        ELSE IF age[t] < MaxProcessed THEN age[t] + 1 ELSE MaxProcessed]

\* Mutant: the counter is tested before it counts this insertion.
AcceptLateCleanup(s) ==
    /\ s \notin Remembered
    /\ LET added == Append(processedSignatures, s)
       IN  IF signatureCleanupCounter > CleanupEvery
           THEN /\ processedSignatures' = KeepRecent(added)
                /\ signatureCleanupCounter' = 0
           ELSE /\ processedSignatures' = added
                /\ signatureCleanupCounter' = signatureCleanupCounter + 1
    /\ age' = AgesAfter(s)

\* A signature that is not remembered: insert it, count it, and clean up on
\* every CleanupEvery-th insertion.
Accept(s) ==
    /\ s \notin Remembered
    /\ LET added == Append(processedSignatures, s)
       IN  IF signatureCleanupCounter + 1 >= CleanupEvery
           THEN /\ processedSignatures' = KeepRecent(added)
                /\ signatureCleanupCounter' = 0
           ELSE /\ processedSignatures' = added
                /\ signatureCleanupCounter' = signatureCleanupCounter + 1
    /\ age' = AgesAfter(s)

\* A signature that is remembered: "Skipping duplicate transaction".
Skip(s) ==
    /\ s \in Remembered
    /\ UNCHANGED memoryVars

\* A new process starts with an empty memory.
ForgetAll ==
    /\ processedSignatures' = << >>
    /\ signatureCleanupCounter' = 0
    /\ age' = NeverAccepted

MemoryNext == (\E s \in Signatures : Accept(s) \/ Skip(s)) \/ ForgetAll

MemorySpec == MemoryInit /\ [][MemoryNext]_memoryVars

-----------------------------------------------------------------------------
\* The types of the memory: the counter starts again before it reaches
\* CleanupEvery (TransactionStreamer.ts:281-285).
MemoryTypeOK ==
    /\ processedSignatures \in Seq(Signatures)
    /\ signatureCleanupCounter \in 0..(CleanupEvery - 1)
    /\ age \in [Signatures -> 0..MaxProcessed]

\* "Keep last 10k signatures" (TransactionStreamer.ts:96, 737): whatever the
\* order of deliveries and duplicates, a signature accepted fewer than
\* MaxProcessed acceptances ago is still remembered, so that a duplicate of
\* it is skipped.
RecentRemembered ==
    \A s \in Signatures : age[s] < MaxProcessed => s \in Remembered

\* "Periodic cleanup to prevent memory leak" (TransactionStreamer.ts:281):
\* between two cleanups the memory exceeds its bound by fewer than
\* CleanupEvery signatures.
MemoryBounded == Len(processedSignatures) < MaxProcessed + CleanupEvery

=============================================================================
