----------------------- MODULE MCTransactionPipeline -----------------------
(* Small instance of TransactionPipeline for TLC. *)
EXTENDS TransactionPipeline

CONSTANTS create, swap, failed, m

MCTx == [s \in Signatures |->
            [kind    |-> IF s = create THEN "create" ELSE "swap",
             mint    |-> m,
             success |-> s # failed]]
=============================================================================
