------------------------ MODULE MCTransactionManager ------------------------
(* Model-checking instance of TransactionManager. *)
EXTENDS TransactionManager, TLC

CONSTANTS t1, t2, w1, w2, tagA, tagB

MCConnectors == {1, 2}
MCOneConnector == {1}
=============================================================================
