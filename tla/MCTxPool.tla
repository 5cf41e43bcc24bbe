------------------------------ MODULE MCTxPool ------------------------------
(* Transactions for the runs of TxPool: two accounts; account 1 has nonces 0 *)
(* and 1 and may replace either, account 2 has one transaction.              *)
EXTENDS TxPool

Tx(h, a, n, r) == [hash |-> h, account |-> a, nonce |-> n, received_at_ms |-> r]

\* A replacement with another hash at account 1's nonce 0.
WithReplacement == {Tx(1, 1, 0, 1), Tx(2, 1, 0, 2), Tx(3, 1, 1, 2), Tx(4, 2, 0, 2)}

\* No replacement; the first transaction may be sent twice.
WithResubmission == {Tx(1, 1, 0, 1), Tx(1, 1, 0, 3), Tx(3, 1, 1, 2), Tx(4, 2, 0, 2)}
=============================================================================
