---------------------------- MODULE MCMempool ----------------------------
(* Mempool on two accounts: account 1 sends nonces 0..2, with a replacement *)
(* for nonce 1 and another arrival time, account 2 sends nonces 0 and 1.    *)
EXTENDS Mempool

MCTransaction ==
    {[hash |-> 1, account |-> 1, nonce |-> 0, received_at_ms |-> 2],
     [hash |-> 2, account |-> 1, nonce |-> 1, received_at_ms |-> 1],
     [hash |-> 3, account |-> 1, nonce |-> 1, received_at_ms |-> 2],
     [hash |-> 4, account |-> 1, nonce |-> 2, received_at_ms |-> 1],
     [hash |-> 5, account |-> 2, nonce |-> 0, received_at_ms |-> 2],
     [hash |-> 6, account |-> 2, nonce |-> 1, received_at_ms |-> 1]}
=============================================================================
