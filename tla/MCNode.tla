------------------------------- MODULE MCNode -------------------------------
(* One account; one client while others write five times, or two clients    *)
(* and one write.  The transactions are those a wallet makes for nonces 0   *)
(* to 2, that of nonce 1 a deployment; one for nonce 0 with the signature   *)
(* of another message; a deployment of bad code, one for another chain and  *)
(* one in the EIP-1559 format.                                              *)
EXTENDS Node

Tx(n, word) == [nonce |-> n, address |-> "alice", from |-> NONE,
                to |-> "contract", deps |-> NONE, calldata |-> << "entry", "contract", 1, word >>]

Eip1559 == Encode([IntoRequest(BuildTx(Tx(0, "x"), ChainId))
                      EXCEPT !.type = "EIP1559", !.chain = ChainId])

NotOfAWallet == Encode([IntoRequest(BuildTx(Tx(0, "x"), ChainId))
                           EXCEPT !.sig = SignExecuteContract(Tx(0, "y"), ChainId), !.chain = ChainId])

Payloads ==
    {CreateTxRaw(Tx(0, "x"), ChainId), NotOfAWallet,
     CreateTxRaw([Tx(1, "x") EXCEPT !.deps = << "code" >>], ChainId),
     CreateTxRaw(Tx(2, "x"), ChainId),
     CreateTxRaw([Tx(1, "x") EXCEPT !.deps = << "bad" >>], ChainId),
     CreateTxRaw(Tx(0, "x"), ChainId + 1), Eip1559}

BlockIds == {[tag |-> "latest"], [tag |-> "number", number |-> 1]}
Workloads == {[clients |-> {1}, writes |-> 5], [clients |-> {1, 2}, writes |-> 1]}
Deployments == {{"HttpApi"}, {"PubsubApi"}, {"Sequencer", "Tree", "ProofDataHandler"}}
=============================================================================
