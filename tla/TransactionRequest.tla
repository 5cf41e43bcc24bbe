------------------------- MODULE TransactionRequest -------------------------
(***************************************************************************)
(* The way of a transaction from a wallet of the SDK to the node: the      *)
(* wallet signs it, turns it into a request and encodes that as an RLP     *)
(* list; the node decodes the list, recomputes the signed message and the  *)
(* hash, and turns the request back into a transaction (request.rs,        *)
(* l2/mod.rs, wallet.rs, signer.rs, execute_contract.rs).                  *)
(*                                                                         *)
(* Addresses, bytecodes and calldata words are values; what is kept of the *)
(* encoding is which item stands at which position, what an absent field   *)
(* becomes, and which decoding of which item fails.                        *)
(***************************************************************************)
EXTENDS Integers, Sequences

CONSTANTS
    NONE,        \* None of Rust's Option, and an item that does not decode
    ChainId,     \* the node's l2_chain_id
    MaxNonce,    \* u32::MAX
    ValidCode    \* the bytecodes that validate_bytecode accepts

-----------------------------------------------------------------------------
(* RLP items.  Zero, an absent option and empty bytes are all the empty    *)
(* string.                                                                 *)

Str(v) == [kind |-> "data", val |-> v]
Lst(s) == [kind |-> "list", val |-> s]
EmptyStr == Str(NONE)

Append_int(n) == IF n = 0 THEN EmptyStr ELSE Str(n)
Rlp_opt(o) == IF o = NONE THEN EmptyStr ELSE Str(o)

\* rlp.val_at of a number; of an address (32 bytes, so the empty string does
\* not decode); of a byte vector; and rlp.list_at.
IntAt(items, i) == IF items[i] = EmptyStr THEN 0
                   ELSE IF items[i].kind = "data" THEN items[i].val ELSE NONE
AddressAt(items, i) == IF items[i].kind = "data" /\ items[i] # EmptyStr
                       THEN items[i].val ELSE NONE
BytesAt(items, i) == IF items[i] = EmptyStr THEN <<>>
                     ELSE IF items[i].kind = "data" THEN items[i].val ELSE NONE
ListAt(items, i) == IF items[i].kind = "list" THEN items[i].val ELSE NONE

-----------------------------------------------------------------------------
(* The message that is signed.  Calldata is <<entry point, contract, n,    *)
(* n words...>>, or NONE when its length is no multiple of eight bytes.    *)

IsRaw(r) == r.type \in {"EIP712", "OlaRaw"}

\* into_signed_bytes panics
CannotSign(r) ==
    \/ ~r.meta \/ r.input = NONE \/ r.chain = NONE \/ r.from = NONE
    \/ Len(r.input) < 3 \/ Len(r.input) < 3 + r.input[3]

SignedBytes(r) ==
    << r.chain, r.type, r.nonce, r.from, r.input[2],
       SubSeq(r.input, 3, 3 + r.input[3]),
       IF r.paymaster = NONE THEN <<>> ELSE r.paymaster >>

\* get_signature: an absent and an empty signature are 32 zero bytes.
Signature(r) == IF r.sig \in {NONE, <<>>} THEN "zero" ELSE r.sig

HashOf(r) == << SignedBytes(r), Signature(r) >>

-----------------------------------------------------------------------------
(* Encoding: get_signed_bytes and rlp.                                     *)

MetaItems(r) ==
    << Lst(IF r.deps = NONE THEN <<>> ELSE r.deps), Rlp_opt(r.sig),
       Lst(IF r.paymaster = NONE THEN <<>> ELSE r.paymaster) >>

Encode(r) ==
    [type |-> r.type,
     items |->
        (IF IsRaw(r) THEN <<>> ELSE << Append_int(r.chain) >>)
        \o << Append_int(r.nonce), Rlp_opt(r.to), Str(r.input) >>
        \o << Str("v"), Str("r"), Str("s") >>
        \o (IF IsRaw(r) THEN << Append_int(r.chain), Rlp_opt(r.from) >> ELSE <<>>)
        \o (IF IsRaw(r) /\ r.meta THEN MetaItems(r) ELSE <<>>)]

-----------------------------------------------------------------------------
(* Decoding: TransactionRequest::from_bytes.                               *)

Error(e) == [outcome |-> "error", error |-> e]
Panic == [outcome |-> "panic"]

\* validate_factory_deps
DepsValid(deps) == \A i \in 1 .. Len(deps) : deps[i] \in ValidCode

\* PaymasterParams::from_vector: an empty list is None, otherwise an address
\* (NONE: not of 32 bytes) and an input.
BadPaymaster(p) ==
    p # NONE /\ p # <<>> /\ (Len(p) # 2 \/ p[1] = NONE)

\* One of the numbers does not decode; v, r and s are read and not used.
BadInt(items, at) == \E i \in at : IntAt(items, i) = NONE

Decode1559(b) ==
    LET items == b.items IN
    [type |-> "EIP1559", chain |-> IntAt(items, 1), nonce |-> IntAt(items, 2),
     to |-> AddressAt(items, 3), input |-> BytesAt(items, 4), from |-> NONE,
     deps |-> NONE, sig |-> NONE, paymaster |-> NONE, meta |-> FALSE]

DecodeRaw(b) ==
    LET items == b.items
        p == ListAt(items, 11)
    IN  [type |-> "OlaRaw", nonce |-> IntAt(items, 1), to |-> AddressAt(items, 2),
         input |-> BytesAt(items, 3), chain |-> IntAt(items, 7),
         from |-> AddressAt(items, 8), deps |-> ListAt(items, 9),
         sig |-> BytesAt(items, 10),
         paymaster |-> IF p \in {NONE, <<>>} THEN NONE ELSE p, meta |-> TRUE]

\* What follows the decoding of either form: the dependencies are checked,
\* then the message is built, then the sender is looked at.
Finish(r) ==
    IF r.deps # NONE /\ ~DepsValid(r.deps) THEN Error("InvalidFactoryDependencies")
    ELSE IF CannotSign(r) THEN Panic
    ELSE [outcome |-> "ok", request |-> r, hash |-> HashOf(r)]

FromBytes(b) ==
    CASE b.type = "EIP1559" ->
           IF Len(b.items) # 12 THEN Error("RlpIncorrectListLen")
           ELSE IF ListAt(b.items, 9) = NONE THEN Error("DecodeRlpError")
           ELSE IF Len(ListAt(b.items, 9)) > 0 THEN Error("AccessListsNotSupported")
           ELSE IF IntAt(b.items, 1) # ChainId THEN Error("WrongChainId")
           ELSE IF BadInt(b.items, {2} \cup 10 .. 12) \/ BytesAt(b.items, 4) = NONE
           THEN Error("DecodeRlpError")
           ELSE Finish(Decode1559(b))
      [] b.type \in {"EIP712", "OlaRaw"} ->
           IF Len(b.items) # 11 THEN Error("RlpIncorrectListLen")
           ELSE IF IntAt(b.items, 7) \notin {NONE, ChainId} THEN Error("WrongChainId")
           ELSE IF BadInt(b.items, 4 .. 6) THEN Error("DecodeRlpError")
           ELSE IF BadPaymaster(ListAt(b.items, 11)) THEN Error("InvalidPaymasterParams")
           ELSE IF \/ AddressAt(b.items, 8) = NONE \/ BadInt(b.items, {1})
                   \/ BytesAt(b.items, 3) = NONE
           THEN Error("DecodeRlpError")
           ELSE Finish(DecodeRaw(b))
      [] OTHER -> Error("UnknownTransactionFormat")

\* L2Tx::from_request
FromRequest(r) ==
    IF r.nonce > MaxNonce THEN Error("TooBigNonce")
    ELSE IF r.deps # NONE /\ ~DepsValid(r.deps) THEN Error("InvalidFactoryDependencies")
    ELSE IF r.to = NONE THEN Error("ToAddressIsNull")
    ELSE [outcome |-> "ok",
          tx |-> [nonce |-> r.nonce, from |-> r.from, to |-> r.to,
                  calldata |-> r.input, deps |-> r.deps, sig |-> Signature(r)]]

\* RpcState::parse_transaction_bytes, set_input and the chain identifier that
\* send_raw_transaction_impl extracts from the bytes once more.
Parse(b) ==
    LET decoded == FromBytes(b) IN
    IF decoded.outcome # "ok" THEN decoded
    ELSE LET res == FromRequest(decoded.request) IN
         IF res.outcome # "ok" THEN res
         ELSE IF IntAt(b.items, IF b.type = "EIP1559" THEN 1 ELSE 7) # ChainId
         THEN Error("InvalidChainId")
         ELSE [outcome |-> "ok", tx |-> res.tx, hash |-> decoded.hash]

-----------------------------------------------------------------------------
(* The wallet.  An order w names the wallet's address and, optionally, an  *)
(* account it is signed for; a signature is the message it is of, and the  *)
(* signatures of others that an order may carry are left out.              *)

\* Signer::sign_execute_contract: the message is that of a request without a
\* signature and without paymaster.
SignExecuteContract(w, chain) ==
    [of |-> SignedBytes([type |-> "OlaRaw", nonce |-> w.nonce,
                         from |-> IF w.from = NONE THEN w.address ELSE w.from,
                         to |-> w.to, input |-> w.calldata, deps |-> w.deps,
                         sig |-> NONE, paymaster |-> NONE, chain |-> chain,
                         meta |-> TRUE])]

\* ExecuteContractBuilder::tx and DeployContractBuilder::tx: whatever account
\* is signed for, the initiator is the wallet's own address.
BuildTx(w, chain) ==
    [nonce |-> w.nonce, from |-> w.address, to |-> w.to, calldata |-> w.calldata,
     deps |-> w.deps, sig |-> SignExecuteContract(w, chain)]

\* From<L2Tx> for TransactionRequest: the transaction has no input bytes yet,
\* so no chain identifier can be extracted from it.
IntoRequest(tx) ==
    [type |-> "OlaRaw", nonce |-> tx.nonce, from |-> tx.from, to |-> tx.to,
     input |-> tx.calldata, deps |-> tx.deps, sig |-> tx.sig,
     paymaster |-> NONE, chain |-> NONE, meta |-> TRUE]

\* Wallet::create_tx_raw
CreateTxRaw(w, chain) ==
    Encode([IntoRequest(BuildTx(w, chain)) EXCEPT !.from = w.address, !.chain = chain])
=============================================================================
