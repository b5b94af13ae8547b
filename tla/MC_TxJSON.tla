----------------------------- MODULE MC_TxJSON ------------------------------
(***************************************************************************)
(* TxJSON instantiated for TLC.  Each transaction type appears signed and  *)
(* unsigned, with and without an access list, to an address and (where    *)
(* the type allows it) creating a contract; a blob transaction with and    *)
(* without a sidecar.  Tip and fee cap differ so a swap shows.  The peer   *)
(* inputs are every marshalled transaction with one field removed, with an *)
(* unknown type, with r (or the payer's r or v) out of range, and set-code objects with every      *)
(* combination of v and yParity.                                           *)
(***************************************************************************)
EXTENDS TxJSON

MCSecpN == 5

\* The data of a set-code transaction (the decoder never reads it back).
SetCodeData == {"0x"}

\* Destinations of a blob transaction.
BlobTo == {"A"}

\* Set-code calldata that is not empty, and a blob sent to the zero
\* address: transactions a node can hold that the two runs above leave out.
SetCodeDataAll == {"0x", "0xc0de"}
BlobToAll == {"A", ZeroAddress}

Sig(t) == IF t = "legacy" THEN {<<0, 0, 0>>, <<27, 1, 1>>, <<37, 1, 2>>}
                          ELSE {<<0, 0, 0>>, <<1, 1, 2>>}

Common(t, sig, to, data) ==
    [type |-> t, nonce |-> 0, gas |-> 1, to |-> to, value |-> 1, data |-> data,
     v |-> sig[1], r |-> sig[2], s |-> sig[3]]

Fees == [chainId |-> 7, tipCap |-> 1, feeCap |-> 2]

MCTxs ==
    {Common("legacy", g, to, "0xc0de") @@ [gasPrice |-> 1] :
        g \in Sig("legacy"), to \in {Nil, "A"}}
    \cup {Common("accesslist", g, "A", "0xc0de") @@
            [gasPrice |-> 1, chainId |-> 7, accessList |-> al] :
              g \in Sig("accesslist"), al \in {Nil, "al"}}
    \cup {Common("dynamicfee", g, to, "0xc0de") @@ Fees @@ [accessList |-> al] :
              g \in Sig("dynamicfee"), to \in {Nil, "A"}, al \in {Nil, "al"}}
    \cup {Common("sponsored", g, "A", "0xc0de") @@ Fees @@
            [expiredTime |-> 9, payerV |-> 0, payerR |-> 1, payerS |-> 1] :
              g \in Sig("sponsored")}
    \cup {Common("blob", g, to, "0xc0de") @@ Fees @@
            [accessList |-> al, blobFeeCap |-> 1, blobHashes |-> "h", sidecar |-> sc] :
              g \in Sig("blob"), to \in BlobTo, al \in {Nil, "al"}, sc \in {Nil, "sc"}}
    \cup {Common("setcode", g, "A", d) @@ Fees @@ [accessList |-> Nil, authList |-> "auth"] :
              g \in Sig("setcode"), d \in SetCodeData}

MCInputs ==
    LET M == {MarshalJSON(t) : t \in MCTxs}
    IN  {[m EXCEPT ![f] = Nil] : m \in M, f \in Fields}
        \cup {[m EXCEPT !.type = "unknown"] : m \in M}
        \cup {[m EXCEPT !.r = MCSecpN] : m \in M}
        \cup {[m EXCEPT !.payerR = MCSecpN] : m \in {x \in M : x.type = "sponsored"}}
        \cup {[m EXCEPT !.payerV = 37] : m \in {x \in M : x.type = "sponsored"}}
        \cup {[m EXCEPT !.v = w, !.yParity = y] :
                m \in {x \in M : x.type = "setcode"}, w \in {Nil, 0, 1}, y \in {Nil, 0, 1, 2}}
=============================================================================
