-------------------------- MODULE IntrinsicGasCheck --------------------------
(***************************************************************************)
(* IntrinsicGas against the exact, unbounded cost over every input up to  *)
(* MaxData bytes, with words of Word values, as a constant formula.  An    *)
(* instance narrows the word and scales the schedule down together so     *)
(* that the overflow guards are reached by inputs TLC can enumerate; the   *)
(* guards' arithmetic does not depend on the width.                        *)
(***************************************************************************)
EXTENDS IntrinsicGas

CONSTANTS MaxData

Inputs ==
    [dataLen : 0..MaxData, nz : 0..MaxData,
     accessList : {Nil, [addrs |-> 1, keys |-> 1]},
     authList : {Nil, <<"a">>},
     creation : BOOLEAN, homestead : BOOLEAN, eip2028 : BOOLEAN,
     eip3860 : BOOLEAN]

\* The inputs a message can have: no more non-zero bytes than bytes.
Possible(in) == in.nz <= in.dataLen

Result(in) == IntrinsicGas(in.dataLen, in.nz, in.accessList, in.authList,
                           in.creation, in.homestead, in.eip2028, in.eip3860)

\* The cost over unbounded integers: base, data bytes, init-code words.
ExactDataCost(in) ==
    (IF in.creation /\ in.homestead THEN P.TxGasContractCreation ELSE P.TxGas)
    + in.nz * (IF in.eip2028 THEN P.TxDataNonZeroGasEIP2028
                             ELSE P.TxDataNonZeroGasFrontier)
    + (in.dataLen - in.nz) * P.TxDataZeroGas
    + (IF in.creation /\ in.eip3860
       THEN ((in.dataLen + 31) \div 32) * P.InitCodeWordGas ELSE 0)

ExactListCost(in) ==
    (IF in.accessList = Nil THEN 0
     ELSE in.accessList.addrs * P.TxAccessListAddressGas
          + in.accessList.keys * P.TxAccessListStorageKeyGas)
    + (IF in.authList = Nil THEN 0 ELSE Len(in.authList) * P.CallNewAccountGas)

\* IntrinsicGas reports ErrGasUintOverflow exactly when the data part of
\* the cost does not fit in a uint64, and whenever the whole cost fits it
\* returns that cost (its three guards are neither too strict nor too lax).
GuardsExact ==
    \A in \in {i \in Inputs : Possible(i)} :
        /\ (Result(in).err # "none") <=> (ExactDataCost(in) > Word - 1)
        /\ ExactDataCost(in) + ExactListCost(in) <= Word - 1
           => Result(in).gas = ExactDataCost(in) + ExactListCost(in)
=============================================================================
