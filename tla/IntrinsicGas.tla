---------------------------- MODULE IntrinsicGas ----------------------------
(***************************************************************************)
(* IntrinsicGas and toWordSize of core/state_transition.go                 *)
(* (src/unnamed/part_000), as pure operators over uint64 words of width    *)
(* Word.  A byte slice is abstracted to its length and its count of        *)
(* non-zero bytes; an access list to its numbers of addresses and storage  *)
(* keys; an authorization list to a sequence (only its length matters      *)
(* here).  The gas schedule params.* is the record P.                      *)
(***************************************************************************)
EXTENDS Integers, Sequences

CONSTANTS
    Word,   \* 2^64 in the code; uint64 arithmetic wraps modulo Word
    P,      \* the params.* gas schedule (see MC modules for its fields)
    Nil     \* a nil slice

\* math.MaxUint64 is Word - 1 below.

\* toWordSize: the ceiled number of 32-byte words, saturating near math.MaxUint64.
ToWordSize(size) ==
    IF size > (Word - 1) - 31 THEN (Word - 1) \div 32 + 1 ELSE (size + 31) \div 32

\* Mutant: the init-code word guard compares with <= instead of <.
IntrinsicGasInitGuardOffByOne(dataLen, nz, accessList, authList, isContractCreation, isHomestead, isEIP2028, isEIP3860) ==
    LET g0  == IF isContractCreation /\ isHomestead
               THEN P.TxGasContractCreation ELSE P.TxGas
        nzg == IF isEIP2028 THEN P.TxDataNonZeroGasEIP2028
                            ELSE P.TxDataNonZeroGasFrontier
        z   == dataLen - nz
        g2  == g0 + nz * nzg + z * P.TxDataZeroGas
        w   == ToWordSize(dataLen)
        g3  == IF isContractCreation /\ isEIP3860
               THEN g2 + w * P.InitCodeWordGas ELSE g2
        al  == IF accessList = Nil THEN 0
               ELSE accessList.addrs * P.TxAccessListAddressGas
                    + accessList.keys * P.TxAccessListStorageKeyGas
        au  == IF authList = Nil THEN 0 ELSE Len(authList) * P.CallNewAccountGas
        overflow ==
            /\ dataLen > 0
            /\ \/ ((Word - 1) - g0) \div nzg < nz
               \/ ((Word - 1) - g0 - nz * nzg) \div P.TxDataZeroGas < z
               \/ isContractCreation /\ isEIP3860
                  /\ ((Word - 1) - g2) \div P.InitCodeWordGas <= w
    IN  IF overflow THEN [err |-> "gas uint64 overflow", gas |-> 0]
        ELSE [err |-> "none", gas |-> (g3 + al + au) % Word]

\* IntrinsicGas: the data cost is added under three overflow guards; the
\* access-list and authorization-list costs are added with no guard, so
\* they wrap modulo Word.
IntrinsicGas(dataLen, nz, accessList, authList, isContractCreation, isHomestead, isEIP2028, isEIP3860) ==
    LET g0  == IF isContractCreation /\ isHomestead
               THEN P.TxGasContractCreation ELSE P.TxGas
        nzg == IF isEIP2028 THEN P.TxDataNonZeroGasEIP2028
                            ELSE P.TxDataNonZeroGasFrontier
        z   == dataLen - nz
        g1  == g0 + nz * nzg
        g2  == g1 + z * P.TxDataZeroGas
        w   == ToWordSize(dataLen)
        g3  == IF isContractCreation /\ isEIP3860
               THEN g2 + w * P.InitCodeWordGas ELSE g2
        al  == IF accessList = Nil THEN 0
               ELSE accessList.addrs * P.TxAccessListAddressGas
                    + accessList.keys * P.TxAccessListStorageKeyGas
        au  == IF authList = Nil THEN 0 ELSE Len(authList) * P.CallNewAccountGas
        overflow ==
            /\ dataLen > 0
            /\ \/ ((Word - 1) - g0) \div nzg < nz
               \/ ((Word - 1) - g1) \div P.TxDataZeroGas < z
               \/ isContractCreation /\ isEIP3860
                  /\ ((Word - 1) - g2) \div P.InitCodeWordGas < w
    IN  IF overflow THEN [err |-> "gas uint64 overflow", gas |-> 0]
        ELSE [err |-> "none", gas |-> (g3 + al + au) % Word]
=============================================================================
