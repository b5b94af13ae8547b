---------------------------- MODULE MC_StackTrie ----------------------------
(***************************************************************************)
(* StackTrie instantiated for TLC.  Keys are two bytes drawn from 0x00,    *)
(* 0x01, 0x03 and 0x21, so their hex forms are four nibbles over           *)
(* {0, 1, 2, 3}: enough for leaf splits at every depth, extensions of      *)
(* length 3 split at each of their nibbles, and a branch whose live child  *)
(* has an empty slot between it and the next insert (slots 1 and 3 of the  *)
(* branch under 0x000).  A one-byte value keeps leaves inline (< 32        *)
(* bytes); a 30-byte value makes them stored on their own, so extensions  *)
(* over stored branches (and so Cleaner calls) happen.                     *)
(***************************************************************************)
EXTENDS StackTrie

MCKeyBytes == {0, 1, 3, 33}

MCKeys == {<<a, b>> : a, b \in MCKeyBytes}

MCValues == {<<1>>, [i \in 1..30 |-> 200]}

\* Every construction that writes: all cleaner, boundary and gauge settings.
MCInitOptions == {o \in [writer : {TRUE}, cleaner : BOOLEAN, skipLeft : BOOLEAN,
                         skipRight : BOOLEAN, gauge : BOOLEAN] :
                     o.gauge => (o.skipLeft \/ o.skipRight)}
=============================================================================
