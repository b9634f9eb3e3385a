------------------------------- MODULE Script -------------------------------
(***************************************************************************)
(* classify_script (script.rs): the type of an output script and the 32    *)
(* bytes stored as its address.  Scripts are sequences of bytes, with the  *)
(* real lengths and opcodes.  hash160 is external and collision free: its  *)
(* value is a record of what was hashed.                                   *)
(***************************************************************************)
EXTENDS Integers, Sequences

hash160(bytes) == [hash160 |-> bytes]
NoAddress      == [i \in 1..32 |-> 0]

\* pad_slice and pad20: at most 32 bytes, zeros to the right.
pad_slice(b) == [i \in 1..32 |-> IF i <= Len(b) THEN b[i] ELSE 0]

OP_1_16 == \h51..\h60

IsP2PKH(s) == Len(s) = 25 /\ SubSeq(s, 1, 3) = <<\h76, \ha9, 20>> /\ SubSeq(s, 24, 25) = <<\h88, \hac>>
IsP2SH(s)  == Len(s) = 23 /\ SubSeq(s, 1, 2) = <<\ha9, 20>> /\ s[23] = \h87

\* OP_n and one push of 2 to 40 bytes that is all the rest.
IsWitness(s) == Len(s) \in 4..42 /\ s[2] + 2 = Len(s) /\ s[2] \in 2..40 /\ s[1] \in {0} \cup OP_1_16

\* A push of 33 or 65 bytes that starts as a key, and OP_CHECKSIG.
IsP2PK(s) ==
    /\ Len(s) \in {35, 67} /\ s[1] = Len(s) - 2 /\ s[Len(s)] = \hac
    /\ s[2] \in 2..4

\* The walk over the key pushes between OP_m and OP_n: the number of keys, in a
\* byte that wraps, if it ends exactly before OP_n, -1 otherwise.
KeyCount(s) ==
    LET count[i \in 2..(Len(s) - 1)] ==
          IF i = Len(s) - 1 THEN 0
          ELSE IF s[i] \notin {33, 65} \/ i + s[i] > Len(s) - 2 \/ count[i + 1 + s[i]] = -1 THEN -1
          ELSE (count[i + 1 + s[i]] + 1) % 256
    IN count[2]

is_bare_multisig(s) ==
    LET len == Len(s) IN
    /\ len >= 3 /\ s[len] = \hae
    /\ s[1] \in OP_1_16 /\ s[len - 1] \in OP_1_16 /\ s[1] <= s[len - 1]
    /\ KeyCount(s) = s[len - 1] - \h50

\* Mutant: a classifier that takes every program of version 1 for Taproot.
WitnessTypeAnyTaproot(s) ==
    CASE s[1] = 0 /\ s[2] = 20 -> "P2WPKH"
      [] s[1] = 0 /\ s[2] = 32 -> "P2WSH"
      [] s[1] = \h51 -> "P2TR"
      [] OTHER -> "WitnessUnknown"

\* The type of a witness program by its version and length.
WitnessType(s) ==
    CASE s[1] = 0 /\ s[2] = 20 -> "P2WPKH"
      [] s[1] = 0 /\ s[2] = 32 -> "P2WSH"
      [] s[1] = \h51 /\ s[2] = 32 -> "P2TR"
      [] OTHER -> "WitnessUnknown"

\* The first test that succeeds decides.
classify_script(s) ==
    IF IsP2PKH(s) THEN <<"P2PKH", pad_slice(SubSeq(s, 4, 23))>>
    ELSE IF IsP2SH(s) THEN <<"P2SH", pad_slice(SubSeq(s, 3, 22))>>
    ELSE IF IsWitness(s) THEN <<WitnessType(s), pad_slice(SubSeq(s, 3, Len(s)))>>
    ELSE IF s # <<>> /\ s[1] = \h6a THEN <<"OpReturn", NoAddress>>
    ELSE IF IsP2PK(s) THEN <<"P2PK", hash160(SubSeq(s, 2, Len(s) - 1))>>
    ELSE IF is_bare_multisig(s) THEN <<"BareMultisig", hash160(s)>>
    ELSE <<"Unknown", NoAddress>>

\* The types whose address is meant to name one script.
AddressTypes == {"P2PKH", "P2SH", "P2WPKH", "P2WSH", "P2TR", "P2PK", "BareMultisig"}
=============================================================================
