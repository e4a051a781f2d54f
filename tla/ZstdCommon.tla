----------------------------- MODULE ZstdCommon -----------------------------
(***************************************************************************)
(* What every part of the embedded zstd shares: its macros for minimum and *)
(* maximum, and the last offsets, of which encoder and decoder keep a copy *)
(* each.  A sequence names its offset by an offBase: 1 .. 3 for one of the *)
(* last, one further on when no literals come before it (ll0), and 3 + the *)
(* offset otherwise.                                                       *)
(***************************************************************************)
EXTENDS Integers, FiniteSets

MIN(a, b) == IF a < b THEN a ELSE b
MAX(a, b) == IF a > b THEN a ELSE b

\* ofCode: the highest bit of offBase, which is below 2^31.
OffCode(offBase) == Cardinality({k \in 1 .. 30 : 2 ^ k <= offBase})

UpdateRep(rep, offBase, ll0) ==
    LET code == offBase - 1 + (IF ll0 THEN 1 ELSE 0) IN
    IF offBase > 3 THEN <<offBase - 3, rep[1], rep[2]>>
    ELSE IF code = 0 THEN rep
    ELSE <<IF code = 3 THEN rep[1] - 1 ELSE rep[code + 1], rep[1],
           IF code >= 2 THEN rep[2] ELSE rep[3]>>

\* ZSTD_resolveRepcodeToRawOffset, and the offset itself when it is no repcode.
Resolve(rep, offBase, ll0) ==
    LET code == offBase - 1 + (IF ll0 THEN 1 ELSE 0) IN
    IF offBase > 3 THEN offBase - 3 ELSE IF code = 3 THEN rep[1] - 1 ELSE rep[code + 1]

\* ZSTD_decodeSequence: the offset and the history after it.
DecodeSequence(prev, s) ==
    LET ll0  == IF s.ll0 THEN 1 ELSE 0
        which == s.offBase - 1 + ll0
        temp == IF which = 3 THEN prev[1] - 1 ELSE prev[which + 1]
    IN  IF OffCode(s.offBase) > 1
        THEN [offset |-> s.offBase - 3, prev |-> <<s.offBase - 3, prev[1], prev[2]>>]
        ELSE IF OffCode(s.offBase) = 0
        THEN [offset |-> prev[1 + ll0], prev |-> <<prev[1 + ll0], prev[2 - ll0], prev[3]>>]
        ELSE [offset |-> temp,
              prev |-> <<temp, prev[1], IF which # 1 THEN prev[2] ELSE prev[3]>>]
=============================================================================
