------------------------------ MODULE MCMachines ------------------------------
(***************************************************************************)
(* Instances of machines of the compressor that share no state here: the   *)
(* workspace with a client of any kind, the window, the context, the match *)
(* finders, and the two sections of a block, each with its decoder.  One   *)
(* run checks all of them: part says which of them a behaviour is about,   *)
(* and the others stay as they are.                                        *)
(***************************************************************************)
EXTENDS CwkspClient, ZstdWindow, ZstdContext, ZstdLiterals, ZstdSequences, ZstdFinders

VARIABLE part

\* The parameters of frames, from the smallest to one with everything.
Profile(h, c, h3, w, b, d) ==
    [hash |-> h, chain |-> c, hash3 |-> h3, row |-> FALSE, opt |-> FALSE, window |-> w,
     blockMax |-> b, divider |-> d, buffered |-> FALSE, ldm |-> FALSE, ldmHash |-> 4,
     ldmBuckets |-> 2, producer |-> FALSE]

MCProfiles ==
    {Profile(2, 0, 0, 1, 4, 4),
     Profile(4, 2, 0, 6, 4, 4),
     [Profile(6, 0, 0, 7, 4, 4) EXCEPT !.row = TRUE, !.buffered = TRUE],
     [Profile(4, 2, 2, 8, 7, 3) EXCEPT !.opt = TRUE, !.buffered = TRUE, !.ldm = TRUE],
     [Profile(2, 4, 0, 5, 9, 3) EXCEPT !.opt = TRUE, !.producer = TRUE],
     [Profile(2, 0, 0, 150, 4, 4) EXCEPT !.buffered = TRUE]}

MCOptSizes == <<1, 3, 4>>

\* Literals: too few, of one kind, of a few kinds, with the frequencies that make the
\* deepest tree, in need of four streams, of any kind, and with a first quarter that is
\* denser than the rest, so that the fast loop's streams do not run alike.
MCSkewed ==
    [i \in 1 .. 90 |-> IF i <= 34 THEN 9 ELSE IF i <= 55 THEN 8 ELSE IF i <= 68 THEN 7 ELSE IF i <= 76 THEN 6
                        ELSE IF i <= 81 THEN 5 ELSE IF i <= 84 THEN 4 ELSE IF i <= 86 THEN 3 ELSE i - 86]
MCLitSources ==
    {<<7>>, [i \in 1 .. 40 |-> 3], [i \in 1 .. 40 |-> i % 3], MCSkewed,
     [i \in 1 .. 260 |-> (i * i * i) % 11], [i \in 1 .. 300 |-> (i * 7) % 251],
     [i \in 1 .. 1300 |-> IF i <= 325 THEN 1 + ((i * 7) % 32) ELSE 0]}

\* The counts behind the dictionary's table, of all of the 256 bytes.
MCDictCounts ==
    [i \in 1 .. 256 |-> IF i = 1 THEN 900 ELSE IF i = 2 THEN 300 ELSE IF i <= 8 THEN 60 ELSE IF i < 16 THEN 5 ELSE 1]

Seq3(litLength, matchLength, offBase) == [ll |-> litLength, ml |-> matchLength, of |-> offBase]

\* Sequences: at the steps of the codes, with one length beyond 16 bits, with offsets the
\* default table lacks, and many.
MCSeqLists ==
    {<<Seq3(0, 3, 1)>>, <<Seq3(63, 130, 3), Seq3(64, 131, 1), Seq3(65535, 3, 4)>>,
     <<Seq3(1, 3, 4), Seq3(65543, 3, 4), Seq3(1, 3, 1), Seq3(47, 34, 9)>>,
     <<Seq3(1, 65538, 4), Seq3(1, 66000, 4), Seq3(1, 3, 5), Seq3(1, 3, 5)>>,
     <<Seq3(2, 9, 2 ^ 29), Seq3(2, 9, 2 ^ 29), Seq3(2, 9, 4)>>,
     [i \in 1 .. 130 |-> Seq3(i % 5, 3 + ((i * i) % 7), 1 + ((i * 11) % 40))]}

\* Texts for the match finders: one too short for a match, one with a run at its end,
\* and such as have matches far and near, with few symbols so that they share matches.
MCFoundTexts ==
    {<<0, 1, 1, 0, 1>>, <<1, 1, 0, 1, 0, 0, 0, 0>>, <<1, 0, 0, 1, 1, 0, 1, 0, 0, 1, 1, 1, 0, 1>>,
     <<0, 1, 1, 1, 0, 0, 0, 0, 1, 1, 0, 1, 1, 1, 1, 1, 1>>, [i \in 1 .. 12 |-> IF i = 7 THEN 1 ELSE 2],
     <<1, 0, 0, 1, 2, 2, 0, 2, 2, 1, 0, 0, 1, 2>>}

MachinesInit ==
    /\ CwkspInit /\ WinInit /\ CtxInit /\ LitInit /\ SeqInit /\ FinInit
    /\ part \in {"workspace", "window", "context", "literals", "sequences", "finders"}
    /\ part # "literals" => lframe.strategy = 3 /\ lprev.repeat = "none"
    /\ part # "sequences" => sqframe.strategy = 3
    /\ part # "finders" => fkind = "fast"

MachinesNext ==
    \/ /\ part = "workspace"
       /\ CwkspNext
       /\ UNCHANGED <<part, winVars, ctxVars, litVars, seqVars, finVars>>
    \/ /\ part = "window"
       /\ WinNext
       /\ UNCHANGED <<part, cwkspVars, ctxVars, litVars, seqVars, finVars>>
    \/ /\ part = "context"
       /\ CtxNext
       /\ UNCHANGED <<part, cwkspVars, winVars, litVars, seqVars, finVars>>
    \/ /\ part = "literals"
       /\ LitNext
       /\ UNCHANGED <<part, cwkspVars, winVars, ctxVars, seqVars, finVars>>
    \/ /\ part = "sequences"
       /\ SeqNext
       /\ UNCHANGED <<part, cwkspVars, winVars, ctxVars, litVars, finVars>>
    \/ /\ part = "finders"
       /\ FinNext
       /\ UNCHANGED <<part, cwkspVars, winVars, ctxVars, litVars, seqVars>>

MachinesSpec == MachinesInit /\ [][MachinesNext]_<<part, cwkspVars, winVars, ctxVars, litVars, seqVars, finVars>>
=============================================================================
