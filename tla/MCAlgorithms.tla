---------------------------- MODULE MCAlgorithms ----------------------------
(* Words of two bits: numbers below 256, curve_p = 199, and a curve with   *)
(* 193 points over that field.  Bytes of two bits for the hash.            *)
EXTENDS Algorithms

CONSTANTS tok, tik

MCG == [x |-> 3, y |-> 11]

MCOperands == 0 .. 255
MCMultiplicands ==
    {n \in 0 .. 255 : n % 16 \in {0, 3, 7, 12, 15} \/ n \in {1, 64, 193, 198, 200, 254}}
MCOddModuli == {193, 199}

MCKeys == {1, 2, 3, 15, 50, 97, 178, 190, 191, 192}
MCHashes == {0, 1, 100, 192, 193, 255}
MCDraws == {0, 1, 2, 3, 15, 50, 97, 190, 192, 193, 194, 195, 255}
MCZs == {0, 1, 7}

MCPayloads == {<<>>, <<tok>>, <<tok, tik>>, <<Delimiter>>, <<tok, Delimiter, tik>>}
MCTails == {<<>>, <<tok>>, <<Delimiter>>,
            buffer(Packet(2, tok, tik, 3, 4, <<tik>>))}

MCKeyPairs == {<<0, 175, 9, 0>>, <<0, 175, 250, 1>>} \X {<<9, 250, 9>>, <<0, 0, 16>>}
MCTexts == UNION {[1 .. n -> {"0", "9", "A", "f", "-"}] : n \in 0 .. 4}

Payment == [from : {"a", "b"}, to : {"a", "b", "c"}, amount : {0, 1, 7, 9, 15}]
MCLedgers == UNION {[1 .. n -> Payment] : n \in 1 .. 2}

MCMessages == UNION {[1 .. n -> {1, 2}] : n \in 0 .. 7}
=============================================================================
