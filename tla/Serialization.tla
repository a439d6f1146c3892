---------------------------- MODULE Serialization ----------------------------
(***************************************************************************)
(* How chains and pools are written to text and read back.                 *)
(*                                                                         *)
(* A text is a sequence of tokens: the header of a block up to its last    *)
(* comma, a transaction with its semicolons, and the four separators.  A   *)
(* header or transaction that lost characters has the number 0, and so has *)
(* a block or transaction read from anything else than one that did not.   *)
(*                                                                         *)
(* Definitions marked "a slip" are mistakes that could be made in the code *)
(* beside them, used by no other definition.                               *)
(***************************************************************************)
EXTENDS Integers, SequencesExt

Header(b) == <<"head", b>>
Tx(t) == <<"tx", t>>
Field == <<"field", 0>>
Bar == <<"|">>
Dash == <<"-">>
Slash == <<"/">>
Star == <<"*">>

Lossy == {"head", "tx"}   \* tokens of more than one character

-----------------------------------------------------------------------------
(* toString.                                                               *)

TxsText(data) == FlattenSeq([i \in DOMAIN data |-> <<Tx(data[i]), Bar>>]) \o <<Dash>>

(* A slip: "|" only between two transactions.                              *)
PoolTextJoined(pool) ==
    FlattenSeq([i \in DOMAIN pool |-> IF i = 1 THEN <<Tx(pool[i])>> ELSE <<Bar, Tx(pool[i])>>])
        \o <<Dash>>

PoolText(pool) == TxsText(pool)

BlockText(b) == <<Header(b.id)>> \o TxsText(b.data)
ChainText(chain) == FlattenSeq([i \in DOMAIN chain |-> BlockText(chain[i]) \o <<Slash>>])
                        \o <<Star>>

-----------------------------------------------------------------------------
(* The constructors that parse.                                            *)

(* buffer.find, between two places: behind them where there is none.       *)
Find(text, token, from, to) == Min({j \in from .. to : text[j] = token} \cup {to + 1})

(* The erasure of a block takes one character behind its "|-" with it.     *)
Number(text, i) ==
    IF i > 2 /\ text[i - 2] = Bar /\ text[i - 1] = Dash THEN 0 ELSE text[i][2]

(* Transactions up to "-" or an empty piece.  A last piece without "|" is  *)
(* never erased, and read again for ever.                                  *)
ParseTxs(text, from, to) ==
    LET txs[i \in from .. to + 1] ==
            LET bar == Find(text, Bar, i, to)
                tx == IF bar = i + 1 /\ text[i][1] = "tx" THEN Number(text, i) ELSE 0
            IN  IF bar = i \/ (bar = i + 1 /\ text[i] = Dash) THEN [data |-> <<>>, ends |-> TRUE]
                ELSE IF bar > to THEN [data |-> <<>>, ends |-> FALSE]
                ELSE [txs[bar + 1] EXCEPT !.data = <<tx>> \o @]
    IN  txs[from]

ParsePool(text) == ParseTxs(text, 1, Len(text))

(* The six fields of a header go up to the last comma, wherever it is;     *)
(* without commas nothing is erased.                                       *)
ParseBlock(text, from, to) ==
    LET heads == {i \in from .. to : text[i][1] = "head"}
        txs == ParseTxs(text, IF heads = {} THEN from ELSE Min(heads) + 1, to)
    IN  [id |-> IF from \in heads THEN Number(text, from) ELSE 0,
         data |-> txs.data, ends |-> txs.ends]

(* A slip: only "|-" is erased.                                            *)
AfterBlockBeforeSlash(text, end) == end + 2

(* buffer.erase(0, buffer.find("|-") + 3): the block, and one character,   *)
(* which is not all of a token that has more.                              *)
AfterBlock(text, end) ==
    IF end + 2 <= Len(text) /\ text[end + 2][1] \in Lossy THEN end + 2 ELSE end + 3

BlockEnd(text, i) ==
    Min({j \in i .. Len(text) - 1 : text[j] = Bar /\ text[j + 1] = Dash} \cup {Len(text) + 1})

(* Blocks up to "*" or an empty piece.  Without "|-" two characters are    *)
(* erased at a time and a block is read at every one, for all of which one *)
(* stands here: depending on the parity a "/" comes to the front, which is *)
(* an empty piece, or is erased.                                           *)
ParseChain(text) ==
    LET ended == {[chain |-> <<>>, ends |-> TRUE]}
        Behind(first, results) ==
            {[r EXCEPT !.chain = <<[id |-> first.id, data |-> first.data]>> \o @] : r \in results}
        blocks[i \in 1 .. Len(text) + 3] ==
            LET slash == Find(text, Slash, i, Len(text))
                first == ParseBlock(text, i, slash - 1)
                end == BlockEnd(text, i)
            IN  IF slash = i \/ i > Len(text) \/ (slash = i + 1 /\ text[i] = Star) THEN ended
                ELSE IF ~first.ends THEN {[chain |-> <<>>, ends |-> FALSE]}
                ELSE IF end > Len(text) THEN Behind(first, ended \cup blocks[slash + 1])
                ELSE Behind(first, blocks[AfterBlock(text, end)])
    IN  blocks[1]

-----------------------------------------------------------------------------
(* What is left of a text that is cut at any character.                    *)

(* A header is cut behind a comma or inside of a field.                    *)
Pieces(token) ==
    CASE token[1] = "tx" -> {<<Tx(0)>>}
      [] token[1] = "head" -> {<<Header(0)>>, <<Header(0), Field>>}
      [] OTHER -> {}

Beginnings(text) ==
    {SubSeq(text, 1, i) : i \in 0 .. Len(text)}
    \cup UNION {{SubSeq(text, 1, i - 1) \o p : p \in Pieces(text[i])} : i \in DOMAIN text}

(* At least one character is gone.                                         *)
Remainders(text) ==
    {SubSeq(text, i + 1, Len(text)) : i \in DOMAIN text}
    \cup {<<<<text[i][1], 0>>>> \o SubSeq(text, i + 1, Len(text)) :
             i \in {j \in DOMAIN text : text[j][1] \in Lossy}}
=============================================================================
