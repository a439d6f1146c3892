------------------------------ MODULE Packets -------------------------------
(***************************************************************************)
(* DTP::Packet: how a packet is written to a buffer, and what is read from *)
(* a buffer that holds it, a part of it, or it and more.                   *)
(*                                                                         *)
(* A buffer is a sequence of tokens: numbers, names and the delimiter, a   *)
(* backslash.  A field is the tokens up to the next delimiter; only the    *)
(* payload may have several, or hold a delimiter itself.                   *)
(*                                                                         *)
(* Definitions marked "a slip" are mistakes that could be made in the code *)
(* beside them, used by no other definition.                               *)
(***************************************************************************)
EXTENDS Integers, SequencesExt

CONSTANTS Name,         \* strings other than a number: addresses, texts
          Delimiter     \* a backslash

ASSUME PacketsAssumption ==
    /\ Delimiter \notin Name /\ Delimiter \notin Int
    /\ \A name \in Name : name \notin Int

DTP_INDICATOR == 10
DataPacket == 0         \* BLOCKCHAIN_DATA_PACKET

Packet(type, origin, destination, serverPort, port, payload) ==
    [indicator |-> DTP_INDICATOR, type |-> type, origin |-> <<origin>>,
     destination |-> <<destination>>, serverPort |-> serverPort, port |-> port,
     payloadSize |-> Len(payload), payload |-> payload]

buffer(p) ==
    <<p.indicator, Delimiter, p.type, Delimiter>> \o p.origin \o <<Delimiter>>
        \o p.destination \o <<Delimiter, p.serverPort, Delimiter, p.port, Delimiter,
                              p.payloadSize, Delimiter>>
        \o p.payload \o <<Delimiter>>

-----------------------------------------------------------------------------
(* Reading.  Without a delimiter the field is all that is left; and then   *)
(* npos + 1 = 0 tokens are erased, so that the next field is the same.     *)
Piece(text) ==
    LET at == SelectInSeq(text, LAMBDA t : t = Delimiter)
    IN  IF at = 0 THEN text ELSE SubSeq(text, 1, at - 1)

(* A slip: what no delimiter ends is erased.                               *)
EraseAll(text) ==
    LET at == SelectInSeq(text, LAMBDA t : t = Delimiter)
    IN  IF at = 0 THEN <<>> ELSE SubSeq(text, at + 1, Len(text))

Erase(text) ==
    LET at == SelectInSeq(text, LAMBDA t : t = Delimiter)
    IN  SubSeq(text, at + 1, Len(text))

atoi(piece) == IF piece # <<>> /\ piece[1] \notin Name THEN piece[1] ELSE 0

(* A slip: the payload is what is left of the buffer.                      *)
ReadPacketWhole(text) ==
    LET rest[i \in 1 .. 8] == IF i = 1 THEN text ELSE Erase(rest[i - 1])
        field(i) == Piece(rest[i])
    IN  [indicator |-> atoi(field(1)), type |-> atoi(field(2)), origin |-> field(3),
         destination |-> field(4), serverPort |-> atoi(field(5)), port |-> atoi(field(6)),
         payloadSize |-> atoi(field(7)), payload |-> rest[8]]

ReadPacket(text) ==
    LET rest[i \in 1 .. 8] == IF i = 1 THEN text ELSE Erase(rest[i - 1])
        field(i) == Piece(rest[i])
    IN  [indicator |-> atoi(field(1)), type |-> atoi(field(2)), origin |-> field(3),
         destination |-> field(4), serverPort |-> atoi(field(5)), port |-> atoi(field(6)),
         payloadSize |-> atoi(field(7)), payload |-> field(8)]
=============================================================================
