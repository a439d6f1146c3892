------------------------------ MODULE KeyText -------------------------------
(***************************************************************************)
(* Keys as text: the conversions of crypto/EC/ECDSA.cpp, its two           *)
(* constructors that a wallet uses, and the dialogue of                    *)
(* Node::createWallet.                                                     *)
(*                                                                         *)
(* A text is a sequence of characters.  Private keys have KeyBytes bytes   *)
(* (32), public keys one more, and a pointer has PointerBytes (8).         *)
(*                                                                         *)
(* Definitions marked "a slip" are mistakes that could be made in the code *)
(* beside them, used by no other definition.                               *)
(***************************************************************************)
EXTENDS Integers, SequencesExt

CONSTANTS KeyBytes, PointerBytes,
          Nullptr,      \* no object
          Crash,        \* a null pointer is read
          Overread      \* bytes from behind an allocation are read

ASSUME KeyTextAssumption == KeyBytes \in Nat \ {0} /\ PointerBytes \in 0 .. KeyBytes

Upper == <<"0", "1", "2", "3", "4", "5", "6", "7", "8", "9", "A", "B", "C", "D", "E", "F">>
Lower == <<"a", "b", "c", "d", "e", "f">>
Characters == ToSet(Upper) \cup ToSet(Lower) \cup {"-"}     \* "-" for any other

Octets == Seq(0 .. 255)

(* No object is neither a sequence of bytes nor an ECDSA object.           *)
ASSUME NullptrAssumption ==
    /\ Nullptr \notin Octets
    /\ Nullptr \notin [public : Octets, private : Octets,
                        publicHex : Seq(Characters), privateHex : Seq(Characters)]

-----------------------------------------------------------------------------
(* ECDSA::toHex: the text before is kept when the new one does not fit.    *)
toHex(dest, dest_len, bytes) ==
    IF dest_len < 2 * Len(bytes) + 1 THEN dest
    ELSE FlattenSeq([i \in DOMAIN bytes |-> <<Upper[bytes[i] \div 16 + 1],
                                              Upper[(bytes[i] % 16) + 1]>>])

Hex(bytes) == toHex(<<>>, 2 * Len(bytes) + 1, bytes)

(* ECDSA::hexToUint8.                                                      *)
HexDigit(c) == IF c \in ToSet(Upper) THEN SelectInSeq(Upper, LAMBDA u : u = c) - 1
               ELSE 9 + SelectInSeq(Lower, LAMBDA l : l = c)

(* A slip: the nibbles of a byte change places.                            *)
hexToUint8Swapped(text) ==
    IF Len(text) % 2 # 0 \/ \E i \in DOMAIN text : text[i] = "-" THEN Nullptr
    ELSE [i \in 1 .. Len(text) \div 2 |->
             HexDigit(text[2 * i - 1]) + 16 * HexDigit(text[2 * i])]

hexToUint8(text) ==
    IF Len(text) % 2 # 0 \/ \E i \in DOMAIN text : text[i] = "-" THEN Nullptr
    ELSE [i \in 1 .. Len(text) \div 2 |->
             16 * HexDigit(text[2 * i - 1]) + HexDigit(text[2 * i])]

-----------------------------------------------------------------------------
(* The first n bytes at a pointer, as text.                                *)
FirstHex(pointer, n) ==
    IF Len(pointer) < n THEN Overread ELSE Hex(SubSeq(pointer, 1, n))

(* ECDSA::ECDSA(): a new key pair, written out whole.                      *)
NewKeys(public, private) ==
    [public |-> public, private |-> private,
     publicHex |-> Hex(public), privateHex |-> Hex(private)]

(* The constructor from two texts: both keys are written out again, up to  *)
(* the size of the pointers to them.                                       *)
LoginKeys(publicKey, privateKey) ==
    LET pub  == hexToUint8(publicKey)
        priv == hexToUint8(privateKey)
    IN  IF pub = Nullptr \/ priv = Nullptr THEN Crash
        ELSE [public |-> pub, private |-> priv,
              publicHex |-> FirstHex(pub, PointerBytes),
              privateHex |-> FirstHex(priv, PointerBytes)]

(* A slip: the two entries change places.                                  *)
createWalletSwapped(answers, login, new) ==
    LET known == SelectInSeq(answers, LAMBDA a : a \in {"y", "Y", "n", "N"})
    IN  CASE known = 0 -> Nullptr
          [] known # 0 /\ answers[known] \in {"y", "Y"} -> LoginKeys(login.private, login.public)
          [] OTHER -> NewKeys(new.public, new.private)

(* Node::createWallet: the dialogue, given the answers to its question,    *)
(* ends with the first that is y or n.                                     *)
createWallet(answers, login, new) ==
    LET known == SelectInSeq(answers, LAMBDA a : a \in {"y", "Y", "n", "N"})
    IN  CASE known = 0 -> Nullptr
          [] known # 0 /\ answers[known] \in {"y", "Y"} -> LoginKeys(login.public, login.private)
          [] OTHER -> NewKeys(new.public, new.private)
=============================================================================
