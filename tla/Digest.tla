------------------------------- MODULE Digest -------------------------------
(***************************************************************************)
(* What is hashed, and when a hash is proof of work: crypto/SHA-2 around   *)
(* its compression function, and Block::mineBlock.                         *)
(*                                                                         *)
(* The compression function is free: the state of a hash is the sequence   *)
(* of the blocks it absorbed.  Blocks have BlockLen bytes of ByteBits bits *)
(* (64 and 8 in the source); the length is written behind the first        *)
(* LengthAt of them (56).  A proof of work compares HashLen bytes (32).    *)
(*                                                                         *)
(* Definitions marked "a slip" are mistakes that could be made in the code *)
(* beside them, used by no other definition.                               *)
(***************************************************************************)
EXTENDS Binary, SequencesExt

CONSTANTS BlockLen, LengthAt, ByteBits, HashLen

ASSUME DigestAssumption ==
    /\ BlockLen \in Nat /\ LengthAt \in 1 .. BlockLen - 1
    /\ ByteBits \in Nat \ {0} /\ HashLen \in Nat \ {0}

Byte  == 0 .. TwoTo[ByteBits] - 1
Stop  == TwoTo[ByteBits - 1]             \* 0x80
Place == 0 .. BlockLen - 1

-----------------------------------------------------------------------------
(* SHA256.                                                                 *)

Sha == [data |-> [i \in Place |-> 0], blocklen |-> 0, bitlen |-> 0, state |-> <<>>]

transform(s) == [s EXCEPT !.state = Append(@, s.data)]

Absorb(s, byte) ==
    LET t == [s EXCEPT !.data[s.blocklen] = byte, !.blocklen = @ + 1]
    IN  IF t.blocklen = BlockLen
        THEN [transform(t) EXCEPT !.bitlen = @ + ByteBits * BlockLen, !.blocklen = 0]
        ELSE t

update(s, bytes) == FoldLeft(Absorb, s, bytes)

LengthByte(bits, k) == (bits \div TwoTo[ByteBits * k]) % TwoTo[ByteBits]

(* What pad leaves in the buffer behind the message, in the block that the *)
(* message ends in.                                                        *)
Stopped(s) ==
    LET end == IF s.blocklen < LengthAt THEN LengthAt ELSE BlockLen
    IN  [i \in Place |-> CASE i = s.blocklen -> Stop
                           [] s.blocklen < i /\ i < end -> 0
                           [] OTHER -> s.data[i]]

(* A message of from bytes or more in its last block leaves no room for    *)
(* the length, which gets a block of its own.                              *)
PadFrom(s, from) ==
    LET t == [s EXCEPT !.data = Stopped(s)]
        u == IF s.blocklen >= from
             THEN [transform(t) EXCEPT !.data = [i \in Place |-> IF i < LengthAt THEN 0 ELSE @[i]]]
             ELSE t
        bits == s.bitlen + s.blocklen * ByteBits
    IN  transform([u EXCEPT !.bitlen = bits,
                            !.data = [i \in Place |-> IF i < LengthAt THEN @[i]
                                                      ELSE LengthByte(bits, BlockLen - 1 - i)]])

(* A slip: the length moves to a block of its own one byte too late.       *)
PadLate(s) == PadFrom(s, LengthAt + 1)

pad(s) == PadFrom(s, LengthAt)

(* The object keeps what pad left in it: digest does not start afresh.     *)
digest(s) == pad(s).state

(* The reference, FIPS 180-4: the message, a one bit, zeros up to the      *)
(* length, the length, in blocks.                                          *)
Reference(message) ==
    LET n == Len(message)
        blocks == (n + 1 + (BlockLen - LengthAt) + BlockLen - 1) \div BlockLen
        at(i) == CASE i < n -> message[i + 1]
                   [] i = n -> Stop
                   [] i > n /\ i < blocks * BlockLen - (BlockLen - LengthAt) -> 0
                   [] OTHER -> LengthByte(n * ByteBits, blocks * BlockLen - 1 - i)
    IN  [b \in 1 .. blocks |-> [i \in Place |-> at((b - 1) * BlockLen + i)]]

-----------------------------------------------------------------------------
(* Block::mineBlock.                                                       *)

(* A slip: the buffer is emptied and the hash starts afresh.               *)
MinedHashAfresh(texts) == digest(update(Sha, texts[Len(texts)]))

(* The hash the loop ends with, given the text that each attempt inserts   *)
(* in blockBuffer: clear() resets the flags of a stream, not its contents, *)
(* and all attempts share one SHA256.                                      *)
MinedHash(texts) ==
    LET attempt(s, k) == pad(update(s, FlattenSeq(SubSeq(texts, 1, k))))
    IN  FoldLeft(attempt, Sha, [k \in DOMAIN texts |-> k]).state

(* A slip: the zeros begin one byte too late.                              *)
setTargetLate(rest, difficulty) ==
    LET div == difficulty \div ByteBits
        rem == difficulty % ByteBits
    IN  [i \in 0 .. HashLen - 1 |-> CASE 0 < i /\ i < div -> 0
                                      [] i = div -> TwoTo[ByteBits - rem] - 1
                                      [] OTHER -> rest[i]]

(* The buffer behind the first byte that is not zero is never written.     *)
setTarget(rest, difficulty) ==
    LET div == difficulty \div ByteBits
        rem == difficulty % ByteBits
    IN  [i \in 0 .. HashLen - 1 |-> CASE i < div -> 0
                                      [] i = div -> TwoTo[ByteBits - rem] - 1
                                      [] OTHER -> rest[i]]

(* memcmp(target, hash) < 0                                                *)
Below(target, hash) ==
    \E i \in DOMAIN target : /\ target[i] < hash[i]
                             /\ \A j \in 0 .. i - 1 : target[j] = hash[j]

EndsLoop(hash, rest, difficulty) == ~Below(setTarget(rest, difficulty), hash)

(* How many bits of the hash are zero before the first that is not.        *)
LeadingZeros(hash) ==
    LET bit(n) == (hash[n \div ByteBits] \div TwoTo[ByteBits - 1 - (n % ByteBits)]) % 2
    IN  Max({n \in 0 .. HashLen * ByteBits : \A k \in 0 .. n - 1 : bit(k) = 0})
=============================================================================
