----------------------------- MODULE Algorithms -----------------------------
(***************************************************************************)
(* The pure algorithms of the program against what they are to compute.    *)
(* A behaviour takes one problem and solves it the way the code does; the  *)
(* invariants compare the answer with a reference that is not the code:    *)
(* integers, the group of the curve, the published padding, the packet     *)
(* that was written.                                                       *)
(*                                                                         *)
(* Names of the problems say which algorithm they are for; Init ranges     *)
(* over the problems that the constants below allow.                       *)
(***************************************************************************)
EXTENDS Vli, Curve, Packets, KeyText, Amounts, Digest, FiniteSets

CONSTANTS
    Operands, OddModuli,        \* numbers to invert, and modulo what; scalars
    Multiplicands,              \* numbers to add and to multiply
    Keys, Hashes, Draws, Zs,    \* scalars, hashes, random numbers, initial Zs
    Payloads, Tails,            \* of packets, and old contents behind them
    KeyPairs, Texts,            \* byte sequences of keys, entered texts
    Ledgers,                    \* sequences of transactions
    Messages                    \* sequences of bytes to hash

VARIABLES problem, answer, solved

vars == <<problem, answer, solved>>

-----------------------------------------------------------------------------
Pose(p) == problem = p /\ answer = 0 /\ solved = FALSE

Pair(p) == [public |-> p[1], private |-> p[2]]
Peer(d) == Compress(Times(d))

Arithmetic ==
    \/ \E l, r \in Multiplicands : Pose([kind |-> "sum", l |-> l, r |-> r])
    \/ \E l, r \in Multiplicands : Pose([kind |-> "product", l |-> l, r |-> r])
    \/ \E m \in OddModuli, n \in Operands :
           n < m /\ Pose([kind |-> "inverse", n |-> n, m |-> m])

OnTheCurve ==
    \/ \E d \in Keys, k \in Operands, z \in Zs :
           k <= N /\ Pose([kind |-> "multiple", d |-> d, k |-> k, z |-> z])
    \/ \E x \in Field, odd \in {0, 1} : Pose([kind |-> "point", x |-> x, odd |-> odd])
    \/ \E n \in 0 .. MAX_TRIES : \E draws \in [1 .. n -> Draws] :
           Pose([kind |-> "keys", draws |-> draws])
    \/ \E d, e \in Keys, z \in Zs : Pose([kind |-> "secret", d |-> d, e |-> e, z |-> z])
    \/ \E d \in Keys, e \in Hashes, k \in Draws :
           Pose([kind |-> "signing", d |-> d, e |-> e, k |-> k])
    \/ \E d \in Keys, e \in Hashes, r, s \in Draws :
           Pose([kind |-> "verifying", d |-> d, e |-> e, r |-> r, s |-> s])

Formats ==
    \/ \E type \in 0 .. 3, origin, destination \in Name, payload \in Payloads :
           \E tail \in Tails : \E kept \in 0 .. 15 + Len(payload) :
               /\ kept = 15 + Len(payload) \/ tail = <<>>
               /\ Pose([kind |-> "packet", kept |-> kept, tail |-> tail,
                        packet |-> Packet(type, origin, destination, 1, 2, payload)])
    \/ \E answers \in SeqOf({"y", "n", "q"}, 2), entered \in KeyPairs, made \in KeyPairs :
           Pose([kind |-> "wallet", answers |-> answers,
                 login |-> [public |-> Hex(entered[1]), private |-> Hex(entered[2])],
                 entered |-> Pair(entered), made |-> Pair(made)])
    \/ \E text \in Texts : Pose([kind |-> "text", text |-> text])

Ledger ==
    \/ \E amount, before, more \in Size :
           Pose([kind |-> "transaction", amount |-> amount, before |-> before, more |-> more])
    \/ \E h \in 0 .. 2 * IntBits * Interval + 1 : Pose([kind |-> "subsidy", height |-> h])
    \/ \E txs \in Ledgers : Pose([kind |-> "balances", txs |-> txs])

Hashing ==
    \/ \E m \in Messages : \E cut \in 0 .. Len(m) :
           Pose([kind |-> "hash", first |-> SubSeq(m, 1, cut),
                 second |-> SubSeq(m, cut + 1, Len(m))])
    \/ \E m \in Messages : \E k \in 1 .. 3 :
           Len(m) = 3 /\ Pose([kind |-> "mining", texts |-> [i \in 1 .. k |-> Append(m, i)]])
    \/ \E hash, rest \in [0 .. HashLen - 1 -> Byte], d \in 0 .. HashLen * ByteBits - 1 :
           Pose([kind |-> "target", hash |-> hash, rest |-> rest, difficulty |-> d])

Init == Arithmetic \/ OnTheCurve \/ Formats \/ Ledger \/ Hashing

-----------------------------------------------------------------------------
Is(kind) == problem.kind = kind /\ ~solved
Answer(a) == answer' = a /\ solved' = TRUE /\ UNCHANGED problem

(* Numbers fit a vli, and what is to be inverted has an inverse.           *)
ASSUME NumbersAssumption ==
    /\ Multiplicands \subseteq 0 .. TwoTo[2 * HalfBits * Digits] - 1
    /\ N \in 1 .. TwoTo[2 * HalfBits * Digits] - 1
    /\ Operands \subseteq Nat
    /\ \A m \in OddModuli :
           /\ m \in 1 .. TwoTo[2 * HalfBits * Digits] - 1 /\ m % 2 = 1
           /\ \A n \in Operands :
                  n \in 1 .. m - 1 => \E k \in 1 .. m - 1 : (n * k) % m = 1

Sums == Is("sum") /\ LET l == ToVli(problem.l)
                         r == ToVli(problem.r)
                     IN  Answer([sum |-> vli_add(l, r), difference |-> vli_sub(l, r),
                                 order |-> vli_cmp(l, r), bits |-> vli_numBits(l),
                                 modSum |-> vli_modAdd(l, r, curve_p),
                                 modDifference |-> vli_modSub(l, r, curve_p),
                                 bytes |-> ecc_native2bytes(l)])

Products == Is("product") /\ LET l == ToVli(problem.l)
                                 r == ToVli(problem.r)
                             IN  Answer([product |-> vli_mult(l, r), square |-> vli_square(l),
                                         fast |-> vli_modMult_fast(l, r),
                                         fastSquare |-> vli_modSquare_fast(l),
                                         slow |-> vli_modMult(l, r, ToVli(N))])

Inverses == Is("inverse") /\ Answer(vli_modInv(ToVli(problem.n), ToVli(problem.m)))

Multiples == Is("multiple")
             /\ Answer(EccPoint_mult(Times(problem.d), problem.k, problem.z))

Decompressions ==
    Is("point") /\ Answer(ecc_point_decompress([x |-> problem.x, odd |-> problem.odd]))

KeysMade == Is("keys") /\ \E r \in ecc_make_key(problem.draws) : Answer(r)

Secrets ==
    Is("secret") /\ Answer(<<ecdh_shared_secret(Peer(problem.d), problem.e, problem.z),
                             ecdh_shared_secret(Peer(problem.e), problem.d, 1)>>)

Signings ==
    Is("signing") /\ \E s \in ecdsa_sign(problem.d, problem.e, <<problem.k>>) : Answer(s)

Given == [r |-> problem.r, s |-> problem.s]

Verifications ==
    Is("verifying") /\ Answer(ecdsa_verify(Peer(problem.d), problem.e, Given))

ASSUME PayloadsAssumption ==
    /\ Payloads \subseteq Seq(Name \cup {Delimiter})
    /\ Tails \subseteq Seq(Int \cup Name \cup {Delimiter})

Readings ==
    Is("packet")
    /\ Answer(ReadPacket(SubSeq(buffer(problem.packet), 1, problem.kept) \o problem.tail))

ASSUME KeysAndTextsAssumption ==
    /\ \A p \in KeyPairs : /\ p[1] \in [1 .. KeyBytes + 1 -> 0 .. 255]
                          /\ p[2] \in [1 .. KeyBytes -> 0 .. 255]
    /\ Texts \subseteq Seq(Characters)

Wallets == Is("wallet") /\ Answer(createWallet(problem.answers, problem.login, problem.made))

TextsRead == Is("text") /\ Answer(hexToUint8(problem.text))

Made == NewTransaction(problem.amount, problem.before)

Updates == Is("transaction") /\ Answer(Update(Made, problem.more))

Subsidies == Is("subsidy") /\ \E s \in getBlockSubsidy(problem.height) : Answer(s)

Parties(txs) == {txs[i].from : i \in DOMAIN txs} \cup {txs[i].to : i \in DOMAIN txs}

(* Payments are payments, of amounts that a size_t holds.                  *)
ASSUME LedgersAssumption ==
    \A txs \in Ledgers :
        txs \in Seq([from : Parties(txs), to : Parties(txs), amount : Size])

Balances == Is("balances")
            /\ Answer([a \in Parties(problem.txs) |-> Balance(problem.txs, a)])

ASSUME MessagesAssumption == Messages \subseteq Seq(Byte)

HashesTaken ==
    Is("hash") /\ LET once == pad(update(update(Sha, problem.first), problem.second))
                  IN  Answer([once |-> once.state,
                              twice |-> digest(update(once, problem.second))])

Minings == Is("mining") /\ Answer(MinedHash(problem.texts))

Targets == Is("target") /\ Answer(EndsLoop(problem.hash, problem.rest, problem.difficulty))

Next == \/ Sums \/ Products \/ Inverses
        \/ Multiples \/ Decompressions \/ KeysMade \/ Secrets \/ Signings \/ Verifications
        \/ Readings \/ Wallets \/ TextsRead
        \/ Updates \/ Subsidies \/ Balances
        \/ HashesTaken \/ Minings \/ Targets

Spec == Init /\ [][Next]_vars

-----------------------------------------------------------------------------
Solved(kind) == solved /\ problem.kind = kind

(* vli_add, vli_sub, vli_modAdd and vli_modSub hand every carry and borrow *)
(* on, over words of ones and zeros too: sums and differences are those of *)
(* the integers, and the order, the bits and the bytes of a number are its *)
(* own.                                                                    *)
CarriesArrive ==
    Solved("sum") =>
        LET l == problem.l
            r == problem.r
            p == Value(curve_p)
            all == TwoTo[2 * HalfBits * Digits]
        IN  /\ Value(answer.sum.digits) + all * answer.sum.carry = l + r
            /\ Value(answer.difference.digits) - all * answer.difference.carry = l - r
            /\ answer.order = (IF l > r THEN 1 ELSE IF l < r THEN -1 ELSE 0)
            /\ answer.bits = numBits(l)
            /\ (l < p /\ r < p) => /\ Value(answer.modSum) = (l + r) % p
                                  /\ Value(answer.modDifference) = (l - r) % p
            /\ BigEndian(answer.bytes) = l
            /\ Value(ecc_bytes2native(answer.bytes)) = l

(* The columns of vli_mult and vli_square lose nothing that overflows two  *)
(* words: the product has all digits of the product of the integers.       *)
ProductsAreExact ==
    Solved("product") =>
        \A i \in 0 .. 2 * Digits - 1 :
            /\ answer.product[i] = ((problem.l * problem.r) \div TwoTo[2 * HalfBits * i]) % Base
            /\ answer.square[i] = ((problem.l * problem.l) \div TwoTo[2 * HalfBits * i]) % Base

(* vli_mmod_fast, nine terms added and subtracted and then curve_p as      *)
(* often as it takes, and vli_modMult, which shifts the modulus under the  *)
(* product, both end with the product modulo curve_p and modulo curve_n,   *)
(* below it.                                                               *)
ReductionsAgree ==
    Solved("product") =>
        LET p == Value(curve_p)
        IN  /\ Value(answer.fast) = (problem.l * problem.r) % p
            /\ Value(answer.fastSquare) = (problem.l * problem.l) % p
            /\ Value(answer.slow) = (problem.l * problem.r) % N

(* vli_modInv ends with the inverse, although what it halves and subtracts *)
(* passes the modulus and the width of a vli on the way.                   *)
InversesInvert ==
    Solved("inverse") =>
        IF problem.n = 0 THEN Value(answer) = 0
        ELSE Value(answer) < problem.m /\ (Value(answer) * problem.n) % problem.m = 1

(* EccPoint_mult is the multiple of the point exactly when the scalar is   *)
(* neither 0, 1, N - 1 nor N, the point has no x = 0 and the initial Z is  *)
(* not 0.  The ladder takes a highest bit above the last for granted, adds *)
(* points with one x for N - 1, and divides by the x of the point.         *)
MultipleUnlessEdge ==
    Solved("multiple") =>
        (answer = Times(problem.d * problem.k)
            <=> /\ problem.k \in 2 .. N - 2
                /\ Times(problem.d).x # 0
                /\ problem.z # 0)

(* ecc_point_decompress gives the point of a compressed public key: a      *)
(* point of the curve with the wanted x and parity, where there is one.    *)
KeysDecompress ==
    Solved("point") =>
        \A p \in OnCurve : Compress(p) # [x |-> problem.x, odd |-> problem.odd] \/ answer = p

(* A key pair that ecc_make_key returns has the public key of its private  *)
(* key, unless that is 0 or 1; it fails only when all draws were 0 or      *)
(* N - 1, for which the point is computed as zero.  (With a first draw of  *)
(* 0 the pair may have any public key: the loop tests a point that nobody  *)
(* wrote.)                                                                 *)
KeyPairsMatch ==
    Solved("keys") =>
        IF answer = Failure THEN ToSet(problem.draws) \subseteq {0, N - 1}
        ELSE /\ answer.private \in 0 .. N - 2
             /\ answer.private \notin {0, 1} =>
                    answer.public = Compress(Multiple[answer.private])

(* Two owners of key pairs share one secret through ecdh_shared_secret,    *)
(* whatever initial Z one of them draws, unless an edge of the             *)
(* multiplication is met.                                                  *)
SecretsAgree ==
    Solved("secret") =>
        LET regular(d) == d \in 2 .. N - 2 /\ Times(d).x # 0
        IN  \/ ~regular(problem.d) \/ ~regular(problem.e) \/ problem.z = 0
            \/ /\ answer[1] = answer[2]
               /\ answer[1] = [secret |-> Times(problem.d * problem.e).x]

(* Where ecdsa_verify meets points it cannot add: a public key with the x  *)
(* of the generator, or equal x on the way, after which z is 0.            *)
Singular(d, e, sig) ==
    LET u == Scalars(e, sig)
    IN  \/ Times(d).x = G.x
        \/ /\ sig.r \in 1 .. N - 1 /\ sig.s \in 1 .. N - 1
           /\ Combination(u.u1, u.u2, ecc_point_decompress(Peer(d))).z = 0

(* A signature by ecdsa_sign is accepted by ecdsa_verify, unless its s is  *)
(* 0, which the code does not draw again for, or the points are singular.  *)
SignedIsVerified ==
    Solved("signing") =>
        \/ answer = Failure
        \/ Reduced(problem.k) \notin 2 .. N - 2
        \/ answer.s = 0
        \/ Singular(problem.d, problem.e, answer)
        \/ ecdsa_verify(Peer(problem.d), problem.e, answer)

(* ecdsa_verify decides as the standard does, with the group law instead   *)
(* of Shamir's trick in co-Z coordinates, unless the points are singular.  *)
VerifiedByTheStandard ==
    (Solved("verifying") /\ ~Singular(problem.d, problem.e, Given)) =>
        LET inverse == modInv(problem.s, N)
            sum == Times((problem.e + problem.r * problem.d) * inverse)
        IN  answer <=> /\ problem.r \in 1 .. N - 1 /\ problem.s \in 1 .. N - 1
                       /\ sum # Infinity /\ sum.x % N = problem.r

(* The node reads the packet that was sent whatever an earlier one left in *)
(* the buffer, and also when two packets arrive as one; a payload with a   *)
(* backslash is cut there.                                                 *)
PacketsReadBack ==
    (Solved("packet") /\ problem.kept = 15 + problem.packet.payloadSize) =>
        answer = [problem.packet EXCEPT !.payload = Piece(@)]

(* A packet cut on the way is taken for another type only where nothing of *)
(* the type is there: the end of the indicator is taken for the type, and  *)
(* nothing for 0, a chain.  A payload that has not begun to arrive is the  *)
(* field that was cut.                                                     *)
CutPacketsKeepTheirType ==
    Solved("packet") =>
        LET kept == problem.kept
        IN  /\ answer.type # problem.packet.type =>
                  kept < 3 /\ answer.type \in {DTP_INDICATOR, DataPacket}
            /\ IF kept >= 14 THEN IsPrefix(answer.payload, problem.packet.payload)
               ELSE answer.payload = IF kept % 2 = 0 THEN <<>>
                                     ELSE <<buffer(problem.packet)[kept]>>

(* Login with the keys that were shown at creation signs with the same     *)
(* key.  Its address is the start of the address only, as long as a        *)
(* pointer: two owners whose keys begin alike then share a balance.        *)
LoginKeepsKeys ==
    Solved("wallet") =>
        LET n == 2 * PointerBytes
            entered == problem.entered
            chosen == SelectInSeq(problem.answers, LAMBDA a : a # "q")
        IN  /\ chosen = 0 <=> answer = Nullptr
            /\ (chosen # 0 /\ problem.answers[chosen] = "y") =>
                  /\ [public |-> answer.public, private |-> answer.private] = entered
                  /\ answer.publicHex = SubSeq(Hex(entered.public), 1, n)
            /\ (chosen # 0 /\ problem.answers[chosen] = "n") =>
                  /\ hexToUint8(answer.publicHex) = problem.made.public
                  /\ hexToUint8(answer.privateHex) = problem.made.private

(* hexToUint8 reads what toHex writes, in either case of the letters, and  *)
(* gives no bytes for a text that is not pairs of hexadecimal digits.      *)
HexReadsBack ==
    Solved("text") =>
        LET text == problem.text
            plain == [i \in DOMAIN text |-> IF text[i] \in ToSet(Lower)
                                            THEN Upper[HexDigit(text[i]) + 1] ELSE text[i]]
        IN  IF answer = Nullptr THEN Len(text) % 2 = 1 \/ "-" \in ToSet(text)
            ELSE Hex(answer) = plain

(* The input map holds the balance before the payment, cut to an int, and  *)
(* an update moves money between amount and balance without making any;    *)
(* one the balance cannot pay changes nothing.                             *)
UpdatesKeepTheTotal ==
    Solved("transaction") =>
        LET after == answer.t
        IN  /\ after.in.balance = ToInt(problem.before)
            /\ ToSize(after.out.amount + after.out.balance) = problem.before
            /\ answer.error = 1 <=> problem.more > ToSize(problem.before - problem.amount)
            /\ answer.error = 1 => after = Made

(* A transaction read back from its text is the one that was written as    *)
(* long as amount and balance fit an int; the balance after it is          *)
(* computed again from the balance before.                                 *)
TransactionsReadBack ==
    Solved("transaction") =>
        LET t == answer.t
        IN  \/ t.out.amount \notin IntRange
            \/ ToSize(t.out.amount + t.out.balance) \notin IntRange
            \/ ReadBackTx(t) = t

(* The subsidy is halved at every interval and never grows, as long as the *)
(* shift is defined.  From then on, until it is forced to 0, it may start  *)
(* again at the initial subsidy.                                           *)
SubsidyHalves ==
    Solved("subsidy") =>
        LET halvings == problem.height \div Interval
        IN  /\ halvings + 1 < IntBits =>
                  getBlockSubsidy(problem.height + Interval) = {answer \div 2}
            /\ halvings >= 2 * IntBits => answer = 0
            /\ answer <= Subsidy

(* Whatever is paid to whom, oneself included, all balances add up to 0,   *)
(* modulo the width of an int: no payment makes or loses money.            *)
PaymentsCancel ==
    Solved("balances") =>
        ToInt(FoldFunctionOnSet(+, 0, answer, DOMAIN answer)) = 0

(* The digest of a message handed over in any two parts is that of its     *)
(* published padding; an object that gave a digest never gives the digest  *)
(* of another message.                                                     *)
DigestsAreStandard ==
    Solved("hash") =>
        /\ answer.once = Reference(problem.first \o problem.second)
        /\ answer.twice # Reference(problem.second)

(* The hash of a mined block is the hash of its own contents exactly when  *)
(* the first nonce was the one: later attempts hash the texts of all       *)
(* before them, so that no other node could compute it from the block.     *)
HashRepeatsAtFirstNonce ==
    Solved("mining") =>
        (answer = Reference(problem.texts[Len(problem.texts)]) <=> Len(problem.texts) = 1)

(* Whatever the unwritten rest of the target is, mining ends with a hash   *)
(* that starts with as many zero bits as the difficulty, and goes on over  *)
(* such a hash only when all further bits of that byte are ones.           *)
EnoughZeros ==
    Solved("target") =>
        LET div == problem.difficulty \div ByteBits
            ones == TwoTo[ByteBits - (problem.difficulty % ByteBits)] - 1
        IN  IF answer THEN LeadingZeros(problem.hash) >= problem.difficulty
            ELSE \/ LeadingZeros(problem.hash) < problem.difficulty
                 \/ problem.hash[div] = ones

-----------------------------------------------------------------------------
(* What each part of the code owes, from the statements above.             *)

(* ecc.cpp, vli_*: on its words the code adds, multiplies, reduces and     *)
(* inverts as the integers do, whatever carries on the way.                *)
WordsAreIntegers == CarriesArrive /\ ProductsAreExact /\ ReductionsAgree /\ InversesInvert

(* ecc.cpp, ECDSA: multiples, keys, secrets and signatures are those of    *)
(* the group of the curve, but for the edges that are named.               *)
CurveIsTheGroup ==
    /\ MultipleUnlessEdge /\ KeysDecompress /\ KeyPairsMatch
    /\ SecretsAgree /\ SignedIsVerified /\ VerifiedByTheStandard

(* DTP::Packet, ECDSA::toHex, Node::createWallet, Transaction: what was    *)
(* written in a format is what is read back, or the exception is named.    *)
TextsReadBack ==
    /\ PacketsReadBack /\ CutPacketsKeepTheirType
    /\ LoginKeepsKeys /\ HexReadsBack /\ TransactionsReadBack

(* Transaction, Wallet: payments and subsidies make and lose no money.     *)
MoneyIsKept == UpdatesKeepTheTotal /\ SubsidyHalves /\ PaymentsCancel

(* SHA256, Block::mineBlock: digests are those of the standard, and a      *)
(* mined hash has the zeros it needs; the hash of a block is its own only  *)
(* at the first nonce.                                                     *)
HashesAreStandard == DigestsAreStandard /\ HashRepeatsAtFirstNonce /\ EnoughZeros
=============================================================================
