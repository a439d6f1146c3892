---------------------------- MODULE AlgorithmsInv ----------------------------
(***************************************************************************)
(* What the proofs about Algorithms speak of: the invariants, which say    *)
(* what the problems and their answers are (MoneyInv, HashInv, TextInv,    *)
(* WordsInv), the sets that the data are in, and what is true of the data  *)
(* at each turn of a loop.                                                 *)
(***************************************************************************)
EXTENDS Algorithms, Induction

-----------------------------------------------------------------------------
(* Conversions between int and size_t.                                     *)

SizeSpan == TwoTo[SizeBits]

IntSpan == TwoTo[IntBits]

-----------------------------------------------------------------------------
(* Balances.                                                               *)

(* What a payment makes of a balance.                                      *)
Received(sum, t, address) == IF t.to = address THEN ToInt(ToSize(sum) + t.amount) ELSE sum

Paid(sum, t, address) ==
    IF t.from = address THEN ToInt(ToSize(Received(sum, t, address)) - t.amount)
    ELSE Received(sum, t, address)

Gain(t, address) ==
    (IF t.to = address THEN t.amount ELSE 0) - (IF t.from = address THEN t.amount ELSE 0)

-----------------------------------------------------------------------------
(* The payments of a ledger between the members of D.                      *)

Payments(D) == [from : D, to : D, amount : Size]

Gained(f, g, t, D) == \A a \in D : g[a] = f[a] + Gain(t, a)

-----------------------------------------------------------------------------
(* Transactions and subsidies.                                             *)

(* An amount and a balance that come to what there was before.             *)
Total(amount, balance, before) ==
    amount \in Int /\ balance \in Int /\ Alike(SizeSpan, amount + balance, before)

-----------------------------------------------------------------------------
(* Hashing.                                                                *)

ShasOf(A, K, L, S) == [data : A, blocklen : K, bitlen : L, state : S]

Shas == ShasOf([Place -> Int], Place, Nat, Seq([Place -> Int]))

(* The bytes in front of block q + 1.                                      *)
Before(q) == BlockLen * q

(* The hash has taken in the first n bytes of m, and nothing before them.  *)
Taken(s, m, n) ==
    /\ n = Before(Len(s.state)) + s.blocklen
    /\ s.bitlen = Before(Len(s.state)) * ByteBits
    /\ \A b \in 1 .. Len(s.state) : \A i \in Place : s.state[b][i] = m[Before(b - 1) + i + 1]
    /\ \A i \in 0 .. s.blocklen - 1 : s.data[i] = m[Before(Len(s.state)) + i + 1]

(* Nothing that was hashed is forgotten: every byte fills the hash by one. *)
Filled(s) == Before(Len(s.state)) + s.blocklen

(* The blocks of a message of n bytes, padded.                             *)
BlocksFor(n) == (n + 1 + (BlockLen - LengthAt) + BlockLen - 1) \div BlockLen

(* Where the length is written, and what is in front of it.                *)
LastBlock(start, bits) ==
    [i \in Place |-> IF i < LengthAt THEN start[i] ELSE LengthByte(bits, BlockLen - 1 - i)]

Zeros == [i \in Place |-> 0]

(* The bytes of the standard's padding of m, in that many blocks.          *)
PaddedAt(m, blocks, i) ==
    CASE i < Len(m) -> m[i + 1]
      [] i = Len(m) -> Stop
      [] i > Len(m) /\ i < blocks * BlockLen - (BlockLen - LengthAt) -> 0
      [] OTHER -> LengthByte(Len(m) * ByteBits, blocks * BlockLen - 1 - i)

(* What it is behind q blocks and k bytes.                                 *)
PaddedParts(m, n, q, k) ==
    /\ \A b \in 1 .. q : \A blocks : \A i \in Place :
           PaddedAt(m, blocks, Before(b - 1) + i) = m[Before(b - 1) + i + 1]
    /\ \A blocks \in {q + 1, q + 2} : \A i \in Place :
           /\ i < k => PaddedAt(m, blocks, Before(q) + i) = m[Before(q) + i + 1]
           /\ i = k => PaddedAt(m, blocks, Before(q) + i) = Stop
    /\ \A i \in Place : k < i /\ i < LengthAt => PaddedAt(m, q + 1, Before(q) + i) = 0
    /\ \A i \in Place : k < i /\ i >= LengthAt =>
           PaddedAt(m, q + 1, Before(q) + i) = LengthByte(n * ByteBits, BlockLen - 1 - i)
    /\ \A i \in Place : k < i => PaddedAt(m, q + 2, Before(q) + i) = 0
    /\ \A i \in Place : PaddedAt(m, q + 2, Before(q + 1) + i) =
           IF i < LengthAt THEN 0 ELSE LengthByte(n * ByteBits, BlockLen - 1 - i)

(* The texts that the attempts wrote into the one buffer.                  *)
Buffered(texts, k) == FlattenSeq(SubSeq(texts, 1, k))

(* The hash after every attempt of Block::mineBlock.                       *)
Attempt(texts, s, k) == pad(update(s, Buffered(texts, k)))

-----------------------------------------------------------------------------
(* The proof of work.                                                      *)

BitAt(hash, n) == (hash[n \div ByteBits] \div TwoTo[ByteBits - 1 - (n % ByteBits)]) % 2

ZeroUpTo(hash) == {n \in 0 .. HashLen * ByteBits : \A k \in 0 .. n - 1 : BitAt(hash, k) = 0}

HashBytes == [0 .. HashLen - 1 -> Byte]

-----------------------------------------------------------------------------
(* The text of a transaction.                                              *)

Outputs == [amount : Size, balance : Size]

Transactions == [out : Outputs, in : [balance : Int]]

-----------------------------------------------------------------------------
(* Packets.                                                                *)

Token == Int \cup Name \cup {Delimiter}

(* What is left of a text from a place on.                                 *)
View(text, at) == SubSeq(text, at, Len(text))

(* A sequence in two parts, and one with an element at its end.            *)
Joins(T, s, e, t) ==
    /\ t \in Seq(T) /\ Len(s) \in Nat /\ Len(e) \in Nat /\ Len(t) = Len(s) + Len(e)
    /\ \A i \in 1 .. Len(s) : t[i] = s[i]
    /\ \A i \in 1 .. Len(e) : t[Len(s) + i] = e[i]

Extends(T, s, x, t) ==
    /\ t \in Seq(T) /\ Len(s) \in Nat /\ Len(t) = Len(s) + 1
    /\ \A i \in 1 .. Len(s) : t[i] = s[i]
    /\ t[Len(s) + 1] = x

(* The tokens of a buffer, their delimiters at the even places.            *)
Written(b, type, origin, destination, payload) ==
    /\ b \in Seq(Token) /\ Len(b) = 15 + Len(payload)
    /\ b[1] = DTP_INDICATOR /\ b[3] = type /\ b[5] = origin /\ b[7] = destination
    /\ b[9] = 1 /\ b[11] = 2 /\ b[13] = Len(payload)
    /\ b[2] = Delimiter /\ b[4] = Delimiter /\ b[6] = Delimiter /\ b[8] = Delimiter
    /\ b[10] = Delimiter /\ b[12] = Delimiter /\ b[14] = Delimiter
    /\ \A i \in 1 .. Len(payload) : b[14 + i] = payload[i]
    /\ b[15 + Len(payload)] = Delimiter

(* A text whose first k tokens are those of a buffer in their order of     *)
(* fields and delimiters; fewer than 14 are all there is of it.            *)
Heads(text, k) ==
    /\ text \in Seq(Token) /\ k \in 0 .. 14 /\ k <= Len(text) /\ (k < 14 => Len(text) = k)
    /\ \A j \in 1 .. k : text[j] = Delimiter <=> j % 2 = 0

(* Where the i-th field of it is looked for, and what is found.            *)
StartOf(k, i) == IF i <= (k \div 2) + 1 THEN (2 * i) - 1 ELSE (2 * (k \div 2)) + 1

FieldOf(text, k, i) ==
    CASE (2 * i) - 1 <= k -> <<text[(2 * i) - 1]>>
      [] (2 * i) - 1 > k /\ k % 2 = 0 -> <<>>
      [] OTHER -> <<text[k]>>

-----------------------------------------------------------------------------
(* Keys as text.                                                           *)

Digits16 == ToSet(Upper)

(* A digit in either case, and the digit that is written for it.           *)
Raised(c) == IF c \in ToSet(Lower) THEN Upper[HexDigit(c) + 1] ELSE c

(* The key pair of one of the two dialogues.                               *)
KeyPair == {k \in [public : Octets, private : Octets] :
               Len(k.public) = KeyBytes + 1 /\ Len(k.private) = KeyBytes}

Chosen(answers) == SelectInSeq(answers, LAMBDA a : a # "q")

Known(answers) == SelectInSeq(answers, LAMBDA a : a \in {"y", "Y", "n", "N"})

-----------------------------------------------------------------------------
(* Behaviours.                                                             *)

(* What is known of the three problems about money, and their answers.     *)
MoneyPosed ==
    /\ problem.kind = "transaction" =>
           problem.amount \in Size /\ problem.before \in Size /\ problem.more \in Size
    /\ problem.kind = "subsidy" => problem.height \in Nat
    /\ problem.kind = "balances" => problem.txs \in Ledgers

MoneyAnswered ==
    solved =>
        /\ problem.kind = "transaction" => answer = Update(Made, problem.more)
        /\ problem.kind = "subsidy" => answer \in getBlockSubsidy(problem.height)
        /\ problem.kind = "balances" =>
               answer = [a \in Parties(problem.txs) |-> Balance(problem.txs, a)]

MoneyInv == MoneyPosed /\ MoneyAnswered

(* What is known of the three problems about hashes, and their answers.    *)
HashPosed ==
    /\ problem.kind = "hash" => problem.first \in Seq(Int) /\ problem.second \in Seq(Int)
    /\ problem.kind = "mining" => problem.texts \in Seq(Seq(Int)) /\ problem.texts # <<>>
    /\ problem.kind = "target" =>
           /\ problem.hash \in HashBytes /\ problem.rest \in HashBytes
           /\ problem.difficulty \in 0 .. HashLen * ByteBits - 1

Once == pad(update(update(Sha, problem.first), problem.second))

HashAnswered ==
    solved =>
        /\ problem.kind = "hash" =>
               answer = [once |-> Once.state, twice |-> digest(update(Once, problem.second))]
        /\ problem.kind = "mining" => answer = MinedHash(problem.texts)
        /\ problem.kind = "target" =>
               answer = EndsLoop(problem.hash, problem.rest, problem.difficulty)

HashInv == HashPosed /\ HashAnswered

(* What is known of the problems about texts, and their answers.           *)
PacketPosed(packet, kept, tail) ==
    \E type \in Int, origin \in Name, destination \in Name, payload \in Seq(Token) :
        /\ packet = Packet(type, origin, destination, 1, 2, payload)
        /\ tail \in Seq(Token) /\ kept \in 0 .. 15 + Len(payload)
        /\ kept = 15 + Len(payload) \/ tail = <<>>

WalletPosed(answers, login, entered, made) ==
    /\ \A i \in 1 .. Len(answers) : answers[i] \in {"y", "n", "q"}
    /\ entered \in KeyPair /\ made \in KeyPair
    /\ login = [public |-> Hex(entered.public), private |-> Hex(entered.private)]

TextPosed ==
    /\ problem.kind = "packet" => PacketPosed(problem.packet, problem.kept, problem.tail)
    /\ problem.kind = "wallet" =>
           WalletPosed(problem.answers, problem.login, problem.entered, problem.made)
    /\ problem.kind = "text" => problem.text \in Seq(Characters)

TextAnswered ==
    solved =>
        /\ problem.kind = "packet" =>
               answer = ReadPacket(SubSeq(buffer(problem.packet), 1, problem.kept) \o problem.tail)
        /\ problem.kind = "wallet" =>
               answer = createWallet(problem.answers, problem.login, problem.made)
        /\ problem.kind = "text" => answer = hexToUint8(problem.text)

TextInv == TextPosed /\ TextAnswered

(* What the words from the i-th up stand for.                              *)
From3(v) == v[3]

From2(v) == v[2] + (Base * From3(v))

From1(v) == v[1] + (Base * From2(v))

(* Powers of a word.                                                       *)
Base2 == Base * Base

Base3 == Base * Base2

Base4 == Base * Base3

Word == 0 .. Base - 1

-----------------------------------------------------------------------------
(* Carries.                                                                *)

Carry == {0, 1}

(* One word of a sum, and what it hands on.                                *)
Handed(a, b, c) == LET s == Low(a + b + c) IN IF s # a THEN Bit(s < a) ELSE c

Lent(a, b, c)   == LET d == Low(a - b - c) IN IF d # a THEN Bit(d > a) ELSE c

AddCarry(l, r, c, i) ==
  IF i = 0 THEN 0
  ELSE LET s == Low(l[i - 1] + r[i - 1] + c[i - 1])
       IN IF s # l[i - 1] THEN Bit(s < l[i - 1]) ELSE c[i - 1]

AddCarries(l, r) == CHOOSE c : c = [i \in 0 .. Digits |-> AddCarry(l, r, c, i)]

SubBorrow(l, r, c, i) ==
  IF i = 0 THEN 0
  ELSE LET d == Low(l[i - 1] - r[i - 1] - c[i - 1])
       IN IF d # l[i - 1] THEN Bit(d > l[i - 1]) ELSE c[i - 1]

SubBorrows(l, r) == CHOOSE c : c = [i \in 0 .. Digits |-> SubBorrow(l, r, c, i)]

(* Four words that differ by what is handed on differ by Base4 in all.     *)
HandsOn(s, x, c1, c2, c3, c4) ==
    /\ s[0] + (Base * c1) = x[0] /\ s[1] + (Base * c2) = x[1] + c1
    /\ s[2] + (Base * c3) = x[2] + c2 /\ s[3] + (Base * c4) = x[3] + c3

-----------------------------------------------------------------------------
(* The prime, and numbers of half words.                                   *)

W2 == W * W

W3 == W * W2

W4 == W * W3

W5 == W * W4

W6 == W * W5

W7 == W * W6

W8 == W * W7

(* curve_p.                                                                *)
Prime == W8 - W7 + W6 + W3 - 1

-----------------------------------------------------------------------------
(* Bytes.                                                                  *)

ReadByte(bytes, read, k) == IF k = 0 THEN 0 ELSE read[k - 1] * W + bytes[k]

ReadUp(bytes) == CHOOSE read : read = [k \in 0 .. 2 * Digits |-> ReadByte(bytes, read, k)]

-----------------------------------------------------------------------------
(* Products.                                                               *)

Term == [low : 0 .. Base2 - 1, high : Nat]

Acc  == [r01 : 0 .. Base2 - 1, r2 : Nat]

TermValue(t) == t.low + (Base2 * t.high)

Weight(a)    == a.r01 + (Base2 * a.r2)

GatherStep(rest, terms, acc, j) ==
    IF j = 0 THEN [r01 |-> rest, r2 |-> 0] ELSE Accumulate(acc[j - 1], terms[j])

Gathering(rest, terms) ==
    CHOOSE acc : acc = [j \in 0 .. Len(terms) |-> GatherStep(rest, terms, acc, j)]

(* A column whose summands come to s, on top of any rest.                  *)
Adds(terms, s) ==
    \A rest \in 0 .. Base2 - 1 :
        Gathered(rest, terms) \in Acc /\ Weight(Gathered(rest, terms)) = rest + s

(* What a column may leave for the next one, and may come to.              *)
MostRest == 4 * (Base - 1)

Rest     == 0 .. MostRest

MostSum  == MostRest * (Base - 1)

NextColumn(rest, terms) ==
    LET acc == Gathered(rest, terms)
    IN  [digit |-> Low(acc.r01), rest |-> acc.r01 \div Base + acc.r2 * Base]

ColumnPair == [digit : Word, rest : Rest]

ColumnStep(terms, column, k) ==
    IF k = -1 THEN [digit |-> 0, rest |-> 0] ELSE NextColumn(column[k - 1].rest, terms[k])

Columned(terms) == CHOOSE column : column = [k \in -1 .. 2 * Digits - 2 |-> ColumnStep(terms, column, k)]

(* Sums of the columns, each at most MostSum.                              *)
Sums7(S, terms) == \A k \in 0 .. 6 : S[k] \in 0 .. MostSum /\ Adds(terms[k], S[k])

(* What the sums from the k-th column up stand for.                        *)
Sum6(S) == S[6]

Sum5(S) == S[5] + (Base * Sum6(S))

Sum4(S) == S[4] + (Base * Sum5(S))

Sum3(S) == S[3] + (Base * Sum4(S))

Sum2(S) == S[2] + (Base * Sum3(S))

Sum1(S) == S[1] + (Base * Sum2(S))

Sum0(S) == S[0] + (Base * Sum1(S))

(* n, n without its lowest word, without its two lowest words, ...         *)
Shifts(x, n) ==
    /\ x[0] = n /\ x[7] \in Nat
    /\ \A k \in 0 .. 6 : x[k] \in Nat /\ x[k + 1] = x[k] \div Base

(* The sums of the columns of a product.                                   *)
ColumnSums(l, r) ==
    [k \in 0 .. 6 |->
        <<l[0] * r[0],
          (l[0] * r[1]) + (l[1] * r[0]),
          (l[0] * r[2]) + (l[1] * r[1]) + (l[2] * r[0]),
          (l[0] * r[3]) + (l[1] * r[2]) + (l[2] * r[1]) + (l[3] * r[0]),
          (l[1] * r[3]) + (l[2] * r[2]) + (l[3] * r[1]),
          (l[2] * r[3]) + (l[3] * r[2]),
          l[3] * r[3]>>[k + 1]]

Plain(p) == [low |-> p, high |-> 0]

Twice(p) == [low |-> (2 * p) % (Base * Base), high |-> (2 * p) \div (Base * Base)]

MultTerms(l, r) ==
    [k \in 0 .. 2 * Digits - 2 |->
        LET span == Span(k, IF k < Digits THEN k ELSE Digits - 1)
        IN  [j \in DOMAIN span |-> Plain(l[span[j]] * r[k - span[j]])]]

SquareTerms(l) ==
    [k \in 0 .. 2 * Digits - 2 |->
        LET span == Span(k, k \div 2)
        IN  [j \in DOMAIN span |->
                IF span[j] < k - span[j] THEN Twice(l[span[j]] * l[k - span[j]])
                ELSE Plain(l[span[j]] * l[k - span[j]])]]

(* The terms of a column, in order.                                        *)
Lists(t, a, b, c, d, n) ==
    /\ t = [j \in 1 .. n |-> t[j]]
    /\ n >= 1 => t[1] = a
    /\ n >= 2 => t[2] = b
    /\ n >= 3 => t[3] = c
    /\ n >= 4 => t[4] = d

-----------------------------------------------------------------------------
(* The words of n.                                                         *)

WordsPosed ==
    /\ problem.kind \in {"sum", "product"} =>
           problem.l \in Multiplicands /\ problem.r \in Multiplicands
    /\ problem.kind = "inverse" =>
           problem.m \in OddModuli /\ problem.n \in Operands /\ problem.n < problem.m

WordsAnswered ==
    solved =>
        /\ problem.kind = "sum" =>
               LET l == ToVli(problem.l)
                   r == ToVli(problem.r)
               IN  answer = [sum |-> vli_add(l, r), difference |-> vli_sub(l, r),
                             order |-> vli_cmp(l, r), bits |-> vli_numBits(l),
                             modSum |-> vli_modAdd(l, r, curve_p),
                             modDifference |-> vli_modSub(l, r, curve_p),
                             bytes |-> ecc_native2bytes(l)]
        /\ problem.kind = "product" =>
               LET l == ToVli(problem.l)
                   r == ToVli(problem.r)
               IN  answer = [product |-> vli_mult(l, r), square |-> vli_square(l),
                             fast |-> vli_modMult_fast(l, r),
                             fastSquare |-> vli_modSquare_fast(l),
                             slow |-> vli_modMult(l, r, ToVli(N))]
        /\ problem.kind = "inverse" =>
               answer = vli_modInv(ToVli(problem.n), ToVli(problem.m))

WordsInv == WordsPosed /\ WordsAnswered

-----------------------------------------------------------------------------
(* Eight words.                                                            *)

WideValue(p) == Value(LowHalf(p)) + (Base4 * Value(HighHalf(p)))

-----------------------------------------------------------------------------
(* Four words and a count of what overflowed them.                         *)

Counted  == [digits : Vlis, carry : Int]

Reckoned(c) == Value(c.digits) + (Base4 * c.carry)

(* The loop that adds curve_p while the count is below 0.                  *)
RaisedTo(c) == IF c.carry < 0 THEN ToVli(Reckoned(c) % Prime) ELSE c.digits

-----------------------------------------------------------------------------
(* vli_mmod_fast: the high half of a product, its half words a8 .. a15,    *)
(* is the nine terms up to a multiple of the prime.                        *)

Four(w, a, b, c, d) == a + (w * w) * (b + (w * w) * (c + (w * w) * d))

PrimeOf(w) ==
    w * (w * (w * (w * (w * (w * (w * w)))))) - w * (w * (w * (w * (w * (w * w)))))
      + w * (w * (w * (w * (w * w)))) + w * (w * w) - 1

-----------------------------------------------------------------------------
(* vli_modMult.                                                            *)

ModStates   == [p : WideVlis, t : WideVlis, bits : Int]

ModGoes(m, s) == s.bits > Digits * 2 * HalfBits \/ vli_cmp(LowHalf(s.t), m) >= 0

ModLoop(m)  == CHOOSE f : f = [s \in ModStates |-> IF ModGoes(m, s) THEN f[ModStep(s)] ELSE LowHalf(s.p)]

(* With j - 1 more bits than the modulus M: what is left, still P0 modulo  *)
(* M, is below twice the multiple that comes next; below M in the end.     *)
ModAt(s, M, nb, j, P0) ==
    /\ s \in ModStates /\ s.bits = (nb + j) - 1
    /\ WideValue(s.t) = IF j = 0 THEN M \div 2 ELSE TwoTo[j - 1] * M
    /\ WideValue(s.p) < IF j = 0 THEN M ELSE 2 * WideValue(s.t)
    /\ (WideValue(s.p) % M) = P0 % M

(* The number of bits of a product.                                        *)
WideBits(p) == IF vli_isZero(HighHalf(p)) THEN vli_numBits(LowHalf(p))
               ELSE vli_numBits(HighHalf(p)) + Digits * 2 * HalfBits

-----------------------------------------------------------------------------
(* What vli_modInv does to its four numbers.                               *)

(* vli_modInv's loop.                                                      *)
InvStates  == [a : Vlis, b : Vlis, u : Vlis, v : Vlis]

InvStops(s) == vli_cmp(s.a, s.b) = 0

InvLoop(m) == CHOOSE f : f = [s \in InvStates |-> IF InvStops(s) THEN s.u ELSE f[InvStep(s, m)]]

(* The four ways of a step.                                                *)
HalvesA(s, m) == [s EXCEPT !.a = vli_rshift1(@, 0), !.u = HalveMod(@, m)]

HalvesB(s, m) == [s EXCEPT !.b = vli_rshift1(@, 0), !.v = HalveMod(@, m)]

TakesA(s, m)  == [s EXCEPT !.a = vli_rshift1(vli_sub(@, s.b).digits, 0),
                           !.u = HalveMod(SubtractMod(@, s.v, m), m)]

TakesB(s, m)  == [s EXCEPT !.b = vli_rshift1(vli_sub(@, s.a).digits, 0),
                           !.v = HalveMod(SubtractMod(@, s.u, m), m)]

(* What the loop keeps: both numbers are n times their factor, and they    *)
(* have no common divisor.                                                 *)
InvAt(s, M, n) ==
    /\ s \in InvStates
    /\ Kept(M, n, Value(s.a), Value(s.u)) /\ Kept(M, n, Value(s.b), Value(s.v))
    /\ Bezout(Value(s.a), Value(s.b))

(* Two numbers that become smaller together.                               *)
Span2(s) == Value(s.a) + Value(s.b)

Inverts(i, n, M) == Value(i) < M /\ (Value(i) * n) % M = 1
=============================================================================
