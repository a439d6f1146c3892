--------------------------------- MODULE Vli ---------------------------------
(***************************************************************************)
(* Integers of four machine words, least significant word first, as        *)
(* crypto/EC/ecc.cpp adds, multiplies, reduces and inverts them.  A word   *)
(* has 2 * HalfBits bits (64 in the code).  The prime of secp256r1 is a    *)
(* polynomial in 2^32, so every HalfBits gives a prime-shaped curve_p for  *)
(* which vli_mmod_fast is meant to work; HalfBits = 1 gives 199, a prime.  *)
(* Operators keep the names of the functions; one that fills a buffer and  *)
(* returns a carry returns both.                                           *)
(*                                                                         *)
(* Definitions marked "a slip" are mistakes that could be made in the code *)
(* beside them, used by no other definition.                               *)
(***************************************************************************)
EXTENDS Integers, Sequences, Binary

CONSTANT HalfBits   \* half the bits of a word: 32 in the code

ASSUME VliAssumption == HalfBits \in Nat \ {0}

W      == TwoTo[HalfBits]   \* half a word, and the reach of a byte below
Base   == W * W             \* a word
Digits == 4                 \* NUM_ECC_DIGITS of secp256r1
Places == 0 .. Digits - 1
Vlis   == [Places -> 0 .. Base - 1]

\* A vli of four given words.
Words(a, b, c, d) == [i \in Places |-> <<a, b, c, d>>[i + 1]]

Low(n) == n % Base
Bit(b) == IF b THEN 1 ELSE 0

\* What a vli stands for, and the vli of a number: the reference side.
Value(v) == v[0] + Base * (v[1] + Base * (v[2] + Base * v[3]))
ToVli(n) == [i \in Places |-> (n \div TwoTo[2 * HalfBits * i]) % Base]

(***************************************************************************)
(* Words.                                                                  *)
(***************************************************************************)
vli_clear         == [i \in Places |-> 0]
vli_isZero(v)     == \A i \in Places : v[i] = 0
vli_testBit(v, b) == (v[b \div (2 * HalfBits)] \div TwoTo[b % (2 * HalfBits)]) % 2 = 1
EVEN(v)           == v[0] % 2 = 0

vli_numDigits(v) ==
  LET used == {i \in Places : v[i] # 0}
  IN IF used = {} THEN 0 ELSE 1 + CHOOSE i \in used : \A j \in used : j <= i

vli_numBits(v) ==
  LET n == vli_numDigits(v)
  IN IF n = 0 THEN 0
     ELSE (n - 1) * 2 * HalfBits
            + CHOOSE b \in 1 .. 2 * HalfBits : v[n - 1] \div TwoTo[b - 1] = 1

\* The sign of l - r: the highest word in which they differ decides.
vli_cmp(l, r) ==
  LET differ == {i \in Places : l[i] # r[i]}
      top    == CHOOSE i \in differ : \A j \in differ : j <= i
  IN IF differ = {} THEN 0 ELSE IF l[top] > r[top] THEN 1 ELSE -1

\* A slip: what leaves the highest word is lost.
vli_lshiftLost(v, s) ==
  LET carry(i) == IF i = 0 THEN 0 ELSE v[i - 1] \div TwoTo[2 * HalfBits - s]
  IN [digits |-> [i \in Places |-> Low(v[i] * TwoTo[s]) + carry(i)], carry |-> 0]

vli_lshift(v, s) ==
  LET carry(i) == IF i = 0 THEN 0 ELSE v[i - 1] \div TwoTo[2 * HalfBits - s]
  IN [digits |-> [i \in Places |-> Low(v[i] * TwoTo[s]) + carry(i)],
      carry  |-> carry(Digits)]

\* One bit down; top is what the caller then sets as the highest bit.
vli_rshift1(v, top) ==
  LET carry(i) == IF i = Digits - 1 THEN top ELSE v[i + 1] % 2
  IN [i \in Places |-> v[i] \div 2 + carry(i) * (Base \div 2)]

\* A slip: a carry into a word of ones is not handed on.
vli_addDropped(l, r) ==
  LET carry[i \in 0 .. Digits] ==
        IF i = 0 THEN 0
        ELSE Bit(Low(l[i - 1] + r[i - 1] + carry[i - 1]) < l[i - 1])
      sum(i) == Low(l[i] + r[i] + carry[i])
  IN [digits |-> Words(sum(0), sum(1), sum(2), sum(3)), carry |-> carry[Digits]]

\* The carry is not touched by a word that the sum leaves as it was.
vli_add(l, r) ==
  LET carry[i \in 0 .. Digits] ==
        IF i = 0 THEN 0
        ELSE LET s == Low(l[i - 1] + r[i - 1] + carry[i - 1])
             IN IF s # l[i - 1] THEN Bit(s < l[i - 1]) ELSE carry[i - 1]
      sum(i) == Low(l[i] + r[i] + carry[i])
  IN [digits |-> Words(sum(0), sum(1), sum(2), sum(3)), carry |-> carry[Digits]]

vli_sub(l, r) ==
  LET borrow[i \in 0 .. Digits] ==
        IF i = 0 THEN 0
        ELSE LET d == Low(l[i - 1] - r[i - 1] - borrow[i - 1])
             IN IF d # l[i - 1] THEN Bit(d > l[i - 1]) ELSE borrow[i - 1]
      diff(i) == Low(l[i] - r[i] - borrow[i])
  IN [digits |-> Words(diff(0), diff(1), diff(2), diff(3)), carry |-> borrow[Digits]]

(***************************************************************************)
(* Products, column by column.  r01 is two words wide, r2 counts its       *)
(* overflows; terms[k] are the summands of column k, in order, each with   *)
(* what it overflowed by already.                                          *)
(***************************************************************************)
Accumulate(acc, term) ==
  LET sum == (acc.r01 + term.low) % (Base * Base)
  IN [r01 |-> sum, r2 |-> acc.r2 + term.high + Bit(sum < term.low)]

\* A column, on top of what the one before it left.
Gathered(rest, terms) ==
  LET acc[j \in 0 .. Len(terms)] ==
        IF j = 0 THEN [r01 |-> rest, r2 |-> 0] ELSE Accumulate(acc[j - 1], terms[j])
  IN acc[Len(terms)]

Columns(terms) ==
  LET column[k \in -1 .. 2 * Digits - 2] ==
        IF k = -1 THEN [digit |-> 0, rest |-> 0]
        ELSE LET acc == Gathered(column[k - 1].rest, terms[k])
             IN [digit |-> Low(acc.r01), rest |-> acc.r01 \div Base + acc.r2 * Base]
  IN [k \in 0 .. 2 * Digits - 1 |->
        IF k = 2 * Digits - 1 THEN Low(column[k - 1].rest) ELSE column[k].digit]

\* The positions i of column k, from the lowest for which k - i is a word.
Span(k, last) ==
  LET first == IF k < Digits THEN 0 ELSE k + 1 - Digits
  IN [j \in 1 .. last - first + 1 |-> first + j - 1]

\* A slip: a product off the diagonal counts twice without its highest bit.
vli_squareNarrow(l) ==
  Columns([k \in 0 .. 2 * Digits - 2 |->
    LET span == Span(k, k \div 2)
    IN [j \in DOMAIN span |->
          LET product == l[span[j]] * l[k - span[j]]
          IN [low  |-> IF span[j] < k - span[j] THEN (2 * product) % (Base * Base) ELSE product,
              high |-> 0]]])

vli_mult(l, r) ==
  Columns([k \in 0 .. 2 * Digits - 2 |->
    LET span == Span(k, IF k < Digits THEN k ELSE Digits - 1)
    IN [j \in DOMAIN span |-> [low |-> l[span[j]] * r[k - span[j]], high |-> 0]]])

\* Each product off the diagonal counts twice.
vli_square(l) ==
  Columns([k \in 0 .. 2 * Digits - 2 |->
    LET span == Span(k, k \div 2)
    IN [j \in DOMAIN span |->
          LET product == l[span[j]] * l[k - span[j]]
          IN IF span[j] < k - span[j]
             THEN [low  |-> (2 * product) % (Base * Base),
                   high |-> (2 * product) \div (Base * Base)]
             ELSE [low |-> product, high |-> 0]]])

(***************************************************************************)
(* Modulo m, for l and r below m.                                          *)
(***************************************************************************)
vli_modAdd(l, r, m) ==
  LET sum == vli_add(l, r)
  IN IF sum.carry = 1 \/ vli_cmp(sum.digits, m) >= 0
     THEN vli_sub(sum.digits, m).digits ELSE sum.digits

vli_modSub(l, r, m) ==
  LET diff == vli_sub(l, r)
  IN IF diff.carry = 1 THEN vli_add(diff.digits, m).digits ELSE diff.digits

\* 2^256 - 2^224 + 2^192 + 2^96 - 1 for 2^32 = W.
curve_p == ToVli(TwoTo[8 * HalfBits] - TwoTo[7 * HalfBits] + TwoTo[6 * HalfBits]
                   + TwoTo[3 * HalfBits] - 1)

\* Halves of words.
Hi(d)  == d \div W
Lo(d)  == d % W
Top(d) == d - (d % W)
Up(d)  == (d % W) * W

LowHalf(p)  == [i \in Places |-> p[i]]
HighHalf(p) == [i \in Places |-> p[i + Digits]]

\* Four words and the l_carry beside them, which counts up and down.
AddTo(acc, t) ==
  LET s == vli_add(acc.digits, t)
  IN [digits |-> s.digits, carry |-> acc.carry + s.carry]

TakeFrom(acc, t) ==
  LET d == vli_sub(acc.digits, t)
  IN [digits |-> d.digits, carry |-> acc.carry - d.carry]

AddTwice(acc, t) ==
  LET s == vli_lshift(t, 1)
  IN AddTo([acc EXCEPT !.carry = @ + s.carry], s.digits)

raise[acc \in [digits : Vlis, carry : Int]] ==
  IF acc.carry < 0 THEN raise[AddTo(acc, curve_p)] ELSE acc.digits

lower[acc \in [digits : Vlis, carry : Int]] ==
  IF acc.carry # 0 \/ vli_cmp(curve_p, acc.digits) # 1
  THEN lower[TakeFrom(acc, curve_p)] ELSE acc.digits

\* The reduction of a product p of eight words modulo curve_p.
vli_mmod_fast(p) ==
  LET t  == [digits |-> LowHalf(p), carry |-> 0]
      s1 == AddTwice(t, Words(0, Top(p[5]), p[6], p[7]))
      s2 == AddTwice(s1, Words(0, Up(p[6]), Hi(p[6]) + Up(p[7]), Hi(p[7])))
      s3 == AddTo(s2, Words(p[4], Lo(p[5]), 0, p[7]))
      s4 == AddTo(s3, Words(Hi(p[4]) + Up(p[5]), Hi(p[5]) + Top(p[6]),
                            p[7], Hi(p[6]) + Up(p[4])))
      d1 == TakeFrom(s4, Words(Hi(p[5]) + Up(p[6]), Hi(p[6]), 0, Lo(p[4]) + Up(p[5])))
      d2 == TakeFrom(d1, Words(p[6], p[7], 0, Hi(p[4]) + Top(p[5])))
      d3 == TakeFrom(d2, Words(Hi(p[6]) + Up(p[7]), Hi(p[7]) + Up(p[4]),
                               Hi(p[4]) + Up(p[5]), Up(p[6])))
      d4 == TakeFrom(d3, Words(p[7], Top(p[4]), p[5], Top(p[6])))
  IN IF d4.carry < 0 THEN raise[d4] ELSE lower[d4]

vli_modMult_fast(l, r) == vli_mmod_fast(vli_mult(l, r))
vli_modSquare_fast(l)  == vli_mmod_fast(vli_square(l))

(***************************************************************************)
(* The inverse of n modulo an odd m: Euclid by halving and subtracting,    *)
(* with a * 1/u and b * 1/v kept equal to n modulo m.                      *)
(***************************************************************************)
\* A slip: the carry of x + m is lost.
HalveModLost(x, m) ==
  vli_rshift1(IF EVEN(x) THEN x ELSE vli_add(x, m).digits, 0)

HalveMod(x, m) ==
  IF EVEN(x) THEN vli_rshift1(x, 0)
  ELSE LET sum == vli_add(x, m) IN vli_rshift1(sum.digits, sum.carry)

\* x - y, with m added first when that would be negative.
SubtractMod(x, y, m) ==
  vli_sub(IF vli_cmp(x, y) < 0 THEN vli_add(x, m).digits ELSE x, y).digits

InvStep(s, m) ==
  CASE EVEN(s.a) -> [s EXCEPT !.a = vli_rshift1(@, 0), !.u = HalveMod(@, m)]
    [] ~EVEN(s.a) /\ EVEN(s.b) ->
         [s EXCEPT !.b = vli_rshift1(@, 0), !.v = HalveMod(@, m)]
    [] ~EVEN(s.a) /\ ~EVEN(s.b) /\ vli_cmp(s.a, s.b) > 0 ->
         [s EXCEPT !.a = vli_rshift1(vli_sub(@, s.b).digits, 0),
                   !.u = HalveMod(SubtractMod(@, s.v, m), m)]
    [] OTHER ->
         [s EXCEPT !.b = vli_rshift1(vli_sub(@, s.a).digits, 0),
                   !.v = HalveMod(SubtractMod(@, s.u, m), m)]

vli_modInv(n, m) ==
  LET loop[s \in [a : Vlis, b : Vlis, u : Vlis, v : Vlis]] ==
        IF vli_cmp(s.a, s.b) = 0 THEN s.u ELSE loop[InvStep(s, m)]
  IN IF vli_isZero(n) THEN vli_clear
     ELSE loop[[a |-> n, b |-> m, u |-> ToVli(1), v |-> vli_clear]]

(***************************************************************************)
(* The product modulo m by shifting and subtracting: a multiple of m is    *)
(* moved under the highest bit of the product and down again.              *)
(***************************************************************************)
Join(l, h)  == [i \in 0 .. 2 * Digits - 1 |-> IF i < Digits THEN l[i] ELSE h[i - Digits]]

\* Word i of m moved up by n bits; what leaves the upper half is not there.
ShiftedUp(m, n) ==
  LET words == n \div (2 * HalfBits)
      moved == vli_lshift(m, n % (2 * HalfBits))
  IN [i \in 0 .. 2 * Digits - 1 |->
        CASE i - words \in Places -> moved.digits[i - words]
          [] i - words = Digits   -> moved.carry
          [] OTHER -> 0]

WideVlis == [0 .. 2 * Digits - 1 -> 0 .. Base - 1]

TakeWide(p, t) ==
  LET low  == vli_sub(LowHalf(p), LowHalf(t))
      high == vli_sub(HighHalf(p), ToVli(low.carry)).digits
  IN Join(low.digits, vli_sub(high, HighHalf(t)).digits)

AtMost(t, p) ==
  LET high == vli_cmp(HighHalf(t), HighHalf(p))
  IN high < 0 \/ (high = 0 /\ vli_cmp(LowHalf(t), LowHalf(p)) <= 0)

OneDown(t) == Join(vli_rshift1(LowHalf(t), t[Digits] % 2), vli_rshift1(HighHalf(t), 0))

ModStep(s) == [p    |-> IF AtMost(s.t, s.p) THEN TakeWide(s.p, s.t) ELSE s.p,
               t    |-> OneDown(s.t),
               bits |-> s.bits - 1]

vli_modMult(l, r, m) ==
  LET product == vli_mult(l, r)
      bits    == IF vli_isZero(HighHalf(product)) THEN vli_numBits(LowHalf(product))
                 ELSE vli_numBits(HighHalf(product)) + Digits * 2 * HalfBits
      loop[s \in [p : WideVlis, t : WideVlis, bits : Int]] ==
        IF s.bits > Digits * 2 * HalfBits \/ vli_cmp(LowHalf(s.t), m) >= 0
        THEN loop[ModStep(s)] ELSE LowHalf(s.p)
  IN IF bits < vli_numBits(m) THEN LowHalf(product)
     ELSE loop[[p |-> product, t |-> ShiftedUp(m, bits - vli_numBits(m)), bits |-> bits]]

(***************************************************************************)
(* Numbers as keys and signatures hold them: bytes, most significant       *)
(* first.  A byte is here half a word (an eighth of one in the code).      *)
(***************************************************************************)
Bytes == [1 .. 2 * Digits -> 0 .. W - 1]

ecc_bytes2native(bytes) ==
  [i \in Places |-> LET at == 2 * (Digits - 1 - i)
                    IN bytes[at + 1] * W + bytes[at + 2]]

ecc_native2bytes(v) ==
  [k \in 1 .. 2 * Digits |->
     LET word == v[Digits - 1 - (k - 1) \div 2]
     IN IF k % 2 = 1 THEN Hi(word) ELSE Lo(word)]

\* The number a text of bytes writes: the reference side.
BigEndian(bytes) ==
  LET read[k \in 0 .. 2 * Digits] == IF k = 0 THEN 0 ELSE read[k - 1] * W + bytes[k]
  IN read[2 * Digits]
=============================================================================
