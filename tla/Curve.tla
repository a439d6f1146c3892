-------------------------------- MODULE Curve --------------------------------
(***************************************************************************)
(* Points, keys and signatures of crypto/EC/ecc.cpp on the curve           *)
(* y^2 = x^3 - 3x + B over the integers modulo P, with generator G of      *)
(* prime order N, and the wrapper crypto/EC/ECDSA.cpp.  Vli says how the   *)
(* field operations are computed from words; here they are what they       *)
(* compute.  Points are co-Z: coordinates that share an implicit Z.        *)
(*                                                                         *)
(* Functions that may fail or read what was never written return the set   *)
(* of their results.  Random numbers are given as a sequence of draws; the *)
(* source fails when they are used up.                                     *)
(*                                                                         *)
(* Definitions marked "a slip" are mistakes that could be made in the code *)
(* beside them, used by no other definition.                               *)
(***************************************************************************)
EXTENDS Integers, SequencesExt, Binary

CONSTANTS P, B, G, N,   \* curve_p, curve_b, curve_G, curve_n
          MAX_TRIES

Field   == 0 .. P - 1
Points  == [x : Field, y : Field]
Zero    == [x |-> 0, y |-> 0]
Failure == [failed |-> TRUE]

numBits(n)    == IF n = 0 THEN 0 ELSE CHOOSE b \in 1 .. n : n \div TwoTo[b - 1] = 1
testBit(n, b) == (n \div TwoTo[b]) % 2 = 1

(***************************************************************************)
(* The field, and the inverse modulo any m: 0 for 0, as vli_modInv.        *)
(***************************************************************************)
modAdd(l, r)      == (l + r) % P
modSub(l, r)      == (l - r) % P
modMult_fast(l, r) == (l * r) % P
modSquare_fast(l) == (l * l) % P
modInv(n, m)      == IF n % m = 0 THEN 0 ELSE CHOOSE i \in 1 .. m - 1 : (n * i) % m = 1

(***************************************************************************)
(* Points.                                                                 *)
(***************************************************************************)
EccPoint_isZero(p) == p = Zero

Half(t)   == IF testBit(t, 0) THEN (t + P) \div 2 ELSE t \div 2
Thrice(t) == modAdd(t, modAdd(t, t))

EccPoint_double_jacobian(x1, y1, z1) ==
  LET a    == modMult_fast(x1, modSquare_fast(y1))
      z2   == modSquare_fast(z1)
      b    == Half(Thrice(modMult_fast(modAdd(x1, z2), modSub(x1, z2))))
      x3   == modSub(modSub(modSquare_fast(b), a), a)
      y1_4 == modSquare_fast(modSquare_fast(y1))
  IN IF z1 = 0 THEN [x |-> x1, y |-> y1, z |-> z1]
     ELSE [x |-> x3,
           y |-> modSub(modMult_fast(b, modSub(a, x3)), y1_4),
           z |-> modMult_fast(y1, z1)]

\* A slip: y is multiplied by the square, too.
apply_zSquare(p, z) ==
  [x |-> modMult_fast(p.x, modSquare_fast(z)), y |-> modMult_fast(p.y, modSquare_fast(z))]

apply_z(p, z) ==
  LET zz == modSquare_fast(z)
  IN [x |-> modMult_fast(p.x, zz), y |-> modMult_fast(p.y, modMult_fast(zz, z))]

\* A slip: P keeps the Z it had.
XYcZ_initial_doubleApart(p, initialZ) ==
  LET after(q, d) == [double |-> [x |-> d.x, y |-> d.y], point |-> q]
      doubled(q) == EccPoint_double_jacobian(q.x, q.y, initialZ)
      q == apply_z(p, initialZ)
  IN after(q, doubled(q))

\* P becomes 2P, and P again with the Z that 2P got.
XYcZ_initial_double(p, initialZ) ==
  LET after(d) == [double |-> [x |-> d.x, y |-> d.y], point |-> apply_z(p, d.z)]
      doubled(q) == EccPoint_double_jacobian(q.x, q.y, initialZ)
  IN after(doubled(apply_z(p, initialZ)))

\* P, Q become P, P + Q with a common new Z.
XYcZ_add(p, q) ==
  LET a  == modSquare_fast(modSub(q.x, p.x))
      b  == modMult_fast(p.x, a)
      c  == modMult_fast(q.x, a)
      dy == modSub(q.y, p.y)
      x3 == modSub(modSub(modSquare_fast(dy), b), c)
      y1 == modMult_fast(p.y, modSub(c, b))
  IN [first  |-> [x |-> b, y |-> y1],
      second |-> [x |-> x3, y |-> modSub(modMult_fast(dy, modSub(b, x3)), y1)]]

\* P, Q become P - Q, P + Q with a common new Z.
XYcZ_addC(p, q) ==
  LET a  == modSquare_fast(modSub(q.x, p.x))
      b  == modMult_fast(p.x, a)
      c  == modMult_fast(q.x, a)
      sy == modAdd(q.y, p.y)
      dy == modSub(q.y, p.y)
      y1 == modMult_fast(p.y, modSub(c, b))
      bc == modAdd(b, c)
      x3 == modSub(modSquare_fast(dy), bc)
      xm == modSub(modSquare_fast(sy), bc)
  IN [first  |-> [x |-> xm, y |-> modSub(modMult_fast(modSub(xm, b), sy), y1)],
      second |-> [x |-> x3, y |-> modSub(modMult_fast(dy, modSub(b, x3)), y1)]]

\* The ladder: the two registers Rx[i], Ry[i], whose difference stays the point.
R(r, i) == IF i = 0 THEN r.r0 ELSE r.r1
Registers(i, s) == IF i = 0 THEN [r0 |-> s.first, r1 |-> s.second]
                            ELSE [r0 |-> s.second, r1 |-> s.first]

LadderC(r, nb)   == Registers(1 - nb, XYcZ_addC(R(r, 1 - nb), R(r, nb)))
LadderAdd(r, nb) == Registers(nb, XYcZ_add(R(r, nb), R(r, 1 - nb)))

\* The Z that the registers share in the end, inverted, with base = R[1 - nb].
FinalZ(r, base, point) ==
  LET zi == modInv(modMult_fast(modMult_fast(modSub(r.r1.x, r.r0.x), base.y), point.x), P)
  IN modMult_fast(modMult_fast(zi, point.y), base.x)

LastBit(r, nb, point) == apply_z(LadderAdd(r, nb).r0, FinalZ(r, R(r, 1 - nb), point))

\* The last bit is handled apart, whether the scalar has another one or not.
EccPoint_mult(point, scalar, initialZ) ==
  LET start(s) == [r0 |-> s.point, r1 |-> s.double]
      nb(i) == IF testBit(scalar, i) THEN 0 ELSE 1
      round(r, i) == LadderAdd(LadderC(r, nb(i)), nb(i))
      upper == [j \in 1 .. numBits(scalar) - 2 |-> numBits(scalar) - 1 - j]
  IN LastBit(LadderC(FoldLeft(round, start(XYcZ_initial_double(point, initialZ)), upper), nb(0)),
             nb(0), point)

(***************************************************************************)
(* Compressed points: x and whether y is odd.                              *)
(***************************************************************************)
mod_sqrt(a) ==
  LET exponent == P + 1
      bits == [j \in 1 .. numBits(exponent) - 2 |-> numBits(exponent) - j]
  IN FoldLeft(LAMBDA r, i : LET s == modSquare_fast(r)
                            IN IF testBit(exponent, i) THEN modMult_fast(s, a) ELSE s,
              1, bits)

Compress(p) == [x |-> p.x, odd |-> p.y % 2]

\* A slip: whichever root comes out.
ecc_point_decompressRoot(c) ==
  [x |-> c.x, y |-> mod_sqrt(modAdd(modMult_fast(modSub(modSquare_fast(c.x), 3), c.x), B))]

ecc_point_decompress(c) ==
  LET y2 == modAdd(modMult_fast(modSub(modSquare_fast(c.x), 3), c.x), B)
      y  == mod_sqrt(y2)
  IN [x |-> c.x, y |-> IF y % 2 # c.odd THEN P - y ELSE y]

(***************************************************************************)
(* Keys.  A zero is drawn again only if the point that the loop tests is   *)
(* zero; before the first multiplication that point was never written, so  *)
(* that the loop may also end, with private key 0 and any public key.      *)
(***************************************************************************)
\* A slip: N itself is not reduced.
ReducedLate(n) == IF N < n THEN n - N ELSE n

Reduced(n) == IF N <= n THEN n - N ELSE n

ecc_make_key(draws) ==
  LET try[i \in 1 .. Len(draws) + 1, written \in BOOLEAN] ==
        IF i > Len(draws) \/ i > MAX_TRIES THEN {Failure}
        ELSE IF draws[i] = 0
        THEN try[i + 1, written]
               \cup IF written THEN {}
                    ELSE {[private |-> 0, public |-> Compress(p)] : p \in Points \ {Zero}}
        ELSE LET public == EccPoint_mult(G, Reduced(draws[i]), 1)
             IN IF EccPoint_isZero(public) THEN try[i + 1, TRUE]
                ELSE {[private |-> Reduced(draws[i]), public |-> Compress(public)]}
  IN try[1, FALSE]

\* The secret, or failure when the product is zero.
ecdh_shared_secret(public, private, random) ==
  LET product == EccPoint_mult(ecc_point_decompress(public), private, random)
  IN IF EccPoint_isZero(product) THEN Failure ELSE [secret |-> product.x]

(***************************************************************************)
(* Signatures.                                                             *)
(***************************************************************************)
modMult(l, r) == (l * r) % N

\* vli_modAdd takes one N away at most: a hash may be larger than N.
PlusHash(e, s) == IF e + s >= N THEN e + s - N ELSE e + s

\* A slip: k is not inverted.
SignatureDirect(private, hash, k, x) ==
  [r |-> x, s |-> modMult(PlusHash(hash, modMult(x, private)), k)]

Signature(private, hash, k, x) ==
  [r |-> x, s |-> modMult(PlusHash(hash, modMult(x, private)), modInv(k, N))]

\* As in ecc_make_key, a first zero may leave the loop with an unwritten point.
ecdsa_sign(private, hash, draws) ==
  LET try[i \in 1 .. Len(draws) + 1, written \in BOOLEAN] ==
        IF i > Len(draws) \/ i > MAX_TRIES THEN {Failure}
        ELSE IF draws[i] = 0
        THEN try[i + 1, written]
               \cup IF written THEN {}
                    ELSE {Signature(private, hash, 0, x) : x \in Field \ {0}}
        ELSE LET x == Reduced(EccPoint_mult(G, Reduced(draws[i]), 1).x)
             IN IF x = 0 THEN try[i + 1, TRUE]
                ELSE {Signature(private, hash, Reduced(draws[i]), x)}
  IN try[1, FALSE]

\* A slip: the sum keeps its Z.
SumWithGCoZ(q) == XYcZ_add(G, q).second

\* G + Q, from co-Z to affine coordinates.
SumWithG(q) ==
  apply_z(XYcZ_add(G, q).second, modInv(modSub(q.x, G.x), P))

\* u1 * G + u2 * Q, both scalars bit by bit at once.
Combination(u1, u2, q) ==
  LET sum   == SumWithG(q)
      bits  == IF numBits(u1) > numBits(u2) THEN numBits(u1) ELSE numBits(u2)
      point(i) == CASE testBit(u1, i) /\ testBit(u2, i) -> sum
                    [] testBit(u1, i) /\ ~testBit(u2, i) -> G
                    [] ~testBit(u1, i) /\ testBit(u2, i) -> q
                    [] OTHER -> Zero
      plus(d, p) ==
        LET t == apply_z(p, d.z)
            a == XYcZ_add(t, [x |-> d.x, y |-> d.y]).second
        IN [x |-> a.x, y |-> a.y, z |-> modMult_fast(d.z, modSub(d.x, t.x))]
      step(r, i) ==
        LET d == EccPoint_double_jacobian(r.x, r.y, r.z)
        IN IF testBit(u1, i) \/ testBit(u2, i) THEN plus(d, point(i)) ELSE d
  IN FoldLeft(step,
              [x |-> point(bits - 1).x, y |-> point(bits - 1).y, z |-> 1],
              [j \in 1 .. bits - 1 |-> bits - 1 - j])

Scalars(hash, sig) ==
  LET inv == modInv(sig.s, N)
  IN [u1 |-> modMult(hash, inv), u2 |-> modMult(sig.r, inv)]

ecdsa_verify(public, hash, sig) ==
  LET u == Scalars(hash, sig)
      c == Combination(u.u1, u.u2, ecc_point_decompress(public))
      v == Reduced(apply_z([x |-> c.x, y |-> c.y], modInv(c.z, P)).x)
  IN sig.r \in 1 .. N - 1 /\ sig.s \in 1 .. N - 1 /\ v = sig.r

(***************************************************************************)
(* The reference: the group, with Infinity for the point without           *)
(* coordinates.                                                            *)
(***************************************************************************)
Infinity == [infinite |-> TRUE]
OnCurve  == {p \in Points : (p.y * p.y - p.x * p.x * p.x + 3 * p.x - B) % P = 0}

Plus(p, q) ==
  LET slope == IF p.x = q.x THEN (3 * p.x * p.x - 3) * modInv(2 * p.y, P)
               ELSE (q.y - p.y) * modInv(modSub(q.x, p.x), P)
      l == slope % P
      x == (l * l - p.x - q.x) % P
  IN CASE p = Infinity -> q
       [] q = Infinity -> p
       [] p # Infinity /\ q # Infinity /\ p.x = q.x /\ (p.y + q.y) % P = 0 -> Infinity
       [] OTHER -> [x |-> x, y |-> (l * (p.x - x) - p.y) % P]

Multiple[k \in Nat] ==
  IF k = 0 THEN Infinity
  ELSE IF k % 2 = 1 THEN Plus(Multiple[k - 1], G)
  ELSE LET half == Multiple[k \div 2] IN Plus(half, half)

Times(k) == Multiple[k % N]
=============================================================================
