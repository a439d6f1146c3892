-------------------------- MODULE AlgorithmsProofs --------------------------
(***************************************************************************)
(* Proofs about Algorithms, for any widths of the machine's numbers.       *)
(* Payments and subsidies make and lose no money, at any height and in any *)
(* ledger; every message is padded as the standard says, and a target is   *)
(* met by the hashes that begin with the difficulty's zero bits; packets,  *)
(* keys and transactions are read back as they were written; and the       *)
(* numbers of four words that the elliptic curve is made of are integers   *)
(* below the prime: sums, products, reductions and inverses.               *)
(***************************************************************************)
EXTENDS AlgorithmsInv

-----------------------------------------------------------------------------
(* Conversions between int and size_t.                                     *)

LEMMA Spans ==
    /\ SizeSpan \in Nat \ {0} /\ IntSpan \in Nat \ {0}
    /\ \E k \in Nat \ {0} : SizeSpan = IntSpan * k
    /\ TwoTo[IntBits - 1] \in Nat \ {0} /\ IntSpan = 2 * TwoTo[IntBits - 1]
<1>1. /\ SizeBits \in Nat /\ IntBits \in Nat /\ IntBits - 1 \in Nat /\ SizeBits - IntBits \in Nat
      /\ IntBits + (SizeBits - IntBits) = SizeBits /\ (IntBits - 1) + 1 = IntBits
  BY AmountsAssumption
<1>2. SizeSpan \in Nat \ {0} /\ IntSpan \in Nat \ {0} /\ TwoTo[IntBits - 1] \in Nat \ {0}
  BY <1>1, Powers DEF SizeSpan, IntSpan
<1>3. IntSpan = 2 * TwoTo[IntBits - 1]
  BY <1>1, Powers DEF IntSpan
<1>4. SizeSpan = IntSpan * TwoTo[SizeBits - IntBits] /\ TwoTo[SizeBits - IntBits] \in Nat \ {0}
  <2>1. TwoTo[IntBits + (SizeBits - IntBits)] = TwoTo[IntBits] * TwoTo[SizeBits - IntBits]
    BY <1>1, PowersMultiply
  <2>2. TwoTo[SizeBits - IntBits] \in Nat \ {0}
    BY <1>1, Powers
  <2> QED BY <1>1, <2>1, <2>2 DEF SizeSpan, IntSpan
<1> QED BY <1>2, <1>3, <1>4

LEMMA ToSizeIs ==
    ASSUME NEW n \in Int
    PROVE  /\ ToSize(n) \in Size /\ ToSize(n) \in Nat
           /\ Alike(SizeSpan, ToSize(n), n) /\ Alike(IntSpan, ToSize(n), n)
           /\ n \in Size => ToSize(n) = n
           /\ \A k \in Int : Alike(SizeSpan, n, k) => ToSize(n) = ToSize(k)
<1>1. SizeSpan \in Nat \ {0} /\ IntSpan \in Nat \ {0} /\ ToSize(n) = n % SizeSpan
  BY Spans DEF ToSize, SizeSpan
<1>2. ToSize(n) \in 0 .. SizeSpan - 1 /\ Size = 0 .. SizeSpan - 1
  BY <1>1, Division DEF Size, SizeSpan
<1>3. ToSize(n) \in Nat /\ ToSize(n) \in Int
  BY <1>1, <1>2
<1>4. Alike(SizeSpan, ToSize(n), n)
  BY <1>1, AlikeRules
<1>5. Alike(IntSpan, ToSize(n), n)
  BY <1>1, <1>3, <1>4, Spans, AlikeRules
<1>6. ASSUME n \in Size PROVE ToSize(n) = n
  <2>1. n \in 0 .. SizeSpan - 1
    BY <1>2, <1>6
  <2>2. n % SizeSpan = n
    BY ONLY <1>1, <2>1, SmallStays
  <2> QED BY <1>1, <2>2
<1>7. ASSUME NEW k \in Int, Alike(SizeSpan, n, k) PROVE ToSize(n) = ToSize(k)
  <2>1. n % SizeSpan = k % SizeSpan
    BY <1>1, <1>7, AlikeRules
  <2> QED BY <2>1 DEF ToSize, SizeSpan
<1> QED BY <1>2, <1>3, <1>4, <1>5, <1>6, <1>7

LEMMA ToIntIs ==
    ASSUME NEW n \in Int
    PROVE  /\ ToInt(n) \in Int /\ Alike(IntSpan, ToInt(n), n)
           /\ \A k \in Int : Alike(IntSpan, n, k) => ToInt(n) = ToInt(k)
<1> DEFINE low == n % IntSpan
<1>1. IntSpan \in Nat \ {0} /\ TwoTo[IntBits - 1] \in Nat \ {0}
  BY Spans
<1>2. ToInt(n) = IF low >= TwoTo[IntBits - 1] THEN low - IntSpan ELSE low
  BY DEF ToInt, IntSpan
<1>3. low \in Int /\ Alike(IntSpan, low, n)
  <2>1. low \in Int
    BY <1>1, Division
  <2> QED BY <1>1, <2>1, AlikeRules
<1> HIDE DEF low
<1>4. ToInt(n) \in Int /\ Alike(IntSpan, ToInt(n), low)
  <2>1. CASE ToInt(n) = low
    BY <1>1, <1>3, <2>1, AlikeRules
  <2>2. CASE ToInt(n) = low - IntSpan
    <3>1. ToInt(n) = low + (IntSpan * (-1)) /\ ToInt(n) \in Int /\ -1 \in Int
      BY <1>1, <1>3, <2>2
    <3> QED BY <3>1 DEF Alike
  <2> QED BY <1>2, <2>1, <2>2
<1>5. Alike(IntSpan, ToInt(n), n)
  BY <1>1, <1>3, <1>4, AlikeRules
<1>6. ASSUME NEW k \in Int, Alike(IntSpan, n, k) PROVE ToInt(n) = ToInt(k)
  <2>1. n % IntSpan = k % IntSpan
    BY <1>1, <1>6, AlikeRules
  <2> QED BY <2>1 DEF ToInt, IntSpan
<1> QED BY <1>4, <1>5, <1>6

LEMMA ToIntZero == ToInt(0) = 0
<1>1. IntSpan \in Nat \ {0} /\ TwoTo[IntBits - 1] \in Nat \ {0}
  BY Spans
<1>2. 0 % IntSpan = 0
  <2>1. 0 = (IntSpan * 0) + 0 /\ 0 \in 0 .. IntSpan - 1 /\ 0 \in Int
    BY <1>1
  <2> QED BY <1>1, <2>1, Division
<1> QED BY <1>1, <1>2 DEF ToInt, IntSpan

-----------------------------------------------------------------------------
(* Balances.                                                               *)

(* An int is widened, something is added or taken, and the sum is cut.     *)
LEMMA WidenedAlike ==
    ASSUME NEW u \in Int, NEW w \in Int, Alike(IntSpan, u, w), NEW v \in Int
    PROVE  /\ ToInt(ToSize(u) + v) \in Int /\ Alike(IntSpan, ToInt(ToSize(u) + v), w + v)
           /\ ToInt(ToSize(u) - v) \in Int /\ Alike(IntSpan, ToInt(ToSize(u) - v), w - v)
<1> DEFINE s == ToSize(u)
           p == s + v
           m == s - v
<1>1. IntSpan \in Nat \ {0}
  BY Spans
<1>2. s \in Int /\ Alike(IntSpan, s, u)
  BY ToSizeIs
<1> HIDE DEF s
<1>3. Alike(IntSpan, s, w)
  BY ONLY <1>1, <1>2, Alike(IntSpan, u, w), u \in Int, w \in Int, AlikeTrans
<1>4. Alike(IntSpan, p, w + v) /\ Alike(IntSpan, m, w - v)
  BY ONLY <1>1, <1>2, <1>3, w \in Int, v \in Int, AlikeMoves
<1>5. p \in Int /\ m \in Int /\ w + v \in Int /\ w - v \in Int
  BY <1>2
<1> HIDE DEF p, m
<1>6. ToInt(p) \in Int /\ Alike(IntSpan, ToInt(p), p) /\ ToInt(m) \in Int /\ Alike(IntSpan, ToInt(m), m)
  BY ONLY <1>5, ToIntIs
<1>7. Alike(IntSpan, ToInt(p), w + v)
  BY ONLY <1>1, <1>4, <1>5, <1>6, AlikeTrans
<1>8. Alike(IntSpan, ToInt(m), w - v)
  BY ONLY <1>1, <1>4, <1>5, <1>6, AlikeTrans
<1> QED BY <1>6, <1>7, <1>8 DEF s, p, m

(* It comes to the difference, but for a multiple of the width of an int.  *)
LEMMA PaidAlike ==
    ASSUME NEW sum \in Int, NEW t, t.amount \in Int, NEW address
    PROVE  /\ Paid(sum, t, address) \in Int
           /\ Alike(IntSpan, Paid(sum, t, address), sum + Gain(t, address))
<1> DEFINE r == Received(sum, t, address)
           in == IF t.to = address THEN t.amount ELSE 0
           out == IF t.from = address THEN t.amount ELSE 0
<1>1. IntSpan \in Nat \ {0} /\ in \in Int /\ out \in Int
  BY Spans
<1>2. r \in Int /\ Alike(IntSpan, r, sum + in)
  <2>1. Alike(IntSpan, sum, sum)
    BY <1>1, AlikeRules
  <2>2. CASE t.to = address
    <3>1. r = ToInt(ToSize(sum) + t.amount) /\ in = t.amount
      BY <2>2 DEF Received
    <3> HIDE DEF r, in
    <3> QED BY <2>1, <3>1, WidenedAlike
  <2>3. CASE t.to # address
    <3>1. r = sum /\ sum + in = sum
      BY <2>3 DEF Received
    <3> QED BY <2>1, <3>1
  <2> QED BY <2>2, <2>3
<1>3. /\ Paid(sum, t, address) \in Int
      /\ Alike(IntSpan, Paid(sum, t, address), (sum + in) - out)
  <2> DEFINE w == sum + in
  <2>1. w \in Int /\ r \in Int /\ Alike(IntSpan, r, w)
    BY <1>1, <1>2
  <2> HIDE DEF r, in, w
  <2>2. CASE t.from = address
    <3>1. Paid(sum, t, address) = ToInt(ToSize(r) - t.amount) /\ w - out = w - t.amount
      BY <2>2 DEF Paid, r
    <3>2. /\ ToInt(ToSize(r) - t.amount) \in Int
          /\ Alike(IntSpan, ToInt(ToSize(r) - t.amount), w - t.amount)
      BY <2>1, WidenedAlike
    <3> QED BY <3>1, <3>2 DEF w
  <2>3. CASE t.from # address
    <3>1. Paid(sum, t, address) = r /\ w - out = w
      BY <2>1, <2>3 DEF Paid, r
    <3> QED BY <2>1, <3>1 DEF w
  <2> QED BY <2>2, <2>3
<1>4. sum + Gain(t, address) = (sum + in) - out
  BY <1>1 DEF Gain, in
<1> QED BY <1>3, <1>4

-----------------------------------------------------------------------------
(* The payments of a ledger between the members of D.                      *)

LEMMA PaymentType ==
    ASSUME NEW D, NEW t \in Payments(D)
    PROVE  t.from \in D /\ t.to \in D /\ t.amount \in Int
<1>1. t.amount \in Size /\ TwoTo[SizeBits] \in Nat \ {0}
  BY Spans DEF Payments, SizeSpan
<1> QED BY <1>1 DEF Payments, Size

(* Wallet::calculateBalance after every payment.                           *)
LEMMA BalanceSteps ==
    ASSUME NEW D, NEW txs \in Seq(Payments(D)), NEW a
    PROVE  \E h \in [0 .. Len(txs) -> Int] :
               /\ h[0] = 0
               /\ \A k \in 1 .. Len(txs) : h[k] = Paid(h[k - 1], txs[k], a)
               /\ Balance(txs, a) = h[Len(txs)]
<1> DEFINE S == Payments(D)
           step == [p \in Int \X S |-> Paid(p[1], p[2], a)]
           Parts == SUBSET (DOMAIN txs)
           zero == 0
<1>1. step \in [Int \X S -> Int]
  <2>1. \A p \in Int \X S : Paid(p[1], p[2], a) \in Int
    BY PaymentType, PaidAlike
  <2> QED BY <2>1
<1>2. \A n \in Int : \A t \in S : step[<<n, t>>] = Paid(n, t, a)
  OBVIOUS
<1> HIDE DEF step, S
<1>3. PICK g \in [Parts -> Int] : \A s \in Parts : g[s] = FoldBody(step, 0, txs, s, g)
  <2> DEFINE V == Int
  <2>1. zero \in V /\ txs \in Seq(S) /\ Steps(step, S, V)
    BY <1>1 DEF S, Steps
  <2> HIDE DEF zero, V
  <2>2. Folded(step, zero, txs, V)
    BY ONLY <2>1, FoldExists
  <2> QED BY <2>2 DEF zero, V, Folded
<1>4. txs \in Seq(S) /\ DOMAIN txs = 1 .. Len(txs) /\ Len(txs) \in Nat
  BY DEF S
<1> HIDE DEF S
<1> DEFINE Rec(f) == [s \in Parts |-> IF s = {} THEN 0 ELSE Paid(f[s \ {Max(s)}], txs[Max(s)], a)]
           B_ == CHOOSE f : f = Rec(f)
           n == Len(txs)
           h == [k \in 0 .. n |-> B_[1 .. k]]
<1>5. g = Rec(g)
  <2>1. ASSUME NEW s \in Parts, s # {} PROVE g[s] = Paid(g[s \ {Max(s)}], txs[Max(s)], a)
    <3>1. Max(s) \in s
      BY <1>4, <2>1, MaxIs
    <3>2. txs[Max(s)] \in S /\ g[s \ {Max(s)}] \in Int
      BY <1>3, <1>4, <3>1
    <3> QED BY <1>2, <1>3, <2>1, <3>2 DEF FoldBody
  <2>2. \A s \in Parts : s = {} => g[s] = 0
    BY <1>3 DEF FoldBody
  <2> HIDE DEF Parts
  <2> QED BY <1>3, <2>1, <2>2
<1>6. B_ = Rec(B_)
  <2> HIDE DEF Rec
  <2> QED BY <1>5
<1>7. Balance(txs, a) = B_[1 .. n]
  BY <1>4 DEF Balance, FoldLeft, MapThenFoldSet, Paid, Received
<1>8. B_[1 .. 0] = 0 /\ \A k \in 1 .. n : B_[1 .. k] = Paid(B_[1 .. k - 1], txs[k], a)
  <2>1. ASSUME NEW k \in 1 .. n PROVE B_[1 .. k] = Paid(B_[1 .. k - 1], txs[k], a)
    <3>1. 1 .. k \in Parts /\ 1 .. k # {} /\ Max(1 .. k) = k /\ (1 .. k) \ {k} = 1 .. k - 1
      BY <1>4, FoldSteps
    <3> HIDE DEF B_
    <3> QED BY <1>6, <3>1
  <2>2. 1 .. 0 = {} /\ {} \in Parts
    OBVIOUS
  <2> HIDE DEF B_
  <2>3. B_[{}] = 0
    BY <1>6, <2>2
  <2> QED BY <2>1, <2>2, <2>3
<1> HIDE DEF B_
<1>9. \A k \in 0 .. n : B_[1 .. k] \in Int
  <2> DEFINE C == {k \in 0 .. n : B_[1 .. k] \in Int}
  <2>1. 0 \in C
    BY <1>4, <1>8
  <2>2. ASSUME NEW k \in 0 .. n - 1, k \in C PROVE k + 1 \in C
    <3>1. k + 1 \in 1 .. n /\ (k + 1) - 1 = k /\ k + 1 \in 0 .. n
      BY <1>4
    <3>2. txs[k + 1].amount \in Int
      BY <1>4, <3>1, PaymentType DEF S
    <3>3. B_[1 .. k + 1] = Paid(B_[1 .. k], txs[k + 1], a)
      BY <1>8, <3>1
    <3>4. B_[1 .. k + 1] \in Int
      BY <2>2, <3>2, <3>3, PaidAlike
    <3> QED BY <3>1, <3>4
  <2>3. 0 .. n \subseteq C
    <3>1. 0 \in Int /\ n \in Int
      BY <1>4
    <3> HIDE DEF C
    <3> QED BY <2>1, <2>2, <3>1, InductTo
  <2> QED BY <2>3
<1>10. h \in [0 .. n -> Int] /\ h[0] = 0 /\ Balance(txs, a) = h[n]
  BY <1>4, <1>7, <1>8, <1>9
<1>11. ASSUME NEW k \in 1 .. n PROVE h[k] = Paid(h[k - 1], txs[k], a)
  <2>1. k \in 0 .. n /\ k - 1 \in 0 .. n
    BY <1>4
  <2>2. h[k] = B_[1 .. k] /\ h[k - 1] = B_[1 .. k - 1]
    BY <2>1
  <2> QED BY <1>8, <2>2
<1> QED BY <1>10, <1>11

(* What a payment gives to one it takes from another.                      *)
LEMMA GainsCancel ==
    ASSUME NEW D, IsFiniteSet(D), NEW t \in Payments(D),
           NEW f \in [D -> Int], NEW g \in [D -> Int], Gained(f, g, t, D)
    PROVE  Totals(g, D)[D] = Totals(f, D)[D]
<1> DEFINE v == t.amount
           w == -v
           e == [f EXCEPT ![t.to] = f[t.to] + v]
<1>1. t.from \in D /\ t.to \in D /\ v \in Int /\ w \in Int
  <2>1. t.from \in D /\ t.to \in D /\ v \in Int
    BY PaymentType
  <2> QED BY <2>1
<1>2. e \in [D -> Int] /\ e[t.to] = f[t.to] + v /\ \A a \in D \ {t.to} : e[a] = f[a]
  BY <1>1
<1> HIDE DEF e
<1>3. g[t.from] = e[t.from] + w /\ \A a \in D \ {t.from} : g[a] = e[a]
  BY <1>1, <1>2 DEF Gain, Gained
<1> HIDE DEF v, w
<1>4. Totals(e, D)[D] = Totals(f, D)[D] + v
  BY <1>1, <1>2, TotalGrows
<1>5. Totals(g, D)[D] = Totals(e, D)[D] + w
  BY <1>1, <1>2, <1>3, TotalGrows
<1>6. Totals(f, D)[D] \in Int
  BY TotalInt
<1> QED BY <1>1, <1>4, <1>5, <1>6 DEF w

(* All balances add up to nothing.                                         *)
LEMMA LedgerCancels ==
    ASSUME NEW D, IsFiniteSet(D), NEW txs \in Seq(Payments(D))
    PROVE  LET all == [a \in D |-> Balance(txs, a)]
           IN  ToInt(FoldFunctionOnSet(+, 0, all, DOMAIN all)) = 0
<1> DEFINE n == Len(txs)
           History(a, h) == /\ h[0] = 0
                            /\ \A k \in 1 .. n : h[k] = Paid(h[k - 1], txs[k], a)
                            /\ Balance(txs, a) = h[n]
           H == [a \in D |-> CHOOSE h \in [0 .. n -> Int] : History(a, h)]
           b(k) == [a \in D |-> H[a][k]]
           C == {k \in 0 .. n : Alike(IntSpan, Totals(b(k), D)[D], 0)}
<1>1. n \in Nat /\ \A k \in 1 .. n : txs[k] \in Payments(D)
  OBVIOUS
<1>2. \A a \in D : H[a] \in [0 .. n -> Int] /\ History(a, H[a])
  BY BalanceSteps
<1> HIDE DEF H
<1>3. \A k \in 0 .. n : b(k) \in [D -> Int]
  BY <1>2
<1>4. IntSpan \in Nat \ {0}
  BY Spans
<1>5. 0 \in C
  <2>1. 0 \in 0 .. n /\ \A a \in D : b(0)[a] = 0
    BY <1>1, <1>2
  <2>2. Totals(b(0), D)[D] = 0
    <3>1. b(0) \in [D -> Int]
      BY <1>3, <2>1
    <3> HIDE DEF b
    <3> QED BY <2>1, <3>1, TotalZero
  <2>3. Alike(IntSpan, 0, 0)
    BY <1>4, AlikeRules
  <2> QED BY <2>1, <2>2, <2>3
<1>6. ASSUME NEW k \in 0 .. n - 1, k \in C PROVE k + 1 \in C
  <2> DEFINE t == txs[k + 1]
             f == b(k)
             next == b(k + 1)
             g == [a \in D |-> f[a] + Gain(t, a)]
  <2>1. k \in 0 .. n /\ k + 1 \in 0 .. n /\ k + 1 \in 1 .. n /\ (k + 1) - 1 = k
    BY <1>1
  <2>2. t \in Payments(D)
    BY <1>1, <2>1
  <2>3. f \in [D -> Int] /\ next \in [D -> Int]
    BY <1>3, <2>1
  <2>4. t.amount \in Int
    BY <2>2, PaymentType
  <2>5. \A a \in D : next[a] = Paid(f[a], t, a)
    BY <1>2, <2>1
  <2> HIDE DEF t, f, next, b
  <2>6. g \in [D -> Int] /\ \A a \in D : g[a] = f[a] + Gain(t, a)
    BY <2>3, <2>4 DEF Gain
  <2> HIDE DEF g
  <2>7. \A a \in D : Alike(IntSpan, next[a], g[a])
    BY <2>3, <2>4, <2>5, <2>6, PaidAlike
  <2>8. Alike(IntSpan, Totals(next, D)[D], Totals(g, D)[D])
    BY <1>4, <2>3, <2>6, <2>7, TotalAlike
  <2>9. Totals(g, D)[D] = Totals(f, D)[D]
    <3>1. Gained(f, g, t, D)
      BY <2>6 DEF Gained
    <3> QED BY ONLY <2>2, <2>3, <2>6, <3>1, IsFiniteSet(D), GainsCancel, SMTT(30)
  <2>10. Alike(IntSpan, Totals(f, D)[D], 0)
    BY <1>6 DEF f
  <2>11. Totals(next, D)[D] \in Int /\ Totals(f, D)[D] \in Int
    BY <2>3, TotalInt
  <2>12. Alike(IntSpan, Totals(next, D)[D], 0)
    BY <1>4, <2>8, <2>9, <2>10, <2>11, AlikeTrans
  <2> QED BY <2>1, <2>12 DEF next
<1>7. n \in C
  <2>1. 0 \in Int /\ n \in Int /\ n \in 0 .. n
    BY <1>1
  <2>2. 0 .. n \subseteq C
    <3> HIDE DEF C
    <3> QED BY <1>5, <1>6, <2>1, InductTo
  <2> QED BY <2>1, <2>2
<1> DEFINE all == [a \in D |-> Balance(txs, a)]
<1>8. all = b(n) /\ DOMAIN all = D
  BY <1>2
<1>9. FoldFunctionOnSet(+, 0, all, DOMAIN all) = Totals(b(n), D)[D]
  <2> HIDE DEF b, all
  <2> QED BY <1>8, TotalByBody
<1>10. ToInt(Totals(b(n), D)[D]) = ToInt(0)
  <2>1. b(n) \in [D -> Int]
    BY <1>1, <1>3
  <2> HIDE DEF b
  <2>2. Totals(b(n), D)[D] \in Int
    BY <2>1, TotalInt
  <2> QED BY <1>7, <2>2, ToIntIs
<1> QED BY <1>9, <1>10, ToIntZero

-----------------------------------------------------------------------------
(* Transactions and subsidies.                                             *)

LEMMA TotalShown ==
    ASSUME NEW amount, NEW balance, NEW before \in Size, Total(amount, balance, before)
    PROVE  /\ ToSize(amount + balance) = before
           /\ ToInt(balance + amount) = ToInt(before)
<1>1. /\ SizeSpan \in Nat \ {0} /\ IntSpan \in Nat \ {0}
      /\ \E k \in Nat \ {0} : SizeSpan = IntSpan * k
  BY Spans
<1>2. amount \in Int /\ balance \in Int /\ before \in Int
  BY <1>1 DEF Total, Size, SizeSpan
<1> DEFINE sum == amount + balance
<1>3. sum \in Int /\ Alike(SizeSpan, sum, before) /\ balance + amount = sum
  BY <1>2 DEF Total
<1> HIDE DEF sum
<1>4. ToSize(sum) = ToSize(before) /\ ToSize(before) = before
  BY <1>2, <1>3, ToSizeIs
<1>5. Alike(IntSpan, sum, before)
  BY <1>1, <1>2, <1>3, AlikeRules
<1>6. ToInt(sum) = ToInt(before)
  BY <1>2, <1>3, <1>5, ToIntIs
<1>7. ToInt(balance + amount) = ToInt(before)
  BY <1>3, <1>6
<1> QED BY <1>4, <1>7 DEF sum

(* What is added to the amount is taken from the balance.                  *)
LEMMA TotalMoves ==
    ASSUME NEW amount, NEW balance, NEW before \in Int, Total(amount, balance, before), NEW v \in Int
    PROVE  Total(ToSize(amount + v), ToSize(balance - v), before)
<1> DEFINE a == amount + v
           b == balance - v
<1>1. SizeSpan \in Nat \ {0} /\ amount \in Int /\ balance \in Int
  BY Spans DEF Total
<1>2. a \in Int /\ b \in Int /\ a + b = amount + balance
  BY <1>1
<1>3. Alike(SizeSpan, a + b, before)
  BY <1>2 DEF Total
<1> HIDE DEF a, b
<1>4. ToSize(a) \in Int /\ ToSize(b) \in Int /\ Alike(SizeSpan, ToSize(a), a) /\ Alike(SizeSpan, ToSize(b), b)
  BY <1>2, ToSizeIs
<1>5. Alike(SizeSpan, ToSize(a) + ToSize(b), a + b)
  BY <1>1, <1>2, <1>4, AlikeRules
<1>6. Alike(SizeSpan, ToSize(a) + ToSize(b), before)
  <2>1. ToSize(a) + ToSize(b) \in Int /\ a + b \in Int
    BY <1>2, <1>4
  <2> QED BY <1>1, <1>3, <1>5, <2>1, AlikeTrans
<1> QED BY <1>4, <1>6 DEF Total, a, b

(* Transaction::Update, of a transaction that was just made.               *)
LEMMA UpdateKeeps ==
    ASSUME NEW amount \in Size, NEW before \in Size, NEW more \in Size
    PROVE  LET made == NewTransaction(amount, before)
               u == Update(made, more)
           IN  /\ u.t.in.balance = ToInt(before)
               /\ ToSize(u.t.out.amount + u.t.out.balance) = before
               /\ u.error = 1 <=> more > ToSize(before - amount)
               /\ u.error = 1 => u.t = made
<1> DEFINE rest == ToSize(before - amount)
           made == NewTransaction(amount, before)
           u == Update(made, more)
           out == u.t.out
<1>1. /\ SizeSpan \in Nat \ {0} /\ amount \in Int /\ before \in Int /\ more \in Int
      /\ more \in Nat /\ before - amount \in Int
  BY Spans DEF Size, SizeSpan
<1>2. rest \in Int
  BY <1>1, ToSizeIs
<1>3. Total(amount, rest, before)
  <2> DEFINE d == before - amount
  <2>1. d \in Int /\ d + amount = before
    BY <1>1
  <2> HIDE DEF d
  <2>2. ToSize(d) \in Int /\ Alike(SizeSpan, ToSize(d), d)
    BY <2>1, ToSizeIs
  <2>3. Alike(SizeSpan, ToSize(d) + amount, d + amount)
    BY <1>1, <2>1, <2>2, AlikeMoves
  <2>4. amount + ToSize(d) = ToSize(d) + amount
    BY <1>1, <2>2
  <2> QED BY <1>1, <2>1, <2>2, <2>3, <2>4 DEF Total, d
<1>4. /\ made.out = [amount |-> amount, balance |-> rest]
      /\ made.in = [balance |-> ToInt(rest + amount)]
      /\ made = [out |-> made.out, in |-> made.in]
  BY DEF NewTransaction, createOutput, createInput
<1> HIDE DEF rest
<1>5. CASE more > rest
  <2>1. u = [error |-> 1, t |-> made]
    BY <1>4, <1>5 DEF Update
  <2>2. u.t.in.balance = ToInt(rest + amount) /\ u.t.out.amount = amount /\ u.t.out.balance = rest
    BY <1>4, <2>1
  <2>3. ToInt(rest + amount) = ToInt(before) /\ ToSize(amount + rest) = before
    BY <1>3, TotalShown
  <2> QED BY <1>5, <2>1, <2>2, <2>3 DEF rest
<1>6. CASE ~(more > rest)
  <2> DEFINE o == IF more > 0
                  THEN [amount |-> ToSize(amount + more), balance |-> ToSize(rest - more)]
                  ELSE [amount |-> ToSize(amount - more), balance |-> ToSize(rest + ToInt(more))]
  <2>1. u = [error |-> 0, t |-> [out |-> o, in |-> createInput(o)]]
    BY <1>4, <1>6 DEF Update
  <2>2. o.amount = ToSize(amount + more) /\ o.balance = ToSize(rest - more)
    <3>1. CASE more > 0
      BY <3>1
    <3>2. CASE more = 0
      <4>1. amount - more = amount + more /\ rest + ToInt(more) = rest - more
        BY <1>1, <1>2, <3>2, ToIntZero
      <4> QED BY <3>2, <4>1
    <3> QED BY <1>1, <3>1, <3>2
  <2> HIDE DEF o
  <2>3. Total(o.amount, o.balance, before)
    BY <1>1, <1>3, <2>2, TotalMoves
  <2>4. ToSize(o.amount + o.balance) = before /\ ToInt(o.balance + o.amount) = ToInt(before)
    BY <2>3, TotalShown
  <2>5. u.t.in.balance = ToInt(o.balance + o.amount) /\ u.t.out = o /\ u.error = 0
    BY <2>1 DEF createInput
  <2> HIDE DEF u
  <2>6. u.error # 1
    BY <2>5
  <2> QED BY <1>6, <2>4, <2>5, <2>6 DEF rest, u
<1> QED BY <1>5, <1>6

(* getBlockSubsidy, at any height.                                         *)
LEMMA SubsidyIs ==
    ASSUME NEW height \in Nat, NEW s \in getBlockSubsidy(height)
    PROVE  LET halvings == height \div Interval
           IN  /\ halvings + 1 < IntBits => getBlockSubsidy(height + Interval) = {s \div 2}
               /\ halvings >= 2 * IntBits => s = 0
               /\ s <= Subsidy
<1> DEFINE q == height \div Interval
           later == (height + Interval) \div Interval
<1>1. Interval \in Nat \ {0} /\ IntBits \in Nat \ {0} /\ Subsidy \in Nat
  <2>1. TwoTo[IntBits - 1] \in Nat \ {0}
    BY Spans
  <2> QED BY <2>1, AmountsAssumption
<1>2. q \in Nat
  BY <1>1, DividedTwice
<1>3. later = q + 1
  <2>4. (height % Interval) \in 0 .. Interval - 1 /\ height = (Interval * q) + (height % Interval)
    <3>1. height \in Int
      OBVIOUS
    <3> QED BY ONLY <1>1, <3>1, Division
  <2> HIDE DEF q
  <2>1. PICK r \in 0 .. Interval - 1 : height = (Interval * q) + r
    BY ONLY <2>4
  <2>2. height + Interval = (Interval * (q + 1)) + r
    BY <1>1, <1>2, <2>1
  <2>3. height + Interval \in Int /\ q + 1 \in Int
    BY <1>1, <1>2
  <2> QED BY <1>1, <2>2, <2>3, Division
<1>4. getBlockSubsidy(height) =
        CASE q >= 2 * IntBits -> {0}
          [] q < IntBits -> {Subsidy \div TwoTo[q]}
          [] OTHER -> {Subsidy \div TwoTo[q % IntBits], 0}
  BY DEF getBlockSubsidy
<1>5. getBlockSubsidy(height + Interval) =
        CASE later >= 2 * IntBits -> {0}
          [] later < IntBits -> {Subsidy \div TwoTo[later]}
          [] OTHER -> {Subsidy \div TwoTo[later % IntBits], 0}
  BY DEF getBlockSubsidy
<1> HIDE DEF q, later
<1>6. ASSUME q + 1 < IntBits PROVE getBlockSubsidy(height + Interval) = {s \div 2}
  <2>1. getBlockSubsidy(height + Interval) = {Subsidy \div TwoTo[q + 1]}
    <3>1. later < IntBits /\ ~(later >= 2 * IntBits)
      BY <1>1, <1>2, <1>3, <1>6
    <3> QED BY <1>3, <1>5, <3>1
  <2>2. s = Subsidy \div TwoTo[q]
    <3>1. q < IntBits /\ ~(q >= 2 * IntBits)
      BY <1>1, <1>2, <1>6
    <3> QED BY <1>4, <3>1
  <2>3. TwoTo[q] \in Nat \ {0} /\ TwoTo[q + 1] = 2 * TwoTo[q]
    BY <1>2, Powers
  <2>4. (Subsidy \div TwoTo[q]) \div 2 = Subsidy \div (2 * TwoTo[q])
    BY <1>1, <2>3, DividedTwice
  <2> QED BY <2>1, <2>2, <2>3, <2>4
<1>7. ASSUME q >= 2 * IntBits PROVE s = 0
  <2>1. ~(q < IntBits)
    BY <1>1, <1>2, <1>7
  <2> QED BY <1>4, <1>7, <2>1
<1>8. s <= Subsidy
  <2>1. \A k \in Nat : Subsidy \div TwoTo[k] <= Subsidy
    BY <1>1, Powers, DividedTwice
  <2>2. q % IntBits \in Nat
    BY <1>1, <1>2, Division
  <2>3. s = 0 \/ s = Subsidy \div TwoTo[q] \/ s = Subsidy \div TwoTo[q % IntBits]
    BY <1>4
  <2> QED BY <1>1, <1>2, <2>1, <2>2, <2>3
<1> QED BY <1>6, <1>7, <1>8 DEF q

-----------------------------------------------------------------------------
(* Hashing.                                                                *)

LEMMA Lengths ==
    /\ BlockLen \in Nat \ {0} /\ LengthAt \in 1 .. BlockLen - 1 /\ LengthAt \in Nat
    /\ ByteBits \in Nat \ {0} /\ HashLen \in Nat \ {0}
    /\ Place = 0 .. BlockLen - 1 /\ Stop \in Int /\ Byte \subseteq Int
    /\ Sha \in Shas
<1>1. /\ BlockLen \in Nat \ {0} /\ LengthAt \in 1 .. BlockLen - 1 /\ LengthAt \in Nat
      /\ ByteBits \in Nat \ {0} /\ HashLen \in Nat \ {0}
  BY DigestAssumption
<1>2. TwoTo[ByteBits] \in Nat /\ TwoTo[ByteBits - 1] \in Nat
  BY <1>1, Powers
<1>3. Sha \in Shas
  <2>1. 0 \in Place /\ <<>> \in Seq([Place -> Int]) /\ [i \in Place |-> 0] \in [Place -> Int]
    BY <1>1 DEF Place
  <2> QED BY <2>1 DEF Sha, Shas, ShasOf
<1> QED BY <1>1, <1>2, <1>3 DEF Place, Stop, Byte

(* One byte more: a block that is full is absorbed.                        *)
LEMMA AbsorbIs ==
    ASSUME NEW s \in Shas, NEW byte \in Int
    PROVE  LET a == Absorb(s, byte)
           IN  /\ a \in Shas
               /\ a.data = [s.data EXCEPT ![s.blocklen] = byte]
               /\ IF s.blocklen + 1 = BlockLen
                  THEN /\ a.blocklen = 0 /\ a.bitlen = s.bitlen + (ByteBits * BlockLen)
                       /\ a.state = Append(s.state, a.data)
                  ELSE a.blocklen = s.blocklen + 1 /\ a.bitlen = s.bitlen /\ a.state = s.state
<1> DEFINE data == [s.data EXCEPT ![s.blocklen] = byte]
           k == s.blocklen + 1
           t0 == [s EXCEPT !.data[s.blocklen] = byte, !.blocklen = @ + 1]
           t == [s EXCEPT !.data = data, !.blocklen = k]
           a == Absorb(s, byte)
           L == ByteBits * BlockLen
           A_ == [Place -> Int]
           S_ == Seq(A_)
           K_ == Nat
           Wide == ShasOf(A_, K_, K_, S_)
<1>1. data \in A_ /\ L \in Nat
  BY Lengths DEF Shas, ShasOf
<1>2. s.blocklen \in Place /\ s.bitlen \in Nat /\ s.state \in S_ /\ k \in K_ /\ s \in Wide
  BY Lengths DEF Shas, ShasOf
<1>3. t0 = t
  <2>1. t0
          = [s EXCEPT !.data = [@ EXCEPT ![s.blocklen] = byte], !.blocklen = @ + 1]
    BY Zenon
  <2> QED BY <2>1
<1> HIDE DEF data, L, k, A_, S_, K_
<1>4. t \in Wide /\ t.data = data /\ t.blocklen = k /\ t.bitlen = s.bitlen /\ t.state = s.state
  BY ONLY <1>1, <1>2 DEF ShasOf
<1>5. a = IF t.blocklen = BlockLen
          THEN [[t EXCEPT !.state = Append(@, t.data)] EXCEPT !.bitlen = @ + L, !.blocklen = 0]
          ELSE t
  <2>1. a = IF t0.blocklen = BlockLen
            THEN [[t0 EXCEPT !.state = Append(@, t0.data)] EXCEPT !.bitlen = @ + L, !.blocklen = 0]
            ELSE t0
    BY Zenon DEF Absorb, transform, L
  <2> HIDE DEF t0, t
  <2> QED BY <1>3, <2>1
<1> HIDE DEF t
<1>6. CASE k = BlockLen
  <2> DEFINE e == Append(t.state, t.data)
             u == [t EXCEPT !.state = e]
             bits == t.bitlen + L
             none == 0
  <2>1. e \in S_ /\ bits \in K_ /\ none \in K_
    BY <1>1, <1>2, <1>4 DEF S_, K_
  <2>2. a = [u EXCEPT !.bitlen = bits, !.blocklen = none]
    <3>1. a = [[t EXCEPT !.state = e] EXCEPT !.bitlen = @ + L, !.blocklen = 0]
      BY <1>4, <1>5, <1>6
    <3>2. u.bitlen = t.bitlen
      BY <1>4
    <3> HIDE DEF e
    <3>3. a = [u EXCEPT !.bitlen = @ + L, !.blocklen = none]
      BY <3>1
    <3> HIDE DEF u
    <3> QED BY <3>2, <3>3
  <2> HIDE DEF e, bits, none
  <2>3. u \in Wide /\ u.data = t.data /\ u.blocklen = t.blocklen /\ u.bitlen = t.bitlen /\ u.state = e
    BY ONLY <1>1, <1>2, <1>4, <2>1 DEF ShasOf
  <2> HIDE DEF u
  <2>4. a \in Wide /\ a.data = u.data /\ a.blocklen = none /\ a.bitlen = bits /\ a.state = u.state
    BY ONLY <2>1, <2>2, <2>3 DEF ShasOf
  <2>5. a \in Shas
    <3>1. none \in Place
      BY Lengths DEF none
    <3> QED BY <2>4, <3>1 DEF Shas, ShasOf, A_, S_, K_
  <2> QED BY <1>4, <1>6, <2>3, <2>4, <2>5 DEF e, bits, none, data, k, L
<1>7. CASE k # BlockLen
  <2>1. a = t
    BY <1>4, <1>5, <1>7
  <2>2. k \in Place
    BY <1>2, <1>7, Lengths DEF k, K_
  <2>3. a \in Shas
    BY <1>4, <2>1, <2>2 DEF Shas, ShasOf, A_, S_, K_
  <2> QED BY <1>4, <1>7, <2>1, <2>3 DEF data, k
<1> QED BY <1>6, <1>7

(* SHA256::update after every byte.                                        *)
LEMMA UpdateSteps ==
    ASSUME NEW s \in Shas, NEW bytes \in Seq(Int)
    PROVE  \E h \in [0 .. Len(bytes) -> Shas] :
               /\ h[0] = s
               /\ \A k \in 1 .. Len(bytes) : h[k] = Absorb(h[k - 1], bytes[k])
               /\ update(s, bytes) = h[Len(bytes)]
<1> DEFINE step == [p \in Shas \X Int |-> Absorb(p[1], p[2])]
           Parts == SUBSET (DOMAIN bytes)
           n == Len(bytes)
<1>1. step \in [Shas \X Int -> Shas]
  <2>1. \A p \in Shas \X Int : Absorb(p[1], p[2]) \in Shas
    BY AbsorbIs
  <2> QED BY <2>1
<1>2. \A t \in Shas : \A b \in Int : step[<<t, b>>] = Absorb(t, b)
  OBVIOUS
<1> HIDE DEF step
<1>3. PICK g \in [Parts -> Shas] : \A p \in Parts : g[p] = FoldBody(step, s, bytes, p, g)
  <2> DEFINE S == Int
  <2>1. bytes \in Seq(S) /\ Steps(step, S, Shas)
    BY <1>1 DEF Steps
  <2> HIDE DEF S
  <2>2. Folded(step, s, bytes, Shas)
    BY ONLY <2>1, s \in Shas, FoldExists
  <2> QED BY <2>2 DEF Folded
<1>4. DOMAIN bytes = 1 .. n /\ n \in Nat
  OBVIOUS
<1> DEFINE Rec(f) == [p \in Parts |-> IF p = {} THEN s ELSE Absorb(f[p \ {Max(p)}], bytes[Max(p)])]
           all == CHOOSE f : f = Rec(f)
           h == [k \in 0 .. n |-> all[1 .. k]]
<1>5. g = Rec(g)
  <2>1. ASSUME NEW p \in Parts, p # {} PROVE g[p] = Absorb(g[p \ {Max(p)}], bytes[Max(p)])
    <3>1. Max(p) \in p
      BY <1>4, <2>1, MaxIs
    <3>2. bytes[Max(p)] \in Int /\ g[p \ {Max(p)}] \in Shas
      BY <1>3, <1>4, <3>1
    <3> QED BY <1>2, <1>3, <2>1, <3>2 DEF FoldBody
  <2>2. \A p \in Parts : p = {} => g[p] = s
    BY <1>3 DEF FoldBody
  <2> HIDE DEF Parts
  <2> QED BY <1>3, <2>1, <2>2
<1>6. all = Rec(all)
  <2> HIDE DEF Rec
  <2> QED BY <1>5
<1>7. update(s, bytes) = all[1 .. n]
  BY <1>4 DEF update, FoldLeft, MapThenFoldSet
<1>8. all[1 .. 0] = s /\ \A k \in 1 .. n : all[1 .. k] = Absorb(all[1 .. k - 1], bytes[k])
  <2>1. ASSUME NEW k \in 1 .. n PROVE all[1 .. k] = Absorb(all[1 .. k - 1], bytes[k])
    <3>1. 1 .. k \in Parts /\ 1 .. k # {} /\ Max(1 .. k) = k /\ (1 .. k) \ {k} = 1 .. k - 1
      BY <1>4, FoldSteps
    <3> HIDE DEF all
    <3> QED BY <1>6, <3>1
  <2>2. 1 .. 0 = {} /\ {} \in Parts
    OBVIOUS
  <2> HIDE DEF all
  <2>3. all[{}] = s
    BY <1>6, <2>2
  <2> QED BY <2>1, <2>2, <2>3
<1> HIDE DEF all
<1>9. \A k \in 0 .. n : all[1 .. k] \in Shas
  <2> DEFINE C == {k \in 0 .. n : all[1 .. k] \in Shas}
  <2>1. 0 \in C
    BY <1>4, <1>8
  <2>2. ASSUME NEW k \in 0 .. n - 1, k \in C PROVE k + 1 \in C
    <3>1. k + 1 \in 1 .. n /\ (k + 1) - 1 = k /\ k + 1 \in 0 .. n
      BY <1>4
    <3>2. bytes[k + 1] \in Int
      BY <1>4, <3>1
    <3>3. all[1 .. k + 1] = Absorb(all[1 .. k], bytes[k + 1])
      BY <1>8, <3>1
    <3>4. all[1 .. k + 1] \in Shas
      BY <2>2, <3>2, <3>3, AbsorbIs, ZenonT(40)
    <3> QED BY <3>1, <3>4
  <2>3. 0 .. n \subseteq C
    <3>1. 0 \in Int /\ n \in Int
      BY <1>4
    <3> HIDE DEF C
    <3> QED BY <2>1, <2>2, <3>1, InductTo
  <2> QED BY <2>3
<1>10. h \in [0 .. n -> Shas] /\ h[0] = s /\ update(s, bytes) = h[n]
  BY <1>4, <1>7, <1>8, <1>9
<1>11. ASSUME NEW k \in 1 .. n PROVE h[k] = Absorb(h[k - 1], bytes[k])
  <2>1. k \in 0 .. n /\ k - 1 \in 0 .. n
    BY <1>4
  <2>2. h[k] = all[1 .. k] /\ h[k - 1] = all[1 .. k - 1]
    BY <2>1
  <2> QED BY <1>8, <2>2
<1> QED BY <1>10, <1>11

LEMMA BeforeNext ==
    ASSUME NEW q \in Nat
    PROVE  Before(q) \in Nat /\ Before(q + 1) = Before(q) + BlockLen /\ Before(0) = 0
BY Lengths DEF Before

LEMMA ShaFields ==
    ASSUME NEW s \in Shas
    PROVE  /\ s.blocklen \in 0 .. BlockLen - 1 /\ s.bitlen \in Nat /\ s.data \in [Place -> Int]
           /\ s.state \in Seq([Place -> Int]) /\ Len(s.state) \in Nat
           /\ \A b \in 1 .. Len(s.state) : s.state[b] \in [Place -> Int]
<1>1. s.state \in Seq([Place -> Int]) /\ s.blocklen \in Place
  BY DEF Shas, ShasOf
<1> QED BY <1>1 DEF Shas, ShasOf, Place

LEMMA AbsorbTaken ==
    ASSUME NEW s \in Shas, NEW m, NEW n \in Nat, Taken(s, m, n), NEW byte \in Int, m[n + 1] = byte
    PROVE  Taken(Absorb(s, byte), m, n + 1)
<1> DEFINE a == Absorb(s, byte)
           q == Len(s.state)
           k == s.blocklen
<1>1. /\ a \in Shas
      /\ a.data = [s.data EXCEPT ![k] = byte]
      /\ IF k + 1 = BlockLen
         THEN /\ a.blocklen = 0 /\ a.bitlen = s.bitlen + (ByteBits * BlockLen)
              /\ a.state = Append(s.state, a.data)
         ELSE a.blocklen = k + 1 /\ a.bitlen = s.bitlen /\ a.state = s.state
  BY AbsorbIs
<1>2. /\ k \in 0 .. BlockLen - 1 /\ s.data \in [Place -> Int] /\ s.state \in Seq([Place -> Int])
      /\ q \in Nat /\ Place = 0 .. BlockLen - 1 /\ BlockLen \in Nat \ {0} /\ ByteBits \in Nat
  BY ShaFields, Lengths
<1>3. /\ n = Before(q) + k /\ s.bitlen = Before(q) * ByteBits
      /\ \A b \in 1 .. q : \A i \in Place : s.state[b][i] = m[Before(b - 1) + i + 1]
      /\ \A i \in 0 .. k - 1 : s.data[i] = m[Before(q) + i + 1]
  BY DEF Taken
<1>4. Before(q) \in Nat /\ Before(q + 1) = Before(q) + BlockLen
  BY <1>2, BeforeNext
<1> HIDE DEF a, q, k
<1>5. \A i \in 0 .. k : a.data[i] = m[Before(q) + i + 1]
  <2> SUFFICES ASSUME NEW i \in 0 .. k PROVE a.data[i] = m[Before(q) + i + 1]
    OBVIOUS
  <2>1. CASE i = k
    BY <1>1, <1>2, <1>3, <2>1
  <2>2. CASE i # k
    <3>1. i \in 0 .. k - 1 /\ i \in Place
      BY <1>2, <2>2
    <3> QED BY <1>1, <1>2, <1>3, <2>2, <3>1
  <2> QED BY <2>1, <2>2
<1>6. CASE k + 1 = BlockLen
  <2>1. a.blocklen = 0 /\ a.bitlen = s.bitlen + (ByteBits * BlockLen) /\ a.state = Append(s.state, a.data)
    BY <1>1, <1>6
  <2>2. /\ Len(a.state) = q + 1 /\ a.state[q + 1] = a.data
        /\ \A b \in 1 .. q : a.state[b] = s.state[b]
    <3>1. a.data \in [Place -> Int]
      BY <1>1, ShaFields
    <3> DEFINE e == s.state
               d == a.data
               D == [Place -> Int]
    <3>2. e \in Seq(D) /\ d \in D /\ Len(e) = q
      BY <1>2, <3>1 DEF q
    <3> HIDE DEF e, d, D
    <3>3. Len(Append(e, d)) = q + 1 /\ Append(e, d)[q + 1] = d /\ \A b \in 1 .. q : Append(e, d)[b] = e[b]
      BY <3>2
    <3> QED BY <2>1, <3>3 DEF e, d
  <2>3. n + 1 = Before(q + 1) + 0
    BY <1>2, <1>3, <1>4, <1>6
  <2>4. a.bitlen = Before(q + 1) * ByteBits
    <3> DEFINE p == Before(q)
    <3>1. a.bitlen = (p * ByteBits) + (ByteBits * BlockLen) /\ Before(q + 1) = p + BlockLen /\ p \in Nat
      BY <1>3, <1>4, <2>1
    <3> HIDE DEF p
    <3>2. (p + BlockLen) * ByteBits = (p * ByteBits) + (ByteBits * BlockLen)
      BY <1>2, <3>1
    <3> QED BY <3>1, <3>2
  <2>5. ASSUME NEW b \in 1 .. q + 1, NEW i \in Place PROVE a.state[b][i] = m[Before(b - 1) + i + 1]
    <3>1. CASE b = q + 1
      <4>1. i \in 0 .. k /\ b - 1 = q
        BY <1>2, <1>6, <3>1
      <4> QED BY <1>5, <2>2, <3>1, <4>1
    <3>2. CASE b # q + 1
      <4>1. b \in 1 .. q
        BY <1>2, <3>2
      <4> QED BY <1>3, <2>2, <4>1
    <3> QED BY <3>1, <3>2
  <2> QED BY <2>1, <2>2, <2>3, <2>4, <2>5 DEF Taken, a
<1>7. CASE k + 1 # BlockLen
  <2>1. a.blocklen = k + 1 /\ a.bitlen = s.bitlen /\ a.state = s.state
    BY <1>1, <1>7
  <2>2. n + 1 = Before(q) + (k + 1)
    BY <1>2, <1>3, <1>4
  <2>3. \A i \in 0 .. (k + 1) - 1 : a.data[i] = m[Before(q) + i + 1]
    BY <1>2, <1>5
  <2> QED BY <1>3, <2>1, <2>2, <2>3 DEF Taken, a, q
<1> QED BY <1>6, <1>7

(* Bytes that follow in m are taken in as they are.                        *)
LEMMA UpdateTaken ==
    ASSUME NEW s \in Shas, NEW m, NEW n \in Nat, Taken(s, m, n),
           NEW bytes \in Seq(Int), \A k \in 1 .. Len(bytes) : m[n + k] = bytes[k]
    PROVE  update(s, bytes) \in Shas /\ Taken(update(s, bytes), m, n + Len(bytes))
<1> DEFINE len == Len(bytes)
<1>1. PICK h \in [0 .. len -> Shas] :
          /\ h[0] = s
          /\ \A k \in 1 .. len : h[k] = Absorb(h[k - 1], bytes[k])
          /\ update(s, bytes) = h[len]
  BY UpdateSteps
<1>2. len \in Nat /\ \A k \in 1 .. len : bytes[k] \in Int /\ m[n + k] = bytes[k]
  OBVIOUS
<1> HIDE DEF len
<1> DEFINE C == {k \in 0 .. len : Taken(h[k], m, n + k)}
<1>3. 0 \in C
  BY <1>1, <1>2
<1>4. ASSUME NEW k \in 0 .. len - 1, k \in C PROVE k + 1 \in C
  <2>1. k + 1 \in 1 .. len /\ k + 1 \in 0 .. len /\ (k + 1) - 1 = k /\ n + k \in Nat /\ (n + k) + 1 = n + (k + 1)
    BY <1>2
  <2>2. h[k] \in Shas /\ Taken(h[k], m, n + k) /\ bytes[k + 1] \in Int /\ m[(n + k) + 1] = bytes[k + 1]
    BY <1>2, <1>4, <2>1
  <2>3. Taken(Absorb(h[k], bytes[k + 1]), m, (n + k) + 1)
    BY <2>1, <2>2, AbsorbTaken
  <2> QED BY <1>1, <2>1, <2>3
<1>5. 0 .. len \subseteq C
  <2>1. 0 \in Int /\ len \in Int
    BY <1>2
  <2> HIDE DEF C
  <2> QED BY <1>3, <1>4, <2>1, InductTo
<1>6. len \in C /\ len \in 0 .. len
  BY <1>2, <1>5
<1> QED BY <1>1, <1>6 DEF len

LEMMA UpdateFills ==
    ASSUME NEW s \in Shas, NEW bytes \in Seq(Int)
    PROVE  update(s, bytes) \in Shas /\ Filled(update(s, bytes)) = Filled(s) + Len(bytes)
<1> DEFINE len == Len(bytes)
<1>1. PICK h \in [0 .. len -> Shas] :
          /\ h[0] = s
          /\ \A k \in 1 .. len : h[k] = Absorb(h[k - 1], bytes[k])
          /\ update(s, bytes) = h[len]
  BY UpdateSteps
<1>2. len \in Nat /\ \A k \in 1 .. len : bytes[k] \in Int
  OBVIOUS
<1> HIDE DEF len
<1>3. ASSUME NEW t \in Shas, NEW byte \in Int PROVE Filled(Absorb(t, byte)) = Filled(t) + 1
  <2> DEFINE a == Absorb(t, byte)
             q == Len(t.state)
  <2>1. /\ a \in Shas
        /\ IF t.blocklen + 1 = BlockLen
           THEN a.blocklen = 0 /\ a.state = Append(t.state, a.data)
           ELSE a.blocklen = t.blocklen + 1 /\ a.state = t.state
    BY AbsorbIs
  <2>2. t.state \in Seq([Place -> Int]) /\ q \in Nat /\ t.blocklen \in Nat
    BY ShaFields, Lengths
  <2>3. Before(q) \in Nat /\ Before(q + 1) = Before(q) + BlockLen
    BY <2>2, BeforeNext
  <2>4. Len(Append(t.state, a.data)) = q + 1
    BY <2>2
  <2> HIDE DEF a, q
  <2>5. CASE t.blocklen + 1 = BlockLen
    BY <2>1, <2>2, <2>3, <2>4, <2>5, Lengths, SMTT(30) DEF Filled, a, q
  <2>6. CASE t.blocklen + 1 # BlockLen
    <3>1. Len(a.state) = q /\ Len(t.state) = q /\ a.blocklen = t.blocklen + 1
      BY <2>1, <2>6 DEF q
    <3> QED BY <2>2, <2>3, <3>1 DEF Filled, a
  <2> QED BY <2>5, <2>6
<1>4. Filled(s) \in Nat
  <2>1. Len(s.state) \in Nat /\ s.blocklen \in Nat
    BY ShaFields, Lengths
  <2>2. Before(Len(s.state)) \in Nat
    BY <2>1, BeforeNext
  <2> QED BY <2>1, <2>2 DEF Filled
<1> DEFINE C == {k \in 0 .. len : Filled(h[k]) = Filled(s) + k}
<1>5. 0 \in C
  BY <1>1, <1>2, <1>4
<1>6. ASSUME NEW k \in 0 .. len - 1, k \in C PROVE k + 1 \in C
  <2>1. k + 1 \in 1 .. len /\ k + 1 \in 0 .. len /\ (k + 1) - 1 = k /\ h[k] \in Shas /\ bytes[k + 1] \in Int
    BY <1>2
  <2>2. Filled(h[k + 1]) = Filled(h[k]) + 1
    BY <1>1, <1>3, <2>1
  <2> QED BY <1>4, <1>6, <2>1, <2>2
<1>7. 0 .. len \subseteq C
  <2>1. 0 \in Int /\ len \in Int
    BY <1>2
  <2> HIDE DEF C
  <2> QED BY <1>5, <1>6, <2>1, InductTo
<1>8. len \in C /\ len \in 0 .. len
  BY <1>2, <1>7
<1> QED BY <1>1, <1>8 DEF len

LEMMA BlocksAre ==
    ASSUME NEW q \in Nat, NEW k \in Place, NEW n \in Nat, n = Before(q) + k
    PROVE  BlocksFor(n) = IF k < LengthAt THEN q + 1 ELSE q + 2
<1> DEFINE c == n + 1 + (BlockLen - LengthAt) + BlockLen - 1
           r == (k + BlockLen) - LengthAt
<1>1. /\ BlockLen \in Nat \ {0} /\ LengthAt \in 1 .. BlockLen - 1 /\ LengthAt \in Nat
      /\ k \in 0 .. BlockLen - 1
  BY Lengths
<1>2. /\ Before(q) \in Nat /\ Before(q + 1) = Before(q) + BlockLen
      /\ Before((q + 1) + 1) = Before(q + 1) + BlockLen
  BY BeforeNext
<1>3. c \in Int /\ r \in Int
  BY <1>1
<1>4. CASE k < LengthAt
  <2>1. r \in 0 .. BlockLen - 1 /\ q + 1 \in Int
    BY <1>1, <1>4
  <2>2. c = Before(q + 1) + r
    BY <1>1, <1>2
  <2> HIDE DEF c, r
  <2>3. c \div BlockLen = q + 1
    BY <1>1, <1>3, <2>1, <2>2, Division DEF Before
  <2> QED BY <1>4, <2>3 DEF BlocksFor, c
<1>5. CASE ~(k < LengthAt)
  <2> DEFINE e == k - LengthAt
  <2>1. e \in 0 .. BlockLen - 1 /\ (q + 1) + 1 \in Int
    BY <1>1, <1>5
  <2>2. c = Before((q + 1) + 1) + e
    BY <1>1, <1>2
  <2> HIDE DEF c, e
  <2>3. c \div BlockLen = (q + 1) + 1
    BY <1>1, <1>3, <2>1, <2>2, Division DEF Before
  <2>4. (q + 1) + 1 = q + 2
    OBVIOUS
  <2> QED BY <1>5, <2>3, <2>4 DEF BlocksFor, c
<1> QED BY <1>4, <1>5

LEMMA LengthByteTyped ==
    ASSUME NEW bits \in Nat, NEW i \in Place
    PROVE  LengthByte(bits, BlockLen - 1 - i) \in Int
<1>1. BlockLen - 1 - i \in Nat /\ ByteBits \in Nat
  BY Lengths
<1> DEFINE e == ByteBits * (BlockLen - 1 - i)
<1>2. e \in Nat
  BY <1>1
<1> HIDE DEF e
<1>3. TwoTo[e] \in Nat \ {0} /\ TwoTo[ByteBits] \in Nat \ {0}
  BY <1>1, <1>2, Powers
<1> DEFINE d == TwoTo[e]
           m == TwoTo[ByteBits]
           c == bits \div d
<1>4. d \in Nat \ {0} /\ m \in Nat \ {0} /\ bits \in Int
  BY <1>3
<1> HIDE DEF d, m
<1>5. c \in Int
  BY ONLY <1>4, Division
<1> HIDE DEF c
<1>6. c % m \in Int
  BY ONLY <1>4, <1>5, Division
<1> QED BY <1>6 DEF LengthByte, e, c, d, m

LEMMA LastBlockTyped ==
    ASSUME NEW start \in [Place -> Int], NEW bits \in Nat
    PROVE  LastBlock(start, bits) \in [Place -> Int]
BY LengthByteTyped DEF LastBlock

LEMMA StoppedTyped ==
    ASSUME NEW s \in Shas
    PROVE  Stopped(s) \in [Place -> Int]
BY Lengths, ShaFields DEF Stopped

(* SHA256::pad appends one block, or two, and leaves the place.            *)
LEMMA PadIs ==
    ASSUME NEW s \in Shas
    PROVE  LET bits == s.bitlen + s.blocklen * ByteBits
           IN  /\ pad(s) \in Shas /\ pad(s).blocklen = s.blocklen /\ bits \in Nat
               /\ pad(s).state =
                      IF s.blocklen < LengthAt
                      THEN Append(s.state, LastBlock(Stopped(s), bits))
                      ELSE Append(Append(s.state, Stopped(s)), LastBlock(Zeros, bits))
<1> DEFINE bits == s.bitlen + s.blocklen * ByteBits
           A_ == [Place -> Int]
           S_ == Seq(A_)
           N_ == Nat
           All == ShasOf(A_, Place, N_, S_)
           stopped == Stopped(s)
           t == [s EXCEPT !.data = stopped]
           e == Append(t.state, t.data)
           v == [t EXCEPT !.state = e]
           z == [i \in Place |-> IF i < LengthAt THEN 0 ELSE v.data[i]]
           u == IF s.blocklen >= LengthAt THEN [v EXCEPT !.data = z] ELSE t
           last == [i \in Place |-> IF i < LengthAt THEN u.data[i] ELSE LengthByte(bits, BlockLen - 1 - i)]
           w == [u EXCEPT !.bitlen = bits, !.data = last]
           f == Append(w.state, w.data)
           p == [w EXCEPT !.state = f]
<1>1. s \in All /\ Shas = All /\ s.blocklen \in Place /\ s.state \in S_ /\ s.bitlen \in N_
  BY DEF Shas, ShasOf
<1>2. stopped \in A_
  BY StoppedTyped
<1>3. bits \in N_
  <2>1. s.blocklen \in Nat /\ ByteBits \in Nat /\ s.bitlen \in Nat
    BY <1>1, Lengths
  <2>2. s.blocklen * ByteBits \in Nat
    BY <2>1
  <2> QED BY <2>1, <2>2
<1>4. pad(s) = p
  BY Zenon DEF pad, PadFrom, transform
<1>5. LengthAt \in Nat /\ s.blocklen \in Nat
  BY <1>1, Lengths
<1> HIDE DEF bits, A_, S_, N_, stopped, p
<1>6. t \in All /\ t.data = stopped /\ t.blocklen = s.blocklen /\ t.bitlen = s.bitlen /\ t.state = s.state
  BY ONLY <1>1, <1>2 DEF ShasOf
<1> HIDE DEF t
<1>7. e \in S_ /\ e = Append(s.state, stopped)
  BY <1>1, <1>2, <1>6 DEF S_
<1> HIDE DEF e
<1>8. v \in All /\ v.data = stopped /\ v.blocklen = s.blocklen /\ v.bitlen = s.bitlen /\ v.state = e
  BY ONLY <1>6, <1>7 DEF ShasOf
<1> HIDE DEF v
<1>9. z \in A_ /\ \A i \in Place : i < LengthAt => z[i] = 0
  BY <1>2, <1>8 DEF A_
<1> HIDE DEF z
<1> DEFINE x == [v EXCEPT !.data = z]
<1>10. x \in All /\ x.data = z /\ x.blocklen = s.blocklen /\ x.bitlen = s.bitlen /\ x.state = e
  BY ONLY <1>8, <1>9 DEF ShasOf
<1> HIDE DEF x
<1>11. u = IF s.blocklen >= LengthAt THEN x ELSE t
  BY DEF x
<1> HIDE DEF u
<1>12. u \in All /\ u.blocklen = s.blocklen /\ u.data \in A_ /\ u.state \in S_
  BY <1>1, <1>2, <1>6, <1>7, <1>9, <1>10, <1>11
<1>13. last = LastBlock(u.data, bits)
  BY DEF LastBlock
<1>14. last \in A_
  BY <1>3, <1>12, <1>13, LastBlockTyped DEF A_, N_
<1> HIDE DEF last
<1>15. w \in All /\ w.data = last /\ w.blocklen = s.blocklen /\ w.state = u.state
  BY ONLY <1>3, <1>12, <1>14 DEF ShasOf
<1> HIDE DEF w
<1>16. f \in S_ /\ f = Append(u.state, last)
  BY <1>12, <1>14, <1>15 DEF S_
<1> HIDE DEF f
<1>17. p \in All /\ p.blocklen = s.blocklen /\ p.state = f
  BY ONLY <1>15, <1>16 DEF ShasOf, p
<1>18. CASE s.blocklen < LengthAt
  <2>1. u = t
    BY <1>5, <1>11, <1>18
  <2> QED BY <1>1, <1>3, <1>4, <1>6, <1>13, <1>16, <1>17, <1>18, <2>1 DEF bits, stopped, N_
<1>19. CASE ~(s.blocklen < LengthAt)
  <2>1. u = x
    BY <1>5, <1>11, <1>19
  <2>2. LastBlock(z, bits) = LastBlock(Zeros, bits)
    BY <1>9 DEF LastBlock, Zeros
  <2>3. last = LastBlock(Zeros, bits) /\ u.state = Append(s.state, stopped)
    BY <1>7, <1>10, <1>13, <2>1, <2>2
  <2> QED BY <1>1, <1>3, <1>4, <1>16, <1>17, <1>19, <2>3 DEF bits, stopped, N_
<1> QED BY <1>18, <1>19

(* Its length is what the standard asks for that many bytes.               *)
LEMMA PadLength ==
    ASSUME NEW s \in Shas
    PROVE  /\ Len(pad(s).state) = BlocksFor(Filled(s)) /\ Filled(s) \in Nat
           /\ Len(pad(s).state) \in Nat /\ Len(pad(s).state) >= 1
           /\ pad(s).state \in Seq([Place -> Int])
<1> DEFINE q == Len(s.state)
           k == s.blocklen
           D == [Place -> Int]
           bits == s.bitlen + k * ByteBits
           st == s.state
           one == LastBlock(Stopped(s), bits)
           two == LastBlock(Zeros, bits)
           stopped == Stopped(s)
<1>1. /\ k \in Place /\ st \in Seq(D) /\ q \in Nat /\ bits \in Nat /\ k \in Nat
  <2>1. k \in Place /\ k \in Nat /\ st \in Seq(D) /\ q \in Nat
    BY ShaFields, Lengths
  <2>2. bits \in Nat
    BY PadIs
  <2> QED BY <2>1, <2>2
<1>2. pad(s).state = IF k < LengthAt THEN Append(st, one) ELSE Append(Append(st, stopped), two)
  BY PadIs
<1>3. one \in D /\ two \in D /\ stopped \in D
  <2>1. Zeros \in [Place -> Int] /\ Stopped(s) \in [Place -> Int]
    BY StoppedTyped DEF Zeros
  <2> QED BY <1>1, <2>1, LastBlockTyped
<1>4. Before(q) \in Nat
  BY <1>1, BeforeNext
<1>5. Filled(s) = Before(q) + k
  BY DEF Filled
<1>6. BlocksFor(Filled(s)) = IF k < LengthAt THEN q + 1 ELSE q + 2
  <2>1. Filled(s) \in Nat
    BY <1>1, <1>4, <1>5
  <2> HIDE DEF q, k
  <2> QED BY <1>1, <1>5, <2>1, BlocksAre
<1>7. Len(st) = q
  OBVIOUS
<1> HIDE DEF q, k, D, bits, st, one, two, stopped
<1>8. Len(Append(st, one)) = q + 1 /\ Append(st, one) \in Seq(D)
  BY <1>1, <1>3, <1>7
<1>9. Len(Append(Append(st, stopped), two)) = q + 2 /\ Append(Append(st, stopped), two) \in Seq(D)
  <2>1. Append(st, stopped) \in Seq(D) /\ Len(Append(st, stopped)) = q + 1
    BY <1>1, <1>3, <1>7
  <2> DEFINE g == Append(st, stopped)
  <2> HIDE DEF g
  <2>2. Append(g, two) \in Seq(D) /\ Len(Append(g, two)) = (q + 1) + 1
    BY <1>3, <2>1 DEF g
  <2> QED BY <1>1, <2>2 DEF g
<1> QED BY <1>1, <1>2, <1>4, <1>5, <1>6, <1>8, <1>9 DEF D

LEMMA BeforeGrows ==
    ASSUME NEW q \in Nat, NEW b \in 0 .. q
    PROVE  Before(b) <= Before(q) /\ Before(b) \in Nat /\ Before(q) \in Nat
<1> DEFINE S == {d \in Nat : Before(b) <= Before(b + d)}
<1>1. 0 \in S
  BY BeforeNext
<1>2. ASSUME NEW d \in S PROVE d + 1 \in S
  <2>1. b + d \in Nat /\ (b + d) + 1 = b + (d + 1) /\ b \in Nat
    OBVIOUS
  <2>2. Before((b + d) + 1) = Before(b + d) + BlockLen /\ Before(b + d) \in Nat /\ Before(b) \in Nat
    BY <2>1, BeforeNext
  <2>3. BlockLen \in Nat
    BY Lengths
  <2> QED BY <1>2, <2>1, <2>2, <2>3
<1>3. Nat \subseteq S
  <2> HIDE DEF S
  <2> QED BY <1>1, <1>2, Induct
<1>4. q - b \in S /\ b + (q - b) = q
  BY <1>3
<1> QED BY <1>4, BeforeNext

LEMMA ReferenceIs ==
    ASSUME NEW m, Len(m) \in Nat, BlocksFor(Len(m)) \in Nat
    PROVE  Reference(m) = [b \in 1 .. BlocksFor(Len(m)) |->
                              [i \in Place |-> PaddedAt(m, BlocksFor(Len(m)), Before(b - 1) + i)]]
<1>1. Reference(m) = [b \in 1 .. BlocksFor(Len(m)) |->
                         [i \in Place |-> PaddedAt(m, BlocksFor(Len(m)), (b - 1) * BlockLen + i)]]
  BY DEF Reference, BlocksFor, PaddedAt
<1>2. \A b \in 1 .. BlocksFor(Len(m)) : (b - 1) * BlockLen = Before(b - 1)
  BY Lengths DEF Before
<1> QED BY <1>1, <1>2

LEMMA PaddedIs ==
    ASSUME NEW m, NEW n \in Nat, Len(m) = n, NEW q \in Nat, NEW k \in Place, n = Before(q) + k
    PROVE  PaddedParts(m, n, q, k)
<1>1. /\ BlockLen \in Nat \ {0} /\ LengthAt \in 1 .. BlockLen - 1 /\ LengthAt \in Nat
      /\ Place = 0 .. BlockLen - 1
  BY Lengths
<1>2. /\ Before(q) \in Nat /\ Before(q + 1) = Before(q) + BlockLen
      /\ Before((q + 1) + 1) = Before(q + 1) + BlockLen
  BY BeforeNext
<1>3. (q + 1) * BlockLen = Before(q) + BlockLen /\ (q + 2) * BlockLen = Before(q) + BlockLen + BlockLen
  <2>1. (q + 1) * BlockLen = Before(q + 1) /\ (q + 2) * BlockLen = Before((q + 1) + 1)
    BY <1>1 DEF Before
  <2> QED BY <1>1, <1>2, <2>1
<1>4. ASSUME NEW b \in 1 .. q, NEW blocks, NEW i \in Place
      PROVE  PaddedAt(m, blocks, Before(b - 1) + i) = m[Before(b - 1) + i + 1]
  <2>1. Before(b) <= Before(q) /\ Before(b) = Before(b - 1) + BlockLen /\ Before(b - 1) \in Nat
    <3>1. b - 1 \in Nat /\ (b - 1) + 1 = b /\ b \in 0 .. q
      OBVIOUS
    <3>2. Before(b) <= Before(q)
      BY <3>1, BeforeGrows
    <3>3. Before((b - 1) + 1) = Before(b - 1) + BlockLen /\ Before(b - 1) \in Nat
      BY ONLY <3>1, BeforeNext
    <3> QED BY <3>1, <3>2, <3>3
  <2> DEFINE j == Before(b - 1) + i
  <2>2. j < n /\ j \in Nat
    BY <1>1, <1>2, <2>1
  <2> HIDE DEF j
  <2>3. PaddedAt(m, blocks, j) = m[j + 1]
    BY <2>2 DEF PaddedAt
  <2> QED BY <2>3 DEF j
<1>5. ASSUME NEW blocks \in {q + 1, q + 2}, NEW i \in Place
      PROVE  /\ i < k => PaddedAt(m, blocks, Before(q) + i) = m[Before(q) + i + 1]
             /\ i = k => PaddedAt(m, blocks, Before(q) + i) = Stop
  <2> DEFINE j == Before(q) + i
  <2>1. j \in Nat /\ (i < k => j < n) /\ (i = k => j = n /\ ~(j < n))
    BY <1>1, <1>2
  <2> HIDE DEF j
  <2>2. i < k => PaddedAt(m, blocks, j) = m[j + 1]
    BY <2>1 DEF PaddedAt
  <2>3. i = k => PaddedAt(m, blocks, j) = Stop
    BY <2>1 DEF PaddedAt
  <2> QED BY <2>2, <2>3 DEF j
<1>6. ASSUME NEW blocks \in Nat, NEW j \in Nat, j > n, NEW end \in Nat,
             end = blocks * BlockLen
      PROVE  PaddedAt(m, blocks, j) = IF j < end - (BlockLen - LengthAt) THEN 0
                                      ELSE LengthByte(n * ByteBits, end - 1 - j)
  <2>1. ~(j < n) /\ j # n
    BY <1>6
  <2> QED BY <1>6, <2>1 DEF PaddedAt
<1>7. ASSUME NEW i \in Place, k < i
      PROVE  PaddedAt(m, q + 1, Before(q) + i) =
                 IF i < LengthAt THEN 0 ELSE LengthByte(n * ByteBits, BlockLen - 1 - i)
  <2> DEFINE j == Before(q) + i
             end == Before(q) + BlockLen
  <2>1. /\ j \in Nat /\ j > n /\ end \in Nat /\ (j < end - (BlockLen - LengthAt) <=> i < LengthAt)
        /\ end - 1 - j = BlockLen - 1 - i
    BY <1>1, <1>2, <1>7
  <2>2. end = (q + 1) * BlockLen /\ q + 1 \in Nat
    BY <1>3
  <2> HIDE DEF j, end
  <2>3. PaddedAt(m, q + 1, j) = IF j < end - (BlockLen - LengthAt) THEN 0
                                ELSE LengthByte(n * ByteBits, end - 1 - j)
    BY <1>6, <2>1, <2>2
  <2> QED BY <2>1, <2>3 DEF j
<1>8. ASSUME NEW i \in Place
      PROVE  /\ k < i => PaddedAt(m, q + 2, Before(q) + i) = 0
             /\ PaddedAt(m, q + 2, Before(q + 1) + i) =
                    IF i < LengthAt THEN 0 ELSE LengthByte(n * ByteBits, BlockLen - 1 - i)
  <2> DEFINE j == Before(q) + i
             l == Before(q + 1) + i
             end == Before(q) + BlockLen + BlockLen
  <2>1. /\ j \in Nat /\ end \in Nat /\ (k < i => j > n) /\ j < end - (BlockLen - LengthAt)
        /\ l \in Nat /\ l > n /\ (l < end - (BlockLen - LengthAt) <=> i < LengthAt)
        /\ end - 1 - l = BlockLen - 1 - i
    BY <1>1, <1>2, SMTT(30)
  <2>2. end = (q + 2) * BlockLen /\ q + 2 \in Nat
    BY <1>3
  <2> HIDE DEF j, l, end
  <2>3. k < i => PaddedAt(m, q + 2, j) = 0
    BY <1>6, <2>1, <2>2
  <2>4. PaddedAt(m, q + 2, l) = IF l < end - (BlockLen - LengthAt) THEN 0
                                ELSE LengthByte(n * ByteBits, end - 1 - l)
    BY <1>6, <2>1, <2>2
  <2> QED BY <2>1, <2>3, <2>4 DEF j, l
<1> QED BY <1>1, <1>4, <1>5, <1>7, <1>8 DEF PaddedParts

(* SHA256::pad ends with the padding of the standard.                      *)
LEMMA PadStandard ==
    ASSUME NEW s \in Shas, NEW m, Len(m) \in Nat, Taken(s, m, Len(m))
    PROVE  pad(s).state = Reference(m)
<1> DEFINE n == Len(m)
           q == Len(s.state)
           k == s.blocklen
           st == s.state
           D == [Place -> Int]
           bits == s.bitlen + k * ByteBits
           stopped == Stopped(s)
           one == LastBlock(stopped, bits)
           two == LastBlock(Zeros, bits)
           Pads(blocks, b) == [i \in Place |-> PaddedAt(m, blocks, Before(b - 1) + i)]
<1>1. /\ BlockLen \in Nat \ {0} /\ LengthAt \in 1 .. BlockLen - 1 /\ LengthAt \in Nat
      /\ Place = 0 .. BlockLen - 1 /\ ByteBits \in Nat
  BY Lengths
<1>2. k \in Place /\ k \in Nat /\ st \in Seq(D) /\ q \in Nat /\ s.data \in D
  BY ShaFields, Lengths
<1>3. /\ n = Before(q) + k /\ s.bitlen = Before(q) * ByteBits
      /\ \A b \in 1 .. q : \A i \in Place : st[b][i] = m[Before(b - 1) + i + 1]
      /\ \A i \in 0 .. k - 1 : s.data[i] = m[Before(q) + i + 1]
  BY DEF Taken
<1>4. n \in Nat /\ Before(q) \in Nat
  BY <1>2, BeforeNext
<1>5. bits = n * ByteBits
  <2> DEFINE p == Before(q)
  <2>1. p \in Nat /\ n = p + k /\ bits = (p * ByteBits) + (k * ByteBits)
    BY <1>3, <1>4
  <2> HIDE DEF p, n, bits, k
  <2> QED BY <1>1, <1>2, <2>1
<1>6. BlocksFor(n) = IF k < LengthAt THEN q + 1 ELSE q + 2
  <2> HIDE DEF n, q, k
  <2> QED BY <1>2, <1>3, <1>4, BlocksAre
<1>7. Reference(m) = [b \in 1 .. BlocksFor(n) |-> Pads(BlocksFor(n), b)]
  <2>1. BlocksFor(n) \in Nat
    BY <1>2, <1>6
  <2> QED BY <1>4, <2>1, ReferenceIs
<1>8. pad(s).state = IF k < LengthAt THEN Append(st, one) ELSE Append(Append(st, stopped), two)
  BY PadIs
<1>9. stopped \in D /\ one \in D /\ two \in D
  <2>1. Zeros \in D /\ stopped \in D /\ bits \in Nat
    BY StoppedTyped, PadIs DEF Zeros
  <2> QED BY <2>1, LastBlockTyped
<1>10. stopped = [i \in Place |-> CASE i = k -> Stop
                                    [] k < i /\ i < (IF k < LengthAt THEN LengthAt ELSE BlockLen) -> 0
                                    [] OTHER -> s.data[i]]
  BY DEF Stopped
<1>11. Len(st) = q /\ \A b \in 1 .. q : st[b] \in D
  BY ShaFields
<1> HIDE DEF n, q, k, st, D, bits, stopped, Pads
<1>12. /\ \A b \in 1 .. q : \A blocks : \A i \in Place :
                  PaddedAt(m, blocks, Before(b - 1) + i) = m[Before(b - 1) + i + 1]
       /\ \A blocks \in {q + 1, q + 2} : \A i \in Place :
                  /\ i < k => PaddedAt(m, blocks, Before(q) + i) = m[Before(q) + i + 1]
                  /\ i = k => PaddedAt(m, blocks, Before(q) + i) = Stop
       /\ \A i \in Place : k < i /\ i < LengthAt => PaddedAt(m, q + 1, Before(q) + i) = 0
       /\ \A i \in Place : k < i /\ i >= LengthAt =>
                  PaddedAt(m, q + 1, Before(q) + i) = LengthByte(n * ByteBits, BlockLen - 1 - i)
       /\ \A i \in Place : k < i => PaddedAt(m, q + 2, Before(q) + i) = 0
       /\ \A i \in Place : PaddedAt(m, q + 2, Before(q + 1) + i) =
                  IF i < LengthAt THEN 0 ELSE LengthByte(n * ByteBits, BlockLen - 1 - i)
  <2>1. Len(m) = n
    BY DEF n
  <2>2. PaddedParts(m, n, q, k)
    BY ONLY <1>2, <1>3, <1>4, <2>1, PaddedIs
  <2> QED BY <2>2 DEF PaddedParts
<1>13. ASSUME NEW b \in 1 .. q, NEW blocks PROVE st[b] = Pads(blocks, b)
  <2>1. \A i \in Place : st[b][i] = PaddedAt(m, blocks, Before(b - 1) + i)
    BY <1>3, <1>12
  <2>2. st[b] \in [Place -> Int]
    BY <1>11 DEF D
  <2> QED BY <2>1, <2>2 DEF Pads
<1>14. CASE k < LengthAt
  <2>1. one = Pads(q + 1, q + 1)
    <3>1. ASSUME NEW i \in Place PROVE one[i] = PaddedAt(m, q + 1, Before(q) + i)
      <4>1. one[i] = IF i < LengthAt THEN stopped[i] ELSE LengthByte(n * ByteBits, BlockLen - 1 - i)
        BY <1>5 DEF LastBlock
      <4>2. CASE i < k
        <5>1. i < LengthAt /\ stopped[i] = s.data[i] /\ i \in 0 .. k - 1
          BY <1>1, <1>2, <1>10, <1>14, <4>2
        <5>2. stopped[i] = m[Before(q) + i + 1]
          BY <1>3, <5>1
        <5>3. PaddedAt(m, q + 1, Before(q) + i) = m[Before(q) + i + 1]
          BY <1>12, <4>2
        <5> QED BY <4>1, <5>1, <5>2, <5>3
      <4>3. CASE i = k
        BY <1>10, <1>12, <1>14, <4>1, <4>3
      <4>4. CASE k < i /\ i < LengthAt
        <5>1. stopped[i] = 0
          BY <1>1, <1>2, <1>10, <1>14, <4>4
        <5> QED BY <1>12, <4>1, <4>4, <5>1
      <4>5. CASE k < i /\ i >= LengthAt
        <5>1. ~(i < LengthAt)
          BY <1>1, <4>5
        <5> QED BY <1>12, <4>1, <4>5, <5>1
      <4> QED BY <1>1, <1>2, <4>2, <4>3, <4>4, <4>5
    <3>2. (q + 1) - 1 = q
      BY <1>2
    <3>3. one = [i \in Place |-> one[i]]
      BY <1>9 DEF D
    <3> HIDE DEF one
    <3> QED BY <3>1, <3>2, <3>3 DEF Pads
  <2> HIDE DEF one
  <2>2. Append(st, one) = [b \in 1 .. q + 1 |-> IF b = q + 1 THEN one ELSE st[b]]
    BY ONLY <1>2, <1>9, <1>11, AppendIs
  <2>3. Reference(m) = [b \in 1 .. q + 1 |-> Pads(q + 1, b)]
    BY <1>6, <1>7, <1>14
  <2>4. ASSUME NEW b \in 1 .. q + 1 PROVE (IF b = q + 1 THEN one ELSE st[b]) = Pads(q + 1, b)
    <3>1. b # q + 1 => b \in 1 .. q
      BY <1>2
    <3> QED BY <1>13, <2>1, <3>1
  <2> QED BY <1>8, <1>14, <2>2, <2>3, <2>4
<1>15. CASE ~(k < LengthAt)
  <2>1. stopped = Pads(q + 2, q + 1)
    <3>1. ASSUME NEW i \in Place PROVE stopped[i] = PaddedAt(m, q + 2, Before(q) + i)
      <4>1. CASE i < k
        <5>1. stopped[i] = s.data[i] /\ i \in 0 .. k - 1
          BY <1>1, <1>2, <1>10, <4>1
        <5> QED BY <1>3, <1>12, <4>1, <5>1
      <4>2. CASE i = k
        BY <1>10, <1>12, <4>2
      <4>3. CASE k < i
        <5>1. stopped[i] = 0
          BY <1>1, <1>2, <1>10, <1>15, <4>3
        <5> QED BY <1>12, <4>3, <5>1
      <4> QED BY <1>1, <1>2, <4>1, <4>2, <4>3
    <3>2. (q + 1) - 1 = q
      BY <1>2
    <3>3. stopped = [i \in Place |-> stopped[i]]
      BY <1>9 DEF D
    <3> QED BY <3>1, <3>2, <3>3 DEF Pads
  <2>2. two = Pads(q + 2, q + 2)
    <3>1. (q + 2) - 1 = q + 1
      BY <1>2
    <3>2. \A i \in Place : two[i] = IF i < LengthAt THEN 0 ELSE LengthByte(n * ByteBits, BlockLen - 1 - i)
      BY <1>5 DEF LastBlock, Zeros
    <3>3. two = [i \in Place |-> two[i]]
      BY <1>9 DEF D
    <3> HIDE DEF two
    <3> QED BY <1>12, <3>1, <3>2, <3>3 DEF Pads
  <2> HIDE DEF two
  <2>3. Append(Append(st, stopped), two)
          = [b \in 1 .. q + 2 |-> IF b = q + 2 THEN two ELSE IF b = q + 1 THEN stopped ELSE st[b]]
    <3> DEFINE g == Append(st, stopped)
    <3>1. g \in Seq(D) /\ Len(g) = q + 1 /\ \A b \in 1 .. q + 1 : g[b] = IF b = q + 1 THEN stopped ELSE st[b]
      BY <1>2, <1>9, <1>11
    <3> HIDE DEF g
    <3>2. Append(g, two) = [b \in 1 .. q + 2 |-> IF b = q + 2 THEN two ELSE g[b]]
      <4> DEFINE l == q + 1
      <4>1. l \in Nat /\ Len(g) = l /\ l + 1 = q + 2
        BY <1>2, <3>1
      <4> HIDE DEF l
      <4>2. Append(g, two) = [b \in 1 .. l + 1 |-> IF b = l + 1 THEN two ELSE g[b]]
        BY ONLY <1>9, <3>1, <4>1, AppendIs
      <4> QED BY <4>1, <4>2
    <3>3. \A b \in 1 .. q + 2 : b # q + 2 => b \in 1 .. q + 1
      BY <1>2
    <3> QED BY <3>1, <3>2, <3>3 DEF g
  <2>4. Reference(m) = [b \in 1 .. q + 2 |-> Pads(q + 2, b)]
    BY <1>6, <1>7, <1>15
  <2>5. ASSUME NEW b \in 1 .. q + 2
        PROVE  (IF b = q + 2 THEN two ELSE IF b = q + 1 THEN stopped ELSE st[b]) = Pads(q + 2, b)
    <3>1. b # q + 2 /\ b # q + 1 => b \in 1 .. q
      BY <1>2
    <3> QED BY <1>13, <2>1, <2>2, <3>1
  <2> QED BY <1>8, <1>15, <2>3, <2>4, <2>5
<1> QED BY <1>14, <1>15

LEMMA ShaTaken == \A m : Taken(Sha, m, 0)
<1>1. Sha.state = <<>> /\ Sha.blocklen = 0 /\ Sha.bitlen = 0 /\ Len(Sha.state) = 0
  BY DEF Sha
<1>2. Before(0) = 0 /\ 0 * ByteBits = 0
  BY BeforeNext, Lengths
<1> QED BY <1>1, <1>2 DEF Taken

(* The digest of a message that is handed over in two parts.               *)
LEMMA TwoParts ==
    ASSUME NEW first \in Seq(Int), NEW second \in Seq(Int)
    PROVE  LET once == pad(update(update(Sha, first), second))
           IN  once \in Shas /\ once.state = Reference(first \o second)
<1> DEFINE m == first \o second
           u == update(Sha, first)
           v == update(u, second)
           n == Len(first)
           k == Len(second)
<1>1. n \in Nat /\ k \in Nat /\ Len(m) = n + k
  OBVIOUS
<1>2. /\ \A i \in 1 .. n : m[0 + i] = first[i]
      /\ \A i \in 1 .. k : m[n + i] = second[i]
  OBVIOUS
<1>3. Sha \in Shas /\ Taken(Sha, m, 0)
  BY Lengths, ShaTaken
<1> HIDE DEF m
<1>4. u \in Shas /\ Taken(u, m, 0 + n)
  <2> DEFINE zero == 0
  <2>1. zero \in Nat /\ Taken(Sha, m, zero) /\ \A i \in 1 .. Len(first) : m[zero + i] = first[i]
    BY <1>2, <1>3
  <2> HIDE DEF zero
  <2>2. u \in Shas /\ Taken(u, m, zero + Len(first))
    BY <1>3, <2>1, UpdateTaken
  <2> QED BY <2>2 DEF zero
<1>5. Taken(u, m, n) /\ n \in Nat /\ \A i \in 1 .. Len(second) : m[n + i] = second[i]
  <2>1. 0 + n = n
    BY <1>1
  <2> QED BY <1>1, <1>2, <1>4, <2>1
<1> HIDE DEF u, n
<1>6. v \in Shas /\ Taken(v, m, n + Len(second))
  BY <1>4, <1>5, UpdateTaken
<1> HIDE DEF v
<1>7. Taken(v, m, Len(m)) /\ Len(m) \in Nat
  BY <1>1, <1>5, <1>6
<1>8. pad(v).state = Reference(m) /\ pad(v) \in Shas
  BY <1>6, <1>7, PadStandard, PadIs
<1> QED BY <1>8 DEF m, u, v

(* And in one.                                                             *)
LEMMA OnePart ==
    ASSUME NEW m \in Seq(Int)
    PROVE  pad(update(Sha, m)) \in Shas /\ pad(update(Sha, m)).state = Reference(m)
<1> DEFINE zero == 0
<1>1. Sha \in Shas /\ zero \in Nat /\ Taken(Sha, m, zero) /\ \A i \in 1 .. Len(m) : m[zero + i] = m[i]
  BY Lengths, ShaTaken
<1>2. zero + Len(m) = Len(m) /\ Len(m) \in Nat
  OBVIOUS
<1> HIDE DEF zero
<1>3. update(Sha, m) \in Shas /\ Taken(update(Sha, m), m, zero + Len(m))
  BY <1>1, UpdateTaken
<1> QED BY <1>2, <1>3, PadStandard, PadIs

(* A block more in front makes a block more in all.                        *)
LEMMA MoreBlocks ==
    ASSUME NEW n \in Nat, NEW p \in Nat, n + BlockLen <= p
    PROVE  BlocksFor(n) \in Nat /\ BlocksFor(p) \in Nat /\ BlocksFor(n) < BlocksFor(p)
<1>1. BlockLen \in Nat \ {0} /\ Place = 0 .. BlockLen - 1 /\ LengthAt \in Nat
  BY Lengths
<1>2. ASSUME NEW a \in Nat PROVE \E q \in Nat, k \in Place : a = Before(q) + k
  <2> DEFINE q == a \div BlockLen
             k == a % BlockLen
  <2>1. k \in 0 .. BlockLen - 1 /\ q \in Int /\ a = (BlockLen * q) + k
    BY <1>1, Division
  <2>2. q \in Nat
    BY <1>1, DividedTwice
  <2> HIDE DEF q, k
  <2> QED BY <1>1, <2>1, <2>2 DEF Before
<1>3. PICK q \in Nat, k \in Place : n = Before(q) + k
  BY <1>2
<1>4. PICK r \in Nat, l \in Place : p = Before(r) + l
  BY <1>2
<1>5. BlocksFor(n) = (IF k < LengthAt THEN q + 1 ELSE q + 2) /\ BlocksFor(p) = (IF l < LengthAt THEN r + 1 ELSE r + 2)
  BY <1>3, <1>4, BlocksAre
<1>6. Before(q + 1) = Before(q) + BlockLen /\ Before(q) \in Nat /\ Before(r) \in Nat
  BY BeforeNext
<1>7. q < r
  <2> SUFFICES ASSUME r <= q PROVE FALSE
    OBVIOUS
  <2>1. r \in 0 .. q
    OBVIOUS
  <2>2. Before(r) <= Before(q)
    BY <2>1, BeforeGrows
  <2> QED BY <1>1, <1>3, <1>4, <1>6, <2>2
<1>8. r = q + 1 => k <= l
  BY <1>1, <1>3, <1>4, <1>6
<1> QED BY <1>1, <1>5, <1>7, <1>8

(* A hash that took in a block before gives no digest of the standard.     *)
LEMMA UsedHash ==
    ASSUME NEW s \in Shas, BlockLen <= Filled(s), NEW bytes \in Seq(Int),
           NEW m, Len(m) \in Nat, Len(m) <= Len(bytes)
    PROVE  pad(update(s, bytes)).state # Reference(m)
<1> DEFINE u == update(s, bytes)
           n == Len(m)
           k == Len(bytes)
<1>1. u \in Shas /\ Filled(u) = Filled(s) + k
  BY UpdateFills
<1>2. Filled(s) \in Nat /\ k \in Nat /\ n \in Nat /\ BlockLen \in Nat /\ n <= k
  BY PadLength, Lengths
<1> HIDE DEF u, n, k
<1>3. n + BlockLen <= Filled(u) /\ Filled(u) \in Nat
  BY <1>1, <1>2
<1>4. BlocksFor(n) \in Nat /\ BlocksFor(n) < BlocksFor(Filled(u)) /\ BlocksFor(Filled(u)) \in Nat
  BY <1>2, <1>3, MoreBlocks
<1>5. Len(pad(u).state) = BlocksFor(Filled(u))
  BY <1>1, PadLength
<1>6. Len(Reference(m)) = BlocksFor(n)
  <2>1. DOMAIN Reference(m) = 1 .. BlocksFor(n)
    BY DEF Reference, BlocksFor, n
  <2>2. Reference(m) = [b \in 1 .. BlocksFor(n) |-> Reference(m)[b]]
    BY DEF Reference, BlocksFor, n
  <2>3. Reference(m) \in Seq({Reference(m)[b] : b \in 1 .. BlocksFor(n)})
    <3> HIDE DEF n
    <3> DEFINE r == Reference(m)
    <3>1. r = [b \in 1 .. BlocksFor(n) |-> r[b]]
      BY <2>2
    <3> HIDE DEF r
    <3> QED BY <1>4, <3>1 DEF r
  <2> HIDE DEF n
  <2> QED BY <1>4, <2>1, <2>3
<1>7. Len(pad(u).state) # Len(Reference(m))
  BY <1>4, <1>5, <1>6
<1> QED BY <1>7 DEF u

(* A hash that gave a digest took in a block.                              *)
LEMMA PaddedFills ==
    ASSUME NEW s \in Shas
    PROVE  pad(s) \in Shas /\ BlockLen <= Filled(pad(s))
<1> DEFINE q == Len(pad(s).state)
<1>1. pad(s) \in Shas /\ q \in Nat /\ q >= 1 /\ pad(s).blocklen \in Nat
  <2>1. pad(s) \in Shas /\ q \in Nat /\ q >= 1
    BY PadIs, PadLength
  <2>2. pad(s).blocklen \in Nat
    BY <2>1, ShaFields, Lengths
  <2> QED BY <2>1, <2>2
<1> HIDE DEF q
<1>2. 1 \in 0 .. q
  BY <1>1
<1>3. Before(1) <= Before(q) /\ Before(1) \in Nat /\ Before(q) \in Nat
  BY <1>1, <1>2, BeforeGrows
<1>4. Before(1) = BlockLen
  BY Lengths DEF Before
<1> QED BY <1>1, <1>3, <1>4, Lengths DEF Filled, q

LEMMA BufferedTyped ==
    ASSUME NEW texts \in Seq(Seq(Int)), NEW k \in 1 .. Len(texts)
    PROVE  /\ Buffered(texts, k) \in Seq(Int) /\ Len(Buffered(texts, k)) \in Nat
           /\ Len(texts[k]) \in Nat /\ Len(texts[k]) <= Len(Buffered(texts, k))
           /\ k = 1 => Buffered(texts, k) = texts[k]
<1> DEFINE part == SubSeq(texts, 1, k)
           g == FlatOf(part)
           V == Seq(Int)
<1>1. k \in Nat /\ k >= 1 /\ texts \in Seq(V) /\ k <= Len(texts) /\ Len(texts) \in Nat
  OBVIOUS
<1>2. part \in Seq(V) /\ Len(part) = k /\ part[k] = texts[k] /\ texts[k] \in V
  <2> HIDE DEF V
  <2> QED BY <1>1
<1>3. /\ g[k] \in V /\ g[k] = FlatBody(part, k, g)
      /\ k # 1 => g[k - 1] \in V
  <2>1. part \in Seq(Seq(Int)) /\ k \in 1 .. Len(part) /\ (k # 1 => k - 1 \in 1 .. Len(part))
    BY <1>1, <1>2
  <2> HIDE DEF part
  <2> QED BY <2>1, FlatExists
<1>4. Buffered(texts, k) = g[k]
  <2>1. Len(part) # 0
    BY <1>1, <1>2
  <2> HIDE DEF part
  <2>2. FlattenSeq(part) = FlatOf(part)[Len(part)]
    BY <2>1, FlatByBody
  <2> QED BY <1>2, <2>2 DEF Buffered, part
<1> HIDE DEF part, g
<1>5. CASE k = 1
  <2>1. g[k] = texts[k]
    BY <1>2, <1>3, <1>5 DEF FlatBody
  <2> QED BY <1>2, <1>4, <2>1
<1>6. CASE k # 1
  <2> DEFINE a == g[k - 1]
             b == texts[k]
  <2>1. g[k] = a \o b /\ a \in Seq(Int) /\ b \in Seq(Int)
    BY <1>2, <1>3, <1>6 DEF FlatBody
  <2> HIDE DEF a
  <2>2. Len(a \o b) = Len(a) + Len(b) /\ Len(a) \in Nat /\ Len(b) \in Nat
    BY <2>1
  <2>3. Len(b) <= Len(a \o b) /\ Len(a \o b) \in Nat
    BY <2>2
  <2> QED BY <1>3, <1>4, <1>6, <2>1, <2>2, <2>3
<1> QED BY <1>5, <1>6

LEMMA AttemptTyped ==
    ASSUME NEW texts \in Seq(Seq(Int)), NEW s \in Shas, NEW k \in 1 .. Len(texts)
    PROVE  Attempt(texts, s, k) \in Shas
<1>1. Buffered(texts, k) \in Seq(Int)
  BY BufferedTyped
<1>2. update(s, Buffered(texts, k)) \in Shas
  BY <1>1, UpdateFills
<1> QED BY <1>2, PadIs DEF Attempt

LEMMA MinedSteps ==
    ASSUME NEW texts \in Seq(Seq(Int))
    PROVE  \E h \in [0 .. Len(texts) -> Shas] :
               /\ h[0] = Sha
               /\ \A k \in 1 .. Len(texts) : h[k] = Attempt(texts, h[k - 1], k)
               /\ MinedHash(texts) = h[Len(texts)].state
<1> DEFINE n == Len(texts)
           K == 1 .. n
           nonces == [k \in DOMAIN texts |-> k]
           step == [p \in Shas \X K |-> Attempt(texts, p[1], p[2])]
           Parts == SUBSET (DOMAIN nonces)
<1>1. step \in [Shas \X K -> Shas]
  <2>1. \A p \in Shas \X K : Attempt(texts, p[1], p[2]) \in Shas
    BY AttemptTyped
  <2> QED BY <2>1
<1>2. \A t \in Shas : \A k \in K : step[<<t, k>>] = Attempt(texts, t, k)
  OBVIOUS
<1> HIDE DEF step
<1>3. /\ nonces \in Seq(K) /\ DOMAIN nonces = 1 .. n /\ n \in Nat /\ Len(nonces) = n
      /\ \A k \in 1 .. n : nonces[k] = k
  OBVIOUS
<1> HIDE DEF nonces
<1>4. PICK g \in [Parts -> Shas] : \A p \in Parts : g[p] = FoldBody(step, Sha, nonces, p, g)
  <2>1. Steps(step, K, Shas) /\ Sha \in Shas
    BY <1>1, Lengths DEF Steps
  <2> HIDE DEF K
  <2>2. Folded(step, Sha, nonces, Shas)
    BY ONLY <1>3, <2>1, FoldExists
  <2> QED BY <2>2 DEF Folded
<1> DEFINE Rec(f) == [p \in Parts |-> IF p = {} THEN Sha ELSE Attempt(texts, f[p \ {Max(p)}], nonces[Max(p)])]
           all == CHOOSE f : f = Rec(f)
           h == [k \in 0 .. n |-> all[1 .. k]]
<1>5. g = Rec(g)
  <2>1. ASSUME NEW p \in Parts, p # {} PROVE g[p] = Attempt(texts, g[p \ {Max(p)}], nonces[Max(p)])
    <3>1. Max(p) \in p
      BY <1>3, <2>1, MaxIs
    <3>2. nonces[Max(p)] \in K /\ g[p \ {Max(p)}] \in Shas
      BY <1>3, <1>4, <3>1
    <3> QED BY <1>2, <1>4, <2>1, <3>2 DEF FoldBody
  <2>2. \A p \in Parts : p = {} => g[p] = Sha
    BY <1>4 DEF FoldBody
  <2> HIDE DEF Parts
  <2> QED BY <1>4, <2>1, <2>2
<1>6. all = Rec(all)
  <2> HIDE DEF Rec
  <2> QED BY <1>5
<1>7. MinedHash(texts) = all[1 .. n].state
  BY <1>3 DEF MinedHash, FoldLeft, MapThenFoldSet, Attempt, Buffered, nonces
<1>8. all[1 .. 0] = Sha /\ \A k \in 1 .. n : all[1 .. k] = Attempt(texts, all[1 .. k - 1], k)
  <2>1. ASSUME NEW k \in 1 .. n PROVE all[1 .. k] = Attempt(texts, all[1 .. k - 1], k)
    <3>1. 1 .. k \in Parts /\ 1 .. k # {} /\ Max(1 .. k) = k /\ (1 .. k) \ {k} = 1 .. k - 1
      <4>1. k \in 1 .. Len(nonces)
        BY <1>3
      <4> QED BY <1>3, <4>1, FoldSteps
    <3> HIDE DEF all
    <3> QED BY <1>3, <1>6, <3>1
  <2>2. 1 .. 0 = {} /\ {} \in Parts
    OBVIOUS
  <2> HIDE DEF all
  <2>3. all[{}] = Sha
    BY <1>6, <2>2
  <2> QED BY <2>1, <2>2, <2>3
<1> HIDE DEF all
<1>9. \A k \in 0 .. n : all[1 .. k] \in Shas
  <2> DEFINE C == {k \in 0 .. n : all[1 .. k] \in Shas}
  <2>1. 0 \in C
    BY <1>3, <1>8, Lengths
  <2>2. ASSUME NEW k \in 0 .. n - 1, k \in C PROVE k + 1 \in C
    <3>1. k + 1 \in 1 .. n /\ (k + 1) - 1 = k /\ k + 1 \in 0 .. n
      BY <1>3
    <3>2. all[1 .. k + 1] = Attempt(texts, all[1 .. k], k + 1)
      BY <1>8, <3>1
    <3>3. all[1 .. k + 1] \in Shas
      BY <2>2, <3>1, <3>2, AttemptTyped
    <3> QED BY <3>1, <3>3
  <2>3. 0 .. n \subseteq C
    <3>1. 0 \in Int /\ n \in Int
      BY <1>3
    <3> HIDE DEF C
    <3> QED BY <2>1, <2>2, <3>1, InductTo
  <2> QED BY <2>3
<1>10. h \in [0 .. n -> Shas] /\ h[0] = Sha /\ MinedHash(texts) = h[n].state
  BY <1>3, <1>7, <1>8, <1>9
<1>11. ASSUME NEW k \in 1 .. n PROVE h[k] = Attempt(texts, h[k - 1], k)
  <2>1. k \in 0 .. n /\ k - 1 \in 0 .. n
    BY <1>3
  <2>2. h[k] = all[1 .. k] /\ h[k - 1] = all[1 .. k - 1]
    BY <2>1
  <2> QED BY <1>8, <2>2
<1> QED BY <1>10, <1>11

(* The hash of the contents of a block, at the first attempt only.         *)
LEMMA MinedOnce ==
    ASSUME NEW texts \in Seq(Seq(Int)), texts # <<>>
    PROVE  MinedHash(texts) = Reference(texts[Len(texts)]) <=> Len(texts) = 1
<1> DEFINE n == Len(texts)
<1>1. PICK h \in [0 .. n -> Shas] :
          /\ h[0] = Sha
          /\ \A k \in 1 .. n : h[k] = Attempt(texts, h[k - 1], k)
          /\ MinedHash(texts) = h[n].state
  BY MinedSteps
<1>2. n \in Nat /\ n >= 1 /\ n \in 1 .. Len(texts) /\ texts[n] \in Seq(Int)
  <2> DEFINE V == Seq(Int)
  <2>1. texts \in Seq(V)
    OBVIOUS
  <2> HIDE DEF V
  <2>2. n \in Nat /\ n >= 1 /\ n \in 1 .. Len(texts) /\ texts[n] \in V
    BY <2>1
  <2> QED BY <2>2 DEF V
<1>3. /\ Buffered(texts, n) \in Seq(Int) /\ Len(texts[n]) \in Nat
      /\ Len(texts[n]) <= Len(Buffered(texts, n)) /\ (n = 1 => Buffered(texts, n) = texts[n])
  BY <1>2, BufferedTyped
<1> DEFINE s == h[n - 1]
<1>4. s \in Shas /\ MinedHash(texts) = pad(update(s, Buffered(texts, n))).state
  <2>1. n \in 1 .. n /\ n - 1 \in 0 .. n
    BY <1>2
  <2> QED BY <1>1, <2>1 DEF Attempt
<1>5. CASE n = 1
  <2>1. s = Sha /\ Buffered(texts, n) = texts[n]
    BY <1>1, <1>3, <1>5
  <2>2. pad(update(Sha, texts[n])).state = Reference(texts[n])
    BY <1>2, OnePart
  <2> QED BY <1>4, <1>5, <2>1, <2>2
<1>6. CASE n # 1
  <2>1. BlockLen <= Filled(s)
    <3>1. n - 1 \in 1 .. n /\ (n - 1) - 1 \in 0 .. n /\ n - 1 \in 1 .. Len(texts)
      BY <1>2, <1>6
    <3>2. s = Attempt(texts, h[(n - 1) - 1], n - 1) /\ h[(n - 1) - 1] \in Shas
      BY <1>1, <3>1
    <3>3. update(h[(n - 1) - 1], Buffered(texts, n - 1)) \in Shas
      <4>1. Buffered(texts, n - 1) \in Seq(Int)
        BY <3>1, BufferedTyped
      <4> QED BY <3>2, <4>1, UpdateFills
    <3> QED BY <3>2, <3>3, PaddedFills DEF Attempt
  <2> HIDE DEF s
  <2>2. pad(update(s, Buffered(texts, n))).state # Reference(texts[n])
    BY <1>3, <1>4, <2>1, UsedHash
  <2> QED BY <1>4, <1>6, <2>2
<1> QED BY <1>5, <1>6

-----------------------------------------------------------------------------
(* The proof of work.                                                      *)

LEMMA LeadingIs ==
    ASSUME NEW hash, NEW d \in 0 .. HashLen * ByteBits
    PROVE  /\ (\A k \in 0 .. d - 1 : BitAt(hash, k) = 0) => d <= LeadingZeros(hash)
           /\ (\E k \in 0 .. d - 1 : BitAt(hash, k) # 0) => LeadingZeros(hash) < d
<1> DEFINE all == HashLen * ByteBits
           zeros == ZeroUpTo(hash)
<1>1. all \in Nat
  BY Lengths
<1>2. zeros \in SUBSET (0 .. all) /\ 0 \in zeros
  BY <1>1 DEF ZeroUpTo
<1>3. LeadingZeros(hash) = Max(zeros)
  BY DEF LeadingZeros, ZeroUpTo, BitAt
<1>4. Max(zeros) \in zeros /\ \A y \in zeros : y <= Max(zeros)
  <2> HIDE DEF zeros, all
  <2> QED BY <1>1, <1>2, MaxUpTo
<1>5. (\A k \in 0 .. d - 1 : BitAt(hash, k) = 0) => d \in zeros
  BY DEF ZeroUpTo
<1>6. ASSUME NEW k \in 0 .. d - 1, BitAt(hash, k) # 0, d <= Max(zeros) PROVE FALSE
  <2>1. Max(zeros) \in Nat /\ \A i \in 0 .. Max(zeros) - 1 : BitAt(hash, i) = 0
    BY <1>1, <1>4 DEF ZeroUpTo
  <2>2. k \in 0 .. Max(zeros) - 1
    <3> HIDE DEF zeros, all
    <3> QED BY <1>6, <2>1
  <2> QED BY <1>6, <2>1, <2>2
<1>7. Max(zeros) \in Nat /\ d \in Nat
  BY <1>1, <1>2, <1>4
<1> HIDE DEF zeros, all
<1> QED BY <1>3, <1>4, <1>5, <1>6, <1>7

(* Bit j of byte i, counted from its highest one.                          *)
LEMMA BitOf ==
    ASSUME NEW hash, NEW i \in Nat, NEW j \in 0 .. ByteBits - 1
    PROVE  /\ (ByteBits * i) + j \in Nat
           /\ BitAt(hash, (ByteBits * i) + j) = (hash[i] \div TwoTo[ByteBits - 1 - j]) % 2
<1> DEFINE w == ByteBits
           n == (w * i) + j
<1>1. w \in Nat \ {0} /\ i \in Int /\ i \in Nat /\ j \in 0 .. w - 1
  BY Lengths
<1> HIDE DEF w
<1>2. n \in Int /\ n \in Nat /\ n = (w * i) + j
  <2>1. ASSUME NEW a \in Nat, NEW b \in Nat PROVE a * b \in Nat
    OBVIOUS
  <2>2. w * i \in Nat
    BY <1>1, <2>1
  <2> QED BY <1>1, <2>2
<1> HIDE DEF n
<1>3. (n % w) = j /\ (n \div w) = i
  <2>1. \A q \in Int : \A r \in 0 .. w - 1 : n = (w * q) + r => (n % w) = r /\ (n \div w) = q
    BY ONLY <1>1, <1>2, Division, ZenonT(40)
  <2> QED BY ONLY <1>1, <1>2, <2>1
<1> QED BY <1>2, <1>3 DEF BitAt, w, n

(* The words of memcmp: the first place where hash and target differ.      *)
LEMMA BelowOrNot ==
    ASSUME NEW t \in [0 .. HashLen - 1 -> Int], NEW h \in [0 .. HashLen - 1 -> Int],
           NEW n \in 0 .. HashLen - 1, ~Below(t, h), \A i \in 0 .. n - 1 : t[i] <= h[i]
    PROVE  \A i \in 0 .. n : h[i] <= t[i]
<1> SUFFICES ASSUME NEW b \in 0 .. n, t[b] < h[b] PROVE FALSE
  <2>1. \A i \in 0 .. n : i \in 0 .. HashLen - 1
    BY Lengths
  <2> QED BY <2>1
<1> DEFINE S == {i \in 0 .. n : t[i] < h[i]}
<1>1. S \in SUBSET Nat /\ S # {}
  OBVIOUS
<1>2. PICK i \in S : \A m \in S : i <= m
  <2> HIDE DEF S
  <2> QED BY <1>1, LeastNatural
<1>3. i \in 0 .. n /\ t[i] < h[i] /\ i \in DOMAIN t
  BY Lengths
<1>4. ASSUME NEW j \in 0 .. i - 1 PROVE t[j] = h[j]
  <2>1. j \in 0 .. n - 1 /\ j \in 0 .. n /\ j \in 0 .. HashLen - 1 /\ j < i
    BY <1>3, Lengths
  <2>2. j \notin S /\ t[j] <= h[j]
    BY <1>2, <2>1
  <2>3. t[j] \in Int /\ h[j] \in Int
    BY <2>1
  <2> QED BY <2>1, <2>2, <2>3
<1> QED BY <1>3, <1>4 DEF Below

LEMMA TargetIs ==
    ASSUME NEW hash \in HashBytes, NEW rest \in HashBytes,
           NEW d \in 0 .. HashLen * ByteBits - 1
    PROVE  LET div == d \div ByteBits
               ones == TwoTo[ByteBits - (d % ByteBits)] - 1
           IN  IF EndsLoop(hash, rest, d) THEN LeadingZeros(hash) >= d
               ELSE LeadingZeros(hash) < d \/ hash[div] = ones
<1> DEFINE w == ByteBits
           i0 == d \div w
           r == d % w
           top == TwoTo[w - r]
           all == TwoTo[w]
           t == setTarget(rest, d)
           len == HashLen
<1>1. w \in Nat \ {0} /\ len \in Nat \ {0}
  BY Lengths
<1>2. /\ d \in Nat /\ i0 \in Nat /\ r \in 0 .. w - 1 /\ d = (w * i0) + r
      /\ i0 \in 0 .. len - 1 /\ d \in 0 .. len * w
  <2>1. d \in Int /\ d >= 0 /\ d <= (len * w) - 1 /\ len * w \in Int
    BY <1>1
  <2> HIDE DEF w, len
  <2>2. r \in 0 .. w - 1 /\ i0 \in Int /\ d = (w * i0) + r
    BY ONLY <1>1, <2>1, Division
  <2> HIDE DEF r, i0
  <2>3. ASSUME i0 < 0 PROVE FALSE
    <3>1. w * (i0 + 1) <= 0 /\ w * (i0 + 1) = (w * i0) + w
      <4>1. ASSUME NEW a \in Nat, NEW b \in Nat PROVE a * (-b) <= 0 /\ -b \in Int
        OBVIOUS
      <4>2. -(i0 + 1) \in Nat /\ -(-(i0 + 1)) = i0 + 1 /\ w \in Nat
        BY <1>1, <2>2, <2>3
      <4>3. w * (i0 + 1) <= 0
        BY <4>1, <4>2
      <4> QED BY <1>1, <2>2, <4>3
    <3> QED BY <1>1, <2>1, <2>2, <3>1
  <2>4. ASSUME i0 >= len PROVE FALSE
    <3>1. ASSUME NEW a \in Nat, NEW b \in Nat, NEW c \in Nat PROVE a * (b + c) >= b * a
      <4>1. a * (b + c) = (b * a) + (a * c) /\ a * c \in Nat /\ b * a \in Nat
        OBVIOUS
      <4> QED BY <4>1
    <3>2. i0 - len \in Nat /\ len + (i0 - len) = i0
      BY <1>1, <2>2, <2>4
    <3>3. w * i0 >= len * w
      BY <1>1, <3>1, <3>2
    <3>4. w * i0 \in Int
      BY <1>1, <2>2
    <3> QED BY <2>1, <2>2, <3>3, <3>4
  <2> QED BY <1>1, <2>1, <2>2, <2>3, <2>4
<1>3. /\ top \in Nat \ {0} /\ all \in Nat \ {0} /\ top <= all
      /\ hash \in [0 .. len - 1 -> 0 .. all - 1] /\ rest \in [0 .. len - 1 -> 0 .. all - 1]
  <2>1. w - r \in Nat /\ w \in Nat /\ w - r <= w
    BY <1>1, <1>2
  <2>2. top \in Nat \ {0} /\ all \in Nat \ {0}
    BY <2>1, Powers
  <2>3. top <= all
    BY <2>1, PowersGrow
  <2> QED BY <2>2, <2>3 DEF HashBytes, Byte
<1>4. /\ t \in [0 .. len - 1 -> Int]
      /\ \A i \in 0 .. i0 - 1 : i \in 0 .. len - 1 /\ t[i] = 0
      /\ t[i0] = top - 1 /\ t[i0] \in Int
  <2>1. t = [i \in 0 .. len - 1 |-> CASE i < i0 -> 0 [] i = i0 -> top - 1 [] OTHER -> rest[i]]
    BY DEF setTarget
  <2> HIDE DEF t, top, i0, all, len
  <2>2. ASSUME NEW i \in 0 .. len - 1 PROVE t[i] \in Int
    <3>1. rest[i] \in Int
      BY <1>3
    <3> QED BY <1>2, <1>3, <2>1, <2>2, <3>1
  <2>3. t \in [0 .. len - 1 -> Int]
    BY <2>1, <2>2
  <2>4. ASSUME NEW i \in 0 .. i0 - 1 PROVE i \in 0 .. len - 1 /\ t[i] = 0
    <3>1. i \in 0 .. len - 1 /\ i < i0
      BY <1>1, <1>2, <2>4
    <3> QED BY <2>1, <3>1
  <2>5. t[i0] = top - 1
    <3>1. i0 \in 0 .. len - 1 /\ ~(i0 < i0)
      BY <1>2
    <3> QED BY <2>1, <3>1
  <2> QED BY <1>3, <2>3, <2>4, <2>5
<1>5. EndsLoop(hash, rest, d) <=> ~Below(t, hash)
  BY DEF EndsLoop
<1> HIDE DEF t
<1>6. ASSUME ~Below(t, hash) PROVE d <= LeadingZeros(hash)
  <2>1. \A i \in 0 .. i0 : hash[i] <= t[i]
    <3>1. \A i \in 0 .. i0 - 1 : t[i] <= hash[i]
      <4> HIDE DEF len, i0, all
      <4>1. \A i \in 0 .. len - 1 : 0 <= hash[i]
        BY <1>3
      <4> QED BY <1>4, <4>1
    <3>2. hash \in [0 .. HashLen - 1 -> Int] /\ i0 \in 0 .. HashLen - 1
      BY <1>2, <1>3
    <3> HIDE DEF i0
    <3> QED BY <1>4, <1>6, <3>1, <3>2, BelowOrNot
  <2>2. ASSUME NEW k \in 0 .. d - 1 PROVE BitAt(hash, k) = 0
    <3> DEFINE i == k \div w
               j == k % w
    <3>1. i \in Int /\ j \in 0 .. w - 1 /\ k = (w * i) + j /\ k \in Int /\ k < d /\ 0 <= k
      <4>1. k \in Int /\ k < d /\ 0 <= k
        BY <1>2
      <4> HIDE DEF w
      <4> QED BY ONLY <1>1, <4>1, Division
    <3> DEFINE x == hash[i]
               v == w - 1 - j
    <3>2. BitAt(hash, k) = (x \div TwoTo[v]) % 2
      BY DEF BitAt
    <3> HIDE DEF i, j, w, i0, r, len
    <3>3. i \in 0 .. i0 /\ (i = i0 => j < r)
      <4>1. ASSUME i > i0 PROVE FALSE
        <5>1. i - (i0 + 1) \in Nat /\ w * i = ((w * i0) + w) + (w * (i - (i0 + 1)))
          BY <1>1, <1>2, <3>1, <4>1
        <5>2. w * (i - (i0 + 1)) \in Nat
          <6>1. ASSUME NEW a \in Nat, NEW b \in Nat PROVE a * b \in Nat
            OBVIOUS
          <6> QED BY <1>1, <5>1, <6>1
        <5>3. w * i0 \in Int /\ w * i \in Int
          BY <1>1, <1>2, <3>1
        <5> QED BY <1>1, <1>2, <3>1, <5>1, <5>2, <5>3
      <4>2. ASSUME i < 0 PROVE FALSE
        <5>1. -(i + 1) \in Nat /\ w * i = -(w + (w * (-(i + 1))))
          BY <1>1, <3>1, <4>2
        <5>2. w * (-(i + 1)) \in Nat
          <6>1. ASSUME NEW a \in Nat, NEW b \in Nat PROVE a * b \in Nat
            OBVIOUS
          <6> QED BY <1>1, <5>1, <6>1
        <5> QED BY <1>1, <3>1, <5>1, <5>2
      <4>3. i = i0 => j < r
        <5>1. i = i0 => w * i = w * i0
          OBVIOUS
        <5>2. w * i0 \in Int /\ w * i \in Int
          BY <1>1, <1>2, <3>1
        <5> QED BY <1>2, <3>1, <5>1, <5>2
      <4> QED BY <1>2, <3>1, <4>1, <4>2, <4>3
    <3>4. v \in Nat /\ TwoTo[v] \in Nat \ {0}
      <4>1. v \in Nat
        BY <1>1, <3>1
      <4> QED BY <4>1, Powers
    <3>5. x \in 0 .. TwoTo[v] - 1
      <4>1. CASE i # i0
        <5>1. i \in 0 .. i0 - 1 /\ i \in 0 .. i0
          BY <1>2, <3>3, <4>1
        <5>2. x <= 0 /\ 0 <= x /\ x \in Int
          <6>1. hash[i] <= t[i] /\ t[i] = 0 /\ i \in 0 .. len - 1
            BY <1>4, <2>1, <5>1
          <6>2. hash[i] \in 0 .. all - 1
            BY <1>3, <6>1
          <6> HIDE DEF all
          <6> QED BY <1>3, <6>1, <6>2
        <5> QED BY <3>4, <5>2
      <4>2. CASE i = i0
        <5>1. x \in 0 .. all - 1 /\ x <= top - 1
          <6>1. i0 \in 0 .. i0
            BY <1>2
          <6> QED BY <1>2, <1>3, <1>4, <2>1, <4>2, <6>1
        <5>2. top <= TwoTo[v]
          <6>1. w - r \in Nat /\ v \in Nat /\ w - r <= v
            BY <1>1, <1>2, <3>1, <3>3, <3>4, <4>2
          <6> QED BY <6>1, PowersGrow
        <5> HIDE DEF top, all
        <5> QED BY <1>3, <3>4, <5>1, <5>2
      <4> QED BY <4>1, <4>2
    <3>6. x \div TwoTo[v] = 0 /\ 0 % 2 = 0
      <4> DEFINE m == TwoTo[v]
                 zero == 0
      <4>1. m \in Nat \ {0} /\ x \in 0 .. m - 1 /\ x \in Int /\ zero \in Int /\ x = (m * zero) + x
        BY <3>4, <3>5
      <4> HIDE DEF m, x, zero
      <4>2. \A q \in Int : \A e \in 0 .. m - 1 : x = (m * q) + e => (x % m) = e /\ (x \div m) = q
        BY ONLY <4>1, Division
      <4>3. x \div m = zero
        BY ONLY <4>1, <4>2
      <4> QED BY <4>3 DEF m, zero
    <3> QED BY <3>2, <3>6
  <2> QED BY <1>2, <2>2, LeadingIs
<1>7. ASSUME Below(t, hash), hash[i0] # top - 1 PROVE LeadingZeros(hash) < d
  <2>1. PICK i \in DOMAIN t : t[i] < hash[i] /\ \A j \in 0 .. i - 1 : t[j] = hash[j]
    BY <1>7 DEF Below
  <2> HIDE DEF i0, r, w, len, top, all
  <2>2. i \in 0 .. len - 1 /\ i <= i0
    <3>1. i \in 0 .. len - 1
      BY <1>4
    <3>2. ASSUME i0 < i PROVE FALSE
      <4>1. i0 \in 0 .. i - 1
        BY <1>2, <3>1, <3>2
      <4> QED BY <1>4, <1>7, <2>1, <4>1
    <3> QED BY <1>2, <3>1, <3>2
  <2> DEFINE x == hash[i]
             a == IF i = i0 THEN w - r ELSE 0
  <2>3. x \in Nat /\ x < all /\ a \in Nat /\ TwoTo[a] <= x
    <3>1. x \in 0 .. all - 1
      BY <1>3, <2>2
    <3>2. CASE i = i0
      <4>1. a = w - r /\ w - r \in Nat /\ TwoTo[a] = top
        BY <1>1, <1>2, <3>2 DEF top
      <4> QED BY <1>3, <1>4, <2>1, <3>1, <3>2, <4>1
    <3>3. CASE i # i0
      <4>1. a = 0 /\ TwoTo[a] = 1
        BY <3>3, Powers
      <4>2. t[i] = 0
        BY <1>2, <1>4, <2>2, <3>3
      <4> QED BY <1>3, <2>1, <3>1, <4>1, <4>2
    <3> QED BY <3>2, <3>3
  <2> HIDE DEF a
  <2>4. PICK k \in a .. w - 1 : (x \div TwoTo[k]) % 2 = 1
    <3>1. x \in Nat /\ x < TwoTo[w] /\ w \in Nat /\ a \in Nat /\ TwoTo[a] <= x
      BY <1>1, <2>3 DEF all
    <3> HIDE DEF x
    <3> QED BY <3>1, OneBit
  <2> DEFINE j == w - 1 - k
             n == (w * i) + j
  <2>5. j \in 0 .. w - 1 /\ w - 1 - j = k /\ i \in Nat
    BY <1>1, <2>2, <2>3
  <2>6. n \in Nat /\ BitAt(hash, n) # 0
    <3> HIDE DEF j
    <3>1. /\ (ByteBits * i) + j \in Nat
          /\ BitAt(hash, (ByteBits * i) + j) = (hash[i] \div TwoTo[ByteBits - 1 - j]) % 2
      BY <2>5, BitOf DEF w
    <3> QED BY <2>4, <2>5, <3>1 DEF w
  <2>7. n < d
    <3> HIDE DEF x
    <3>1. CASE i = i0
      <4>1. a = w - r /\ j < r
        BY <1>1, <1>2, <2>3, <3>1 DEF a
      <4>2. w * i = w * i0 /\ w * i \in Int
        BY <1>1, <2>5, <3>1
      <4> QED BY <1>1, <1>2, <2>5, <4>1, <4>2
    <3>2. CASE i # i0
      <4>1. i0 - (i + 1) \in Nat /\ w * i0 = ((w * i) + w) + (w * (i0 - (i + 1)))
        BY <1>1, <1>2, <2>2, <2>5, <3>2
      <4>2. w * (i0 - (i + 1)) \in Nat
        <5>1. ASSUME NEW b \in Nat, NEW c \in Nat PROVE b * c \in Nat
          OBVIOUS
        <5> QED BY <1>1, <4>1, <5>1
      <4>3. w * i \in Int /\ w * i0 \in Int
        BY <1>1, <1>2, <2>5
      <4> HIDE DEF j
      <4> QED BY <1>1, <1>2, <2>5, <4>1, <4>2, <4>3
    <3> QED BY <3>1, <3>2
  <2> HIDE DEF n
  <2>8. n \in 0 .. d - 1
    BY <1>2, <2>6, <2>7
  <2> QED BY <1>2, <2>6, <2>8, LeadingIs DEF w, len
<1>8. LeadingZeros(hash) < d \/ d <= LeadingZeros(hash) \/ Below(t, hash)
  BY <1>6
<1> QED BY <1>5, <1>6, <1>7

-----------------------------------------------------------------------------
(* The text of a transaction.                                              *)

LEMMA SizeIs ==
    /\ Size \subseteq Nat /\ Size \subseteq Int
    /\ 0 .. TwoTo[IntBits - 1] - 1 \subseteq Size
    /\ TwoTo[IntBits - 1] <= TwoTo[SizeBits - 1] /\ TwoTo[SizeBits - 1] \in Nat
<1>1. /\ SizeSpan \in Nat \ {0} /\ IntSpan \in Nat \ {0} /\ TwoTo[IntBits - 1] \in Nat \ {0}
      /\ IntSpan = 2 * TwoTo[IntBits - 1] /\ Size = 0 .. SizeSpan - 1
  BY Spans DEF Size, SizeSpan
<1>2. IntSpan <= SizeSpan
  <2>1. IntBits \in Nat /\ SizeBits \in Nat /\ IntBits <= SizeBits
    BY AmountsAssumption
  <2> QED BY <2>1, PowersGrow DEF IntSpan, SizeSpan
<1>3. TwoTo[IntBits - 1] <= TwoTo[SizeBits - 1] /\ TwoTo[SizeBits - 1] \in Nat
  <2>1. IntBits - 1 \in Nat /\ SizeBits - 1 \in Nat /\ IntBits - 1 <= SizeBits - 1
    BY AmountsAssumption
  <2> QED BY <2>1, PowersGrow
<1> QED BY <1>1, <1>2, <1>3

(* A number that an int holds passes through text and both types.          *)
LEMMA IntStays ==
    ASSUME NEW n \in Size, n \in IntRange
    PROVE  ToInt(n) = n /\ ToSize(n) = n /\ Atoi(n) = n
<1> DEFINE half == TwoTo[IntBits - 1]
<1>1. half \in Nat \ {0} /\ IntSpan \in Nat \ {0} /\ IntSpan = 2 * half
  BY Spans
<1>2. n \in Nat /\ n < half /\ n \in Int
  <2>1. n \in Nat /\ n \in -half .. half - 1
    BY SizeIs DEF IntRange
  <2> HIDE DEF half
  <2> QED BY <1>1, <2>1
<1> HIDE DEF half
<1>3. n % IntSpan = n
  <2>1. n \in 0 .. IntSpan - 1
    BY <1>1, <1>2
  <2> QED BY ONLY <1>1, <2>1, SmallStays
<1>4. ToInt(n) = n
  BY <1>1, <1>2, <1>3 DEF ToInt, IntSpan, half
<1>5. ToSize(n) = n
  BY <1>2, ToSizeIs
<1>6. ~(n >= TwoTo[SizeBits - 1])
  <2>1. half <= TwoTo[SizeBits - 1] /\ TwoTo[SizeBits - 1] \in Nat
    BY SizeIs DEF half
  <2> QED BY <1>1, <1>2, <2>1
<1> QED BY <1>4, <1>5, <1>6 DEF Atoi

LEMMA UpdateTyped ==
    ASSUME NEW amount \in Size, NEW before \in Size, NEW more \in Size
    PROVE  Update(NewTransaction(amount, before), more).t \in Transactions
<1> DEFINE made == NewTransaction(amount, before)
           u == Update(made, more)
<1>1. amount \in Int /\ before \in Int /\ more \in Nat /\ more \in Int
  BY SizeIs
<1>2. \A n \in Int : ToSize(n) \in Size /\ ToInt(n) \in Int /\ ToSize(n) \in Int
  BY ToSizeIs, ToIntIs
<1>3. ASSUME NEW out \in Outputs PROVE createInput(out) \in [balance : Int]
  <2>1. out.balance + out.amount \in Int
    <3>1. out.balance \in Size /\ out.amount \in Size
      BY DEF Outputs
    <3>2. out.balance \in Int /\ out.amount \in Int
      BY <3>1, SizeIs
    <3> QED BY <3>2
  <2> QED BY <1>2, <2>1 DEF createInput
<1>4. made.out \in Outputs /\ made \in Transactions
  <2>1. createOutput(amount, before) \in Outputs
    <3>1. before - amount \in Int
      BY <1>1
    <3> QED BY <1>2, <3>1 DEF createOutput, Outputs
  <2> QED BY <1>3, <2>1 DEF NewTransaction, Transactions
<1> DEFINE a == made.out.amount
           b == made.out.balance
           out == IF more > 0
                  THEN [amount |-> ToSize(a + more), balance |-> ToSize(b - more)]
                  ELSE [amount |-> ToSize(a - more), balance |-> ToSize(b + ToInt(more))]
<1>5. u = IF more > b THEN [error |-> 1, t |-> made]
          ELSE [error |-> 0, t |-> [out |-> out, in |-> createInput(out)]]
  BY DEF Update
<1>6. out \in Outputs
  <2>1. a \in Int /\ b \in Int
    BY <1>4, SizeIs DEF Outputs
  <2> HIDE DEF a, b
  <2>2. a + more \in Int /\ b - more \in Int /\ a - more \in Int /\ b + ToInt(more) \in Int
    BY <1>1, <1>2, <2>1
  <2> QED BY <1>2, <2>2 DEF Outputs
<1> HIDE DEF out, a, b, made, u
<1>7. u.t = made \/ u.t = [out |-> out, in |-> createInput(out)]
  BY <1>5
<1>8. [out |-> out, in |-> createInput(out)] \in Transactions
  BY <1>3, <1>6 DEF Transactions
<1> QED BY <1>4, <1>7, <1>8 DEF u, made

(* The balance is computed again from what was before and the amount.      *)
LEMMA ReadsBack ==
    ASSUME NEW t \in Transactions, NEW before \in Size, t.in.balance = ToInt(before),
           ToSize(t.out.amount + t.out.balance) = before,
           t.out.amount \in IntRange, before \in IntRange
    PROVE  ReadBackTx(t) = t
<1> DEFINE a == t.out.amount
           b == t.out.balance
<1>1. a \in Size /\ b \in Size /\ a \in Int /\ b \in Int /\ before \in Int /\ SizeSpan \in Nat \ {0}
  BY Spans, SizeIs DEF Transactions, Outputs
<1>2. t.in.balance = before /\ ToSize(t.in.balance) = before
  BY IntStays
<1>3. ToSize(Atoi(a)) = a
  BY <1>1, IntStays
<1>4. ToSize(before - a) = b
  <2> DEFINE sum == a + b
             d == before - a
  <2>1. sum \in Int /\ d \in Int /\ before = ToSize(sum) /\ sum - a = b
    BY <1>1
  <2> HIDE DEF sum
  <2>2. Alike(SizeSpan, before, sum)
    BY <2>1, ToSizeIs
  <2>3. Alike(SizeSpan, d, sum - a)
    BY <1>1, <2>1, <2>2, AlikeMoves
  <2> HIDE DEF d
  <2>4. ToSize(d) = ToSize(b) /\ ToSize(b) = b
    BY <1>1, <2>1, <2>3, ToSizeIs
  <2> QED BY <2>4 DEF d
<1>5. ReadBackTx(t) = [out |-> [amount |-> a, balance |-> b], in |-> [balance |-> t.in.balance]]
  BY <1>2, <1>3, <1>4 DEF ReadBackTx, createOutput
<1>6. t.out = [amount |-> a, balance |-> b] /\ t.in = [balance |-> t.in.balance]
      /\ t = [out |-> t.out, in |-> t.in]
  <2>1. t.out \in Outputs /\ t.in \in [balance : Int] /\ t = [out |-> t.out, in |-> t.in]
    BY DEF Transactions
  <2> QED BY <2>1 DEF Outputs
<1> QED BY <1>5, <1>6

-----------------------------------------------------------------------------
(* Packets.                                                                *)

LEMMA ViewIs ==
    ASSUME NEW text \in Seq(Token), NEW at \in 1 .. Len(text) + 1
    PROVE  /\ View(text, at) \in Seq(Token) /\ Len(View(text, at)) = Len(text) - at + 1
           /\ \A i \in 1 .. Len(text) - at + 1 : View(text, at)[i] = text[at - 1 + i]
           /\ View(text, 1) = text
           /\ View(text, Len(text) + 1) = <<>>
<1> HIDE DEF Token
<1>1. Len(text) \in Nat /\ at \in Nat
  OBVIOUS
<1>2. View(text, 1) = text
  BY DEF View
<1>3. View(text, Len(text) + 1) = <<>>
  BY <1>1 DEF View
<1>4. View(text, at) \in Seq(Token) /\ Len(View(text, at)) = Len(text) - at + 1
  BY <1>1 DEF View
<1>5. \A i \in 1 .. Len(text) - at + 1 : View(text, at)[i] = text[at - 1 + i]
  BY <1>1 DEF View
<1> QED BY <1>2, <1>3, <1>4, <1>5

(* Piece and Erase, where the first delimiter is.                          *)
LEMMA FieldEnds ==
    ASSUME NEW text \in Seq(Token), NEW at \in 1 .. Len(text), NEW end \in at .. Len(text),
           text[end] = Delimiter, \A i \in at .. end - 1 : text[i] # Delimiter
    PROVE  /\ Piece(View(text, at)) = SubSeq(text, at, end - 1)
           /\ Erase(View(text, at)) = View(text, end + 1)
<1> DEFINE v == View(text, at)
           n == end - at + 1
           I == {i \in 1 .. Len(v) : v[i] = Delimiter}
<1>1. /\ v \in Seq(Token) /\ Len(v) = Len(text) - at + 1 /\ Len(text) \in Nat
      /\ \A i \in 1 .. Len(text) - at + 1 : v[i] = text[at - 1 + i]
      /\ at \in Nat /\ end \in Nat /\ at <= end /\ end <= Len(text) /\ at >= 1
  BY ViewIs
<1> HIDE DEF v
<1>2. n \in I /\ I \in SUBSET Nat /\ I # {}
  <2>1. n \in 1 .. Len(v) /\ v[n] = text[end]
    BY <1>1
  <2> QED BY <2>1
<1>3. \A i \in I : n <= i
  <2> SUFFICES ASSUME NEW i \in 1 .. Len(v), i < n PROVE v[i] # Delimiter
    BY <1>1
  <2>1. i \in 1 .. Len(text) - at + 1 /\ at - 1 + i \in at .. end - 1
    BY <1>1
  <2>2. v[i] = text[at - 1 + i]
    BY <1>1, <2>1
  <2> QED BY <2>1, <2>2
<1>4. Min(I) = n /\ SelectInSeq(v, LAMBDA t : t = Delimiter) = Min(I)
  <2>1. SelectInSeq(v, LAMBDA t : t = Delimiter) = Min(I)
    BY <1>2 DEF SelectInSeq
  <2> HIDE DEF I, n
  <2>2. Min(I) \in I /\ \A y \in I : Min(I) <= y
    BY <1>2, LeastOf
  <2>3. Min(I) <= n /\ n <= Min(I) /\ Min(I) \in Nat /\ n \in Nat
    BY <1>2, <1>3, <2>2
  <2> QED BY <2>1, <2>3
<1> HIDE DEF I
<1>5. Piece(v) = SubSeq(v, 1, n - 1) /\ Erase(v) = SubSeq(v, n + 1, Len(v))
  <2>1. n # 0
    BY <1>1
  <2> QED BY <1>4, <2>1 DEF Piece, Erase
<1>6. SubSeq(v, 1, n - 1) = SubSeq(text, at, end - 1)
  <2> HIDE DEF Token
  <2>1. SubSeq(v, 1, n - 1) = [i \in 1 .. n - 1 |-> v[i]]
    BY <1>1
  <2>2. SubSeq(text, at, end - 1) = [i \in 1 .. n - 1 |-> text[at - 1 + i]]
    BY <1>1
  <2>3. \A i \in 1 .. n - 1 : v[i] = text[at - 1 + i]
    BY <1>1
  <2> QED BY <2>1, <2>2, <2>3
<1>7. SubSeq(v, n + 1, Len(v)) = View(text, end + 1)
  <2> HIDE DEF Token
  <2>1. SubSeq(v, n + 1, Len(v)) = [i \in 1 .. Len(text) - end |-> v[n + i]]
    BY <1>1
  <2>2. View(text, end + 1) = [i \in 1 .. Len(text) - end |-> text[end + i]]
    BY <1>1 DEF View
  <2>3. ASSUME NEW i \in 1 .. Len(text) - end PROVE v[n + i] = text[end + i]
    <3>1. n + i \in 1 .. Len(text) - at + 1 /\ at - 1 + (n + i) = end + i
      BY <1>1
    <3> QED BY <1>1, <3>1
  <2> QED BY <2>1, <2>2, <2>3
<1> QED BY <1>5, <1>6, <1>7 DEF v

(* And where there is none.                                                *)
LEMMA FieldStays ==
    ASSUME NEW v \in Seq(Token), \A i \in 1 .. Len(v) : v[i] # Delimiter
    PROVE  Piece(v) = v /\ Erase(v) = v
<1>1. SelectInSeq(v, LAMBDA t : t = Delimiter) = 0
  BY DEF SelectInSeq
<1>2. SubSeq(v, 1, Len(v)) = v
  <2> HIDE DEF Token
  <2>1. SubSeq(v, 1, Len(v)) = [i \in 1 .. Len(v) |-> v[i]]
    OBVIOUS
  <2> QED BY <2>1
<1> HIDE DEF Token
<1>3. Piece(v) = v
  BY <1>1 DEF Piece
<1>4. Erase(v) = SubSeq(v, 0 + 1, Len(v))
  BY <1>1 DEF Erase
<1> QED BY <1>2, <1>3, <1>4

LEMMA Joined ==
    ASSUME NEW T, NEW s \in Seq(T), NEW e \in Seq(T)
    PROVE  Joins(T, s, e, s \o e)
BY DEF Joins

LEMMA JoinedOne ==
    ASSUME NEW T, NEW s \in Seq(T), NEW e \in T
    PROVE  Extends(T, s, e, s \o <<e>>)
<1> DEFINE x == <<e>>
<1>1. x \in Seq(T) /\ Len(x) = 1 /\ x[1] = e
  OBVIOUS
<1> HIDE DEF x
<1>2. Joins(T, s, x, s \o x)
  BY <1>1, Joined
<1>3. (s \o x)[Len(s) + 1] = e
  BY <1>1, <1>2 DEF Joins
<1> QED BY <1>1, <1>2, <1>3 DEF x, Joins, Extends

LEMMA Tuples ==
    ASSUME NEW T, NEW a \in T, NEW b \in T, NEW c \in T, NEW d \in T, NEW f \in T, NEW g \in T, NEW h \in T
    PROVE  /\ <<a, b, c, d>> \in Seq(T) /\ Len(<<a, b, c, d>>) = 4
           /\ <<a, b, c, d, f, g, h>> \in Seq(T) /\ Len(<<a, b, c, d, f, g, h>>) = 7
OBVIOUS

LEMMA BufferIs ==
    ASSUME NEW type \in Int, NEW origin \in Name, NEW destination \in Name, NEW payload \in Seq(Token)
    PROVE  Written(buffer(Packet(type, origin, destination, 1, 2, payload)),
                   type, origin, destination, payload)
<1> DEFINE D == Delimiter
           len == Len(payload)
           t == <<DTP_INDICATOR, D, type, D>>
           m == <<D, 1, D, 2, D, len, D>>
           a == t \o <<origin>>
           b == a \o <<D>>
           c == b \o <<destination>>
           f == c \o m
           g == f \o payload
           h == g \o <<D>>
<1>1. /\ len \in Nat /\ DTP_INDICATOR \in Token /\ type \in Token /\ D \in Token
      /\ origin \in Token /\ destination \in Token /\ len \in Token /\ 1 \in Token /\ 2 \in Token
  BY DEF Token, DTP_INDICATOR
<1>2. /\ t \in Seq(Token) /\ Len(t) = 4
      /\ t[1] = DTP_INDICATOR /\ t[2] = D /\ t[3] = type /\ t[4] = D
  <2>1. t \in Seq(Token) /\ Len(t) = 4
    <3> DEFINE i == DTP_INDICATOR
               e == D
    <3>1. i \in Token /\ e \in Token
      BY <1>1
    <3> HIDE DEF i, e, Token
    <3>2. <<i, e, type, e>> \in Seq(Token) /\ Len(<<i, e, type, e>>) = 4
      BY <1>1, <3>1, Tuples
    <3> QED BY <3>2 DEF i, e
  <2> QED BY <2>1
<1>3. /\ m \in Seq(Token) /\ Len(m) = 7 /\ m[1] = D /\ m[2] = 1 /\ m[3] = D /\ m[4] = 2
      /\ m[5] = D /\ m[6] = len /\ m[7] = D
  <2>1. m \in Seq(Token) /\ Len(m) = 7
    <3> DEFINE one == 1
               two == 2
               e == D
    <3>1. one \in Token /\ two \in Token /\ e \in Token
      BY <1>1
    <3> HIDE DEF one, two, e, Token
    <3>2. /\ <<e, one, e, two, e, len, e>> \in Seq(Token)
          /\ Len(<<e, one, e, two, e, len, e>>) = 7
      BY <1>1, <3>1, Tuples
    <3> QED BY <3>2 DEF one, two, e
  <2> QED BY <2>1
<1>4. buffer(Packet(type, origin, destination, 1, 2, payload)) = h
  BY DEF buffer, Packet
<1> HIDE DEF t, m, Token
<1>5. a \in Seq(Token) /\ Len(a) = 5 /\ a[5] = origin /\ (\A i \in 1 .. 4 : a[i] = t[i])
  <2>1. Extends(Token, t, origin, a)
    BY <1>1, <1>2, JoinedOne
  <2> HIDE DEF a
  <2> QED BY <1>2, <2>1 DEF Extends
<1> HIDE DEF a
<1>6. b \in Seq(Token) /\ Len(b) = 6 /\ b[6] = D /\ (\A i \in 1 .. 5 : b[i] = a[i])
  <2>1. Extends(Token, a, D, b)
    BY <1>1, <1>5, JoinedOne
  <2> HIDE DEF b
  <2> QED BY <1>5, <2>1 DEF Extends
<1> HIDE DEF b
<1>7. c \in Seq(Token) /\ Len(c) = 7 /\ c[7] = destination /\ (\A i \in 1 .. 6 : c[i] = b[i])
  <2>1. Extends(Token, b, destination, c)
    BY <1>1, <1>6, JoinedOne
  <2> HIDE DEF c
  <2> QED BY <1>6, <2>1 DEF Extends
<1> HIDE DEF c
<1>8. /\ f \in Seq(Token) /\ Len(f) = 14 /\ (\A i \in 1 .. 7 : f[i] = c[i])
      /\ (\A i \in 1 .. 7 : f[7 + i] = m[i])
  <2>1. Joins(Token, c, m, f)
    BY <1>3, <1>7, Joined
  <2> HIDE DEF f
  <2> QED BY <1>3, <1>7, <2>1 DEF Joins
<1> HIDE DEF f
<1>9. /\ g \in Seq(Token) /\ Len(g) = 14 + len /\ (\A i \in 1 .. 14 : g[i] = f[i])
      /\ (\A i \in 1 .. len : g[14 + i] = payload[i])
  <2>1. Joins(Token, f, payload, g)
    BY <1>8, Joined
  <2> HIDE DEF g
  <2> QED BY <1>8, <2>1 DEF Joins
<1> HIDE DEF g
<1>10. /\ h \in Seq(Token) /\ Len(h) = 15 + len /\ (\A i \in 1 .. 14 + len : h[i] = g[i])
       /\ h[15 + len] = D
  <2>1. Extends(Token, g, D, h)
    BY <1>1, <1>9, JoinedOne
  <2>2. Len(g) + 1 = 15 + len
    BY <1>1, <1>9
  <2> HIDE DEF h
  <2> QED BY <1>9, <2>1, <2>2 DEF Extends
<1> HIDE DEF h, len
<1>11. \A i \in 1 .. 14 : h[i] = f[i]
  BY <1>1, <1>9, <1>10, SMTT(30)
<1>12. \A i \in 1 .. len : h[14 + i] = payload[i]
  <2>1. \A i \in 1 .. len : 14 + i \in 1 .. 14 + len
    BY <1>1
  <2> QED BY <1>9, <1>10, <2>1
<1>13. /\ h[1] = DTP_INDICATOR /\ h[2] = D /\ h[3] = type /\ h[4] = D /\ h[5] = origin /\ h[6] = D
       /\ h[7] = destination
  BY <1>2, <1>5, <1>6, <1>7, <1>8, <1>11
<1>14. /\ h[8] = D /\ h[9] = 1 /\ h[10] = D /\ h[11] = 2 /\ h[12] = D /\ h[13] = len /\ h[14] = D
  <2>1. /\ f[7 + 1] = D /\ f[7 + 2] = 1 /\ f[7 + 3] = D /\ f[7 + 4] = 2 /\ f[7 + 5] = D
        /\ f[7 + 6] = len /\ f[7 + 7] = D
    BY <1>3, <1>8
  <2> QED BY <1>11, <2>1
<1> QED BY <1>4, <1>10, <1>12, <1>13, <1>14 DEF Written, len

LEMMA FieldEnded ==
    ASSUME NEW text, NEW k, Heads(text, k), NEW i \in 1 .. 7, 2 * i <= k
    PROVE  /\ Erase(View(text, StartOf(k, i))) = View(text, StartOf(k, i + 1))
           /\ Piece(View(text, StartOf(k, i))) = FieldOf(text, k, i)
<1> DEFINE s == (2 * i) - 1
           e == 2 * i
<1>1. k \in 0 .. 14 /\ i \in Nat /\ Len(text) \in Nat /\ k <= Len(text) /\ text \in Seq(Token)
  BY DEF Heads
<1>2. StartOf(k, i) = s /\ StartOf(k, i + 1) = e + 1
  <2>1. i <= (k \div 2) + 1 /\ i + 1 <= (k \div 2) + 1
    BY <1>1
  <2>2. (2 * (i + 1)) - 1 = e + 1
    BY <1>1
  <2> QED BY <2>1, <2>2 DEF StartOf
<1>3. s \in 1 .. Len(text) /\ e \in s .. Len(text) /\ s \in 1 .. k /\ e \in 1 .. k /\ e - 1 = s
      /\ s % 2 = 1 /\ e % 2 = 0
  BY <1>1
<1> HIDE DEF s, e
<1>4. text[e] = Delimiter /\ \A j \in s .. e - 1 : text[j] # Delimiter
  <2>1. \A j \in s .. e - 1 : j = s
    BY <1>3
  <2> QED BY <1>3, <2>1 DEF Heads
<1>5. Piece(View(text, s)) = SubSeq(text, s, e - 1) /\ Erase(View(text, s)) = View(text, e + 1)
  BY <1>1, <1>3, <1>4, FieldEnds
<1>6. SubSeq(text, s, e - 1) = <<text[s]>>
  <2> HIDE DEF Token
  <2>1. SubSeq(text, s, s) = [j \in 1 .. 1 |-> text[s]]
    <3>1. SubSeq(text, s, s) = [j \in 1 .. 1 + s - s |-> text[s + j - 1]]
      BY <1>1, <1>3
    <3>2. 1 + s - s = 1 /\ \A j \in 1 .. 1 : s + j - 1 = s
      BY <1>3
    <3> QED BY <3>1, <3>2
  <2>2. [j \in 1 .. 1 |-> text[s]] = <<text[s]>>
    OBVIOUS
  <2> QED BY <1>3, <2>1, <2>2
<1>7. FieldOf(text, k, i) = <<text[s]>>
  <2>1. (2 * i) - 1 <= k /\ ~((2 * i) - 1 > k)
    BY <1>1, <1>3 DEF s
  <2> QED BY <2>1 DEF FieldOf, s
<1> QED BY <1>2, <1>5, <1>6, <1>7

LEMMA FieldCut ==
    ASSUME NEW text, NEW k, Heads(text, k), NEW i \in 1 .. 8, k < 2 * i, k < 14
    PROVE  LET v == View(text, StartOf(k, i))
           IN  /\ v = FieldOf(text, k, i) /\ Piece(v) = v /\ Erase(v) = v
               /\ i < 8 => StartOf(k, i) = StartOf(k, i + 1)
<1> DEFINE s == (2 * (k \div 2)) + 1
           v == View(text, s)
<1>1. k \in 0 .. 13 /\ Len(text) = k /\ text \in Seq(Token) /\ i \in Nat
  BY DEF Heads
<1>2. StartOf(k, i) = s /\ (i < 8 => StartOf(k, i + 1) = s)
  <2>1. i <= (k \div 2) + 1 => (2 * i) - 1 = s
    BY <1>1
  <2>2. ~(i + 1 <= (k \div 2) + 1)
    BY <1>1
  <2> QED BY <2>1, <2>2 DEF StartOf
<1>3. s \in 1 .. Len(text) + 1 /\ (k % 2 = 0 => s = k + 1) /\ (k % 2 # 0 => s = k)
  BY <1>1
<1> HIDE DEF s
<1>4. /\ v \in Seq(Token) /\ Len(v) = Len(text) - s + 1
      /\ \A j \in 1 .. Len(text) - s + 1 : v[j] = text[s - 1 + j]
      /\ View(text, Len(text) + 1) = <<>>
  BY <1>1, <1>3, ViewIs
<1>5. CASE k % 2 = 0
  <2>1. v = <<>>
    BY <1>1, <1>3, <1>4, <1>5
  <2>2. (2 * i) - 1 > k
    BY <1>1, <1>5
  <2>3. FieldOf(text, k, i) = <<>>
    BY <1>1, <1>5, <2>2 DEF FieldOf
  <2> HIDE DEF v
  <2>4. Len(v) = 0
    BY <2>1
  <2>5. Piece(v) = v /\ Erase(v) = v
    <3>1. v \in Seq(Token) /\ \A j \in 1 .. Len(v) : v[j] # Delimiter
      BY <1>4, <2>4
    <3> QED BY <3>1, FieldStays
  <2> QED BY <1>2, <2>1, <2>3, <2>5 DEF v
<1>6. CASE k % 2 # 0
  <2>1. Len(v) = 1 /\ v[1] = text[k] /\ k \in 1 .. k
    <3>1. s = k /\ k \in Nat /\ k >= 1
      BY <1>1, <1>3, <1>6
    <3>2. 1 \in 1 .. Len(text) - s + 1 /\ s - 1 + 1 = k
      BY <1>1, <3>1
    <3> HIDE DEF v
    <3> QED BY <1>1, <1>4, <3>1, <3>2
  <2> HIDE DEF v
  <2>2. v = <<text[k]>>
    <3> HIDE DEF Token
    <3>1. v = [j \in 1 .. Len(v) |-> v[j]]
      BY <1>4
    <3>2. <<text[k]>> = [j \in 1 .. 1 |-> text[k]]
      OBVIOUS
    <3> QED BY <2>1, <3>1, <3>2
  <2>3. \A j \in 1 .. Len(v) : v[j] # Delimiter
    <3>1. text[k] # Delimiter
      BY <1>6, <2>1 DEF Heads
    <3> QED BY <2>1, <3>1
  <2>4. FieldOf(text, k, i) = <<text[k]>>
    <3>1. CASE (2 * i) - 1 <= k
      <4>1. (2 * i) - 1 = k
        BY <1>1, <3>1
      <4> QED BY <3>1, <4>1 DEF FieldOf
    <3>2. CASE (2 * i) - 1 > k
      <4>1. ~((2 * i) - 1 <= k)
        BY <1>1, <3>2
      <4> QED BY <1>6, <4>1 DEF FieldOf
    <3> QED BY <1>1, <3>1, <3>2
  <2>5. Piece(v) = v /\ Erase(v) = v
    BY <1>4, <2>3, FieldStays
  <2> QED BY <1>2, <2>2, <2>4, <2>5 DEF v
<1> QED BY <1>5, <1>6

(* What ReadPacket reads.                                                  *)
LEMMA ReadIs ==
    ASSUME NEW text, NEW k, Heads(text, k)
    PROVE  LET field(i) == FieldOf(text, k, i)
           IN  ReadPacket(text) =
                   [indicator |-> atoi(field(1)), type |-> atoi(field(2)), origin |-> field(3),
                    destination |-> field(4), serverPort |-> atoi(field(5)),
                    port |-> atoi(field(6)), payloadSize |-> atoi(field(7)),
                    payload |-> IF k < 14 THEN field(8) ELSE Piece(View(text, 15))]
<1> DEFINE Body(f) == [i \in 1 .. 8 |-> IF i = 1 THEN text ELSE Erase(f[i - 1])]
           rest == CHOOSE f : f = Body(f)
           views == [i \in 1 .. 8 |-> View(text, StartOf(k, i))]
<1>1. text \in Seq(Token) /\ k \in 0 .. 14
  BY DEF Heads
<1>2. View(text, StartOf(k, 1)) = text
  <2>1. StartOf(k, 1) = 1 /\ 1 \in 1 .. Len(text) + 1
    BY <1>1 DEF StartOf
  <2> QED BY <1>1, <2>1, ViewIs
<1>3. ASSUME NEW i \in 1 .. 7
      PROVE  Erase(View(text, StartOf(k, i))) = View(text, StartOf(k, i + 1))
  <2>1. CASE 2 * i <= k
    BY <2>1, FieldEnded
  <2>2. CASE k < 2 * i
    <3>1. i \in 1 .. 8 /\ k < 14 /\ i < 8
      BY <1>1, <2>2
    <3> QED BY <2>2, <3>1, FieldCut
  <2> QED BY <1>1, <2>1, <2>2
<1>4. views = Body(views)
  <2>1. ASSUME NEW i \in 1 .. 8, i # 1 PROVE View(text, StartOf(k, i)) = Erase(views[i - 1])
    <3>1. i - 1 \in 1 .. 7 /\ i - 1 \in 1 .. 8 /\ (i - 1) + 1 = i
      BY <2>1
    <3>2. Erase(View(text, StartOf(k, i - 1))) = View(text, StartOf(k, i))
      BY <1>3, <3>1
    <3> QED BY <3>1, <3>2
  <2> QED BY <1>2, <2>1
<1>5. rest = Body(rest)
  <2> HIDE DEF Body, views
  <2> QED BY <1>4
<1>6. rest[1] = text /\ \A i \in 1 .. 7 : rest[i + 1] = Erase(rest[i])
  <2> HIDE DEF rest
  <2>1. \A i \in 1 .. 8 : rest[i] = IF i = 1 THEN text ELSE Erase(rest[i - 1])
    BY <1>5
  <2>2. ASSUME NEW i \in 1 .. 7 PROVE rest[i + 1] = Erase(rest[i])
    <3>1. i + 1 \in 1 .. 8 /\ i + 1 # 1 /\ (i + 1) - 1 = i
      OBVIOUS
    <3> QED BY <2>1, <3>1
  <2> QED BY <2>1, <2>2
<1> HIDE DEF Body
<1>7. \A i \in 1 .. 8 : rest[i] = View(text, StartOf(k, i))
  <2> DEFINE C == {i \in 1 .. 8 : rest[i] = View(text, StartOf(k, i))}
             lo == 1
             hi == 8
  <2>1. lo \in C
    BY <1>2, <1>6
  <2>2. ASSUME NEW i \in lo .. hi - 1, i \in C PROVE i + 1 \in C
    <3>1. i \in 1 .. 7 /\ i + 1 \in 1 .. 8
      OBVIOUS
    <3> QED BY <1>3, <1>6, <2>2, <3>1
  <2>3. lo \in Int /\ hi \in Int
    OBVIOUS
  <2>4. lo .. hi \subseteq C
    <3> HIDE DEF C, lo, hi
    <3> QED BY <2>1, <2>2, <2>3, InductTo
  <2> QED BY <2>4
<1>8. ReadPacket(text) =
          [indicator |-> atoi(Piece(rest[1])), type |-> atoi(Piece(rest[2])),
           origin |-> Piece(rest[3]), destination |-> Piece(rest[4]),
           serverPort |-> atoi(Piece(rest[5])), port |-> atoi(Piece(rest[6])),
           payloadSize |-> atoi(Piece(rest[7])), payload |-> Piece(rest[8])]
  BY DEF ReadPacket, Body
<1> HIDE DEF rest
<1>9. ASSUME NEW i \in 1 .. 7 PROVE Piece(rest[i]) = FieldOf(text, k, i)
  <2>1. rest[i] = View(text, StartOf(k, i))
    BY <1>7
  <2>2. CASE 2 * i <= k
    BY <2>1, <2>2, FieldEnded
  <2>3. CASE k < 2 * i
    <3>1. i \in 1 .. 8 /\ k < 14
      BY <1>1, <2>3
    <3> QED BY <2>1, <2>3, <3>1, FieldCut
  <2> QED BY <1>1, <2>2, <2>3
<1>10. Piece(rest[8]) = IF k < 14 THEN FieldOf(text, k, 8) ELSE Piece(View(text, 15))
  <2>1. CASE k < 14
    <3>1. k < 2 * 8 /\ 8 \in 1 .. 8
      BY <1>1
    <3> QED BY <1>7, <2>1, <3>1, FieldCut
  <2>2. CASE ~(k < 14)
    <3>1. StartOf(k, 8) = 15
      BY <1>1, <2>2 DEF StartOf
    <3> QED BY <1>7, <2>2, <3>1
  <2> QED BY <2>1, <2>2
<1> QED BY <1>8, <1>9, <1>10

(* A piece is the beginning of what it is read from.                       *)
LEMMA PieceBegins ==
    ASSUME NEW v \in Seq(Token)
    PROVE  \E n \in 0 .. Len(v) : Piece(v) = SubSeq(v, 1, n)
<1>1. Len(v) \in Nat
  OBVIOUS
<1>2. CASE \A i \in 1 .. Len(v) : v[i] # Delimiter
  <2>1. Piece(v) = v
    BY <1>2, FieldStays
  <2>2. v = SubSeq(v, 1, Len(v)) /\ Len(v) \in 0 .. Len(v)
    <3> HIDE DEF Token
    <3>1. SubSeq(v, 1, Len(v)) = [i \in 1 .. Len(v) |-> v[i]]
      OBVIOUS
    <3> QED BY <1>1, <3>1
  <2> QED BY <2>1, <2>2
<1>3. CASE ~ \A i \in 1 .. Len(v) : v[i] # Delimiter
  <2> DEFINE I == {i \in 1 .. Len(v) : v[i] = Delimiter}
  <2>1. I \in SUBSET Nat /\ I # {}
    BY <1>3
  <2>2. PICK e \in I : \A i \in I : e <= i
    <3> HIDE DEF I
    <3> QED BY <2>1, LeastNatural
  <2>3. /\ e \in 1 .. Len(v) /\ 1 \in 1 .. Len(v) /\ v[e] = Delimiter
        /\ \A i \in 1 .. e - 1 : v[i] # Delimiter
    <3>1. \A i \in 1 .. e - 1 : i \in 1 .. Len(v) /\ i < e
      BY <1>1, <2>2
    <3> QED BY <1>1, <2>2, <3>1
  <2>4. View(v, 1) = v
    BY <2>3, ViewIs
  <2>5. Piece(v) = SubSeq(v, 1, e - 1)
    BY <2>3, <2>4, FieldEnds
  <2>6. e - 1 \in 0 .. Len(v)
    BY <1>1, <2>3
  <2> QED BY <2>5, <2>6
<1> QED BY <1>2, <1>3

(* The payload that is read from behind the header of a whole packet.      *)
LEMMA PayloadRead ==
    ASSUME NEW text \in Seq(Token), NEW payload \in Seq(Token), 15 + Len(payload) <= Len(text),
           \A i \in 1 .. Len(payload) : text[14 + i] = payload[i],
           text[15 + Len(payload)] = Delimiter
    PROVE  Piece(View(text, 15)) = Piece(payload)
<1> DEFINE len == Len(payload)
<1>1. len \in Nat /\ Len(text) \in Nat /\ 15 \in 1 .. Len(text)
  OBVIOUS
<1>2. ASSUME NEW n \in 0 .. len PROVE SubSeq(text, 15, 14 + n) = SubSeq(payload, 1, n)
  <2> HIDE DEF Token
  <2>1. SubSeq(text, 15, 14 + n) = [i \in 1 .. n |-> text[14 + i]]
    BY <1>1
  <2>2. SubSeq(payload, 1, n) = [i \in 1 .. n |-> payload[i]]
    BY <1>1
  <2>3. \A i \in 1 .. n : i \in 1 .. len
    BY <1>1
  <2> QED BY <2>1, <2>2, <2>3
<1>3. CASE \A i \in 1 .. len : payload[i] # Delimiter
  <2>1. Piece(payload) = payload
    BY <1>3, FieldStays
  <2>2. \A i \in 15 .. (15 + len) - 1 : text[i] # Delimiter
    <3> SUFFICES ASSUME NEW i \in 15 .. (15 + len) - 1 PROVE text[i] # Delimiter
      OBVIOUS
    <3>1. i - 14 \in 1 .. len /\ 14 + (i - 14) = i
      BY <1>1
    <3> QED BY <1>3, <3>1
  <2>3. 15 + len \in 15 .. Len(text)
    BY <1>1
  <2>4. Piece(View(text, 15)) = SubSeq(text, 15, (15 + len) - 1)
    BY <1>1, <2>2, <2>3, FieldEnds
  <2>5. (15 + len) - 1 = 14 + len /\ len \in 0 .. len
    BY <1>1
  <2>6. SubSeq(payload, 1, len) = payload
    <3> HIDE DEF Token
    <3>1. SubSeq(payload, 1, len) = [i \in 1 .. len |-> payload[i]]
      BY <1>1
    <3> QED BY <3>1
  <2> QED BY <1>2, <2>1, <2>4, <2>5, <2>6
<1>4. CASE ~ \A i \in 1 .. len : payload[i] # Delimiter
  <2> DEFINE I == {i \in 1 .. len : payload[i] = Delimiter}
  <2>1. I \in SUBSET Nat /\ I # {}
    BY <1>4
  <2>2. PICK e \in I : \A i \in I : e <= i
    <3> HIDE DEF I
    <3> QED BY <2>1, LeastNatural
  <2>3. /\ e \in 1 .. len /\ 1 \in 1 .. len /\ payload[e] = Delimiter
        /\ \A i \in 1 .. e - 1 : payload[i] # Delimiter
    <3>1. \A i \in 1 .. e - 1 : i \in 1 .. len /\ i < e
      BY <1>1, <2>2
    <3> QED BY <1>1, <2>2, <3>1
  <2>4. View(payload, 1) = payload
    BY <2>3, ViewIs
  <2>5. Piece(payload) = SubSeq(payload, 1, e - 1)
    BY <2>3, <2>4, FieldEnds
  <2>6. \A i \in 15 .. (14 + e) - 1 : text[i] # Delimiter
    <3> SUFFICES ASSUME NEW i \in 15 .. (14 + e) - 1 PROVE text[i] # Delimiter
      OBVIOUS
    <3>1. i - 14 \in 1 .. e - 1 /\ i - 14 \in 1 .. len /\ 14 + (i - 14) = i
      BY <1>1, <2>3
    <3>2. text[14 + (i - 14)] = payload[i - 14]
      BY <3>1
    <3> QED BY <2>3, <3>1, <3>2
  <2>7. 14 + e \in 15 .. Len(text) /\ text[14 + e] = Delimiter
    BY <1>1, <2>3
  <2>8. Piece(View(text, 15)) = SubSeq(text, 15, (14 + e) - 1)
    BY <1>1, <2>6, <2>7, FieldEnds
  <2>9. (14 + e) - 1 = 14 + (e - 1) /\ e - 1 \in 0 .. len
    BY <1>1, <2>3
  <2> QED BY <1>2, <2>5, <2>8, <2>9
<1> QED BY <1>3, <1>4

LEMMA NumberRead ==
    ASSUME NEW n \in Int
    PROVE  atoi(<<n>>) = n
<1>1. n \notin Name
  BY PacketsAssumption
<1> QED BY <1>1 DEF atoi

LEMMA PacketRead ==
    ASSUME NEW type \in Int, NEW origin \in Name, NEW destination \in Name,
           NEW payload \in Seq(Token), NEW tail \in Seq(Token),
           NEW kept \in 0 .. 15 + Len(payload), kept = 15 + Len(payload) \/ tail = <<>>
    PROVE  LET p == Packet(type, origin, destination, 1, 2, payload)
               a == ReadPacket(SubSeq(buffer(p), 1, kept) \o tail)
           IN  /\ kept = 15 + Len(payload) => a = [p EXCEPT !.payload = Piece(@)]
               /\ a.type # type => kept < 3 /\ a.type \in {DTP_INDICATOR, DataPacket}
               /\ kept >= 14 => IsPrefix(a.payload, payload)
               /\ kept < 14 => a.payload = IF kept % 2 = 0 THEN <<>> ELSE <<buffer(p)[kept]>>
<1> DEFINE p == Packet(type, origin, destination, 1, 2, payload)
           b == buffer(p)
           len == Len(payload)
           part == SubSeq(b, 1, kept)
           text == part \o tail
           k == IF kept < 14 THEN kept ELSE 14
           a == ReadPacket(text)
<1>1. Written(b, type, origin, destination, payload) /\ len \in Nat /\ kept \in Nat /\ kept <= 15 + len
  BY BufferIs
<1> HIDE DEF Token, b
<1>2. b \in Seq(Token) /\ Len(b) = 15 + len
  BY <1>1 DEF Written
<1>3. part \in Seq(Token) /\ Len(part) = kept /\ \A j \in 1 .. kept : part[j] = b[j]
  BY <1>1, <1>2
<1> HIDE DEF part
<1>4. /\ text \in Seq(Token) /\ Len(text) \in Nat /\ kept <= Len(text)
      /\ (kept # 15 + len => Len(text) = kept /\ text = part)
      /\ \A j \in 1 .. kept : text[j] = b[j]
  <2>1. Joins(Token, part, tail, text)
    BY <1>3, Joined
  <2>2. kept # 15 + len => tail = <<>> /\ Len(tail) = 0
    OBVIOUS
  <2>3. tail = <<>> => text = part
    BY <1>3
  <2> HIDE DEF text
  <2> QED BY <1>1, <1>3, <2>1, <2>2, <2>3 DEF Joins
<1> HIDE DEF text
<1>5. Heads(text, k)
  <2>1. \A j \in 1 .. 14 : b[j] = Delimiter <=> j % 2 = 0
    <3>1. /\ b[1] # Delimiter /\ b[3] # Delimiter /\ b[5] # Delimiter /\ b[7] # Delimiter
          /\ b[9] # Delimiter /\ b[11] # Delimiter /\ b[13] # Delimiter
      BY <1>1, PacketsAssumption DEF Written, DTP_INDICATOR
    <3>2. /\ b[2] = Delimiter /\ b[4] = Delimiter /\ b[6] = Delimiter /\ b[8] = Delimiter
          /\ b[10] = Delimiter /\ b[12] = Delimiter /\ b[14] = Delimiter
      BY <1>1 DEF Written
    <3>3. \A j \in 1 .. 14 : \/ j % 2 = 1 /\ j \in {1, 3, 5, 7, 9, 11, 13}
                             \/ j % 2 = 0 /\ j \in {2, 4, 6, 8, 10, 12, 14}
      OBVIOUS
    <3> DEFINE odd == {1, 3, 5, 7, 9, 11, 13}
               even == {2, 4, 6, 8, 10, 12, 14}
    <3>4. (\A j \in odd : b[j] # Delimiter) /\ (\A j \in even : b[j] = Delimiter)
      BY <3>1, <3>2
    <3> HIDE DEF odd, even
    <3>5. \A j \in 1 .. 14 : (j % 2 = 1 /\ j \in odd) \/ (j % 2 = 0 /\ j \in even)
      BY <3>3 DEF odd, even
    <3>6. ASSUME NEW j \in 1 .. 14 PROVE b[j] = Delimiter <=> j % 2 = 0
      <4>1. CASE j % 2 = 1 /\ j \in odd
        BY <3>4, <4>1
      <4>2. CASE j % 2 = 0 /\ j \in even
        BY <3>4, <4>2
      <4> QED BY <3>5, <4>1, <4>2
    <3> QED BY <3>6
  <2>2. k \in 0 .. 14 /\ k <= kept /\ (k < 14 => k = kept /\ kept # 15 + len)
    BY <1>1
  <2>3. \A j \in 1 .. k : j \in 1 .. 14 /\ j \in 1 .. kept
    BY <1>1, <2>2
  <2> HIDE DEF k
  <2>4. ASSUME NEW j \in 1 .. k PROVE text[j] = Delimiter <=> j % 2 = 0
    BY <1>4, <2>1, <2>3
  <2>5. k <= Len(text) /\ (k < 14 => Len(text) = k)
    BY <1>1, <1>4, <2>2
  <2> QED BY <1>4, <2>2, <2>4, <2>5 DEF Heads
<1>6. k \in 0 .. 14 /\ (kept < 14 => k = kept) /\ (kept >= 14 => k = 14)
  BY <1>1
<1> HIDE DEF k
<1> DEFINE field(i) == FieldOf(text, k, i)
<1>7. a = [indicator |-> atoi(field(1)), type |-> atoi(field(2)), origin |-> field(3),
           destination |-> field(4), serverPort |-> atoi(field(5)),
           port |-> atoi(field(6)), payloadSize |-> atoi(field(7)),
           payload |-> IF k < 14 THEN field(8) ELSE Piece(View(text, 15))]
  BY <1>5, ReadIs
<1>8. ASSUME NEW i \in 1 .. 7, (2 * i) - 1 <= k PROVE field(i) = <<b[(2 * i) - 1]>>
  <2>1. ~((2 * i) - 1 > k) /\ (2 * i) - 1 \in 1 .. kept
    BY <1>1, <1>6, <1>8
  <2> QED BY <1>4, <1>8, <2>1 DEF FieldOf
<1>9. /\ b[1] = 10 /\ b[3] = type /\ b[5] = origin /\ b[7] = destination
      /\ b[9] = 1 /\ b[11] = 2 /\ b[13] = len
  BY <1>1 DEF Written, DTP_INDICATOR
<1>10. /\ p.indicator = 10 /\ p.type = type /\ p.origin = <<origin>> /\ p.destination = <<destination>>
       /\ p.serverPort = 1 /\ p.port = 2 /\ p.payloadSize = len /\ p.payload = payload
  BY DEF Packet, DTP_INDICATOR
<1>11. kept = 15 + len => a = [p EXCEPT !.payload = Piece(@)]
  <2> SUFFICES ASSUME kept = 15 + len PROVE a = [p EXCEPT !.payload = Piece(@)]
    OBVIOUS
  <2>1. k = 14
    BY <1>1, <1>6
  <2>2. /\ field(1) = <<10>> /\ field(2) = <<type>> /\ field(3) = <<origin>>
        /\ field(4) = <<destination>> /\ field(5) = <<1>> /\ field(6) = <<2>> /\ field(7) = <<len>>
    <3>1. \A i \in 1 .. 7 : field(i) = <<b[(2 * i) - 1]>>
      BY <1>8, <2>1
    <3> HIDE DEF field
    <3> QED BY <1>9, <3>1
  <2>3. Piece(View(text, 15)) = Piece(payload)
    <3>1. 15 + Len(payload) <= Len(text)
      BY <1>4
    <3>2. \A i \in 1 .. Len(payload) : text[14 + i] = payload[i]
      <4>1. \A i \in 1 .. len : 14 + i \in 1 .. kept
        BY <1>1
      <4> QED BY <1>1, <1>4, <4>1 DEF Written
    <3>3. text[15 + Len(payload)] = Delimiter
      <4>1. 15 + len \in 1 .. kept
        BY <1>1
      <4> QED BY <1>1, <1>4, <4>1 DEF Written
    <3> QED BY <1>4, <3>1, <3>2, <3>3, PayloadRead
  <2>4. atoi(<<10>>) = 10 /\ atoi(<<type>>) = type /\ atoi(<<1>>) = 1 /\ atoi(<<2>>) = 2 /\ atoi(<<len>>) = len
    BY <1>1, NumberRead
  <2> HIDE DEF field, a
  <2>5. a = [indicator |-> 10, type |-> type, origin |-> <<origin>>, destination |-> <<destination>>,
             serverPort |-> 1, port |-> 2, payloadSize |-> len, payload |-> Piece(payload)]
    <3>1. /\ atoi(field(1)) = 10 /\ atoi(field(2)) = type /\ atoi(field(5)) = 1
          /\ atoi(field(6)) = 2 /\ atoi(field(7)) = len
      BY ONLY <2>2, <2>4
    <3>2. (IF k < 14 THEN field(8) ELSE Piece(View(text, 15))) = Piece(payload)
      BY <2>1, <2>3
    <3> QED BY ONLY <1>7, <2>2, <3>1, <3>2
  <2>6. [p EXCEPT !.payload = Piece(@)] =
            [indicator |-> 10, type |-> type, origin |-> <<origin>>, destination |-> <<destination>>,
             serverPort |-> 1, port |-> 2, payloadSize |-> len, payload |-> Piece(payload)]
    BY DEF Packet, DTP_INDICATOR
  <2> QED BY <2>5, <2>6
<1>12. a.type # type => kept < 3 /\ a.type \in {DTP_INDICATOR, DataPacket}
  <2>1. a.type = atoi(field(2))
    BY <1>7
  <2> HIDE DEF a
  <2>2. CASE k >= 3
    <3>1. field(2) = <<b[3]>>
      BY <1>6, <1>8, <2>2
    <3> QED BY <1>9, <2>1, <3>1, NumberRead
  <2>3. CASE k < 3
    <3>1. kept < 3 /\ ~(3 <= k) /\ 3 > k
      BY <1>1, <1>6, <2>3
    <3>2. CASE k % 2 = 0
      <4>1. field(2) = <<>>
        BY <1>6, <3>1, <3>2 DEF FieldOf
      <4> QED BY <2>1, <3>1, <4>1 DEF atoi, DataPacket
    <3>3. CASE k % 2 # 0
      <4>1. k = 1 /\ kept = 1 /\ 1 \in 1 .. kept
        BY <1>1, <1>6, <2>3, <3>3
      <4>2. field(2) = <<text[1]>>
        BY <3>1, <3>3, <4>1 DEF FieldOf
      <4>3. field(2) = <<10>>
        BY <1>4, <1>9, <4>1, <4>2
      <4> QED BY <2>1, <3>1, <4>3, NumberRead DEF DTP_INDICATOR
    <3> QED BY <3>2, <3>3
  <2> QED BY <1>6, <2>2, <2>3
<1>13. kept < 14 => a.payload = IF kept % 2 = 0 THEN <<>> ELSE <<b[kept]>>
  <2> SUFFICES ASSUME kept < 14 PROVE a.payload = IF kept % 2 = 0 THEN <<>> ELSE <<b[kept]>>
    OBVIOUS
  <2>1. k = kept /\ k < 14 /\ ~(15 <= k) /\ 15 > k
    BY <1>1, <1>6
  <2>2. a.payload = field(8)
    BY <1>7, <2>1
  <2>3. field(8) = IF kept % 2 = 0 THEN <<>> ELSE <<text[kept]>>
    BY <2>1 DEF FieldOf
  <2>4. kept % 2 # 0 => text[kept] = b[kept]
    <3>1. kept % 2 # 0 => kept \in 1 .. kept
      BY <1>1
    <3> QED BY <1>4, <3>1
  <2> QED BY <2>2, <2>3, <2>4
<1>14. kept >= 14 => IsPrefix(a.payload, payload)
  <2> SUFFICES ASSUME kept >= 14 PROVE IsPrefix(a.payload, payload)
    OBVIOUS
  <2>1. k = 14 /\ a.payload = Piece(View(text, 15))
    BY <1>6, <1>7
  <2>2. \E v \in Seq(Token) : /\ Piece(View(text, 15)) = Piece(v)
                              /\ Len(v) <= len /\ \A i \in 1 .. Len(v) : v[i] = payload[i]
    <3>1. CASE kept = 15 + len
      <4>1. a.payload = Piece(payload)
        <5>1. a = [p EXCEPT !.payload = Piece(@)]
          BY <1>11, <3>1
        <5> HIDE DEF a
        <5> QED BY <5>1 DEF Packet
      <4> QED BY <1>1, <2>1, <4>1
    <3>2. CASE kept # 15 + len
      <4> DEFINE v == View(text, 15)
      <4>1. 15 \in 1 .. Len(text) + 1 /\ Len(text) = kept
        BY <1>4, <3>2
      <4>2. /\ v \in Seq(Token) /\ Len(v) = Len(text) - 15 + 1
            /\ \A i \in 1 .. Len(text) - 15 + 1 : v[i] = text[15 - 1 + i]
        BY <1>4, <4>1, ViewIs
      <4> HIDE DEF v
      <4>3. Len(v) = kept - 14 /\ kept - 14 <= len /\ kept - 14 \in Nat
        BY <1>1, <3>2, <4>1, <4>2
      <4>4. ASSUME NEW i \in 1 .. Len(v) PROVE v[i] = payload[i]
        <5>1. i \in 1 .. Len(text) - 15 + 1 /\ 15 - 1 + i = 14 + i /\ 14 + i \in 1 .. kept /\ i \in 1 .. len
          BY <1>1, <4>1, <4>3
        <5>2. b[14 + i] = payload[i]
          BY <1>1, <5>1 DEF Written
        <5> QED BY <1>4, <4>2, <5>1, <5>2
      <4> QED BY <4>2, <4>3, <4>4 DEF v
    <3> QED BY <3>1, <3>2
  <2>3. PICK v \in Seq(Token) : /\ Piece(View(text, 15)) = Piece(v)
                                /\ Len(v) <= len /\ \A i \in 1 .. Len(v) : v[i] = payload[i]
    BY <2>2
  <2>4. PICK n \in 0 .. Len(v) : Piece(v) = SubSeq(v, 1, n)
    BY PieceBegins
  <2>5. n \in Nat /\ n <= len /\ SubSeq(v, 1, n) = SubSeq(payload, 1, n)
    <3>1. SubSeq(v, 1, n) = [i \in 1 .. n |-> v[i]] /\ Len(v) \in Nat
      OBVIOUS
    <3>2. n \in Nat /\ n <= len
      BY <1>1, <2>3, <3>1
    <3>3. SubSeq(payload, 1, n) = [i \in 1 .. n |-> payload[i]]
      BY <1>1, <3>2
    <3>4. \A i \in 1 .. n : v[i] = payload[i]
      BY <2>3, <3>1
    <3> QED BY <3>1, <3>2, <3>3, <3>4
  <2> DEFINE x == SubSeq(payload, 1, n)
  <2>6. Len(x) = n /\ SubSeq(x, 1, n) = x
    <3>1. x = [i \in 1 .. n |-> payload[i]] /\ x \in Seq(Token) /\ Len(x) = n
      BY <1>1, <2>5
    <3> HIDE DEF x
    <3>2. SubSeq(x, 1, n) = [i \in 1 .. n |-> x[i]]
      BY <2>5, <3>1
    <3> QED BY <3>1, <3>2
  <2>7. a.payload = x
    BY <2>1, <2>3, <2>4, <2>5
  <2> HIDE DEF a
  <2> QED BY <1>1, <2>5, <2>6, <2>7 DEF IsPrefix
<1> QED BY <1>11, <1>12, <1>13, <1>14 DEF text, part, b

-----------------------------------------------------------------------------
(* Keys as text.                                                           *)

LEMMA Letters ==
    /\ Len(Upper) = 16 /\ Len(Lower) = 6
    /\ \A i, j \in 1 .. 16 : Upper[i] = Upper[j] => i = j
    /\ \A i, j \in 1 .. 6 : Lower[i] = Lower[j] => i = j
    /\ \A i \in 1 .. 16 : Upper[i] # "-" /\ \A j \in 1 .. 6 : Upper[i] # Lower[j]
    /\ \A c : c \in ToSet(Upper) <=> \E i \in 1 .. 16 : c = Upper[i]
    /\ \A c : c \in ToSet(Lower) <=> \E i \in 1 .. 6 : c = Lower[i]
<1>1. Len(Upper) = 16
  BY DEF Upper
<1>2. Len(Lower) = 6
  BY DEF Lower
<1>3. \A i, j \in 1 .. 16 : Upper[i] = Upper[j] => i = j
  BY DEF Upper
<1>4. \A i, j \in 1 .. 6 : Lower[i] = Lower[j] => i = j
  BY DEF Lower
<1>5. \A i \in 1 .. 16 : Upper[i] # "-"
  BY DEF Upper
<1>6. \A i \in 1 .. 16 : \A j \in 1 .. 6 : Upper[i] # Lower[j]
  BY DEF Upper, Lower
<1>7. DOMAIN Upper = 1 .. 16
  BY DEF Upper
<1>8. DOMAIN Lower = 1 .. 6
  BY DEF Lower
<1>9. \A c : c \in ToSet(Upper) <=> \E i \in 1 .. 16 : c = Upper[i]
  BY <1>7 DEF ToSet
<1>10. \A c : c \in ToSet(Lower) <=> \E i \in 1 .. 6 : c = Lower[i]
  BY <1>8 DEF ToSet
<1> QED BY <1>1, <1>2, <1>3, <1>4, <1>5, <1>6, <1>9, <1>10

LEMMA HexDigitIs ==
    /\ \A k \in 1 .. 16 : HexDigit(Upper[k]) = k - 1
    /\ \A k \in 1 .. 6 : HexDigit(Lower[k]) = 9 + k
<1>1. ASSUME NEW k \in 1 .. 16 PROVE HexDigit(Upper[k]) = k - 1
  <2>1. PlaceIn(Upper, Upper[k]) = k
    <3> DEFINE n == 16
    <3>1. n \in Nat /\ AllDiffer(Upper, n) /\ k \in 1 .. n
      BY Letters DEF AllDiffer
    <3> HIDE DEF n
    <3> QED BY <3>1, PlaceOf
  <2>2. Upper[k] \in ToSet(Upper)
    BY Letters
  <2> QED BY <2>1, <2>2 DEF HexDigit, PlaceIn
<1>2. ASSUME NEW k \in 1 .. 6 PROVE HexDigit(Lower[k]) = 9 + k
  <2>1. PlaceIn(Lower, Lower[k]) = k
    <3> DEFINE n == 6
    <3>1. n \in Nat /\ AllDiffer(Lower, n) /\ k \in 1 .. n
      BY Letters DEF AllDiffer
    <3> HIDE DEF n
    <3> QED BY <3>1, PlaceOf
  <2>2. Lower[k] \notin ToSet(Upper)
    BY Letters
  <2> QED BY <2>1, <2>2 DEF HexDigit, PlaceIn
<1> QED BY <1>1, <1>2

LEMMA DigitIs ==
    ASSUME NEW c \in Characters, c # "-"
    PROVE  HexDigit(c) \in 0 .. 15 /\ Upper[HexDigit(c) + 1] = Raised(c)
<1>1. CASE c \in ToSet(Upper)
  <2>1. PICK k \in 1 .. 16 : c = Upper[k]
    BY <1>1, Letters
  <2>2. HexDigit(c) = k - 1 /\ k - 1 \in 0 .. 15 /\ (k - 1) + 1 = k
    BY <2>1, HexDigitIs
  <2>3. c \notin ToSet(Lower)
    BY <2>1, Letters
  <2> QED BY <2>1, <2>2, <2>3 DEF Raised
<1>2. CASE c \in ToSet(Lower)
  <2>1. PICK k \in 1 .. 6 : c = Lower[k]
    BY <1>2, Letters
  <2>2. HexDigit(c) = 9 + k /\ 9 + k \in 0 .. 15
    BY <2>1, HexDigitIs
  <2> QED BY <1>2, <2>2 DEF Raised
<1> QED BY <1>1, <1>2 DEF Characters

LEMMA OctetsAre ==
    ASSUME NEW bytes \in Octets
    PROVE  /\ Len(bytes) \in Nat /\ DOMAIN bytes = 1 .. Len(bytes)
           /\ \A i \in 1 .. Len(bytes) : bytes[i] \in 0 .. 255
<1> DEFINE V == 0 .. 255
<1>1. bytes \in Seq(V)
  BY DEF Octets
<1> HIDE DEF V
<1>2. /\ Len(bytes) \in Nat /\ DOMAIN bytes = 1 .. Len(bytes)
      /\ \A i \in 1 .. Len(bytes) : bytes[i] \in V
  BY <1>1
<1> QED BY <1>2 DEF V

(* What toHex writes.                                                      *)
LEMMA HexIs ==
    ASSUME NEW bytes \in Octets
    PROVE  /\ Hex(bytes) \in Seq(Digits16) /\ Len(Hex(bytes)) = 2 * Len(bytes)
           /\ \A i \in 1 .. Len(bytes) :
                  /\ Hex(bytes)[(2 * i) - 1] = Upper[(bytes[i] \div 16) + 1]
                  /\ Hex(bytes)[2 * i] = Upper[(bytes[i] % 16) + 1]
<1> DEFINE n == Len(bytes)
           high(i) == Upper[(bytes[i] \div 16) + 1]
           low(i) == Upper[(bytes[i] % 16) + 1]
           pairs == [i \in DOMAIN bytes |-> <<high(i), low(i)>>]
           pos == [i \in 1 .. n + 1 |-> (2 * i) - 1]
<1>1. n \in Nat /\ DOMAIN bytes = 1 .. n /\ \A i \in 1 .. n : bytes[i] \in 0 .. 255
  BY OctetsAre
<1>2. \A i \in 1 .. n : high(i) \in Digits16 /\ low(i) \in Digits16
  <2> SUFFICES ASSUME NEW i \in 1 .. n PROVE high(i) \in Digits16 /\ low(i) \in Digits16
    OBVIOUS
  <2>1. (bytes[i] \div 16) + 1 \in 1 .. 16 /\ (bytes[i] % 16) + 1 \in 1 .. 16
    BY <1>1, NibblesAre
  <2> QED BY <2>1, Letters DEF Digits16
<1>3. Hex(bytes) = FlattenSeq(pairs)
  <2>1. ~((2 * n) + 1 < (2 * n) + 1)
    BY <1>1
  <2> QED BY <2>1 DEF Hex, toHex
<1> HIDE DEF high, low, n
<1>4. pairs \in Seq(Seq(Digits16)) /\ Len(pairs) = n
      /\ \A i \in 1 .. n : Len(pairs[i]) = 2 /\ pairs[i][1] = high(i) /\ pairs[i][2] = low(i)
  <2> DEFINE V == Seq(Digits16)
  <2>1. \A i \in 1 .. n : <<high(i), low(i)>> \in V
    BY <1>2
  <2>2. pairs \in [1 .. n -> V] /\ Len(pairs) = n
    <3> HIDE DEF V
    <3> QED BY <1>1, <2>1
  <2>3. pairs \in Seq(V)
    <3> HIDE DEF V, pairs
    <3> QED BY <1>1, <2>2
  <2> QED BY <1>1, <2>2, <2>3
<1> HIDE DEF pairs
<1>5. Placed(pairs, pos)
  <2>1. pos \in [1 .. n + 1 -> Nat] /\ pos[1] = 1
    BY <1>1
  <2>2. ASSUME NEW b \in 1 .. n PROVE pos[b + 1] = pos[b] + Len(pairs[b])
    <3>1. b + 1 \in 1 .. n + 1 /\ b \in 1 .. n + 1 /\ (2 * (b + 1)) - 1 = ((2 * b) - 1) + 2
      BY <1>1
    <3> QED BY <1>4, <3>1
  <2> HIDE DEF pos
  <2> QED BY <1>4, <2>1, <2>2 DEF Placed
<1>6. pos[n + 1] = (2 * n) + 1 /\ \A i \in 1 .. n : pos[i] = (2 * i) - 1
  <2>1. n + 1 \in 1 .. n + 1 /\ (2 * (n + 1)) - 1 = (2 * n) + 1
    BY <1>1
  <2>2. \A i \in 1 .. n : i \in 1 .. n + 1
    BY <1>1
  <2> QED BY <2>1, <2>2
<1> HIDE DEF pos
<1>7. /\ Hex(bytes) \in Seq(Digits16)
      /\ Len(Hex(bytes)) = pos[n + 1] - 1
      /\ \A b \in 1 .. n : \A x \in 1 .. 2 : Hex(bytes)[pos[b] + x - 1] = pairs[b][x]
  <2>1. /\ FlattenSeq(pairs) \in Seq(Digits16)
        /\ Len(FlattenSeq(pairs)) = pos[Len(pairs) + 1] - 1
        /\ \A b \in 1 .. Len(pairs) : \A x \in 1 .. Len(pairs[b]) :
               FlattenSeq(pairs)[pos[b] + x - 1] = pairs[b][x]
    BY <1>4, <1>5, Flat
  <2> QED BY <1>3, <1>4, <2>1
<1>8. Len(Hex(bytes)) = 2 * n
  BY <1>1, <1>6, <1>7
<1>9. ASSUME NEW i \in 1 .. n PROVE Hex(bytes)[(2 * i) - 1] = high(i) /\ Hex(bytes)[2 * i] = low(i)
  <2>1. pos[i] + 1 - 1 = (2 * i) - 1 /\ pos[i] + 2 - 1 = 2 * i /\ 1 \in 1 .. 2 /\ 2 \in 1 .. 2
    BY <1>6
  <2>2. Hex(bytes)[pos[i] + 1 - 1] = pairs[i][1] /\ Hex(bytes)[pos[i] + 2 - 1] = pairs[i][2]
    BY <1>7, <2>1
  <2> QED BY <1>4, <2>1, <2>2
<1> QED BY <1>7, <1>8, <1>9 DEF high, low, n

(* hexToUint8 reads what toHex wrote,                                      *)
LEMMA ReadsHex ==
    ASSUME NEW bytes \in Octets
    PROVE  hexToUint8(Hex(bytes)) = bytes
<1> DEFINE n == Len(bytes)
           text == Hex(bytes)
           v == [i \in 1 .. n |-> (16 * HexDigit(text[(2 * i) - 1])) + HexDigit(text[2 * i])]
<1>1. n \in Nat /\ \A i \in 1 .. n : bytes[i] \in 0 .. 255
  BY OctetsAre
<1>2. /\ text \in Seq(Digits16) /\ Len(text) = 2 * n
      /\ \A i \in 1 .. n : /\ text[(2 * i) - 1] = Upper[(bytes[i] \div 16) + 1]
                           /\ text[2 * i] = Upper[(bytes[i] % 16) + 1]
  BY HexIs
<1> HIDE DEF text
<1>3. \A i \in DOMAIN text : text[i] # "-"
  <2>1. \A i \in DOMAIN text : text[i] \in Digits16
    BY <1>2
  <2> QED BY <2>1, Letters DEF Digits16
<1>4. Len(text) % 2 = 0 /\ Len(text) \div 2 = n
  BY <1>1, <1>2
<1>5. hexToUint8(text) = v
  BY <1>3, <1>4 DEF hexToUint8
<1>6. ASSUME NEW i \in 1 .. n
      PROVE  (16 * HexDigit(text[(2 * i) - 1])) + HexDigit(text[2 * i]) = bytes[i]
  <2> DEFINE h == bytes[i] \div 16
             l == bytes[i] % 16
  <2>1. h + 1 \in 1 .. 16 /\ l + 1 \in 1 .. 16 /\ (16 * h) + l = bytes[i] /\ h \in 0 .. 15 /\ l \in 0 .. 15
    BY <1>1, NibblesAre
  <2> HIDE DEF h, l
  <2>2. text[(2 * i) - 1] = Upper[h + 1] /\ text[2 * i] = Upper[l + 1]
    BY <1>2 DEF h, l
  <2>3. HexDigit(Upper[h + 1]) = (h + 1) - 1 /\ HexDigit(Upper[l + 1]) = (l + 1) - 1
    BY <2>1, HexDigitIs
  <2> QED BY <2>1, <2>2, <2>3
<1>7. v = bytes
  <2>1. bytes = [i \in 1 .. n |-> bytes[i]]
    BY DEF Octets
  <2>2. v = [i \in 1 .. n |-> bytes[i]]
    BY <1>6
  <2> QED BY <2>1, <2>2
<1> QED BY <1>5, <1>7 DEF text

(* and toHex writes what hexToUint8 read, with capital letters.            *)
LEMMA WritesHex ==
    ASSUME NEW text \in Seq(Characters), Len(text) % 2 = 0, "-" \notin ToSet(text)
    PROVE  /\ hexToUint8(text) \in Octets
           /\ Hex(hexToUint8(text)) = [i \in DOMAIN text |-> Raised(text[i])]
<1> DEFINE n == Len(text) \div 2
           high(i) == HexDigit(text[(2 * i) - 1])
           low(i) == HexDigit(text[2 * i])
           v == [i \in 1 .. n |-> (16 * high(i)) + low(i)]
<1>1. n \in Nat /\ Len(text) = 2 * n /\ DOMAIN text = 1 .. 2 * n
      /\ \A j \in 1 .. 2 * n : text[j] \in Characters /\ text[j] # "-"
  <2>1. Len(text) \in Nat /\ DOMAIN text = 1 .. Len(text) /\ \A j \in DOMAIN text : text[j] \in Characters
    OBVIOUS
  <2>2. \A j \in DOMAIN text : text[j] # "-"
    BY DEF ToSet
  <2>3. n \in Nat /\ Len(text) = 2 * n
    <3> DEFINE len == Len(text)
    <3>1. len \in Nat /\ len % 2 = 0
      BY <2>1
    <3> HIDE DEF len
    <3>2. len \div 2 \in Nat /\ len = 2 * (len \div 2)
      BY <3>1
    <3> QED BY <3>2 DEF len
  <2> HIDE DEF n
  <2> QED BY <2>1, <2>2, <2>3
<1>2. hexToUint8(text) = v
  BY <1>1 DEF hexToUint8
<1>3. \A j \in 1 .. 2 * n : HexDigit(text[j]) \in 0 .. 15 /\ Upper[HexDigit(text[j]) + 1] = Raised(text[j])
  BY <1>1, DigitIs
<1> HIDE DEF n
<1>4. \A i \in 1 .. n : (2 * i) - 1 \in 1 .. 2 * n /\ 2 * i \in 1 .. 2 * n
  BY <1>1
<1>5. ASSUME NEW i \in 1 .. n
      PROVE  v[i] \in 0 .. 255 /\ (v[i] \div 16) = high(i) /\ (v[i] % 16) = low(i)
  <2>1. high(i) \in 0 .. 15 /\ low(i) \in 0 .. 15
    BY <1>3, <1>4
  <2> DEFINE h == high(i)
             l == low(i)
             b == (16 * h) + l
  <2>2. v[i] = b /\ h \in 0 .. 15 /\ l \in 0 .. 15
    BY <2>1
  <2> HIDE DEF v, h, l
  <2>3. b \in 0 .. 255 /\ (b \div 16) = h /\ (b % 16) = l
    BY ONLY <2>2, NibblesPut
  <2> HIDE DEF b
  <2> QED BY <2>2, <2>3 DEF h, l
<1>6. v \in Octets /\ Len(v) = n
  <2>1. v \in [1 .. n -> 0 .. 255]
    <3>1. \A i \in 1 .. n : (16 * high(i)) + low(i) \in 0 .. 255
      BY <1>5
    <3> QED BY <3>1
  <2> HIDE DEF v
  <2> QED BY <1>1, <2>1 DEF Octets
<1> HIDE DEF v
<1>7. /\ Hex(v) \in Seq(Digits16) /\ Len(Hex(v)) = 2 * n
      /\ \A i \in 1 .. n : /\ Hex(v)[(2 * i) - 1] = Upper[(v[i] \div 16) + 1]
                           /\ Hex(v)[2 * i] = Upper[(v[i] % 16) + 1]
  BY <1>6, HexIs
<1>8. ASSUME NEW j \in 1 .. 2 * n PROVE Hex(v)[j] = Raised(text[j])
  <2>1. PICK i \in 1 .. n : j = (2 * i) - 1 \/ j = 2 * i
    <3>1. ((j + 1) \div 2) \in 1 .. n /\ (j = (2 * ((j + 1) \div 2)) - 1 \/ j = 2 * ((j + 1) \div 2))
      BY <1>1
    <3> QED BY <3>1
  <2>2. Hex(v)[(2 * i) - 1] = Upper[high(i) + 1] /\ Hex(v)[2 * i] = Upper[low(i) + 1]
    BY <1>5, <1>7
  <2> QED BY <1>3, <1>4, <2>1, <2>2
<1>9. Hex(v) = [j \in 1 .. 2 * n |-> Raised(text[j])]
  <2>1. Hex(v) = [j \in 1 .. Len(Hex(v)) |-> Hex(v)[j]]
    BY <1>7
  <2> QED BY <1>7, <1>8, <2>1
<1> QED BY <1>1, <1>2, <1>6, <1>9

(* The text of the first bytes begins the text of all.                     *)
LEMMA HexBegins ==
    ASSUME NEW bytes \in Octets, NEW n \in 0 .. Len(bytes)
    PROVE  /\ SubSeq(bytes, 1, n) \in Octets
           /\ Hex(SubSeq(bytes, 1, n)) = SubSeq(Hex(bytes), 1, 2 * n)
<1> DEFINE first == SubSeq(bytes, 1, n)
           all == Hex(bytes)
           h == Hex(first)
           s == SubSeq(all, 1, 2 * n)
<1>1. n \in Nat /\ Len(bytes) \in Nat /\ n <= Len(bytes)
  BY DEF Octets
<1>2. first \in Octets /\ Len(first) = n /\ \A i \in 1 .. n : first[i] = bytes[i]
  <2> DEFINE V == 0 .. 255
  <2>1. bytes \in Seq(V)
    BY DEF Octets
  <2> HIDE DEF V
  <2>2. first \in Seq(V) /\ Len(first) = n /\ \A i \in 1 .. n : first[i] = bytes[i]
    BY <1>1, <2>1
  <2> QED BY <2>2 DEF V, Octets
<1> HIDE DEF first
<1>3. /\ all \in Seq(Digits16) /\ Len(all) = 2 * Len(bytes)
      /\ \A i \in 1 .. Len(bytes) : /\ all[(2 * i) - 1] = Upper[(bytes[i] \div 16) + 1]
                                    /\ all[2 * i] = Upper[(bytes[i] % 16) + 1]
  BY HexIs
<1>4. /\ h \in Seq(Digits16) /\ Len(h) = 2 * n
      /\ \A i \in 1 .. n : /\ h[(2 * i) - 1] = Upper[(first[i] \div 16) + 1]
                           /\ h[2 * i] = Upper[(first[i] % 16) + 1]
  BY <1>2, HexIs
<1> HIDE DEF all, h
<1>5. s \in Seq(Digits16) /\ Len(s) = 2 * n /\ \A j \in 1 .. 2 * n : s[j] = all[j]
  BY <1>1, <1>3
<1> HIDE DEF s
<1>6. ASSUME NEW j \in 1 .. 2 * n PROVE h[j] = s[j]
  <2>1. PICK i \in 1 .. n : j = (2 * i) - 1 \/ j = 2 * i
    <3>1. ((j + 1) \div 2) \in 1 .. n /\ (j = (2 * ((j + 1) \div 2)) - 1 \/ j = 2 * ((j + 1) \div 2))
      BY <1>1
    <3> QED BY <3>1
  <2>2. i \in 1 .. Len(bytes)
    BY <1>1
  <2> QED BY <1>2, <1>3, <1>4, <1>5, <2>1, <2>2, ZenonT(40)
<1>7. h = s
  BY <1>4, <1>5, <1>6, SameSequence
<1> QED BY <1>2, <1>7 DEF first, h, s, all

LEMMA KnownIsChosen ==
    ASSUME NEW answers, \A i \in 1 .. Len(answers) : answers[i] \in {"y", "n", "q"}
    PROVE  Known(answers) = Chosen(answers)
<1> DEFINE C == {i \in 1 .. Len(answers) : answers[i] # "q"}
           K == {i \in 1 .. Len(answers) : answers[i] \in {"y", "Y", "n", "N"}}
<1>1. C = K
  OBVIOUS
<1>2. Chosen(answers) = IF C # {} THEN Min(C) ELSE 0
  BY DEF Chosen, SelectInSeq
<1>3. Known(answers) = IF K # {} THEN Min(K) ELSE 0
  BY DEF Known, SelectInSeq
<1> HIDE DEF C, K
<1> QED BY <1>1, <1>2, <1>3

(* The texts of an object.                                                 *)
LEMMA HexTyped ==
    ASSUME NEW bytes \in Octets
    PROVE  Hex(bytes) \in Seq(Characters)
<1>1. Hex(bytes) \in Seq(Digits16) /\ Digits16 \subseteq Characters
  BY HexIs DEF Digits16, Characters
<1>2. ASSUME NEW s \in Seq(Digits16) PROVE s \in Seq(Characters)
  <2>1. s \in [1 .. Len(s) -> Digits16] /\ Len(s) \in Nat
    OBVIOUS
  <2>2. s \in [1 .. Len(s) -> Characters]
    BY <1>1, <2>1, Zenon
  <2> QED BY <2>1, <2>2
<1> QED BY <1>1, <1>2

LEMMA FirstHexIs ==
    ASSUME NEW bytes \in Octets, KeyBytes <= Len(bytes)
    PROVE  /\ FirstHex(bytes, PointerBytes) = SubSeq(Hex(bytes), 1, 2 * PointerBytes)
           /\ FirstHex(bytes, PointerBytes) \in Seq(Characters)
<1> DEFINE n == PointerBytes
<1>1. n \in 0 .. Len(bytes) /\ ~(Len(bytes) < n)
  BY KeyTextAssumption, OctetsAre
<1>2. FirstHex(bytes, n) = Hex(SubSeq(bytes, 1, n))
  BY <1>1 DEF FirstHex
<1> HIDE DEF n
<1>3. /\ SubSeq(bytes, 1, n) \in Octets
      /\ Hex(SubSeq(bytes, 1, n)) = SubSeq(Hex(bytes), 1, 2 * n)
  BY <1>1, HexBegins
<1>4. Hex(SubSeq(bytes, 1, n)) \in Seq(Characters)
  BY <1>3, HexTyped
<1> QED BY <1>2, <1>3, <1>4 DEF n

LEMMA NoNullptr ==
    ASSUME NEW a \in Octets, NEW b \in Octets, NEW c \in Seq(Characters), NEW d \in Seq(Characters)
    PROVE  Nullptr # [public |-> a, private |-> b, publicHex |-> c, privateHex |-> d] /\ a # Nullptr
<1>1. [public |-> a, private |-> b, publicHex |-> c, privateHex |-> d]
          \in [public : Octets, private : Octets,
               publicHex : Seq(Characters), privateHex : Seq(Characters)]
  BY Zenon
<1> QED BY <1>1, NullptrAssumption, Zenon

LEMMA LoginIs ==
    ASSUME NEW k \in KeyPair
    PROVE  LET a == LoginKeys(Hex(k.public), Hex(k.private))
           IN  /\ a # Nullptr /\ a.public = k.public /\ a.private = k.private
               /\ a.publicHex = SubSeq(Hex(k.public), 1, 2 * PointerBytes)
<1> DEFINE p == k.public
           q == k.private
           a == LoginKeys(Hex(p), Hex(q))
           c == FirstHex(p, PointerBytes)
           d == FirstHex(q, PointerBytes)
<1>1. p \in Octets /\ q \in Octets /\ KeyBytes <= Len(p) /\ KeyBytes <= Len(q)
  BY KeyTextAssumption DEF KeyPair
<1> HIDE DEF p, q
<1>2. hexToUint8(Hex(p)) = p /\ hexToUint8(Hex(q)) = q
  BY <1>1, ReadsHex
<1>3. c = SubSeq(Hex(p), 1, 2 * PointerBytes) /\ c \in Seq(Characters) /\ d \in Seq(Characters)
  BY <1>1, FirstHexIs
<1>4. p # Nullptr /\ q # Nullptr
  BY <1>1, NullptrAssumption
<1>5. a = [public |-> p, private |-> q, publicHex |-> c, privateHex |-> d]
  BY <1>2, <1>4 DEF LoginKeys
<1> HIDE DEF c, d, a
<1>6. a # Nullptr
  BY <1>1, <1>3, <1>5, NoNullptr
<1>7. a.public = p /\ a.private = q /\ a.publicHex = c
  BY <1>5
<1> QED BY <1>3, <1>6, <1>7 DEF a, c, p, q

LEMMA NewIs ==
    ASSUME NEW k \in KeyPair
    PROVE  LET a == NewKeys(k.public, k.private)
           IN  /\ a # Nullptr
               /\ hexToUint8(a.publicHex) = k.public /\ hexToUint8(a.privateHex) = k.private
<1> DEFINE p == k.public
           q == k.private
<1>1. p \in Octets /\ q \in Octets
  BY DEF KeyPair
<1> HIDE DEF p, q
<1>2. hexToUint8(Hex(p)) = p /\ hexToUint8(Hex(q)) = q
  BY <1>1, ReadsHex
<1>3. Hex(p) \in Seq(Characters) /\ Hex(q) \in Seq(Characters)
  BY <1>1, HexTyped
<1>4. NewKeys(p, q) # Nullptr
  BY <1>1, <1>3, NoNullptr DEF NewKeys
<1>5. NewKeys(p, q).publicHex = Hex(p) /\ NewKeys(p, q).privateHex = Hex(q)
  BY DEF NewKeys
<1> QED BY <1>2, <1>4, <1>5 DEF p, q

(* Node::createWallet.                                                     *)
LEMMA WalletIs ==
    ASSUME NEW answers, \A i \in 1 .. Len(answers) : answers[i] \in {"y", "n", "q"},
           NEW entered \in KeyPair, NEW made \in KeyPair
    PROVE  LET login == [public |-> Hex(entered.public), private |-> Hex(entered.private)]
               a == createWallet(answers, login, made)
               chosen == Chosen(answers)
           IN  /\ chosen = 0 <=> a = Nullptr
               /\ (chosen # 0 /\ answers[chosen] = "y") =>
                     /\ a.public = entered.public /\ a.private = entered.private
                     /\ a.publicHex = SubSeq(Hex(entered.public), 1, 2 * PointerBytes)
               /\ (chosen # 0 /\ answers[chosen] = "n") =>
                     /\ hexToUint8(a.publicHex) = made.public
                     /\ hexToUint8(a.privateHex) = made.private
<1> DEFINE chosen == Chosen(answers)
           in == LoginKeys(Hex(entered.public), Hex(entered.private))
           new == NewKeys(made.public, made.private)
           login == [public |-> Hex(entered.public), private |-> Hex(entered.private)]
           a == createWallet(answers, login, made)
<1>1. Known(answers) = chosen
  BY KnownIsChosen
<1>2. a = CASE Known(answers) = 0 -> Nullptr
            [] Known(answers) # 0 /\ answers[Known(answers)] \in {"y", "Y"} -> in
            [] OTHER -> new
  BY DEF createWallet, Known
<1>3. /\ in # Nullptr /\ in.public = entered.public /\ in.private = entered.private
      /\ in.publicHex = SubSeq(Hex(entered.public), 1, 2 * PointerBytes)
  BY LoginIs
<1>4. /\ new # Nullptr
      /\ hexToUint8(new.publicHex) = made.public /\ hexToUint8(new.privateHex) = made.private
  BY NewIs
<1> HIDE DEF chosen, in, new, a
<1>5. CASE chosen = 0
  BY <1>1, <1>2, <1>5 DEF chosen, a
<1>6. CASE chosen # 0 /\ answers[chosen] \in {"y", "Y"}
  <2>1. a = in
    BY <1>1, <1>2, <1>6
  <2> QED BY <1>3, <1>6, <2>1 DEF chosen, a
<1>7. CASE chosen # 0 /\ answers[chosen] \notin {"y", "Y"}
  <2>1. a = new
    BY <1>1, <1>2, <1>7
  <2> QED BY <1>4, <1>7, <2>1 DEF chosen, a
<1> QED BY <1>5, <1>6, <1>7

-----------------------------------------------------------------------------
(* Behaviours.                                                             *)

LEMMA MoneyInit == Init => MoneyInv
<1> SUFFICES ASSUME Init PROVE MoneyInv
  OBVIOUS
<1>1. CASE Arithmetic
  BY <1>1 DEF Arithmetic, Pose, MoneyInv, MoneyPosed, MoneyAnswered
<1>2. CASE OnTheCurve
  BY <1>2 DEF OnTheCurve, Pose, MoneyInv, MoneyPosed, MoneyAnswered
<1>3. CASE Formats
  BY <1>3 DEF Formats, Pose, MoneyInv, MoneyPosed, MoneyAnswered
<1>4. CASE Ledger
  BY <1>4 DEF Ledger, Pose, MoneyInv, MoneyPosed, MoneyAnswered
<1>5. CASE Hashing
  BY <1>5 DEF Hashing, Pose, MoneyInv, MoneyPosed, MoneyAnswered
<1> QED BY <1>1, <1>2, <1>3, <1>4, <1>5 DEF Init

LEMMA MoneyStep == MoneyInv /\ [Next]_vars => MoneyInv'
<1> SUFFICES ASSUME MoneyInv, [Next]_vars PROVE MoneyInv'
  OBVIOUS
<1> USE DEF MoneyInv, MoneyPosed, MoneyAnswered, Is, Answer
<1>1. CASE Updates
  BY <1>1 DEF Updates, Made
<1>2. CASE Subsidies
  BY <1>2 DEF Subsidies
<1>3. CASE Balances
  BY <1>3 DEF Balances
<1>4. CASE Sums \/ Products \/ Inverses
  BY <1>4 DEF Sums, Products, Inverses
<1>5. CASE Multiples \/ Decompressions \/ KeysMade \/ Secrets \/ Signings \/ Verifications
  BY <1>5 DEF Multiples, Decompressions, KeysMade, Secrets, Signings, Verifications
<1>6. CASE Readings \/ Wallets \/ TextsRead
  BY <1>6 DEF Readings, Wallets, TextsRead
<1>7. CASE HashesTaken \/ Minings \/ Targets
  BY <1>7 DEF HashesTaken, Minings, Targets
<1>8. CASE UNCHANGED vars
  BY <1>8 DEF vars, Made
<1> QED BY <1>1, <1>2, <1>3, <1>4, <1>5, <1>6, <1>7, <1>8 DEF Next

LEMMA PartiesFinite ==
    ASSUME NEW S, NEW txs \in Seq(S)
    PROVE  IsFiniteSet(Parties(txs))
<1> DEFINE D == DOMAIN txs
           F == {txs[i].from : i \in D}
           T == {txs[i].to : i \in D}
<1>1. IsFiniteSet(D)
  <2>1. D = 1 .. Len(txs) /\ Len(txs) \in Nat
    OBVIOUS
  <2> QED BY <2>1, IndicesFinite
<1> HIDE DEF D
<1>2. [i \in D |-> txs[i].from] \in Surjection(D, F) /\ [i \in D |-> txs[i].to] \in Surjection(D, T)
  BY DEF Surjection
<1>3. IsFiniteSet(F) /\ IsFiniteSet(T)
  <2> HIDE DEF F, T
  <2> QED BY <1>1, <1>2, FS_Surjection
<1>4. IsFiniteSet(F \cup T)
  <2> HIDE DEF F, T
  <2> QED BY <1>3, FS_Union
<1> QED BY <1>4 DEF Parties, D

LEMMA MoneyShown == MoneyInv => MoneyIsKept
<1> SUFFICES ASSUME MoneyInv PROVE MoneyIsKept
  OBVIOUS
<1> USE DEF MoneyInv, MoneyPosed, MoneyAnswered, Solved
<1>1. UpdatesKeepTheTotal
  BY UpdateKeeps DEF UpdatesKeepTheTotal, Made
<1>2. SubsidyHalves
  BY SubsidyIs DEF SubsidyHalves
<1>3. PaymentsCancel
  <2> SUFFICES ASSUME solved, problem.kind = "balances"
               PROVE  ToInt(FoldFunctionOnSet(+, 0, answer, DOMAIN answer)) = 0
    BY DEF PaymentsCancel
  <2> DEFINE txs == problem.txs
             D == Parties(txs)
             all == [a \in D |-> Balance(txs, a)]
  <2>1. txs \in Seq(Payments(D))
    BY LedgersAssumption DEF Payments
  <2>2. IsFiniteSet(D)
    BY <2>1, PartiesFinite
  <2>3. answer = all
    OBVIOUS
  <2>4. ToInt(FoldFunctionOnSet(+, 0, all, DOMAIN all)) = 0
    <3> HIDE DEF txs, D
    <3> QED BY <2>1, <2>2, LedgerCancels
  <2> QED BY <2>3, <2>4
<1> QED BY <1>1, <1>2, <1>3 DEF MoneyIsKept

(* MoneyIsKept, for int and size_t of any widths, any subsidy and interval *)
(* and any ledgers: Transaction::Update makes and loses no money and       *)
(* changes nothing that the balance cannot pay, getBlockSubsidy is halved  *)
(* at every interval and never above the initial subsidy, and the balances *)
(* of calculateBalance add up to 0 modulo the width of an int.             *)
THEOREM MoneyKept == Spec => []MoneyIsKept
<1>1. Spec => []MoneyInv
  BY MoneyInit, MoneyStep, PTL DEF Spec
<1> QED BY <1>1, MoneyShown, PTL

LEMMA HashInit == Init => HashInv
<1> SUFFICES ASSUME Init PROVE HashInv
  OBVIOUS
<1>1. CASE Arithmetic
  BY <1>1 DEF Arithmetic, Pose, HashInv, HashPosed, HashAnswered
<1>2. CASE OnTheCurve
  BY <1>2 DEF OnTheCurve, Pose, HashInv, HashPosed, HashAnswered
<1>3. CASE Formats
  BY <1>3 DEF Formats, Pose, HashInv, HashPosed, HashAnswered
<1>4. CASE Ledger
  BY <1>4 DEF Ledger, Pose, HashInv, HashPosed, HashAnswered
<1>5. CASE Hashing
  <2>1. \A m \in Messages : m \in Seq(Int) /\ Len(m) \in Nat
    <3>1. Byte \subseteq Int
      BY Lengths
    <3>2. ASSUME NEW m \in Seq(Byte) PROVE m \in Seq(Int)
      <4>1. m \in [1 .. Len(m) -> Byte] /\ Len(m) \in Nat
        OBVIOUS
      <4>2. m \in [1 .. Len(m) -> Int]
        BY <3>1, <4>1, Zenon
      <4> QED BY <4>1, <4>2
    <3> QED BY <3>2, MessagesAssumption
  <2>2. ASSUME NEW m \in Messages, NEW cut \in 0 .. Len(m),
               Pose([kind |-> "hash", first |-> SubSeq(m, 1, cut),
                     second |-> SubSeq(m, cut + 1, Len(m))])
        PROVE  HashInv
    <3>1. SubSeq(m, 1, cut) \in Seq(Int) /\ SubSeq(m, cut + 1, Len(m)) \in Seq(Int)
      BY <2>1
    <3> QED BY <2>2, <3>1 DEF Pose, HashInv, HashPosed, HashAnswered
  <2>3. ASSUME NEW m \in Messages, NEW k \in 1 .. 3,
               Pose([kind |-> "mining", texts |-> [i \in 1 .. k |-> Append(m, i)]])
        PROVE  HashInv
    <3> DEFINE V == Seq(Int)
               texts == [i \in 1 .. k |-> Append(m, i)]
    <3>1. \A i \in 1 .. k : Append(m, i) \in V
      BY <2>1
    <3>2. texts \in Seq(V) /\ texts # <<>>
      <4> HIDE DEF V
      <4>1. texts \in [1 .. k -> V] /\ k \in Nat /\ Len(texts) = k /\ k # 0
        BY <3>1
      <4> QED BY <4>1
    <3> QED BY <2>3, <3>2 DEF Pose, HashInv, HashPosed, HashAnswered
  <2>4. ASSUME NEW hash \in HashBytes, NEW rest \in HashBytes,
               NEW d \in 0 .. HashLen * ByteBits - 1,
               Pose([kind |-> "target", hash |-> hash, rest |-> rest, difficulty |-> d])
        PROVE  HashInv
    BY <2>4 DEF Pose, HashInv, HashPosed, HashAnswered
  <2> QED BY <1>5, <2>2, <2>3, <2>4 DEF Hashing, HashBytes
<1> QED BY <1>1, <1>2, <1>3, <1>4, <1>5 DEF Init

LEMMA HashStep == HashInv /\ [Next]_vars => HashInv'
<1> SUFFICES ASSUME HashInv, [Next]_vars PROVE HashInv'
  OBVIOUS
<1> USE DEF HashInv, HashPosed, HashAnswered, Is, Answer
<1>1. CASE HashesTaken
  BY <1>1 DEF HashesTaken, Once
<1>2. CASE Minings
  BY <1>2 DEF Minings
<1>3. CASE Targets
  BY <1>3 DEF Targets
<1>4. CASE Sums \/ Products \/ Inverses
  BY <1>4 DEF Sums, Products, Inverses
<1>5. CASE Multiples \/ Decompressions \/ KeysMade \/ Secrets \/ Signings \/ Verifications
  BY <1>5 DEF Multiples, Decompressions, KeysMade, Secrets, Signings, Verifications
<1>6. CASE Readings \/ Wallets \/ TextsRead
  BY <1>6 DEF Readings, Wallets, TextsRead
<1>7. CASE Updates \/ Subsidies \/ Balances
  BY <1>7 DEF Updates, Subsidies, Balances
<1>8. CASE UNCHANGED vars
  BY <1>8 DEF vars, Once
<1> QED BY <1>1, <1>2, <1>3, <1>4, <1>5, <1>6, <1>7, <1>8 DEF Next

LEMMA HashShown == HashInv => HashesAreStandard
<1> SUFFICES ASSUME HashInv PROVE HashesAreStandard
  OBVIOUS
<1> USE DEF HashInv, HashPosed, HashAnswered, Solved
<1>1. DigestsAreStandard
  <2> SUFFICES ASSUME solved, problem.kind = "hash"
               PROVE  /\ answer.once = Reference(problem.first \o problem.second)
                      /\ answer.twice # Reference(problem.second)
    BY DEF DigestsAreStandard
  <2> DEFINE first == problem.first
             second == problem.second
             u == update(update(Sha, first), second)
  <2>1. first \in Seq(Int) /\ second \in Seq(Int) /\ Len(second) \in Nat /\ Len(second) <= Len(second)
    OBVIOUS
  <2>2. answer.once = Once.state /\ answer.twice = pad(update(Once, second)).state
    BY DEF digest
  <2>3. Once.state = Reference(first \o second)
    BY <2>1, TwoParts DEF Once
  <2>4. Once \in Shas /\ BlockLen <= Filled(Once)
    <3>1. u \in Shas
      <4>1. update(Sha, first) \in Shas
        BY <2>1, Lengths, UpdateFills
      <4> QED BY <2>1, <4>1, UpdateFills
    <3> HIDE DEF u
    <3>2. Once = pad(u)
      BY DEF Once, u
    <3> QED BY <3>1, <3>2, PaddedFills
  <2>5. pad(update(Once, second)).state # Reference(second)
    <3> HIDE DEF second, first
    <3> QED BY <2>1, <2>4, UsedHash
  <2> QED BY <2>2, <2>3, <2>5
<1>2. HashRepeatsAtFirstNonce
  BY MinedOnce DEF HashRepeatsAtFirstNonce
<1>3. EnoughZeros
  <2> SUFFICES ASSUME solved, problem.kind = "target" PROVE EnoughZeros
    BY DEF EnoughZeros
  <2> DEFINE h == problem.hash
             d == problem.difficulty
  <2>1. answer = EndsLoop(h, problem.rest, d) /\ EndsLoop(h, problem.rest, d) \in BOOLEAN
    BY DEF EndsLoop
  <2>2. LET div == d \div ByteBits
            ones == TwoTo[ByteBits - (d % ByteBits)] - 1
        IN  IF EndsLoop(h, problem.rest, d) THEN LeadingZeros(h) >= d
            ELSE LeadingZeros(h) < d \/ h[div] = ones
    BY TargetIs
  <2> QED BY <2>1, <2>2 DEF EnoughZeros
<1> QED BY <1>1, <1>2, <1>3 DEF HashesAreStandard

(* HashesAreStandard, for blocks, bytes and hashes of any lengths and any  *)
(* messages: SHA256::update and pad absorb the published padding of a      *)
(* message handed over in two parts and never that of a message when used  *)
(* again, Block::mineBlock ends with the hash of its own contents at the   *)
(* first nonce only, and its memcmp with a target accepts the zeros of the *)
(* difficulty whatever the target's unwritten rest is.                     *)
THEOREM HashesKept == Spec => []HashesAreStandard
<1>1. Spec => []HashInv
  BY HashInit, HashStep, PTL DEF Spec
<1> QED BY <1>1, HashShown, PTL

LEMMA TokensAre ==
    /\ \A payload \in Payloads : payload \in Seq(Token)
    /\ \A tail \in Tails : tail \in Seq(Token)
<1> DEFINE few == Name \cup {Delimiter}
<1>1. few \subseteq Token /\ Int \cup Name \cup {Delimiter} = Token
  BY DEF Token
<1>2. ASSUME NEW s \in Seq(few) PROVE s \in Seq(Token)
  <2> HIDE DEF few, Token
  <2>1. s \in [1 .. Len(s) -> few] /\ Len(s) \in Nat
    OBVIOUS
  <2>2. s \in [1 .. Len(s) -> Token]
    BY <1>1, <2>1, Zenon
  <2> QED BY <2>1, <2>2
<1>3. Payloads \subseteq Seq(few) /\ Tails \subseteq Seq(Token)
  BY <1>1, PayloadsAssumption
<1> HIDE DEF few
<1> QED BY <1>2, <1>3

LEMMA KeyPairsAre ==
    ASSUME NEW p \in KeyPairs
    PROVE  Pair(p) \in KeyPair
<1> DEFINE V == 0 .. 255
<1>1. p[1] \in [1 .. KeyBytes + 1 -> V] /\ p[2] \in [1 .. KeyBytes -> V]
  BY KeysAndTextsAssumption
<1>2. KeyBytes \in Nat
  BY KeyTextAssumption
<1>3. Octets = Seq(V)
  BY DEF Octets
<1> HIDE DEF V
<1>4. /\ p[1] \in Seq(V) /\ Len(p[1]) = KeyBytes + 1
      /\ p[2] \in Seq(V) /\ Len(p[2]) = KeyBytes
  BY <1>1, <1>2
<1> QED BY <1>3, <1>4 DEF Pair, KeyPair

LEMMA TextInit == Init => TextInv
<1> SUFFICES ASSUME Init PROVE TextInv
  OBVIOUS
<1>1. CASE Arithmetic
  BY <1>1 DEF Arithmetic, Pose, TextInv, TextPosed, TextAnswered
<1>2. CASE OnTheCurve
  BY <1>2 DEF OnTheCurve, Pose, TextInv, TextPosed, TextAnswered
<1>3. CASE Ledger
  BY <1>3 DEF Ledger, Pose, TextInv, TextPosed, TextAnswered
<1>4. CASE Hashing
  BY <1>4 DEF Hashing, Pose, TextInv, TextPosed, TextAnswered
<1>5. CASE Formats
  <2>1. ASSUME NEW type \in 0 .. 3, NEW origin \in Name, NEW destination \in Name,
               NEW payload \in Payloads, NEW tail \in Tails,
               NEW kept \in 0 .. 15 + Len(payload), kept = 15 + Len(payload) \/ tail = <<>>,
               Pose([kind |-> "packet", kept |-> kept, tail |-> tail,
                     packet |-> Packet(type, origin, destination, 1, 2, payload)])
        PROVE  TextInv
    <3>1. type \in Int /\ payload \in Seq(Token) /\ tail \in Seq(Token)
      BY TokensAre
    <3>2. PacketPosed(Packet(type, origin, destination, 1, 2, payload), kept, tail)
      BY <2>1, <3>1 DEF PacketPosed
    <3> QED BY <2>1, <3>2 DEF Pose, TextInv, TextPosed, TextAnswered
  <2>2. ASSUME NEW answers \in SeqOf({"y", "n", "q"}, 2), NEW entered \in KeyPairs, NEW made \in KeyPairs,
               Pose([kind |-> "wallet", answers |-> answers,
                     login |-> [public |-> Hex(entered[1]), private |-> Hex(entered[2])],
                     entered |-> Pair(entered), made |-> Pair(made)])
        PROVE  TextInv
    <3> DEFINE login == [public |-> Hex(entered[1]), private |-> Hex(entered[2])]
    <3>1. \A i \in 1 .. Len(answers) : answers[i] \in {"y", "n", "q"}
      <4>1. PICK m \in 0 .. 2 : answers \in [1 .. m -> {"y", "n", "q"}]
        BY DEF SeqOf
      <4>2. Len(answers) = m
        BY <4>1
      <4> QED BY <4>1, <4>2
    <3>2. WalletPosed(answers, login, Pair(entered), Pair(made))
      BY <3>1, KeyPairsAre DEF WalletPosed, Pair
    <3> QED BY <2>2, <3>2 DEF Pose, TextInv, TextPosed, TextAnswered
  <2>3. ASSUME NEW text \in Texts, Pose([kind |-> "text", text |-> text]) PROVE TextInv
    BY <2>3, KeysAndTextsAssumption DEF Pose, TextInv, TextPosed, TextAnswered
  <2> QED BY <1>5, <2>1, <2>2, <2>3 DEF Formats
<1> QED BY <1>1, <1>2, <1>3, <1>4, <1>5 DEF Init

LEMMA TextStep == TextInv /\ [Next]_vars => TextInv'
<1> SUFFICES ASSUME TextInv, [Next]_vars PROVE TextInv'
  OBVIOUS
<1> USE DEF TextInv, TextPosed, TextAnswered, Is, Answer
<1>1. CASE Readings
  BY <1>1 DEF Readings
<1>2. CASE Wallets
  BY <1>2 DEF Wallets
<1>3. CASE TextsRead
  BY <1>3 DEF TextsRead
<1>4. CASE Sums \/ Products \/ Inverses
  BY <1>4 DEF Sums, Products, Inverses
<1>5. CASE Multiples \/ Decompressions \/ KeysMade \/ Secrets \/ Signings \/ Verifications
  BY <1>5 DEF Multiples, Decompressions, KeysMade, Secrets, Signings, Verifications
<1>6. CASE HashesTaken \/ Minings \/ Targets
  BY <1>6 DEF HashesTaken, Minings, Targets
<1>7. CASE Updates \/ Subsidies \/ Balances
  BY <1>7 DEF Updates, Subsidies, Balances
<1>8. CASE UNCHANGED vars
  BY <1>8 DEF vars
<1> QED BY <1>1, <1>2, <1>3, <1>4, <1>5, <1>6, <1>7, <1>8 DEF Next

LEMMA PacketsShown == TextInv => PacketsReadBack /\ CutPacketsKeepTheirType
<1> SUFFICES ASSUME TextInv, solved, problem.kind = "packet"
             PROVE  PacketsReadBack /\ CutPacketsKeepTheirType
  BY DEF PacketsReadBack, CutPacketsKeepTheirType, Solved
<1> DEFINE packet == problem.packet
           kept == problem.kept
           tail == problem.tail
<1>1. PacketPosed(packet, kept, tail) /\ answer = ReadPacket(SubSeq(buffer(packet), 1, kept) \o tail)
  BY DEF TextInv, TextPosed, TextAnswered
<1>2. PICK type \in Int, origin \in Name, destination \in Name, payload \in Seq(Token) :
          /\ packet = Packet(type, origin, destination, 1, 2, payload)
          /\ tail \in Seq(Token) /\ kept \in 0 .. 15 + Len(payload)
          /\ kept = 15 + Len(payload) \/ tail = <<>>
  BY <1>1 DEF PacketPosed
<1>3. packet.type = type /\ packet.payload = payload /\ packet.payloadSize = Len(payload)
  BY <1>2 DEF Packet
<1> DEFINE a == answer
<1> HIDE DEF packet, kept, tail, a
<1>4. /\ kept = 15 + Len(payload) => a = [packet EXCEPT !.payload = Piece(@)]
      /\ a.type # type => kept < 3 /\ a.type \in {DTP_INDICATOR, DataPacket}
      /\ kept >= 14 => IsPrefix(a.payload, payload)
      /\ kept < 14 => a.payload = IF kept % 2 = 0 THEN <<>> ELSE <<buffer(packet)[kept]>>
  BY <1>1, <1>2, PacketRead DEF a
<1>5. ~(kept >= 14) => kept < 14
  <2>1. Len(payload) \in Nat
    OBVIOUS
  <2> QED BY <1>2, <2>1
<1>6. PacketsReadBack
  BY <1>3, <1>4 DEF PacketsReadBack, packet, kept, a
<1>7. CutPacketsKeepTheirType
  BY <1>3, <1>4, <1>5 DEF CutPacketsKeepTheirType, packet, kept, a
<1> QED BY <1>6, <1>7

LEMMA KeysShown == TextInv => LoginKeepsKeys /\ HexReadsBack
<1> SUFFICES ASSUME TextInv PROVE LoginKeepsKeys /\ HexReadsBack
  OBVIOUS
<1>1. LoginKeepsKeys
  <2> SUFFICES ASSUME solved, problem.kind = "wallet" PROVE LoginKeepsKeys
    BY DEF LoginKeepsKeys, Solved
  <2> DEFINE answers == problem.answers
             login == problem.login
             entered == problem.entered
             made == problem.made
             chosen == Chosen(answers)
             a == answer
  <2>1. WalletPosed(answers, login, entered, made) /\ a = createWallet(answers, login, made)
    BY DEF TextInv, TextPosed, TextAnswered
  <2> HIDE DEF answers, login, entered, made, a
  <2>2. /\ chosen = 0 <=> a = Nullptr
        /\ (chosen # 0 /\ answers[chosen] = "y") =>
              /\ a.public = entered.public /\ a.private = entered.private
              /\ a.publicHex = SubSeq(Hex(entered.public), 1, 2 * PointerBytes)
        /\ (chosen # 0 /\ answers[chosen] = "n") =>
              /\ hexToUint8(a.publicHex) = made.public
              /\ hexToUint8(a.privateHex) = made.private
    BY <2>1, WalletIs DEF WalletPosed
  <2>3. entered = [public |-> entered.public, private |-> entered.private]
    BY <2>1 DEF WalletPosed, KeyPair
  <2> HIDE DEF chosen
  <2>4. chosen = SelectInSeq(problem.answers, LAMBDA x : x # "q")
    BY DEF chosen, Chosen, answers
  <2> QED BY <2>2, <2>3, <2>4 DEF LoginKeepsKeys, a, answers, entered, made
<1>2. HexReadsBack
  <2> SUFFICES ASSUME solved, problem.kind = "text" PROVE HexReadsBack
    BY DEF HexReadsBack, Solved
  <2> DEFINE text == problem.text
             plain == [i \in DOMAIN text |-> Raised(text[i])]
  <2>1. text \in Seq(Characters) /\ answer = hexToUint8(text) /\ Len(text) \in Nat
    BY DEF TextInv, TextPosed, TextAnswered
  <2>2. plain = [i \in DOMAIN text |-> IF text[i] \in ToSet(Lower)
                                       THEN Upper[HexDigit(text[i]) + 1] ELSE text[i]]
    BY DEF Raised
  <2> HIDE DEF text, plain
  <2>3. CASE Len(text) % 2 = 0 /\ "-" \notin ToSet(text)
    <3>1. hexToUint8(text) \in Octets /\ Hex(hexToUint8(text)) = plain
      BY <2>1, <2>3, WritesHex DEF plain
    <3>2. answer # Nullptr /\ Hex(answer) = plain
      BY <2>1, <3>1, NullptrAssumption
    <3> QED BY <2>2, <3>2 DEF HexReadsBack, text
  <2>4. CASE Len(text) % 2 # 0 \/ "-" \in ToSet(text)
    <3>2. Len(text) % 2 # 0 \/ \E i \in DOMAIN text : text[i] = "-"
      BY <2>4 DEF ToSet
    <3>3. answer = Nullptr
      BY <2>1, <3>2 DEF hexToUint8
    <3>4. Len(text) % 2 = 1 \/ "-" \in ToSet(text)
      <4> DEFINE len == Len(text)
      <4>1. len \in Nat /\ (len % 2 # 0 \/ "-" \in ToSet(text))
        BY <2>1, <2>4
      <4> HIDE DEF len
      <4>2. len % 2 # 0 => len % 2 = 1
        BY <4>1
      <4> QED BY <4>1, <4>2 DEF len
    <3> QED BY <3>3, <3>4 DEF HexReadsBack, text
  <2> QED BY <2>3, <2>4
<1> QED BY <1>1, <1>2

LEMMA TransactionsShown == MoneyInv => TransactionsReadBack
<1> SUFFICES ASSUME MoneyInv, solved, problem.kind = "transaction" PROVE TransactionsReadBack
  BY DEF TransactionsReadBack, Solved
<1> DEFINE t == answer.t
           before == problem.before
<1>1. /\ t \in Transactions /\ t.in.balance = ToInt(before) /\ before \in Size
      /\ ToSize(t.out.amount + t.out.balance) = before
  BY UpdateTyped, UpdateKeeps DEF MoneyInv, MoneyPosed, MoneyAnswered, Made
<1> HIDE DEF t, before
<1>2. \/ t.out.amount \notin IntRange \/ before \notin IntRange
      \/ ReadBackTx(t) = t
  BY <1>1, ReadsBack
<1> QED BY <1>1, <1>2 DEF TransactionsReadBack, t

(* TextsReadBack, for any names, payloads and remains of the buffer, keys  *)
(* of any length and texts, and int and size_t of any widths: a packet is  *)
(* read back whole, and cut it keeps its type once that has arrived; the   *)
(* dialogue of Node::createWallet logs in with the keys that were entered; *)
(* hexToUint8 and toHex undo each other; and a transaction that fits an    *)
(* int is read back as it was written.                                     *)
THEOREM TextsKept == Spec => []TextsReadBack
<1>1. Spec => []TextInv
  BY TextInit, TextStep, PTL DEF Spec
<1>2. Spec => []MoneyInv
  BY MoneyInit, MoneyStep, PTL DEF Spec
<1>3. TextInv /\ MoneyInv => TextsReadBack
  BY PacketsShown, KeysShown, TransactionsShown DEF TextsReadBack
<1> QED BY <1>1, <1>2, <1>3, PTL

LEMMA WordSizes ==
    /\ HalfBits \in Nat /\ HalfBits >= 1
    /\ W \in Nat \ {0} /\ W >= 2
    /\ Base \in Nat \ {0} /\ Base >= 4 /\ Base = TwoTo[2 * HalfBits] /\ Base = W * W
    /\ Base2 \in Nat \ {0} /\ Base3 \in Nat \ {0} /\ Base4 \in Nat \ {0}
    /\ Base >= 2 * W
<1>1. HalfBits \in Nat /\ HalfBits >= 1 /\ HalfBits - 1 \in Nat
  BY VliAssumption
<1>2. W \in Nat \ {0} /\ W >= 2
  <2>1. TwoTo[(HalfBits - 1) + 1] = 2 * TwoTo[HalfBits - 1] /\ TwoTo[HalfBits - 1] \in Nat \ {0}
    BY <1>1, Powers
  <2>2. (HalfBits - 1) + 1 = HalfBits
    BY <1>1
  <2> QED BY <2>1, <2>2 DEF W
<1>3. Base = TwoTo[2 * HalfBits]
  <2>1. TwoTo[HalfBits + HalfBits] = TwoTo[HalfBits] * TwoTo[HalfBits]
    BY <1>1, PowersMultiply
  <2>2. HalfBits + HalfBits = 2 * HalfBits
    BY <1>1
  <2> QED BY <2>1, <2>2 DEF W, Base
<1>4. W * 2 <= W * W /\ W * W \in Nat /\ W * 2 = 2 * W
  BY <1>2, TimesGrows
<1>5. Base \in Nat \ {0} /\ Base >= 4 /\ Base = W * W /\ Base >= 2 * W
  BY <1>2, <1>4 DEF Base
<1>6. ASSUME NEW x \in Nat \ {0} PROVE Base * x \in Nat \ {0}
  <2>1. (Base * 0) + Base <= Base * x /\ Base * 0 = 0 /\ Base * x \in Nat
    BY <1>5, TimesGrows
  <2> QED BY <1>5, <2>1
<1>7. Base2 \in Nat \ {0} /\ Base3 \in Nat \ {0} /\ Base4 \in Nat \ {0}
  <2>1. Base2 \in Nat \ {0}
    BY <1>5, <1>6 DEF Base2
  <2>2. Base3 \in Nat \ {0}
    BY <1>6, <2>1 DEF Base3
  <2>3. Base4 \in Nat \ {0}
    BY <1>6, <2>2 DEF Base4
  <2> QED BY <2>1, <2>2, <2>3
<1> QED BY <1>1, <1>2, <1>3, <1>5, <1>7

LEMMA PowersOfBase ==
    /\ TwoTo[2 * HalfBits * 0] = 1 /\ TwoTo[2 * HalfBits * 1] = Base
    /\ TwoTo[2 * HalfBits * 2] = Base2 /\ TwoTo[2 * HalfBits * 3] = Base3
    /\ TwoTo[2 * HalfBits * 4] = Base4 /\ TwoTo[2 * HalfBits * Digits] = Base4
<1>1. HalfBits \in Nat /\ Base = TwoTo[2 * HalfBits] /\ 2 * HalfBits \in Nat
  BY WordSizes
<1>2. 2 * HalfBits * 0 = 0 /\ 2 * HalfBits * 1 = 2 * HalfBits
      /\ 2 * HalfBits * 2 = (2 * HalfBits) + (2 * HalfBits)
      /\ 2 * HalfBits * 3 = (2 * HalfBits) + ((2 * HalfBits) + (2 * HalfBits))
      /\ 2 * HalfBits * 4 = (2 * HalfBits) + ((2 * HalfBits) + ((2 * HalfBits) + (2 * HalfBits)))
  BY <1>1
<1>3. TwoTo[(2 * HalfBits) + (2 * HalfBits)] = Base2
  BY <1>1, PowersMultiply DEF Base2
<1>4. TwoTo[(2 * HalfBits) + ((2 * HalfBits) + (2 * HalfBits))] = Base3
  BY <1>1, <1>3, PowersMultiply DEF Base3
<1>5. TwoTo[(2 * HalfBits) + ((2 * HalfBits) + ((2 * HalfBits) + (2 * HalfBits)))] = Base4
  BY <1>1, <1>4, PowersMultiply DEF Base4
<1> QED BY <1>1, <1>2, <1>3, <1>4, <1>5, Powers DEF Digits

LEMMA PlacesAre == Places = {0, 1, 2, 3} /\ Digits = 4
BY DEF Places, Digits

LEMMA VliIs ==
    ASSUME NEW v \in Vlis
    PROVE  /\ v[0] \in Word /\ v[1] \in Word /\ v[2] \in Word /\ v[3] \in Word
           /\ v = [i \in Places |-> v[i]] /\ DOMAIN v = Places
BY PlacesAre DEF Vlis, Word

LEMMA WordsAre ==
    ASSUME NEW a \in Word, NEW b \in Word, NEW c \in Word, NEW d \in Word
    PROVE  /\ Words(a, b, c, d) \in Vlis
           /\ Words(a, b, c, d)[0] = a /\ Words(a, b, c, d)[1] = b
           /\ Words(a, b, c, d)[2] = c /\ Words(a, b, c, d)[3] = d
<1>1. \A i \in Places : <<a, b, c, d>>[i + 1] \in Word
  BY PlacesAre
<1> QED BY <1>1, PlacesAre DEF Words, Vlis, Word

(* A vli is a number below Base4, and no other vli is that number.         *)
LEMMA ValueIs ==
    ASSUME NEW v \in Vlis
    PROVE  /\ From3(v) \in 0 .. Base - 1 /\ From2(v) \in 0 .. Base2 - 1
           /\ From1(v) \in 0 .. Base3 - 1 /\ Value(v) \in 0 .. Base4 - 1
           /\ Value(v) = v[0] + (Base * From1(v))
<1>1. Base \in Nat \ {0} /\ Base2 \in Nat \ {0} /\ Base3 \in Nat \ {0}
  BY WordSizes
<1>2. v[0] \in 0 .. Base - 1 /\ v[1] \in 0 .. Base - 1 /\ v[2] \in 0 .. Base - 1 /\ v[3] \in 0 .. Base - 1
  BY VliIs DEF Word
<1>3. From3(v) \in 0 .. Base - 1 /\ From3(v) \in Int
  BY <1>2 DEF From3
<1>4. From2(v) \in 0 .. Base2 - 1
  <2>1. v[2] + (Base * From3(v)) \in 0 .. (Base * Base) - 1
    BY ONLY <1>1, <1>2, <1>3, PartsBelow
  <2> QED BY <2>1 DEF From2, Base2
<1>5. From1(v) \in 0 .. Base3 - 1
  <2>1. v[1] + (Base * From2(v)) \in 0 .. (Base * Base2) - 1
    BY ONLY <1>1, <1>2, <1>4, PartsBelow
  <2> QED BY <2>1 DEF From1, Base3
<1>6. Value(v) = v[0] + (Base * From1(v))
  BY DEF Value, From1, From2, From3
<1>7. v[0] + (Base * From1(v)) \in 0 .. Base4 - 1
  <2>1. v[0] + (Base * From1(v)) \in 0 .. (Base * Base3) - 1
    BY ONLY <1>1, <1>2, <1>5, PartsBelow
  <2> QED BY <2>1 DEF Base4
<1> QED BY <1>3, <1>4, <1>5, <1>6, <1>7

LEMMA ValueOrder ==
    ASSUME NEW l \in Vlis, NEW r \in Vlis
    PROVE  /\ Value(l) = Value(r) <=> l = r
           /\ Value(l) < Value(r) <=>
                  \/ l[3] < r[3]
                  \/ l[3] = r[3] /\ l[2] < r[2]
                  \/ l[3] = r[3] /\ l[2] = r[2] /\ l[1] < r[1]
                  \/ l[3] = r[3] /\ l[2] = r[2] /\ l[1] = r[1] /\ l[0] < r[0]
<1>1. Base \in Nat \ {0}
  BY WordSizes
<1>2. /\ \A i \in {0, 1, 2, 3} : l[i] \in 0 .. Base - 1 /\ r[i] \in 0 .. Base - 1
      /\ l = [i \in Places |-> l[i]] /\ r = [i \in Places |-> r[i]]
  BY VliIs DEF Word
<1>3. /\ From3(l) \in Int /\ From3(r) \in Int /\ From2(l) \in Int /\ From2(r) \in Int
      /\ From1(l) \in Int /\ From1(r) \in Int
      /\ Value(l) = l[0] + (Base * From1(l)) /\ Value(r) = r[0] + (Base * From1(r))
  BY ValueIs
<1>4. /\ From2(l) < From2(r) <=> l[3] < r[3] \/ (l[3] = r[3] /\ l[2] < r[2])
      /\ From2(l) = From2(r) <=> l[3] = r[3] /\ l[2] = r[2]
  <2> DEFINE a == l[2]
             b == r[2]
             c == l[3]
             d == r[3]
  <2>1. /\ a \in 0 .. Base - 1 /\ b \in 0 .. Base - 1 /\ c \in Int /\ d \in Int
        /\ From2(l) = a + (Base * c) /\ From2(r) = b + (Base * d)
    BY <1>1, <1>2 DEF From2, From3
  <2> HIDE DEF a, b, c, d
  <2>2. /\ a + (Base * c) < b + (Base * d) <=> c < d \/ (c = d /\ a < b)
        /\ a + (Base * c) = b + (Base * d) <=> c = d /\ a = b
    BY ONLY <1>1, <2>1, PartsOrder
  <2> QED BY ONLY <2>1, <2>2 DEF a, b, c, d
<1>5. /\ From1(l) < From1(r) <=> From2(l) < From2(r) \/ (From2(l) = From2(r) /\ l[1] < r[1])
      /\ From1(l) = From1(r) <=> From2(l) = From2(r) /\ l[1] = r[1]
  <2> DEFINE a == l[1]
             b == r[1]
             c == From2(l)
             d == From2(r)
  <2>1. /\ a \in 0 .. Base - 1 /\ b \in 0 .. Base - 1 /\ c \in Int /\ d \in Int
        /\ From1(l) = a + (Base * c) /\ From1(r) = b + (Base * d)
    BY <1>2, <1>3 DEF From1
  <2> HIDE DEF a, b, c, d
  <2>2. /\ a + (Base * c) < b + (Base * d) <=> c < d \/ (c = d /\ a < b)
        /\ a + (Base * c) = b + (Base * d) <=> c = d /\ a = b
    BY ONLY <1>1, <2>1, PartsOrder
  <2> QED BY ONLY <2>1, <2>2 DEF a, b, c, d
<1>6. /\ Value(l) < Value(r) <=> From1(l) < From1(r) \/ (From1(l) = From1(r) /\ l[0] < r[0])
      /\ Value(l) = Value(r) <=> From1(l) = From1(r) /\ l[0] = r[0]
  <2> DEFINE a == l[0]
             b == r[0]
             c == From1(l)
             d == From1(r)
  <2>1. /\ a \in 0 .. Base - 1 /\ b \in 0 .. Base - 1 /\ c \in Int /\ d \in Int
        /\ Value(l) = a + (Base * c) /\ Value(r) = b + (Base * d)
    BY <1>2, <1>3
  <2> HIDE DEF a, b, c, d
  <2>2. /\ a + (Base * c) < b + (Base * d) <=> c < d \/ (c = d /\ a < b)
        /\ a + (Base * c) = b + (Base * d) <=> c = d /\ a = b
    BY ONLY <1>1, <2>1, PartsOrder
  <2> QED BY ONLY <2>1, <2>2 DEF a, b, c, d
<1>7. (l[0] = r[0] /\ l[1] = r[1] /\ l[2] = r[2] /\ l[3] = r[3]) <=> l = r
  BY <1>2, PlacesAre
<1> QED BY <1>4, <1>5, <1>6, <1>7

-----------------------------------------------------------------------------
(* Carries.                                                                *)

LEMMA WordSum ==
    ASSUME NEW a \in Word, NEW b \in Word, NEW c \in Carry
    PROVE  /\ Low(a + b + c) \in Word /\ Handed(a, b, c) \in Carry
           /\ Low(a + b + c) + (Base * Handed(a, b, c)) = a + b + c
<1>1. Base \in Nat \ {0} /\ a \in 0 .. Base - 1 /\ b \in 0 .. Base - 1 /\ c \in {0, 1}
  BY WordSizes DEF Word, Carry
<1> DEFINE m == Base
           n == a + b + c
           s == Low(n)
<1>2. n \in Int /\ \A q \in Int : \A r \in 0 .. m - 1 : n = (m * q) + r => (n % m) = r /\ (n \div m) = q
  <2>1. n \in Int
    BY <1>1
  <2>2. m \in Nat \ {0}
    BY <1>1
  <2> HIDE DEF n, m
  <2> QED BY ONLY <2>1, <2>2, Division
<1>3. CASE n < m
  <2>1. n = (m * 0) + n /\ n \in 0 .. m - 1
    BY <1>1, <1>3
  <2>2. s = n
    BY <1>2, <2>1 DEF Low
  <2>3. Handed(a, b, c) = 0
    BY <1>1, <1>3, <2>2 DEF Handed, Bit
  <2>4. m * 0 = 0
    BY <1>1
  <2> QED BY <1>1, <1>3, <2>2, <2>3, <2>4 DEF Word, Carry
<1>4. CASE n >= m
  <2>1. n = (m * 1) + (n - m) /\ n - m \in 0 .. m - 1 /\ 1 \in Int
    BY <1>1, <1>4
  <2>2. s = n - m
    BY <1>2, <2>1 DEF Low
  <2>3. Handed(a, b, c) = 1
    BY <1>1, <1>4, <2>2 DEF Handed, Bit
  <2>4. m * 1 = m
    BY <1>1
  <2> QED BY <1>1, <1>4, <2>1, <2>2, <2>3, <2>4 DEF Word, Carry
<1> QED BY <1>1, <1>3, <1>4

LEMMA WordDifference ==
    ASSUME NEW a \in Word, NEW b \in Word, NEW c \in Carry
    PROVE  /\ Low(a - b - c) \in Word /\ Lent(a, b, c) \in Carry
           /\ Low(a - b - c) - (Base * Lent(a, b, c)) = a - b - c
<1>1. Base \in Nat \ {0} /\ a \in 0 .. Base - 1 /\ b \in 0 .. Base - 1 /\ c \in {0, 1}
  BY WordSizes DEF Word, Carry
<1> DEFINE m == Base
           n == a - b - c
           s == Low(n)
<1>2. n \in Int /\ \A q \in Int : \A r \in 0 .. m - 1 : n = (m * q) + r => (n % m) = r /\ (n \div m) = q
  <2>1. n \in Int
    BY <1>1
  <2>2. m \in Nat \ {0}
    BY <1>1
  <2> HIDE DEF n, m
  <2> QED BY ONLY <2>1, <2>2, Division
<1>3. CASE n >= 0
  <2>1. n = (m * 0) + n /\ n \in 0 .. m - 1
    BY <1>1, <1>3
  <2>2. s = n
    BY <1>2, <2>1 DEF Low
  <2>3. Lent(a, b, c) = 0
    BY <1>1, <1>3, <2>2 DEF Lent, Bit
  <2>4. m * 0 = 0
    BY <1>1
  <2> QED BY <1>1, <1>3, <2>2, <2>3, <2>4 DEF Word, Carry
<1>4. CASE n < 0
  <2>1. n = (m * (-1)) + (n + m) /\ n + m \in 0 .. m - 1 /\ -1 \in Int
    BY <1>1, <1>4
  <2>2. s = n + m
    BY <1>2, <2>1 DEF Low
  <2>3. Lent(a, b, c) = 1
    BY <1>1, <1>4, <2>2 DEF Lent, Bit
  <2>4. m * 1 = m
    BY <1>1
  <2> QED BY <1>1, <1>4, <2>1, <2>2, <2>3, <2>4 DEF Word, Carry
<1> QED BY <1>1, <1>3, <1>4

LEMMA AddByCarries ==
    ASSUME NEW l, NEW r
    PROVE  LET c == AddCarries(l, r)
           IN vli_add(l, r) = [digits |-> Words(Low(l[0] + r[0] + c[0]), Low(l[1] + r[1] + c[1]),
                                                Low(l[2] + r[2] + c[2]), Low(l[3] + r[3] + c[3])),
                               carry |-> c[Digits]]
BY DEF vli_add, AddCarries, AddCarry

LEMMA SubByBorrows ==
    ASSUME NEW l, NEW r
    PROVE  LET c == SubBorrows(l, r)
           IN vli_sub(l, r) = [digits |-> Words(Low(l[0] - r[0] - c[0]), Low(l[1] - r[1] - c[1]),
                                                Low(l[2] - r[2] - c[2]), Low(l[3] - r[3] - c[3])),
                               carry |-> c[Digits]]
BY DEF vli_sub, SubBorrows, SubBorrow

LEMMA AddCarriesAre ==
    ASSUME NEW l \in Vlis, NEW r \in Vlis
    PROVE  LET c == AddCarries(l, r)
           IN /\ c[0] = 0 /\ c[0] \in Carry /\ c[1] \in Carry /\ c[2] \in Carry
              /\ c[3] \in Carry /\ c[4] \in Carry
              /\ c[1] = Handed(l[0], r[0], c[0]) /\ c[2] = Handed(l[1], r[1], c[1])
              /\ c[3] = Handed(l[2], r[2], c[2]) /\ c[4] = Handed(l[3], r[3], c[3])
<1> DEFINE c == AddCarries(l, r)
           step == [p \in (1 .. 4) \X Carry |-> Handed(l[p[1] - 1], r[p[1] - 1], p[2])]
<1>1. \A i \in 1 .. 4 : \A b \in Carry : Handed(l[i - 1], r[i - 1], b) \in Carry
  <2>1. \A i \in 1 .. 4 : l[i - 1] \in Word /\ r[i - 1] \in Word
    BY VliIs
  <2> QED BY <2>1, WordSum
<1>2. step \in [(1 .. 4) \X Carry -> Carry]
  BY <1>1
<1>3. \A i \in 1 .. 4 : \A b \in Carry : step[<<i, b>>] = Handed(l[i - 1], r[i - 1], b)
  OBVIOUS
<1> HIDE DEF step
<1>4. PICK f \in [0 .. 4 -> Carry] : Chained(f, 4, 0, step)
  <2>1. 0 \in Carry
    BY DEF Carry
  <2> QED BY <1>2, <2>1, Chain
<1>5. f = [i \in 0 .. Digits |-> AddCarry(l, r, f, i)]
  <2>1. ASSUME NEW i \in 0 .. 4, i # 0 PROVE f[i] = AddCarry(l, r, f, i)
    <3>1. i \in 1 .. 4 /\ f[i - 1] \in Carry
      BY <2>1
    <3>2. f[i] = step[<<i, f[i - 1]>>]
      BY <1>4, <2>1 DEF Chained
    <3>3. f[i] = Handed(l[i - 1], r[i - 1], f[i - 1])
      BY <1>3, <3>1, <3>2
    <3> QED BY <2>1, <3>3 DEF Handed, AddCarry
  <2>2. f[0] = AddCarry(l, r, f, 0)
    BY <1>4 DEF Chained, AddCarry
  <2>3. \A i \in 0 .. 4 : f[i] = AddCarry(l, r, f, i)
    BY <2>1, <2>2
  <2>4. f = [i \in 0 .. 4 |-> f[i]]
    OBVIOUS
  <2> QED BY <2>3, <2>4, PlacesAre
<1>6. c = [i \in 0 .. Digits |-> AddCarry(l, r, c, i)]
  BY <1>5 DEF AddCarries
<1> HIDE DEF c
<1>7. c[0] = 0 /\ \A i \in 1 .. 4 : c[i] = Handed(l[i - 1], r[i - 1], c[i - 1])
  <2>1. \A i \in 0 .. 4 : c[i] = AddCarry(l, r, c, i)
    BY <1>6, PlacesAre
  <2>2. c[0] = 0
    BY <2>1 DEF AddCarry
  <2>3. ASSUME NEW i \in 1 .. 4 PROVE c[i] = Handed(l[i - 1], r[i - 1], c[i - 1])
    <3>1. i \in 0 .. 4 /\ i # 0
      OBVIOUS
    <3> QED BY <2>1, <3>1 DEF AddCarry, Handed
  <2> QED BY <2>2, <2>3
<1>8. c[0] \in Carry
  BY <1>7 DEF Carry
<1>9. \A i \in 1 .. 4 : c[i - 1] \in Carry => c[i] \in Carry
  BY <1>1, <1>7
<1>10. /\ c[1] = Handed(l[0], r[0], c[0]) /\ c[2] = Handed(l[1], r[1], c[1])
       /\ c[3] = Handed(l[2], r[2], c[2]) /\ c[4] = Handed(l[3], r[3], c[3])
  <2>1. 1 - 1 = 0 /\ 2 - 1 = 1 /\ 3 - 1 = 2 /\ 4 - 1 = 3
    OBVIOUS
  <2> QED BY <1>7, <2>1
<1>11. c[1] \in Carry /\ c[2] \in Carry /\ c[3] \in Carry /\ c[4] \in Carry
  BY <1>1, <1>8, <1>10
<1> QED BY <1>7, <1>8, <1>10, <1>11 DEF c

LEMMA SubBorrowsAre ==
    ASSUME NEW l \in Vlis, NEW r \in Vlis
    PROVE  LET c == SubBorrows(l, r)
           IN /\ c[0] = 0 /\ c[0] \in Carry /\ c[1] \in Carry /\ c[2] \in Carry
              /\ c[3] \in Carry /\ c[4] \in Carry
              /\ c[1] = Lent(l[0], r[0], c[0]) /\ c[2] = Lent(l[1], r[1], c[1])
              /\ c[3] = Lent(l[2], r[2], c[2]) /\ c[4] = Lent(l[3], r[3], c[3])
<1> DEFINE c == SubBorrows(l, r)
           step == [p \in (1 .. 4) \X Carry |-> Lent(l[p[1] - 1], r[p[1] - 1], p[2])]
<1>1. \A i \in 1 .. 4 : \A b \in Carry : Lent(l[i - 1], r[i - 1], b) \in Carry
  <2>1. \A i \in 1 .. 4 : l[i - 1] \in Word /\ r[i - 1] \in Word
    BY VliIs
  <2> QED BY <2>1, WordDifference
<1>2. step \in [(1 .. 4) \X Carry -> Carry]
  BY <1>1
<1>3. \A i \in 1 .. 4 : \A b \in Carry : step[<<i, b>>] = Lent(l[i - 1], r[i - 1], b)
  OBVIOUS
<1> HIDE DEF step
<1>4. PICK f \in [0 .. 4 -> Carry] : Chained(f, 4, 0, step)
  <2>1. 0 \in Carry
    BY DEF Carry
  <2> QED BY <1>2, <2>1, Chain
<1>5. f = [i \in 0 .. Digits |-> SubBorrow(l, r, f, i)]
  <2>1. ASSUME NEW i \in 0 .. 4, i # 0 PROVE f[i] = SubBorrow(l, r, f, i)
    <3>1. i \in 1 .. 4 /\ f[i - 1] \in Carry
      BY <2>1
    <3>2. f[i] = step[<<i, f[i - 1]>>]
      BY <1>4, <2>1 DEF Chained
    <3>3. f[i] = Lent(l[i - 1], r[i - 1], f[i - 1])
      BY <1>3, <3>1, <3>2
    <3> QED BY <2>1, <3>3 DEF Lent, SubBorrow
  <2>2. f[0] = SubBorrow(l, r, f, 0)
    BY <1>4 DEF Chained, SubBorrow
  <2>3. \A i \in 0 .. 4 : f[i] = SubBorrow(l, r, f, i)
    BY <2>1, <2>2
  <2>4. f = [i \in 0 .. 4 |-> f[i]]
    OBVIOUS
  <2> QED BY <2>3, <2>4, PlacesAre
<1>6. c = [i \in 0 .. Digits |-> SubBorrow(l, r, c, i)]
  BY <1>5 DEF SubBorrows
<1> HIDE DEF c
<1>7. c[0] = 0 /\ \A i \in 1 .. 4 : c[i] = Lent(l[i - 1], r[i - 1], c[i - 1])
  <2>1. \A i \in 0 .. 4 : c[i] = SubBorrow(l, r, c, i)
    BY <1>6, PlacesAre
  <2>2. c[0] = 0
    BY <2>1 DEF SubBorrow
  <2>3. ASSUME NEW i \in 1 .. 4 PROVE c[i] = Lent(l[i - 1], r[i - 1], c[i - 1])
    <3>1. i \in 0 .. 4 /\ i # 0
      OBVIOUS
    <3> QED BY <2>1, <3>1 DEF SubBorrow, Lent
  <2> QED BY <2>2, <2>3
<1>8. c[0] \in Carry
  BY <1>7 DEF Carry
<1>10. /\ c[1] = Lent(l[0], r[0], c[0]) /\ c[2] = Lent(l[1], r[1], c[1])
       /\ c[3] = Lent(l[2], r[2], c[2]) /\ c[4] = Lent(l[3], r[3], c[3])
  <2>1. 1 - 1 = 0 /\ 2 - 1 = 1 /\ 3 - 1 = 2 /\ 4 - 1 = 3
    OBVIOUS
  <2> QED BY <1>7, <2>1
<1>11. c[1] \in Carry /\ c[2] \in Carry /\ c[3] \in Carry /\ c[4] \in Carry
  <2>1. \A i \in 1 .. 4 : c[i - 1] \in Carry => c[i] \in Carry
    BY <1>1, <1>7
  <2> QED BY <1>1, <1>8, <1>10, <2>1
<1> QED BY <1>7, <1>8, <1>10, <1>11 DEF c

LEMMA FourWords ==
    ASSUME NEW s \in Vlis, NEW x \in [Places -> Int], NEW c1 \in Int, NEW c2 \in Int,
           NEW c3 \in Int, NEW c4 \in Int, HandsOn(s, x, c1, c2, c3, c4)
    PROVE  Value(s) + (Base4 * c4) = Value(x)
<1>0. /\ s[0] + (Base * c1) = x[0] /\ s[1] + (Base * c2) = x[1] + c1
      /\ s[2] + (Base * c3) = x[2] + c2 /\ s[3] + (Base * c4) = x[3] + c3
  BY DEF HandsOn
<1>1. /\ s[0] \in Int /\ s[1] \in Int /\ s[2] \in Int /\ s[3] \in Int
      /\ x[0] \in Int /\ x[1] \in Int /\ x[2] \in Int /\ x[3] \in Int /\ Base \in Int
      /\ Base2 \in Int /\ Base3 \in Int
  BY VliIs, PlacesAre, WordSizes DEF Word
<1>2. From3(s) + (Base * c4) = From3(x) + c3 /\ From3(s) \in Int /\ From3(x) \in Int
  BY <1>0, <1>1 DEF From3
<1>3. From2(s) + (Base2 * c4) = From2(x) + c2 /\ From2(s) \in Int /\ From2(x) \in Int
  <2>1. Base * (From3(s) + (Base * c4)) = (Base * From3(s)) + (Base * (Base * c4))
    BY <1>1, <1>2, TimesSum
  <2>2. Base * (From3(x) + c3) = (Base * From3(x)) + (Base * c3)
    BY <1>1, <1>2, TimesSum
  <2>3. Base * (Base * c4) = Base2 * c4
    BY <1>1, TimesTimes DEF Base2
  <2>4. (Base * From3(s)) \in Int /\ (Base * From3(x)) \in Int /\ Base2 * c4 \in Int
        /\ Base * c3 \in Int
    BY <1>1, <1>2, TimesSum
  <2>5. s[2] + (Base * From3(s)) + (Base2 * c4) = x[2] + (Base * From3(x)) + c2
    <3> DEFINE f == Base * From3(s)
               g == Base2 * c4
               h == Base * From3(x)
               e == Base * c3
               a == s[2]
               b == x[2]
    <3>1. f + g = h + e
      BY <1>2, <2>1, <2>2, <2>3
    <3>2. a + e = b + c2
      BY <1>0
    <3>3. f \in Int /\ g \in Int /\ h \in Int /\ e \in Int /\ a \in Int /\ b \in Int
      BY <1>1, <2>4
    <3> HIDE DEF f, g, h, e, a, b
    <3>4. a + f + g = b + h + c2
      BY ONLY <3>1, <3>2, <3>3, c2 \in Int
    <3> QED BY <3>4 DEF f, g, h, a, b
  <2>6. s[2] + (Base * From3(s)) \in Int /\ x[2] + (Base * From3(x)) \in Int
    BY <1>1, <2>4
  <2> QED BY <2>5, <2>6 DEF From2
<1>4. From1(s) + (Base3 * c4) = From1(x) + c1 /\ From1(s) \in Int /\ From1(x) \in Int
  <2>1. Base * (From2(s) + (Base2 * c4)) = (Base * From2(s)) + (Base * (Base2 * c4))
    BY <1>1, <1>3, TimesSum
  <2>2. Base * (From2(x) + c2) = (Base * From2(x)) + (Base * c2)
    BY <1>1, <1>3, TimesSum
  <2>3. Base * (Base2 * c4) = Base3 * c4
    BY <1>1, TimesTimes DEF Base3
  <2>4. (Base * From2(s)) \in Int /\ (Base * From2(x)) \in Int /\ Base3 * c4 \in Int
        /\ Base * c2 \in Int
    BY <1>1, <1>3, TimesSum
  <2>5. s[1] + (Base * From2(s)) + (Base3 * c4) = x[1] + (Base * From2(x)) + c1
    <3> DEFINE f == Base * From2(s)
               g == Base3 * c4
               h == Base * From2(x)
               e == Base * c2
               a == s[1]
               b == x[1]
    <3>1. f + g = h + e
      BY <1>3, <2>1, <2>2, <2>3
    <3>2. a + e = b + c1
      BY <1>0
    <3>3. f \in Int /\ g \in Int /\ h \in Int /\ e \in Int /\ a \in Int /\ b \in Int
      BY <1>1, <2>4
    <3> HIDE DEF f, g, h, e, a, b
    <3>4. a + f + g = b + h + c1
      BY ONLY <3>1, <3>2, <3>3, c1 \in Int
    <3> QED BY <3>4 DEF f, g, h, a, b
  <2>6. s[1] + (Base * From2(s)) \in Int /\ x[1] + (Base * From2(x)) \in Int
    BY <1>1, <2>4
  <2> QED BY <2>5, <2>6 DEF From1
<1>5. s[0] + (Base * From1(s)) + (Base4 * c4) = x[0] + (Base * From1(x))
  <2>1. Base * (From1(s) + (Base3 * c4)) = (Base * From1(s)) + (Base * (Base3 * c4))
    BY <1>1, <1>4, TimesSum
  <2>2. Base * (From1(x) + c1) = (Base * From1(x)) + (Base * c1)
    BY <1>1, <1>4, TimesSum
  <2>3. Base * (Base3 * c4) = Base4 * c4
    BY <1>1, TimesTimes DEF Base4
  <2>4. (Base * From1(s)) \in Int /\ (Base * From1(x)) \in Int /\ Base4 * c4 \in Int
        /\ Base * c1 \in Int
    BY <1>1, <1>4, TimesSum, WordSizes
  <2> QED BY <1>0, <1>1, <1>4, <2>1, <2>2, <2>3, <2>4
<1> QED BY <1>5 DEF Value, From1, From2, From3

LEMMA ValueSum ==
    ASSUME NEW x \in [Places -> Int], NEW y \in [Places -> Int], NEW z \in [Places -> Int],
           \A i \in Places : z[i] = x[i] + y[i]
    PROVE  Value(z) = Value(x) + Value(y) /\ Value(x) \in Int /\ Value(y) \in Int
<1>1. /\ \A i \in {0, 1, 2, 3} : x[i] \in Int /\ y[i] \in Int /\ z[i] = x[i] + y[i]
      /\ Base \in Int
  BY PlacesAre, WordSizes
<1>2. From3(z) = From3(x) + From3(y) /\ From3(x) \in Int /\ From3(y) \in Int
  BY <1>1 DEF From3
<1>3. /\ z[2] + (Base * From3(z)) = (x[2] + (Base * From3(x))) + (y[2] + (Base * From3(y)))
      /\ x[2] + (Base * From3(x)) \in Int /\ y[2] + (Base * From3(y)) \in Int
  <2>1. Base * (From3(x) + From3(y)) = (Base * From3(x)) + (Base * From3(y))
        /\ (Base * From3(x)) \in Int /\ (Base * From3(y)) \in Int
    BY <1>1, <1>2, TimesSum
  <2> QED BY <1>1, <1>2, <2>1
<1>4. From2(z) = From2(x) + From2(y) /\ From2(x) \in Int /\ From2(y) \in Int
  BY <1>3 DEF From2
<1>5. /\ z[1] + (Base * From2(z)) = (x[1] + (Base * From2(x))) + (y[1] + (Base * From2(y)))
      /\ x[1] + (Base * From2(x)) \in Int /\ y[1] + (Base * From2(y)) \in Int
  <2>1. Base * (From2(x) + From2(y)) = (Base * From2(x)) + (Base * From2(y))
        /\ (Base * From2(x)) \in Int /\ (Base * From2(y)) \in Int
    BY <1>1, <1>4, TimesSum
  <2> QED BY <1>1, <1>4, <2>1
<1>6. From1(z) = From1(x) + From1(y) /\ From1(x) \in Int /\ From1(y) \in Int
  BY <1>5 DEF From1
<1>7. /\ z[0] + (Base * From1(z)) = (x[0] + (Base * From1(x))) + (y[0] + (Base * From1(y)))
      /\ x[0] + (Base * From1(x)) \in Int /\ y[0] + (Base * From1(y)) \in Int
  <2>1. Base * (From1(x) + From1(y)) = (Base * From1(x)) + (Base * From1(y))
        /\ (Base * From1(x)) \in Int /\ (Base * From1(y)) \in Int
    BY <1>1, <1>6, TimesSum
  <2> QED BY <1>1, <1>6, <2>1
<1> QED BY <1>7 DEF Value, From1, From2, From3

LEMMA VliInts ==
    ASSUME NEW v \in Vlis
    PROVE  v \in [Places -> Int] /\ Value(v) \in 0 .. Base4 - 1 /\ Value(v) \in Int
<1>1. \A i \in Places : v[i] \in Int
  BY WordSizes DEF Vlis
<1> QED BY <1>1, ValueIs, WordSizes DEF Vlis

(* vli_add and vli_sub.                                                    *)
LEMMA AddIs ==
    ASSUME NEW l \in Vlis, NEW r \in Vlis
    PROVE  /\ vli_add(l, r).digits \in Vlis /\ vli_add(l, r).carry \in Carry
           /\ vli_add(l, r).carry \in Int
           /\ Value(vli_add(l, r).digits) + (Base4 * vli_add(l, r).carry) = Value(l) + Value(r)
<1> DEFINE c == AddCarries(l, r)
           s == vli_add(l, r).digits
           x == [i \in Places |-> l[i] + r[i]]
<1>1. /\ s = Words(Low(l[0] + r[0] + c[0]), Low(l[1] + r[1] + c[1]),
                   Low(l[2] + r[2] + c[2]), Low(l[3] + r[3] + c[3]))
      /\ vli_add(l, r).carry = c[4]
  BY AddByCarries, PlacesAre
<1>2. /\ c[0] = 0 /\ c[0] \in Carry /\ c[1] \in Carry /\ c[2] \in Carry
      /\ c[3] \in Carry /\ c[4] \in Carry
      /\ c[1] = Handed(l[0], r[0], c[0]) /\ c[2] = Handed(l[1], r[1], c[1])
      /\ c[3] = Handed(l[2], r[2], c[2]) /\ c[4] = Handed(l[3], r[3], c[3])
  BY AddCarriesAre
<1> HIDE DEF c
<1>3. \A i \in {0, 1, 2, 3} : l[i] \in Word /\ r[i] \in Word
  BY VliIs
<1>4. \A i \in {0, 1, 2, 3} : Low(l[i] + r[i] + c[i]) \in Word
  BY <1>2, <1>3, WordSum
<1>5. s \in Vlis /\ \A i \in {0, 1, 2, 3} : s[i] = Low(l[i] + r[i] + c[i])
  BY <1>1, <1>4, WordsAre
<1> HIDE DEF s
<1>6. /\ s[0] + (Base * c[1]) = l[0] + r[0] + c[0]
      /\ s[1] + (Base * c[2]) = l[1] + r[1] + c[1]
      /\ s[2] + (Base * c[3]) = l[2] + r[2] + c[2]
      /\ s[3] + (Base * c[4]) = l[3] + r[3] + c[3]
  <2>1. \A i \in {0, 1, 2, 3} : Low(l[i] + r[i] + c[i]) + (Base * Handed(l[i], r[i], c[i])) = l[i] + r[i] + c[i]
    BY <1>2, <1>3, WordSum
  <2>2. \A i \in {0, 1, 2, 3} : s[i] + (Base * Handed(l[i], r[i], c[i])) = l[i] + r[i] + c[i]
    BY ONLY <1>5, <2>1
  <2>3. 0 \in {0, 1, 2, 3} /\ 1 \in {0, 1, 2, 3} /\ 2 \in {0, 1, 2, 3} /\ 3 \in {0, 1, 2, 3}
    OBVIOUS
  <2>4. s[0] + (Base * Handed(l[0], r[0], c[0])) = l[0] + r[0] + c[0]
    BY ONLY <2>2, <2>3
  <2>5. s[1] + (Base * Handed(l[1], r[1], c[1])) = l[1] + r[1] + c[1]
    BY ONLY <2>2, <2>3
  <2>6. s[2] + (Base * Handed(l[2], r[2], c[2])) = l[2] + r[2] + c[2]
    BY ONLY <2>2, <2>3
  <2>7. s[3] + (Base * Handed(l[3], r[3], c[3])) = l[3] + r[3] + c[3]
    BY ONLY <2>2, <2>3
  <2> QED BY ONLY <1>2, <2>4, <2>5, <2>6, <2>7
<1>7. x \in [Places -> Int] /\ Value(x) = Value(l) + Value(r)
      /\ \A i \in {0, 1, 2, 3} : x[i] = l[i] + r[i]
  <2>1. l \in [Places -> Int] /\ r \in [Places -> Int]
    BY VliInts
  <2>2. x \in [Places -> Int] /\ \A i \in Places : x[i] = l[i] + r[i]
    BY <2>1
  <2> HIDE DEF x
  <2> QED BY <2>1, <2>2, ValueSum, PlacesAre
<1> HIDE DEF x
<1>8. HandsOn(s, x, c[1], c[2], c[3], c[4])
  <2>1. l[0] + r[0] + c[0] = l[0] + r[0]
    BY <1>2, <1>3, WordSizes DEF Word
  <2> QED BY <1>6, <1>7, <2>1 DEF HandsOn
<1>9. c[1] \in Int /\ c[2] \in Int /\ c[3] \in Int /\ c[4] \in Int
  BY <1>2 DEF Carry
<1>10. Value(s) + (Base4 * c[4]) = Value(x)
  BY <1>5, <1>7, <1>8, <1>9, FourWords
<1> QED BY <1>1, <1>2, <1>5, <1>7, <1>9, <1>10 DEF s

LEMMA SubIs ==
    ASSUME NEW l \in Vlis, NEW r \in Vlis
    PROVE  /\ vli_sub(l, r).digits \in Vlis /\ vli_sub(l, r).carry \in Carry
           /\ vli_sub(l, r).carry \in Int
           /\ Value(vli_sub(l, r).digits) - (Base4 * vli_sub(l, r).carry) = Value(l) - Value(r)
<1> DEFINE c == SubBorrows(l, r)
           s == vli_sub(l, r).digits
           x == [i \in Places |-> l[i] - r[i]]
<1>1. /\ s = Words(Low(l[0] - r[0] - c[0]), Low(l[1] - r[1] - c[1]),
                   Low(l[2] - r[2] - c[2]), Low(l[3] - r[3] - c[3]))
      /\ vli_sub(l, r).carry = c[4]
  BY SubByBorrows, PlacesAre
<1>2. /\ c[0] = 0 /\ c[0] \in Carry /\ c[1] \in Carry /\ c[2] \in Carry
      /\ c[3] \in Carry /\ c[4] \in Carry
      /\ c[1] = Lent(l[0], r[0], c[0]) /\ c[2] = Lent(l[1], r[1], c[1])
      /\ c[3] = Lent(l[2], r[2], c[2]) /\ c[4] = Lent(l[3], r[3], c[3])
  BY SubBorrowsAre
<1> HIDE DEF c
<1>3. \A i \in {0, 1, 2, 3} : l[i] \in Word /\ r[i] \in Word
  BY VliIs
<1>4. \A i \in {0, 1, 2, 3} : Low(l[i] - r[i] - c[i]) \in Word
  BY <1>2, <1>3, WordDifference
<1>5. s \in Vlis /\ \A i \in {0, 1, 2, 3} : s[i] = Low(l[i] - r[i] - c[i])
  BY <1>1, <1>4, WordsAre
<1> HIDE DEF s
<1>6. /\ s[0] - (Base * c[1]) = l[0] - r[0] - c[0]
      /\ s[1] - (Base * c[2]) = l[1] - r[1] - c[1]
      /\ s[2] - (Base * c[3]) = l[2] - r[2] - c[2]
      /\ s[3] - (Base * c[4]) = l[3] - r[3] - c[3]
  <2>1. \A i \in {0, 1, 2, 3} : Low(l[i] - r[i] - c[i]) - (Base * Lent(l[i], r[i], c[i])) = l[i] - r[i] - c[i]
    BY <1>2, <1>3, WordDifference
  <2> QED BY <1>2, <1>5, <2>1
<1>7. x \in [Places -> Int] /\ Value(x) = Value(l) - Value(r)
      /\ \A i \in {0, 1, 2, 3} : x[i] = l[i] - r[i]
  <2>1. l \in [Places -> Int] /\ r \in [Places -> Int]
    BY VliInts
  <2>2. x \in [Places -> Int] /\ \A i \in Places : l[i] = x[i] + r[i]
    BY <2>1
  <2>4. \A i \in {0, 1, 2, 3} : x[i] = l[i] - r[i]
    BY PlacesAre
  <2> HIDE DEF x
  <2>3. Value(l) = Value(x) + Value(r) /\ Value(x) \in Int /\ Value(r) \in Int
    BY <2>1, <2>2, ValueSum
  <2> QED BY <2>2, <2>3, <2>4
<1> HIDE DEF x
<1> DEFINE d1 == 0 - c[1]
           d2 == 0 - c[2]
           d3 == 0 - c[3]
           d4 == 0 - c[4]
<1>9. c[1] \in Int /\ c[2] \in Int /\ c[3] \in Int /\ c[4] \in Int
      /\ d1 \in Int /\ d2 \in Int /\ d3 \in Int /\ d4 \in Int
  BY <1>2 DEF Carry
<1>8. HandsOn(s, x, d1, d2, d3, d4)
  <2>1. \A b \in Int : Base * (0 - b) = 0 - (Base * b) /\ Base * b \in Int
    BY WordSizes
  <2>2. \A i \in {0, 1, 2, 3} : l[i] \in Int /\ r[i] \in Int /\ s[i] \in Int
    BY <1>3, <1>5, VliIs, WordSizes DEF Word
  <2>3. l[0] - r[0] - c[0] = l[0] - r[0]
    BY <1>2, <2>2
  <2>4. /\ Base * d1 = 0 - (Base * c[1]) /\ Base * d2 = 0 - (Base * c[2])
        /\ Base * d3 = 0 - (Base * c[3]) /\ Base * d4 = 0 - (Base * c[4])
        /\ Base * c[1] \in Int /\ Base * c[2] \in Int /\ Base * c[3] \in Int /\ Base * c[4] \in Int
    BY <1>9, <2>1
  <2>5. s[0] + (Base * d1) = x[0]
    BY <1>6, <1>7, <2>2, <2>3, <2>4
  <2>6. s[1] + (Base * d2) = x[1] + d1
    BY <1>6, <1>7, <1>9, <2>2, <2>4
  <2>7. s[2] + (Base * d3) = x[2] + d2
    BY <1>6, <1>7, <1>9, <2>2, <2>4
  <2>8. s[3] + (Base * d4) = x[3] + d3
    BY <1>6, <1>7, <1>9, <2>2, <2>4
  <2> QED BY <2>5, <2>6, <2>7, <2>8 DEF HandsOn
<1>11. Base4 * d4 = 0 - (Base4 * c[4]) /\ Base4 * c[4] \in Int
  <2>1. \A b \in Int : Base4 * (0 - b) = 0 - (Base4 * b) /\ Base4 * b \in Int
    BY WordSizes
  <2> QED BY <1>9, <2>1
<1>12. Value(s) \in Int
  BY <1>5, VliInts
<1> HIDE DEF d1, d2, d3, d4
<1>10. Value(s) + (Base4 * d4) = Value(x)
  BY <1>5, <1>7, <1>8, <1>9, FourWords
<1>13. Value(s) - (Base4 * c[4]) = Value(x)
  BY <1>10, <1>11, <1>12
<1> QED BY <1>1, <1>2, <1>5, <1>7, <1>9, <1>13 DEF s

(* vli_cmp.                                                                *)
LEMMA CmpIs ==
    ASSUME NEW l \in Vlis, NEW r \in Vlis
    PROVE  vli_cmp(l, r) = IF Value(l) > Value(r) THEN 1 ELSE IF Value(l) < Value(r) THEN -1 ELSE 0
<1> DEFINE differ == {i \in Places : l[i] # r[i]}
           top == CHOOSE i \in differ : \A j \in differ : j <= i
<1>1. differ \in SUBSET Int /\ (differ = {} <=> l = r)
  <2>1. differ \in SUBSET Int
    BY PlacesAre
  <2>2. l = [i \in Places |-> l[i]] /\ r = [i \in Places |-> r[i]]
    BY VliIs
  <2> QED BY <2>1, <2>2
<1>2. \A i \in {0, 1, 2, 3} : l[i] \in Int /\ r[i] \in Int
  BY VliIs, WordSizes DEF Word
<1>3. Value(l) \in Int /\ Value(r) \in Int
  BY VliInts
<1>4. vli_cmp(l, r) = IF differ = {} THEN 0 ELSE IF l[top] > r[top] THEN 1 ELSE -1
  BY DEF vli_cmp
<1>5. CASE differ = {}
  BY <1>1, <1>3, <1>4, <1>5
<1>6. ASSUME NEW i \in {0, 1, 2, 3}, l[i] # r[i], \A j \in {0, 1, 2, 3} : j > i => l[j] = r[j]
      PROVE  /\ vli_cmp(l, r) = IF l[i] > r[i] THEN 1 ELSE -1
             /\ Value(l) > Value(r) <=> l[i] > r[i]
             /\ Value(l) < Value(r) <=> l[i] < r[i]
  <2>1. i \in differ /\ \A j \in differ : j <= i
    BY <1>6, PlacesAre
  <2>2. top = i
    <3> HIDE DEF differ
    <3> QED BY <1>1, <2>1, TopIs
  <2>3. vli_cmp(l, r) = IF l[i] > r[i] THEN 1 ELSE -1
    BY <1>4, <2>1, <2>2
  <2>4. Value(l) < Value(r) <=> l[i] < r[i]
    BY <1>2, <1>6, ValueOrder
  <2>5. Value(r) < Value(l) <=> r[i] < l[i]
    BY <1>2, <1>6, ValueOrder
  <2> QED BY <1>2, <1>3, <2>3, <2>4, <2>5
<1>7. CASE differ # {}
  <2>1. PICK i \in {0, 1, 2, 3} : l[i] # r[i] /\ \A j \in {0, 1, 2, 3} : j > i => l[j] = r[j]
    <3>1. CASE l[3] # r[3]
      BY <3>1
    <3>2. CASE l[3] = r[3] /\ l[2] # r[2]
      BY <3>2
    <3>3. CASE l[3] = r[3] /\ l[2] = r[2] /\ l[1] # r[1]
      BY <3>3
    <3>4. CASE l[3] = r[3] /\ l[2] = r[2] /\ l[1] = r[1] /\ l[0] # r[0]
      BY <3>4
    <3> QED BY <1>7, <3>1, <3>2, <3>3, <3>4, PlacesAre
  <2> QED BY <1>2, <1>3, <1>6, <2>1
<1> QED BY <1>5, <1>7

(* ToVli.                                                                  *)
LEMMA ToVliIs ==
    ASSUME NEW n \in 0 .. Base4 - 1
    PROVE  ToVli(n) \in Vlis /\ Value(ToVli(n)) = n
<1> DEFINE v == ToVli(n)
           q1 == n \div Base
           q2 == q1 \div Base
           q3 == q2 \div Base
<1>1. Base \in Nat \ {0} /\ Base2 \in Nat \ {0} /\ Base3 \in Nat \ {0} /\ n \in Int
  BY WordSizes
<1>2. q1 \in 0 .. Base3 - 1 /\ q2 \in 0 .. Base2 - 1 /\ q3 \in 0 .. Base - 1
  <2>1. n \in 0 .. (Base * Base3) - 1
    BY DEF Base4
  <2>2. q1 \in 0 .. Base3 - 1
    BY <1>1, <2>1, QuotientBelow
  <2> HIDE DEF q1
  <2>3. q1 \in 0 .. (Base * Base2) - 1
    BY <2>2 DEF Base3
  <2>4. q2 \in 0 .. Base2 - 1
    BY <1>1, <2>3, QuotientBelow
  <2> HIDE DEF q2
  <2>5. q2 \in 0 .. (Base * Base) - 1
    BY <2>4 DEF Base2
  <2>6. q3 \in 0 .. Base - 1
    BY <1>1, <2>5, QuotientBelow
  <2> QED BY <2>2, <2>4, <2>6
<1>3. n \div Base2 = q2 /\ n \div Base3 = q3
  <2>a. n \in Int /\ Base \in Nat \ {0} /\ Base2 \in Nat \ {0}
    BY <1>1
  <2>1. n \div (Base * Base) = q2
    <3>1. n \div (Base * Base) = (n \div Base) \div Base
      BY ONLY <2>a, DividedBoth
    <3> QED BY ONLY <3>1 DEF q1, q2
  <2>2. n \div (Base * Base2) = q1 \div Base2
    <3>1. n \div (Base * Base2) = (n \div Base) \div Base2
      BY ONLY <2>a, DividedBoth
    <3> QED BY ONLY <3>1 DEF q1
  <2>3. q1 \div (Base * Base) = q3
    <3>1. q1 \in Int
      BY <1>1, <1>2
    <3> HIDE DEF q1
    <3> QED BY <1>1, <3>1, DividedBoth
  <2> QED BY <2>1, <2>2, <2>3 DEF Base2, Base3
<1>4. n \div 1 = n
  BY <1>1
<1> HIDE DEF q1, q2, q3
<1>5. v[0] = n % Base /\ v[1] = q1 % Base /\ v[2] = q2 % Base /\ v[3] = q3 % Base
  <2>1. \A i \in Places : v[i] = (n \div TwoTo[2 * HalfBits * i]) % Base
    BY DEF ToVli
  <2> HIDE DEF v
  <2>2. 0 \in Places /\ 1 \in Places /\ 2 \in Places /\ 3 \in Places
    BY PlacesAre
  <2> QED BY <1>3, <1>4, <2>1, <2>2, PowersOfBase DEF q1
<1>6. \A x \in Int : (x % Base) \in 0 .. Base - 1 /\ x = (Base * (x \div Base)) + (x % Base)
                     /\ (x \div Base) \in Int
  BY <1>1, Division
<1>7. q1 \in Int /\ q2 \in Int /\ q3 \in Int
  BY <1>1, <1>2
<1>8. v \in Vlis
  <2>1. \A i \in Places : v[i] \in 0 .. Base - 1
    BY <1>1, <1>5, <1>6, <1>7, PlacesAre
  <2>2. v = [i \in Places |-> v[i]]
    BY DEF ToVli
  <2> QED BY <2>1, <2>2 DEF Vlis
<1> HIDE DEF v
<1>9. v[3] = q3
  BY <1>1, <1>2, <1>5, SmallStays
<1>10. From2(v) = q2
  <2>1. q2 = (Base * q3) + (q2 % Base) /\ (q2 % Base) \in Int /\ Base * q3 \in Int
    BY <1>1, <1>6, <1>7, TimesSum DEF q3
  <2>2. v[2] + (Base * q3) = q2
    BY <1>5, <2>1
  <2> QED BY <1>9, <2>2 DEF From2, From3
<1>11. From1(v) = q1
  <2>1. q1 = (Base * q2) + (q1 % Base) /\ (q1 % Base) \in Int /\ Base * q2 \in Int
    BY <1>1, <1>6, <1>7, TimesSum DEF q2
  <2>2. v[1] + (Base * q2) = q1
    BY <1>5, <2>1
  <2> QED BY <1>10, <2>2 DEF From1
<1>12. Value(v) = n
  <2>1. n = (Base * q1) + (n % Base) /\ (n % Base) \in Int /\ Base * q1 \in Int
    BY <1>1, <1>6, <1>7, TimesSum DEF q1
  <2>2. v[0] + (Base * q1) = n
    BY <1>5, <2>1
  <2> QED BY <1>8, <1>11, <2>2, ValueIs
<1> QED BY <1>8, <1>12 DEF v

LEMMA VliOfValue ==
    ASSUME NEW v \in Vlis
    PROVE  ToVli(Value(v)) = v
<1>1. Value(v) \in 0 .. Base4 - 1
  BY VliInts
<1>2. ToVli(Value(v)) \in Vlis /\ Value(ToVli(Value(v))) = Value(v)
  BY <1>1, ToVliIs
<1> QED BY <1>2, ValueOrder

LEMMA AddCases ==
    ASSUME NEW l \in Vlis, NEW r \in Vlis
    PROVE  /\ vli_add(l, r).digits \in Vlis
           /\ IF Value(l) + Value(r) < Base4
              THEN vli_add(l, r).carry = 0 /\ Value(vli_add(l, r).digits) = Value(l) + Value(r)
              ELSE /\ vli_add(l, r).carry = 1
                   /\ Value(vli_add(l, r).digits) = (Value(l) + Value(r)) - Base4
<1> DEFINE s == vli_add(l, r)
           v == Value(s.digits)
           x == Value(l)
           y == Value(r)
<1>1. s.digits \in Vlis /\ s.carry \in {0, 1} /\ v + (Base4 * s.carry) = x + y
  BY AddIs DEF Carry
<1>2. v \in 0 .. Base4 - 1 /\ x \in 0 .. Base4 - 1 /\ y \in 0 .. Base4 - 1 /\ Base4 \in Nat
  BY <1>1, VliInts, WordSizes
<1> HIDE DEF s, v, x, y
<1>3. s.carry = 0 => v = x + y
  <2>1. Base4 * 0 = 0
    BY <1>2
  <2> QED BY <1>1, <1>2, <2>1
<1>4. s.carry = 1 => v = (x + y) - Base4
  <2>1. Base4 * 1 = Base4
    BY <1>2
  <2>2. s.carry = 1 => v + Base4 = x + y
    BY <1>1, <2>1
  <2> QED BY <1>2, <2>2
<1>5. IF x + y < Base4 THEN s.carry = 0 /\ v = x + y ELSE s.carry = 1 /\ v = (x + y) - Base4
  BY <1>1, <1>2, <1>3, <1>4
<1> QED BY <1>1, <1>5 DEF s, v, x, y

LEMMA SubCases ==
    ASSUME NEW l \in Vlis, NEW r \in Vlis
    PROVE  /\ vli_sub(l, r).digits \in Vlis
           /\ IF Value(l) >= Value(r)
              THEN vli_sub(l, r).carry = 0 /\ Value(vli_sub(l, r).digits) = Value(l) - Value(r)
              ELSE /\ vli_sub(l, r).carry = 1
                   /\ Value(vli_sub(l, r).digits) = (Value(l) - Value(r)) + Base4
<1> DEFINE s == vli_sub(l, r)
           v == Value(s.digits)
           x == Value(l)
           y == Value(r)
<1>1. s.digits \in Vlis /\ s.carry \in {0, 1} /\ v - (Base4 * s.carry) = x - y
  BY SubIs DEF Carry
<1>2. v \in 0 .. Base4 - 1 /\ x \in 0 .. Base4 - 1 /\ y \in 0 .. Base4 - 1 /\ Base4 \in Nat
  BY <1>1, VliInts, WordSizes
<1> HIDE DEF s, v, x, y
<1>3. s.carry = 0 => v = x - y
  <2>1. Base4 * 0 = 0
    BY <1>2
  <2> QED BY <1>1, <1>2, <2>1
<1>4. s.carry = 1 => v = (x - y) + Base4
  <2>1. Base4 * 1 = Base4
    BY <1>2
  <2>2. s.carry = 1 => v - Base4 = x - y
    BY <1>1, <2>1
  <2> QED BY <1>2, <2>2
<1>5. IF x >= y THEN s.carry = 0 /\ v = x - y ELSE s.carry = 1 /\ v = (x - y) + Base4
  BY <1>1, <1>2, <1>3, <1>4
<1> QED BY <1>1, <1>5 DEF s, v, x, y

(* vli_modAdd and vli_modSub.                                              *)
LEMMA ModAddIs ==
    ASSUME NEW l \in Vlis, NEW r \in Vlis, NEW m \in Vlis,
           Value(l) < Value(m), Value(r) < Value(m)
    PROVE  /\ vli_modAdd(l, r, m) \in Vlis
           /\ Value(vli_modAdd(l, r, m)) = (Value(l) + Value(r)) % Value(m)
<1> DEFINE s == vli_add(l, r)
           x == Value(l)
           y == Value(r)
           z == Value(m)
           v == Value(s.digits)
           d == vli_sub(s.digits, m)
<1>1. /\ s.digits \in Vlis
      /\ IF x + y < Base4 THEN s.carry = 0 /\ v = x + y ELSE s.carry = 1 /\ v = (x + y) - Base4
  BY AddCases
<1>2. x \in Nat /\ y \in Nat /\ z \in 0 .. Base4 - 1 /\ Base4 \in Nat /\ x < z /\ y < z
      /\ v \in 0 .. Base4 - 1
  BY <1>1, VliInts, WordSizes
<1>3. d.digits \in Vlis /\ Value(d.digits) = IF v >= z THEN v - z ELSE (v - z) + Base4
  BY <1>1, SubCases
<1>4. vli_cmp(s.digits, m) = IF v > z THEN 1 ELSE IF v < z THEN -1 ELSE 0
  BY <1>1, CmpIs
<1>5. vli_modAdd(l, r, m) = IF s.carry = 1 \/ vli_cmp(s.digits, m) >= 0 THEN d.digits ELSE s.digits
  BY DEF vli_modAdd
<1> DEFINE a == vli_modAdd(l, r, m)
<1> HIDE DEF s, x, y, z, v, d, a
<1>6. a \in Vlis /\ Value(a) = IF x + y >= z THEN (x + y) - z ELSE x + y
  <2>1. CASE x + y >= Base4
    <3>1. a = d.digits /\ v = (x + y) - Base4
      BY <1>1, <1>2, <1>5, <2>1 DEF a
    <3>2. v < z /\ (v - z) + Base4 = (x + y) - z /\ x + y >= z
      BY <1>2, <2>1, <3>1
    <3>3. ~(v >= z)
      BY <1>2, <3>2
    <3> QED BY <1>3, <3>1, <3>2, <3>3
  <2>2. CASE x + y < Base4 /\ x + y >= z
    <3>1. s.carry = 0 /\ v = x + y /\ vli_cmp(s.digits, m) >= 0
      BY <1>1, <1>2, <1>4, <2>2
    <3> QED BY <1>2, <1>3, <1>5, <2>2, <3>1 DEF a
  <2>3. CASE x + y < Base4 /\ x + y < z
    <3>1. s.carry = 0 /\ v = x + y /\ ~(vli_cmp(s.digits, m) >= 0)
      BY <1>1, <1>2, <1>4, <2>3
    <3>2. a = s.digits
      BY <1>5, <3>1 DEF a
    <3> QED BY <1>1, <1>2, <2>3, <3>1, <3>2 DEF v
  <2> QED BY <1>2, <2>1, <2>2, <2>3
<1>7. (x + y) % z = IF x + y >= z THEN (x + y) - z ELSE x + y
  <2> DEFINE n == x + y
  <2>1. z \in Nat \ {0} /\ n \in Int /\ n >= 0 /\ n < 2 * z
    BY <1>2
  <2> HIDE DEF n
  <2>2. n % z = IF n >= z THEN n - z ELSE n
    BY ONLY <2>1, OnceAround
  <2> QED BY <2>2 DEF n
<1> QED BY <1>6, <1>7 DEF a, x, y, z

LEMMA ModSubIs ==
    ASSUME NEW l \in Vlis, NEW r \in Vlis, NEW m \in Vlis,
           Value(l) < Value(m), Value(r) < Value(m)
    PROVE  /\ vli_modSub(l, r, m) \in Vlis
           /\ Value(vli_modSub(l, r, m)) = (Value(l) - Value(r)) % Value(m)
<1> DEFINE s == vli_sub(l, r)
           x == Value(l)
           y == Value(r)
           z == Value(m)
           v == Value(s.digits)
           d == vli_add(s.digits, m)
<1>1. /\ s.digits \in Vlis
      /\ IF x >= y THEN s.carry = 0 /\ v = x - y ELSE s.carry = 1 /\ v = (x - y) + Base4
  BY SubCases
<1>2. x \in Nat /\ y \in Nat /\ z \in 0 .. Base4 - 1 /\ Base4 \in Nat /\ x < z /\ y < z
      /\ v \in 0 .. Base4 - 1
  BY <1>1, VliInts, WordSizes
<1>3. d.digits \in Vlis /\ Value(d.digits) = IF v + z < Base4 THEN v + z ELSE (v + z) - Base4
  BY <1>1, AddCases
<1>5. vli_modSub(l, r, m) = IF s.carry = 1 THEN d.digits ELSE s.digits
  BY DEF vli_modSub
<1> DEFINE a == vli_modSub(l, r, m)
<1> HIDE DEF s, x, y, z, v, d, a
<1>6. a \in Vlis /\ Value(a) = IF x >= y THEN x - y ELSE (x - y) + z
  <2>1. CASE x >= y
    <3>1. a = s.digits /\ v = x - y
      BY <1>1, <1>5, <2>1 DEF a
    <3> QED BY <1>1, <2>1, <3>1 DEF v
  <2>2. CASE x < y
    <3>1. a = d.digits /\ v = (x - y) + Base4
      BY <1>1, <1>2, <1>5, <2>2 DEF a
    <3>2. ~(v + z < Base4) /\ (v + z) - Base4 = (x - y) + z /\ ~(x >= y)
      BY <1>2, <2>2, <3>1
    <3> QED BY <1>3, <3>1, <3>2
  <2> QED BY <1>2, <2>1, <2>2
<1>7. (x - y) % z = IF x >= y THEN x - y ELSE (x - y) + z
  <2> DEFINE n == x - y
  <2>1. z \in Nat \ {0} /\ n \in Int /\ n < z /\ 0 - z <= n /\ (x >= y <=> n >= 0)
    BY <1>2
  <2> HIDE DEF n
  <2>2. n % z = IF n >= 0 THEN n ELSE n + z
    <3>1. CASE n >= 0
      <4>1. n \in 0 .. z - 1
        BY <2>1, <3>1
      <4> QED BY <2>1, <3>1, <4>1, OnceAround
    <3>2. CASE n < 0
      <4>1. n \in (0 - z) .. -1
        BY <2>1, <3>2
      <4>2. n % z = n + z
        BY ONLY <2>1, <4>1, OnceAround
      <4> QED BY <2>1, <3>2, <4>2
    <3> QED BY <2>1, <3>1, <3>2
  <2> QED BY <2>1, <2>2 DEF n
<1> QED BY <1>6, <1>7 DEF a, x, y, z

-----------------------------------------------------------------------------
(* The prime, and numbers of half words.                                   *)

LEMMA HalfWords ==
    /\ TwoTo[0 * HalfBits] = 1 /\ TwoTo[1 * HalfBits] = W /\ TwoTo[2 * HalfBits] = Base
    /\ TwoTo[8 * HalfBits] = Base4
    /\ \A k \in Nat : TwoTo[k * HalfBits] \in Nat \ {0} /\ k * HalfBits \in Nat
    /\ \A k \in Nat : TwoTo[(k + 1) * HalfBits] = W * TwoTo[k * HalfBits]
<1>1. HalfBits \in Nat /\ Base = TwoTo[2 * HalfBits]
  BY WordSizes
<1>2. \A k \in Nat : k * HalfBits \in Nat /\ (k + 1) * HalfBits = HalfBits + (k * HalfBits)
  <2>1. ASSUME NEW k \in Nat PROVE HalfBits * k \in Nat /\ k * HalfBits = HalfBits * k
    BY <1>1, TimesGrows, TimesSum
  <2>2. ASSUME NEW k \in Nat PROVE HalfBits * (k + 1) = (HalfBits * k) + (HalfBits * 1)
    BY <1>1, TimesSum
  <2>3. HalfBits * 1 = HalfBits
    BY <1>1
  <2>4. ASSUME NEW k \in Nat PROVE (k + 1) * HalfBits = HalfBits + (k * HalfBits)
    <3>1. (k + 1) * HalfBits = HalfBits * (k + 1)
      BY <1>1
    <3> DEFINE a == HalfBits * k
               b == (k + 1) * HalfBits
    <3>2. b = a + HalfBits /\ a \in Int /\ a = k * HalfBits
      BY <1>1, <2>1, <2>2, <2>3, <3>1
    <3> HIDE DEF a, b
    <3>3. b = HalfBits + a
      BY <1>1, <3>2
    <3> QED BY <3>2, <3>3 DEF b
  <2> QED BY <2>1, <2>4
<1>3. \A k \in Nat : TwoTo[k * HalfBits] \in Nat \ {0} /\ k * HalfBits \in Nat
  BY <1>2, Powers
<1>4. ASSUME NEW k \in Nat PROVE TwoTo[(k + 1) * HalfBits] = W * TwoTo[k * HalfBits]
  <2>1. TwoTo[HalfBits + (k * HalfBits)] = TwoTo[HalfBits] * TwoTo[k * HalfBits]
    BY <1>1, <1>2, PowersMultiply
  <2> QED BY <1>2, <2>1 DEF W
<1>5. 0 * HalfBits = 0 /\ 1 * HalfBits = HalfBits /\ 8 * HalfBits = 2 * HalfBits * 4
  BY <1>1
<1> QED BY <1>1, <1>3, <1>4, <1>5, Powers, PowersOfBase DEF W

LEMMA HalfPowers ==
    /\ W2 = Base /\ W4 = Base2 /\ W6 = Base3 /\ W8 = Base4
    /\ TwoTo[3 * HalfBits] = W3 /\ TwoTo[6 * HalfBits] = W6 /\ TwoTo[7 * HalfBits] = W7
    /\ TwoTo[8 * HalfBits] = W8
    /\ W2 \in Nat \ {0} /\ W3 \in Nat \ {0} /\ W4 \in Nat \ {0} /\ W5 \in Nat \ {0}
    /\ W6 \in Nat \ {0} /\ W7 \in Nat \ {0} /\ W8 \in Nat \ {0}
    /\ W3 <= W6 /\ 2 * W6 <= W7 /\ 2 * W7 <= W8 /\ W \in Nat \ {0}
<1>1. \A k \in Nat : TwoTo[k * HalfBits] \in Nat \ {0} /\ TwoTo[(k + 1) * HalfBits] = W * TwoTo[k * HalfBits]
  BY HalfWords
<1>2. W \in Nat \ {0} /\ W >= 2
  BY WordSizes
<1>3. TwoTo[2 * HalfBits] = W2 /\ W2 \in Nat \ {0}
  <2>1. TwoTo[(1 + 1) * HalfBits] = W * TwoTo[1 * HalfBits] /\ 1 + 1 = 2
    BY <1>1
  <2>2. TwoTo[2 * HalfBits] \in Nat \ {0}
    BY <1>1
  <2> QED BY <2>1, <2>2, HalfWords DEF W2
<1>4. TwoTo[3 * HalfBits] = W3 /\ W3 \in Nat \ {0}
  <2>1. TwoTo[(2 + 1) * HalfBits] = W * TwoTo[2 * HalfBits] /\ 2 + 1 = 3 /\ TwoTo[3 * HalfBits] \in Nat \ {0}
    BY <1>1
  <2> QED BY <1>3, <2>1 DEF W3
<1>5. TwoTo[4 * HalfBits] = W4 /\ W4 \in Nat \ {0}
  <2>1. TwoTo[(3 + 1) * HalfBits] = W * TwoTo[3 * HalfBits] /\ 3 + 1 = 4 /\ TwoTo[4 * HalfBits] \in Nat \ {0}
    BY <1>1
  <2> QED BY <1>4, <2>1 DEF W4
<1>6. TwoTo[5 * HalfBits] = W5 /\ W5 \in Nat \ {0}
  <2>1. TwoTo[(4 + 1) * HalfBits] = W * TwoTo[4 * HalfBits] /\ 4 + 1 = 5 /\ TwoTo[5 * HalfBits] \in Nat \ {0}
    BY <1>1
  <2> QED BY <1>5, <2>1 DEF W5
<1>7. TwoTo[6 * HalfBits] = W6 /\ W6 \in Nat \ {0}
  <2>1. TwoTo[(5 + 1) * HalfBits] = W * TwoTo[5 * HalfBits] /\ 5 + 1 = 6 /\ TwoTo[6 * HalfBits] \in Nat \ {0}
    BY <1>1
  <2> QED BY <1>6, <2>1 DEF W6
<1>8. TwoTo[7 * HalfBits] = W7 /\ W7 \in Nat \ {0}
  <2>1. TwoTo[(6 + 1) * HalfBits] = W * TwoTo[6 * HalfBits] /\ 6 + 1 = 7 /\ TwoTo[7 * HalfBits] \in Nat \ {0}
    BY <1>1
  <2> QED BY <1>7, <2>1 DEF W7
<1>9. TwoTo[8 * HalfBits] = W8 /\ W8 \in Nat \ {0}
  <2>1. TwoTo[(7 + 1) * HalfBits] = W * TwoTo[7 * HalfBits] /\ 7 + 1 = 8 /\ TwoTo[8 * HalfBits] \in Nat \ {0}
    BY <1>1
  <2> QED BY <1>8, <2>1 DEF W8
<1>10. ASSUME NEW x \in Nat PROVE x + x <= W * x /\ W * x \in Nat
  <2>1. x * 2 <= x * W /\ x * W = W * x /\ x * 2 = x + x /\ W * x \in Nat
    BY <1>2, TimesGrows, TimesSum
  <2> QED BY <2>1
<1>11. W3 <= W4 /\ W4 <= W5 /\ W5 <= W6 /\ 2 * W6 <= W7 /\ 2 * W7 <= W8
  <2>1. W3 + W3 <= W4
    BY <1>4, <1>10 DEF W4
  <2>2. W4 + W4 <= W5
    BY <1>5, <1>10 DEF W5
  <2>3. W5 + W5 <= W6
    BY <1>6, <1>10 DEF W6
  <2>4. W6 + W6 <= W7
    BY <1>7, <1>10 DEF W7
  <2>5. W7 + W7 <= W8
    BY <1>8, <1>10 DEF W8
  <2> QED BY <2>1, <2>2, <2>3, <2>4, <2>5, <1>4, <1>5, <1>6, <1>7, <1>8, <1>9
<1>12. W2 = Base /\ W4 = Base2 /\ W6 = Base3 /\ W8 = Base4
  <2>1. W2 = Base
    BY DEF W2, Base
  <2>2. W4 = Base2
    <3>1. W * (W * W2) = (W * W) * W2
      BY <1>2, <1>3, TimesTimes
    <3> QED BY <2>1, <3>1 DEF W4, W3, W2, Base2
  <2>3. W6 = Base3
    <3>1. W * (W * W4) = (W * W) * W4
      BY <1>2, <1>5, TimesTimes
    <3> QED BY <2>1, <2>2, <3>1 DEF W6, W5, W2, Base3
  <2>4. W8 = Base4
    <3>1. W * (W * W6) = (W * W) * W6
      BY <1>2, <1>7, TimesTimes
    <3> QED BY <2>1, <2>3, <3>1 DEF W8, W7, W2, Base4
  <2> QED BY <2>1, <2>2, <2>3, <2>4
<1>13. W3 <= W6
  BY <1>4, <1>5, <1>6, <1>7, <1>11
<1> QED BY <1>2, <1>3, <1>4, <1>5, <1>6, <1>7, <1>8, <1>9, <1>11, <1>12, <1>13

LEMMA PrimeIs ==
    curve_p \in Vlis /\ Value(curve_p) = Prime /\ Prime \in 1 .. Base4 - 1 /\ Prime \in Nat \ {0}
<1>1. Prime \in 1 .. Base4 - 1
  BY HalfPowers DEF Prime
<1>2. curve_p = ToVli(Prime)
  BY HalfPowers DEF curve_p, Prime
<1>3. Prime \in 0 .. Base4 - 1 /\ Prime \in Nat \ {0}
  BY <1>1, WordSizes
<1> QED BY <1>1, <1>2, <1>3, ToVliIs

(* A vli without its lowest words.                                         *)
LEMMA WordsAbove ==
    ASSUME NEW v \in Vlis
    PROVE  /\ Value(v) \div TwoTo[2 * HalfBits * 0] = Value(v)
           /\ Value(v) \div TwoTo[2 * HalfBits * 1] = From1(v)
           /\ Value(v) \div TwoTo[2 * HalfBits * 2] = From2(v)
           /\ Value(v) \div TwoTo[2 * HalfBits * 3] = From3(v)
<1>1. Base \in Nat \ {0} /\ Base2 \in Nat \ {0} /\ Base3 \in Nat \ {0}
  BY WordSizes
<1>2. v[0] \in 0 .. Base - 1 /\ v[1] \in 0 .. Base - 1 /\ v[2] \in 0 .. Base - 1 /\ v[3] \in 0 .. Base - 1
  BY VliIs DEF Word
<1>3. /\ From3(v) \in Int /\ From2(v) \in Int /\ From1(v) \in Int /\ Value(v) \in Int
      /\ Value(v) = v[0] + (Base * From1(v))
  BY ValueIs, VliInts
<1>4. Value(v) \div Base = From1(v)
  <2>1. (v[0] + (Base * From1(v))) \div Base = From1(v)
    BY <1>1, <1>2, <1>3, PartsAre
  <2> QED BY <1>3, <2>1
<1>5. From1(v) \div Base = From2(v)
  BY <1>1, <1>2, <1>3, PartsAre DEF From1
<1>6. From2(v) \div Base = From3(v)
  BY <1>1, <1>2, <1>3, PartsAre DEF From2
<1>7. Value(v) \div Base2 = From2(v)
  BY <1>1, <1>3, <1>4, <1>5, DividedBoth DEF Base2
<1>8. Value(v) \div Base3 = From3(v)
  <2>1. Value(v) \div Base3 = From1(v) \div Base2
    BY <1>1, <1>3, <1>4, DividedBoth DEF Base3
  <2>2. From1(v) \div Base2 = From3(v)
    BY <1>1, <1>3, <1>5, <1>6, DividedBoth DEF Base2
  <2> QED BY <2>1, <2>2
<1>9. Value(v) \div 1 = Value(v)
  BY <1>3
<1> QED BY <1>4, <1>7, <1>8, <1>9, PowersOfBase

(* The highest word that is not 0 is all that is above the words below it. *)
LEMMA TopWord ==
    ASSUME NEW v \in Vlis, NEW i \in Places, \A j \in Places : j > i => v[j] = 0
    PROVE  Value(v) \div TwoTo[2 * HalfBits * i] = v[i] /\ v[i] \in 0 .. Base - 1
<1>1. v[0] \in 0 .. Base - 1 /\ v[1] \in 0 .. Base - 1 /\ v[2] \in 0 .. Base - 1 /\ v[3] \in 0 .. Base - 1
      /\ Base * 0 = 0
  BY VliIs, WordSizes DEF Word
<1>2. CASE i = 3
  BY <1>1, <1>2, WordsAbove DEF From3
<1>3. CASE i = 2
  <2>1. v[3] = 0
    BY <1>3, PlacesAre
  <2>2. From2(v) = v[2]
    BY <1>1, <2>1 DEF From2, From3
  <2> QED BY <1>1, <1>3, <2>2, WordsAbove
<1>4. CASE i = 1
  <2>1. v[3] = 0 /\ v[2] = 0
    BY <1>4, PlacesAre
  <2>2. From2(v) = 0
    BY <1>1, <2>1 DEF From2, From3
  <2>3. From1(v) = v[1]
    BY <1>1, <2>2 DEF From1
  <2> QED BY <1>1, <1>4, <2>3, WordsAbove
<1>5. CASE i = 0
  <2>1. v[3] = 0 /\ v[2] = 0 /\ v[1] = 0
    BY <1>5, PlacesAre
  <2>2. From2(v) = 0
    BY <1>1, <2>1 DEF From2, From3
  <2>3. From1(v) = 0
    BY <1>1, <2>1, <2>2 DEF From1
  <2>4. Value(v) = v[0]
    BY <1>1, <2>3, ValueIs
  <2> QED BY <1>1, <1>5, <2>4, WordsAbove
<1> QED BY <1>2, <1>3, <1>4, <1>5, PlacesAre

LEMMA ZeroValue ==
    ASSUME NEW v \in Vlis
    PROVE  /\ (\A i \in Places : v[i] = 0) <=> Value(v) = 0
           /\ vli_isZero(v) <=> Value(v) = 0
           /\ vli_clear \in Vlis /\ Value(vli_clear) = 0
<1>1. vli_clear \in Vlis
  BY WordSizes DEF Vlis, vli_clear
<1>2. Value(vli_clear) = 0
  <2>1. Base * 0 = 0
    BY WordSizes
  <2> QED BY <2>1, PlacesAre DEF vli_clear, Value
<1>3. (\A i \in Places : v[i] = 0) <=> v = vli_clear
  BY VliIs DEF vli_clear
<1>4. v = vli_clear <=> Value(v) = 0
  BY <1>1, <1>2, ValueOrder
<1> QED BY <1>1, <1>2, <1>3, <1>4 DEF vli_isZero

(* vli_numDigits and vli_numBits.                                          *)
LEMMA NumDigitsIs ==
    ASSUME NEW v \in Vlis, Value(v) # 0
    PROVE  \E i \in Places : vli_numDigits(v) = 1 + i /\ v[i] # 0 /\ \A j \in Places : j > i => v[j] = 0
<1> DEFINE used == {i \in Places : v[i] # 0}
           top == CHOOSE i \in used : \A j \in used : j <= i
<1>1. used \in SUBSET Int /\ used # {}
  BY ZeroValue, PlacesAre
<1>2. PICK i \in used : \A j \in used : j <= i
  BY <1>1, PlacesAre
<1>3. top = i
  <2> HIDE DEF used
  <2> QED BY <1>1, <1>2, TopIs
<1>4. vli_numDigits(v) = 1 + top
  BY <1>1 DEF vli_numDigits
<1>5. i \in Places /\ v[i] # 0 /\ \A j \in Places : j > i => v[j] = 0
  BY <1>2, PlacesAre
<1> QED BY <1>3, <1>4, <1>5

LEMMA NumBitsIs ==
    ASSUME NEW v \in Vlis
    PROVE  /\ Value(v) = 0 => vli_numBits(v) = 0
           /\ Value(v) # 0 => vli_numBits(v) \in Nat \ {0} /\ HasBits(Value(v), vli_numBits(v))
<1>1. CASE Value(v) = 0
  <2>1. vli_numDigits(v) = 0
    BY <1>1, ZeroValue DEF vli_numDigits
  <2> QED BY <1>1, <2>1 DEF vli_numBits
<1>2. CASE Value(v) # 0
  <2>1. PICK i \in Places : vli_numDigits(v) = 1 + i /\ v[i] # 0 /\ \A j \in Places : j > i => v[j] = 0
    BY <1>2, NumDigitsIs
  <2> DEFINE n == vli_numDigits(v)
             top == CHOOSE b \in 1 .. 2 * HalfBits : v[n - 1] \div TwoTo[b - 1] = 1
  <2>2. i \in Nat /\ n = 1 + i /\ n # 0 /\ n - 1 = i
    BY <2>1, PlacesAre
  <2>3. v[i] \in Nat \ {0} /\ v[i] < TwoTo[2 * HalfBits] /\ 2 * HalfBits \in Nat
        /\ Value(v) \div TwoTo[2 * HalfBits * i] = v[i]
    BY <2>1, TopWord, WordSizes
  <2>4. PICK b \in 1 .. v[i] : HasBits(v[i], b)
    BY <2>3, BitsExist
  <2>5. b \in Nat \ {0} /\ b <= 2 * HalfBits
    BY <2>3, <2>4, BitsBound
  <2>6. \E c \in 1 .. 2 * HalfBits : v[n - 1] \div TwoTo[c - 1] = 1
    BY <2>2, <2>3, <2>4, <2>5 DEF HasBits
  <2>7. top \in 1 .. 2 * HalfBits /\ v[n - 1] \div TwoTo[top - 1] = 1
    BY <2>6
  <2>8. vli_numBits(v) = (n - 1) * 2 * HalfBits + top
    BY <2>2 DEF vli_numBits
  <2> HIDE DEF n, top
  <2>9. top \in Nat \ {0} /\ HasBits(v[i], top)
    BY <2>2, <2>3, <2>7 DEF HasBits
  <2>10. 2 * HalfBits * i \in Nat /\ i * 2 * HalfBits = 2 * HalfBits * i
    BY <2>1, PlacesAre, WordSizes
  <2>11. vli_numBits(v) = 2 * HalfBits * i + top
    BY <2>2, <2>8, <2>10
  <2>12. Value(v) \in Nat
    BY VliInts
  <2>13. HasBits(Value(v), (2 * HalfBits * i) + top)
    BY <2>3, <2>9, <2>10, <2>12, BitsShifted
  <2> QED BY <1>2, <2>9, <2>10, <2>11, <2>13
<1> QED BY <1>1, <1>2

-----------------------------------------------------------------------------
(* Bytes.                                                                  *)

LEMMA HalvesAre ==
    ASSUME NEW d \in Word
    PROVE  Hi(d) \in 0 .. W - 1 /\ Lo(d) \in 0 .. W - 1 /\ d = (W * Hi(d)) + Lo(d)
<1>1. W \in Nat \ {0} /\ d \in Int /\ d \in 0 .. (W * W) - 1
  BY WordSizes DEF Word
<1>2. (d % W) \in 0 .. W - 1 /\ d = (W * (d \div W)) + (d % W)
  BY <1>1, Division
<1>3. (d \div W) \in 0 .. W - 1
  BY <1>1, QuotientBelow
<1> QED BY <1>2, <1>3 DEF Hi, Lo

LEMMA BytesAre ==
    ASSUME NEW v \in Vlis
    PROVE  LET b == ecc_native2bytes(v)
           IN /\ b \in Bytes
              /\ b[1] = Hi(v[3]) /\ b[2] = Lo(v[3]) /\ b[3] = Hi(v[2]) /\ b[4] = Lo(v[2])
              /\ b[5] = Hi(v[1]) /\ b[6] = Lo(v[1]) /\ b[7] = Hi(v[0]) /\ b[8] = Lo(v[0])
<1> DEFINE b == ecc_native2bytes(v)
<1>1. \A k \in 1 .. 8 : b[k] = IF k % 2 = 1 THEN Hi(v[3 - (k - 1) \div 2]) ELSE Lo(v[3 - (k - 1) \div 2])
  BY DEF ecc_native2bytes, Digits
<1>2. b = [k \in 1 .. 8 |-> b[k]]
  BY DEF ecc_native2bytes, Digits
<1> HIDE DEF b
<1>3. /\ b[1] = Hi(v[3]) /\ b[2] = Lo(v[3]) /\ b[3] = Hi(v[2]) /\ b[4] = Lo(v[2])
      /\ b[5] = Hi(v[1]) /\ b[6] = Lo(v[1]) /\ b[7] = Hi(v[0]) /\ b[8] = Lo(v[0])
  BY <1>1
<1>4. /\ Hi(v[3]) \in 0 .. W - 1 /\ Lo(v[3]) \in 0 .. W - 1 /\ Hi(v[2]) \in 0 .. W - 1
      /\ Lo(v[2]) \in 0 .. W - 1 /\ Hi(v[1]) \in 0 .. W - 1 /\ Lo(v[1]) \in 0 .. W - 1
      /\ Hi(v[0]) \in 0 .. W - 1 /\ Lo(v[0]) \in 0 .. W - 1
  BY VliIs, HalvesAre
<1>5. \A k \in 1 .. 8 : b[k] \in 0 .. W - 1
  <2> TAKE k \in 1 .. 8
  <2>1. k = 1 \/ k = 2 \/ k = 3 \/ k = 4 \/ k = 5 \/ k = 6 \/ k = 7 \/ k = 8
    OBVIOUS
  <2> QED BY <1>3, <1>4, <2>1
<1>6. b \in Bytes
  BY <1>2, <1>5 DEF Bytes, Digits
<1> QED BY <1>3, <1>6 DEF b

(* ecc_native2bytes, and ecc_bytes2native back.                            *)
LEMMA BytesReadBack ==
    ASSUME NEW v \in Vlis
    PROVE  ecc_bytes2native(ecc_native2bytes(v)) = v
<1> DEFINE b == ecc_native2bytes(v)
           x == ecc_bytes2native(b)
<1>1. \A i \in Places : x[i] = b[(2 * (3 - i)) + 1] * W + b[(2 * (3 - i)) + 2]
  BY DEF ecc_bytes2native, Digits
<1>2. x = [i \in Places |-> x[i]]
  BY DEF ecc_bytes2native
<1>3. /\ b[1] = Hi(v[3]) /\ b[2] = Lo(v[3]) /\ b[3] = Hi(v[2]) /\ b[4] = Lo(v[2])
      /\ b[5] = Hi(v[1]) /\ b[6] = Lo(v[1]) /\ b[7] = Hi(v[0]) /\ b[8] = Lo(v[0])
  BY BytesAre
<1> HIDE DEF b, x
<1>4. /\ x[0] = b[7] * W + b[8] /\ x[1] = b[5] * W + b[6]
      /\ x[2] = b[3] * W + b[4] /\ x[3] = b[1] * W + b[2]
  BY <1>1, PlacesAre
<1>5. \A d \in Word : Hi(d) * W + Lo(d) = d
  <2> TAKE d \in Word
  <2>1. Hi(d) \in Int /\ Lo(d) \in Int /\ W \in Int /\ d = (W * Hi(d)) + Lo(d)
    BY HalvesAre, WordSizes
  <2>2. Hi(d) * W = W * Hi(d)
    BY <2>1, TimesSum
  <2> QED BY <2>1, <2>2
<1>6. x[0] = v[0] /\ x[1] = v[1] /\ x[2] = v[2] /\ x[3] = v[3]
  BY <1>3, <1>4, <1>5, VliIs
<1>7. v = [i \in Places |-> v[i]]
  BY VliIs
<1>8. \A i \in Places : x[i] = v[i]
  BY <1>6, PlacesAre
<1>9. x = v
  BY <1>2, <1>7, <1>8
<1> QED BY <1>9 DEF x, b

LEMMA ReadByBytes ==
    ASSUME NEW bytes
    PROVE  BigEndian(bytes) = ReadUp(bytes)[2 * Digits]
BY DEF BigEndian, ReadUp, ReadByte

LEMMA ReadUpIs ==
    ASSUME NEW bytes \in Bytes
    PROVE  LET r == ReadUp(bytes)
           IN /\ r[0] = 0 /\ \A k \in 0 .. 8 : r[k] \in Nat
              /\ \A k \in 1 .. 8 : r[k] = r[k - 1] * W + bytes[k]
<1> DEFINE r == ReadUp(bytes)
           step == [p \in (1 .. 8) \X Nat |-> p[2] * W + bytes[p[1]]]
<1>1. \A k \in 1 .. 8 : \A n \in Nat : n * W + bytes[k] \in Nat
  <2> TAKE k \in 1 .. 8, n \in Nat
  <2>1. W * n \in Nat /\ n * W = W * n /\ bytes[k] \in Nat
    <3>1. W \in Nat /\ n \in Int
      BY WordSizes
    <3>2. W * n \in Nat /\ n * W = W * n
      BY <3>1, TimesGrows, TimesSum
    <3>3. bytes[k] \in 0 .. W - 1
      BY DEF Bytes, Digits
    <3> QED BY <3>1, <3>2, <3>3
  <2> QED BY <2>1
<1>2. step \in [(1 .. 8) \X Nat -> Nat]
  BY <1>1
<1>3. \A k \in 1 .. 8 : \A n \in Nat : step[<<k, n>>] = n * W + bytes[k]
  OBVIOUS
<1> HIDE DEF step
<1>4. PICK f \in [0 .. 8 -> Nat] : Chained(f, 8, 0, step)
  BY <1>2, Chain
<1>5. f = [k \in 0 .. 8 |-> ReadByte(bytes, f, k)]
  <2>1. f = [k \in 0 .. 8 |-> IF k = 0 THEN 0 ELSE step[<<k, f[k - 1]>>]]
    BY <1>4 DEF Chained
  <2>2. \A k \in 0 .. 8 : (IF k = 0 THEN 0 ELSE step[<<k, f[k - 1]>>]) = ReadByte(bytes, f, k)
    <3> TAKE k \in 0 .. 8
    <3>1. CASE k = 0
      BY <3>1 DEF ReadByte
    <3>2. CASE k # 0
      <4>1. k \in 1 .. 8 /\ k - 1 \in 0 .. 8
        BY <3>2
      <4>2. f[k - 1] \in Nat
        BY <4>1
      <4> QED BY <1>3, <3>2, <4>1, <4>2 DEF ReadByte
    <3> QED BY <3>1, <3>2
  <2> QED BY <2>1, <2>2
<1>6. r = [k \in 0 .. 8 |-> ReadByte(bytes, r, k)] /\ 2 * Digits = 8
  <2>1. 2 * Digits = 8
    BY DEF Digits
  <2> QED BY <1>5, <2>1 DEF ReadUp
<1> HIDE DEF r
<1>7. r[0] = 0
  BY <1>6 DEF ReadByte
<1>8. \A k \in 1 .. 8 : r[k] = r[k - 1] * W + bytes[k]
  BY <1>6 DEF ReadByte
<1>9. \A k \in 0 .. 8 : r[k] \in Nat
  <2> DEFINE S == {k \in 0 .. 8 : r[k] \in Nat}
  <2>1. 0 \in S
    BY <1>7
  <2>2. ASSUME NEW k \in 0 .. 8 - 1, k \in S PROVE k + 1 \in S
    <3>1. k + 1 \in 1 .. 8 /\ (k + 1) - 1 = k /\ r[k] \in Nat
      BY <2>2
    <3>2. r[k + 1] = r[k] * W + bytes[k + 1]
      BY <1>8, <3>1
    <3>3. r[k] * W + bytes[k + 1] \in Nat
      BY <1>1, <3>1
    <3> QED BY <3>1, <3>2, <3>3
  <2> HIDE DEF S
  <2>3. 0 .. 8 \subseteq S
    BY <2>1, <2>2, InductTo
  <2> QED BY <2>3 DEF S
<1> QED BY <1>7, <1>8, <1>9 DEF r

LEMMA BigEndianIs ==
    ASSUME NEW v \in Vlis
    PROVE  BigEndian(ecc_native2bytes(v)) = Value(v)
<1> DEFINE b == ecc_native2bytes(v)
           r == ReadUp(b)
<1>1. /\ b \in Bytes
      /\ b[1] = Hi(v[3]) /\ b[2] = Lo(v[3]) /\ b[3] = Hi(v[2]) /\ b[4] = Lo(v[2])
      /\ b[5] = Hi(v[1]) /\ b[6] = Lo(v[1]) /\ b[7] = Hi(v[0]) /\ b[8] = Lo(v[0])
  BY BytesAre
<1> HIDE DEF b
<1>2. /\ r[0] = 0 /\ \A k \in 0 .. 8 : r[k] \in Nat
      /\ \A k \in 1 .. 8 : r[k] = r[k - 1] * W + b[k]
  BY <1>1, ReadUpIs
<1>3. BigEndian(b) = r[8]
  <2>1. 2 * Digits = 8
    BY DEF Digits
  <2> QED BY <2>1, ReadByBytes
<1> HIDE DEF r
<1>4. ASSUME NEW a \in Nat, NEW d \in Word
      PROVE  (a * W + Hi(d)) * W + Lo(d) = d + (Base * a)
  <2> DEFINE h == Hi(d)
             o == Lo(d)
  <2>1. h \in Int /\ o \in Int /\ W \in Int /\ d = (W * h) + o /\ a \in Int
    BY <1>4, HalvesAre, WordSizes
  <2> HIDE DEF h, o
  <2>2. a * W \in Int /\ (a * W + h) * W = W * (a * W + h) /\ W * (a * W + h) = (W * (a * W)) + (W * h)
    BY ONLY <2>1, TimesSum
  <2>3. W * (a * W) = Base * a
    <3>1. a * W = W * a /\ W * (W * a) = (W * W) * a
      BY ONLY <2>1, TimesSum, TimesTimes
    <3> QED BY <3>1 DEF Base
  <2>4. Base * a \in Int /\ W * h \in Int
    BY <2>1, <2>2, <2>3, TimesSum, TimesTimes, WordSizes
  <2>5. (a * W + h) * W + o = d + (Base * a)
    BY <2>1, <2>2, <2>3, <2>4
  <2> QED BY <2>5 DEF h, o
<1>5. ASSUME NEW k \in {2, 4, 6, 8}, NEW d \in Word, b[k - 1] = Hi(d), b[k] = Lo(d)
      PROVE  r[k] = d + (Base * r[k - 2])
  <2>1. k \in 1 .. 8 /\ k - 1 \in 1 .. 8 /\ k - 2 \in 0 .. 8 /\ (k - 1) - 1 = k - 2
    BY <1>5
  <2>2. r[k] = r[k - 1] * W + b[k] /\ r[k - 1] = r[k - 2] * W + b[k - 1]
    BY <1>2, <2>1
  <2>3. r[k] = (r[k - 2] * W + Hi(d)) * W + Lo(d) /\ r[k - 2] \in Nat
    BY <1>2, <1>5, <2>1, <2>2
  <2> QED BY <1>4, <2>3
<1>6. r[2] = v[3] + (Base * r[0]) /\ r[4] = v[2] + (Base * r[2])
      /\ r[6] = v[1] + (Base * r[4]) /\ r[8] = v[0] + (Base * r[6])
  <2>1. v[0] \in Word /\ v[1] \in Word /\ v[2] \in Word /\ v[3] \in Word
    BY VliIs
  <2>2. 2 - 1 = 1 /\ 2 - 2 = 0 /\ 4 - 1 = 3 /\ 4 - 2 = 2 /\ 6 - 1 = 5 /\ 6 - 2 = 4 /\ 8 - 1 = 7 /\ 8 - 2 = 6
    OBVIOUS
  <2>3. r[2] = v[3] + (Base * r[0])
    BY <1>1, <1>5, <2>1, <2>2
  <2>4. r[4] = v[2] + (Base * r[2])
    BY <1>1, <1>5, <2>1, <2>2
  <2>5. r[6] = v[1] + (Base * r[4])
    BY <1>1, <1>5, <2>1, <2>2
  <2>6. r[8] = v[0] + (Base * r[6])
    BY <1>1, <1>5, <2>1, <2>2
  <2> QED BY <2>3, <2>4, <2>5, <2>6
<1>7. r[2] = v[3]
  <2>1. Base * 0 = 0 /\ v[3] \in Int
    BY VliIs, WordSizes DEF Word
  <2> QED BY <1>2, <1>6, <2>1
<1>8. r[8] = Value(v)
  <2>1. r[4] = From2(v)
    BY <1>6, <1>7 DEF From2, From3
  <2>2. r[6] = From1(v)
    BY <1>6, <2>1 DEF From1
  <2> QED BY <1>6, <2>2, ValueIs
<1> QED BY <1>3, <1>8 DEF b

-----------------------------------------------------------------------------
(* Products.                                                               *)

LEMMA TermIs ==
    ASSUME NEW t \in Term
    PROVE  TermValue(t) \in Nat /\ t.low \in 0 .. Base2 - 1 /\ t.high \in Nat
<1>1. t.low \in 0 .. Base2 - 1 /\ t.high \in Nat
  BY DEF Term
<1>2. Base2 \in Nat
  BY WordSizes
<1>3. Base2 * t.high \in Nat
  BY <1>1, <1>2, TimesGrows
<1> QED BY <1>1, <1>2, <1>3 DEF TermValue

(* No overflow of two words is lost.                                       *)
LEMMA AccumulateIs ==
    ASSUME NEW a \in Acc, NEW t \in Term
    PROVE  /\ Accumulate(a, t) \in Acc
           /\ Weight(Accumulate(a, t)) = Weight(a) + TermValue(t)
<1> DEFINE m == Base2
           x == a.r01
           y == a.r2
           z == t.low
           w == t.high
           s == (x + z) % m
           c == Bit(s < z)
           g == Accumulate(a, t)
<1>1. x \in 0 .. m - 1 /\ y \in Nat /\ z \in 0 .. m - 1 /\ w \in Nat /\ m \in Nat \ {0}
  BY TermIs, WordSizes DEF Acc
<1>2. Base * Base = m
  BY DEF Base2
<1>3. g = [r01 |-> s, r2 |-> y + w + c]
  BY <1>2 DEF Accumulate
<1>4. s \in 0 .. m - 1 /\ c \in {0, 1} /\ s + (m * c) = x + z
  <2> DEFINE n == x + z
  <2>1. n \in Int /\ n \in 0 .. (2 * m) - 1
    BY <1>1
  <2>2. CASE n < m
    <3>1. n \in 0 .. m - 1
      BY <1>1, <2>1, <2>2
    <3> HIDE DEF n
    <3>2. n % m = n
      BY ONLY <1>1, <2>1, <3>1, OnceAround
    <3>3. s = x + z
      BY <3>2 DEF n
    <3> HIDE DEF s
    <3>4. ~(s < z) /\ s \in 0 .. m - 1
      BY <1>1, <2>2, <3>3 DEF n
    <3>5. c = 0 /\ m * 0 = 0
      BY <1>1, <3>4 DEF Bit
    <3> HIDE DEF c, m, x, z
    <3> QED BY <1>1, <3>3, <3>4, <3>5
  <2>3. CASE n >= m
    <3>1. n \in m .. (2 * m) - 1
      BY <2>1, <2>3
    <3> HIDE DEF n
    <3>2. n % m = n - m
      BY ONLY <1>1, <2>1, <3>1, OnceAround
    <3>3. s = (x + z) - m
      BY <3>2 DEF n
    <3> HIDE DEF s
    <3>4. s < z /\ s \in 0 .. m - 1
      BY <1>1, <2>3, <3>3 DEF n
    <3>5. c = 1 /\ m * 1 = m
      BY <1>1, <3>4 DEF Bit
    <3> HIDE DEF c, m, x, z
    <3> QED BY <1>1, <3>3, <3>4, <3>5
  <2> QED BY <1>1, <2>1, <2>2, <2>3
<1> HIDE DEF s, c, g
<1>5. g \in Acc
  BY <1>1, <1>3, <1>4 DEF Acc
<1>6. Weight(g) = s + (m * (y + w + c))
  BY <1>3 DEF Weight
<1>7. m * (y + w + c) = (m * y) + (m * w) + (m * c) /\ m * y \in Int /\ m * w \in Int /\ m * c \in Int
  <2>1. m \in Int /\ y \in Int /\ w \in Int /\ c \in Int
    BY <1>1, <1>4
  <2> HIDE DEF m, y, w
  <2>2. m * (y + (w + c)) = (m * y) + (m * (w + c)) /\ m * (w + c) = (m * w) + (m * c)
        /\ m * y \in Int /\ m * w \in Int /\ m * c \in Int
    BY <2>1, TimesSum
  <2>3. y + w + c = y + (w + c)
    BY <2>1
  <2> QED BY <2>2, <2>3
<1>8. Weight(a) = x + (m * y) /\ TermValue(t) = z + (m * w)
  BY DEF Weight, TermValue
<1>9. Weight(g) = Weight(a) + TermValue(t)
  <2> HIDE DEF m, x, y, z, w
  <2> QED BY <1>1, <1>4, <1>6, <1>7, <1>8
<1> QED BY <1>5, <1>9 DEF g

LEMMA GatheredBySteps ==
    ASSUME NEW rest, NEW terms
    PROVE  Gathered(rest, terms) = Gathering(rest, terms)[Len(terms)]
BY DEF Gathered, Gathering, GatherStep

LEMMA GatheringIs ==
    ASSUME NEW rest \in 0 .. Base2 - 1, NEW terms \in Seq(Term)
    PROVE  LET acc == Gathering(rest, terms)
           IN /\ Weight(acc[0]) = rest
              /\ \A j \in 0 .. Len(terms) : acc[j] \in Acc
              /\ \A j \in 1 .. Len(terms) : Weight(acc[j]) = Weight(acc[j - 1]) + TermValue(terms[j])
<1> DEFINE acc == Gathering(rest, terms)
           n == Len(terms)
           first == [r01 |-> rest, r2 |-> 0]
           step == [p \in (1 .. n) \X Acc |-> Accumulate(p[2], terms[p[1]])]
<1>1. n \in Nat /\ \A j \in 1 .. n : terms[j] \in Term
  OBVIOUS
<1>2. first \in Acc /\ Weight(first) = rest
  <2>1. first \in Acc /\ rest \in Int /\ Base2 * 0 = 0
    BY WordSizes DEF Acc
  <2> QED BY <2>1 DEF Weight
<1> HIDE DEF n
<1>3. step \in [(1 .. n) \X Acc -> Acc] /\ \A j \in 1 .. n : \A a \in Acc : step[<<j, a>>] = Accumulate(a, terms[j])
  <2>1. \A j \in 1 .. n : \A a \in Acc : Accumulate(a, terms[j]) \in Acc
    BY <1>1, AccumulateIs
  <2> QED BY <2>1
<1> HIDE DEF step
<1>4. PICK f \in [0 .. n -> Acc] : Chained(f, n, first, step)
  <2> HIDE DEF first
  <2> QED BY <1>1, <1>2, <1>3, Chain
<1>5. f = [j \in 0 .. n |-> GatherStep(rest, terms, f, j)]
  <2>1. f = [j \in 0 .. n |-> IF j = 0 THEN first ELSE step[<<j, f[j - 1]>>]]
    BY <1>4 DEF Chained
  <2>2. \A j \in 0 .. n : (IF j = 0 THEN first ELSE step[<<j, f[j - 1]>>]) = GatherStep(rest, terms, f, j)
    <3> TAKE j \in 0 .. n
    <3>1. CASE j = 0
      BY <3>1 DEF GatherStep
    <3>2. CASE j # 0
      <4>1. j \in 1 .. n /\ j - 1 \in 0 .. n
        BY <1>1, <3>2
      <4>2. f[j - 1] \in Acc
        BY <4>1
      <4> QED BY <1>3, <3>2, <4>1, <4>2 DEF GatherStep
    <3> QED BY <3>1, <3>2
  <2> QED BY <2>1, <2>2
<1>6. acc = [j \in 0 .. n |-> GatherStep(rest, terms, acc, j)]
  BY <1>5 DEF Gathering, n
<1> HIDE DEF acc, first
<1>7. acc[0] = first /\ \A j \in 1 .. n : acc[j] = Accumulate(acc[j - 1], terms[j])
  <2>1. 0 \in 0 .. n /\ \A j \in 1 .. n : j \in 0 .. n /\ j # 0
    BY <1>1
  <2>2. acc[0] = GatherStep(rest, terms, acc, 0) /\ \A j \in 1 .. n : acc[j] = GatherStep(rest, terms, acc, j)
    BY <1>6, <2>1
  <2> QED BY <2>1, <2>2 DEF GatherStep, first
<1>8. \A j \in 0 .. n : acc[j] \in Acc
  <2> DEFINE S == {j \in 0 .. n : acc[j] \in Acc}
  <2>1. 0 \in S
    BY <1>1, <1>2, <1>7
  <2>2. ASSUME NEW j \in 0 .. n - 1, j \in S PROVE j + 1 \in S
    <3>1. j + 1 \in 1 .. n /\ (j + 1) - 1 = j /\ j + 1 \in 0 .. n /\ acc[j] \in Acc
      BY <1>1, <2>2
    <3>2. acc[j + 1] = Accumulate(acc[j], terms[j + 1])
      BY <1>7, <3>1
    <3>3. Accumulate(acc[j], terms[j + 1]) \in Acc
      BY <1>1, <3>1, AccumulateIs
    <3> QED BY <3>1, <3>2, <3>3
  <2> HIDE DEF S
  <2>3. 0 .. n \subseteq S
    <3>1. n \in Int /\ 0 \in Int
      BY <1>1
    <3> QED BY ONLY <3>1, <2>1, <2>2, InductTo
  <2> QED BY <2>3 DEF S
<1>9. \A j \in 1 .. n : Weight(acc[j]) = Weight(acc[j - 1]) + TermValue(terms[j])
  <2> TAKE j \in 1 .. n
  <2>1. j - 1 \in 0 .. n
    BY <1>1
  <2> QED BY <1>1, <1>7, <1>8, <2>1, AccumulateIs
<1> QED BY <1>2, <1>7, <1>8, <1>9 DEF acc, n

LEMMA AddsTerms ==
    ASSUME NEW terms \in Seq(Term), Len(terms) \in 1 .. 4
    PROVE  /\ Len(terms) = 1 => Adds(terms, TermValue(terms[1]))
           /\ Len(terms) = 2 => Adds(terms, TermValue(terms[1]) + TermValue(terms[2]))
           /\ Len(terms) = 3 =>
                  Adds(terms, TermValue(terms[1]) + TermValue(terms[2]) + TermValue(terms[3]))
           /\ Len(terms) = 4 =>
                  Adds(terms, TermValue(terms[1]) + TermValue(terms[2]) + TermValue(terms[3])
                              + TermValue(terms[4]))
<1> DEFINE n == Len(terms)
           v == [j \in 1 .. n |-> TermValue(terms[j])]
<1>1. n \in 1 .. 4 /\ \A j \in 1 .. n : v[j] = TermValue(terms[j]) /\ v[j] \in Nat
  BY TermIs
<1> HIDE DEF v, n
<1>2. ASSUME NEW rest \in 0 .. Base2 - 1
      PROVE  /\ Gathered(rest, terms) \in Acc /\ rest \in Nat
             /\ n = 1 => Weight(Gathered(rest, terms)) = rest + v[1]
             /\ n = 2 => Weight(Gathered(rest, terms)) = rest + (v[1] + v[2])
             /\ n = 3 => Weight(Gathered(rest, terms)) = rest + (v[1] + v[2] + v[3])
             /\ n = 4 => Weight(Gathered(rest, terms)) = rest + (v[1] + v[2] + v[3] + v[4])
  <2> DEFINE acc == Gathering(rest, terms)
             w == [j \in 0 .. n |-> Weight(acc[j])]
  <2>1. /\ Weight(acc[0]) = rest
        /\ \A j \in 0 .. n : acc[j] \in Acc
        /\ \A j \in 1 .. n : Weight(acc[j]) = Weight(acc[j - 1]) + TermValue(terms[j])
    BY <1>2, GatheringIs DEF n
  <2>2. Gathered(rest, terms) = acc[n]
    BY GatheredBySteps DEF n
  <2> HIDE DEF acc
  <2>3. w[0] = rest /\ \A j \in 0 .. n : w[j] = Weight(acc[j])
    BY <1>1, <2>1
  <2>4. \A j \in 1 .. n : w[j] = w[j - 1] + v[j]
    <3> TAKE j \in 1 .. n
    <3>1. j \in 0 .. n /\ j - 1 \in 0 .. n
      BY <1>1
    <3> QED BY <1>1, <2>1, <2>3, <3>1
  <2>5. rest \in Nat /\ n \in 0 .. n
    BY <1>1, WordSizes
  <2> HIDE DEF w
  <2>6. ASSUME n = 1 PROVE w[n] = rest + v[1]
    <3>1. w[1] = w[0] + v[1]
      BY <2>4, <2>6
    <3> QED BY <2>3, <2>6, <3>1
  <2>7. ASSUME n = 2 PROVE w[n] = rest + (v[1] + v[2])
    <3>1. w[1] = w[0] + v[1] /\ w[2] = w[1] + v[2] /\ v[1] \in Nat /\ v[2] \in Nat
      BY <1>1, <2>4, <2>7
    <3> QED BY <2>3, <2>5, <2>7, <3>1
  <2>8. ASSUME n = 3 PROVE w[n] = rest + (v[1] + v[2] + v[3])
    <3>1. w[1] = w[0] + v[1] /\ w[2] = w[1] + v[2] /\ w[3] = w[2] + v[3]
          /\ v[1] \in Nat /\ v[2] \in Nat /\ v[3] \in Nat
      BY <1>1, <2>4, <2>8
    <3> QED BY <2>3, <2>5, <2>8, <3>1
  <2>9. ASSUME n = 4 PROVE w[n] = rest + (v[1] + v[2] + v[3] + v[4])
    <3>1. w[1] = w[0] + v[1] /\ w[2] = w[1] + v[2] /\ w[3] = w[2] + v[3] /\ w[4] = w[3] + v[4]
          /\ v[1] \in Nat /\ v[2] \in Nat /\ v[3] \in Nat /\ v[4] \in Nat
      BY <1>1, <2>4, <2>9
    <3> QED BY <2>3, <2>5, <2>9, <3>1
  <2>10. Weight(Gathered(rest, terms)) = w[n] /\ Gathered(rest, terms) \in Acc
    BY <2>1, <2>2, <2>3, <2>5
  <2> QED BY <2>5, <2>6, <2>7, <2>8, <2>9, <2>10
<1>3. CASE n = 1
  <2>1. Adds(terms, v[1]) /\ v[1] = TermValue(terms[1])
    BY <1>1, <1>2, <1>3 DEF Adds
  <2> QED BY <1>3, <2>1 DEF n
<1>4. CASE n = 2
  <2>1. Adds(terms, v[1] + v[2]) /\ v[1] = TermValue(terms[1]) /\ v[2] = TermValue(terms[2])
    BY <1>1, <1>2, <1>4 DEF Adds
  <2> QED BY <1>4, <2>1 DEF n
<1>5. CASE n = 3
  <2>1. Adds(terms, v[1] + v[2] + v[3]) /\ v[1] = TermValue(terms[1]) /\ v[2] = TermValue(terms[2])
        /\ v[3] = TermValue(terms[3])
    BY <1>1, <1>2, <1>5 DEF Adds
  <2> QED BY <1>5, <2>1 DEF n
<1>6. CASE n = 4
  <2>1. Adds(terms, v[1] + v[2] + v[3] + v[4]) /\ v[1] = TermValue(terms[1])
        /\ v[2] = TermValue(terms[2]) /\ v[3] = TermValue(terms[3]) /\ v[4] = TermValue(terms[4])
    BY <1>1, <1>2, <1>6 DEF Adds
  <2> QED BY <1>6, <2>1 DEF n
<1> QED BY <1>1, <1>3, <1>4, <1>5, <1>6 DEF n

LEMMA RestIs ==
    /\ Rest \subseteq 0 .. Base2 - 1 /\ MostRest \in Nat /\ MostSum \in Nat
    /\ MostRest + MostSum = Base * MostRest
<1>1. Base \in Nat /\ Base >= 4 /\ Base - 1 \in Nat
  BY WordSizes
<1>2. MostRest \in Nat
  BY <1>1 DEF MostRest
<1>3. MostSum = (Base - 1) * MostRest /\ MostSum \in Nat
  BY <1>1, <1>2, TimesGrows, TimesSum DEF MostSum
<1>4. Base * MostRest = MostRest + MostSum
  <2> DEFINE c == MostRest
             d == Base - 1
  <2>1. c \in Int /\ d \in Int /\ 1 \in Int /\ Base = 1 + d
    BY <1>1, <1>2
  <2> HIDE DEF c, d
  <2>2. c * (1 + d) = (c * 1) + (c * d) /\ (1 + d) * c = c * (1 + d) /\ c * 1 = c
    BY <2>1, TimesSum
  <2>3. Base * c = c + (c * d)
    BY <2>1, <2>2
  <2> QED BY <2>3 DEF c, d, MostSum
<1>5. MostRest <= Base2 - 1
  <2>1. Base * 4 <= Base * Base
    BY <1>1, TimesGrows
  <2> QED BY <1>1, <2>1 DEF MostRest, Base2
<1> QED BY <1>2, <1>3, <1>4, <1>5, WordSizes DEF Rest

(* One column.                                                             *)
LEMMA ColumnIs ==
    ASSUME NEW rest \in Rest, NEW terms, NEW s \in 0 .. MostSum, Adds(terms, s)
    PROVE  /\ NextColumn(rest, terms) \in ColumnPair
           /\ NextColumn(rest, terms).digit + (Base * NextColumn(rest, terms).rest) = rest + s
<1> DEFINE g == Gathered(rest, terms)
           x == g.r01
           y == g.r2
           d == x % Base
           q == x \div Base
           c == NextColumn(rest, terms)
           z == q + y * Base
<1>1. g \in Acc /\ Weight(g) = rest + s /\ rest \in Nat /\ s \in Nat
  BY RestIs DEF Adds, Rest
<1>2. x \in 0 .. Base2 - 1 /\ y \in Nat /\ Base \in Nat \ {0} /\ Base2 = Base * Base
      /\ x + (Base2 * y) = rest + s
  BY <1>1, WordSizes DEF Acc, Weight, Base2
<1>3. c = [digit |-> d, rest |-> z]
  BY DEF NextColumn, Low
<1> HIDE DEF g, x, y, c
<1>4. d \in Word /\ x = (Base * q) + d /\ q \in 0 .. Base - 1
  <2>1. x \in Int /\ x \in 0 .. (Base * Base) - 1
    BY <1>2
  <2>2. d \in 0 .. Base - 1 /\ x = (Base * q) + d
    BY <1>2, <2>1, Division
  <2>3. q \in 0 .. Base - 1
    BY <1>2, <2>1, QuotientBelow
  <2> QED BY <2>2, <2>3 DEF Word
<1> HIDE DEF d, q
<1>5. Base * z = (Base * q) + (Base2 * y) /\ z \in Nat
  <2>1. q \in Int /\ y \in Int /\ Base \in Int
    BY <1>2, <1>4
  <2>2. Base * (q + (y * Base)) = (Base * q) + (Base * (y * Base)) /\ y * Base = Base * y
        /\ Base * (Base * y) = (Base * Base) * y
    BY <2>1, TimesSum, TimesTimes
  <2>3. Base * y \in Nat
    BY <1>2, TimesGrows
  <2> QED BY <1>2, <1>4, <2>2, <2>3
<1> HIDE DEF z
<1>6. d + (Base * z) = rest + s
  BY <1>1, <1>2, <1>4, <1>5, TimesSum DEF Word
<1>7. z <= MostRest
  <2>1. ASSUME z > MostRest PROVE FALSE
    <3>1. (Base * MostRest) + Base <= Base * z /\ Base * MostRest \in Int /\ Base * z \in Int
      BY <1>2, <1>5, <2>1, RestIs, TimesGrows, TimesSum
    <3>2. Base * MostRest = MostRest + MostSum /\ rest <= MostRest /\ s <= MostSum /\ d >= 0
      BY <1>4, RestIs DEF Rest, Word
    <3> QED BY <1>1, <1>2, <1>4, <1>6, <3>1, <3>2, RestIs DEF Word
  <2> QED BY <1>5, <2>1, RestIs
<1>8. c \in ColumnPair
  BY <1>3, <1>4, <1>5, <1>7 DEF ColumnPair, Rest
<1> QED BY <1>3, <1>6, <1>8 DEF c

LEMMA ColumnsByStep ==
    ASSUME NEW terms
    PROVE  Columns(terms) = [k \in 0 .. 2 * Digits - 1 |->
                               IF k = 2 * Digits - 1 THEN Low(Columned(terms)[k - 1].rest)
                               ELSE Columned(terms)[k].digit]
<1> DEFINE C(k) == LET acc == Gathered(Columned(terms)[k - 1].rest, terms[k])
                   IN  [digit |-> Low(acc.r01), rest |-> acc.r01 \div Base + acc.r2 * Base]
<1> QED BY DEF Columns, Columned, ColumnStep, NextColumn

LEMMA ColumnedIs ==
    ASSUME NEW terms, NEW S, Sums7(S, terms)
    PROVE  LET c == Columned(terms)
           IN /\ c[-1].rest = 0
              /\ \A k \in -1 .. 6 : c[k] \in ColumnPair
              /\ \A k \in 0 .. 6 : c[k].digit + (Base * c[k].rest) = c[k - 1].rest + S[k]
<1> DEFINE c == Columned(terms)
           first == [digit |-> 0, rest |-> 0]
           step == [p \in (1 .. 7) \X ColumnPair |-> NextColumn(p[2].rest, terms[p[1] - 1])]
<1>1. ASSUME NEW k \in 0 .. 6, NEW p \in ColumnPair
      PROVE  /\ NextColumn(p.rest, terms[k]) \in ColumnPair
             /\ NextColumn(p.rest, terms[k]).digit + (Base * NextColumn(p.rest, terms[k]).rest) = p.rest + S[k]
  <2>1. p.rest \in Rest /\ S[k] \in 0 .. MostSum /\ Adds(terms[k], S[k])
    BY <1>1 DEF ColumnPair, Sums7
  <2> QED BY <2>1, ColumnIs
<1>2. first \in ColumnPair
  BY RestIs, WordSizes DEF ColumnPair, Rest, Word
<1>3. /\ step \in [(1 .. 7) \X ColumnPair -> ColumnPair]
      /\ \A k \in 1 .. 7 : \A p \in ColumnPair : step[<<k, p>>] = NextColumn(p.rest, terms[k - 1])
  <2>1. \A k \in 1 .. 7 : \A p \in ColumnPair : NextColumn(p.rest, terms[k - 1]) \in ColumnPair
    <3> SUFFICES ASSUME NEW k \in 1 .. 7, NEW p \in ColumnPair
                 PROVE  NextColumn(p.rest, terms[k - 1]) \in ColumnPair
      OBVIOUS
    <3>1. k - 1 \in 0 .. 6
      OBVIOUS
    <3> QED BY <1>1, <3>1
  <2> QED BY <2>1
<1> HIDE DEF step, first
<1>4. PICK f \in [0 .. 7 -> ColumnPair] : Chained(f, 7, first, step)
  BY <1>2, <1>3, Chain
<1> DEFINE h == [k \in -1 .. 6 |-> f[k + 1]]
<1>5. \A k \in 0 .. 7 : f[k] = IF k = 0 THEN first ELSE step[<<k, f[k - 1]>>]
  BY <1>4 DEF Chained
<1>6. h = [k \in -1 .. 6 |-> ColumnStep(terms, h, k)]
  <2>1. ASSUME NEW k \in -1 .. 6 PROVE f[k + 1] = ColumnStep(terms, h, k)
    <3>1. CASE k = -1
      <4>1. f[0] = first
        BY <1>5
      <4> QED BY <3>1, <4>1 DEF ColumnStep, first
    <3>2. CASE k # -1
      <4>1. k \in 0 .. 6 /\ k + 1 \in 1 .. 7 /\ (k + 1) - 1 = k /\ k - 1 \in -1 .. 6 /\ (k - 1) + 1 = k
        BY <2>1, <3>2
      <4>2. h[k - 1] = f[k] /\ f[k] \in ColumnPair
        BY <4>1
      <4> HIDE DEF h
      <4>3. f[k + 1] = step[<<k + 1, f[k]>>]
        BY <1>5, <4>1
      <4>4. step[<<k + 1, f[k]>>] = NextColumn(f[k].rest, terms[k])
        BY <1>3, <4>1, <4>2
      <4> QED BY <3>2, <4>2, <4>3, <4>4 DEF ColumnStep
    <3> QED BY <3>1, <3>2
  <2> QED BY <2>1
<1> HIDE DEF h
<1>7. c = [k \in -1 .. 6 |-> ColumnStep(terms, c, k)]
  <2>1. 2 * Digits - 2 = 6
    BY DEF Digits
  <2> QED BY <1>6, <2>1 DEF Columned
<1> HIDE DEF c
<1>8. c[-1] = first /\ \A k \in 0 .. 6 : c[k] = NextColumn(c[k - 1].rest, terms[k])
  <2>1. -1 \in -1 .. 6 /\ \A k \in 0 .. 6 : k \in -1 .. 6 /\ k # -1
    OBVIOUS
  <2>2. \A k \in -1 .. 6 : c[k] = ColumnStep(terms, c, k)
    BY <1>7
  <2> QED BY <2>1, <2>2 DEF ColumnStep, first
<1>9. \A k \in -1 .. 6 : c[k] \in ColumnPair
  <2> DEFINE T == {k \in -1 .. 6 : c[k] \in ColumnPair}
  <2>1. -1 \in T
    BY <1>2, <1>8
  <2>2. ASSUME NEW k \in -1 .. 6 - 1, k \in T PROVE k + 1 \in T
    <3>1. k + 1 \in 0 .. 6 /\ (k + 1) - 1 = k /\ k + 1 \in -1 .. 6 /\ c[k] \in ColumnPair
      BY <2>2
    <3>2. c[k + 1] = NextColumn(c[k].rest, terms[k + 1])
      BY <1>8, <3>1
    <3> QED BY <1>1, <3>1, <3>2
  <2> HIDE DEF T
  <2>3. -1 .. 6 \subseteq T
    BY <2>1, <2>2, InductTo
  <2> QED BY <2>3 DEF T
<1>10. \A k \in 0 .. 6 : c[k].digit + (Base * c[k].rest) = c[k - 1].rest + S[k]
  <2> TAKE k \in 0 .. 6
  <2>1. k - 1 \in -1 .. 6
    OBVIOUS
  <2> QED BY <1>1, <1>8, <1>9, <2>1
<1> QED BY <1>8, <1>9, <1>10 DEF c, first

LEMMA ColumnsAre ==
    ASSUME NEW terms, NEW S, Sums7(S, terms)
    PROVE  \E x : Shifts(x, Sum0(S)) /\ \A k \in 0 .. 7 : Columns(terms)[k] = x[k] % Base
<1> DEFINE c == Columned(terms)
           T == <<Sum0(S), Sum1(S), Sum2(S), Sum3(S), Sum4(S), Sum5(S), Sum6(S), 0>>
           x == [k \in 0 .. 7 |-> c[k - 1].rest + T[k + 1]]
<1>1. /\ c[-1].rest = 0
      /\ \A k \in -1 .. 6 : c[k] \in ColumnPair
      /\ \A k \in 0 .. 6 : c[k].digit + (Base * c[k].rest) = c[k - 1].rest + S[k]
  BY ColumnedIs
<1> HIDE DEF c
<1>2. \A k \in 0 .. 6 : S[k] \in Nat
  BY RestIs DEF Sums7
<1>3. \A k \in -1 .. 6 : c[k].digit \in 0 .. Base - 1 /\ c[k].rest \in Nat
  BY <1>1, RestIs DEF ColumnPair, Word, Rest
<1>4. Base \in Nat \ {0}
  BY WordSizes
<1>5. /\ \A k \in 1 .. 8 : T[k] \in Nat
      /\ \A k \in 0 .. 6 : T[k + 1] = S[k] + (Base * T[k + 2])
  <2>1. ASSUME NEW s \in Nat, NEW t \in Nat PROVE s + (Base * t) \in Nat
    BY <1>4, TimesGrows
  <2>0. S[0] \in Nat /\ S[1] \in Nat /\ S[2] \in Nat /\ S[3] \in Nat /\ S[4] \in Nat
        /\ S[5] \in Nat /\ S[6] \in Nat
    BY <1>2
  <2>2. Sum6(S) \in Nat
    BY <2>0 DEF Sum6
  <2>3. Sum5(S) \in Nat
    <3>1. S[5] + (Base * Sum6(S)) \in Nat
      BY ONLY <2>0, <2>1, <2>2
    <3> QED BY <3>1 DEF Sum5
  <2>4. Sum4(S) \in Nat
    <3>1. S[4] + (Base * Sum5(S)) \in Nat
      BY ONLY <2>0, <2>1, <2>3
    <3> QED BY <3>1 DEF Sum4
  <2>5. Sum3(S) \in Nat
    <3>1. S[3] + (Base * Sum4(S)) \in Nat
      BY ONLY <2>0, <2>1, <2>4
    <3> QED BY <3>1 DEF Sum3
  <2>6. Sum2(S) \in Nat
    <3>1. S[2] + (Base * Sum3(S)) \in Nat
      BY ONLY <2>0, <2>1, <2>5
    <3> QED BY <3>1 DEF Sum2
  <2>7. Sum1(S) \in Nat
    <3>1. S[1] + (Base * Sum2(S)) \in Nat
      BY ONLY <2>0, <2>1, <2>6
    <3> QED BY <3>1 DEF Sum1
  <2>8. Sum0(S) \in Nat
    <3>1. S[0] + (Base * Sum1(S)) \in Nat
      BY ONLY <2>0, <2>1, <2>7
    <3> QED BY <3>1 DEF Sum0
  <2>9. /\ T[1] = Sum0(S) /\ T[2] = Sum1(S) /\ T[3] = Sum2(S) /\ T[4] = Sum3(S)
        /\ T[5] = Sum4(S) /\ T[6] = Sum5(S) /\ T[7] = Sum6(S) /\ T[8] = 0
    OBVIOUS
  <2> HIDE DEF T
  <2>10. \A k \in 1 .. 8 : T[k] \in Nat
    <3> TAKE k \in 1 .. 8
    <3>1. k = 1 \/ k = 2 \/ k = 3 \/ k = 4 \/ k = 5 \/ k = 6 \/ k = 7 \/ k = 8
      OBVIOUS
    <3> QED BY <2>2, <2>3, <2>4, <2>5, <2>6, <2>7, <2>8, <2>9, <3>1
  <2>11. \A k \in 0 .. 6 : T[k + 1] = S[k] + (Base * T[k + 2])
    <3>1. T[7] = S[6] + (Base * T[8])
      <4>1. Base * 0 = 0
        BY <1>4
      <4> QED BY <1>2, <2>9, <4>1 DEF Sum6
    <3>2. /\ T[1] = S[0] + (Base * T[2]) /\ T[2] = S[1] + (Base * T[3]) /\ T[3] = S[2] + (Base * T[4])
          /\ T[4] = S[3] + (Base * T[5]) /\ T[5] = S[4] + (Base * T[6]) /\ T[6] = S[5] + (Base * T[7])
      BY <2>9 DEF Sum0, Sum1, Sum2, Sum3, Sum4, Sum5
    <3> TAKE k \in 0 .. 6
    <3>3. k = 0 \/ k = 1 \/ k = 2 \/ k = 3 \/ k = 4 \/ k = 5 \/ k = 6
      OBVIOUS
    <3> QED BY <3>1, <3>2, <3>3
  <2> QED BY <2>10, <2>11
<1>6. T[1] = Sum0(S) /\ T[8] = 0
  OBVIOUS
<1> HIDE DEF T
<1>7. \A k \in 0 .. 7 : x[k] = c[k - 1].rest + T[k + 1] /\ x[k] \in Nat
  <2> TAKE k \in 0 .. 7
  <2>1. k - 1 \in -1 .. 6 /\ k + 1 \in 1 .. 8
    OBVIOUS
  <2>2. c[k - 1].rest \in Nat /\ T[k + 1] \in Nat
    BY <1>3, <1>5, <2>1
  <2> QED BY <2>2
<1> HIDE DEF x
<1>8. \A k \in 0 .. 6 : x[k] = c[k].digit + (Base * x[k + 1])
  <2> TAKE k \in 0 .. 6
  <2>1. k \in 0 .. 7 /\ k + 1 \in 0 .. 7 /\ (k + 1) - 1 = k /\ (k + 1) + 1 = k + 2 /\ k + 2 \in 1 .. 8
        /\ k \in -1 .. 6 /\ k - 1 \in -1 .. 6
    OBVIOUS
  <2> DEFINE d == c[k].digit
             r == c[k].rest
             o == c[k - 1].rest
             t == T[k + 2]
  <2>2. x[k] = o + T[k + 1] /\ x[k + 1] = r + t /\ T[k + 1] = S[k] + (Base * t) /\ d + (Base * r) = o + S[k]
    BY <1>1, <1>5, <1>7, <2>1
  <2>3. d \in Int /\ r \in Int /\ o \in Int /\ t \in Int /\ S[k] \in Int /\ Base \in Int
    BY <1>2, <1>3, <1>4, <1>5, <2>1
  <2> HIDE DEF d, r, o, t
  <2>4. Base * (r + t) = (Base * r) + (Base * t) /\ Base * r \in Int /\ Base * t \in Int
    BY <2>3, TimesSum
  <2>5. x[k] = d + (Base * x[k + 1])
    BY <2>2, <2>3, <2>4
  <2> QED BY <2>5 DEF d
<1>9. \A k \in 0 .. 6 : x[k] % Base = c[k].digit /\ x[k] \div Base = x[k + 1]
  <2> TAKE k \in 0 .. 6
  <2>1. k + 1 \in 0 .. 7 /\ k \in -1 .. 6
    OBVIOUS
  <2>2. c[k].digit \in 0 .. Base - 1 /\ x[k + 1] \in Int
    BY <1>3, <1>7, <2>1
  <2>3. x[k] = c[k].digit + (Base * x[k + 1])
    BY <1>8
  <2> DEFINE d == c[k].digit
             y == x[k + 1]
             z == x[k]
  <2>4. d \in 0 .. Base - 1 /\ y \in Int /\ z = d + (Base * y)
    BY ONLY <2>2, <2>3 DEF d, y, z
  <2> HIDE DEF d, y, z
  <2>5. z % Base = d /\ z \div Base = y
    BY ONLY <1>4, <2>4, PartsAre
  <2> QED BY ONLY <2>5 DEF d, y, z
<1>10. Shifts(x, Sum0(S))
  <2>1. x[0] = Sum0(S)
    <3>1. x[0] = 0 + Sum0(S) /\ Sum0(S) \in Nat
      <4>1. x[0] = c[0 - 1].rest + T[0 + 1] /\ T[1] \in Nat
        BY <1>5, <1>7
      <4> QED BY <1>1, <1>6, <4>1
    <3> QED BY <3>1
  <2> QED BY <1>7, <1>9, <2>1 DEF Shifts
<1>11. \A k \in 0 .. 7 : Columns(terms)[k] = x[k] % Base
  <2>1. 2 * Digits - 1 = 7
    BY DEF Digits
  <2>2. \A k \in 0 .. 7 : Columns(terms)[k] = IF k = 7 THEN Low(c[k - 1].rest) ELSE c[k].digit
    BY <2>1, ColumnsByStep DEF c
  <2>3. x[7] = c[6].rest
    <3>1. x[7] = c[7 - 1].rest + T[7 + 1] /\ c[6].rest \in Nat
      BY <1>3, <1>7
    <3> QED BY <1>6, <3>1
  <2> TAKE k \in 0 .. 7
  <2>4. CASE k = 7
    BY <2>2, <2>3, <2>4 DEF Low
  <2>5. CASE k # 7
    <3>1. k \in 0 .. 6
      BY <2>5
    <3> QED BY <1>9, <2>2, <2>5, <3>1
  <2> QED BY <2>4, <2>5
<1> QED BY <1>10, <1>11

LEMMA ColumnSumsAre ==
    ASSUME NEW l, NEW r
    PROVE  /\ ColumnSums(l, r)[0] = l[0] * r[0]
           /\ ColumnSums(l, r)[1] = (l[0] * r[1]) + (l[1] * r[0])
           /\ ColumnSums(l, r)[2] = (l[0] * r[2]) + (l[1] * r[1]) + (l[2] * r[0])
           /\ ColumnSums(l, r)[3] = (l[0] * r[3]) + (l[1] * r[2]) + (l[2] * r[1]) + (l[3] * r[0])
           /\ ColumnSums(l, r)[4] = (l[1] * r[3]) + (l[2] * r[2]) + (l[3] * r[1])
           /\ ColumnSums(l, r)[5] = (l[2] * r[3]) + (l[3] * r[2])
           /\ ColumnSums(l, r)[6] = l[3] * r[3]
<1> DEFINE T == <<l[0] * r[0],
          (l[0] * r[1]) + (l[1] * r[0]),
          (l[0] * r[2]) + (l[1] * r[1]) + (l[2] * r[0]),
          (l[0] * r[3]) + (l[1] * r[2]) + (l[2] * r[1]) + (l[3] * r[0]),
          (l[1] * r[3]) + (l[2] * r[2]) + (l[3] * r[1]),
          (l[2] * r[3]) + (l[3] * r[2]),
          l[3] * r[3]>>
<1>1. /\ T[1] = l[0] * r[0]
      /\ T[2] = (l[0] * r[1]) + (l[1] * r[0])
      /\ T[3] = (l[0] * r[2]) + (l[1] * r[1]) + (l[2] * r[0])
      /\ T[4] = (l[0] * r[3]) + (l[1] * r[2]) + (l[2] * r[1]) + (l[3] * r[0])
      /\ T[5] = (l[1] * r[3]) + (l[2] * r[2]) + (l[3] * r[1])
      /\ T[6] = (l[2] * r[3]) + (l[3] * r[2])
      /\ T[7] = l[3] * r[3]
  OBVIOUS
<1>2. ColumnSums(l, r) = [k \in 0 .. 6 |-> T[k + 1]]
  BY DEF ColumnSums
<1> HIDE DEF T
<1>3. \A k \in 0 .. 6 : ColumnSums(l, r)[k] = T[k + 1]
  BY <1>2
<1>4. ColumnSums(l, r)[0] = T[0 + 1] /\ ColumnSums(l, r)[1] = T[1 + 1] /\ ColumnSums(l, r)[2] = T[2 + 1]
      /\ ColumnSums(l, r)[3] = T[3 + 1] /\ ColumnSums(l, r)[4] = T[4 + 1] /\ ColumnSums(l, r)[5] = T[5 + 1]
      /\ ColumnSums(l, r)[6] = T[6 + 1]
  BY <1>3
<1> QED BY <1>1, <1>4

LEMMA WordProduct ==
    ASSUME NEW a \in Word, NEW b \in Word
    PROVE  /\ a * b \in Nat /\ a * b <= (Base - 1) * (Base - 1) /\ a * b \in 0 .. Base2 - 1
           /\ (Base - 1) * (Base - 1) \in Nat /\ b * a = a * b
<1> DEFINE c == Base - 1
<1>1. a \in Nat /\ b \in Nat /\ c \in Nat /\ a <= c /\ b <= c /\ Base = c + 1
  BY WordSizes DEF Word
<1> HIDE DEF c
<1>2. a * b <= a * c /\ a * b \in Nat /\ a * c = c * a /\ c * a <= c * c /\ c * c \in Nat /\ b * a = a * b
      /\ a * c \in Int
  BY <1>1, TimesGrows, TimesSum
<1>3. c * c <= Base2 - 1
  <2>1. Base * Base = (Base * c) + (Base * 1) /\ Base * c = c * Base /\ c * Base = (c * c) + (c * 1)
        /\ Base * 1 = Base /\ c * 1 = c
    BY <1>1, TimesSum
  <2> QED BY <1>1, <1>2, <2>1 DEF Base2
<1> QED BY <1>1, <1>2, <1>3, WordSizes DEF c

LEMMA ColumnSumsBound ==
    ASSUME NEW l \in Vlis, NEW r \in Vlis
    PROVE  \A k \in 0 .. 6 : ColumnSums(l, r)[k] \in 0 .. MostSum
<1> DEFINE q == (Base - 1) * (Base - 1)
           S == ColumnSums(l, r)
<1>1. \A i, j \in {0, 1, 2, 3} : l[i] * r[j] \in Nat /\ l[i] * r[j] <= q
  <2>1. \A i \in {0, 1, 2, 3} : l[i] \in Word /\ r[i] \in Word
    BY VliIs
  <2> QED BY <2>1, WordProduct
<1>2. q \in Nat /\ MostSum = 4 * q
  <2>1. Base - 1 \in Nat /\ Base - 1 \in Int
    BY WordSizes
  <2> DEFINE c == Base - 1
  <2> HIDE DEF c
  <2>2. c * c \in Nat /\ (4 * c) * c = 4 * (c * c)
    BY <2>1, TimesGrows, TimesTimes DEF c
  <2> QED BY <2>2 DEF c, MostSum, MostRest
<1> HIDE DEF q
<1>3. \A k \in 0 .. 6 : k = 0 \/ k = 1 \/ k = 2 \/ k = 3 \/ k = 4 \/ k = 5 \/ k = 6
  OBVIOUS
<1>4. S[0] \in 0 .. 4 * q /\ S[6] \in 0 .. 4 * q
  <2>1. l[0] * r[0] \in Nat /\ l[0] * r[0] <= q /\ l[3] * r[3] \in Nat /\ l[3] * r[3] <= q
    BY <1>1
  <2> DEFINE a == l[0] * r[0]
             b == l[3] * r[3]
  <2>2. S[0] = a /\ S[6] = b
    BY ColumnSumsAre
  <2> HIDE DEF a, b, S
  <2> QED BY <1>2, <2>1, <2>2 DEF a, b
<1>5. ASSUME NEW a \in Nat, NEW b \in Nat, NEW c \in Nat, NEW d \in Nat, a <= q, b <= q, c <= q, d <= q
      PROVE  a + b \in 0 .. 4 * q /\ a + b + c \in 0 .. 4 * q /\ a + b + c + d \in 0 .. 4 * q
  BY <1>2, <1>5
<1>6. S[1] \in 0 .. 4 * q /\ S[5] \in 0 .. 4 * q
  <2> DEFINE a == l[0] * r[1]
             b == l[1] * r[0]
             c == l[2] * r[3]
             d == l[3] * r[2]
  <2>1. a \in Nat /\ a <= q /\ b \in Nat /\ b <= q /\ c \in Nat /\ c <= q /\ d \in Nat /\ d <= q
    BY <1>1
  <2>2. S[1] = a + b /\ S[5] = c + d
    BY ColumnSumsAre
  <2> HIDE DEF a, b, c, d, S
  <2> QED BY <1>5, <2>1, <2>2
<1>7. S[2] \in 0 .. 4 * q
  <2> DEFINE a == l[0] * r[2]
             b == l[1] * r[1]
             c == l[2] * r[0]
  <2>1. a \in Nat /\ a <= q /\ b \in Nat /\ b <= q /\ c \in Nat /\ c <= q
    BY <1>1
  <2>2. S[2] = a + b + c
    BY ColumnSumsAre
  <2> HIDE DEF a, b, c, S
  <2> QED BY <1>5, <2>1, <2>2
<1>8. S[4] \in 0 .. 4 * q
  <2> DEFINE a == l[1] * r[3]
             b == l[2] * r[2]
             c == l[3] * r[1]
  <2>1. a \in Nat /\ a <= q /\ b \in Nat /\ b <= q /\ c \in Nat /\ c <= q
    BY <1>1
  <2>2. S[4] = a + b + c
    BY ColumnSumsAre
  <2> HIDE DEF a, b, c, S
  <2> QED BY <1>5, <2>1, <2>2
<1>9. S[3] \in 0 .. 4 * q
  <2> DEFINE a == l[0] * r[3]
             b == l[1] * r[2]
             c == l[2] * r[1]
             d == l[3] * r[0]
  <2>1. a \in Nat /\ a <= q /\ b \in Nat /\ b <= q /\ c \in Nat /\ c <= q /\ d \in Nat /\ d <= q
    BY <1>1
  <2>2. S[3] = a + b + c + d
    BY ColumnSumsAre
  <2> HIDE DEF a, b, c, d, S
  <2> QED BY <1>5, <2>1, <2>2
<1> HIDE DEF S
<1>10. \A k \in 0 .. 6 : S[k] \in 0 .. 4 * q
  <2> TAKE k \in 0 .. 6
  <2> QED BY <1>3, <1>4, <1>6, <1>7, <1>8, <1>9
<1> QED BY <1>2, <1>10 DEF S

(* They stand for the product.                                             *)
LEMMA ColumnsMultiply ==
    ASSUME NEW l \in Vlis, NEW r \in Vlis
    PROVE  Sum0(ColumnSums(l, r)) = Value(l) * Value(r)
<1> DEFINE S == ColumnSums(l, r)
<1>1. /\ l[0] \in Int /\ l[1] \in Int /\ l[2] \in Int /\ l[3] \in Int
      /\ r[0] \in Int /\ r[1] \in Int /\ r[2] \in Int /\ r[3] \in Int /\ Base \in Int
  BY VliIs, WordSizes DEF Word
<1>2. /\ S[0] = l[0] * r[0]
      /\ S[1] = (l[0] * r[1]) + (l[1] * r[0])
      /\ S[2] = (l[0] * r[2]) + (l[1] * r[1]) + (l[2] * r[0])
      /\ S[3] = (l[0] * r[3]) + (l[1] * r[2]) + (l[2] * r[1]) + (l[3] * r[0])
      /\ S[4] = (l[1] * r[3]) + (l[2] * r[2]) + (l[3] * r[1])
      /\ S[5] = (l[2] * r[3]) + (l[3] * r[2])
      /\ S[6] = l[3] * r[3]
  BY ColumnSumsAre
<1> HIDE DEF S
<1> DEFINE a0 == l[0]
           a1 == l[1]
           a2 == l[2]
           a3 == l[3]
           b0 == r[0]
           b1 == r[1]
           b2 == r[2]
           b3 == r[3]
           m == Base
<1>3. /\ a0 \in Int /\ a1 \in Int /\ a2 \in Int /\ a3 \in Int
      /\ b0 \in Int /\ b1 \in Int /\ b2 \in Int /\ b3 \in Int /\ m \in Int
  BY <1>1
<1> HIDE DEF a0, a1, a2, a3, b0, b1, b2, b3, m
<1>4. (a0 + m * (a1 + m * (a2 + m * a3))) * (b0 + m * (b1 + m * (b2 + m * b3))) =
      (a0 * b0) + m * (((a0 * b1) + (a1 * b0)) + m * (((a0 * b2) + (a1 * b1) + (a2 * b0))
         + m * (((a0 * b3) + (a1 * b2) + (a2 * b1) + (a3 * b0))
            + m * (((a1 * b3) + (a2 * b2) + (a3 * b1)) + m * (((a2 * b3) + (a3 * b2)) + m * (a3 * b3))))))
  BY ONLY <1>3
<1>5. Value(l) * Value(r) =
      S[0] + m * (S[1] + m * (S[2] + m * (S[3] + m * (S[4] + m * (S[5] + m * S[6])))))
  <2>1. Value(l) = a0 + m * (a1 + m * (a2 + m * a3)) /\ Value(r) = b0 + m * (b1 + m * (b2 + m * b3))
    BY DEF Value, a0, a1, a2, a3, b0, b1, b2, b3, m
  <2>2. /\ S[0] = a0 * b0 /\ S[1] = (a0 * b1) + (a1 * b0) /\ S[2] = (a0 * b2) + (a1 * b1) + (a2 * b0)
        /\ S[3] = (a0 * b3) + (a1 * b2) + (a2 * b1) + (a3 * b0)
        /\ S[4] = (a1 * b3) + (a2 * b2) + (a3 * b1) /\ S[5] = (a2 * b3) + (a3 * b2) /\ S[6] = a3 * b3
    BY <1>2 DEF a0, a1, a2, a3, b0, b1, b2, b3
  <2> QED BY <1>4, <2>1, <2>2, Zenon
<1>6. Sum0(S) = S[0] + m * (S[1] + m * (S[2] + m * (S[3] + m * (S[4] + m * (S[5] + m * S[6])))))
  BY DEF Sum0, Sum1, Sum2, Sum3, Sum4, Sum5, Sum6, m
<1> QED BY <1>5, <1>6 DEF S

LEMMA PlainIs ==
    ASSUME NEW p \in 0 .. Base2 - 1
    PROVE  Plain(p) \in Term /\ TermValue(Plain(p)) = p
<1>1. Base2 * 0 = 0 /\ p \in Int
  BY WordSizes
<1> QED BY <1>1 DEF Plain, Term, TermValue

LEMMA TwiceIs ==
    ASSUME NEW p \in 0 .. Base2 - 1
    PROVE  Twice(p) \in Term /\ TermValue(Twice(p)) = p + p
<1> DEFINE n == 2 * p
           x == n % Base2
           y == n \div Base2
<1>1. Base2 \in Nat \ {0} /\ n \in Int /\ n \in Nat /\ n = p + p
  BY WordSizes
<1>2. x \in 0 .. Base2 - 1 /\ y \in Int /\ n = (Base2 * y) + x
  <2> HIDE DEF n
  <2> QED BY <1>1, Division
<1>3. y \in Nat
  <2>1. n \in 0 .. (Base2 * 2) - 1
    BY <1>1
  <2> HIDE DEF n
  <2>2. y \in 0 .. 2 - 1
    BY <1>1, <2>1, QuotientBelow
  <2> QED BY <2>2
<1>4. Twice(p) = [low |-> x, high |-> y]
  BY DEF Twice, Base2
<1> HIDE DEF x, y, n
<1>5. TermValue(Twice(p)) = x + (Base2 * y) /\ Base2 * y \in Int
  BY <1>1, <1>3, <1>4, TimesSum DEF TermValue
<1> QED BY <1>1, <1>2, <1>3, <1>4, <1>5 DEF Term

LEMMA MultByTerms ==
    ASSUME NEW l, NEW r
    PROVE  vli_mult(l, r) = Columns(MultTerms(l, r))
BY DEF vli_mult, MultTerms, Plain

LEMMA SquareByTerms ==
    ASSUME NEW l
    PROVE  vli_square(l) = Columns(SquareTerms(l))
BY DEF vli_square, SquareTerms, Plain, Twice

LEMMA SpanIs ==
    ASSUME NEW k \in 0 .. 6, NEW last \in 0 .. 3
    PROVE  /\ k < 4 => /\ DOMAIN Span(k, last) = 1 .. last + 1
                       /\ \A j \in 1 .. last + 1 : Span(k, last)[j] = j - 1
           /\ k >= 4 => /\ DOMAIN Span(k, last) = 1 .. (last - k) + 4
                        /\ \A j \in 1 .. (last - k) + 4 : Span(k, last)[j] = (k + j) - 4
<1>1. CASE k < 4
  BY <1>1 DEF Span, Digits
<1>2. CASE k >= 4
  <2>1. last - (k + 1 - 4) + 1 = (last - k) + 4 /\ \A j \in Int : (k + 1 - 4) + j - 1 = (k + j) - 4
    OBVIOUS
  <2>2. Span(k, last) = [j \in 1 .. last - (k + 1 - 4) + 1 |-> (k + 1 - 4) + j - 1]
    BY <1>2 DEF Span, Digits
  <2> QED BY <1>2, <2>1, <2>2
<1> QED BY <1>1, <1>2

LEMMA ListAdds ==
    ASSUME NEW t, NEW a \in Term, NEW b \in Term, NEW c \in Term, NEW d \in Term, NEW n \in 1 .. 4,
           Lists(t, a, b, c, d, n)
    PROVE  /\ n = 1 => Adds(t, TermValue(a))
           /\ n = 2 => Adds(t, TermValue(a) + TermValue(b))
           /\ n = 3 => Adds(t, TermValue(a) + TermValue(b) + TermValue(c))
           /\ n = 4 => Adds(t, TermValue(a) + TermValue(b) + TermValue(c) + TermValue(d))
<1>1. t = [j \in 1 .. n |-> t[j]] /\ \A j \in 1 .. n : t[j] \in Term
  <2>1. \A j \in 1 .. n : j = 1 \/ j = 2 \/ j = 3 \/ j = 4
    OBVIOUS
  <2> QED BY <2>1 DEF Lists
<1>2. t \in Seq(Term) /\ Len(t) = n
  <2>1. t \in [1 .. n -> Term] /\ n \in Nat
    BY <1>1
  <2> QED BY <2>1
<1>3. CASE n = 1
  <2>1. t[1] = a
    BY <1>3 DEF Lists
  <2> QED BY <1>2, <1>3, <2>1, AddsTerms
<1>4. CASE n = 2
  <2>1. t[1] = a /\ t[2] = b
    BY <1>4 DEF Lists
  <2> QED BY <1>2, <1>4, <2>1, AddsTerms
<1>5. CASE n = 3
  <2>1. t[1] = a /\ t[2] = b /\ t[3] = c
    BY <1>5 DEF Lists
  <2> QED BY <1>2, <1>5, <2>1, AddsTerms
<1>6. CASE n = 4
  <2>1. t[1] = a /\ t[2] = b /\ t[3] = c /\ t[4] = d
    BY <1>6 DEF Lists
  <2> QED BY <1>2, <1>6, <2>1, AddsTerms
<1> QED BY <1>3, <1>4, <1>5, <1>6

LEMMA MultAdds ==
    ASSUME NEW l \in Vlis, NEW r \in Vlis
    PROVE  Sums7(ColumnSums(l, r), MultTerms(l, r))
<1> DEFINE S == ColumnSums(l, r)
           T == MultTerms(l, r)
           p(i, j) == Plain(l[i] * r[j])
<1>1. \A i, j \in {0, 1, 2, 3} : p(i, j) \in Term /\ TermValue(p(i, j)) = l[i] * r[j]
  <2>1. \A i \in {0, 1, 2, 3} : l[i] \in Word /\ r[i] \in Word
    BY VliIs
  <2>2. \A i, j \in {0, 1, 2, 3} : l[i] * r[j] \in 0 .. Base2 - 1
    BY <2>1, WordProduct
  <2> QED BY <2>2, PlainIs
<1>2. ASSUME NEW k \in 0 .. 3
      PROVE  T[k] = [j \in 1 .. k + 1 |-> p(j - 1, k - (j - 1))]
  <2> DEFINE s == Span(k, k)
  <2>1. DOMAIN s = 1 .. k + 1 /\ \A j \in 1 .. k + 1 : s[j] = j - 1
    <3>1. k \in 0 .. 6 /\ k \in 0 .. 3 /\ k < 4
      BY <1>2
    <3> QED BY <3>1, SpanIs
  <2>2. T[k] = [j \in DOMAIN s |-> p(s[j], k - s[j])]
    BY <1>2 DEF MultTerms, Digits
  <2> HIDE DEF s
  <2> QED BY <2>1, <2>2
<1>3. ASSUME NEW k \in 4 .. 6
      PROVE  T[k] = [j \in 1 .. 7 - k |-> p((k + j) - 4, k - ((k + j) - 4))]
  <2> DEFINE s == Span(k, 3)
  <2>1. DOMAIN s = 1 .. (3 - k) + 4 /\ (3 - k) + 4 = 7 - k /\ \A j \in 1 .. (3 - k) + 4 : s[j] = (k + j) - 4
    <3>1. k \in 0 .. 6 /\ 3 \in 0 .. 3 /\ k >= 4 /\ (3 - k) + 4 = 7 - k
      BY <1>3
    <3> QED BY <3>1, SpanIs
  <2>2. T[k] = [j \in DOMAIN s |-> p(s[j], k - s[j])]
    BY <1>3 DEF MultTerms, Digits
  <2> HIDE DEF s
  <2> QED BY <2>1, <2>2
<1> HIDE DEF T, p

<1>4. Adds(T[0], S[0])
  <2>1. T[0] = [j \in 1 .. 1 |-> T[0][j]] /\ T[0][1] = p(0, 0)
    <3>1. T[0] = [j \in 1 .. 0 + 1 |-> p(j - 1, 0 - (j - 1))] /\ 0 + 1 = 1
      BY <1>2
    <3>2. T[0][1] = p(1 - 1, 0 - (1 - 1))
      BY <3>1
    <3>3. 1 - 1 = 0 /\ 0 - (1 - 1) = 0
      OBVIOUS
    <3> QED BY <3>1, <3>2, <3>3
  <2>2. Lists(T[0], p(0, 0), p(0, 0), p(0, 0), p(0, 0), 1)
    BY <2>1 DEF Lists
  <2>3. Adds(T[0], TermValue(p(0, 0)))
    <3>1. 1 \in 1 .. 4 /\ p(0, 0) \in Term
      BY <1>1
    <3> QED BY <2>2, <3>1, ListAdds
  <2>4. S[0] = (l[0] * r[0])
    BY ColumnSumsAre
  <2> QED BY <1>1, <2>3, <2>4
<1>5. Adds(T[1], S[1])
  <2>1. T[1] = [j \in 1 .. 2 |-> T[1][j]] /\ T[1][1] = p(0, 1) /\ T[1][2] = p(1, 0)
    <3>1. T[1] = [j \in 1 .. 1 + 1 |-> p(j - 1, 1 - (j - 1))] /\ 1 + 1 = 2
      BY <1>2
    <3>2. T[1][1] = p(1 - 1, 1 - (1 - 1))
      BY <3>1
    <3>3. 1 - 1 = 0 /\ 1 - (1 - 1) = 1
      OBVIOUS
    <3>4. T[1][2] = p(2 - 1, 1 - (2 - 1))
      BY <3>1
    <3>5. 2 - 1 = 1 /\ 1 - (2 - 1) = 0
      OBVIOUS
    <3> QED BY <3>1, <3>2, <3>3, <3>4, <3>5
  <2>2. Lists(T[1], p(0, 1), p(1, 0), p(0, 1), p(0, 1), 2)
    BY <2>1 DEF Lists
  <2>3. Adds(T[1], TermValue(p(0, 1)) + TermValue(p(1, 0)))
    <3>1. 2 \in 1 .. 4 /\ p(0, 1) \in Term /\ p(1, 0) \in Term
      BY <1>1
    <3> QED BY <2>2, <3>1, ListAdds
  <2>4. S[1] = (l[0] * r[1]) + (l[1] * r[0])
    BY ColumnSumsAre
  <2> QED BY <1>1, <2>3, <2>4
<1>6. Adds(T[2], S[2])
  <2>1. T[2] = [j \in 1 .. 3 |-> T[2][j]] /\ T[2][1] = p(0, 2) /\ T[2][2] = p(1, 1) /\ T[2][3] = p(2, 0)
    <3>1. T[2] = [j \in 1 .. 2 + 1 |-> p(j - 1, 2 - (j - 1))] /\ 2 + 1 = 3
      BY <1>2
    <3>2. T[2][1] = p(1 - 1, 2 - (1 - 1))
      BY <3>1
    <3>3. 1 - 1 = 0 /\ 2 - (1 - 1) = 2
      OBVIOUS
    <3>4. T[2][2] = p(2 - 1, 2 - (2 - 1))
      BY <3>1
    <3>5. 2 - 1 = 1 /\ 2 - (2 - 1) = 1
      OBVIOUS
    <3>6. T[2][3] = p(3 - 1, 2 - (3 - 1))
      BY <3>1
    <3>7. 3 - 1 = 2 /\ 2 - (3 - 1) = 0
      OBVIOUS
    <3> QED BY <3>1, <3>2, <3>3, <3>4, <3>5, <3>6, <3>7
  <2>2. Lists(T[2], p(0, 2), p(1, 1), p(2, 0), p(0, 2), 3)
    BY <2>1 DEF Lists
  <2>3. Adds(T[2], TermValue(p(0, 2)) + TermValue(p(1, 1)) + TermValue(p(2, 0)))
    <3>1. 3 \in 1 .. 4 /\ p(0, 2) \in Term /\ p(1, 1) \in Term /\ p(2, 0) \in Term
      BY <1>1
    <3> QED BY <2>2, <3>1, ListAdds
  <2>4. S[2] = (l[0] * r[2]) + (l[1] * r[1]) + (l[2] * r[0])
    BY ColumnSumsAre
  <2> QED BY <1>1, <2>3, <2>4
<1>7. Adds(T[3], S[3])
  <2>1. T[3] = [j \in 1 .. 4 |-> T[3][j]] /\ T[3][1] = p(0, 3) /\ T[3][2] = p(1, 2) /\ T[3][3] = p(2, 1) /\ T[3][4] = p(3, 0)
    <3>1. T[3] = [j \in 1 .. 3 + 1 |-> p(j - 1, 3 - (j - 1))] /\ 3 + 1 = 4
      BY <1>2
    <3>2. T[3][1] = p(1 - 1, 3 - (1 - 1))
      BY <3>1
    <3>3. 1 - 1 = 0 /\ 3 - (1 - 1) = 3
      OBVIOUS
    <3>4. T[3][2] = p(2 - 1, 3 - (2 - 1))
      BY <3>1
    <3>5. 2 - 1 = 1 /\ 3 - (2 - 1) = 2
      OBVIOUS
    <3>6. T[3][3] = p(3 - 1, 3 - (3 - 1))
      BY <3>1
    <3>7. 3 - 1 = 2 /\ 3 - (3 - 1) = 1
      OBVIOUS
    <3>8. T[3][4] = p(4 - 1, 3 - (4 - 1))
      BY <3>1
    <3>9. 4 - 1 = 3 /\ 3 - (4 - 1) = 0
      OBVIOUS
    <3> QED BY <3>1, <3>2, <3>3, <3>4, <3>5, <3>6, <3>7, <3>8, <3>9
  <2>2. Lists(T[3], p(0, 3), p(1, 2), p(2, 1), p(3, 0), 4)
    BY <2>1 DEF Lists
  <2>3. Adds(T[3], TermValue(p(0, 3)) + TermValue(p(1, 2)) + TermValue(p(2, 1)) + TermValue(p(3, 0)))
    <3>1. 4 \in 1 .. 4 /\ p(0, 3) \in Term /\ p(1, 2) \in Term /\ p(2, 1) \in Term /\ p(3, 0) \in Term
      BY <1>1
    <3> QED BY <2>2, <3>1, ListAdds
  <2>4. S[3] = (l[0] * r[3]) + (l[1] * r[2]) + (l[2] * r[1]) + (l[3] * r[0])
    BY ColumnSumsAre
  <2> QED BY <1>1, <2>3, <2>4
<1>8. Adds(T[4], S[4])
  <2>1. T[4] = [j \in 1 .. 3 |-> T[4][j]] /\ T[4][1] = p(1, 3) /\ T[4][2] = p(2, 2) /\ T[4][3] = p(3, 1)
    <3>1. T[4] = [j \in 1 .. 7 - 4 |-> p((4 + j) - 4, 4 - ((4 + j) - 4))] /\ 7 - 4 = 3
      BY <1>3
    <3>2. T[4][1] = p((4 + 1) - 4, 4 - ((4 + 1) - 4))
      BY <3>1
    <3>3. (4 + 1) - 4 = 1 /\ 4 - ((4 + 1) - 4) = 3
      OBVIOUS
    <3>4. T[4][2] = p((4 + 2) - 4, 4 - ((4 + 2) - 4))
      BY <3>1
    <3>5. (4 + 2) - 4 = 2 /\ 4 - ((4 + 2) - 4) = 2
      OBVIOUS
    <3>6. T[4][3] = p((4 + 3) - 4, 4 - ((4 + 3) - 4))
      BY <3>1
    <3>7. (4 + 3) - 4 = 3 /\ 4 - ((4 + 3) - 4) = 1
      OBVIOUS
    <3> QED BY <3>1, <3>2, <3>3, <3>4, <3>5, <3>6, <3>7
  <2>2. Lists(T[4], p(1, 3), p(2, 2), p(3, 1), p(1, 3), 3)
    BY <2>1 DEF Lists
  <2>3. Adds(T[4], TermValue(p(1, 3)) + TermValue(p(2, 2)) + TermValue(p(3, 1)))
    <3>1. 3 \in 1 .. 4 /\ p(1, 3) \in Term /\ p(2, 2) \in Term /\ p(3, 1) \in Term
      BY <1>1
    <3> QED BY <2>2, <3>1, ListAdds
  <2>4. S[4] = (l[1] * r[3]) + (l[2] * r[2]) + (l[3] * r[1])
    BY ColumnSumsAre
  <2> QED BY <1>1, <2>3, <2>4
<1>9. Adds(T[5], S[5])
  <2>1. T[5] = [j \in 1 .. 2 |-> T[5][j]] /\ T[5][1] = p(2, 3) /\ T[5][2] = p(3, 2)
    <3>1. T[5] = [j \in 1 .. 7 - 5 |-> p((5 + j) - 4, 5 - ((5 + j) - 4))] /\ 7 - 5 = 2
      BY <1>3
    <3>2. T[5][1] = p((5 + 1) - 4, 5 - ((5 + 1) - 4))
      BY <3>1
    <3>3. (5 + 1) - 4 = 2 /\ 5 - ((5 + 1) - 4) = 3
      OBVIOUS
    <3>4. T[5][2] = p((5 + 2) - 4, 5 - ((5 + 2) - 4))
      BY <3>1
    <3>5. (5 + 2) - 4 = 3 /\ 5 - ((5 + 2) - 4) = 2
      OBVIOUS
    <3> QED BY <3>1, <3>2, <3>3, <3>4, <3>5
  <2>2. Lists(T[5], p(2, 3), p(3, 2), p(2, 3), p(2, 3), 2)
    BY <2>1 DEF Lists
  <2>3. Adds(T[5], TermValue(p(2, 3)) + TermValue(p(3, 2)))
    <3>1. 2 \in 1 .. 4 /\ p(2, 3) \in Term /\ p(3, 2) \in Term
      BY <1>1
    <3> QED BY <2>2, <3>1, ListAdds
  <2>4. S[5] = (l[2] * r[3]) + (l[3] * r[2])
    BY ColumnSumsAre
  <2> QED BY <1>1, <2>3, <2>4
<1>10. Adds(T[6], S[6])
  <2>1. T[6] = [j \in 1 .. 1 |-> T[6][j]] /\ T[6][1] = p(3, 3)
    <3>1. T[6] = [j \in 1 .. 7 - 6 |-> p((6 + j) - 4, 6 - ((6 + j) - 4))] /\ 7 - 6 = 1
      BY <1>3
    <3>2. T[6][1] = p((6 + 1) - 4, 6 - ((6 + 1) - 4))
      BY <3>1
    <3>3. (6 + 1) - 4 = 3 /\ 6 - ((6 + 1) - 4) = 3
      OBVIOUS
    <3> QED BY <3>1, <3>2, <3>3
  <2>2. Lists(T[6], p(3, 3), p(3, 3), p(3, 3), p(3, 3), 1)
    BY <2>1 DEF Lists
  <2>3. Adds(T[6], TermValue(p(3, 3)))
    <3>1. 1 \in 1 .. 4 /\ p(3, 3) \in Term
      BY <1>1
    <3> QED BY <2>2, <3>1, ListAdds
  <2>4. S[6] = (l[3] * r[3])
    BY ColumnSumsAre
  <2> QED BY <1>1, <2>3, <2>4
<1>11. \A k \in 0 .. 6 : Adds(T[k], S[k])
  <2> TAKE k \in 0 .. 6
  <2>1. k = 0 \/ k = 1 \/ k = 2 \/ k = 3 \/ k = 4 \/ k = 5 \/ k = 6
    OBVIOUS
  <2> QED BY <2>1, <1>4, <1>5, <1>6, <1>7, <1>8, <1>9, <1>10
<1> QED BY <1>11, ColumnSumsBound DEF Sums7, T

LEMMA SquareAdds ==
    ASSUME NEW l \in Vlis
    PROVE  Sums7(ColumnSums(l, l), SquareTerms(l))
<1> DEFINE S == ColumnSums(l, l)
           T == SquareTerms(l)
           p(i, j) == Plain(l[i] * l[j])
           t(i, j) == Twice(l[i] * l[j])
           at(k, i) == IF i < k - i THEN t(i, k - i) ELSE p(i, k - i)
<1>1. \A i, j \in {0, 1, 2, 3} :
         /\ p(i, j) \in Term /\ TermValue(p(i, j)) = l[i] * l[j]
         /\ t(i, j) \in Term /\ TermValue(t(i, j)) = (l[i] * l[j]) + (l[j] * l[i])
         /\ l[i] * l[j] \in Int
  <2>1. \A i \in {0, 1, 2, 3} : l[i] \in Word
    BY VliIs
  <2>2. \A i, j \in {0, 1, 2, 3} : l[i] * l[j] \in 0 .. Base2 - 1 /\ l[j] * l[i] = l[i] * l[j] /\ l[i] * l[j] \in Int
    BY <2>1, WordProduct
  <2> QED BY <2>2, PlainIs, TwiceIs
<1>2. ASSUME NEW k \in 0 .. 3, NEW last \in 0 .. 3, last = k \div 2
      PROVE  T[k] = [j \in 1 .. last + 1 |-> at(k, j - 1)]
  <2> DEFINE s == Span(k, last)
  <2>1. DOMAIN s = 1 .. last + 1 /\ \A j \in 1 .. last + 1 : s[j] = j - 1
    <3>1. k \in 0 .. 6 /\ k < 4
      BY <1>2
    <3> QED BY <1>2, <3>1, SpanIs
  <2>2. T[k] = [j \in DOMAIN s |-> at(k, s[j])]
    BY <1>2 DEF SquareTerms, Digits
  <2> HIDE DEF s
  <2> QED BY <2>1, <2>2
<1>3. ASSUME NEW k \in 4 .. 6, NEW last \in 0 .. 3, last = k \div 2
      PROVE  T[k] = [j \in 1 .. (last - k) + 4 |-> at(k, (k + j) - 4)]
  <2> DEFINE s == Span(k, last)
  <2>1. DOMAIN s = 1 .. (last - k) + 4 /\ \A j \in 1 .. (last - k) + 4 : s[j] = (k + j) - 4
    <3>1. k \in 0 .. 6 /\ k >= 4
      BY <1>3
    <3> QED BY <1>3, <3>1, SpanIs
  <2>2. T[k] = [j \in DOMAIN s |-> at(k, s[j])]
    BY <1>3 DEF SquareTerms, Digits
  <2> HIDE DEF s
  <2> QED BY <2>1, <2>2
<1>4. /\ at(0, 0) = p(0, 0) /\ at(1, 0) = t(0, 1) /\ at(2, 0) = t(0, 2) /\ at(2, 1) = p(1, 1)
      /\ at(3, 0) = t(0, 3) /\ at(3, 1) = t(1, 2) /\ at(4, 1) = t(1, 3) /\ at(4, 2) = p(2, 2)
      /\ at(5, 2) = t(2, 3) /\ at(6, 3) = p(3, 3)
  <2> HIDE DEF p, t
  <2> QED OBVIOUS
<1> HIDE DEF T, p, t, at

<1>5. Adds(T[0], S[0])
  <2>1. T[0] = [j \in 1 .. 1 |-> T[0][j]] /\ T[0][1] = p(0, 0)
    <3>0. 0 \in 0 .. 3 /\ 0 = 0 \div 2 /\ 0 \in 0 .. 3
      OBVIOUS
    <3>1. T[0] = [j \in 1 .. 0 + 1 |-> at(0, j - 1)] /\ 0 + 1 = 1
      BY <1>2, <3>0
    <3>2. T[0][1] = at(0, 1 - 1)
      BY <3>1
    <3>3. 1 - 1 = 0
      OBVIOUS
    <3> QED BY <1>4, <3>1, <3>2, <3>3
  <2>2. Lists(T[0], p(0, 0), p(0, 0), p(0, 0), p(0, 0), 1)
    BY <2>1 DEF Lists
  <2>3. Adds(T[0], TermValue(p(0, 0)))
    <3>1. 1 \in 1 .. 4 /\ p(0, 0) \in Term
      BY <1>1
    <3> QED BY <2>2, <3>1, ListAdds
  <2>4. S[0] = TermValue(p(0, 0))
    <3>1. S[0] = (l[0] * l[0])
      BY ColumnSumsAre
    <3>2. TermValue(p(0, 0)) = l[0] * l[0] /\ l[0] * l[0] \in Int
      BY <1>1
    <3> QED BY <3>1, <3>2
  <2> QED BY <2>3, <2>4
<1>6. Adds(T[1], S[1])
  <2>1. T[1] = [j \in 1 .. 1 |-> T[1][j]] /\ T[1][1] = t(0, 1)
    <3>0. 0 \in 0 .. 3 /\ 0 = 1 \div 2 /\ 1 \in 0 .. 3
      OBVIOUS
    <3>1. T[1] = [j \in 1 .. 0 + 1 |-> at(1, j - 1)] /\ 0 + 1 = 1
      BY <1>2, <3>0
    <3>2. T[1][1] = at(1, 1 - 1)
      BY <3>1
    <3>3. 1 - 1 = 0
      OBVIOUS
    <3> QED BY <1>4, <3>1, <3>2, <3>3
  <2>2. Lists(T[1], t(0, 1), t(0, 1), t(0, 1), t(0, 1), 1)
    BY <2>1 DEF Lists
  <2>3. Adds(T[1], TermValue(t(0, 1)))
    <3>1. 1 \in 1 .. 4 /\ t(0, 1) \in Term
      BY <1>1
    <3> QED BY <2>2, <3>1, ListAdds
  <2>4. S[1] = TermValue(t(0, 1))
    <3>1. S[1] = (l[0] * l[1]) + (l[1] * l[0])
      BY ColumnSumsAre
    <3>2. TermValue(t(0, 1)) = (l[0] * l[1]) + (l[1] * l[0]) /\ l[0] * l[1] \in Int /\ l[1] * l[0] \in Int
      BY <1>1
    <3> QED BY <3>1, <3>2
  <2> QED BY <2>3, <2>4
<1>7. Adds(T[2], S[2])
  <2>1. T[2] = [j \in 1 .. 2 |-> T[2][j]] /\ T[2][1] = t(0, 2) /\ T[2][2] = p(1, 1)
    <3>0. 1 \in 0 .. 3 /\ 1 = 2 \div 2 /\ 2 \in 0 .. 3
      OBVIOUS
    <3>1. T[2] = [j \in 1 .. 1 + 1 |-> at(2, j - 1)] /\ 1 + 1 = 2
      BY <1>2, <3>0
    <3>2. T[2][1] = at(2, 1 - 1)
      BY <3>1
    <3>3. 1 - 1 = 0
      OBVIOUS
    <3>4. T[2][2] = at(2, 2 - 1)
      BY <3>1
    <3>5. 2 - 1 = 1
      OBVIOUS
    <3> QED BY <1>4, <3>1, <3>2, <3>3, <3>4, <3>5
  <2>2. Lists(T[2], t(0, 2), p(1, 1), t(0, 2), t(0, 2), 2)
    BY <2>1 DEF Lists
  <2>3. Adds(T[2], TermValue(t(0, 2)) + TermValue(p(1, 1)))
    <3>1. 2 \in 1 .. 4 /\ t(0, 2) \in Term /\ p(1, 1) \in Term
      BY <1>1
    <3> QED BY <2>2, <3>1, ListAdds
  <2>4. S[2] = TermValue(t(0, 2)) + TermValue(p(1, 1))
    <3>1. S[2] = (l[0] * l[2]) + (l[1] * l[1]) + (l[2] * l[0])
      BY ColumnSumsAre
    <3>2. TermValue(t(0, 2)) = (l[0] * l[2]) + (l[2] * l[0]) /\ TermValue(p(1, 1)) = l[1] * l[1] /\ l[0] * l[2] \in Int /\ l[1] * l[1] \in Int /\ l[2] * l[0] \in Int
      BY <1>1
    <3> DEFINE a == l[0] * l[2]
               b == l[1] * l[1]
               c == l[2] * l[0]
    <3>3. S[2] = a + b + c /\ a \in Int /\ b \in Int /\ c \in Int /\ TermValue(t(0, 2)) = a + c /\ TermValue(p(1, 1)) = b
      BY <3>1, <3>2
    <3> HIDE DEF a, b, c, S
    <3> QED BY <3>3
  <2> QED BY <2>3, <2>4
<1>8. Adds(T[3], S[3])
  <2>1. T[3] = [j \in 1 .. 2 |-> T[3][j]] /\ T[3][1] = t(0, 3) /\ T[3][2] = t(1, 2)
    <3>0. 1 \in 0 .. 3 /\ 1 = 3 \div 2 /\ 3 \in 0 .. 3
      OBVIOUS
    <3>1. T[3] = [j \in 1 .. 1 + 1 |-> at(3, j - 1)] /\ 1 + 1 = 2
      BY <1>2, <3>0
    <3>2. T[3][1] = at(3, 1 - 1)
      BY <3>1
    <3>3. 1 - 1 = 0
      OBVIOUS
    <3>4. T[3][2] = at(3, 2 - 1)
      BY <3>1
    <3>5. 2 - 1 = 1
      OBVIOUS
    <3> QED BY <1>4, <3>1, <3>2, <3>3, <3>4, <3>5
  <2>2. Lists(T[3], t(0, 3), t(1, 2), t(0, 3), t(0, 3), 2)
    BY <2>1 DEF Lists
  <2>3. Adds(T[3], TermValue(t(0, 3)) + TermValue(t(1, 2)))
    <3>1. 2 \in 1 .. 4 /\ t(0, 3) \in Term /\ t(1, 2) \in Term
      BY <1>1
    <3> QED BY <2>2, <3>1, ListAdds
  <2>4. S[3] = TermValue(t(0, 3)) + TermValue(t(1, 2))
    <3>1. S[3] = (l[0] * l[3]) + (l[1] * l[2]) + (l[2] * l[1]) + (l[3] * l[0])
      BY ColumnSumsAre
    <3>2. TermValue(t(0, 3)) = (l[0] * l[3]) + (l[3] * l[0]) /\ TermValue(t(1, 2)) = (l[1] * l[2]) + (l[2] * l[1]) /\ l[0] * l[3] \in Int /\ l[1] * l[2] \in Int /\ l[2] * l[1] \in Int /\ l[3] * l[0] \in Int
      BY <1>1
    <3> DEFINE a == l[0] * l[3]
               b == l[1] * l[2]
               c == l[2] * l[1]
               d == l[3] * l[0]
    <3>3. S[3] = a + b + c + d /\ a \in Int /\ b \in Int /\ c \in Int /\ d \in Int /\ TermValue(t(0, 3)) = a + d /\ TermValue(t(1, 2)) = b + c
      BY <3>1, <3>2
    <3> HIDE DEF a, b, c, d, S
    <3> QED BY <3>3
  <2> QED BY <2>3, <2>4
<1>9. Adds(T[4], S[4])
  <2>1. T[4] = [j \in 1 .. 2 |-> T[4][j]] /\ T[4][1] = t(1, 3) /\ T[4][2] = p(2, 2)
    <3>0. 2 \in 0 .. 3 /\ 2 = 4 \div 2 /\ 4 \in 4 .. 6
      OBVIOUS
    <3>1. T[4] = [j \in 1 .. (2 - 4) + 4 |-> at(4, (4 + j) - 4)] /\ (2 - 4) + 4 = 2
      BY <1>3, <3>0
    <3>2. T[4][1] = at(4, (4 + 1) - 4)
      BY <3>1
    <3>3. (4 + 1) - 4 = 1
      OBVIOUS
    <3>4. T[4][2] = at(4, (4 + 2) - 4)
      BY <3>1
    <3>5. (4 + 2) - 4 = 2
      OBVIOUS
    <3> QED BY <1>4, <3>1, <3>2, <3>3, <3>4, <3>5
  <2>2. Lists(T[4], t(1, 3), p(2, 2), t(1, 3), t(1, 3), 2)
    BY <2>1 DEF Lists
  <2>3. Adds(T[4], TermValue(t(1, 3)) + TermValue(p(2, 2)))
    <3>1. 2 \in 1 .. 4 /\ t(1, 3) \in Term /\ p(2, 2) \in Term
      BY <1>1
    <3> QED BY <2>2, <3>1, ListAdds
  <2>4. S[4] = TermValue(t(1, 3)) + TermValue(p(2, 2))
    <3>1. S[4] = (l[1] * l[3]) + (l[2] * l[2]) + (l[3] * l[1])
      BY ColumnSumsAre
    <3>2. TermValue(t(1, 3)) = (l[1] * l[3]) + (l[3] * l[1]) /\ TermValue(p(2, 2)) = l[2] * l[2] /\ l[1] * l[3] \in Int /\ l[2] * l[2] \in Int /\ l[3] * l[1] \in Int
      BY <1>1
    <3> DEFINE a == l[1] * l[3]
               b == l[2] * l[2]
               c == l[3] * l[1]
    <3>3. S[4] = a + b + c /\ a \in Int /\ b \in Int /\ c \in Int /\ TermValue(t(1, 3)) = a + c /\ TermValue(p(2, 2)) = b
      BY <3>1, <3>2
    <3> HIDE DEF a, b, c, S
    <3> QED BY <3>3
  <2> QED BY <2>3, <2>4
<1>10. Adds(T[5], S[5])
  <2>1. T[5] = [j \in 1 .. 1 |-> T[5][j]] /\ T[5][1] = t(2, 3)
    <3>0. 2 \in 0 .. 3 /\ 2 = 5 \div 2 /\ 5 \in 4 .. 6
      OBVIOUS
    <3>1. T[5] = [j \in 1 .. (2 - 5) + 4 |-> at(5, (5 + j) - 4)] /\ (2 - 5) + 4 = 1
      BY <1>3, <3>0
    <3>2. T[5][1] = at(5, (5 + 1) - 4)
      BY <3>1
    <3>3. (5 + 1) - 4 = 2
      OBVIOUS
    <3> QED BY <1>4, <3>1, <3>2, <3>3
  <2>2. Lists(T[5], t(2, 3), t(2, 3), t(2, 3), t(2, 3), 1)
    BY <2>1 DEF Lists
  <2>3. Adds(T[5], TermValue(t(2, 3)))
    <3>1. 1 \in 1 .. 4 /\ t(2, 3) \in Term
      BY <1>1
    <3> QED BY <2>2, <3>1, ListAdds
  <2>4. S[5] = TermValue(t(2, 3))
    <3>1. S[5] = (l[2] * l[3]) + (l[3] * l[2])
      BY ColumnSumsAre
    <3>2. TermValue(t(2, 3)) = (l[2] * l[3]) + (l[3] * l[2]) /\ l[2] * l[3] \in Int /\ l[3] * l[2] \in Int
      BY <1>1
    <3> QED BY <3>1, <3>2
  <2> QED BY <2>3, <2>4
<1>11. Adds(T[6], S[6])
  <2>1. T[6] = [j \in 1 .. 1 |-> T[6][j]] /\ T[6][1] = p(3, 3)
    <3>0. 3 \in 0 .. 3 /\ 3 = 6 \div 2 /\ 6 \in 4 .. 6
      OBVIOUS
    <3>1. T[6] = [j \in 1 .. (3 - 6) + 4 |-> at(6, (6 + j) - 4)] /\ (3 - 6) + 4 = 1
      BY <1>3, <3>0
    <3>2. T[6][1] = at(6, (6 + 1) - 4)
      BY <3>1
    <3>3. (6 + 1) - 4 = 3
      OBVIOUS
    <3> QED BY <1>4, <3>1, <3>2, <3>3
  <2>2. Lists(T[6], p(3, 3), p(3, 3), p(3, 3), p(3, 3), 1)
    BY <2>1 DEF Lists
  <2>3. Adds(T[6], TermValue(p(3, 3)))
    <3>1. 1 \in 1 .. 4 /\ p(3, 3) \in Term
      BY <1>1
    <3> QED BY <2>2, <3>1, ListAdds
  <2>4. S[6] = TermValue(p(3, 3))
    <3>1. S[6] = (l[3] * l[3])
      BY ColumnSumsAre
    <3>2. TermValue(p(3, 3)) = l[3] * l[3] /\ l[3] * l[3] \in Int
      BY <1>1
    <3> QED BY <3>1, <3>2
  <2> QED BY <2>3, <2>4
<1>12. \A k \in 0 .. 6 : Adds(T[k], S[k])
  <2> TAKE k \in 0 .. 6
  <2>1. k = 0 \/ k = 1 \/ k = 2 \/ k = 3 \/ k = 4 \/ k = 5 \/ k = 6
    OBVIOUS
  <2> QED BY <2>1, <1>5, <1>6, <1>7, <1>8, <1>9, <1>10, <1>11
<1> QED BY <1>12, ColumnSumsBound DEF Sums7, T

-----------------------------------------------------------------------------
(* The words of n.                                                         *)

LEMMA WordsOf ==
    ASSUME NEW n \in Nat, NEW x, Shifts(x, n)
    PROVE  \A k \in 0 .. 7 : x[k] = n \div TwoTo[2 * HalfBits * k] /\ x[k] \in Nat
<1> DEFINE pw == [k \in Nat |-> TwoTo[2 * HalfBits * k]]
           T == {k \in 0 .. 7 : x[k] = n \div pw[k]}
<1>1. pw[0] = 1 /\ \A k \in Nat : pw[k] \in Nat \ {0} /\ pw[k + 1] = pw[k] * Base
  <2>1. 2 * HalfBits \in Nat /\ TwoTo[2 * HalfBits] = Base
    BY WordSizes
  <2> DEFINE h == 2 * HalfBits
  <2>2. ASSUME NEW k \in Nat
        PROVE  TwoTo[h * k] \in Nat \ {0} /\ TwoTo[h * (k + 1)] = TwoTo[h * k] * Base
    <3> HIDE DEF h
    <3>1. h * k \in Nat /\ h * (k + 1) = (h * k) + (h * 1) /\ h * 1 = h /\ h \in Nat
      BY <2>1, TimesGrows, TimesSum DEF h
    <3>2. TwoTo[(h * k) + h] = TwoTo[h * k] * TwoTo[h]
      BY <3>1, PowersMultiply
    <3>3. TwoTo[h] = Base
      BY <2>1 DEF h
    <3> QED BY <3>1, <3>2, <3>3, Powers
  <2>3. pw[0] = 1
    BY PowersOfBase
  <2>4. \A k \in Nat : k + 1 \in Nat /\ pw[k] = TwoTo[h * k]
    OBVIOUS
  <2>5. \A k \in Nat : pw[k + 1] = TwoTo[h * (k + 1)]
    BY <2>4
  <2> HIDE DEF pw, h
  <2> QED BY <2>2, <2>3, <2>4, <2>5
<1> HIDE DEF pw
<1>2. x[0] = n /\ \A k \in 0 .. 6 : x[k] \in Nat /\ x[k + 1] = x[k] \div Base /\ x[7] \in Nat
  BY DEF Shifts
<1>3. 0 \in T
  <2>1. n \div 1 = n
    OBVIOUS
  <2> QED BY <1>1, <1>2, <2>1
<1>4. ASSUME NEW k \in 0 .. 7 - 1, k \in T PROVE k + 1 \in T
  <2>1. k \in 0 .. 6 /\ k \in Nat /\ k + 1 \in 0 .. 7 /\ x[k] = n \div pw[k]
    BY <1>4
  <2>2. pw[k] \in Nat \ {0} /\ pw[k + 1] = pw[k] * Base /\ Base \in Nat \ {0}
    BY <1>1, <2>1, WordSizes
  <2>3. n \div (pw[k] * Base) = (n \div pw[k]) \div Base
    BY <2>2, DividedBoth
  <2> QED BY <1>2, <2>1, <2>2, <2>3
<1> HIDE DEF T
<1>5. 0 .. 7 \subseteq T
  BY <1>3, <1>4, InductTo
<1>6. \A k \in 0 .. 7 : x[k] \in Nat
  <2> TAKE k \in 0 .. 7
  <2>1. k \in 0 .. 6 \/ k = 7
    OBVIOUS
  <2> QED BY <1>2, <2>1
<1> QED BY <1>5, <1>6 DEF T, pw

(* vli_mult and vli_square.                                                *)
LEMMA MultIs ==
    ASSUME NEW l \in Vlis, NEW r \in Vlis
    PROVE  \E x : Shifts(x, Value(l) * Value(r)) /\ \A k \in 0 .. 7 : vli_mult(l, r)[k] = x[k] % Base
BY MultAdds, ColumnsAre, ColumnsMultiply, MultByTerms

LEMMA SquareIs ==
    ASSUME NEW l \in Vlis
    PROVE  \E x : Shifts(x, Value(l) * Value(l)) /\ \A k \in 0 .. 7 : vli_square(l)[k] = x[k] % Base
BY SquareAdds, ColumnsAre, ColumnsMultiply, SquareByTerms

LEMMA WordsInit == Init => WordsInv
<1> SUFFICES ASSUME Init PROVE WordsInv
  OBVIOUS
<1>1. CASE Arithmetic
  BY <1>1 DEF Arithmetic, Pose, WordsInv, WordsPosed, WordsAnswered
<1>2. CASE OnTheCurve
  BY <1>2 DEF OnTheCurve, Pose, WordsInv, WordsPosed, WordsAnswered
<1>3. CASE Formats
  BY <1>3 DEF Formats, Pose, WordsInv, WordsPosed, WordsAnswered
<1>4. CASE Ledger
  BY <1>4 DEF Ledger, Pose, WordsInv, WordsPosed, WordsAnswered
<1>5. CASE Hashing
  BY <1>5 DEF Hashing, Pose, WordsInv, WordsPosed, WordsAnswered
<1> QED BY <1>1, <1>2, <1>3, <1>4, <1>5 DEF Init

LEMMA WordsStep == WordsInv /\ [Next]_vars => WordsInv'
<1> SUFFICES ASSUME WordsInv, [Next]_vars PROVE WordsInv'
  OBVIOUS
<1> USE DEF WordsInv, WordsPosed, WordsAnswered, Is, Answer
<1>1. CASE Sums
  BY <1>1 DEF Sums
<1>2. CASE Products
  BY <1>2 DEF Products
<1>3. CASE Inverses
  BY <1>3 DEF Inverses
<1>4. CASE HashesTaken \/ Minings \/ Targets
  BY <1>4 DEF HashesTaken, Minings, Targets
<1>5. CASE Multiples \/ Decompressions \/ KeysMade \/ Secrets \/ Signings \/ Verifications
  BY <1>5 DEF Multiples, Decompressions, KeysMade, Secrets, Signings, Verifications
<1>6. CASE Readings \/ Wallets \/ TextsRead
  BY <1>6 DEF Readings, Wallets, TextsRead
<1>7. CASE Updates \/ Subsidies \/ Balances
  BY <1>7 DEF Updates, Subsidies, Balances
<1>8. CASE UNCHANGED vars
  BY <1>8 DEF vars
<1> QED BY <1>1, <1>2, <1>3, <1>4, <1>5, <1>6, <1>7, <1>8 DEF Next

LEMMA WidthIs == TwoTo[2 * HalfBits * Digits] = Base4
BY PowersOfBase

LEMMA NumBitsSame ==
    ASSUME NEW n \in 0 .. Base4 - 1
    PROVE  vli_numBits(ToVli(n)) = numBits(n)
<1> DEFINE v == ToVli(n)
<1>1. v \in Vlis /\ Value(v) = n /\ n \in Nat
  BY ToVliIs
<1> HIDE DEF v
<1>2. CASE n = 0
  BY <1>1, <1>2, NumBitsIs DEF numBits, v
<1>3. CASE n # 0
  <2> DEFINE c == vli_numBits(v)
             d == CHOOSE b \in 1 .. n : n \div TwoTo[b - 1] = 1
  <2>1. c \in Nat \ {0} /\ HasBits(n, c)
    BY <1>1, <1>3, NumBitsIs
  <2>2. \E b \in 1 .. n : n \div TwoTo[b - 1] = 1
    BY <1>1, <1>3, BitsExist DEF HasBits
  <2>3. d \in 1 .. n /\ n \div TwoTo[d - 1] = 1
    BY <2>2
  <2>4. numBits(n) = d
    BY <1>3 DEF numBits
  <2> HIDE DEF c, d
  <2>5. d \in Nat \ {0} /\ HasBits(n, d)
    BY <2>3 DEF HasBits
  <2>6. c = d
    BY <1>1, <2>1, <2>5, OneNumberOfBits
  <2> QED BY <2>4, <2>6 DEF c, v
<1> QED BY <1>2, <1>3 DEF v

LEMMA SumsShown == WordsInv => CarriesArrive
<1> SUFFICES ASSUME WordsInv, solved, problem.kind = "sum" PROVE CarriesArrive
  BY DEF CarriesArrive, Solved
<1> DEFINE x == problem.l
           y == problem.r
           l == ToVli(x)
           r == ToVli(y)
           p == Value(curve_p)
<1>1. x \in 0 .. Base4 - 1 /\ y \in 0 .. Base4 - 1
  BY NumbersAssumption, WidthIs DEF WordsInv, WordsPosed
<1>2. answer = [sum |-> vli_add(l, r), difference |-> vli_sub(l, r),
                order |-> vli_cmp(l, r), bits |-> vli_numBits(l),
                modSum |-> vli_modAdd(l, r, curve_p),
                modDifference |-> vli_modSub(l, r, curve_p),
                bytes |-> ecc_native2bytes(l)]
  BY DEF WordsInv, WordsAnswered
<1>3. vli_numBits(l) = numBits(x)
  BY <1>1, NumBitsSame
<1>4. l \in Vlis /\ r \in Vlis /\ Value(l) = x /\ Value(r) = y /\ x \in Int /\ y \in Int
  BY <1>1, ToVliIs
<1>5. curve_p \in Vlis
  BY PrimeIs
<1> HIDE DEF l, r
<1>6. /\ Value(answer.sum.digits) + Base4 * answer.sum.carry = x + y
      /\ Value(answer.difference.digits) - Base4 * answer.difference.carry = x - y
  BY <1>2, <1>4, AddIs, SubIs
<1>7. answer.order = (IF x > y THEN 1 ELSE IF x < y THEN -1 ELSE 0)
  <2>1. vli_cmp(l, r) = (IF x > y THEN 1 ELSE IF x < y THEN -1 ELSE 0)
    BY <1>4, CmpIs
  <2> QED BY <1>2, <2>1
<1>8. (x < p /\ y < p) => /\ Value(answer.modSum) = (x + y) % p
                          /\ Value(answer.modDifference) = (x - y) % p
  BY <1>2, <1>4, <1>5, ModAddIs, ModSubIs
<1>9. BigEndian(answer.bytes) = x /\ Value(ecc_bytes2native(answer.bytes)) = x
  BY <1>2, <1>4, BigEndianIs, BytesReadBack
<1>10. answer.bits = numBits(x)
  BY <1>2, <1>3
<1> QED BY <1>6, <1>7, <1>8, <1>9, <1>10, WidthIs DEF CarriesArrive

LEMMA ProductsShown == WordsInv => ProductsAreExact
<1> SUFFICES ASSUME WordsInv, solved, problem.kind = "product" PROVE ProductsAreExact
  BY DEF ProductsAreExact, Solved
<1> DEFINE x == problem.l
           y == problem.r
           l == ToVli(x)
           r == ToVli(y)
<1>1. x \in 0 .. Base4 - 1 /\ y \in 0 .. Base4 - 1
  BY NumbersAssumption, WidthIs DEF WordsInv, WordsPosed
<1>2. answer.product = vli_mult(l, r) /\ answer.square = vli_square(l)
  BY DEF WordsInv, WordsAnswered
<1>3. l \in Vlis /\ r \in Vlis /\ Value(l) = x /\ Value(r) = y /\ x \in Nat /\ y \in Nat
  BY <1>1, ToVliIs
<1> HIDE DEF l, r, x, y
<1>4. x * y \in Nat /\ x * x \in Nat
  BY <1>3, TimesGrows
<1>5. \A i \in 0 .. 7 : answer.product[i] = ((x * y) \div TwoTo[2 * HalfBits * i]) % Base
  <2>1. PICK s : Shifts(s, x * y) /\ \A k \in 0 .. 7 : vli_mult(l, r)[k] = s[k] % Base
    BY <1>3, MultIs
  <2>2. \A k \in 0 .. 7 : s[k] = (x * y) \div TwoTo[2 * HalfBits * k]
    BY <1>4, <2>1, WordsOf
  <2> QED BY <1>2, <2>1, <2>2
<1>6. \A i \in 0 .. 7 : answer.square[i] = ((x * x) \div TwoTo[2 * HalfBits * i]) % Base
  <2>1. PICK s : Shifts(s, x * x) /\ \A k \in 0 .. 7 : vli_square(l)[k] = s[k] % Base
    BY <1>3, SquareIs
  <2>2. \A k \in 0 .. 7 : s[k] = (x * x) \div TwoTo[2 * HalfBits * k]
    BY <1>4, <2>1, WordsOf
  <2> QED BY <1>2, <2>1, <2>2
<1>7. 2 * Digits - 1 = 7
  BY DEF Digits
<1> QED BY <1>5, <1>6, <1>7 DEF ProductsAreExact, x, y

-----------------------------------------------------------------------------
(* Eight words.                                                            *)

LEMMA HalvesOf ==
    ASSUME NEW p \in WideVlis
    PROVE  /\ LowHalf(p) \in Vlis /\ HighHalf(p) \in Vlis
           /\ LowHalf(p)[0] = p[0] /\ LowHalf(p)[1] = p[1] /\ LowHalf(p)[2] = p[2] /\ LowHalf(p)[3] = p[3]
           /\ HighHalf(p)[0] = p[4] /\ HighHalf(p)[1] = p[5] /\ HighHalf(p)[2] = p[6]
           /\ HighHalf(p)[3] = p[7]
           /\ \A k \in 0 .. 7 : p[k] \in Word
           /\ WideValue(p) \in Nat
<1>1. \A k \in 0 .. 7 : p[k] \in Word
  BY DEF WideVlis, Word, Digits
<1>2. \A i \in Places : i \in 0 .. 7 /\ i + 4 \in 0 .. 7
  BY PlacesAre
<1>3. LowHalf(p) \in Vlis /\ HighHalf(p) \in Vlis
  BY <1>1, <1>2, PlacesAre DEF LowHalf, HighHalf, Vlis, Word
<1>4. \A i \in Places : LowHalf(p)[i] = p[i] /\ HighHalf(p)[i] = p[i + 4]
  BY PlacesAre DEF LowHalf, HighHalf
<1>5. 0 \in Places /\ 1 \in Places /\ 2 \in Places /\ 3 \in Places
  BY PlacesAre
<1>6. /\ LowHalf(p)[0] = p[0] /\ LowHalf(p)[1] = p[1] /\ LowHalf(p)[2] = p[2] /\ LowHalf(p)[3] = p[3]
      /\ HighHalf(p)[0] = p[0 + 4] /\ HighHalf(p)[1] = p[1 + 4] /\ HighHalf(p)[2] = p[2 + 4]
      /\ HighHalf(p)[3] = p[3 + 4]
  BY <1>4, <1>5
<1>7. WideValue(p) \in Nat
  <2> DEFINE a == Value(LowHalf(p))
             b == Value(HighHalf(p))
  <2>1. a \in Nat /\ b \in Nat /\ Base4 \in Nat
    BY <1>3, VliInts, WordSizes
  <2> HIDE DEF a, b
  <2>2. Base4 * b \in Nat
    BY <2>1, TimesGrows
  <2> QED BY <2>1, <2>2 DEF WideValue, a, b
<1> QED BY <1>1, <1>3, <1>6, <1>7

(* What comes of eight words of n, below Base4 * Base4.                    *)
LEMMA WideIs ==
    ASSUME NEW n \in 0 .. (Base4 * Base4) - 1, NEW x, Shifts(x, n), NEW p,
           p = [k \in 0 .. 7 |-> p[k]], \A k \in 0 .. 7 : p[k] = x[k] % Base
    PROVE  p \in WideVlis /\ WideValue(p) = n
<1>1. Base \in Nat \ {0} /\ Base2 \in Nat \ {0} /\ Base3 \in Nat \ {0} /\ Base4 \in Nat \ {0} /\ n \in Nat
  <2>1. Base4 * Base4 \in Int
    BY WordSizes, TimesSum
  <2> QED BY <2>1, WordSizes
<1>2. /\ x[0] = n /\ x[1] = x[0] \div Base /\ x[2] = x[1] \div Base /\ x[3] = x[2] \div Base
      /\ x[4] = x[3] \div Base /\ x[5] = x[4] \div Base /\ x[6] = x[5] \div Base /\ x[7] = x[6] \div Base
  <2>1. \A k \in 0 .. 6 : x[k + 1] = x[k] \div Base
    BY DEF Shifts
  <2>2. /\ x[0 + 1] = x[0] \div Base /\ x[1 + 1] = x[1] \div Base /\ x[2 + 1] = x[2] \div Base
        /\ x[3 + 1] = x[3] \div Base /\ x[4 + 1] = x[4] \div Base /\ x[5 + 1] = x[5] \div Base
        /\ x[6 + 1] = x[6] \div Base
    BY <2>1
  <2> QED BY <2>2 DEF Shifts
<1>3. \A k \in 0 .. 7 : x[k] \in Nat
  BY <1>1, WordsOf
<1>4. x[4] \in 0 .. Base4 - 1
  <2>1. x[4] = n \div Base4
    BY <1>1, WordsOf, PowersOfBase
  <2> QED BY <1>1, <2>1, QuotientBelow
<1>5. x[7] \in 0 .. Base - 1
  <2>1. x[4] \in 0 .. (Base * Base3) - 1
    BY <1>4 DEF Base4
  <2>2. x[5] \in 0 .. Base3 - 1
    BY <1>1, <1>2, <2>1, QuotientBelow
  <2>3. x[5] \in 0 .. (Base * Base2) - 1
    BY <2>2 DEF Base3
  <2>4. x[6] \in 0 .. Base2 - 1
    BY <1>1, <1>2, <2>3, QuotientBelow
  <2>5. x[6] \in 0 .. (Base * Base) - 1
    BY <2>4 DEF Base2
  <2> QED BY <1>1, <1>2, <2>5, QuotientBelow
<1>6. ASSUME NEW y \in Nat PROVE (y % Base) \in 0 .. Base - 1 /\ y = (y % Base) + (Base * (y \div Base))
  <2>1. y \in Int
    BY <1>6
  <2>2. (y % Base) \in 0 .. Base - 1 /\ y = (Base * (y \div Base)) + (y % Base) /\ (y \div Base) \in Int
    BY ONLY <1>1, <2>1, Division
  <2> DEFINE a == y % Base
             b == Base * (y \div Base)
  <2>3. a \in Int /\ b \in Int /\ y = b + a
    BY <1>1, <2>2, TimesSum
  <2> HIDE DEF a, b
  <2>4. y = a + b
    BY <2>3
  <2> QED BY <2>2, <2>4 DEF a, b
<1>7. p \in WideVlis
  <2>1. \A k \in 0 .. 7 : p[k] \in 0 .. Base - 1
    BY <1>3, <1>6
  <2> QED BY <2>1 DEF WideVlis, Digits
<1>8. p[7] = x[7]
  BY <1>1, <1>5, SmallStays
<1>9. /\ x[0] = p[0] + (Base * x[1]) /\ x[1] = p[1] + (Base * x[2]) /\ x[2] = p[2] + (Base * x[3])
      /\ x[3] = p[3] + (Base * x[4]) /\ x[4] = p[4] + (Base * x[5]) /\ x[5] = p[5] + (Base * x[6])
      /\ x[6] = p[6] + (Base * x[7])
  <2>1. 0 \in 0 .. 7 /\ 1 \in 0 .. 7 /\ 2 \in 0 .. 7 /\ 3 \in 0 .. 7 /\ 4 \in 0 .. 7 /\ 5 \in 0 .. 7
        /\ 6 \in 0 .. 7
    OBVIOUS
  <2> QED BY <1>2, <1>3, <1>6, <2>1
<1>10. x[4] = Value(HighHalf(p))
  BY <1>7, <1>8, <1>9, HalvesOf DEF Value
<1>11. n = Value(LowHalf(p)) + (Base4 * x[4])
  <2> DEFINE a == p[0]
             b == p[1]
             c == p[2]
             d == p[3]
             e == x[4]
             m == Base
  <2>1. a \in Int /\ b \in Int /\ c \in Int /\ d \in Int /\ e \in Int /\ m \in Int
    BY <1>1, <1>3, <1>7, HalvesOf DEF Word
  <2>2. n = a + m * (b + m * (c + m * (d + m * e)))
    BY <1>2, <1>9
  <2>3. Value(LowHalf(p)) = a + m * (b + m * (c + m * d)) /\ Base4 = m * (m * (m * m))
    BY <1>7, HalvesOf DEF Value, Base4, Base3, Base2
  <2> HIDE DEF a, b, c, d, e, m
  <2>4. a + m * (b + m * (c + m * (d + m * e))) = (a + m * (b + m * (c + m * d))) + ((m * (m * (m * m))) * e)
    BY <2>1
  <2> QED BY <2>2, <2>3, <2>4 DEF e
<1> QED BY <1>7, <1>10, <1>11 DEF WideValue

(* The products that vli_mult and vli_square fill in.                      *)
LEMMA ColumnsDomain ==
    ASSUME NEW terms
    PROVE  Columns(terms) = [k \in 0 .. 7 |-> Columns(terms)[k]]
<1>1. 2 * Digits - 1 = 7
  BY DEF Digits
<1> DEFINE C(k) == IF k = 2 * Digits - 1 THEN Low(Columned(terms)[k - 1].rest) ELSE Columned(terms)[k].digit
<1>2. Columns(terms) = [k \in 0 .. 2 * Digits - 1 |-> C(k)]
  BY ColumnsByStep
<1> HIDE DEF C
<1> QED BY <1>1, <1>2

LEMMA ProductBelow ==
    ASSUME NEW l \in Vlis, NEW r \in Vlis
    PROVE  Value(l) * Value(r) \in 0 .. (Base4 * Base4) - 1
<1> DEFINE x == Value(l)
           y == Value(r)
           m == Base4
<1>1. x \in 0 .. m - 1 /\ y \in 0 .. m - 1 /\ m \in Nat \ {0}
  BY VliInts, WordSizes
<1> HIDE DEF x, y, m
<1>2. y * x \in Nat /\ (x * y) = (y * x)
  BY <1>1, TimesGrows, TimesSum
<1>3. m * (x + 1) <= m * m /\ m * (x + 1) = (m * x) + m /\ m * x = x * m /\ x * y <= x * m /\ m * m \in Int /\ m * x \in Int
  <2>1. x \in Nat /\ x + 1 \in Int /\ x + 1 <= m /\ y <= m /\ m \in Nat
    BY <1>1
  <2>2. m * (x + 1) <= m * m /\ x * y <= x * m
    BY <1>1, <2>1, TimesGrows
  <2>3. m * (x + 1) = (m * x) + (m * 1) /\ m * 1 = m /\ m * x = x * m /\ m * x \in Int /\ m * m \in Int
    BY <2>1, TimesSum
  <2> QED BY <2>2, <2>3
<1>4. x * y \in 0 .. (m * m) - 1
  BY <1>1, <1>2, <1>3
<1> QED BY <1>4 DEF x, y, m

LEMMA MultWide ==
    ASSUME NEW l \in Vlis, NEW r \in Vlis
    PROVE  vli_mult(l, r) \in WideVlis /\ WideValue(vli_mult(l, r)) = Value(l) * Value(r)
<1>1. PICK x : Shifts(x, Value(l) * Value(r)) /\ \A k \in 0 .. 7 : vli_mult(l, r)[k] = x[k] % Base
  BY MultIs
<1>2. vli_mult(l, r) = [k \in 0 .. 7 |-> vli_mult(l, r)[k]]
  BY MultByTerms, ColumnsDomain
<1>3. Value(l) * Value(r) \in 0 .. (Base4 * Base4) - 1
  BY ProductBelow
<1> QED BY <1>1, <1>2, <1>3, WideIs

LEMMA SquareWide ==
    ASSUME NEW l \in Vlis
    PROVE  vli_square(l) \in WideVlis /\ WideValue(vli_square(l)) = Value(l) * Value(l)
<1>1. PICK x : Shifts(x, Value(l) * Value(l)) /\ \A k \in 0 .. 7 : vli_square(l)[k] = x[k] % Base
  BY SquareIs
<1>2. vli_square(l) = [k \in 0 .. 7 |-> vli_square(l)[k]]
  BY SquareByTerms, ColumnsDomain
<1>3. Value(l) * Value(l) \in 0 .. (Base4 * Base4) - 1
  BY ProductBelow
<1> QED BY <1>1, <1>2, <1>3, WideIs

-----------------------------------------------------------------------------
(* vli_lshift.                                                             *)

LEMMA WordShifted ==
    ASSUME NEW d \in Word, NEW s \in 0 .. 2 * HalfBits
    PROVE  LET a == TwoTo[s]
               q == d \div TwoTo[2 * HalfBits - s]
           IN /\ q \in 0 .. a - 1 /\ a \in Nat \ {0}
              /\ Low(d * a) + (Base * q) = a * d
              /\ \A c \in 0 .. a - 1 : Low(d * a) + c \in Word
<1> DEFINE a == TwoTo[s]
           b == TwoTo[2 * HalfBits - s]
           q == d \div b
           r == d % b
<1>1. a \in Nat \ {0} /\ b \in Nat \ {0} /\ Base = b * a /\ Base \in Nat \ {0} /\ b * a = a * b
  <2>1. s \in Nat /\ 2 * HalfBits - s \in Nat /\ s + (2 * HalfBits - s) = 2 * HalfBits
    BY WordSizes
  <2>2. TwoTo[s + (2 * HalfBits - s)] = a * b /\ a \in Nat \ {0} /\ b \in Nat \ {0}
    BY <2>1, Powers, PowersMultiply
  <2>3. a * b = b * a
    <3> HIDE DEF a, b
    <3> QED BY <2>2, TimesSum
  <2> QED BY <2>1, <2>2, <2>3, WordSizes
<1>2. d \in Int /\ d \in 0 .. (b * a) - 1
  BY <1>1, WordSizes DEF Word
<1> HIDE DEF a, b
<1>3. d = (b * q) + r /\ r \in 0 .. b - 1 /\ q \in 0 .. a - 1
  BY <1>1, <1>2, Division, QuotientBelow
<1> HIDE DEF q, r
<1>4. a * d = (a * r) + (Base * q) /\ a * r \in Int /\ Base * q \in Int
  <2>1. a \in Int /\ b \in Int /\ q \in Int /\ r \in Int
    BY <1>1, <1>3
  <2>2. a * ((b * q) + r) = (a * (b * q)) + (a * r) /\ a * (b * q) = (a * b) * q /\ a * (b * q) \in Int /\ a * r \in Int
    BY <2>1, TimesSum, TimesTimes
  <2> QED BY <1>1, <1>3, <2>2
<1>5. a * r \in 0 .. Base - a /\ a * r \in 0 .. Base - 1
  <2>1. r \in Nat /\ r < b
    BY <1>1, <1>3
  <2>2. a * r \in Nat /\ (a * r) + a <= a * b
    BY <1>1, <2>1, TimesGrows
  <2> QED BY <1>1, <2>2
<1>6. Low(d * a) = a * r
  <2>1. d * a = a * d
    BY <1>1, <1>2, TimesSum
  <2>2. ((a * r) + (Base * q)) % Base = a * r
    <3>1. q \in Int
      BY <1>1, <1>3
    <3> QED BY <1>1, <1>5, <3>1, PartsAre
  <2> QED BY <1>4, <2>1, <2>2 DEF Low
<1>7. \A c \in 0 .. a - 1 : Low(d * a) + c \in Word
  BY <1>1, <1>5, <1>6 DEF Word
<1> QED BY <1>1, <1>3, <1>4, <1>6, <1>7 DEF a, b, q

LEMMA ShiftIs ==
    ASSUME NEW v \in Vlis, NEW s \in 0 .. 2 * HalfBits
    PROVE  LET t == vli_lshift(v, s)
           IN /\ t.digits \in Vlis /\ t.carry \in 0 .. TwoTo[s] - 1
              /\ Value(t.digits) + (Base4 * t.carry) = TwoTo[s] * Value(v)
<1> DEFINE a == TwoTo[s]
           Q(i) == v[i] \div TwoTo[2 * HalfBits - s]
           t == vli_lshift(v, s)
           d == t.digits
           x == [i \in Places |-> a * v[i]]
<1>1. a \in Nat \ {0} /\ \A i \in {0, 1, 2, 3} :
         /\ v[i] \in Word /\ Q(i) \in 0 .. a - 1
         /\ Low(v[i] * a) + (Base * Q(i)) = a * v[i]
         /\ \A c \in 0 .. a - 1 : Low(v[i] * a) + c \in Word
  <2>1. \A i \in {0, 1, 2, 3} : v[i] \in Word
    BY VliIs
  <2>2. 0 \in {0, 1, 2, 3}
    OBVIOUS
  <2> QED BY <2>1, <2>2, WordShifted
<1>2. /\ d = [i \in Places |-> d[i]] /\ t.carry = Q(3)
      /\ d[0] = Low(v[0] * a) + 0 /\ d[1] = Low(v[1] * a) + Q(0)
      /\ d[2] = Low(v[2] * a) + Q(1) /\ d[3] = Low(v[3] * a) + Q(2)
  <2> DEFINE C(i) == IF i = 0 THEN 0 ELSE v[i - 1] \div TwoTo[2 * HalfBits - s]
  <2>1. t = [digits |-> [i \in Places |-> Low(v[i] * a) + C(i)], carry |-> C(Digits)]
    BY DEF vli_lshift
  <2>2. C(0) = 0 /\ C(1) = Q(0) /\ C(2) = Q(1) /\ C(3) = Q(2) /\ C(Digits) = Q(3)
    <3>1. 1 - 1 = 0 /\ 2 - 1 = 1 /\ 3 - 1 = 2 /\ 4 - 1 = 3
      OBVIOUS
    <3> QED BY <3>1, PlacesAre
  <2> HIDE DEF C, t
  <2> QED BY <2>1, <2>2, PlacesAre
<1> HIDE DEF t, d, Q, a
<1>3. d \in Vlis
  <2>1. d[0] \in Word /\ d[1] \in Word /\ d[2] \in Word /\ d[3] \in Word
    <3>1. 0 \in 0 .. a - 1
      BY <1>1
    <3> QED BY <1>1, <1>2, <3>1
  <2>2. \A i \in Places : d[i] \in 0 .. Base - 1
    BY <2>1, PlacesAre DEF Word
  <2> QED BY <1>2, <2>2 DEF Vlis
<1>4. x \in [Places -> Int] /\ x[0] = a * v[0] /\ x[1] = a * v[1] /\ x[2] = a * v[2] /\ x[3] = a * v[3]
  <2>1. \A i \in Places : a * v[i] \in Int
    <3> TAKE i \in Places
    <3>1. a \in Int /\ v[i] \in Int
      BY <1>1, PlacesAre, WordSizes DEF Word
    <3> QED BY <3>1, TimesSum
  <2> QED BY <2>1, PlacesAre
<1>5. Value(x) = a * Value(v)
  <2> DEFINE e == v[0]
             f == v[1]
             g == v[2]
             h == v[3]
             m == Base
  <2>1. a \in Int /\ e \in Int /\ f \in Int /\ g \in Int /\ h \in Int /\ m \in Int
    BY <1>1, WordSizes DEF Word
  <2>2. Value(x) = (a * e) + m * ((a * f) + m * ((a * g) + m * (a * h)))
        /\ Value(v) = e + m * (f + m * (g + m * h))
    BY <1>4 DEF Value
  <2> HIDE DEF e, f, g, h, m
  <2>3. (a * e) + m * ((a * f) + m * ((a * g) + m * (a * h))) = a * (e + m * (f + m * (g + m * h)))
    BY <2>1
  <2> QED BY <2>2, <2>3
<1> HIDE DEF x
<1>6. Value(d) + (Base4 * Q(3)) = Value(x)
  <2>1. HandsOn(d, x, Q(0), Q(1), Q(2), Q(3))
    <3> DEFINE L(i) == Low(v[i] * a)
               bs(i) == Base * Q(i)
    <3>1. \A i \in {0, 1, 2, 3} : L(i) + bs(i) = a * v[i] /\ L(i) \in Int /\ bs(i) \in Int /\ Q(i) \in Int
      <4>1. \A i \in {0, 1, 2, 3} : L(i) + 0 \in Word /\ L(i) \in Int
        <5>1. 0 \in 0 .. a - 1
          BY <1>1
        <5>2. \A i \in {0, 1, 2, 3} : v[i] * a \in Int /\ Base \in Nat \ {0}
          <6> TAKE i \in {0, 1, 2, 3}
          <6>1. v[i] \in Int /\ a \in Int
            BY <1>1, WordSizes DEF Word
          <6> QED BY <6>1, TimesSum, WordSizes
        <5>3. \A n \in Int : (n % Base) \in Int
          BY Division, WordSizes
        <5> QED BY <1>1, <5>1, <5>2, <5>3 DEF Low
      <4>2. \A i \in {0, 1, 2, 3} : Q(i) \in Int
        BY <1>1
      <4>3. \A n \in Int : Base * n \in Int
        BY TimesSum, WordSizes
      <4> QED BY <1>1, <4>1, <4>2, <4>3
    <3>2. /\ d[0] = L(0) + 0 /\ d[1] = L(1) + Q(0) /\ d[2] = L(2) + Q(1) /\ d[3] = L(3) + Q(2)
      BY <1>2
    <3> HIDE DEF L, bs
    <3>3. /\ d[0] + bs(0) = x[0] /\ d[1] + bs(1) = x[1] + Q(0) /\ d[2] + bs(2) = x[2] + Q(1)
          /\ d[3] + bs(3) = x[3] + Q(2)
      BY <1>4, <3>1, <3>2
    <3> QED BY <3>3 DEF HandsOn, bs
  <2>2. Q(0) \in Int /\ Q(1) \in Int /\ Q(2) \in Int /\ Q(3) \in Int
    BY <1>1
  <2> QED BY <1>3, <1>4, <2>1, <2>2, FourWords
<1> QED BY <1>1, <1>2, <1>3, <1>5, <1>6 DEF t, d, a

-----------------------------------------------------------------------------
(* Four words and a count of what overflowed them.                         *)

LEMMA TotalIs ==
    ASSUME NEW c \in Counted
    PROVE  c.digits \in Vlis /\ c.carry \in Int /\ Value(c.digits) \in 0 .. Base4 - 1
           /\ Reckoned(c) \in Int /\ Base4 * c.carry \in Int
<1>1. c.digits \in Vlis /\ c.carry \in Int
  BY DEF Counted
<1>2. Value(c.digits) \in 0 .. Base4 - 1 /\ Base4 * c.carry \in Int /\ Value(c.digits) \in Int
  BY <1>1, VliInts, WordSizes, TimesSum
<1> QED BY <1>1, <1>2 DEF Reckoned

LEMMA AddToIs ==
    ASSUME NEW c \in Counted, NEW t \in Vlis
    PROVE  AddTo(c, t) \in Counted /\ Reckoned(AddTo(c, t)) = Reckoned(c) + Value(t)
<1> DEFINE s == vli_add(c.digits, t)
<1>1. c.digits \in Vlis /\ c.carry \in Int /\ Value(c.digits) \in Int /\ Base4 * c.carry \in Int
  BY TotalIs
<1>2. s.digits \in Vlis /\ s.carry \in Int /\ Value(s.digits) + (Base4 * s.carry) = Value(c.digits) + Value(t)
      /\ Value(t) \in Int /\ Value(s.digits) \in Int
  BY <1>1, AddIs, VliInts
<1>3. AddTo(c, t) = [digits |-> s.digits, carry |-> c.carry + s.carry]
  BY DEF AddTo
<1> HIDE DEF s
<1>4. Base4 * (c.carry + s.carry) = (Base4 * c.carry) + (Base4 * s.carry) /\ Base4 * s.carry \in Int
  <2>1. Base4 \in Int /\ c.carry \in Int /\ s.carry \in Int
    BY <1>1, <1>2, WordSizes
  <2> QED BY ONLY <2>1, TimesSum
<1>5. Reckoned(AddTo(c, t)) = Value(s.digits) + (Base4 * (c.carry + s.carry))
      /\ Reckoned(c) = Value(c.digits) + (Base4 * c.carry)
  BY <1>3 DEF Reckoned
<1>6. Reckoned(AddTo(c, t)) = Reckoned(c) + Value(t)
  <2> DEFINE a == Base4 * c.carry
             b == Base4 * s.carry
  <2>1. /\ Reckoned(AddTo(c, t)) = Value(s.digits) + (a + b) /\ Reckoned(c) = Value(c.digits) + a
        /\ a \in Int /\ b \in Int /\ Value(s.digits) + b = Value(c.digits) + Value(t)
    BY <1>1, <1>2, <1>4, <1>5
  <2> HIDE DEF a, b
  <2> QED BY <1>1, <1>2, <2>1
<1> QED BY <1>1, <1>2, <1>3, <1>6 DEF Counted

LEMMA TakeFromIs ==
    ASSUME NEW c \in Counted, NEW t \in Vlis
    PROVE  TakeFrom(c, t) \in Counted /\ Reckoned(TakeFrom(c, t)) = Reckoned(c) - Value(t)
<1> DEFINE s == vli_sub(c.digits, t)
<1>1. c.digits \in Vlis /\ c.carry \in Int /\ Value(c.digits) \in Int /\ Base4 * c.carry \in Int
  BY TotalIs
<1>2. s.digits \in Vlis /\ s.carry \in Int /\ Value(s.digits) - (Base4 * s.carry) = Value(c.digits) - Value(t)
      /\ Value(t) \in Int /\ Value(s.digits) \in Int
  BY <1>1, SubIs, VliInts
<1>3. TakeFrom(c, t) = [digits |-> s.digits, carry |-> c.carry - s.carry]
  BY DEF TakeFrom
<1> HIDE DEF s
<1>4. Base4 * (c.carry - s.carry) = (Base4 * c.carry) - (Base4 * s.carry) /\ Base4 * s.carry \in Int
  <2>1. (c.carry - s.carry) + s.carry = c.carry /\ c.carry - s.carry \in Int
    BY <1>1, <1>2
  <2>2. Base4 * ((c.carry - s.carry) + s.carry) = (Base4 * (c.carry - s.carry)) + (Base4 * s.carry)
        /\ Base4 * (c.carry - s.carry) \in Int /\ Base4 * s.carry \in Int
    BY <1>2, <2>1, TimesSum, WordSizes
  <2> QED BY <1>1, <2>1, <2>2
<1>5. Reckoned(TakeFrom(c, t)) = Value(s.digits) + (Base4 * (c.carry - s.carry))
      /\ Reckoned(c) = Value(c.digits) + (Base4 * c.carry)
  BY <1>3 DEF Reckoned
<1>6. Reckoned(TakeFrom(c, t)) = Reckoned(c) - Value(t)
  <2> DEFINE a == Base4 * c.carry
             b == Base4 * s.carry
  <2>1. /\ Reckoned(TakeFrom(c, t)) = Value(s.digits) + (a - b) /\ Reckoned(c) = Value(c.digits) + a
        /\ a \in Int /\ b \in Int /\ Value(s.digits) - b = Value(c.digits) - Value(t)
    BY <1>1, <1>2, <1>4, <1>5
  <2> HIDE DEF a, b
  <2> QED BY <1>1, <1>2, <2>1
<1> QED BY <1>1, <1>2, <1>3, <1>6 DEF Counted

LEMMA AddTwiceIs ==
    ASSUME NEW c \in Counted, NEW t \in Vlis
    PROVE  AddTwice(c, t) \in Counted /\ Reckoned(AddTwice(c, t)) = Reckoned(c) + (2 * Value(t))
<1> DEFINE s == vli_lshift(t, 1)
           e == [c EXCEPT !.carry = @ + s.carry]
<1>1. c.digits \in Vlis /\ c.carry \in Int /\ Value(c.digits) \in Int /\ Base4 * c.carry \in Int
  BY TotalIs
<1>2. TwoTo[1] = 2 /\ 1 \in 0 .. 2 * HalfBits
  <2>1. TwoTo[0 + 1] = 2 * TwoTo[0] /\ TwoTo[0] = 1
    BY Powers
  <2> QED BY <2>1, WordSizes
<1>3. s.digits \in Vlis /\ s.carry \in Int /\ Value(s.digits) + (Base4 * s.carry) = 2 * Value(t)
      /\ Value(t) \in Int /\ Value(s.digits) \in Int
  <2>1. s.digits \in Vlis /\ s.carry \in 0 .. TwoTo[1] - 1
        /\ Value(s.digits) + (Base4 * s.carry) = TwoTo[1] * Value(t)
    BY <1>2, ShiftIs
  <2> QED BY <1>2, <2>1, VliInts
<1>4. AddTwice(c, t) = AddTo(e, s.digits)
  BY DEF AddTwice
<1> HIDE DEF s
<1>5. e = [digits |-> c.digits, carry |-> c.carry + s.carry] /\ e \in Counted
  <2>1. c = [digits |-> c.digits, carry |-> c.carry]
    BY DEF Counted
  <2>2. e = [digits |-> c.digits, carry |-> c.carry + s.carry]
    BY <2>1
  <2> QED BY <1>1, <1>3, <2>2 DEF Counted
<1>6. Base4 * (c.carry + s.carry) = (Base4 * c.carry) + (Base4 * s.carry) /\ Base4 * s.carry \in Int
  BY <1>1, <1>3, TimesSum, WordSizes
<1>7. Reckoned(e) = Value(c.digits) + (Base4 * (c.carry + s.carry))
  BY <1>5 DEF Reckoned
<1> HIDE DEF e
<1>8. AddTwice(c, t) \in Counted /\ Reckoned(AddTwice(c, t)) = Reckoned(e) + Value(s.digits)
  BY <1>3, <1>4, <1>5, AddToIs
<1> QED BY <1>1, <1>3, <1>6, <1>7, <1>8 DEF Reckoned

(* Four words and no count are their own total.                            *)
LEMMA SettledTotal ==
    ASSUME NEW c \in Counted, Reckoned(c) \in 0 .. Base4 - 1
    PROVE  c.carry = 0 /\ Value(c.digits) = Reckoned(c) /\ c.digits = ToVli(Reckoned(c))
<1>1. c.digits \in Vlis /\ c.carry \in Int /\ Value(c.digits) \in 0 .. Base4 - 1
  BY TotalIs
<1>2. c.carry = 0 /\ Value(c.digits) = Reckoned(c)
  <2> DEFINE n == Reckoned(c)
             x == Value(c.digits)
  <2>1. n = x + (Base4 * c.carry) /\ n = n + (Base4 * 0) /\ n \in 0 .. Base4 - 1 /\ x \in 0 .. Base4 - 1
        /\ Base4 \in Nat \ {0} /\ n \in Int
    BY <1>1, WordSizes DEF Reckoned
  <2> HIDE DEF n, x
  <2>2. x + (Base4 * c.carry) = n + (Base4 * 0)
    BY <2>1
  <2>3. x = n /\ c.carry = 0
    BY <1>1, <2>1, <2>2, PartsOrder
  <2> QED BY <2>3 DEF n, x
<1>3. c.digits = ToVli(Reckoned(c))
  BY <1>1, <1>2, VliOfValue
<1> QED BY <1>2, <1>3

LEMMA TotalSign ==
    ASSUME NEW c \in Counted
    PROVE  /\ c.carry < 0 <=> Reckoned(c) < 0
           /\ c.carry >= 1 => Reckoned(c) >= Base4
<1>1. c.digits \in Vlis /\ c.carry \in Int /\ Value(c.digits) \in 0 .. Base4 - 1 /\ Base4 * c.carry \in Int
      /\ Base4 \in Nat \ {0}
  BY TotalIs, WordSizes
<1>2. c.carry < 0 => (Base4 * c.carry) + Base4 <= Base4 * 0
  BY <1>1, TimesGrows
<1>3. c.carry >= 0 => Base4 * 0 <= Base4 * c.carry
  BY <1>1, TimesGrows
<1>4. c.carry >= 1 => Base4 * 1 <= Base4 * c.carry
  BY <1>1, TimesGrows
<1>5. Base4 * 0 = 0 /\ Base4 * 1 = Base4
  BY <1>1
<1>6. Reckoned(c) = Value(c.digits) + (Base4 * c.carry)
  BY DEF Reckoned
<1> QED BY <1>1, <1>2, <1>3, <1>4, <1>5, <1>6

LEMMA PrimeSteps ==
    ASSUME NEW n \in Int
    PROVE  /\ (n + Prime) % Prime = n % Prime /\ (n - Prime) % Prime = n % Prime
           /\ (n % Prime) \in 0 .. Base4 - 1 /\ (n % Prime) < Prime
           /\ n \in 0 .. Prime - 1 => n % Prime = n
<1>1. Prime \in Nat \ {0} /\ Prime \in Int /\ Prime < Base4 /\ Base4 \in Int
  BY PrimeIs, WordSizes
<1>2. (n % Prime) \in 0 .. Prime - 1
  BY <1>1, Division
<1>3. ASSUME NEW k \in Int, k = n + Prime \/ k = n - Prime PROVE k % Prime = n % Prime
  <2>1. \E z \in Int : k = n + (Prime * z)
    <3>1. Prime * 1 = Prime /\ Prime * (-1) = 0 - Prime
      BY <1>1
    <3>2. CASE k = n + Prime
      <4>1. k = n + (Prime * 1)
        BY <3>1, <3>2
      <4> QED BY <4>1
    <3>3. CASE k = n - Prime
      <4>1. k = n + (Prime * (-1)) /\ -1 \in Int
        BY <1>1, <1>3, <3>1, <3>3
      <4> QED BY <4>1
    <3> QED BY <1>3, <3>2, <3>3
  <2>2. Alike(Prime, k, n)
    BY <2>1 DEF Alike
  <2> QED BY <1>1, <2>2, AlikeRules
<1>4. n + Prime \in Int /\ n - Prime \in Int
  BY <1>1
<1>5. (n + Prime) % Prime = n % Prime
  BY <1>3, <1>4
<1>6. (n - Prime) % Prime = n % Prime
  BY <1>3, <1>4
<1>7. n \in 0 .. Prime - 1 => n % Prime = n
  BY <1>1, SmallStays
<1> QED BY <1>1, <1>2, <1>5, <1>6, <1>7

LEMMA RaiseStep ==
    ASSUME NEW c \in Counted, c.carry < 0
    PROVE  LET d == AddTo(c, curve_p)
           IN d \in Counted /\ Reckoned(d) = Reckoned(c) + Prime /\ RaisedTo(d) = ToVli(Reckoned(c) % Prime)
<1> DEFINE d == AddTo(c, curve_p)
<1>1. d \in Counted /\ Reckoned(d) = Reckoned(c) + Prime /\ Reckoned(c) \in Int /\ Reckoned(c) < 0 /\ Reckoned(d) \in Int
  BY AddToIs, PrimeIs, TotalIs, TotalSign
<1> HIDE DEF d
<1>2. Reckoned(d) % Prime = Reckoned(c) % Prime
  BY <1>1, PrimeSteps
<1>3. RaisedTo(d) = ToVli(Reckoned(c) % Prime)
  <2>1. CASE d.carry < 0
    BY <1>2, <2>1 DEF RaisedTo
  <2>2. CASE ~(d.carry < 0)
    <3>1. ~(Reckoned(d) < 0)
      BY <1>1, <2>2, TotalSign
    <3>2. Reckoned(d) \in 0 .. Prime - 1 /\ Reckoned(d) \in 0 .. Base4 - 1
      BY <1>1, <3>1, PrimeIs, WordSizes
    <3>3. d.digits = ToVli(Reckoned(d)) /\ Reckoned(d) % Prime = Reckoned(d)
      BY <1>1, <3>2, SettledTotal, PrimeSteps
    <3> QED BY <1>2, <2>2, <3>3 DEF RaisedTo
  <2> QED BY <2>1, <2>2
<1> QED BY <1>1, <1>3 DEF d

LEMMA RaiseSolved ==
    \A c \in Counted : raise[c] = IF c.carry < 0 THEN raise[AddTo(c, curve_p)] ELSE c.digits
<1> DEFINE f == [c \in Counted |-> RaisedTo(c)]
<1>1. \A c \in Counted : f[c] = IF c.carry < 0 THEN f[AddTo(c, curve_p)] ELSE c.digits
  <2> TAKE c \in Counted
  <2>1. CASE c.carry < 0
    <3>1. AddTo(c, curve_p) \in Counted /\ RaisedTo(AddTo(c, curve_p)) = ToVli(Reckoned(c) % Prime)
      BY <2>1, RaiseStep
    <3> QED BY <2>1, <3>1 DEF RaisedTo
  <2>2. CASE ~(c.carry < 0)
    BY <2>2 DEF RaisedTo
  <2> QED BY <2>1, <2>2
<1>2. f = [c \in Counted |-> f[c]]
  OBVIOUS
<1> HIDE DEF f
<1>3. f = [c \in Counted |-> IF c.carry < 0 THEN f[AddTo(c, curve_p)] ELSE c.digits]
  BY <1>1, <1>2
<1> DEFINE g == raise
<1>4. g = [c \in Counted |-> IF c.carry < 0 THEN g[AddTo(c, curve_p)] ELSE c.digits]
  BY <1>3 DEF raise, Counted
<1> QED BY <1>4

LEMMA RaiseIs ==
    ASSUME NEW c \in Counted, c.carry < 0
    PROVE  raise[c] = ToVli(Reckoned(c) % Prime)
<1> DEFINE S == {k \in Nat : \A d \in Counted : d.carry < 0 /\ Reckoned(d) >= 0 - k
                                 => raise[d] = ToVli(Reckoned(d) % Prime)}
<1>1. 0 \in S
  <2> SUFFICES ASSUME NEW d \in Counted, d.carry < 0, Reckoned(d) >= 0 - 0
               PROVE  FALSE
    OBVIOUS
  <2>1. Reckoned(d) < 0 /\ Reckoned(d) \in Int
    BY TotalIs, TotalSign
  <2> QED BY <2>1
<1>2. ASSUME NEW k \in Nat, k \in S PROVE k + 1 \in S
  <2> SUFFICES ASSUME NEW d \in Counted, d.carry < 0, Reckoned(d) >= 0 - (k + 1)
               PROVE  raise[d] = ToVli(Reckoned(d) % Prime)
    OBVIOUS
  <2> DEFINE e == AddTo(d, curve_p)
  <2>1. e \in Counted /\ Reckoned(e) = Reckoned(d) + Prime /\ RaisedTo(e) = ToVli(Reckoned(d) % Prime)
        /\ Reckoned(d) \in Int /\ Reckoned(e) \in Int
    BY RaiseStep, TotalIs
  <2>2. raise[d] = raise[e]
    BY RaiseSolved
  <2> HIDE DEF e
  <2>3. CASE e.carry < 0
    <3>1. Reckoned(e) >= 0 - k
      BY <2>1, PrimeIs
    <3>2. raise[e] = ToVli(Reckoned(e) % Prime)
      BY <1>2, <2>1, <2>3, <3>1
    <3> QED BY <2>1, <2>2, <2>3, <3>2 DEF RaisedTo
  <2>4. CASE ~(e.carry < 0)
    <3>1. raise[e] = e.digits
      BY <2>1, <2>4, RaiseSolved
    <3> QED BY <2>1, <2>2, <2>4, <3>1 DEF RaisedTo
  <2> QED BY <2>3, <2>4
<1> HIDE DEF S
<1>3. Nat \subseteq S
  BY <1>1, <1>2, Induct
<1>4. 0 - Reckoned(c) \in Nat /\ Reckoned(c) >= 0 - (0 - Reckoned(c))
  <2>1. Reckoned(c) < 0 /\ Reckoned(c) \in Int
    BY TotalIs, TotalSign
  <2> QED BY <2>1
<1>5. 0 - Reckoned(c) \in S
  BY <1>3, <1>4
<1> QED BY <1>4, <1>5 DEF S

(* The loop that takes curve_p away until what is left is below it.        *)
LEMMA LowerSolved ==
    \A c \in Counted : lower[c] = IF c.carry # 0 \/ vli_cmp(curve_p, c.digits) # 1
                                  THEN lower[TakeFrom(c, curve_p)] ELSE c.digits
<1> DEFINE f == [c \in Counted |-> ToVli(Reckoned(c) % Prime)]
           More(c) == c.carry # 0 \/ vli_cmp(curve_p, c.digits) # 1
<1>1. \A c \in Counted : f[c] = IF More(c) THEN f[TakeFrom(c, curve_p)] ELSE c.digits
  <2> TAKE c \in Counted
  <2>1. TakeFrom(c, curve_p) \in Counted /\ Reckoned(TakeFrom(c, curve_p)) = Reckoned(c) - Prime
        /\ Reckoned(c) \in Int /\ c.digits \in Vlis /\ Value(c.digits) \in 0 .. Base4 - 1
    BY TakeFromIs, PrimeIs, TotalIs
  <2>2. Reckoned(TakeFrom(c, curve_p)) % Prime = Reckoned(c) % Prime
    BY <2>1, PrimeSteps
  <2>3. f[TakeFrom(c, curve_p)] = f[c]
    BY <2>1, <2>2
  <2>4. CASE More(c)
    BY <2>3, <2>4
  <2>5. CASE ~More(c)
    <3>1. c.carry = 0 /\ vli_cmp(curve_p, c.digits) = 1
      BY <2>5
    <3>2. Value(c.digits) < Prime
      BY <2>1, <3>1, CmpIs, PrimeIs, WordSizes
    <3>3. Reckoned(c) = Value(c.digits)
      <4>1. Base4 * 0 = 0
        BY WordSizes
      <4> QED BY <2>1, <3>1, <4>1 DEF Reckoned
    <3>4. Reckoned(c) \in 0 .. Prime - 1 /\ Reckoned(c) \in 0 .. Base4 - 1
      BY <2>1, <3>2, <3>3, PrimeIs
    <3>5. f[c] = ToVli(Reckoned(c))
      BY <2>1, <3>4, PrimeSteps
    <3> QED BY <2>5, <3>4, <3>5, SettledTotal
  <2> QED BY <2>4, <2>5
<1>2. f = [c \in Counted |-> f[c]]
  OBVIOUS
<1> HIDE DEF f
<1>3. f = [c \in Counted |-> IF More(c) THEN f[TakeFrom(c, curve_p)] ELSE c.digits]
  BY <1>1, <1>2
<1> DEFINE g == lower
<1>4. g = [c \in Counted |-> IF More(c) THEN g[TakeFrom(c, curve_p)] ELSE c.digits]
  BY <1>3 DEF lower, Counted
<1> QED BY <1>4

LEMMA LowerIs ==
    ASSUME NEW c \in Counted, ~(c.carry < 0)
    PROVE  lower[c] = ToVli(Reckoned(c) % Prime)
<1> DEFINE S == {k \in Nat : \A d \in Counted : Reckoned(d) \in 0 .. k => lower[d] = ToVli(Reckoned(d) % Prime)}
<1>1. ASSUME NEW d \in Counted, Reckoned(d) >= 0
      PROVE  \/ lower[d] = ToVli(Reckoned(d) % Prime)
             \/ /\ TakeFrom(d, curve_p) \in Counted /\ Reckoned(TakeFrom(d, curve_p)) = Reckoned(d) - Prime
                /\ Reckoned(d) >= Prime /\ Reckoned(d) \in Int /\ lower[d] = lower[TakeFrom(d, curve_p)]
                /\ Reckoned(TakeFrom(d, curve_p)) % Prime = Reckoned(d) % Prime
  <2>1. TakeFrom(d, curve_p) \in Counted /\ Reckoned(TakeFrom(d, curve_p)) = Reckoned(d) - Prime
        /\ Reckoned(d) \in Int /\ d.digits \in Vlis /\ Value(d.digits) \in 0 .. Base4 - 1 /\ d.carry \in Int
    BY TakeFromIs, PrimeIs, TotalIs
  <2>2. Reckoned(TakeFrom(d, curve_p)) % Prime = Reckoned(d) % Prime
    BY <2>1, PrimeSteps
  <2>3. ~(d.carry < 0)
    BY <1>1, <2>1, TotalSign
  <2>4. CASE d.carry = 0 /\ Value(d.digits) < Prime
    <3>1. Reckoned(d) = Value(d.digits)
      <4>1. Base4 * 0 = 0
        BY WordSizes
      <4> QED BY <2>1, <2>4, <4>1 DEF Reckoned
    <3>2. vli_cmp(curve_p, d.digits) = 1
      BY <2>1, <2>4, CmpIs, PrimeIs, WordSizes
    <3>3. lower[d] = d.digits
      BY <2>4, <3>2, LowerSolved
    <3>4. Reckoned(d) \in 0 .. Prime - 1 /\ Reckoned(d) \in 0 .. Base4 - 1
      BY <2>1, <2>4, <3>1, PrimeIs
    <3> QED BY <2>1, <3>3, <3>4, SettledTotal, PrimeSteps
  <2>5. CASE d.carry # 0 \/ Value(d.digits) >= Prime
    <3>1. d.carry # 0 \/ vli_cmp(curve_p, d.digits) # 1
      BY <2>1, <2>5, CmpIs, PrimeIs, WordSizes
    <3>2. lower[d] = lower[TakeFrom(d, curve_p)]
      BY <3>1, LowerSolved
    <3>3. Reckoned(d) >= Prime
      <4>1. CASE d.carry # 0
        <5>1. d.carry >= 1
          BY <2>1, <2>3, <4>1
        <5> QED BY <2>1, <5>1, TotalSign, PrimeIs, WordSizes
      <4>2. CASE d.carry = 0
        <5>1. Reckoned(d) = Value(d.digits)
          <6>1. Base4 * 0 = 0
            BY WordSizes
          <6> QED BY <2>1, <4>2, <6>1 DEF Reckoned
        <5> QED BY <2>5, <4>2, <5>1
      <4> QED BY <4>1, <4>2
    <3> QED BY <2>1, <2>2, <3>2, <3>3
  <2> QED BY <2>1, <2>4, <2>5, PrimeIs
<1>2. 0 \in S
  <2> SUFFICES ASSUME NEW d \in Counted, Reckoned(d) \in 0 .. 0
               PROVE  lower[d] = ToVli(Reckoned(d) % Prime)
    OBVIOUS
  <2>1. Reckoned(d) = 0 /\ Prime >= 1 /\ Prime \in Int
    BY PrimeIs
  <2>2. Reckoned(d) >= 0 /\ ~(Reckoned(d) >= Prime)
    BY <2>1
  <2> QED BY <1>1, <2>2
<1>3. ASSUME NEW k \in Nat, k \in S PROVE k + 1 \in S
  <2> SUFFICES ASSUME NEW d \in Counted, Reckoned(d) \in 0 .. k + 1
               PROVE  lower[d] = ToVli(Reckoned(d) % Prime)
    OBVIOUS
  <2> DEFINE e == TakeFrom(d, curve_p)
  <2>1. Reckoned(d) >= 0 /\ Prime \in Int /\ Prime >= 1
    BY PrimeIs
  <2>2. CASE lower[d] = ToVli(Reckoned(d) % Prime)
    BY <2>2
  <2>3. CASE lower[d] # ToVli(Reckoned(d) % Prime)
    <3>1. /\ e \in Counted /\ Reckoned(e) = Reckoned(d) - Prime
          /\ Reckoned(d) >= Prime /\ Reckoned(d) \in Int /\ lower[d] = lower[e]
          /\ Reckoned(e) % Prime = Reckoned(d) % Prime
      BY <1>1, <2>1, <2>3
    <3> HIDE DEF e
    <3>2. Reckoned(e) \in 0 .. k
      BY <2>1, <3>1
    <3>3. lower[e] = ToVli(Reckoned(e) % Prime)
      BY <1>3, <3>1, <3>2
    <3> QED BY <3>1, <3>3
  <2> QED BY <2>2, <2>3
<1> HIDE DEF S
<1>4. Nat \subseteq S
  BY <1>2, <1>3, Induct
<1>5. Reckoned(c) \in Nat /\ Reckoned(c) \in 0 .. Reckoned(c)
  <2>1. Reckoned(c) \in Int /\ ~(Reckoned(c) < 0)
    BY TotalIs, TotalSign
  <2> QED BY <2>1
<1>6. Reckoned(c) \in S
  BY <1>4, <1>5
<1> QED BY <1>5, <1>6 DEF S

-----------------------------------------------------------------------------
(* vli_mmod_fast: the high half of a product, its half words a8 .. a15,    *)
(* is the nine terms up to a multiple of the prime.                        *)

LEMMA HalfSums ==
    ASSUME NEW d \in Word, NEW e \in Word, NEW a, NEW b, a \in {Hi(d), Lo(d)}, b \in {Hi(e), Lo(e)}
    PROVE  /\ a \in Word /\ W * b \in Word /\ a + (W * b) \in Word /\ a \in Int /\ b \in Int
           /\ Top(d) = W * Hi(d) /\ Up(d) = W * Lo(d)
<1>1. a \in 0 .. W - 1 /\ b \in 0 .. W - 1 /\ W \in Nat \ {0} /\ Base = W * W
      /\ Hi(d) \in 0 .. W - 1 /\ Lo(d) \in 0 .. W - 1 /\ d = (W * Hi(d)) + Lo(d)
  BY HalvesAre, WordSizes
<1>2. a + (W * b) \in 0 .. (W * W) - 1
  BY <1>1, PartsBelow
<1>3. 0 + (W * b) \in 0 .. (W * W) - 1
  BY <1>1, PartsBelow
<1>4. a \in Word /\ a \in Int /\ b \in Int
  BY <1>1, WordSizes DEF Word
<1>5. W * b \in Word /\ a + (W * b) \in Word
  <2>1. W * b \in Int
    BY <1>1, TimesSum
  <2> QED BY <1>1, <1>2, <1>3, <2>1 DEF Word
<1>6. Top(d) = W * Hi(d)
  <2>1. W * Hi(d) \in Int /\ Lo(d) \in Int /\ Lo(d) = d % W
    BY <1>1, TimesSum DEF Lo
  <2> QED BY <1>1, <2>1 DEF Top
<1>7. Up(d) = W * Lo(d)
  <2>1. Lo(d) * W = W * Lo(d)
    BY <1>1, TimesSum
  <2> QED BY <2>1 DEF Up, Lo
<1> QED BY <1>4, <1>5, <1>6, <1>7

LEMMA WordsValue ==
    ASSUME NEW a \in Word, NEW b \in Word, NEW c \in Word, NEW d \in Word
    PROVE  Words(a, b, c, d) \in Vlis /\ Value(Words(a, b, c, d)) = Four(W, a, b, c, d)
           /\ Value(Words(a, b, c, d)) \in Int
<1>1. Words(a, b, c, d) \in Vlis
  BY WordsAre
<1>2. Value(Words(a, b, c, d)) = a + Base * (b + Base * (c + Base * d))
  BY WordsAre DEF Value
<1> QED BY <1>1, <1>2, VliInts DEF Base, Four

LEMMA PrimePowers == Prime = PrimeOf(W) /\ Base4 = W * (W * (W * (W * (W * (W * (W * W))))))
<1>1. Base4 = W8
  BY HalfPowers
<1> QED BY <1>1 DEF Prime, PrimeOf, W8, W7, W6, W5, W4, W3, W2

LEMMA MmodFastIs ==
    ASSUME NEW p \in WideVlis
    PROVE  vli_mmod_fast(p) = ToVli(WideValue(p) % Prime)
<1> DEFINE a8 == Lo(p[4])
           a9 == Hi(p[4])
           a10 == Lo(p[5])
           a11 == Hi(p[5])
           a12 == Lo(p[6])
           a13 == Hi(p[6])
           a14 == Lo(p[7])
           a15 == Hi(p[7])
           w == W
<1>1. p[4] \in Word /\ p[5] \in Word /\ p[6] \in Word /\ p[7] \in Word
  BY HalvesOf
<1>2. /\ p[4] = (w * a9) + a8 /\ p[5] = (w * a11) + a10 /\ p[6] = (w * a13) + a12 /\ p[7] = (w * a15) + a14
      /\ Lo(p[4]) = a8 /\ Lo(p[5]) = a10 /\ Lo(p[6]) = a12 /\ Lo(p[7]) = a14
      /\ Hi(p[4]) = a9 /\ Hi(p[5]) = a11 /\ Hi(p[6]) = a13 /\ Hi(p[7]) = a15
      /\ w \in Int /\ w = W
  BY <1>1, HalvesAre, WordSizes
<1>3. /\ Top(p[4]) = w * a9 /\ Top(p[5]) = w * a11 /\ Top(p[6]) = w * a13 /\ Top(p[7]) = w * a15
      /\ Up(p[4]) = w * a8 /\ Up(p[5]) = w * a10 /\ Up(p[6]) = w * a12 /\ Up(p[7]) = w * a14
  BY <1>1, HalfSums
<1>4. /\ a8 \in Int /\ a9 \in Int /\ a10 \in Int /\ a11 \in Int
      /\ a12 \in Int /\ a13 \in Int /\ a14 \in Int /\ a15 \in Int
  BY <1>1, HalfSums
<1>5. 0 \in Word
  BY WordSizes DEF Word
<1>6. /\ w * a11 \in Word /\ w * a12 \in Word /\ w * a9 \in Word /\ w * a13 \in Word
      /\ a13 + (w * a14) \in Word /\ a15 \in Word /\ a10 \in Word /\ a9 + (w * a10) \in Word
      /\ a11 + (w * a13) \in Word /\ a13 + (w * a8) \in Word /\ a11 + (w * a12) \in Word
      /\ a13 \in Word /\ a8 + (w * a10) \in Word /\ a9 + (w * a11) \in Word
      /\ a15 + (w * a8) \in Word
  BY <1>1, HalfSums
<1> DEFINE v1 == Words(0, Top(p[5]), p[6], p[7])
           v2 == Words(0, Up(p[6]), Hi(p[6]) + Up(p[7]), Hi(p[7]))
           v3 == Words(p[4], Lo(p[5]), 0, p[7])
           v4 == Words(Hi(p[4]) + Up(p[5]), Hi(p[5]) + Top(p[6]), p[7], Hi(p[6]) + Up(p[4]))
           u1 == Words(Hi(p[5]) + Up(p[6]), Hi(p[6]), 0, Lo(p[4]) + Up(p[5]))
           u2 == Words(p[6], p[7], 0, Hi(p[4]) + Top(p[5]))
           u3 == Words(Hi(p[6]) + Up(p[7]), Hi(p[7]) + Up(p[4]), Hi(p[4]) + Up(p[5]), Up(p[6]))
           u4 == Words(p[7], Top(p[4]), p[5], Top(p[6]))
           s0 == [digits |-> LowHalf(p), carry |-> 0]
           s1 == AddTwice(s0, v1)
           s2 == AddTwice(s1, v2)
           s3 == AddTo(s2, v3)
           s4 == AddTo(s3, v4)
           d1 == TakeFrom(s4, u1)
           d2 == TakeFrom(d1, u2)
           d3 == TakeFrom(d2, u3)
           d4 == TakeFrom(d3, u4)
<1>7. vli_mmod_fast(p) = IF d4.carry < 0 THEN raise[d4] ELSE lower[d4]
  BY DEF vli_mmod_fast
<1>8. s0 \in Counted /\ Reckoned(s0) = Value(LowHalf(p)) /\ Value(LowHalf(p)) \in Int
  <2>1. LowHalf(p) \in Vlis /\ Value(LowHalf(p)) \in Int /\ Base4 * 0 = 0
    BY HalvesOf, VliInts, WordSizes
  <2> QED BY <2>1 DEF Counted, Reckoned
<1> HIDE DEF a8, a9, a10, a11, a12, a13, a14, a15, w
<1>9. /\ v1 \in Vlis /\ Value(v1) = Four(w, 0, w * a11, p[6], p[7]) /\ Value(v1) \in Int
      /\ v2 \in Vlis /\ Value(v2) = Four(w, 0, w * a12, a13 + (w * a14), a15) /\ Value(v2) \in Int
      /\ v3 \in Vlis /\ Value(v3) = Four(w, p[4], a10, 0, p[7]) /\ Value(v3) \in Int
      /\ v4 \in Vlis /\ Value(v4) = Four(w, a9 + (w * a10), a11 + (w * a13), p[7], a13 + (w * a8))
      /\ Value(v4) \in Int
  <2>1. v1 = Words(0, w * a11, p[6], p[7]) /\ v2 = Words(0, w * a12, a13 + (w * a14), a15)
        /\ v3 = Words(p[4], a10, 0, p[7])
        /\ v4 = Words(a9 + (w * a10), a11 + (w * a13), p[7], a13 + (w * a8))
    BY <1>2, <1>3
  <2> HIDE DEF v1, v2, v3, v4
  <2>2. v1 \in Vlis /\ Value(v1) = Four(w, 0, w * a11, p[6], p[7]) /\ Value(v1) \in Int
    <3>1. 0 \in Word /\ (w * a11) \in Word /\ p[6] \in Word /\ p[7] \in Word
      BY <1>1, <1>2, <1>5, <1>6
    <3> QED BY ONLY <1>2, <2>1, <3>1, WordsValue
  <2>3. v2 \in Vlis /\ Value(v2) = Four(w, 0, w * a12, a13 + (w * a14), a15) /\ Value(v2) \in Int
    <3>1. 0 \in Word /\ (w * a12) \in Word /\ (a13 + (w * a14)) \in Word /\ a15 \in Word
      BY <1>1, <1>2, <1>5, <1>6
    <3> QED BY ONLY <1>2, <2>1, <3>1, WordsValue
  <2>4. v3 \in Vlis /\ Value(v3) = Four(w, p[4], a10, 0, p[7]) /\ Value(v3) \in Int
    <3>1. p[4] \in Word /\ a10 \in Word /\ 0 \in Word /\ p[7] \in Word
      BY <1>1, <1>2, <1>5, <1>6
    <3> QED BY ONLY <1>2, <2>1, <3>1, WordsValue
  <2>5. v4 \in Vlis /\ Value(v4) = Four(w, a9 + (w * a10), a11 + (w * a13), p[7], a13 + (w * a8)) /\ Value(v4) \in Int
    <3>1. (a9 + (w * a10)) \in Word /\ (a11 + (w * a13)) \in Word /\ p[7] \in Word /\ (a13 + (w * a8)) \in Word
      BY <1>1, <1>2, <1>5, <1>6
    <3> QED BY ONLY <1>2, <2>1, <3>1, WordsValue
  <2> QED BY <2>2, <2>3, <2>4, <2>5
<1>10. /\ u1 \in Vlis /\ Value(u1) = Four(w, a11 + (w * a12), a13, 0, a8 + (w * a10)) /\ Value(u1) \in Int
       /\ u2 \in Vlis /\ Value(u2) = Four(w, p[6], p[7], 0, a9 + (w * a11)) /\ Value(u2) \in Int
       /\ u3 \in Vlis /\ Value(u3) = Four(w, a13 + (w * a14), a15 + (w * a8), a9 + (w * a10), w * a12)
       /\ Value(u3) \in Int
       /\ u4 \in Vlis /\ Value(u4) = Four(w, p[7], w * a9, p[5], w * a13) /\ Value(u4) \in Int
  <2>1. u1 = Words(a11 + (w * a12), a13, 0, a8 + (w * a10)) /\ u2 = Words(p[6], p[7], 0, a9 + (w * a11))
        /\ u3 = Words(a13 + (w * a14), a15 + (w * a8), a9 + (w * a10), w * a12)
        /\ u4 = Words(p[7], w * a9, p[5], w * a13)
    BY <1>2, <1>3
  <2> HIDE DEF u1, u2, u3, u4
  <2>2. u1 \in Vlis /\ Value(u1) = Four(w, a11 + (w * a12), a13, 0, a8 + (w * a10)) /\ Value(u1) \in Int
    <3>1. (a11 + (w * a12)) \in Word /\ a13 \in Word /\ 0 \in Word /\ (a8 + (w * a10)) \in Word
      BY <1>1, <1>2, <1>5, <1>6
    <3> QED BY ONLY <1>2, <2>1, <3>1, WordsValue
  <2>3. u2 \in Vlis /\ Value(u2) = Four(w, p[6], p[7], 0, a9 + (w * a11)) /\ Value(u2) \in Int
    <3>1. p[6] \in Word /\ p[7] \in Word /\ 0 \in Word /\ (a9 + (w * a11)) \in Word
      BY <1>1, <1>2, <1>5, <1>6
    <3> QED BY ONLY <1>2, <2>1, <3>1, WordsValue
  <2>4. u3 \in Vlis /\ Value(u3) = Four(w, a13 + (w * a14), a15 + (w * a8), a9 + (w * a10), w * a12) /\ Value(u3) \in Int
    <3>1. (a13 + (w * a14)) \in Word /\ (a15 + (w * a8)) \in Word /\ (a9 + (w * a10)) \in Word /\ (w * a12) \in Word
      BY <1>1, <1>2, <1>5, <1>6
    <3> QED BY ONLY <1>2, <2>1, <3>1, WordsValue
  <2>5. u4 \in Vlis /\ Value(u4) = Four(w, p[7], w * a9, p[5], w * a13) /\ Value(u4) \in Int
    <3>1. p[7] \in Word /\ (w * a9) \in Word /\ p[5] \in Word /\ (w * a13) \in Word
      BY <1>1, <1>2, <1>5, <1>6
    <3> QED BY ONLY <1>2, <2>1, <3>1, WordsValue
  <2> QED BY <2>2, <2>3, <2>4, <2>5
<1> HIDE DEF v1, v2, v3, v4, u1, u2, u3, u4, s0
<1>11. s1 \in Counted /\ Reckoned(s1) = Reckoned(s0) + (2 * Value(v1))
  BY <1>8, <1>9, AddTwiceIs
<1> HIDE DEF s1
<1>12. s2 \in Counted /\ Reckoned(s2) = Reckoned(s1) + (2 * Value(v2))
  BY <1>9, <1>11, AddTwiceIs
<1> HIDE DEF s2
<1>13. s3 \in Counted /\ Reckoned(s3) = Reckoned(s2) + Value(v3)
  BY <1>9, <1>12, AddToIs
<1> HIDE DEF s3
<1>14. s4 \in Counted /\ Reckoned(s4) = Reckoned(s3) + Value(v4)
  BY <1>9, <1>13, AddToIs
<1> HIDE DEF s4
<1>15. d1 \in Counted /\ Reckoned(d1) = Reckoned(s4) - Value(u1)
  BY <1>10, <1>14, TakeFromIs
<1> HIDE DEF d1
<1>16. d2 \in Counted /\ Reckoned(d2) = Reckoned(d1) - Value(u2)
  BY <1>10, <1>15, TakeFromIs
<1> HIDE DEF d2
<1>17. d3 \in Counted /\ Reckoned(d3) = Reckoned(d2) - Value(u3)
  BY <1>10, <1>16, TakeFromIs
<1> HIDE DEF d3
<1>18. d4 \in Counted /\ Reckoned(d4) = Reckoned(d3) - Value(u4) /\ Reckoned(d4) \in Int
  BY <1>10, <1>17, TakeFromIs, TotalIs
<1> HIDE DEF d4
<1> DEFINE z == a8 + ((w + 1) * a9) + (((w * w) + w) * a10)
                + (((w * (w * w)) + (w * w) - 1) * a11)
                + (((w * (w * (w * w))) + (w * (w * w)) - w - 1) * a12)
                + (((w * (w * (w * (w * w)))) + (w * (w * (w * w))) - (w * w) - w - 1) * a13)
                + (((w * (w * (w * (w * (w * w))))) + (w * (w * (w * (w * w)))) - (w * (w * w)) - (w * w) - w - 1) * a14)
                + (((w * (w * (w * (w * (w * (w * w)))))) + (w * (w * (w * (w * (w * w))))) - (w * (w * (w * w)))
                     - (w * (w * w)) - (w * w) - w) * a15)
           t == (w * (w * (w * (w * (w * (w * (w * w))))))) * Four(w, p[4], p[5], p[6], p[7])
<1>19. z \in Int
  BY ONLY <1>2, <1>4
<1>20. t = (2 * Value(v1)) + (2 * Value(v2)) + Value(v3) + Value(v4)
             - Value(u1) - Value(u2) - Value(u3) - Value(u4) + (Prime * z)
  <2>1. (w * (w * (w * (w * (w * (w * (w * w)))))))
             * Four(w, (w * a9) + a8, (w * a11) + a10, (w * a13) + a12, (w * a15) + a14)
           = (2 * Four(w, 0, w * a11, (w * a13) + a12, (w * a15) + a14))
             + (2 * Four(w, 0, w * a12, a13 + (w * a14), a15))
             + Four(w, (w * a9) + a8, a10, 0, (w * a15) + a14)
             + Four(w, a9 + (w * a10), a11 + (w * a13), (w * a15) + a14, a13 + (w * a8))
             - Four(w, a11 + (w * a12), a13, 0, a8 + (w * a10))
             - Four(w, (w * a13) + a12, (w * a15) + a14, 0, a9 + (w * a11))
             - Four(w, a13 + (w * a14), a15 + (w * a8), a9 + (w * a10), w * a12)
             - Four(w, (w * a15) + a14, w * a9, (w * a11) + a10, w * a13)
             + (PrimeOf(w) * z)
    <3>1. w \in Int
      BY <1>2
    <3> QED BY ONLY <1>4, <3>1 DEF Four, PrimeOf, z
  <2>2. Prime = PrimeOf(w)
    BY <1>2, PrimePowers
  <2>3. t = (w * (w * (w * (w * (w * (w * (w * w))))))) * Four(w, p[4], p[5], p[6], p[7])
    BY DEF t
  <2> HIDE DEF z, t
  <2>4. t = (2 * Four(w, 0, w * a11, p[6], p[7])) + (2 * Four(w, 0, w * a12, a13 + (w * a14), a15))
            + Four(w, p[4], a10, 0, p[7]) + Four(w, a9 + (w * a10), a11 + (w * a13), p[7], a13 + (w * a8))
            - Four(w, a11 + (w * a12), a13, 0, a8 + (w * a10)) - Four(w, p[6], p[7], 0, a9 + (w * a11))
            - Four(w, a13 + (w * a14), a15 + (w * a8), a9 + (w * a10), w * a12)
            - Four(w, p[7], w * a9, p[5], w * a13) + (PrimeOf(w) * z)
    BY ONLY <1>2, <2>1, <2>3, ZenonT(40)
  <2> QED BY ONLY <1>9, <1>10, <2>2, <2>4, Zenon
<1>21. WideValue(p) = Value(LowHalf(p)) + t
  <2>1. Value(HighHalf(p)) = p[4] + Base * (p[5] + Base * (p[6] + Base * p[7]))
    BY HalvesOf DEF Value
  <2>2. Value(HighHalf(p)) = Four(w, p[4], p[5], p[6], p[7])
    BY <1>2, <2>1 DEF Four, Base
  <2>3. Base4 = w * (w * (w * (w * (w * (w * (w * w))))))
    BY <1>2, PrimePowers
  <2> QED BY <2>2, <2>3 DEF WideValue
<1> HIDE DEF z, t
<1>22. WideValue(p) = Reckoned(d4) + (Prime * z)
  <2>1. Prime * z \in Int
    BY <1>19, PrimeIs, TimesSum
  <2> DEFINE y == Prime * z
  <2> HIDE DEF y
  <2>2. t = (2 * Value(v1)) + (2 * Value(v2)) + Value(v3) + Value(v4)
             - Value(u1) - Value(u2) - Value(u3) - Value(u4) + y /\ y \in Int
    BY <1>20, <2>1 DEF y
  <2>3. WideValue(p) = Reckoned(d4) + y
    BY <1>8, <1>9, <1>10, <1>11, <1>12, <1>13, <1>14, <1>15, <1>16, <1>17, <1>18, <1>21, <2>2
  <2> QED BY <2>3 DEF y
<1>23. WideValue(p) % Prime = Reckoned(d4) % Prime
  <2>1. WideValue(p) \in Int /\ Prime \in Nat \ {0}
    BY HalvesOf, PrimeIs
  <2> QED BY <1>18, <1>19, <1>22, <2>1, Multiple0
<1>24. CASE d4.carry < 0
  BY <1>7, <1>18, <1>23, <1>24, RaiseIs
<1>25. CASE ~(d4.carry < 0)
  BY <1>7, <1>18, <1>23, <1>25, LowerIs
<1> QED BY <1>24, <1>25

(* vli_modMult_fast and vli_modSquare_fast.                                *)
LEMMA FastIs ==
    ASSUME NEW l \in Vlis, NEW r \in Vlis
    PROVE  /\ Value(vli_modMult_fast(l, r)) = (Value(l) * Value(r)) % Prime
           /\ Value(vli_modSquare_fast(l)) = (Value(l) * Value(l)) % Prime
<1> DEFINE p == vli_mult(l, r)
           q == vli_square(l)
<1>1. /\ p \in WideVlis /\ WideValue(p) = Value(l) * Value(r)
      /\ q \in WideVlis /\ WideValue(q) = Value(l) * Value(l)
  BY MultWide, SquareWide
<1>2. vli_modMult_fast(l, r) = vli_mmod_fast(p) /\ vli_modSquare_fast(l) = vli_mmod_fast(q)
  BY DEF vli_modMult_fast, vli_modSquare_fast
<1> HIDE DEF p, q
<1>3. WideValue(p) \in Int /\ WideValue(q) \in Int
  BY <1>1, HalvesOf
<1>4. (WideValue(p) % Prime) \in 0 .. Base4 - 1 /\ (WideValue(q) % Prime) \in 0 .. Base4 - 1
  BY <1>3, PrimeSteps
<1>5. Value(vli_mmod_fast(p)) = WideValue(p) % Prime /\ Value(vli_mmod_fast(q)) = WideValue(q) % Prime
  <2>1. vli_mmod_fast(p) = ToVli(WideValue(p) % Prime) /\ vli_mmod_fast(q) = ToVli(WideValue(q) % Prime)
    BY <1>1, MmodFastIs
  <2> QED BY <1>4, <2>1, ToVliIs
<1> QED BY <1>1, <1>2, <1>5

-----------------------------------------------------------------------------
(* vli_rshift1.                                                            *)

LEMMA HalfOfParts ==
    ASSUME NEW a \in Word, NEW n \in Nat
    PROVE  /\ (a + (Base * n)) \div 2 = (a \div 2) + ((n % 2) * (Base \div 2)) + (Base * (n \div 2))
           /\ (a \div 2) + ((n % 2) * (Base \div 2)) \in Word
           /\ (a + (Base * n)) % 2 = a % 2
<1>1. PICK h \in Nat : Base = 2 * h
  <2>1. HalfBits - 1 \in Nat /\ (HalfBits - 1) + 1 = HalfBits
    BY WordSizes
  <2>2. W = 2 * TwoTo[HalfBits - 1] /\ TwoTo[HalfBits - 1] \in Nat
    BY <2>1, Powers DEF W
  <2> DEFINE g == TwoTo[HalfBits - 1]
  <2> HIDE DEF g
  <2>3. g \in Nat /\ W = 2 * g
    BY <2>2 DEF g
  <2>4. W * g \in Nat /\ W * W = 2 * (W * g)
    <3>1. W \in Nat /\ W * g \in Nat
      BY <2>3, WordSizes, TimesGrows
    <3>2. W * (2 * g) = 2 * (W * g)
      BY <2>3, <3>1, TimesTimes
    <3> QED BY <2>3, <3>1, <3>2
  <2> QED BY <2>4 DEF Base
<1>2. a \in 0 .. (2 * h) - 1 /\ Base \div 2 = h
  BY <1>1 DEF Word
<1>3. PICK k \in Nat, b \in {0, 1} : n = (2 * k) + b /\ n % 2 = b /\ n \div 2 = k
  <2>1. n = (2 * (n \div 2)) + (n % 2) /\ n \div 2 \in Nat /\ n % 2 \in {0, 1}
    OBVIOUS
  <2> QED BY <2>1
<1>4. Base * n = (2 * (Base * k)) + (b * Base) /\ Base * k \in Int
  <2>1. Base \in Int /\ b \in Int
    BY WordSizes, <1>3
  <2>2. Base * ((2 * k) + b) = (Base * (2 * k)) + (Base * b) /\ Base * b = b * Base
    BY <2>1, TimesSum
  <2>3. Base * (2 * k) = 2 * (Base * k) /\ Base * k \in Int
    BY <2>1, TimesTimes, TimesSum
  <2> QED BY <1>3, <2>2, <2>3
<1> DEFINE y == Base * k
           bs == Base
<1>5. Base * n = (2 * y) + (b * bs) /\ y \in Int /\ bs = 2 * h /\ bs * (n \div 2) = y
  BY <1>1, <1>3, <1>4
<1> HIDE DEF y, bs
<1>6. ((a + (Base * n)) \div 2) = (a \div 2) + (b * h) + y
  BY <1>2, <1>3, <1>5
<1>7. (a \div 2) + (b * h) \in 0 .. (2 * h) - 1
  BY <1>2, <1>3
<1>8. (a + (Base * n)) % 2 = a % 2
  BY <1>2, <1>3, <1>5
<1> QED BY <1>1, <1>2, <1>3, <1>5, <1>6, <1>7, <1>8 DEF Word, bs

LEMMA HalfIs ==
    ASSUME NEW v \in Vlis, NEW top \in Carry
    PROVE  /\ vli_rshift1(v, top) \in Vlis
           /\ Value(vli_rshift1(v, top)) = (Value(v) + (Base4 * top)) \div 2
           /\ EVEN(v) <=> Value(v) % 2 = 0
<1> DEFINE n3 == v[3] + (Base * top)
           n2 == v[2] + (Base * n3)
           n1 == v[1] + (Base * n2)
           n0 == v[0] + (Base * n1)
           h == vli_rshift1(v, top)
<1>1. v[0] \in Word /\ v[1] \in Word /\ v[2] \in Word /\ v[3] \in Word /\ Base \in Nat \ {0}
  BY VliIs, WordSizes
<1>2. v[0] \in Nat /\ v[1] \in Nat /\ v[2] \in Nat /\ v[3] \in Nat /\ top \in Nat
  BY <1>1 DEF Word, Carry
<1>3. n3 \in Nat /\ Base * top \in Nat
  BY <1>1, <1>2, TimesGrows
<1> HIDE DEF n3
<1>4. n2 \in Nat /\ Base * n3 \in Nat
  BY <1>1, <1>2, <1>3, TimesGrows
<1> HIDE DEF n2
<1>5. n1 \in Nat /\ Base * n2 \in Nat
  BY <1>1, <1>2, <1>4, TimesGrows
<1> HIDE DEF n1
<1>6. n0 = Value(v) + (Base4 * top)
  <2>1. Base2 \in Int /\ Base3 \in Int /\ Base \in Int /\ top \in Int
    BY WordSizes, <1>2
  <2>2. From3(v) \in Int /\ From2(v) \in Int /\ From1(v) \in Int
    BY ValueIs
  <2>3. n3 = From3(v) + (Base * top)
    BY DEF n3, From3
  <2>4. n2 = From2(v) + (Base2 * top)
    <3>1. Base * (From3(v) + (Base * top)) = (Base * From3(v)) + (Base * (Base * top))
          /\ Base * (Base * top) = Base2 * top
      BY <2>1, <2>2, <1>3, TimesSum, TimesTimes DEF Base2
    <3>2. Base * From3(v) \in Int /\ Base2 * top \in Int
      BY <2>1, <2>2, TimesSum
    <3> QED BY <1>2, <2>3, <3>1, <3>2 DEF n2, From2
  <2>5. n1 = From1(v) + (Base3 * top)
    <3>1. Base2 * top \in Int
      BY <2>1, TimesSum
    <3>2. Base * (From2(v) + (Base2 * top)) = (Base * From2(v)) + (Base * (Base2 * top))
          /\ Base * (Base2 * top) = Base3 * top
      BY <2>1, <2>2, <3>1, TimesSum, TimesTimes DEF Base3
    <3>3. Base * From2(v) \in Int /\ Base3 * top \in Int
      BY <2>1, <2>2, TimesSum
    <3> QED BY <1>2, <2>4, <3>2, <3>3 DEF n1, From1
  <2>6. n0 = Value(v) + (Base4 * top)
    <3>1. Base3 * top \in Int
      BY <2>1, TimesSum
    <3>2. Base * (From1(v) + (Base3 * top)) = (Base * From1(v)) + (Base * (Base3 * top))
          /\ Base * (Base3 * top) = Base4 * top
      BY <2>1, <2>2, <3>1, TimesSum, TimesTimes DEF Base4
    <3>3. Base * From1(v) \in Int /\ Base4 * top \in Int
      BY <2>1, <2>2, WordSizes, TimesSum
    <3>4. Value(v) = v[0] + (Base * From1(v))
      BY ValueIs
    <3> QED BY <1>2, <2>5, <3>2, <3>3, <3>4
  <2> QED BY <2>6
<1>7. /\ n0 \div 2 = ((v[0] \div 2) + ((n1 % 2) * (Base \div 2))) + (Base * (n1 \div 2))
      /\ n1 \div 2 = ((v[1] \div 2) + ((n2 % 2) * (Base \div 2))) + (Base * (n2 \div 2))
      /\ n2 \div 2 = ((v[2] \div 2) + ((n3 % 2) * (Base \div 2))) + (Base * (n3 \div 2))
      /\ n3 \div 2 = ((v[3] \div 2) + ((top % 2) * (Base \div 2))) + (Base * (top \div 2))
      /\ n0 % 2 = v[0] % 2 /\ n1 % 2 = v[1] % 2 /\ n2 % 2 = v[2] % 2 /\ n3 % 2 = v[3] % 2
      /\ (v[0] \div 2) + ((n1 % 2) * (Base \div 2)) \in Word
      /\ (v[1] \div 2) + ((n2 % 2) * (Base \div 2)) \in Word
      /\ (v[2] \div 2) + ((n3 % 2) * (Base \div 2)) \in Word
      /\ (v[3] \div 2) + ((top % 2) * (Base \div 2)) \in Word
  BY <1>1, <1>2, <1>3, <1>4, <1>5, HalfOfParts DEF n1, n2, n3
<1> HIDE DEF n0
<1>8. top % 2 = top /\ top \div 2 = 0 /\ Base * 0 = 0
  BY <1>1 DEF Carry
<1>9. /\ h = [i \in Places |-> h[i]]
      /\ h[0] = (v[0] \div 2) + ((n1 % 2) * (Base \div 2))
      /\ h[1] = (v[1] \div 2) + ((n2 % 2) * (Base \div 2))
      /\ h[2] = (v[2] \div 2) + ((n3 % 2) * (Base \div 2))
      /\ h[3] = (v[3] \div 2) + ((top % 2) * (Base \div 2))
  <2>1. \A i \in Places : h[i] = (v[i] \div 2) + ((IF i = 3 THEN top ELSE v[i + 1] % 2) * (Base \div 2))
    BY DEF vli_rshift1, Digits
  <2>2. h = [i \in Places |-> h[i]]
    BY DEF vli_rshift1
  <2> HIDE DEF h
  <2>3. /\ h[0] = (v[0] \div 2) + ((v[1] % 2) * (Base \div 2))
        /\ h[1] = (v[1] \div 2) + ((v[2] % 2) * (Base \div 2))
        /\ h[2] = (v[2] \div 2) + ((v[3] % 2) * (Base \div 2))
        /\ h[3] = (v[3] \div 2) + (top * (Base \div 2))
    BY <2>1, PlacesAre
  <2> QED BY <1>7, <1>8, <2>2, <2>3
<1> HIDE DEF h
<1>10. h[0] \in Word /\ h[1] \in Word /\ h[2] \in Word /\ h[3] \in Word
  BY <1>7, <1>9
<1>11. h \in Vlis
  BY <1>9, <1>10, PlacesAre DEF Vlis, Word
<1>12. Value(h) = n0 \div 2
  <2>1. h[3] \in Int /\ n3 \div 2 = h[3]
    BY <1>7, <1>8, <1>9, <1>10 DEF Word
  <2> QED BY <1>7, <1>9, <2>1 DEF Value
<1>13. EVEN(v) <=> Value(v) % 2 = 0
  <2>1. From1(v) \in Nat /\ Value(v) = v[0] + (Base * From1(v))
    BY ValueIs, WordSizes
  <2>2. (v[0] + (Base * From1(v))) % 2 = v[0] % 2
    BY <1>1, <2>1, HalfOfParts
  <2> QED BY <2>1, <2>2 DEF EVEN
<1> QED BY <1>6, <1>11, <1>12, <1>13 DEF h

-----------------------------------------------------------------------------
(* What vli_modMult does to eight words.                                   *)

LEMMA JoinIs ==
    ASSUME NEW l \in Vlis, NEW h \in Vlis
    PROVE  Join(l, h) \in WideVlis /\ LowHalf(Join(l, h)) = l /\ HighHalf(Join(l, h)) = h
           /\ WideValue(Join(l, h)) = Value(l) + (Base4 * Value(h))
<1> DEFINE p == Join(l, h)
<1>1. \A i \in 0 .. 7 : p[i] = IF i < 4 THEN l[i] ELSE h[i - 4]
  BY DEF Join, Digits
<1>2. p = [i \in 0 .. 7 |-> p[i]]
  BY DEF Join, Digits
<1> HIDE DEF p
<1>3. \A i \in 0 .. 7 : p[i] \in Word
  <2> SUFFICES ASSUME NEW i \in 0 .. 7 PROVE p[i] \in Word
    OBVIOUS
  <2>1. CASE i < 4
    BY <1>1, <2>1, PlacesAre, VliIs
  <2>2. CASE ~(i < 4)
    <3>1. i - 4 \in {0, 1, 2, 3}
      BY <2>2
    <3> QED BY <1>1, <2>2, <3>1, VliIs
  <2> QED BY <2>1, <2>2
<1>4. p \in WideVlis
  BY <1>2, <1>3 DEF WideVlis, Digits, Word
<1>5. LowHalf(p) = l
  <2>1. \A i \in Places : p[i] = l[i]
    BY <1>1, PlacesAre
  <2> QED BY <2>1, VliIs DEF LowHalf
<1>6. HighHalf(p) = h
  <2>1. \A i \in Places : i + 4 \in 0 .. 7 /\ ~(i + 4 < 4) /\ (i + 4) - 4 = i
    BY PlacesAre
  <2>2. \A i \in Places : p[i + 4] = h[i]
    BY <1>1, <2>1
  <2> QED BY <2>2, VliIs DEF HighHalf, Digits
<1>7. WideValue(p) = Value(l) + (Base4 * Value(h))
  BY <1>5, <1>6 DEF WideValue
<1> QED BY <1>4, <1>5, <1>6, <1>7 DEF p

LEMMA WideParts ==
    ASSUME NEW p \in WideVlis
    PROVE  /\ Value(LowHalf(p)) \in 0 .. Base4 - 1 /\ Value(HighHalf(p)) \in 0 .. Base4 - 1
           /\ WideValue(p) = Value(LowHalf(p)) + (Base4 * Value(HighHalf(p)))
           /\ WideValue(p) \in 0 .. (Base4 * Base4) - 1
<1>1. Value(LowHalf(p)) \in 0 .. Base4 - 1 /\ Value(HighHalf(p)) \in 0 .. Base4 - 1
  BY HalvesOf, ValueIs
<1>2. Base4 \in Nat \ {0} /\ Base4 \in Nat
  BY WordSizes
<1>3. Value(LowHalf(p)) + (Base4 * Value(HighHalf(p))) \in 0 .. (Base4 * Base4) - 1
  BY <1>1, <1>2, PartsBelow
<1> QED BY <1>1, <1>3 DEF WideValue

LEMMA AtMostIs ==
    ASSUME NEW t \in WideVlis, NEW p \in WideVlis
    PROVE  AtMost(t, p) <=> WideValue(t) <= WideValue(p)
<1> DEFINE a == Value(LowHalf(t))
           b == Value(HighHalf(t))
           c == Value(LowHalf(p))
           d == Value(HighHalf(p))
<1>1. /\ a \in 0 .. Base4 - 1 /\ b \in 0 .. Base4 - 1 /\ WideValue(t) = a + (Base4 * b)
      /\ c \in 0 .. Base4 - 1 /\ d \in 0 .. Base4 - 1 /\ WideValue(p) = c + (Base4 * d)
  BY WideParts
<1>2. WideValue(t) \in Int /\ WideValue(p) \in Int
  BY HalvesOf
<1>3. /\ vli_cmp(HighHalf(t), HighHalf(p)) = IF b > d THEN 1 ELSE IF b < d THEN -1 ELSE 0
      /\ vli_cmp(LowHalf(t), LowHalf(p)) = IF a > c THEN 1 ELSE IF a < c THEN -1 ELSE 0
  BY HalvesOf, CmpIs
<1> HIDE DEF a, b, c, d
<1>4. a \in Int /\ b \in Int /\ c \in Int /\ d \in Int /\ Base4 \in Nat \ {0}
  BY <1>1, WordSizes
<1>5. WideValue(p) < WideValue(t) <=> d < b \/ (d = b /\ c < a)
  BY <1>1, <1>4, PartsOrder
<1>6. AtMost(t, p) <=> b < d \/ (b = d /\ a <= c)
  BY <1>3, <1>4 DEF AtMost
<1> QED BY <1>2, <1>4, <1>5, <1>6

LEMMA TakeWideIs ==
    ASSUME NEW p \in WideVlis, NEW t \in WideVlis
    PROVE  /\ TakeWide(p, t) \in WideVlis
           /\ WideValue(t) <= WideValue(p) => WideValue(TakeWide(p, t)) = WideValue(p) - WideValue(t)
<1> DEFINE low == vli_sub(LowHalf(p), LowHalf(t))
           high == vli_sub(HighHalf(p), ToVli(low.carry)).digits
           top == vli_sub(high, HighHalf(t)).digits
           a == Value(LowHalf(t))
           b == Value(HighHalf(t))
           c == Value(LowHalf(p))
           d == Value(HighHalf(p))
<1>1. /\ a \in 0 .. Base4 - 1 /\ b \in 0 .. Base4 - 1 /\ WideValue(t) = a + (Base4 * b)
      /\ c \in 0 .. Base4 - 1 /\ d \in 0 .. Base4 - 1 /\ WideValue(p) = c + (Base4 * d)
  BY WideParts
<1>2. TakeWide(p, t) = Join(low.digits, top)
  BY DEF TakeWide
<1>3. /\ LowHalf(p) \in Vlis /\ LowHalf(t) \in Vlis /\ HighHalf(p) \in Vlis /\ HighHalf(t) \in Vlis
  BY HalvesOf
<1>4. /\ low.digits \in Vlis
      /\ IF c >= a THEN low.carry = 0 /\ Value(low.digits) = c - a
         ELSE low.carry = 1 /\ Value(low.digits) = (c - a) + Base4
  BY <1>3, SubCases
<1> HIDE DEF low
<1>5. Base4 \in Nat /\ Base4 >= 4 /\ Base4 \in Int /\ Base4 \in Nat \ {0}
  BY WordSizes, HalfPowers
<1>6. low.carry \in 0 .. Base4 - 1
  BY <1>4, <1>5
<1>7. ToVli(low.carry) \in Vlis /\ Value(ToVli(low.carry)) = low.carry
  BY <1>6, ToVliIs
<1>8. high \in Vlis /\ (d >= low.carry => Value(high) = d - low.carry)
  BY <1>3, <1>7, SubCases
<1> HIDE DEF high
<1>9. top \in Vlis /\ (d >= low.carry /\ d - low.carry >= b => Value(top) = (d - low.carry) - b)
  <2>1. top \in Vlis /\ (Value(high) >= b => Value(top) = Value(high) - b)
    BY <1>3, <1>8, SubCases
  <2> QED BY <1>8, <2>1
<1> HIDE DEF top
<1>10. TakeWide(p, t) \in WideVlis /\ WideValue(TakeWide(p, t)) = Value(low.digits) + (Base4 * Value(top))
  BY <1>2, <1>4, <1>9, JoinIs
<1> HIDE DEF a, b, c, d
<1>11. ASSUME WideValue(t) <= WideValue(p)
       PROVE  WideValue(TakeWide(p, t)) = WideValue(p) - WideValue(t)
  <2>1. a \in Int /\ b \in Int /\ c \in Int /\ d \in Int
    BY <1>1
  <2>2. ~(WideValue(p) < WideValue(t))
    <3>1. WideValue(p) \in Int /\ WideValue(t) \in Int
      BY HalvesOf
    <3> QED BY <1>11, <3>1
  <2>3. ~(d < b \/ (d = b /\ c < a))
    BY <1>1, <1>5, <2>1, <2>2, PartsOrder
  <2>4. d >= low.carry /\ d - low.carry >= b
    BY <1>1, <1>4, <2>1, <2>3
  <2>5. Value(top) = (d - low.carry) - b
    BY <1>9, <2>4
  <2>6. low.carry \in Int
    BY <1>6, <1>5
  <2> DEFINE k == low.carry
             y == Base4 * d
             z == Base4 * b
  <2>7. Base4 * ((d - k) - b) = (y - (Base4 * k)) - z /\ y \in Int /\ z \in Int
    <3>1. /\ Base4 * (((d - k) - b) + b) = (Base4 * ((d - k) - b)) + z
          /\ Base4 * ((d - k) + k) = (Base4 * (d - k)) + (Base4 * k)
          /\ y \in Int /\ z \in Int /\ Base4 * k \in Int
          /\ Base4 * ((d - k) - b) \in Int /\ Base4 * (d - k) \in Int
      BY <1>5, <2>1, <2>6, TimesSum
    <3>2. ((d - k) - b) + b = d - k /\ (d - k) + k = d
      BY <2>1, <2>6
    <3> QED BY <3>1, <3>2
  <2> HIDE DEF y, z, k
  <2>8. Value(low.digits) = (c - a) + (Base4 * k)
    BY <1>4, <1>5, <2>1 DEF k
  <2>9. Base4 * k \in Int
    BY <1>5, <2>6, TimesSum DEF k
  <2>10. WideValue(TakeWide(p, t)) = ((c - a) + (Base4 * k)) + ((y - (Base4 * k)) - z)
    BY <1>10, <2>5, <2>7, <2>8 DEF k
  <2>11. WideValue(p) = c + y /\ WideValue(t) = a + z
    BY <1>1 DEF y, z
  <2> DEFINE e == Base4 * k
  <2> HIDE DEF e
  <2>12. WideValue(TakeWide(p, t)) = ((c - a) + e) + ((y - e) - z) /\ e \in Int
    BY <2>9, <2>10 DEF e
  <2> QED BY <2>1, <2>7, <2>11, <2>12
<1> QED BY <1>10, <1>11

LEMMA OneDownIs ==
    ASSUME NEW t \in WideVlis
    PROVE  OneDown(t) \in WideVlis /\ WideValue(OneDown(t)) = WideValue(t) \div 2
<1> DEFINE L == Value(LowHalf(t))
           H == Value(HighHalf(t))
           top == t[4] % 2
           l == vli_rshift1(LowHalf(t), top)
           h == vli_rshift1(HighHalf(t), 0)
<1>1. L \in Nat /\ H \in Nat /\ WideValue(t) = L + (Base4 * H)
  BY WideParts
<1>2. LowHalf(t) \in Vlis /\ HighHalf(t) \in Vlis /\ HighHalf(t)[0] = t[4] /\ t[4] \in Word
  BY HalvesOf
<1>3. top \in Carry /\ top = H % 2
  <2>1. From1(HighHalf(t)) \in Nat /\ H = t[4] + (Base * From1(HighHalf(t)))
    BY <1>2, ValueIs, WordSizes
  <2>2. H % 2 = t[4] % 2
    BY <1>2, <2>1, HalfOfParts
  <2> QED BY <1>1, <2>2 DEF Carry
<1>4. 0 \in Carry
  BY DEF Carry
<1>5. l \in Vlis /\ Value(l) = (L + (Base4 * top)) \div 2
  BY <1>2, <1>3, HalfIs
<1>6. h \in Vlis /\ Value(h) = H \div 2
  <2>1. h \in Vlis /\ Value(h) = (H + (Base4 * 0)) \div 2
    BY <1>2, <1>4, HalfIs
  <2>2. H + (Base4 * 0) = H
    BY <1>1, WordSizes
  <2> QED BY <2>1, <2>2
<1>7. OneDown(t) = Join(l, h)
  BY DEF OneDown, Digits
<1> HIDE DEF l, h
<1>8. OneDown(t) \in WideVlis /\ WideValue(OneDown(t)) = ((L + (Base4 * top)) \div 2) + (Base4 * (H \div 2))
  BY <1>5, <1>6, <1>7, JoinIs
<1>9. (L + (Base4 * H)) \div 2 = ((L + (Base4 * top)) \div 2) + (Base4 * (H \div 2))
  <2>1. PICK k \in Nat : H = (2 * k) + top /\ H \div 2 = k /\ top \in {0, 1} /\ top \in Int
    BY <1>1, <1>3 DEF Carry
  <2>2. Base4 * ((2 * k) + top) = (Base4 * (2 * k)) + (Base4 * top) /\ Base4 * (2 * k) = 2 * (Base4 * k)
        /\ Base4 * k \in Int /\ Base4 * top \in Int
    <3>1. Base4 \in Int /\ k \in Int /\ 2 * k \in Int /\ top \in Int
      BY <2>1, WordSizes
    <3>2. Base4 * ((2 * k) + top) = (Base4 * (2 * k)) + (Base4 * top) /\ Base4 * top \in Int
      BY <3>1, TimesSum
    <3>3. Base4 * (2 * k) = 2 * (Base4 * k)
      BY <3>1, TimesTimes
    <3>4. Base4 * k \in Int
      BY <3>1, TimesSum
    <3> QED BY <3>2, <3>3, <3>4
  <2> DEFINE y == Base4 * k
             z == Base4 * top
             x == Base4 * H
  <2>3. x = (2 * y) + z /\ y \in Int /\ z \in Int /\ Base4 * (H \div 2) = y
    BY <2>1, <2>2
  <2> HIDE DEF x, y, z
  <2>4. (L + x) \div 2 = ((L + z) \div 2) + y
    BY <1>1, <2>3
  <2> QED BY <2>3, <2>4 DEF x, z
<1> QED BY <1>1, <1>8, <1>9

(* A number of five words, from each of them up.                           *)
LEMMA FiveWords ==
    ASSUME NEW d \in Vlis, NEW c \in Word, NEW M, M = Value(d) + (Base4 * c)
    PROVE  /\ M \in Nat
           /\ \A j \in Places : (M \div TwoTo[2 * HalfBits * j]) % Base = d[j]
           /\ (M \div TwoTo[2 * HalfBits * 4]) % Base = c
           /\ \A j \in 5 .. 7 : M \div TwoTo[2 * HalfBits * j] = 0
<1> DEFINE y3 == d[3] + (Base * c)
           y2 == d[2] + (Base * y3)
           y1 == d[1] + (Base * y2)
           y0 == d[0] + (Base * y1)
           pw(j) == TwoTo[2 * HalfBits * j]
<1>1. d[0] \in Word /\ d[1] \in Word /\ d[2] \in Word /\ d[3] \in Word /\ Base \in Nat \ {0}
      /\ Base \in Nat /\ Base \in Int
  BY VliIs, WordSizes
<1>2. d[0] \in Nat /\ d[1] \in Nat /\ d[2] \in Nat /\ d[3] \in Nat /\ c \in Nat
  BY <1>1 DEF Word
<1>3. y3 \in Nat /\ Base * c \in Int
  BY <1>1, <1>2, TimesGrows
<1>4. y2 \in Nat /\ Base * y3 \in Int
  BY <1>1, <1>2, <1>3, TimesGrows
<1>5. y1 \in Nat /\ Base * y2 \in Int
  BY <1>1, <1>2, <1>4, TimesGrows
<1>6. y0 \in Nat /\ Base * y1 \in Int
  BY <1>1, <1>2, <1>5, TimesGrows
<1>7. M = y0
  <2>1. /\ Value(d) = d[0] + (Base * From1(d)) /\ From1(d) = d[1] + (Base * From2(d))
        /\ From2(d) = d[2] + (Base * From3(d)) /\ From3(d) = d[3]
    BY ValueIs DEF From1, From2, From3
  <2>2. From1(d) \in Int /\ From2(d) \in Int
    BY ValueIs
  <2>3. Base2 \in Int /\ Base3 \in Int /\ Base4 \in Int /\ c \in Int
    BY WordSizes, <1>2
  <2>4. Base2 * c \in Int /\ Base3 * c \in Int /\ Base4 * c \in Int
    BY <2>3, TimesSum
  <2>5. Base * (Base * c) = Base2 * c /\ Base * (Base2 * c) = Base3 * c /\ Base * (Base3 * c) = Base4 * c
    BY <1>1, <2>3, TimesTimes DEF Base2, Base3, Base4
  <2>6. y2 = From2(d) + (Base2 * c)
    <3>1. Base * (d[3] + (Base * c)) = (Base * d[3]) + (Base2 * c) /\ Base * d[3] \in Int
      <4>1. d[3] \in Int /\ Base \in Int /\ Base * c \in Int
        BY <1>1, <1>2, <1>3
      <4> QED BY <2>5, <4>1, TimesSum
    <3> QED BY <1>2, <2>1, <2>4, <3>1
  <2>7. y1 = From1(d) + (Base3 * c)
    <3>1. Base * (From2(d) + (Base2 * c)) = (Base * From2(d)) + (Base3 * c) /\ Base * From2(d) \in Int
      BY <1>1, <2>2, <2>4, <2>5, TimesSum
    <3> QED BY <1>2, <2>1, <2>4, <2>6, <3>1
  <2>8. y0 = Value(d) + (Base4 * c)
    <3>1. Base * (From1(d) + (Base3 * c)) = (Base * From1(d)) + (Base4 * c) /\ Base * From1(d) \in Int
      BY <1>1, <2>2, <2>4, <2>5, TimesSum
    <3> QED BY <1>2, <2>1, <2>4, <2>7, <3>1
  <2> QED BY <2>8
<1>8. /\ y0 % Base = d[0] /\ y0 \div Base = y1 /\ y1 % Base = d[1] /\ y1 \div Base = y2
      /\ y2 % Base = d[2] /\ y2 \div Base = y3 /\ y3 % Base = d[3] /\ y3 \div Base = c
  <2>1. /\ d[0] \in 0 .. Base - 1 /\ d[1] \in 0 .. Base - 1 /\ d[2] \in 0 .. Base - 1
        /\ d[3] \in 0 .. Base - 1
    BY <1>1 DEF Word
  <2>2. y1 \in Int /\ y2 \in Int /\ y3 \in Int /\ c \in Int
    BY <1>2, <1>3, <1>4, <1>5
  <2> HIDE DEF y1, y2, y3
  <2>3. (d[0] + (Base * y1)) % Base = d[0] /\ (d[0] + (Base * y1)) \div Base = y1
    BY ONLY <1>1, <2>1, <2>2, PartsAre
  <2>4. (d[1] + (Base * y2)) % Base = d[1] /\ (d[1] + (Base * y2)) \div Base = y2
    BY ONLY <1>1, <2>1, <2>2, PartsAre
  <2>5. (d[2] + (Base * y3)) % Base = d[2] /\ (d[2] + (Base * y3)) \div Base = y3
    BY ONLY <1>1, <2>1, <2>2, PartsAre
  <2>6. (d[3] + (Base * c)) % Base = d[3] /\ (d[3] + (Base * c)) \div Base = c
    BY ONLY <1>1, <2>1, <2>2, PartsAre
  <2> QED BY <2>3, <2>4, <2>5, <2>6 DEF y1, y2, y3
<1>9. c % Base = c /\ c \div Base = 0
  <2>1. (c + (Base * 0)) % Base = c /\ (c + (Base * 0)) \div Base = 0
    <3>1. c \in 0 .. Base - 1 /\ 0 \in Int
      BY DEF Word
    <3> QED BY ONLY <1>1, <3>1, PartsAre
  <2>2. c + (Base * 0) = c
    BY <1>1, <1>2
  <2> QED BY <2>1, <2>2
<1> HIDE DEF y0, y1, y2, y3
<1>10. \A j \in Nat : pw(j) \in Nat \ {0} /\ pw(j + 1) = pw(j) * Base
  <2> SUFFICES ASSUME NEW j \in Nat PROVE pw(j) \in Nat \ {0} /\ pw(j + 1) = pw(j) * Base
    OBVIOUS
  <2> DEFINE h == 2 * HalfBits
  <2>1. h \in Nat /\ TwoTo[h] = Base
    BY WordSizes
  <2>2. h * j \in Nat /\ h * (j + 1) = (h * j) + h
    <3>1. h \in Int /\ j \in Int /\ 1 \in Int /\ h * 1 = h
      BY <2>1
    <3>2. h * (j + 1) = (h * j) + (h * 1)
      BY <3>1, TimesSum
    <3> QED BY <2>1, <3>1, <3>2, TimesGrows
  <2> HIDE DEF h
  <2>3. TwoTo[(h * j) + h] = TwoTo[h * j] * TwoTo[h] /\ TwoTo[h * j] \in Nat \ {0}
    BY <2>1, <2>2, PowersMultiply, Powers
  <2> QED BY <2>1, <2>2, <2>3 DEF h
<1>11. M \in Int
  BY <1>6, <1>7
<1>12. \A j \in Nat : M \div pw(j + 1) = (M \div pw(j)) \div Base
  <2> SUFFICES ASSUME NEW j \in Nat PROVE M \div pw(j + 1) = (M \div pw(j)) \div Base
    OBVIOUS
  <2>1. pw(j) \in Nat \ {0} /\ pw(j + 1) = pw(j) * Base
    BY <1>10
  <2> HIDE DEF pw
  <2>2. M \div (pw(j) * Base) = (M \div pw(j)) \div Base
    BY <1>1, <1>11, <2>1, DividedBoth
  <2> QED BY <2>1, <2>2
<1>13. M \div pw(0) = M
  <2>1. pw(0) = 1
    BY PowersOfBase
  <2> QED BY <1>11, <2>1
<1> HIDE DEF pw
<1>14. /\ M \div pw(0 + 1) = (M \div pw(0)) \div Base /\ M \div pw(1 + 1) = (M \div pw(1)) \div Base
       /\ M \div pw(2 + 1) = (M \div pw(2)) \div Base /\ M \div pw(3 + 1) = (M \div pw(3)) \div Base
       /\ M \div pw(4 + 1) = (M \div pw(4)) \div Base /\ M \div pw(5 + 1) = (M \div pw(5)) \div Base
       /\ M \div pw(6 + 1) = (M \div pw(6)) \div Base
  BY <1>12
<1>15. /\ M \div pw(1) = y1 /\ M \div pw(2) = y2 /\ M \div pw(3) = y3 /\ M \div pw(4) = c
       /\ M \div pw(5) = 0 /\ M \div pw(6) = 0 \div Base /\ M \div pw(7) = (0 \div Base) \div Base
  BY <1>7, <1>8, <1>9, <1>13, <1>14
<1>16. 0 \div Base = 0
  BY <1>1
<1>17. M \in Nat
  BY <1>6, <1>7
<1>18. \A j \in Places : (M \div pw(j)) % Base = d[j]
  BY <1>7, <1>8, <1>13, <1>15, PlacesAre
<1>19. (M \div pw(4)) % Base = c
  BY <1>9, <1>15
<1>20. \A j \in 5 .. 7 : M \div pw(j) = 0
  <2>1. M \div pw(5) = 0 /\ M \div pw(6) = 0 /\ M \div pw(7) = 0
    BY <1>15, <1>16
  <2>2. \A j \in 5 .. 7 : j = 5 \/ j = 6 \/ j = 7
    OBVIOUS
  <2> QED BY <2>1, <2>2
<1> QED BY <1>17, <1>18, <1>19, <1>20 DEF pw

(* Powers of a word, by number.                                            *)
LEMMA WordPowers ==
    ASSUME NEW j \in Nat, NEW k \in Nat
    PROVE  /\ TwoTo[2 * HalfBits * j] \in Nat \ {0}
           /\ TwoTo[2 * HalfBits * (j + k)] = TwoTo[2 * HalfBits * j] * TwoTo[2 * HalfBits * k]
           /\ TwoTo[2 * HalfBits * (j + 1)] = TwoTo[2 * HalfBits * j] * Base
<1> DEFINE h == 2 * HalfBits
<1>1. h \in Nat /\ TwoTo[h] = Base /\ h \in Int /\ j \in Int /\ k \in Int /\ 1 \in Int /\ h * 1 = h
  BY WordSizes
<1> HIDE DEF h
<1>2. h * j \in Nat /\ h * k \in Nat /\ h * (j + k) = (h * j) + (h * k) /\ h * (j + 1) = (h * j) + h
  <2>1. h * j \in Nat /\ h * k \in Nat
    BY <1>1, TimesGrows
  <2>2. h * (j + k) = (h * j) + (h * k)
    BY <1>1, TimesSum
  <2>3. h * (j + 1) = (h * j) + (h * 1)
    BY <1>1, TimesSum
  <2> QED BY <1>1, <2>1, <2>2, <2>3
<1>3. /\ TwoTo[(h * j) + (h * k)] = TwoTo[h * j] * TwoTo[h * k] /\ TwoTo[h * j] \in Nat \ {0}
      /\ TwoTo[(h * j) + h] = TwoTo[h * j] * TwoTo[h]
  BY <1>1, <1>2, PowersMultiply, Powers
<1> QED BY <1>1, <1>2, <1>3 DEF h

(* The words of V, from the lowest.                                        *)
LEMMA ShiftsOf ==
    ASSUME NEW V \in Nat, V < Base4 * Base4
    PROVE  Shifts([k \in 0 .. 7 |-> V \div TwoTo[2 * HalfBits * k]], V)
<1> DEFINE pw(k) == TwoTo[2 * HalfBits * k]
           x == [k \in 0 .. 7 |-> V \div pw(k)]
<1>1. \A k \in Nat : pw(k) \in Nat \ {0} /\ pw(k + 1) = pw(k) * Base
  BY WordPowers
<1>2. pw(0) = 1
  BY PowersOfBase
<1> HIDE DEF pw
<1>3. \A k \in 0 .. 7 : x[k] \in Nat /\ x[k] = V \div pw(k)
  <2> SUFFICES ASSUME NEW k \in 0 .. 7 PROVE V \div pw(k) \in Nat
    OBVIOUS
  <2>1. pw(k) \in Nat \ {0}
    BY <1>1
  <2> QED BY <2>1
<1>4. x[0] = V
  <2>1. x[0] = V \div 1
    BY <1>2, <1>3
  <2> QED BY <2>1
<1>5. \A k \in 0 .. 6 : x[k + 1] = x[k] \div Base
  <2> SUFFICES ASSUME NEW k \in 0 .. 6 PROVE x[k + 1] = x[k] \div Base
    OBVIOUS
  <2>1. k \in 0 .. 7 /\ k + 1 \in 0 .. 7 /\ k \in Nat
    OBVIOUS
  <2>2. V \in Int /\ pw(k) \in Nat \ {0} /\ pw(k + 1) = pw(k) * Base /\ Base \in Nat \ {0}
    BY <1>1, <2>1, WordSizes
  <2>3. V \div (pw(k) * Base) = (V \div pw(k)) \div Base
    BY <2>2, DividedBoth
  <2>4. x[k + 1] = V \div pw(k + 1) /\ x[k] = V \div pw(k)
    BY <1>3, <2>1
  <2> QED BY <2>2, <2>3, <2>4
<1> HIDE DEF x
<1>6. Shifts(x, V)
  BY <1>3, <1>4, <1>5 DEF Shifts
<1> QED BY <1>6 DEF x, pw

(* vli_modMult's first multiple: m moved up by n bits, if it still fits.   *)
LEMMA ShiftedUpIs ==
    ASSUME NEW m \in Vlis, NEW n \in Nat, TwoTo[n] * Value(m) < Base4 * Base4
    PROVE  ShiftedUp(m, n) \in WideVlis /\ WideValue(ShiftedUp(m, n)) = TwoTo[n] * Value(m)
<1> DEFINE h == 2 * HalfBits
           w == n \div h
           s == n % h
           moved == vli_lshift(m, s)
           d == moved.digits
           c == moved.carry
           M == TwoTo[s] * Value(m)
           pw(k) == TwoTo[2 * HalfBits * k]
           V == pw(w) * M
           t == ShiftedUp(m, n)
<1>1. h \in Nat \ {0} /\ h \in Nat /\ h \in Int
  BY WordSizes
<1>2. w \in Nat /\ s \in 0 .. h - 1 /\ n = (h * w) + s
  <2>1. (n % h) \in 0 .. h - 1 /\ (n \div h) \in Int /\ n = (h * (n \div h)) + (n % h)
    <3>1. n \in Int
      OBVIOUS
    <3> HIDE DEF h
    <3> QED BY ONLY <1>1, <3>1, Division
  <2> HIDE DEF h
  <2>2. n \div h \in Nat
    BY <1>1
  <2> QED BY <2>1, <2>2
<1>3. s \in 0 .. 2 * HalfBits /\ s \in Nat
  BY <1>1, <1>2
<1>4. d \in Vlis /\ c \in 0 .. TwoTo[s] - 1 /\ Value(d) + (Base4 * c) = M
  BY <1>3, ShiftIs
<1>5. t = [i \in 0 .. 7 |-> CASE i - w \in Places -> d[i - w] [] i - w = 4 -> c [] OTHER -> 0]
  BY DEF ShiftedUp, Digits
<1> HIDE DEF moved
<1>6. c \in Word
  <2>1. TwoTo[s] <= TwoTo[h] /\ TwoTo[h] = Base
    <3>1. TwoTo[h] = Base
      BY WordSizes
    <3>2. s <= h
      BY <1>1, <1>2
    <3> HIDE DEF h, s
    <3>3. TwoTo[s] <= TwoTo[h]
      BY <1>1, <1>3, <3>2, PowersGrowWeakly
    <3> QED BY <3>1, <3>3
  <2>2. TwoTo[s] \in Nat /\ Base \in Nat
    BY <1>3, Powers, WordSizes
  <2> QED BY <1>4, <2>1, <2>2 DEF Word
<1>7. /\ M \in Nat
      /\ \A j \in Places : (M \div pw(j)) % Base = d[j]
      /\ (M \div pw(4)) % Base = c
      /\ \A j \in 5 .. 7 : M \div pw(j) = 0
  BY <1>4, <1>6, FiveWords
<1>8. \A j \in Nat : \A k \in Nat : pw(j) \in Nat \ {0} /\ pw(j + k) = pw(j) * pw(k) /\ pw(j + 1) = pw(j) * Base
  BY WordPowers
<1>9. TwoTo[n] * Value(m) = V /\ V \in Nat
  <2>1. h * w \in Nat
    BY <1>1, <1>2, TimesGrows
  <2>2. TwoTo[(h * w) + s] = TwoTo[h * w] * TwoTo[s]
    BY <2>1, <1>3, PowersMultiply
  <2>3. TwoTo[h * w] \in Nat /\ TwoTo[s] \in Nat /\ Value(m) \in Nat
    BY <2>1, <1>3, Powers, ValueIs
  <2> DEFINE a == TwoTo[h * w]
             b == TwoTo[s]
             e == Value(m)
  <2> HIDE DEF a, b, e
  <2>4. a * (b * e) = (a * b) * e /\ b * e \in Nat
    BY <2>3, TimesTimes, TimesGrows DEF a, b, e
  <2>5. a * (b * e) \in Nat
    BY <2>3, <2>4, TimesGrows DEF a, b, e
  <2>6. TwoTo[n] = a * b
    BY <1>2, <2>2 DEF a, b
  <2>7. V = a * (b * e)
    BY DEF a, b, e
  <2> QED BY <2>4, <2>5, <2>6, <2>7 DEF e
<1> HIDE DEF pw, M, d, c, w, s, h, V
<1>10. \A i \in 0 .. 7 : t[i] = (V \div pw(i)) % Base
  <2> SUFFICES ASSUME NEW i \in 0 .. 7 PROVE t[i] = (V \div pw(i)) % Base
    OBVIOUS
  <2>1. t[i] = CASE i - w \in Places -> d[i - w] [] i - w = 4 -> c [] OTHER -> 0
    BY <1>5
  <2>2. i \in Nat /\ i \in Int /\ w \in Int /\ M \in Int /\ Base \in Nat \ {0} /\ Base \in Int
    BY <1>2, <1>7, WordSizes
  <2>3. V = pw(w) * M
    BY DEF V
  <2> HIDE DEF t
  <2>4. CASE i < w
    <3> DEFINE k == (w - i) - 1
    <3>1. k \in Nat /\ w = i + (k + 1) /\ k + 1 \in Nat
      BY <1>2, <2>2, <2>4
    <3> HIDE DEF k
    <3>2. pw(w) = pw(i) * (pw(k) * Base) /\ pw(i) \in Nat \ {0} /\ pw(k) \in Nat \ {0}
      BY <1>8, <2>2, <3>1
    <3> DEFINE z == pw(k) * M
    <3>3. z \in Int
      BY <2>2, <3>2, TimesSum
    <3>4. V = pw(i) * (Base * z)
      <4>1. pw(k) \in Int /\ pw(i) \in Int /\ pw(k) * Base \in Int
        BY <2>2, <3>2, TimesSum
      <4>2. (pw(i) * (pw(k) * Base)) * M = pw(i) * ((pw(k) * Base) * M)
        BY ONLY <2>2, <4>1, TimesTimes
      <4>3. (pw(k) * Base) * M = pw(k) * (Base * M) /\ pw(k) * (Base * M) = Base * (pw(k) * M)
        BY ONLY <2>2, <4>1, TimesTimes
      <4> QED BY <2>3, <3>2, <4>2, <4>3
    <3> HIDE DEF z
    <3> DEFINE y == Base * z
    <3>5. y \in Int /\ V = 0 + (pw(i) * y) /\ pw(i) * y \in Int
      <4>1. y \in Int /\ pw(i) \in Int
        BY <2>2, <3>2, <3>3, TimesSum
      <4>2. pw(i) * y \in Int
        BY <4>1, TimesSum
      <4> QED BY <3>4, <4>1, <4>2
    <3>6. (0 + (Base * z)) % Base = 0
      <4>1. 0 \in 0 .. Base - 1
        BY <2>2
      <4> QED BY ONLY <2>2, <3>3, <4>1, PartsAre
    <3>7. y = 0 + (Base * z)
      BY <3>5
    <3> HIDE DEF y
    <3>8. V \div pw(i) = y
      <4>1. 0 \in 0 .. pw(i) - 1
        BY <3>2
      <4>2. (0 + (pw(i) * y)) \div pw(i) = y
        BY ONLY <3>2, <3>5, <4>1, PartsAre
      <4> QED BY <3>5, <4>2
    <3>9. ~(i - w \in Places) /\ i - w # 4
      BY <2>2, <2>4, PlacesAre
    <3> QED BY <2>1, <3>6, <3>7, <3>8, <3>9
  <2>5. CASE ~(i < w)
    <3> DEFINE k == i - w
    <3>1. k \in 0 .. 7 /\ k \in Nat /\ i = w + k
      BY <1>2, <2>2, <2>5
    <3> HIDE DEF k
    <3>2. pw(i) = pw(w) * pw(k) /\ pw(w) \in Nat \ {0} /\ pw(k) \in Nat \ {0}
      BY <1>2, <1>8, <3>1
    <3>3. V \div pw(i) = (V \div pw(w)) \div pw(k)
      <4>1. V \in Int
        BY <1>9
      <4> QED BY <3>2, <4>1, DividedBoth
    <3>4. V \div pw(w) = M
      <4>1. 0 \in 0 .. pw(w) - 1
        BY <3>2
      <4>2. (0 + (pw(w) * M)) \div pw(w) = M
        BY ONLY <2>2, <3>2, <4>1, PartsAre
      <4>3. pw(w) * M \in Int
        BY <1>9 DEF V
      <4>4. 0 + (pw(w) * M) = pw(w) * M
        BY <4>3
      <4> QED BY <2>3, <4>2, <4>4
    <3>5. t[i] = CASE k \in Places -> d[k] [] k = 4 -> c [] OTHER -> 0
      BY <2>1 DEF k
    <3>6. CASE k \in Places
      BY <1>7, <3>3, <3>4, <3>5, <3>6
    <3>7. CASE k = 4
      BY <1>7, <3>3, <3>4, <3>5, <3>7, PlacesAre
    <3>8. CASE k \in 5 .. 7
      <4>1. M \div pw(k) = 0
        BY <1>7, <3>8
      <4>2. ~(k \in Places) /\ k # 4
        BY <3>8, PlacesAre
      <4>3. 0 % Base = 0
        BY <2>2
      <4> QED BY <3>3, <3>4, <3>5, <4>1, <4>2, <4>3
    <3> QED BY <3>1, <3>6, <3>7, <3>8, PlacesAre
  <2> QED BY <2>2, <1>2, <2>4, <2>5
<1> DEFINE x == [k \in 0 .. 7 |-> V \div pw(k)]
<1>11. V < Base4 * Base4 /\ V \in 0 .. (Base4 * Base4) - 1
  <2>1. Base4 * Base4 \in Int
    BY WordSizes, TimesSum
  <2> QED BY <1>9, <2>1
<1>12. Shifts(x, V)
  BY <1>9, <1>11, ShiftsOf DEF pw
<1>13. \A k \in 0 .. 7 : t[k] = x[k] % Base
  BY <1>10
<1>14. t = [k \in 0 .. 7 |-> t[k]]
  BY <1>5
<1> HIDE DEF t, x
<1>15. t \in WideVlis /\ WideValue(t) = V
  BY <1>11, <1>12, <1>13, <1>14, WideIs
<1> QED BY <1>9, <1>15 DEF t

-----------------------------------------------------------------------------
(* vli_modMult.                                                            *)

LEMMA ModStepIs ==
    ASSUME NEW s \in ModStates
    PROVE  /\ ModStep(s) \in ModStates /\ ModStep(s).bits = s.bits - 1
           /\ WideValue(ModStep(s).t) = WideValue(s.t) \div 2
           /\ WideValue(ModStep(s).p) =
                  IF WideValue(s.t) <= WideValue(s.p) THEN WideValue(s.p) - WideValue(s.t) ELSE WideValue(s.p)
<1> DEFINE r == ModStep(s)
<1>1. s.p \in WideVlis /\ s.t \in WideVlis /\ s.bits \in Int
  BY DEF ModStates
<1>2. /\ r.p = IF AtMost(s.t, s.p) THEN TakeWide(s.p, s.t) ELSE s.p
      /\ r.t = OneDown(s.t) /\ r.bits = s.bits - 1 /\ r = [p |-> r.p, t |-> r.t, bits |-> r.bits]
  BY DEF ModStep
<1> HIDE DEF r
<1>3. OneDown(s.t) \in WideVlis /\ WideValue(OneDown(s.t)) = WideValue(s.t) \div 2
  BY <1>1, OneDownIs
<1>4. /\ TakeWide(s.p, s.t) \in WideVlis
      /\ WideValue(s.t) <= WideValue(s.p) =>
             WideValue(TakeWide(s.p, s.t)) = WideValue(s.p) - WideValue(s.t)
  BY <1>1, TakeWideIs
<1>5. AtMost(s.t, s.p) <=> WideValue(s.t) <= WideValue(s.p)
  BY <1>1, AtMostIs
<1>6. r.p \in WideVlis /\ r.t \in WideVlis /\ r.bits \in Int
  BY <1>1, <1>2, <1>3, <1>4
<1>7. r \in ModStates
  BY <1>2, <1>6 DEF ModStates
<1> QED BY <1>2, <1>3, <1>4, <1>5, <1>7 DEF r

LEMMA ModLoopSolved ==
    ASSUME NEW m, NEW s \in ModStates
    PROVE  ModLoop(m)[s] = IF ModGoes(m, s) THEN ModLoop(m)[ModStep(s)] ELSE LowHalf(s.p)
<1> DEFINE step == [x \in ModStates |-> ModStep(x)]
           go   == {x \in ModStates : ModGoes(m, x)}
           out  == [x \in ModStates |-> LowHalf(x.p)]
<1>1. step \in [ModStates -> ModStates]
  BY ModStepIs
<1> HIDE DEF step, go, out
<1>2. PICK f : Looped(f, ModStates, step, go, out)
  BY <1>1, LoopExists
<1>3. \A x \in ModStates : (IF x \in go THEN f[step[x]] ELSE out[x])
                             = IF ModGoes(m, x) THEN f[ModStep(x)] ELSE LowHalf(x.p)
  BY DEF go, step, out
<1>4. f = [x \in ModStates |-> IF ModGoes(m, x) THEN f[ModStep(x)] ELSE LowHalf(x.p)]
  BY <1>2, <1>3 DEF Looped
<1>5. ModLoop(m) = [x \in ModStates |-> IF ModGoes(m, x) THEN ModLoop(m)[ModStep(x)] ELSE LowHalf(x.p)]
  BY <1>4 DEF ModLoop
<1> HIDE DEF ModLoop
<1> QED BY <1>5

LEMMA WideSmall ==
    ASSUME NEW p \in WideVlis, WideValue(p) < Base4
    PROVE  Value(LowHalf(p)) = WideValue(p) /\ Value(HighHalf(p)) = 0
<1> DEFINE a == Value(LowHalf(p))
           b == Value(HighHalf(p))
<1>1. a \in 0 .. Base4 - 1 /\ b \in 0 .. Base4 - 1 /\ WideValue(p) = a + (Base4 * b)
  BY WideParts
<1> HIDE DEF a, b
<1>2. Base4 \in Nat /\ a \in Int /\ b \in Nat
  BY <1>1, WordSizes
<1>3. b = 0
  <2> SUFFICES ASSUME b >= 1 PROVE FALSE
    BY <1>2
  <2>1. Base4 * 1 <= Base4 * b /\ Base4 * 1 = Base4 /\ Base4 * b \in Int
    <3>1. 1 \in Int /\ b \in Int /\ Base4 \in Int /\ 1 <= b
      BY <1>2
    <3> QED BY <1>2, <3>1, TimesGrows, TimesSum
  <2> QED BY <1>1, <1>2, <2>1
<1>4. Base4 * 0 = 0
  BY <1>2
<1> QED BY <1>1, <1>2, <1>3, <1>4 DEF a, b

LEMMA ModAtStep ==
    ASSUME NEW s, NEW M \in Nat \ {0}, NEW nb \in Nat, NEW j \in Nat, NEW P0 \in Nat,
           ModAt(s, M, nb, j + 1, P0)
    PROVE  ModAt(ModStep(s), M, nb, j, P0)
<1> DEFINE T == WideValue(s.t)
           p == WideValue(s.p)
           q == WideValue(ModStep(s).p)
<1>1. s \in ModStates /\ s.bits = (nb + (j + 1)) - 1 /\ s.bits \in Int
  BY DEF ModAt, ModStates
<1>2. T = TwoTo[j] * M /\ p < 2 * T /\ (p % M) = P0 % M
  <2>1. (j + 1) - 1 = j /\ j + 1 # 0
    OBVIOUS
  <2> QED BY <2>1 DEF ModAt
<1>3. T \in Nat /\ p \in Nat
  <2>1. s.t \in WideVlis /\ s.p \in WideVlis
    BY <1>1 DEF ModStates
  <2> QED BY <2>1, HalvesOf
<1>4. /\ ModStep(s) \in ModStates /\ ModStep(s).bits = s.bits - 1
      /\ WideValue(ModStep(s).t) = T \div 2 /\ q = IF T <= p THEN p - T ELSE p
  BY <1>1, ModStepIs
<1> HIDE DEF T, p, q
<1>5. q \in Nat /\ q < T
  BY <1>2, <1>3, <1>4
<1>6. (q % M) = P0 % M
  <2>1. CASE T <= p
    <3> DEFINE z == TwoTo[j]
    <3>1. z \in Int /\ 0 - z \in Int /\ M \in Int
      BY Powers
    <3> HIDE DEF z
    <3>2. T = M * z
      BY <1>2, <3>1, TimesSum DEF z
    <3>3. M * (0 - z) = 0 - (M * z) /\ M * z \in Int
      <4>1. M * (z + (0 - z)) = (M * z) + (M * (0 - z)) /\ M * z \in Int /\ M * (0 - z) \in Int
        BY <3>1, TimesSum
      <4>2. z + (0 - z) = 0 /\ M * 0 = 0
        BY <3>1
      <4> QED BY <4>1, <4>2
    <3>4. q = p + (M * (0 - z))
      BY <1>3, <1>4, <2>1, <3>2, <3>3
    <3>5. (q % M) = (p % M)
      <4>1. q \in Int /\ p \in Int
        BY <1>3, <1>5
      <4> QED BY <3>1, <3>4, <4>1, Multiple0
    <3> QED BY <1>2, <3>5
  <2>2. CASE ~(T <= p)
    BY <1>2, <1>4, <2>2
  <2> QED BY <2>1, <2>2
<1>7. CASE j = 0
  <2>1. T = M
    BY <1>2, <1>7, Powers
  <2> QED BY <1>1, <1>4, <1>5, <1>6, <1>7, <2>1 DEF ModAt, q
<1>8. CASE j # 0
  <2> DEFINE i == j - 1
             y == TwoTo[i] * M
  <2>1. i \in Nat /\ j = i + 1
    BY <1>8
  <2>2. TwoTo[j] = 2 * TwoTo[i] /\ TwoTo[i] \in Nat
    BY <2>1, Powers
  <2>3. T = 2 * y /\ y \in Nat
    <3>1. TwoTo[i] \in Int /\ M \in Int
      BY <2>2
    <3>2. (2 * TwoTo[i]) * M = 2 * (TwoTo[i] * M)
      BY <3>1, TimesTimes
    <3>3. TwoTo[i] * M \in Nat
      BY <2>2, <3>1, TimesGrows
    <3> QED BY <1>2, <2>2, <3>2, <3>3
  <2> HIDE DEF y
  <2>4. T \div 2 = y
    BY <2>3
  <2>5. ModStep(s).bits = (nb + j) - 1
    BY <1>1, <1>4
  <2> QED BY <1>4, <1>5, <1>6, <1>8, <2>3, <2>4, <2>5 DEF ModAt, q, y
<1> QED BY <1>7, <1>8

(* The loop goes on until then, and no further.                            *)
LEMMA ModGoesIs ==
    ASSUME NEW m \in Vlis, Value(m) # 0, NEW j \in Nat, NEW P0, NEW s,
           ModAt(s, Value(m), vli_numBits(m), j, P0)
    PROVE  ModGoes(m, s) <=> j # 0
<1> DEFINE M == Value(m)
           nb == vli_numBits(m)
           T == WideValue(s.t)
           D == Digits * 2 * HalfBits
<1>1. M \in Nat \ {0} /\ M < Base4 /\ Base4 \in Nat
  BY ValueIs, WordSizes
<1>2. nb \in Nat \ {0} /\ HasBits(M, nb)
  BY NumBitsIs
<1>3. D \in Nat /\ TwoTo[D] = Base4
  <2>1. D = 2 * HalfBits * Digits
    BY WordSizes DEF Digits
  <2>2. 2 * HalfBits * Digits \in Nat
    BY WordSizes DEF Digits
  <2> QED BY <2>1, <2>2, PowersOfBase
<1>4. nb <= D /\ M < TwoTo[nb]
  BY <1>1, <1>2, <1>3, BitsBound, BitsBetween
<1>5. s.t \in WideVlis /\ s.bits = (nb + j) - 1 /\ T = IF j = 0 THEN M \div 2 ELSE TwoTo[j - 1] * M
  BY DEF ModAt, ModStates
<1> HIDE DEF T, M, nb, D
<1>6. ASSUME T < Base4 PROVE vli_cmp(LowHalf(s.t), m) >= 0 <=> T >= M
  <2>1. Value(LowHalf(s.t)) = T
    BY <1>5, <1>6, WideSmall DEF T
  <2>2. LowHalf(s.t) \in Vlis
    BY <1>5, HalvesOf
  <2>3. vli_cmp(LowHalf(s.t), m) = IF T > M THEN 1 ELSE IF T < M THEN -1 ELSE 0
    BY <2>1, <2>2, CmpIs DEF M
  <2>4. T \in Nat
    BY <1>5, HalvesOf DEF T
  <2> QED BY <1>1, <2>3, <2>4
<1>7. ModGoes(m, s) <=> s.bits > D \/ vli_cmp(LowHalf(s.t), m) >= 0
  BY DEF ModGoes, D
<1>8. CASE j = 0
  <2>1. T < M /\ T < Base4 /\ T \in Nat
    BY <1>1, <1>5, <1>8
  <2>2. ~(s.bits > D)
    BY <1>2, <1>3, <1>4, <1>5, <1>8
  <2> QED BY <1>1, <1>6, <1>7, <1>8, <2>1, <2>2
<1>9. CASE j # 0
  <2>1. CASE s.bits > D
    BY <1>7, <1>9, <2>1
  <2>2. CASE ~(s.bits > D)
    <3> DEFINE i == j - 1
               a == TwoTo[i]
    <3>1. i \in Nat /\ i + nb = s.bits /\ i + nb <= D /\ i + nb \in Nat
      BY <1>2, <1>3, <1>5, <1>9, <2>2
    <3>2. a \in Nat \ {0} /\ TwoTo[i + nb] = a * TwoTo[nb] /\ TwoTo[nb] \in Nat
      BY <1>2, <3>1, Powers, PowersMultiply
    <3>3. TwoTo[i + nb] <= Base4
      <4>1. TwoTo[i + nb] <= TwoTo[D]
        BY <1>3, <3>1, PowersGrowWeakly
      <4> QED BY <1>3, <4>1
    <3> HIDE DEF a
    <3>4. T = a * M
      BY <1>5, <1>9 DEF a
    <3>5. (a * M) + a <= a * TwoTo[nb] /\ a * M \in Nat
      BY <1>1, <1>4, <3>2, TimesGrows
    <3>6. a * TwoTo[nb] \in Nat
      BY <3>2, TimesGrows
    <3>7. T < Base4
      BY <1>1, <3>2, <3>3, <3>4, <3>5, <3>6
    <3>8. M <= T
      <4>1. M * 1 <= M * a /\ M * 1 = M
        BY <1>1, <3>2, TimesGrows
      <4>2. M * a = a * M
        BY <1>1, <3>2, TimesSum
      <4> QED BY <3>4, <4>1, <4>2
    <3> QED BY <1>6, <1>7, <1>9, <3>7, <3>8
  <2> QED BY <2>1, <2>2
<1> QED BY <1>8, <1>9

LEMMA ModLoopIs ==
    ASSUME NEW m \in Vlis, Value(m) # 0, NEW P0 \in Nat, NEW j \in Nat, NEW s,
           ModAt(s, Value(m), vli_numBits(m), j, P0)
    PROVE  Value(ModLoop(m)[s]) = P0 % Value(m)
<1> DEFINE M == Value(m)
           nb == vli_numBits(m)
           A == {k \in Nat : \A x \in ModStates : ModAt(x, M, nb, k, P0) => Value(ModLoop(m)[x]) = P0 % M}
<1>1. M \in Nat \ {0} /\ nb \in Nat
  BY ValueIs, NumBitsIs
<1>2. ASSUME NEW k \in Nat, NEW x \in ModStates, ModAt(x, M, nb, k, P0)
      PROVE  (ModGoes(m, x) <=> k # 0)
             /\ ModLoop(m)[x] = IF ModGoes(m, x) THEN ModLoop(m)[ModStep(x)] ELSE LowHalf(x.p)
  BY <1>2, ModGoesIs, ModLoopSolved
<1> HIDE DEF M, nb
<1>3. 0 \in A
  <2> SUFFICES ASSUME NEW x \in ModStates, ModAt(x, M, nb, 0, P0)
               PROVE  Value(ModLoop(m)[x]) = P0 % M
    OBVIOUS
  <2>1. ModLoop(m)[x] = LowHalf(x.p)
    BY <1>2
  <2>2. WideValue(x.p) < M /\ (WideValue(x.p) % M) = P0 % M
    BY DEF ModAt
  <2>3. x.p \in WideVlis /\ WideValue(x.p) \in Nat
    BY HalvesOf DEF ModStates
  <2>4. M < Base4 /\ Base4 \in Nat
    BY ValueIs, WordSizes DEF M
  <2>5. Value(LowHalf(x.p)) = WideValue(x.p)
    <3>1. WideValue(x.p) < Base4
      BY <1>1, <2>2, <2>3, <2>4
    <3> QED BY <2>3, <3>1, WideSmall
  <2>6. WideValue(x.p) % M = WideValue(x.p)
    <3>1. WideValue(x.p) \in 0 .. M - 1
      BY <1>1, <2>2, <2>3
    <3> QED BY <1>1, <3>1, SmallStays
  <2> QED BY <2>1, <2>2, <2>5, <2>6
<1>4. ASSUME NEW k \in Nat, k \in A PROVE k + 1 \in A
  <2> SUFFICES ASSUME NEW x \in ModStates, ModAt(x, M, nb, k + 1, P0)
               PROVE  Value(ModLoop(m)[x]) = P0 % M
    OBVIOUS
  <2>1. k + 1 \in Nat /\ k + 1 # 0
    OBVIOUS
  <2>2. ModLoop(m)[x] = ModLoop(m)[ModStep(x)]
    BY <1>2, <2>1
  <2>3. ModAt(ModStep(x), M, nb, k, P0)
    BY <1>1, ModAtStep
  <2>4. ModStep(x) \in ModStates
    BY ModStepIs
  <2> QED BY <1>4, <2>2, <2>3, <2>4
<1>5. j \in A
  BY <1>3, <1>4, Induct
<1>6. s \in ModStates
  BY DEF ModAt
<1>7. ModAt(s, M, nb, j, P0)
  BY DEF M, nb
<1> QED BY <1>5, <1>6, <1>7 DEF M

LEMMA WideBitsIs ==
    ASSUME NEW p \in WideVlis
    PROVE  /\ WideValue(p) = 0 => WideBits(p) = 0
           /\ WideValue(p) # 0 => WideBits(p) \in Nat \ {0} /\ HasBits(WideValue(p), WideBits(p))
<1> DEFINE a == Value(LowHalf(p))
           b == Value(HighHalf(p))
           D == Digits * 2 * HalfBits
<1>1. a \in 0 .. Base4 - 1 /\ b \in 0 .. Base4 - 1 /\ WideValue(p) = a + (Base4 * b)
  BY WideParts
<1>2. LowHalf(p) \in Vlis /\ HighHalf(p) \in Vlis
  BY HalvesOf
<1>3. D \in Nat /\ TwoTo[D] = Base4 /\ Base4 \in Nat \ {0} /\ Base4 * 0 = 0
  <2>1. D = 2 * HalfBits * Digits
    BY WordSizes DEF Digits
  <2>2. 2 * HalfBits * Digits \in Nat
    BY WordSizes DEF Digits
  <2> QED BY <2>1, <2>2, PowersOfBase, WordSizes
<1>4. WideBits(p) = IF b = 0 THEN vli_numBits(LowHalf(p)) ELSE vli_numBits(HighHalf(p)) + D
  BY <1>2, ZeroValue DEF WideBits
<1>5. /\ a = 0 => vli_numBits(LowHalf(p)) = 0
      /\ a # 0 => vli_numBits(LowHalf(p)) \in Nat \ {0} /\ HasBits(a, vli_numBits(LowHalf(p)))
      /\ b # 0 => vli_numBits(HighHalf(p)) \in Nat \ {0} /\ HasBits(b, vli_numBits(HighHalf(p)))
  BY <1>2, NumBitsIs
<1> HIDE DEF a, b, D
<1>6. CASE b = 0
  <2>1. WideValue(p) = a
    BY <1>1, <1>3, <1>6
  <2> QED BY <1>4, <1>5, <1>6, <2>1
<1>7. CASE b # 0
  <2> DEFINE k == vli_numBits(HighHalf(p))
  <2>1. k \in Nat \ {0} /\ HasBits(b, k)
    BY <1>5, <1>7
  <2> HIDE DEF k
  <2>2. WideValue(p) \in Nat
    BY HalvesOf
  <2>3. WideValue(p) \div TwoTo[D] = b
    <3>1. b \in Int
      BY <1>1
    <3>2. (a + (Base4 * b)) \div Base4 = b
      BY ONLY <1>1, <1>3, <3>1, PartsAre
    <3> QED BY <1>1, <1>3, <3>2
  <2>4. HasBits(WideValue(p), D + k)
    <3>1. HasBits(WideValue(p) \div TwoTo[D], k)
      BY <2>1, <2>3
    <3> QED BY <1>3, <2>1, <2>2, <3>1, BitsShifted
  <2>5. WideBits(p) = D + k /\ D + k \in Nat \ {0}
    BY <1>3, <1>4, <1>7, <2>1 DEF k
  <2>6. WideValue(p) # 0
    <3> SUFFICES ASSUME WideValue(p) = 0 PROVE FALSE
      OBVIOUS
    <3>1. 0 \div TwoTo[D] = 0
      BY <1>3
    <3> QED BY <1>7, <2>3, <3>1
  <2> QED BY <2>4, <2>5, <2>6
<1> QED BY <1>6, <1>7

(* What vli_modMult starts its loop with.                                  *)
LEMMA ModAtFirst ==
    ASSUME NEW m \in Vlis, Value(m) # 0, NEW p \in WideVlis, ~(WideBits(p) < vli_numBits(m))
    PROVE  /\ WideBits(p) - vli_numBits(m) \in Nat
           /\ ModAt([p |-> p, t |-> ShiftedUp(m, WideBits(p) - vli_numBits(m)), bits |-> WideBits(p)],
                    Value(m), vli_numBits(m), (WideBits(p) - vli_numBits(m)) + 1, WideValue(p))
<1> DEFINE M == Value(m)
           nb == vli_numBits(m)
           n == WideBits(p)
           k == n - nb
           P0 == WideValue(p)
           a == TwoTo[k]
           b == TwoTo[nb - 1]
           s == [p |-> p, t |-> ShiftedUp(m, k), bits |-> n]
<1>1. M \in Nat \ {0} /\ nb \in Nat \ {0} /\ HasBits(M, nb)
  BY ValueIs, NumBitsIs
<1>2. P0 \in Nat /\ P0 < Base4 * Base4 /\ Base4 * Base4 \in Nat
  <2>1. P0 \in 0 .. (Base4 * Base4) - 1 /\ Base4 * Base4 \in Int
    BY WideParts, WordSizes, TimesSum
  <2> QED BY <2>1
<1>3. /\ P0 = 0 => n = 0
      /\ P0 # 0 => n \in Nat \ {0} /\ HasBits(P0, n)
  BY WideBitsIs
<1> HIDE DEF M, nb, n, P0
<1>4. ~(n < nb)
  BY DEF n, nb
<1>5. n \in Nat \ {0} /\ HasBits(P0, n) /\ k \in Nat /\ n - 1 = k + (nb - 1) /\ n = k + nb /\ nb - 1 \in Nat
  BY <1>1, <1>3, <1>4
<1>6. b <= M /\ M < TwoTo[nb] /\ TwoTo[n - 1] <= P0 /\ P0 < TwoTo[n]
  BY <1>1, <1>2, <1>5, BitsBetween
<1>7. /\ a \in Nat \ {0} /\ b \in Nat \ {0} /\ TwoTo[nb] = 2 * b /\ TwoTo[n] = 2 * TwoTo[n - 1]
      /\ TwoTo[n - 1] = a * b /\ TwoTo[n - 1] \in Nat
  <2>1. a \in Nat \ {0} /\ b \in Nat \ {0}
    BY <1>5, Powers
  <2>2. n - 1 \in Nat /\ (n - 1) + 1 = n /\ (nb - 1) + 1 = nb
    BY <1>1, <1>5
  <2>3. TwoTo[(n - 1) + 1] = 2 * TwoTo[n - 1] /\ TwoTo[(nb - 1) + 1] = 2 * b
    BY <1>5, <2>2, Powers
  <2>4. TwoTo[k + (nb - 1)] = a * b
    BY <1>5, PowersMultiply
  <2>5. a * b \in Nat
    BY <2>1, TimesGrows
  <2> QED BY <1>5, <2>1, <2>2, <2>3, <2>4, <2>5
<1> HIDE DEF a, b
<1>8. a * b <= a * M /\ (a * M) + a <= a * (2 * b) /\ a * M \in Nat /\ a * (2 * b) = 2 * (a * b)
  <2>1. a * b <= a * M
    BY <1>1, <1>6, <1>7, TimesGrows
  <2>2. (a * M) + a <= a * (2 * b)
    BY <1>1, <1>6, <1>7, TimesGrows
  <2>3. a * M \in Nat
    BY <1>1, <1>7, TimesGrows
  <2>4. a * (2 * b) = 2 * (a * b)
    BY <1>7, TimesTimes
  <2> QED BY <2>1, <2>2, <2>3, <2>4
<1>9. TwoTo[n] <= Base4 * Base4
  <2> DEFINE D == 2 * HalfBits * Digits
  <2>1. D \in Nat /\ TwoTo[D] = Base4
    BY WordSizes, PowersOfBase DEF Digits
  <2> HIDE DEF D
  <2>2. D + D \in Nat /\ TwoTo[D + D] = Base4 * Base4
    BY <2>1, PowersMultiply
  <2>3. n <= D + D
    BY <1>2, <1>5, <2>2, BitsBound
  <2>4. TwoTo[n] <= TwoTo[D + D]
    BY <1>5, <2>2, <2>3, PowersGrowWeakly
  <2> QED BY <2>2, <2>4
<1>10. a * M < Base4 * Base4
  BY <1>2, <1>7, <1>8, <1>9
<1> DEFINE t == ShiftedUp(m, k)
<1>11. t \in WideVlis /\ WideValue(t) = a * M
  BY <1>5, <1>10, ShiftedUpIs DEF a, M
<1> HIDE DEF t
<1>12. s \in ModStates /\ s.p = p /\ s.t = t /\ s.bits = n
  BY <1>5, <1>11 DEF ModStates, t
<1> HIDE DEF s
<1>13. P0 < 2 * (a * M)
  BY <1>2, <1>6, <1>7, <1>8
<1>14. ModAt(s, M, nb, k + 1, P0)
  <2>1. (k + 1) - 1 = k /\ k + 1 # 0 /\ (nb + (k + 1)) - 1 = n
    BY <1>1, <1>5
  <2>2. s.bits = (nb + (k + 1)) - 1
    BY <1>12, <2>1
  <2>3. WideValue(s.t) = TwoTo[(k + 1) - 1] * M
    BY <1>11, <1>12, <2>1 DEF a
  <2>4. WideValue(s.p) = P0
    BY <1>12 DEF P0
  <2>5. WideValue(s.p) < 2 * WideValue(s.t)
    BY <1>11, <1>12, <1>13, <2>4
  <2> QED BY <1>12, <2>1, <2>2, <2>3, <2>4, <2>5 DEF ModAt
<1> QED BY <1>5, <1>14 DEF s, M, nb, n, P0

LEMMA ModMultIs ==
    ASSUME NEW l \in Vlis, NEW r \in Vlis, NEW m \in Vlis, Value(m) # 0
    PROVE  Value(vli_modMult(l, r, m)) = (Value(l) * Value(r)) % Value(m)
<1> DEFINE p == vli_mult(l, r)
           n == WideBits(p)
           nb == vli_numBits(m)
           M == Value(m)
           s == [p |-> p, t |-> ShiftedUp(m, n - nb), bits |-> n]
<1>1. p \in WideVlis /\ WideValue(p) = Value(l) * Value(r)
  BY MultWide
<1>2. vli_modMult(l, r, m) = IF n < nb THEN LowHalf(p) ELSE ModLoop(m)[s]
  BY DEF vli_modMult, WideBits, ModLoop, ModStates, ModGoes
<1> HIDE DEF p
<1>3. CASE n < nb
  <2>1. M \in Nat \ {0} /\ nb \in Nat \ {0} /\ HasBits(M, nb) /\ M < Base4 /\ Base4 \in Nat
    BY ValueIs, NumBitsIs, WordSizes
  <2> DEFINE P0 == WideValue(p)
  <2>2. P0 \in Nat
    BY <1>1, HalvesOf
  <2>3. P0 # 0 => n \in Nat \ {0} /\ HasBits(P0, n)
    BY <1>1, WideBitsIs
  <2> HIDE DEF n, nb, M, P0
  <2>4. P0 < M
    <3>1. CASE P0 = 0
      BY <2>1, <3>1
    <3>2. CASE P0 # 0
      <4>1. P0 < TwoTo[n] /\ TwoTo[nb - 1] <= M /\ n \in Nat
        BY <2>1, <2>2, <2>3, <3>2, BitsBetween
      <4>2. nb - 1 \in Nat /\ n <= nb - 1
        BY <1>3, <2>1, <4>1
      <4>3. TwoTo[n] <= TwoTo[nb - 1] /\ TwoTo[n] \in Nat /\ TwoTo[nb - 1] \in Nat
        BY <4>1, <4>2, PowersGrowWeakly, Powers
      <4> QED BY <2>1, <2>2, <4>1, <4>3
    <3> QED BY <3>1, <3>2
  <2>5. Value(LowHalf(p)) = P0
    BY <1>1, <2>1, <2>2, <2>4, WideSmall DEF P0
  <2>6. P0 % M = P0
    <3>1. P0 \in 0 .. M - 1
      BY <2>1, <2>2, <2>4
    <3> QED BY <2>1, <3>1, SmallStays
  <2> QED BY <1>1, <1>2, <1>3, <2>5, <2>6 DEF P0, M
<1>4. CASE ~(n < nb)
  <2> DEFINE j == (n - nb) + 1
  <2>1. n - nb \in Nat /\ ModAt(s, M, nb, j, WideValue(p))
    BY <1>1, <1>4, ModAtFirst
  <2>2. j \in Nat
    BY <2>1
  <2>3. WideValue(p) \in Nat
    BY <1>1, HalvesOf
  <2> HIDE DEF s, j
  <2>4. Value(ModLoop(m)[s]) = WideValue(p) % M
    BY <2>1, <2>2, <2>3, ModLoopIs
  <2> QED BY <1>1, <1>2, <1>4, <2>4
<1> QED BY <1>3, <1>4

LEMMA ReductionsShown == WordsInv => ReductionsAgree
<1> SUFFICES ASSUME WordsInv, solved, problem.kind = "product" PROVE ReductionsAgree
  BY DEF ReductionsAgree, Solved
<1> DEFINE x == problem.l
           y == problem.r
           l == ToVli(x)
           r == ToVli(y)
           m == ToVli(N)
<1>1. x \in 0 .. Base4 - 1 /\ y \in 0 .. Base4 - 1 /\ N \in 0 .. Base4 - 1 /\ N # 0
  <2>1. x \in 0 .. Base4 - 1 /\ y \in 0 .. Base4 - 1
    BY NumbersAssumption, WidthIs DEF WordsInv, WordsPosed
  <2>2. N \in 1 .. Base4 - 1
    BY NumbersAssumption, WidthIs
  <2>3. Base4 \in Nat
    BY WordSizes
  <2> QED BY <2>1, <2>2, <2>3
<1>2. /\ answer.fast = vli_modMult_fast(l, r) /\ answer.fastSquare = vli_modSquare_fast(l)
      /\ answer.slow = vli_modMult(l, r, m)
  BY DEF WordsInv, WordsAnswered
<1>3. l \in Vlis /\ r \in Vlis /\ m \in Vlis /\ Value(l) = x /\ Value(r) = y /\ Value(m) = N
  BY <1>1, ToVliIs
<1>4. Value(curve_p) = Prime
  BY PrimeIs
<1> HIDE DEF l, r, m
<1>5. Value(answer.fast) = (x * y) % Value(curve_p) /\ Value(answer.fastSquare) = (x * x) % Value(curve_p)
  BY <1>2, <1>3, <1>4, FastIs
<1>6. Value(answer.slow) = (x * y) % N
  BY <1>1, <1>2, <1>3, ModMultIs
<1> QED BY <1>5, <1>6 DEF ReductionsAgree

-----------------------------------------------------------------------------
(* What vli_modInv does to its four numbers.                               *)

LEMMA ShiftRightIs ==
    ASSUME NEW x \in Vlis
    PROVE  vli_rshift1(x, 0) \in Vlis /\ Value(vli_rshift1(x, 0)) = Value(x) \div 2
<1>1. 0 \in Carry /\ Base4 * 0 = 0
  BY WordSizes DEF Carry
<1>2. Value(x) + 0 = Value(x)
  BY VliInts
<1>3. vli_rshift1(x, 0) \in Vlis /\ Value(vli_rshift1(x, 0)) = (Value(x) + (Base4 * 0)) \div 2
  BY <1>1, HalfIs
<1> QED BY <1>1, <1>2, <1>3

LEMMA HalveModIs ==
    ASSUME NEW x \in Vlis, NEW m \in Vlis
    PROVE  /\ HalveMod(x, m) \in Vlis
           /\ Value(HalveMod(x, m)) = IF Value(x) % 2 = 0 THEN Value(x) \div 2 ELSE (Value(x) + Value(m)) \div 2
<1>1. EVEN(x) <=> Value(x) % 2 = 0
  <2>1. 0 \in Carry
    BY DEF Carry
  <2> QED BY <2>1, HalfIs
<1>2. CASE EVEN(x)
  BY <1>1, <1>2, ShiftRightIs DEF HalveMod
<1>3. CASE ~EVEN(x)
  <2> DEFINE s == vli_add(x, m)
  <2>1. s.digits \in Vlis /\ s.carry \in Carry /\ Value(s.digits) + (Base4 * s.carry) = Value(x) + Value(m)
    BY AddIs
  <2>2. HalveMod(x, m) = vli_rshift1(s.digits, s.carry)
    BY <1>3 DEF HalveMod
  <2> HIDE DEF s
  <2>3. /\ vli_rshift1(s.digits, s.carry) \in Vlis
        /\ Value(vli_rshift1(s.digits, s.carry)) = (Value(s.digits) + (Base4 * s.carry)) \div 2
    BY <2>1, HalfIs
  <2> QED BY <1>1, <1>3, <2>1, <2>2, <2>3
<1> QED BY <1>2, <1>3

LEMMA SubtractModIs ==
    ASSUME NEW x \in Vlis, NEW y \in Vlis, NEW m \in Vlis
    PROVE  /\ SubtractMod(x, y, m) \in Vlis
           /\ Value(x) < Value(m) /\ Value(y) < Value(m) =>
                  Value(SubtractMod(x, y, m)) =
                      IF Value(x) < Value(y) THEN (Value(x) - Value(y)) + Value(m) ELSE Value(x) - Value(y)
<1> DEFINE a == Value(x)
           b == Value(y)
           M == Value(m)
           s == vli_add(x, m)
           w == IF a < b THEN s.digits ELSE x
           d == vli_sub(w, y)
<1>1. a \in Nat /\ b \in Nat /\ M \in Nat /\ a < Base4 /\ b < Base4 /\ M < Base4 /\ Base4 \in Nat
  BY ValueIs, WordSizes
<1>2. vli_cmp(x, y) = IF a > b THEN 1 ELSE IF a < b THEN -1 ELSE 0
  BY CmpIs
<1>3. vli_cmp(x, y) < 0 <=> a < b
  BY <1>1, <1>2
<1>4. SubtractMod(x, y, m) = d.digits
  BY <1>3 DEF SubtractMod
<1>5. /\ s.digits \in Vlis
      /\ IF a + M < Base4 THEN Value(s.digits) = a + M ELSE Value(s.digits) = (a + M) - Base4
  BY AddCases
<1> HIDE DEF s
<1>6. w \in Vlis /\ (a < b => w = s.digits) /\ (~(a < b) => w = x)
  BY <1>5
<1> HIDE DEF w
<1>7. /\ d.digits \in Vlis
      /\ IF Value(w) >= b THEN Value(d.digits) = Value(w) - b ELSE Value(d.digits) = (Value(w) - b) + Base4
  BY <1>6, SubCases
<1> HIDE DEF d
<1>8. ASSUME a < M, b < M
      PROVE  Value(d.digits) = IF a < b THEN (a - b) + M ELSE a - b
  <2>1. CASE a < b
    <3>1. Value(w) = IF a + M < Base4 THEN a + M ELSE (a + M) - Base4
      BY <1>5, <1>6, <2>1
    <3> QED BY <1>1, <1>7, <1>8, <2>1, <3>1
  <2>2. CASE ~(a < b)
    <3>1. Value(w) = a
      BY <1>6, <2>2
    <3> QED BY <1>1, <1>7, <2>2, <3>1
  <2> QED BY <2>1, <2>2
<1> QED BY <1>4, <1>7, <1>8

LEMMA InvStateIs ==
    ASSUME NEW s \in InvStates
    PROVE  s.a \in Vlis /\ s.b \in Vlis /\ s.u \in Vlis /\ s.v \in Vlis
BY DEF InvStates

LEMMA InvStepCases ==
    ASSUME NEW s \in InvStates, NEW m
    PROVE  /\ EVEN(s.a) => InvStep(s, m) = HalvesA(s, m)
           /\ ~EVEN(s.a) /\ EVEN(s.b) => InvStep(s, m) = HalvesB(s, m)
           /\ ~EVEN(s.a) /\ ~EVEN(s.b) /\ vli_cmp(s.a, s.b) > 0 => InvStep(s, m) = TakesA(s, m)
           /\ ~EVEN(s.a) /\ ~EVEN(s.b) /\ ~(vli_cmp(s.a, s.b) > 0) => InvStep(s, m) = TakesB(s, m)
BY DEF InvStep, HalvesA, HalvesB, TakesA, TakesB

(* The numbers that are replaced together.                                *)
LEMMA SetsA ==
    ASSUME NEW s \in InvStates, NEW p, NEW q
    PROVE  [s EXCEPT !.a = p, !.u = q] = [a |-> p, b |-> s.b, u |-> q, v |-> s.v]
<1> DEFINE r == [s EXCEPT !.a = p, !.u = q]
<1>1. r.a = p /\ r.u = q /\ r.b = s.b /\ r.v = s.v
  BY DEF InvStates
<1>2. r = [x \in {"a", "b", "u", "v"} |-> r[x]]
  BY DEF InvStates
<1> HIDE DEF r
<1>3. r = [a |-> p, b |-> s.b, u |-> q, v |-> s.v]
  BY <1>1, <1>2
<1> QED BY <1>3 DEF r

LEMMA SetsB ==
    ASSUME NEW s \in InvStates, NEW p, NEW q
    PROVE  [s EXCEPT !.b = p, !.v = q] = [a |-> s.a, b |-> p, u |-> s.u, v |-> q]
<1> DEFINE r == [s EXCEPT !.b = p, !.v = q]
<1>1. r.b = p /\ r.v = q /\ r.a = s.a /\ r.u = s.u
  BY DEF InvStates
<1>2. r = [x \in {"a", "b", "u", "v"} |-> r[x]]
  BY DEF InvStates
<1> HIDE DEF r
<1>3. r = [a |-> s.a, b |-> p, u |-> s.u, v |-> q]
  BY <1>1, <1>2
<1> QED BY <1>3 DEF r

LEMMA InvStepStates ==
    ASSUME NEW s \in InvStates, NEW m \in Vlis
    PROVE  /\ InvStep(s, m) \in InvStates
           /\ HalvesA(s, m) = [a |-> vli_rshift1(s.a, 0), b |-> s.b, u |-> HalveMod(s.u, m), v |-> s.v]
           /\ HalvesB(s, m) = [a |-> s.a, b |-> vli_rshift1(s.b, 0), u |-> s.u, v |-> HalveMod(s.v, m)]
           /\ TakesA(s, m) = [a |-> vli_rshift1(vli_sub(s.a, s.b).digits, 0), b |-> s.b,
                              u |-> HalveMod(SubtractMod(s.u, s.v, m), m), v |-> s.v]
           /\ TakesB(s, m) = [a |-> s.a, b |-> vli_rshift1(vli_sub(s.b, s.a).digits, 0),
                              u |-> s.u, v |-> HalveMod(SubtractMod(s.v, s.u, m), m)]
<1>1. s.a \in Vlis /\ s.b \in Vlis /\ s.u \in Vlis /\ s.v \in Vlis
  BY InvStateIs
<1>2. /\ HalvesA(s, m) = [a |-> vli_rshift1(s.a, 0), b |-> s.b, u |-> HalveMod(s.u, m), v |-> s.v]
      /\ HalvesB(s, m) = [a |-> s.a, b |-> vli_rshift1(s.b, 0), u |-> s.u, v |-> HalveMod(s.v, m)]
      /\ TakesA(s, m) = [a |-> vli_rshift1(vli_sub(s.a, s.b).digits, 0), b |-> s.b,
                         u |-> HalveMod(SubtractMod(s.u, s.v, m), m), v |-> s.v]
      /\ TakesB(s, m) = [a |-> s.a, b |-> vli_rshift1(vli_sub(s.b, s.a).digits, 0),
                         u |-> s.u, v |-> HalveMod(SubtractMod(s.v, s.u, m), m)]
  <2>1. HalvesA(s, m) = [a |-> vli_rshift1(s.a, 0), b |-> s.b, u |-> HalveMod(s.u, m), v |-> s.v]
    <3> DEFINE p == vli_rshift1(s.a, 0)
               q == HalveMod(s.u, m)
    <3>1. HalvesA(s, m) = [s EXCEPT !.a = p, !.u = q]
      BY DEF HalvesA
    <3> HIDE DEF p, q
    <3>2. [s EXCEPT !.a = p, !.u = q] = [a |-> p, b |-> s.b, u |-> q, v |-> s.v]
      BY SetsA
    <3> QED BY <3>1, <3>2, Zenon DEF p, q
  <2>2. HalvesB(s, m) = [a |-> s.a, b |-> vli_rshift1(s.b, 0), u |-> s.u, v |-> HalveMod(s.v, m)]
    <3> DEFINE p == vli_rshift1(s.b, 0)
               q == HalveMod(s.v, m)
    <3>1. HalvesB(s, m) = [s EXCEPT !.b = p, !.v = q]
      BY DEF HalvesB
    <3> HIDE DEF p, q
    <3>2. [s EXCEPT !.b = p, !.v = q] = [a |-> s.a, b |-> p, u |-> s.u, v |-> q]
      BY SetsB
    <3> QED BY <3>1, <3>2, Zenon DEF p, q
  <2>3. TakesA(s, m) = [a |-> vli_rshift1(vli_sub(s.a, s.b).digits, 0), b |-> s.b, u |-> HalveMod(SubtractMod(s.u, s.v, m), m), v |-> s.v]
    <3> DEFINE p == vli_rshift1(vli_sub(s.a, s.b).digits, 0)
               q == HalveMod(SubtractMod(s.u, s.v, m), m)
    <3>1. TakesA(s, m) = [s EXCEPT !.a = p, !.u = q]
      BY DEF TakesA
    <3> HIDE DEF p, q
    <3>2. [s EXCEPT !.a = p, !.u = q] = [a |-> p, b |-> s.b, u |-> q, v |-> s.v]
      BY SetsA
    <3> QED BY <3>1, <3>2, Zenon DEF p, q
  <2>4. TakesB(s, m) = [a |-> s.a, b |-> vli_rshift1(vli_sub(s.b, s.a).digits, 0), u |-> s.u, v |-> HalveMod(SubtractMod(s.v, s.u, m), m)]
    <3> DEFINE p == vli_rshift1(vli_sub(s.b, s.a).digits, 0)
               q == HalveMod(SubtractMod(s.v, s.u, m), m)
    <3>1. TakesB(s, m) = [s EXCEPT !.b = p, !.v = q]
      BY DEF TakesB
    <3> HIDE DEF p, q
    <3>2. [s EXCEPT !.b = p, !.v = q] = [a |-> s.a, b |-> p, u |-> s.u, v |-> q]
      BY SetsB
    <3> QED BY <3>1, <3>2, Zenon DEF p, q
  <2> QED BY <2>1, <2>2, <2>3, <2>4
<1>3. vli_sub(s.a, s.b).digits \in Vlis /\ vli_sub(s.b, s.a).digits \in Vlis
  BY <1>1, SubIs
<1>4. SubtractMod(s.u, s.v, m) \in Vlis /\ SubtractMod(s.v, s.u, m) \in Vlis
  BY <1>1, SubtractModIs
<1>5. /\ vli_rshift1(s.a, 0) \in Vlis /\ vli_rshift1(s.b, 0) \in Vlis
      /\ vli_rshift1(vli_sub(s.a, s.b).digits, 0) \in Vlis /\ vli_rshift1(vli_sub(s.b, s.a).digits, 0) \in Vlis
  BY <1>1, <1>3, ShiftRightIs
<1>6. /\ HalveMod(s.u, m) \in Vlis /\ HalveMod(s.v, m) \in Vlis
      /\ HalveMod(SubtractMod(s.u, s.v, m), m) \in Vlis /\ HalveMod(SubtractMod(s.v, s.u, m), m) \in Vlis
  BY <1>1, <1>4, HalveModIs
<1>7. /\ HalvesA(s, m) \in InvStates /\ HalvesB(s, m) \in InvStates
      /\ TakesA(s, m) \in InvStates /\ TakesB(s, m) \in InvStates
  BY <1>1, <1>2, <1>5, <1>6 DEF InvStates
<1>8. InvStep(s, m) \in InvStates
  BY <1>7, InvStepCases
<1> QED BY <1>2, <1>8

LEMMA InvLoopSolved ==
    ASSUME NEW m \in Vlis, NEW s \in InvStates
    PROVE  InvLoop(m)[s] = IF InvStops(s) THEN s.u ELSE InvLoop(m)[InvStep(s, m)]
<1> DEFINE step == [x \in InvStates |-> InvStep(x, m)]
           go   == {x \in InvStates : ~InvStops(x)}
           out  == [x \in InvStates |-> x.u]
<1>1. step \in [InvStates -> InvStates]
  BY InvStepStates
<1> HIDE DEF step, go, out
<1>2. PICK f : Looped(f, InvStates, step, go, out)
  BY <1>1, LoopExists
<1>3. \A x \in InvStates : (IF x \in go THEN f[step[x]] ELSE out[x])
                             = IF InvStops(x) THEN x.u ELSE f[InvStep(x, m)]
  BY DEF go, step, out
<1>4. f = [x \in InvStates |-> IF InvStops(x) THEN x.u ELSE f[InvStep(x, m)]]
  BY <1>2, <1>3 DEF Looped
<1>5. InvLoop(m) = [x \in InvStates |-> IF InvStops(x) THEN x.u ELSE InvLoop(m)[InvStep(x, m)]]
  BY <1>4 DEF InvLoop
<1> HIDE DEF InvLoop
<1> QED BY <1>5

(* A vli and its factor, halved; and taken from another first.             *)
LEMMA SideHalves ==
    ASSUME NEW m \in Vlis, Value(m) % 2 = 1, NEW n \in Int, NEW a \in Vlis, NEW b \in Int, NEW u \in Vlis,
           Kept(Value(m), n, Value(a), Value(u)), EVEN(a), Bezout(Value(a), b)
    PROVE  /\ Kept(Value(m), n, Value(vli_rshift1(a, 0)), Value(HalveMod(u, m)))
           /\ Bezout(Value(vli_rshift1(a, 0)), b)
           /\ Value(vli_rshift1(a, 0)) < Value(a)
<1> DEFINE M == Value(m)
           c == Value(a) \div 2
<1>1. M \in Nat /\ M # 0
  BY ValueIs
<1>2. Value(a) % 2 = 0
  <2>1. 0 \in Carry
    BY DEF Carry
  <2> QED BY <2>1, HalfIs
<1>3. Value(a) \in Nat \ {0}
  BY DEF Kept
<1>4. c \in Int /\ Value(a) = 2 * c /\ c < Value(a)
  BY <1>2, <1>3
<1>5. Value(vli_rshift1(a, 0)) = c
  BY ShiftRightIs
<1>6. Value(HalveMod(u, m)) = HalfMod(M, Value(u))
  BY HalveModIs DEF HalfMod
<1> HIDE DEF M, c
<1>7. M % 2 = 1 /\ Kept(M, n, 2 * c, Value(u)) /\ Bezout(2 * c, b)
  BY <1>4 DEF M
<1>8. Kept(M, n, c, HalfMod(M, Value(u)))
  BY <1>1, <1>4, <1>7, KeptHalves
<1>9. Bezout(c, b)
  BY <1>4, <1>7, BezoutHalves
<1> QED BY <1>4, <1>5, <1>6, <1>8, <1>9 DEF M

LEMMA SideTakes ==
    ASSUME NEW m \in Vlis, Value(m) % 2 = 1, NEW n \in Int,
           NEW a \in Vlis, NEW b \in Vlis, NEW u \in Vlis, NEW v \in Vlis,
           Kept(Value(m), n, Value(a), Value(u)), Kept(Value(m), n, Value(b), Value(v)),
           ~EVEN(a), ~EVEN(b), Value(a) > Value(b), Bezout(Value(a), Value(b))
    PROVE  LET c == vli_sub(a, b).digits
               w == SubtractMod(u, v, m)
           IN  /\ Kept(Value(m), n, Value(vli_rshift1(c, 0)), Value(HalveMod(w, m)))
               /\ Bezout(Value(vli_rshift1(c, 0)), Value(b))
               /\ Value(vli_rshift1(c, 0)) < Value(a)
<1> DEFINE c == vli_sub(a, b).digits
           w == SubtractMod(u, v, m)
           M == Value(m)
<1>1. M \in Nat /\ M # 0
  BY ValueIs
<1>2. Value(a) \in Nat \ {0} /\ Value(b) \in Nat \ {0} /\ Value(u) < M /\ Value(v) < M
  BY <1>1 DEF Kept
<1>3. c \in Vlis /\ Value(c) = Value(a) - Value(b)
  BY <1>2, SubCases
<1>4. w \in Vlis /\ Value(w) = DiffMod(M, Value(u), Value(v))
  BY <1>2, SubtractModIs DEF DiffMod
<1>5. Kept(M, n, Value(c), Value(w))
  BY <1>1, <1>3, <1>4, KeptTakes
<1>6. Value(a) % 2 # 0 /\ Value(b) % 2 # 0
  <2>1. 0 \in Carry
    BY DEF Carry
  <2> QED BY <2>1, HalfIs
<1>7. EVEN(c)
  <2>1. 0 \in Carry
    BY DEF Carry
  <2>2. (Value(a) - Value(b)) % 2 = 0
    BY <1>2, <1>6
  <2> QED BY <1>3, <2>1, <2>2, HalfIs
<1>8. Bezout(Value(c), Value(b)) /\ Value(b) \in Int
  <2>1. Value(a) \in Int /\ Value(b) \in Int
    BY <1>2
  <2> QED BY <1>3, <2>1, BezoutTakes
<1>9. Value(c) < Value(a)
  BY <1>2, <1>3
<1> HIDE DEF c, w
<1>10. /\ Kept(Value(m), n, Value(vli_rshift1(c, 0)), Value(HalveMod(w, m)))
       /\ Bezout(Value(vli_rshift1(c, 0)), Value(b))
       /\ Value(vli_rshift1(c, 0)) < Value(c)
  BY <1>3, <1>4, <1>5, <1>7, <1>8, SideHalves
<1>11. Value(vli_rshift1(c, 0)) \in Int /\ Value(c) \in Int
  BY <1>3, ShiftRightIs, VliInts
<1> QED BY <1>2, <1>9, <1>10, <1>11 DEF c, w

LEMMA InvAtStep ==
    ASSUME NEW m \in Vlis, Value(m) % 2 = 1, NEW n \in Int, NEW s, InvAt(s, Value(m), n), ~InvStops(s)
    PROVE  InvAt(InvStep(s, m), Value(m), n) /\ Span2(InvStep(s, m)) < Span2(s)
<1> DEFINE r == InvStep(s, m)
           M == Value(m)
<1>1. s \in InvStates /\ s.a \in Vlis /\ s.b \in Vlis /\ s.u \in Vlis /\ s.v \in Vlis
  BY InvStateIs DEF InvAt
<1>2. /\ Kept(M, n, Value(s.a), Value(s.u)) /\ Kept(M, n, Value(s.b), Value(s.v))
      /\ Bezout(Value(s.a), Value(s.b))
  BY DEF InvAt
<1>3. Value(s.a) \in Nat /\ Value(s.b) \in Nat /\ Value(s.a) \in Int /\ Value(s.b) \in Int
  BY <1>1, ValueIs
<1>4. Bezout(Value(s.b), Value(s.a))
  BY <1>2, <1>3, BezoutSwaps
<1>5. r \in InvStates /\ Value(r.a) \in Int /\ Value(r.b) \in Int
  <2>1. r \in InvStates
    BY <1>1, InvStepStates
  <2> HIDE DEF r
  <2>2. r.a \in Vlis /\ r.b \in Vlis
    BY <2>1, InvStateIs
  <2> QED BY <2>1, <2>2, VliInts
<1>6. vli_cmp(s.a, s.b) = IF Value(s.a) > Value(s.b) THEN 1 ELSE IF Value(s.a) < Value(s.b) THEN -1 ELSE 0
  BY <1>1, CmpIs
<1>7. Value(s.a) # Value(s.b)
  BY <1>3, <1>6 DEF InvStops
<1> HIDE DEF M
<1>8. M = Value(m)
  BY DEF M
<1> SUFFICES /\ Kept(M, n, Value(r.a), Value(r.u)) /\ Kept(M, n, Value(r.b), Value(r.v))
             /\ Bezout(Value(r.a), Value(r.b)) /\ Value(r.a) + Value(r.b) < Value(s.a) + Value(s.b)
  BY <1>5, <1>8 DEF InvAt, Span2
<1> HIDE DEF r
<1>9. CASE EVEN(s.a)
  <2>1. r = [a |-> vli_rshift1(s.a, 0), b |-> s.b, u |-> HalveMod(s.u, m), v |-> s.v]
    <3>1. r = HalvesA(s, m)
      BY <1>1, <1>9, InvStepCases DEF r
    <3> QED BY <1>1, <3>1, InvStepStates
  <2>2. r.a = vli_rshift1(s.a, 0) /\ r.b = s.b /\ r.u = HalveMod(s.u, m) /\ r.v = s.v
    BY <2>1
  <2>3. /\ Kept(Value(m), n, Value(vli_rshift1(s.a, 0)), Value(HalveMod(s.u, m)))
        /\ Bezout(Value(vli_rshift1(s.a, 0)), Value(s.b)) /\ Value(vli_rshift1(s.a, 0)) < Value(s.a)
    BY <1>1, <1>2, <1>3, <1>8, <1>9, SideHalves
  <2> QED BY <1>2, <1>3, <1>5, <1>8, <2>2, <2>3
<1>10. CASE ~EVEN(s.a) /\ EVEN(s.b)
  <2>1. r = [a |-> s.a, b |-> vli_rshift1(s.b, 0), u |-> s.u, v |-> HalveMod(s.v, m)]
    <3>1. r = HalvesB(s, m)
      BY <1>1, <1>10, InvStepCases DEF r
    <3> QED BY <1>1, <3>1, InvStepStates
  <2>2. r.a = s.a /\ r.b = vli_rshift1(s.b, 0) /\ r.u = s.u /\ r.v = HalveMod(s.v, m)
    BY <2>1
  <2>3. /\ Kept(Value(m), n, Value(vli_rshift1(s.b, 0)), Value(HalveMod(s.v, m)))
        /\ Bezout(Value(vli_rshift1(s.b, 0)), Value(s.a)) /\ Value(vli_rshift1(s.b, 0)) < Value(s.b)
    BY <1>1, <1>2, <1>3, <1>4, <1>8, <1>10, SideHalves
  <2>4. Bezout(Value(r.a), Value(r.b))
    BY <1>3, <1>5, <2>2, <2>3, BezoutSwaps
  <2> QED BY <1>2, <1>3, <1>5, <1>8, <2>2, <2>3, <2>4
<1>11. CASE ~EVEN(s.a) /\ ~EVEN(s.b) /\ vli_cmp(s.a, s.b) > 0
  <2>1. r = [a |-> vli_rshift1(vli_sub(s.a, s.b).digits, 0), b |-> s.b,
             u |-> HalveMod(SubtractMod(s.u, s.v, m), m), v |-> s.v]
    <3>1. r = TakesA(s, m)
      BY <1>1, <1>11, InvStepCases DEF r
    <3> QED BY <1>1, <3>1, InvStepStates
  <2>2. /\ r.a = vli_rshift1(vli_sub(s.a, s.b).digits, 0) /\ r.b = s.b
        /\ r.u = HalveMod(SubtractMod(s.u, s.v, m), m) /\ r.v = s.v
    BY <2>1
  <2>3. Value(s.a) > Value(s.b)
    BY <1>3, <1>6, <1>11
  <2>4. LET c == vli_sub(s.a, s.b).digits
            w == SubtractMod(s.u, s.v, m)
        IN  /\ Kept(Value(m), n, Value(vli_rshift1(c, 0)), Value(HalveMod(w, m)))
            /\ Bezout(Value(vli_rshift1(c, 0)), Value(s.b)) /\ Value(vli_rshift1(c, 0)) < Value(s.a)
    BY <1>1, <1>2, <1>8, <1>11, <2>3, SideTakes
  <2> QED BY <1>2, <1>3, <1>5, <1>8, <2>2, <2>4
<1>12. CASE ~EVEN(s.a) /\ ~EVEN(s.b) /\ ~(vli_cmp(s.a, s.b) > 0)
  <2>1. r = [a |-> s.a, b |-> vli_rshift1(vli_sub(s.b, s.a).digits, 0),
             u |-> s.u, v |-> HalveMod(SubtractMod(s.v, s.u, m), m)]
    <3>1. r = TakesB(s, m)
      BY <1>1, <1>12, InvStepCases DEF r
    <3> QED BY <1>1, <3>1, InvStepStates
  <2>2. /\ r.b = vli_rshift1(vli_sub(s.b, s.a).digits, 0) /\ r.a = s.a
        /\ r.v = HalveMod(SubtractMod(s.v, s.u, m), m) /\ r.u = s.u
    BY <2>1
  <2>3. Value(s.b) > Value(s.a)
    BY <1>3, <1>6, <1>7, <1>12
  <2>4. LET c == vli_sub(s.b, s.a).digits
            w == SubtractMod(s.v, s.u, m)
        IN  /\ Kept(Value(m), n, Value(vli_rshift1(c, 0)), Value(HalveMod(w, m)))
            /\ Bezout(Value(vli_rshift1(c, 0)), Value(s.a)) /\ Value(vli_rshift1(c, 0)) < Value(s.b)
    BY <1>1, <1>2, <1>4, <1>8, <1>12, <2>3, SideTakes
  <2>5. Bezout(Value(r.a), Value(r.b))
    BY <1>3, <1>5, <2>2, <2>4, BezoutSwaps
  <2> QED BY <1>2, <1>3, <1>5, <1>8, <2>2, <2>4, <2>5
<1> QED BY <1>9, <1>10, <1>11, <1>12

(* When both are equal, both are 1, and the factor is the inverse.         *)
LEMMA InvAtEnd ==
    ASSUME NEW m \in Vlis, Value(m) >= 2, NEW n \in Int, NEW s, InvAt(s, Value(m), n), InvStops(s)
    PROVE  Inverts(s.u, n, Value(m))
<1> DEFINE M == Value(m)
<1>1. s \in InvStates /\ s.a \in Vlis /\ s.b \in Vlis
  BY InvStateIs DEF InvAt
<1>2. Value(s.a) \in Nat /\ Value(s.b) \in Nat /\ M \in Nat \ {0} /\ M >= 2
  BY <1>1, ValueIs
<1>3. vli_cmp(s.a, s.b) = IF Value(s.a) > Value(s.b) THEN 1 ELSE IF Value(s.a) < Value(s.b) THEN -1 ELSE 0
  BY <1>1, CmpIs
<1>4. Value(s.a) = Value(s.b)
  BY <1>2, <1>3 DEF InvStops
<1>5. Value(s.a) = 1
  BY <1>2, <1>4, BezoutSame DEF InvAt
<1>6. Value(s.u) \in 0 .. M - 1 /\ Alike(M, 1, Value(s.u) * n)
  BY <1>5 DEF InvAt, Kept
<1>7. Value(s.u) * n \in Int
  BY <1>2, <1>6, TimesSum
<1>8. 1 % M = (Value(s.u) * n) % M
  <2>1. 1 \in Int
    OBVIOUS
  <2> HIDE DEF M
  <2> QED BY <1>2, <1>6, <1>7, <2>1, AlikeRules
<1>9. 1 % M = 1
  <2>1. 1 \in 0 .. M - 1
    BY <1>2
  <2> QED BY <1>2, <2>1, SmallStays
<1> QED BY <1>2, <1>6, <1>8, <1>9 DEF Inverts

LEMMA InvLoopIs ==
    ASSUME NEW m \in Vlis, Value(m) % 2 = 1, Value(m) >= 2, NEW n \in Int, NEW s, InvAt(s, Value(m), n)
    PROVE  Inverts(InvLoop(m)[s], n, Value(m))
<1> DEFINE M == Value(m)
           A == {k \in Nat : \A x \in InvStates : InvAt(x, M, n) /\ Span2(x) <= k => Inverts(InvLoop(m)[x], n, M)}
<1>1. ASSUME NEW x \in InvStates PROVE Span2(x) \in Nat
  BY InvStateIs, ValueIs DEF Span2
<1>2. ASSUME NEW x \in InvStates, InvAt(x, M, n), InvStops(x) PROVE Inverts(InvLoop(m)[x], n, M)
  BY <1>2, InvAtEnd, InvLoopSolved
<1>3. ASSUME NEW x \in InvStates, InvAt(x, M, n), ~InvStops(x)
      PROVE  /\ InvLoop(m)[x] = InvLoop(m)[InvStep(x, m)] /\ InvStep(x, m) \in InvStates
             /\ InvAt(InvStep(x, m), M, n) /\ Span2(InvStep(x, m)) < Span2(x)
  BY <1>3, InvLoopSolved, InvStepStates, InvAtStep
<1> HIDE DEF M
<1>4. 0 \in A
  <2> SUFFICES ASSUME NEW x \in InvStates, InvAt(x, M, n), Span2(x) <= 0
               PROVE  Inverts(InvLoop(m)[x], n, M)
    OBVIOUS
  <2>1. CASE InvStops(x)
    BY <1>2, <2>1
  <2>2. CASE ~InvStops(x)
    BY <1>1, <1>3, <2>2
  <2> QED BY <2>1, <2>2
<1>5. ASSUME NEW k \in Nat, k \in A PROVE k + 1 \in A
  <2> SUFFICES ASSUME NEW x \in InvStates, InvAt(x, M, n), Span2(x) <= k + 1
               PROVE  Inverts(InvLoop(m)[x], n, M)
    OBVIOUS
  <2>1. CASE InvStops(x)
    BY <1>2, <2>1
  <2>2. CASE ~InvStops(x)
    <3>1. /\ InvLoop(m)[x] = InvLoop(m)[InvStep(x, m)] /\ InvStep(x, m) \in InvStates
          /\ InvAt(InvStep(x, m), M, n) /\ Span2(InvStep(x, m)) < Span2(x)
      BY <1>3, <2>2
    <3>2. Span2(InvStep(x, m)) <= k
      BY <1>1, <3>1
    <3> QED BY <1>5, <3>1, <3>2
  <2> QED BY <2>1, <2>2
<1>6. s \in InvStates
  BY DEF InvAt
<1>7. Span2(s) \in A
  BY <1>1, <1>4, <1>5, <1>6, Induct
<1>8. InvAt(s, M, n) /\ Span2(s) <= Span2(s)
  BY <1>1, <1>6 DEF M
<1> QED BY <1>6, <1>7, <1>8 DEF M

LEMMA ModInvIs ==
    ASSUME NEW m \in Vlis, Value(m) % 2 = 1, NEW i \in Vlis, Value(i) \in 1 .. Value(m) - 1,
           NEW k \in Int, (Value(i) * k) % Value(m) = 1
    PROVE  Inverts(vli_modInv(i, m), Value(i), Value(m))
<1> DEFINE M == Value(m)
           n == Value(i)
           s == [a |-> i, b |-> m, u |-> ToVli(1), v |-> vli_clear]
<1>1. M \in Nat \ {0} /\ M >= 2 /\ n \in Nat \ {0} /\ n \in Int /\ n < M /\ M % 2 = 1 /\ M \in Int
  BY ValueIs
<1>2. ToVli(1) \in Vlis /\ Value(ToVli(1)) = 1 /\ vli_clear \in Vlis /\ Value(vli_clear) = 0
  <2>1. 1 \in 0 .. Base4 - 1
    BY HalfPowers, WordSizes
  <2> QED BY <2>1, ToVliIs, ZeroValue
<1>3. s \in InvStates /\ s.a = i /\ s.b = m /\ s.u = ToVli(1) /\ s.v = vli_clear
  BY <1>2 DEF InvStates
<1>4. vli_modInv(i, m) = InvLoop(m)[s]
  <2>1. ~vli_isZero(i)
    BY <1>1, ZeroValue
  <2> QED BY <2>1 DEF vli_modInv, InvLoop, InvStates, InvStops
<1> HIDE DEF s
<1>5. Kept(M, n, Value(s.a), Value(s.u))
  <2>1. n = (1 * n) + (M * 0)
    BY <1>1
  <2>2. Alike(M, n, 1 * n)
    BY <2>1 DEF Alike
  <2>3. 1 \in 0 .. M - 1
    BY <1>1
  <2> QED BY <1>1, <1>2, <1>3, <2>2, <2>3 DEF Kept
<1>6. Kept(M, n, Value(s.b), Value(s.v))
  <2>1. M = (0 * n) + (M * 1)
    BY <1>1
  <2>2. Alike(M, M, 0 * n)
    BY <2>1 DEF Alike
  <2>3. 0 \in 0 .. M - 1
    BY <1>1
  <2> QED BY <1>1, <1>2, <1>3, <2>2, <2>3 DEF Kept
<1> HIDE DEF M, n
<1>7. Bezout(n, M)
  <2> DEFINE z == n * k
  <2>1. z \in Int /\ z % M = 1
    BY <1>1, TimesSum DEF M, n
  <2>2. z = (M * (z \div M)) + (z % M) /\ (z \div M) \in Int
    BY <1>1, <2>1, Division
  <2> DEFINE q == z \div M
  <2> HIDE DEF q
  <2>3. z = (M * q) + 1 /\ q \in Int /\ 0 - q \in Int
    BY <2>1, <2>2 DEF q
  <2>4. M * (q + (0 - q)) = (M * q) + (M * (0 - q)) /\ q + (0 - q) = 0 /\ M * 0 = 0
        /\ M * q \in Int /\ M * (0 - q) \in Int /\ (0 - q) * M = M * (0 - q)
    BY <1>1, <2>3, TimesSum
  <2>5. n * k = k * n
    BY <1>1, TimesSum
  <2> DEFINE c == M * q
             d == M * (0 - q)
  <2>6. c + d = 0 /\ c \in Int /\ d \in Int /\ z = c + 1 /\ (0 - q) * M = d
    BY <2>3, <2>4
  <2> HIDE DEF c, d, z
  <2>7. z + d = 1
    BY <2>6
  <2>8. (k * n) + ((0 - q) * M) = 1
    BY <2>5, <2>6, <2>7 DEF z
  <2> QED BY <2>3, <2>8 DEF Bezout
<1>8. InvAt(s, M, n)
  BY <1>3, <1>5, <1>6, <1>7 DEF InvAt, M, n
<1>9. Inverts(InvLoop(m)[s], n, M)
  BY <1>1, <1>8, InvLoopIs DEF M
<1> QED BY <1>4, <1>9 DEF M, n

LEMMA InversesShown == WordsInv => InversesInvert
<1> SUFFICES ASSUME WordsInv, solved, problem.kind = "inverse" PROVE InversesInvert
  BY DEF InversesInvert, Solved
<1> DEFINE x == problem.n
           m == problem.m
<1>1. answer = vli_modInv(ToVli(x), ToVli(m)) /\ m \in OddModuli /\ x \in Operands /\ x < m
  BY DEF WordsInv, WordsPosed, WordsAnswered
<1>2. m \in 1 .. Base4 - 1 /\ m % 2 = 1 /\ x \in Nat
      /\ (x \in 1 .. m - 1 => \E k \in 1 .. m - 1 : (x * k) % m = 1)
  BY <1>1, NumbersAssumption, WidthIs
<1>3. x \in 0 .. Base4 - 1 /\ m \in 0 .. Base4 - 1
  BY <1>1, <1>2, WordSizes
<1>4. ToVli(x) \in Vlis /\ Value(ToVli(x)) = x /\ ToVli(m) \in Vlis /\ Value(ToVli(m)) = m
  BY <1>3, ToVliIs
<1> HIDE DEF x, m
<1>5. CASE x = 0
  <2>1. answer = vli_clear
    BY <1>1, <1>4, <1>5, ZeroValue DEF vli_modInv
  <2>2. Value(answer) = 0
    BY <1>4, <2>1, ZeroValue
  <2> QED BY <1>5, <2>2 DEF InversesInvert, x
<1>6. CASE x # 0
  <2>1. x \in 1 .. m - 1
    BY <1>1, <1>2, <1>6
  <2>2. PICK k \in 1 .. m - 1 : (x * k) % m = 1
    BY <1>2, <2>1
  <2>3. k \in Int
    OBVIOUS
  <2>4. Inverts(answer, x, m)
    BY <1>1, <1>2, <1>4, <2>1, <2>2, <2>3, ModInvIs
  <2> QED BY <1>6, <2>4 DEF InversesInvert, Inverts, x, m
<1> QED BY <1>5, <1>6

-----------------------------------------------------------------------------
LEMMA WordsShown == WordsInv => WordsAreIntegers
BY SumsShown, ProductsShown, ReductionsShown, InversesShown DEF WordsAreIntegers

(* The numbers of the elliptic curve are integers, ecc.cpp 190-1240, for   *)
(* words of any even width: a carry or a borrow that one word hands to the *)
(* next arrives, the eight words of a product and of a square are those of *)
(* the integer, the fast reduction, the slow one and the remainder of a    *)
(* number of eight words agree, a number written as bytes is read back,    *)
(* and the inverse of a number below an odd modulus multiplies with it     *)
(* to one.                                                                 *)
THEOREM WordsKept == Spec => []WordsAreIntegers
<1>1. Spec => []WordsInv
  BY WordsInit, WordsStep, PTL DEF Spec
<1> QED BY <1>1, WordsShown, PTL
=============================================================================
