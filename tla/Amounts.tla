------------------------------ MODULE Amounts -------------------------------
(***************************************************************************)
(* The numbers of a transaction at their width: size_t has SizeBits bits,  *)
(* int has IntBits (64 and 32).  The input map, the text of a transaction  *)
(* and the balance of a wallet are int; the output map is size_t.          *)
(*                                                                         *)
(* Definitions marked "a slip" are mistakes that could be made in the code *)
(* beside them, used by no other definition.                               *)
(***************************************************************************)
EXTENDS Binary, SequencesExt

CONSTANTS SizeBits, IntBits,
          Subsidy,    \* INITIAL_SUBSIDY * COIN
          Interval    \* CONSENSUS_HALVING_INTERVAL

ASSUME AmountsAssumption ==
    /\ IntBits \in Nat \ {0} /\ SizeBits \in Nat /\ IntBits < SizeBits
    /\ Subsidy \in 0 .. TwoTo[IntBits - 1] - 1
    /\ Interval \in Nat \ {0}

Size == 0 .. TwoTo[SizeBits] - 1
IntRange == -(TwoTo[IntBits - 1]) .. TwoTo[IntBits - 1] - 1

(* Conversions between the two types.                                      *)
ToSize(n) == n % TwoTo[SizeBits]
ToInt(n) ==
    LET low == n % TwoTo[IntBits]
    IN  IF low >= TwoTo[IntBits - 1] THEN low - TwoTo[IntBits] ELSE low

(* atoi is strtol, which stops at the largest long, cut to an int.         *)
Atoi(n) == ToInt(IF n >= TwoTo[SizeBits - 1] THEN TwoTo[SizeBits - 1] - 1 ELSE n)

-----------------------------------------------------------------------------
(* Transaction.                                                            *)

(* A slip: the amount stays in the balance.                                *)
createOutputKept(amount, before) == [amount |-> amount, balance |-> before]

createOutput(amount, before) == [amount |-> amount, balance |-> ToSize(before - amount)]

createInput(out) == [balance |-> ToInt(out.balance + out.amount)]

NewTransaction(amount, before) ==
    [out |-> createOutput(amount, before), in |-> createInput(createOutput(amount, before))]

(* A slip: what is added is not taken from the balance.                    *)
UpdateKept(t, amount) ==
    LET out == [t.out EXCEPT !.amount = ToSize(@ + amount)]
    IN  IF amount > t.out.balance THEN [error |-> 1, t |-> t]
        ELSE [error |-> 0, t |-> [out |-> out, in |-> createInput(out)]]

(* The amount is checked and moved; zero takes the other branch.           *)
Update(t, amount) ==
    LET out == IF amount > 0
               THEN [amount  |-> ToSize(t.out.amount + amount),
                     balance |-> ToSize(t.out.balance - amount)]
               ELSE [amount  |-> ToSize(t.out.amount - amount),
                     balance |-> ToSize(t.out.balance + ToInt(amount))]
    IN  IF amount > t.out.balance THEN [error |-> 1, t |-> t]
        ELSE [error |-> 0, t |-> [out |-> out, in |-> createInput(out)]]

(* toString and the constructor that parses: the written output balance is *)
(* read and dropped, and computed again.                                   *)
ReadBackTx(t) ==
    [out |-> createOutput(ToSize(Atoi(t.out.amount)), ToSize(t.in.balance)),
     in  |-> [balance |-> t.in.balance]]

-----------------------------------------------------------------------------
(* A slip: the height is shifted by, not the halvings.                     *)
getBlockSubsidyEarly(height) == {Subsidy \div TwoTo[height % IntBits]}

(* The reward.  A shift by the width of an int or more is undefined: the   *)
(* machine may take its low bits, or the compiler give zero.               *)
getBlockSubsidy(height) ==
    LET halvings == height \div Interval
    IN  CASE halvings >= 2 * IntBits -> {0}
          [] halvings < IntBits -> {Subsidy \div TwoTo[halvings]}
          [] OTHER -> {Subsidy \div TwoTo[halvings % IntBits], 0}

-----------------------------------------------------------------------------
(* A slip: who is paid is not also asked whether he pays.                  *)
BalanceElse(txs, address) ==
    FoldLeft(LAMBDA sum, t : IF t.to = address THEN ToInt(ToSize(sum) + t.amount)
                             ELSE IF t.from = address THEN ToInt(ToSize(sum) - t.amount)
                             ELSE sum, 0, txs)

(* Wallet::calculateBalance: the int is widened for every sum and cut      *)
(* again.  Each transaction has from, to and amount.                       *)
Balance(txs, address) ==
    LET plus(sum, t)  == IF t.to = address THEN ToInt(ToSize(sum) + t.amount) ELSE sum
        minus(sum, t) == IF t.from = address THEN ToInt(ToSize(sum) - t.amount) ELSE sum
    IN  FoldLeft(LAMBDA sum, t : minus(plus(sum, t), t), 0, txs)
=============================================================================
