--------------------------- MODULE TransferProofs ---------------------------
(***************************************************************************)
(* Proofs about ChainTransfer, for any bounds: any height of the chain,    *)
(* number of transactions, tries and starts.                               *)
(*                                                                         *)
(* The first part is about Serialization: what is read of a text that was  *)
(* written, or of a part of one.  The parsers are recursive functions.     *)
(* Each is shown to exist with Induction, and what it returns is found by  *)
(* induction from the end of the text.  Chains and pools are of any        *)
(* length, and the texts any sequences of tokens.  The main results are    *)
(* ChainReadBack and PoolReadBack (what is written is read back), and      *)
(* ChainAdded and PoolAdded (what is left of a text, behind another text). *)
(*                                                                         *)
(* The second part is about the behaviours: the invariants that TypeOK,    *)
(* ReadsWhatItWrites and HangsAreExplained rest on, and what is added when *)
(* a file is received.                                                     *)
(***************************************************************************)
EXTENDS ChainTransfer, Induction

(* What texts are made of.                                                 *)
Tokens == {Header(n) : n \in Int} \cup {Tx(n) : n \in Int} \cup {Field, Bar, Dash, Slash, Star}
Texts == Seq(Tokens)

(* The tokens, each told from the others by its first part.                *)
LEMMA Kinds ==
    /\ \A t \in Tokens :
        /\ t = Bar <=> t[1] = "|"
        /\ t = Dash <=> t[1] = "-"
        /\ t = Slash <=> t[1] = "/"
        /\ t = Star <=> t[1] = "*"
        /\ t = Field <=> t[1] = "field"
        /\ t[1] = "tx" => t[2] \in Int /\ t = Tx(t[2])
        /\ t[1] = "head" => t[2] \in Int /\ t = Header(t[2])
        /\ t[1] \in {"tx", "head", "field", "|", "-", "/", "*"}
    /\ {Bar, Dash, Slash, Star} \subseteq Tokens
    /\ \A n : Tx(n)[1] = "tx" /\ Tx(n)[2] = n /\ Header(n)[1] = "head" /\ Header(n)[2] = n
    /\ \A n \in Int : Tx(n) \in Tokens /\ Header(n) \in Tokens
    /\ Bar[1] = "|" /\ Dash[1] = "-" /\ Slash[1] = "/" /\ Star[1] = "*"
BY DEF Tokens, Header, Tx, Field, Bar, Dash, Slash, Star

(* The first of the places, or behind them.                                *)
LEMMA MinIs ==
    ASSUME NEW S \in SUBSET Nat, NEW n \in S, \A m \in S : n <= m
    PROVE  Min(S) = n
<1>1. \E x \in S : \A y \in S : x <= y
  OBVIOUS
<1>2. Min(S) \in S /\ \A y \in S : Min(S) <= y
  BY <1>1, Zenon DEF Min
<1>3. Min(S) \in Nat /\ n <= Min(S) /\ Min(S) <= n
  BY <1>2
<1> QED BY <1>3

(* find returns the first place of the token between two places, or the    *)
(* place behind them.                                                      *)
LEMMA FoundAt ==
    ASSUME NEW text, NEW token, NEW from \in Nat, NEW to \in Nat, from <= to + 1
    PROVE  LET j == Find(text, token, from, to)
           IN  /\ j \in from .. to + 1
               /\ j <= to => text[j] = token
               /\ \A k \in from .. j - 1 : text[k] # token
<1> DEFINE S == {j \in from .. to : text[j] = token} \cup {to + 1}
<1>1. S \subseteq Nat /\ S # {}
  OBVIOUS
<1>2. PICK n \in S : \A m \in S : n <= m
  BY <1>1, LeastNatural
<1>3. Find(text, token, from, to) = n
  BY <1>1, <1>2, MinIs DEF Find
<1> QED BY <1>2, <1>3

(* It is what it is by that.                                               *)
LEMMA FoundIs ==
    ASSUME NEW text, NEW token, NEW from \in Nat, NEW to \in Nat,
           NEW j \in from .. to + 1, j <= to => text[j] = token,
           \A k \in from .. j - 1 : text[k] # token
    PROVE  Find(text, token, from, to) = j
<1>1. from <= to + 1
  OBVIOUS
<1>2. Find(text, token, from, to) \in from .. to + 1
  BY <1>1, FoundAt
<1> DEFINE f == Find(text, token, from, to)
<1>3. f <= to => text[f] = token
  BY <1>1, FoundAt
<1>4. \A k \in from .. f - 1 : text[k] # token
  BY <1>1, FoundAt
<1> HIDE DEF f
<1> QED BY <1>2, <1>3, <1>4 DEF f

(* The same of a search up to the end of the text, from the place to the   *)
(* result.                                                                 *)
LEMMA FoundInText ==
    ASSUME NEW text, NEW token, NEW from \in Nat, Len(text) \in Nat,
           NEW j \in from .. Len(text) + 1, j <= Len(text) => text[j] = token,
           \A k \in from .. j - 1 : text[k] # token
    PROVE  Find(text, token, from, Len(text)) = j
<1> DEFINE len == Len(text)
<1>1. len \in Nat /\ j \in from .. len + 1 /\ (j <= len => text[j] = token)
  OBVIOUS
<1> HIDE DEF len
<1>2. Find(text, token, from, len) = j
  BY <1>1, FoundIs
<1> QED BY <1>2 DEF len

(* Where the token is nowhere, find returns the place behind.              *)
LEMMA FoundNone ==
    ASSUME NEW text, NEW token, NEW from \in Nat, NEW to \in Nat, from <= to + 1,
           \A k \in from .. to : text[k] # token
    PROVE  Find(text, token, from, to) = to + 1
<1>1. /\ to + 1 \in from .. to + 1 /\ \A k \in from .. (to + 1) - 1 : text[k] # token
      /\ to + 1 <= to => text[to + 1] = token
  OBVIOUS
<1> QED BY <1>1, FoundIs

(* Where the token is at once, find stays there.                           *)
LEMMA FoundHere ==
    ASSUME NEW text, NEW token, NEW from \in Nat, NEW to \in Nat, from <= to, text[from] = token
    PROVE  Find(text, token, from, to) = from
<1>1. from \in from .. to + 1 /\ \A k \in from .. from - 1 : text[k] # token
  OBVIOUS
<1> QED BY <1>1, FoundIs

(* Where the token is next, find goes one further.                         *)
LEMMA FoundNext ==
    ASSUME NEW text, NEW token, NEW from \in Nat, NEW to \in Nat, from + 1 <= to,
           text[from] # token, text[from + 1] = token
    PROVE  Find(text, token, from, to) = from + 1
<1> DEFINE j == from + 1
<1>1. /\ j \in from .. to + 1 /\ \A k \in from .. j - 1 : text[k] # token
      /\ j <= to => text[j] = token
  OBVIOUS
<1> HIDE DEF j
<1>2. Find(text, token, from, to) = j
  BY <1>1, FoundIs
<1> QED BY <1>2 DEF j

-----------------------------------------------------------------------------
(* One step of ParseTxs, with f for what is read further on, and the       *)
(* function that it defines.                                               *)
TxsBody(text, to, i, f) ==
    LET bar == Find(text, Bar, i, to)
        tx == IF bar = i + 1 /\ text[i][1] = "tx" THEN Number(text, i) ELSE 0
    IN  IF bar = i \/ (bar = i + 1 /\ text[i] = Dash) THEN [data |-> <<>>, ends |-> TRUE]
        ELSE IF bar > to THEN [data |-> <<>>, ends |-> FALSE]
        ELSE [f[bar + 1] EXCEPT !.data = <<tx>> \o @]

TxsOf(text, from, to) == CHOOSE f : f = [i \in from .. to + 1 |-> TxsBody(text, to, i, f)]

(* What ParseTxs can return.                                               *)
TxsResults == [data : Seq(Int), ends : BOOLEAN]

(* What a header or transaction is read as is a number.                    *)
LEMMA NumberTyped ==
    ASSUME NEW text \in Texts, NEW i \in 1 .. Len(text), text[i][1] \in Lossy
    PROVE  Number(text, i) \in Int
<1>1. text[i] \in Tokens
  BY DEF Texts
<1> QED BY <1>1, Kinds DEF Number, Lossy

(* One piece and a result for what is behind it are a result.              *)
LEMMA TxsBodyTyped ==
    ASSUME NEW text \in Texts, NEW to \in 0 .. Len(text), NEW i \in 1 .. to + 1,
           NEW f, \A j \in i + 1 .. to + 1 : f[j] \in TxsResults
    PROVE  TxsBody(text, to, i, f) \in TxsResults
<1> DEFINE bar == Find(text, Bar, i, to)
           tx == IF bar = i + 1 /\ text[i][1] = "tx" THEN Number(text, i) ELSE 0
<1>1. bar \in i .. to + 1
  BY FoundAt
<1>2. CASE bar > to \/ bar = i
  BY <1>1, <1>2 DEF TxsBody, TxsResults
<1>3. CASE bar <= to /\ bar # i
  <2>1. i \in 1 .. Len(text) /\ bar + 1 \in i + 1 .. to + 1
    BY <1>1, <1>3
  <2>2. tx \in Int
    BY <2>1, NumberTyped DEF Lossy
  <2>3. f[bar + 1] \in TxsResults
    BY <2>1
  <2> HIDE DEF tx, bar
  <2>4. [f[bar + 1] EXCEPT !.data = <<tx>> \o @] \in TxsResults
    <3>1. <<tx>> \o f[bar + 1].data \in Seq(Int)
      BY <2>2, <2>3 DEF TxsResults
    <3> QED BY <2>3, <3>1 DEF TxsResults
  <2> USE DEF tx, bar
  <2> QED BY <1>3, <2>4 DEF TxsBody, TxsResults
<1> QED BY <1>1, <1>2, <1>3

(* What is read at a place depends on what is read further on, and on      *)
(* nothing before.                                                         *)
LEMMA TxsBodyLooksUp ==
    ASSUME NEW text \in Texts, NEW to \in 0 .. Len(text), NEW i \in 1 .. to + 1,
           NEW f, NEW g, \A j \in i + 1 .. to + 1 : f[j] = g[j]
    PROVE  TxsBody(text, to, i, f) = TxsBody(text, to, i, g)
<1> DEFINE bar == Find(text, Bar, i, to)
<1>1. bar \in i .. to + 1
  BY FoundAt
<1>2. bar # i /\ bar <= to => f[bar + 1] = g[bar + 1]
  BY <1>1
<1> HIDE DEF bar
<1>3. CASE bar # i /\ bar <= to
  BY <1>2, <1>3 DEF TxsBody, bar
<1>4. CASE bar = i \/ bar > to
  BY <1>4 DEF TxsBody, bar
<1> QED BY <1>1, <1>3, <1>4

(* So the recursion of ParseTxs defines a function, and its values are     *)
(* results.                                                                *)
LEMMA TxsExist ==
    ASSUME NEW text \in Texts, NEW to \in 0 .. Len(text), NEW from \in 1 .. to + 1
    PROVE  /\ TxsOf(text, from, to) \in [from .. to + 1 -> TxsResults]
           /\ \A i \in from .. to + 1 :
                  TxsOf(text, from, to)[i] = TxsBody(text, to, i, TxsOf(text, from, to))
<1> DEFINE D == from .. to + 1
           V == TxsResults
           body == [i \in D |-> [f \in [D -> V] |-> TxsBody(text, to, i, f)]]
<1>0. from \in Int /\ to + 1 \in Int
  OBVIOUS
<1>1. V # {}
  <2>1. [data |-> <<>>, ends |-> TRUE] \in V
    BY DEF TxsResults
  <2> QED BY <2>1
<1>2. body \in [D -> [[D -> V] -> V]]
  <2> SUFFICES ASSUME NEW i \in D, NEW f \in [D -> V] PROVE TxsBody(text, to, i, f) \in V
    OBVIOUS
  <2>1. i \in 1 .. to + 1 /\ \A j \in i + 1 .. to + 1 : f[j] \in TxsResults
    OBVIOUS
  <2> QED BY <2>1, TxsBodyTyped
<1>3. ASSUME NEW i \in D, NEW f \in [D -> V], NEW g \in [D -> V],
             \A j \in i + 1 .. to + 1 : f[j] = g[j]
      PROVE  body[i][f] = body[i][g]
  <2>1. TxsBody(text, to, i, f) = TxsBody(text, to, i, g)
    BY <1>3, TxsBodyLooksUp
  <2> QED BY <2>1
<1> HIDE DEF body, V
<1>4. PICK f \in [D -> V] : Solves(f, body)
  <2>1. LooksUp(body, from, to + 1, V)
    BY <1>2, <1>3 DEF LooksUp
  <2> QED BY <1>0, <1>1, <2>1, RecursionDown
<1>5. f = [i \in D |-> TxsBody(text, to, i, f)]
  <2>1. \A i \in D : f[i] = body[i][f]
    BY <1>4 DEF Solves
  <2>2. \A i \in D : body[i][f] = TxsBody(text, to, i, f)
    BY DEF body
  <2> QED BY <2>1, <2>2
<1> DEFINE g == TxsOf(text, from, to)
<1>6. g = [i \in D |-> TxsBody(text, to, i, g)]
  BY <1>5 DEF TxsOf
<1> HIDE DEF g
<1>7. DOMAIN g = D /\ \A i \in D : g[i] = TxsBody(text, to, i, g)
  BY <1>6
<1>8. D \subseteq {i \in D : g[i] \in V}
  <2> DEFINE S == {i \in D : g[i] \in V}
  <2>1. ASSUME NEW i \in D, i + 1 .. to + 1 \subseteq S PROVE i \in S
    <3>1. i \in 1 .. to + 1 /\ \A j \in i + 1 .. to + 1 : g[j] \in TxsResults
      BY <2>1 DEF V
    <3> QED BY <1>7, <3>1, TxsBodyTyped DEF V
  <2> HIDE DEF S
  <2>2. D \subseteq S
    BY <1>0, <2>1, InductDown
  <2> QED BY <2>2 DEF S
<1> QED BY <1>6, <1>7, <1>8 DEF g, V

(* ParseTxs is that function.                                              *)
LEMMA ParsedByBody ==
    ASSUME NEW text, NEW from, NEW to
    PROVE  ParseTxs(text, from, to) = TxsOf(text, from, to)[from]
BY DEF ParseTxs, TxsOf, TxsBody

(* Wherever it starts, what is parsed at a place is the same.              *)
LEMMA TxsAnyStart ==
    ASSUME NEW text \in Texts, NEW to \in 0 .. Len(text)
    PROVE  \A j \in 1 .. to + 1 : \A a \in 1 .. j : TxsOf(text, a, to)[j] = ParseTxs(text, j, to)
<1> DEFINE S == {j \in 1 .. to + 1 : \A a \in 1 .. j : TxsOf(text, a, to)[j] = ParseTxs(text, j, to)}
<1>1. ASSUME NEW j \in 1 .. to + 1, j + 1 .. to + 1 \subseteq S PROVE j \in S
  <2> SUFFICES ASSUME NEW a \in 1 .. j PROVE TxsOf(text, a, to)[j] = TxsOf(text, j, to)[j]
    BY ParsedByBody
  <2>1. a \in 1 .. to + 1 /\ j \in a .. to + 1 /\ j \in j .. to + 1
    OBVIOUS
  <2>2. /\ TxsOf(text, a, to)[j] = TxsBody(text, to, j, TxsOf(text, a, to))
        /\ TxsOf(text, j, to)[j] = TxsBody(text, to, j, TxsOf(text, j, to))
    BY <2>1, TxsExist
  <2>3. ASSUME NEW k \in j + 1 .. to + 1 PROVE TxsOf(text, a, to)[k] = TxsOf(text, j, to)[k]
    <3>1. k \in S /\ a \in 1 .. k /\ j \in 1 .. k
      BY <1>1
    <3> QED BY <3>1
  <2>4. TxsBody(text, to, j, TxsOf(text, a, to)) = TxsBody(text, to, j, TxsOf(text, j, to))
    BY <2>3, TxsBodyLooksUp
  <2> QED BY <2>2, <2>4
<1>2. 1 \in Int /\ to + 1 \in Int
  OBVIOUS
<1> HIDE DEF S
<1>3. 1 .. to + 1 \subseteq S
  BY <1>1, <1>2, InductDown
<1> QED BY <1>3 DEF S

(* EXCEPT, for a result of transactions.                                   *)
LEMMA WithData ==
    ASSUME NEW r \in TxsResults, NEW x
    PROVE  [r EXCEPT !.data = x \o @] = [data |-> x \o r.data, ends |-> r.ends]
<1> DEFINE d == x \o r.data
<1> HIDE DEF d
<1>1. [r EXCEPT !.data = d] = [data |-> d, ends |-> r.ends]
  BY DEF TxsResults
<1> QED BY <1>1 DEF d

(* One step of the loop over transactions.                                 *)
LEMMA TxsStep ==
    ASSUME NEW text \in Texts, NEW to \in 0 .. Len(text), NEW i \in 1 .. to + 1,
           NEW bar, bar = Find(text, Bar, i, to),
           NEW tx, tx = IF bar = i + 1 /\ text[i][1] = "tx" THEN Number(text, i) ELSE 0,
           NEW ended, ended <=> bar = i \/ (bar = i + 1 /\ text[i] = Dash)
    PROVE  /\ ParseTxs(text, i, to) \in TxsResults
           /\ ended => ParseTxs(text, i, to) = [data |-> <<>>, ends |-> TRUE]
           /\ ~ended /\ bar > to => ParseTxs(text, i, to) = [data |-> <<>>, ends |-> FALSE]
           /\ ~ended /\ bar <= to =>
                  LET next == ParseTxs(text, bar + 1, to)
                  IN  ParseTxs(text, i, to) = [data |-> <<tx>> \o next.data, ends |-> next.ends]
<1> DEFINE this == ParseTxs(text, i, to)
           next == ParseTxs(text, bar + 1, to)
           f == TxsOf(text, i, to)
<1>1. bar \in i .. to + 1
  BY FoundAt
<1>2. this = TxsBody(text, to, i, f) /\ this \in TxsResults
  <2>1. i \in i .. to + 1
    OBVIOUS
  <2>2. f[i] = TxsBody(text, to, i, f) /\ f[i] \in TxsResults
    BY <2>1, TxsExist
  <2> QED BY <2>2, ParsedByBody
<1>3. ASSUME bar # i, bar <= to PROVE f[bar + 1] = next /\ next \in TxsResults
  <2>1. bar + 1 \in 1 .. to + 1 /\ i \in 1 .. bar + 1 /\ bar + 1 \in i .. to + 1
    BY <1>1, <1>3
  <2>2. f[bar + 1] \in TxsResults
    BY <2>1, TxsExist
  <2>3. f[bar + 1] = next
    BY <2>1, TxsAnyStart
  <2> QED BY <2>2, <2>3
<1>4. this = IF bar = i \/ (bar = i + 1 /\ text[i] = Dash) THEN [data |-> <<>>, ends |-> TRUE]
             ELSE IF bar > to THEN [data |-> <<>>, ends |-> FALSE]
             ELSE [f[bar + 1] EXCEPT !.data = <<tx>> \o @]
  BY <1>2 DEF TxsBody
<1> HIDE DEF f, next, this
<1>5. CASE ended
  BY <1>2, <1>4, <1>5 DEF this
<1>6. CASE ~ended /\ bar > to
  BY <1>1, <1>2, <1>4, <1>6 DEF this
<1>7. CASE ~ended /\ bar <= to
  <2>1. this = [f[bar + 1] EXCEPT !.data = <<tx>> \o @]
    BY <1>1, <1>4, <1>7
  <2>2. this = [data |-> <<tx>> \o next.data, ends |-> next.ends]
    BY <1>3, <1>7, <2>1, WithData
  <2>3. ~(bar > to)
    BY <1>1, <1>7
  <2>4. ParseTxs(text, i, to) \in TxsResults /\ ~ended
    BY <1>2, <1>7 DEF this
  <2> QED BY ONLY <2>2, <2>3, <2>4, Zenon DEF this, next
<1> QED BY <1>1, <1>5, <1>6, <1>7

(* What is read of a token depends on the text up to it alone.             *)
LEMMA NumberAgrees ==
    ASSUME NEW text, NEW other, NEW i \in Nat, \A x \in 1 .. i : text[x] = other[x]
    PROVE  i > 0 => Number(text, i) = Number(other, i)
<1>1. CASE i > 2
  <2>1. text[i] = other[i] /\ text[i - 1] = other[i - 1] /\ text[i - 2] = other[i - 2]
    BY <1>1
  <2> QED BY <2>1 DEF Number
<1>2. CASE i \in {1, 2}
  <2>1. text[i] = other[i]
    BY <1>2
  <2> QED BY <1>2, <2>1 DEF Number
<1> QED BY <1>1, <1>2

(* Nothing behind its end is looked at.                                    *)
LEMMA TxsAgree ==
    ASSUME NEW text \in Texts, NEW other \in Texts,
           NEW to \in Nat, to <= Len(text), to <= Len(other),
           \A x \in 1 .. to : text[x] = other[x]
    PROVE  \A i \in 1 .. to + 1 : ParseTxs(text, i, to) = ParseTxs(other, i, to)
<1> DEFINE S == {i \in 1 .. to + 1 : ParseTxs(text, i, to) = ParseTxs(other, i, to)}
<1>1. ASSUME NEW i \in 1 .. to + 1, i + 1 .. to + 1 \subseteq S PROVE i \in S
  <2> DEFINE bar == Find(text, Bar, i, to)
             tx == IF bar = i + 1 /\ text[i][1] = "tx" THEN Number(text, i) ELSE 0
             tx2 == IF bar = i + 1 /\ other[i][1] = "tx" THEN Number(other, i) ELSE 0
             ended == bar = i \/ (bar = i + 1 /\ text[i] = Dash)
  <2>1. /\ bar \in i .. to + 1 /\ (bar <= to => text[bar] = Bar)
        /\ \A k \in i .. bar - 1 : text[k] # Bar
    BY FoundAt
  <2> HIDE DEF bar
  <2>2. Find(other, Bar, i, to) = bar
    <3>1. /\ bar <= to => other[bar] = Bar
          /\ \A k \in i .. bar - 1 : other[k] # Bar
      BY <2>1
    <3>2. i \in Nat /\ to \in Nat /\ bar \in i .. to + 1
      BY <2>1
    <3> QED BY ONLY <3>1, <3>2, FoundIs
  <2>3. to \in 0 .. Len(text) /\ to \in 0 .. Len(other)
    BY DEF Texts
  <2>4. bar = i + 1 => text[i] = other[i] /\ Number(text, i) = Number(other, i)
    <3> SUFFICES ASSUME bar = i + 1 PROVE text[i] = other[i] /\ Number(text, i) = Number(other, i)
      OBVIOUS
    <3>1. i \in 1 .. to /\ \A x \in 1 .. i : text[x] = other[x]
      BY <2>1
    <3> QED BY <3>1, NumberAgrees
  <2>5. ended <=> bar = i \/ (bar = i + 1 /\ other[i] = Dash)
    BY <2>4
  <2>6. tx = tx2
    BY <2>4
  <2> HIDE DEF tx, tx2, ended
  <2>7. /\ ended => ParseTxs(text, i, to) = [data |-> <<>>, ends |-> TRUE]
        /\ ~ended /\ bar > to => ParseTxs(text, i, to) = [data |-> <<>>, ends |-> FALSE]
        /\ ~ended /\ bar <= to =>
                  LET next == ParseTxs(text, bar + 1, to)
                  IN  ParseTxs(text, i, to) = [data |-> <<tx>> \o next.data, ends |-> next.ends]
    BY <2>3, TxsStep DEF bar, tx, ended
  <2>8. /\ ended => ParseTxs(other, i, to) = [data |-> <<>>, ends |-> TRUE]
        /\ ~ended /\ bar > to => ParseTxs(other, i, to) = [data |-> <<>>, ends |-> FALSE]
        /\ ~ended /\ bar <= to =>
                  LET next == ParseTxs(other, bar + 1, to)
                  IN  ParseTxs(other, i, to) = [data |-> <<tx>> \o next.data, ends |-> next.ends]
    <3>1. tx = IF bar = i + 1 /\ other[i][1] = "tx" THEN Number(other, i) ELSE 0
      BY <2>6 DEF tx2
    <3> QED BY <2>2, <2>3, <2>5, <3>1, TxsStep
  <2>9. ~ended /\ bar <= to => ParseTxs(text, bar + 1, to) = ParseTxs(other, bar + 1, to)
    <3> SUFFICES ASSUME ~ended, bar <= to PROVE bar + 1 \in S
      OBVIOUS
    <3>1. bar # i
      BY DEF ended
    <3> QED BY <1>1, <2>1, <3>1
  <2> HIDE DEF S
  <2>10. ParseTxs(text, i, to) = ParseTxs(other, i, to)
    <3>1. CASE ended
      BY <2>7, <2>8, <3>1
    <3>2. CASE ~ended /\ bar > to
      BY <2>7, <2>8, <3>2
    <3>3. CASE ~ended /\ bar <= to
      BY <2>7, <2>8, <2>9, <3>3
    <3> QED BY <2>1, <3>1, <3>2, <3>3
  <2> QED BY <2>10 DEF S
<1>2. 1 \in Int /\ to + 1 \in Int
  OBVIOUS
<1> HIDE DEF S
<1>3. 1 .. to + 1 \subseteq S
  BY <1>1, <1>2, InductDown
<1> QED BY <1>3 DEF S

(* Transactions that are all followed by "|" are read, and "-" ends them.  *)
LEMMA TxsEnd ==
    ASSUME NEW text \in Texts, NEW to \in 1 .. Len(text), text[to] = Dash,
           NEW from \in 1 .. to, from = to \/ text[to - 1] = Bar
    PROVE  ParseTxs(text, from, to).ends
<1> DEFINE S == {i \in from .. to : ParseTxs(text, i, to).ends}
<1>0. to \in 0 .. Len(text) /\ Len(text) \in Nat
  BY DEF Texts
<1>1. ASSUME NEW i \in from .. to, i + 1 .. to \subseteq S PROVE i \in S
  <2> DEFINE bar == Find(text, Bar, i, to)
             tx == IF bar = i + 1 /\ text[i][1] = "tx" THEN Number(text, i) ELSE 0
             ended == bar = i \/ (bar = i + 1 /\ text[i] = Dash)
  <2>1. /\ bar \in i .. to + 1 /\ (bar <= to => text[bar] = Bar)
        /\ \A k \in i .. bar - 1 : text[k] # Bar
    BY <1>0, FoundAt
  <2> HIDE DEF bar
  <2>2. text[to] # Bar
    BY DEF Bar, Dash
  <2>3. ended \/ bar <= to - 1
    BY <2>1, <2>2
  <2> HIDE DEF tx, ended
  <2>4. i \in 1 .. to + 1
    BY <1>0
  <2>5. /\ ended => ParseTxs(text, i, to) = [data |-> <<>>, ends |-> TRUE]
        /\ ~ended /\ bar <= to =>
                  LET next == ParseTxs(text, bar + 1, to)
                  IN  ParseTxs(text, i, to) = [data |-> <<tx>> \o next.data, ends |-> next.ends]
    BY <1>0, <2>4, TxsStep DEF bar, tx, ended
  <2>6. CASE ended
    BY <2>5, <2>6
  <2>7. CASE ~ended
    <3>1. bar + 1 \in i + 1 .. to
      BY <1>0, <2>1, <2>3, <2>7 DEF ended
    <3>2. bar + 1 \in S
      BY <1>1, <3>1
    <3>3. bar <= to
      BY <2>1, <3>1, <1>0
    <3>4. ParseTxs(text, bar + 1, to).ends
      BY <3>2
    <3> QED BY <2>5, <2>7, <3>3, <3>4
  <2> QED BY <2>6, <2>7
<1> HIDE DEF S
<1>2. from .. to \subseteq S
  <2>1. from \in Int /\ to \in Int
    BY <1>0
  <2> QED BY <1>1, <2>1, InductDown
<1> QED BY <1>2 DEF S

-----------------------------------------------------------------------------
(* The end of a sequence from k is the one from k + 1, behind its kth      *)
(* element.                                                                *)
LEMMA FirstAndRest ==
    ASSUME NEW S, NEW s \in Seq(S), NEW k \in 1 .. Len(s)
    PROVE  SubSeq(s, k, Len(s)) = <<s[k]>> \o SubSeq(s, k + 1, Len(s))
<1> DEFINE a == SubSeq(s, k, Len(s))
           b == SubSeq(s, k + 1, Len(s))
           n == Len(s)
<1>0. n \in Nat
  OBVIOUS
<1>1. a \in Seq(S) /\ Len(a) = n - k + 1 /\ \A i \in 1 .. n - k + 1 : a[i] = s[k + i - 1]
  OBVIOUS
<1>2. b \in Seq(S) /\ Len(b) = n - k /\ \A i \in 1 .. n - k : b[i] = s[k + i]
  OBVIOUS
<1>3. <<s[k]>> \in Seq(S)
  OBVIOUS
<1> HIDE DEF a, b
<1> DEFINE c == <<s[k]>> \o b
<1>4. c \in Seq(S) /\ Len(c) = n - k + 1
  <2>1. Len(<<s[k]>>) = 1
    OBVIOUS
  <2>2. c \in Seq(S) /\ Len(c) = Len(<<s[k]>>) + Len(b)
    BY <1>2, <1>3
  <2> QED BY <1>0, <1>2, <2>1, <2>2
<1>5. \A i \in 1 .. n - k + 1 : c[i] = IF i = 1 THEN s[k] ELSE b[i - 1]
  BY <1>2, <1>3
<1> HIDE DEF c
<1>6. \A i \in 1 .. n - k + 1 : c[i] = a[i]
  <2> TAKE i \in 1 .. n - k + 1
  <2>1. CASE i = 1
    BY <1>0, <1>1, <1>5, <2>1
  <2>2. CASE i # 1
    <3>1. i - 1 \in 1 .. n - k /\ k + (i - 1) = k + i - 1
      BY <1>0, <2>2
    <3>2. b[i - 1] = s[k + i - 1]
      BY <1>2, <3>1
    <3> QED BY <1>1, <1>5, <2>2, <3>2
  <2> QED BY <2>1, <2>2
<1>7. a = c
  BY <1>0, <1>1, <1>4, <1>6, SeqEqual
<1> QED BY <1>7 DEF a, b, c

(* The text of transactions, from a place of a text.                       *)
TxsAt(text, p, data) ==
    /\ \A k \in 1 .. Len(data) : text[p + 2 * k - 2] = Tx(data[k]) /\ text[p + 2 * k - 1] = Bar
    /\ text[p + 2 * Len(data)] = Dash

(* A "|-" just before a token, to which it loses a character.              *)
BehindBlock(text, p) == p > 2 /\ text[p - 2] = Bar /\ text[p - 1] = Dash

(* Transactions that are all there are read as they were written.          *)
LEMMA TxsExact ==
    ASSUME NEW text \in Texts, NEW data \in Seq(Int), NEW p \in Nat \ {0}, ~BehindBlock(text, p),
           TxsAt(text, p, data), p + 2 * Len(data) <= Len(text)
    PROVE  ParseTxs(text, p, p + 2 * Len(data)) = [data |-> data, ends |-> TRUE]
<1> DEFINE n == Len(data)
           to == p + 2 * n
           Right(k) == ParseTxs(text, p + 2 * k, to) = [data |-> SubSeq(data, k + 1, n), ends |-> TRUE]
           S == {k \in 0 .. n : Right(k)}
<1>0. /\ n \in Nat /\ n = Len(data) /\ to = p + 2 * n /\ to = p + 2 * Len(data)
      /\ to \in Nat /\ to \in 0 .. Len(text) /\ to \in 1 .. Len(text)
  BY DEF Texts
<1> HIDE DEF n, to, S
<1>1. ASSUME NEW k \in 0 .. n, k + 1 .. n \subseteq S PROVE k \in S
  <2> DEFINE i == p + 2 * k
             bar == Find(text, Bar, i, to)
             tx == IF bar = i + 1 /\ text[i][1] = "tx" THEN Number(text, i) ELSE 0
             ended == bar = i \/ (bar = i + 1 /\ text[i] = Dash)
  <2>0. i \in Nat /\ i \in 1 .. to + 1 /\ i <= to /\ i > 0
    BY <1>0
  <2>1. CASE k = n
    <3>1. i = to /\ text[i] = Dash /\ text[i] # Bar
      BY <1>0, <2>1 DEF TxsAt, Dash, Bar
    <3> HIDE DEF i
    <3>2. Find(text, Bar, i, to) = to + 1
      BY <1>0, <2>0, <3>1, FoundNone
    <3>3. ended
      BY <3>1, <3>2
    <3> HIDE DEF bar, tx, ended
    <3>4. ParseTxs(text, i, to) = [data |-> <<>>, ends |-> TRUE]
      BY <1>0, <2>0, <3>3, TxsStep DEF bar, tx, ended
    <3>5. SubSeq(data, k + 1, n) = <<>>
      BY <1>0, <2>1
    <3>6. Right(k)
      BY <3>4, <3>5 DEF i
    <3> QED BY <3>6 DEF S
  <2>2. CASE k # n
    <3>1. text[i] = Tx(data[k + 1]) /\ text[i + 1] = Bar
      <4>1. k + 1 \in 1 .. Len(data) /\ p + 2 * (k + 1) - 2 = i /\ p + 2 * (k + 1) - 1 = i + 1
        BY <1>0, <2>2
      <4> HIDE DEF i
      <4>2. text[p + 2 * (k + 1) - 2] = Tx(data[k + 1]) /\ text[p + 2 * (k + 1) - 1] = Bar
        BY <4>1 DEF TxsAt
      <4> QED BY <4>1, <4>2
    <3>2. i + 1 <= to /\ i + 2 = p + 2 * (k + 1)
      BY <1>0, <2>2
    <3>3. ~BehindBlock(text, i)
      <4>1. CASE k = 0
        BY <4>1
      <4>2. CASE k > 0
        <5>1. k \in 1 .. Len(data) /\ p + 2 * k - 1 = i - 1
          BY <4>2, <1>0
        <5>2. text[i - 1] = Bar
          BY <5>1 DEF TxsAt
        <5> QED BY <5>2 DEF BehindBlock, Bar, Dash
      <4> QED BY <1>0, <4>1, <4>2
    <3>7. SubSeq(data, k + 1, n) = <<data[k + 1]>> \o SubSeq(data, (k + 1) + 1, n)
      <4>1. k + 1 \in 1 .. Len(data)
        BY <1>0, <2>2
      <4> QED BY <1>0, <4>1, FirstAndRest
    <3>8. ParseTxs(text, i + 2, to) = [data |-> SubSeq(data, (k + 1) + 1, n), ends |-> TRUE]
      <4>1. k + 1 \in S
        BY <1>0, <1>1, <2>2
      <4> QED BY <3>2, <4>1 DEF S
    <3> HIDE DEF i
    <3>4. bar = i + 1
      <4>1. text[i] # Bar
        BY <3>1 DEF Tx, Bar
      <4> QED BY <1>0, <2>0, <3>1, <3>2, <4>1, FoundNext
    <3>5. ~ended /\ tx = data[k + 1]
      BY <2>0, <3>1, <3>3, <3>4 DEF Tx, Dash, Number, BehindBlock
    <3> HIDE DEF bar, tx, ended
    <3>6. LET next == ParseTxs(text, bar + 1, to)
          IN  ParseTxs(text, i, to) = [data |-> <<tx>> \o next.data, ends |-> next.ends]
      BY <1>0, <2>0, <3>2, <3>4, <3>5, TxsStep, ZenonT(40) DEF bar, tx, ended
    <3>9. bar + 1 = i + 2
      BY <2>0, <3>4
    <3>10. ParseTxs(text, i, to) = [data |-> SubSeq(data, k + 1, n), ends |-> TRUE]
      <4> DEFINE next == ParseTxs(text, bar + 1, to)
      <4>1. next = [data |-> SubSeq(data, (k + 1) + 1, n), ends |-> TRUE]
        BY <3>8, <3>9
      <4>2. ParseTxs(text, i, to) = [data |-> <<tx>> \o next.data, ends |-> next.ends]
        BY <3>6
      <4> HIDE DEF next
      <4>3. next.data = SubSeq(data, (k + 1) + 1, n) /\ next.ends = TRUE
        BY <4>1
      <4> QED BY <3>5, <3>7, <4>2, <4>3
    <3>11. Right(k)
      BY <3>10 DEF i
    <3> QED BY <3>11 DEF S
  <2> QED BY <2>1, <2>2
<1>2. 0 .. n \subseteq S
  <2>1. 0 \in Int /\ n \in Int
    BY <1>0
  <2> QED BY <1>1, <2>1, InductDown
<1>3. Right(0)
  <2>1. 0 \in 0 .. n
    BY <1>0
  <2> QED BY <1>2, <2>1 DEF S
<1>4. SubSeq(data, 1, n) = data /\ p + 2 * 0 = p /\ 0 + 1 = 1
  BY <1>0
<1> HIDE DEF Right
<1>5. ParseTxs(text, p, to) = [data |-> data, ends |-> TRUE]
  BY <1>3, <1>4 DEF Right
<1> QED BY <1>0, <1>5

-----------------------------------------------------------------------------
(* The end of a block is the first "|-" from a place, or behind the text.  *)
LEMMA BlockEndAt ==
    ASSUME NEW text \in Texts, NEW i \in 1 .. Len(text), NEW end, end = BlockEnd(text, i)
    PROVE  /\ end \in i .. Len(text) - 1 \/ end = Len(text) + 1
           /\ end <= Len(text) => text[end] = Bar /\ text[end + 1] = Dash
           /\ \A k \in i .. Len(text) - 1 : k < end => ~(text[k] = Bar /\ text[k + 1] = Dash)
<1> DEFINE len == Len(text)
           S == {j \in i .. len - 1 : text[j] = Bar /\ text[j + 1] = Dash} \cup {len + 1}
<1>0. len \in Nat /\ len = Len(text)
  BY DEF Texts
<1> HIDE DEF len
<1>1. S \subseteq Nat /\ S # {}
  BY <1>0
<1>2. PICK n \in S : \A m \in S : n <= m
  BY <1>1, LeastNatural
<1>3. end = n
  BY <1>0, <1>1, <1>2, MinIs DEF BlockEnd
<1> QED BY <1>0, <1>2, <1>3

(* The same, from the place to the result.                                 *)
LEMMA BlockEndIs ==
    ASSUME NEW text \in Texts, NEW i \in 1 .. Len(text), NEW end \in i .. Len(text) - 1,
           text[end] = Bar, text[end + 1] = Dash,
           \A k \in i .. end - 1 : ~(text[k] = Bar /\ text[k + 1] = Dash)
    PROVE  BlockEnd(text, i) = end
<1> DEFINE e == BlockEnd(text, i)
<1>0. Len(text) \in Nat
  BY DEF Texts
<1>1. /\ e \in i .. Len(text) - 1 \/ e = Len(text) + 1
      /\ e <= Len(text) => text[e] = Bar /\ text[e + 1] = Dash
      /\ \A k \in i .. Len(text) - 1 : k < e => ~(text[k] = Bar /\ text[k + 1] = Dash)
  BY BlockEndAt
<1> HIDE DEF e
<1> QED BY <1>0, <1>1 DEF e

(* Where the headers are between two places.                               *)
Heads(text, from, to) == {i \in from .. to : text[i][1] = "head"}

(* A block is what is behind its last comma, with the number of the header *)
(* where it begins with one.                                               *)
LEMMA BlockParsed ==
    ASSUME NEW text \in Texts, NEW to \in 0 .. Len(text), NEW from \in 1 .. to
    PROVE  LET at == IF Heads(text, from, to) = {} THEN from ELSE Min(Heads(text, from, to)) + 1
               txs == ParseTxs(text, at, to)
           IN  /\ at \in from .. to + 1
               /\ ParseBlock(text, from, to) =
                    [id |-> IF from \in Heads(text, from, to) THEN Number(text, from) ELSE 0,
                     data |-> txs.data, ends |-> txs.ends]
<1> DEFINE H == Heads(text, from, to)
           at == IF H = {} THEN from ELSE Min(H) + 1
           txs == ParseTxs(text, at, to)
<1>1. at \in from .. to + 1
  <2>1. H \in SUBSET Nat /\ H \subseteq from .. to
    BY DEF Heads
  <2>2. CASE H = {}
    BY <2>2
  <2>3. CASE H # {}
    <3> HIDE DEF H
    <3>1. PICK n \in H : \A m \in H : n <= m
      BY <2>1, <2>3, LeastNatural
    <3>2. Min(H) = n
      BY <2>1, <3>1, MinIs
    <3> QED BY <2>1, <2>3, <3>1, <3>2
  <2> QED BY <2>2, <2>3
<1>2. ParseBlock(text, from, to) =
         [id |-> IF from \in H THEN Number(text, from) ELSE 0, data |-> txs.data, ends |-> txs.ends]
  BY DEF ParseBlock, Heads
<1> QED BY <1>1, <1>2

(* What ParseBlock can return.                                             *)
ParsedBlocks == [id : Int, data : Seq(Int), ends : BOOLEAN]

(* What is read as a block is one.                                         *)
LEMMA BlockTyped ==
    ASSUME NEW text \in Texts, NEW to \in 0 .. Len(text), NEW from \in 1 .. to
    PROVE  ParseBlock(text, from, to) \in ParsedBlocks
<1> DEFINE H == Heads(text, from, to)
           at == IF H = {} THEN from ELSE Min(H) + 1
           txs == ParseTxs(text, at, to)
           id == IF from \in H THEN Number(text, from) ELSE 0
<1>1. at \in 1 .. to + 1 /\ ParseBlock(text, from, to) = [id |-> id, data |-> txs.data, ends |-> txs.ends]
  BY BlockParsed, SMTT(30)
<1>2. id \in Int
  <2>1. from \in H => Number(text, from) \in Int
    BY NumberTyped DEF Heads, Lossy
  <2> QED BY <2>1
<1> HIDE DEF at
<1>3. txs \in TxsResults
  BY <1>1, TxsStep
<1> HIDE DEF id, txs
<1> QED BY <1>1, <1>2, <1>3 DEF ParsedBlocks, TxsResults

(* What is read as a block depends on the text up to its end alone.        *)
LEMMA BlockAgrees ==
    ASSUME NEW text \in Texts, NEW other \in Texts,
           NEW to \in Nat, to <= Len(text), to <= Len(other), NEW from \in 1 .. to,
           \A x \in 1 .. to : text[x] = other[x]
    PROVE  ParseBlock(text, from, to) = ParseBlock(other, from, to)
<1>1. Heads(text, from, to) = Heads(other, from, to)
  BY DEF Heads
<1> DEFINE H == Heads(text, from, to)
           at == IF H = {} THEN from ELSE Min(H) + 1
<1>2. Number(text, from) = Number(other, from)
  <2>1. \A x \in 1 .. from : text[x] = other[x]
    OBVIOUS
  <2> QED BY <2>1, NumberAgrees
<1>3. at \in 1 .. to + 1
  BY BlockParsed DEF Texts
<1>4. ParseTxs(text, at, to) = ParseTxs(other, at, to)
  <2> HIDE DEF at
  <2> QED BY <1>3, TxsAgree
<1>5. to \in 0 .. Len(text) /\ to \in 0 .. Len(other)
  BY DEF Texts
<1>6. ParseBlock(text, from, to) =
         [id |-> IF from \in H THEN Number(text, from) ELSE 0,
          data |-> ParseTxs(text, at, to).data, ends |-> ParseTxs(text, at, to).ends]
  BY <1>5, BlockParsed
<1>7. ParseBlock(other, from, to) =
         [id |-> IF from \in H THEN Number(other, from) ELSE 0,
          data |-> ParseTxs(other, at, to).data, ends |-> ParseTxs(other, at, to).ends]
  BY <1>1, <1>5, BlockParsed
<1> HIDE DEF H, at
<1> QED BY <1>2, <1>4, <1>6, <1>7

-----------------------------------------------------------------------------
(* The two ways in which reading blocks can stop, and a block in front of  *)
(* results.                                                                *)
Ended == {[chain |-> <<>>, ends |-> TRUE]}
Hangs == {[chain |-> <<>>, ends |-> FALSE]}
Behind(first, results) ==
    {[r EXCEPT !.chain = <<[id |-> first.id, data |-> first.data]>> \o @] : r \in results}

(* Where the loop over blocks ends.                                        *)
Stops(text, i) ==
    LET slash == Find(text, Slash, i, Len(text))
    IN  slash = i \/ i > Len(text) \/ (slash = i + 1 /\ text[i] = Star)

(* One step of ParseChain, with f for what is read further on, and the     *)
(* function that it defines.                                               *)
BlocksBody(text, i, f) ==
    LET slash == Find(text, Slash, i, Len(text))
        first == ParseBlock(text, i, slash - 1)
        end == BlockEnd(text, i)
    IN  IF slash = i \/ i > Len(text) \/ (slash = i + 1 /\ text[i] = Star) THEN Ended
        ELSE IF ~first.ends THEN Hangs
        ELSE IF end > Len(text) THEN Behind(first, Ended \cup f[slash + 1])
        ELSE Behind(first, f[AfterBlock(text, end)])

BlocksOf(text) == CHOOSE f : f = [i \in 1 .. Len(text) + 3 |-> BlocksBody(text, i, f)]

(* ParseChain is the function that BlocksBody defines, from the first      *)
(* place.                                                                  *)
LEMMA ChainByBody ==
    ASSUME NEW text
    PROVE  ParseChain(text) = BlocksOf(text)[1]
BY DEF ParseChain, BlocksOf, BlocksBody, Ended, Hangs, Behind

(* Blocks, and what ParseChain can return.                                 *)
Blocks == [id : Int, data : Seq(Int)]
Results == [chain : Seq(Blocks), ends : BOOLEAN]

(* EXCEPT, for a result of blocks.                                         *)
LEMMA WithChain ==
    ASSUME NEW r \in Results, NEW x
    PROVE  [r EXCEPT !.chain = x \o @] = [chain |-> x \o r.chain, ends |-> r.ends]
<1> DEFINE d == x \o r.chain
<1> HIDE DEF d
<1>1. [r EXCEPT !.chain = d] = [chain |-> d, ends |-> r.ends]
  BY DEF Results
<1> QED BY <1>1 DEF d

(* A block in front of results makes results.                              *)
LEMMA BehindTyped ==
    ASSUME NEW first \in ParsedBlocks, NEW results \in SUBSET Results
    PROVE  Behind(first, results) \in SUBSET Results
<1> SUFFICES ASSUME NEW r \in results
             PROVE  [r EXCEPT !.chain = <<[id |-> first.id, data |-> first.data]>> \o @] \in Results
  BY DEF Behind
<1> DEFINE b == [id |-> first.id, data |-> first.data]
<1>1. b \in Blocks
  BY DEF ParsedBlocks, Blocks
<1> HIDE DEF b
<1>2. r.chain \in Seq(Blocks) /\ r.ends \in BOOLEAN /\ <<b>> \in Seq(Blocks)
  BY <1>1 DEF Results
<1>3. <<b>> \o r.chain \in Seq(Blocks)
  BY <1>2
<1>4. [r EXCEPT !.chain = <<b>> \o @] = [chain |-> <<b>> \o r.chain, ends |-> r.ends]
  BY WithChain
<1>5. [chain |-> <<b>> \o r.chain, ends |-> r.ends] \in Results
  BY <1>2, <1>3 DEF Results
<1> QED BY <1>4, <1>5 DEF b

(* Which results those are.                                                *)
LEMMA BehindHas ==
    ASSUME NEW first, NEW results \in SUBSET Results, NEW c
    PROVE  c \in Behind(first, results) <=>
               \E r \in results : c = [chain |-> <<[id |-> first.id, data |-> first.data]>> \o r.chain,
                                       ends |-> r.ends]
<1> DEFINE b == <<[id |-> first.id, data |-> first.data]>>
<1> HIDE DEF b
<1>1. Behind(first, results) = {[r EXCEPT !.chain = b \o @] : r \in results}
  BY DEF Behind, b
<1>2. \A r \in results : [r EXCEPT !.chain = b \o @] = [chain |-> b \o r.chain, ends |-> r.ends]
  BY WithChain
<1>3. c \in Behind(first, results) <=> \E r \in results : c = [chain |-> b \o r.chain, ends |-> r.ends]
  BY <1>1, <1>2, ZenonT(40)
<1> QED BY <1>3 DEF b

(* Where the next block begins.                                            *)
LEMMA NextBlock ==
    ASSUME NEW text \in Texts, NEW i \in 1 .. Len(text), ~Stops(text, i)
    PROVE  LET slash == Find(text, Slash, i, Len(text))
               end == BlockEnd(text, i)
           IN  /\ slash \in i + 1 .. Len(text) + 1
               /\ slash - 1 \in 0 .. Len(text) /\ i \in 1 .. slash - 1
               /\ slash + 1 \in i + 1 .. Len(text) + 3
               /\ end <= Len(text) => AfterBlock(text, end) \in {end + 2, end + 3}
               /\ end <= Len(text) => AfterBlock(text, end) \in i + 1 .. Len(text) + 3
<1> DEFINE slash == Find(text, Slash, i, Len(text))
           end == BlockEnd(text, i)
<1>0. Len(text) \in Nat /\ i \in Nat /\ i <= Len(text) + 1
  BY DEF Texts
<1>1. slash \in i .. Len(text) + 1 /\ slash # i
  BY <1>0, FoundAt DEF Stops
<1>2. end \in i .. Len(text) - 1 \/ end = Len(text) + 1
  BY BlockEndAt
<1> HIDE DEF slash, end
<1>3. AfterBlock(text, end) \in {end + 2, end + 3}
  BY DEF AfterBlock
<1>4. end <= Len(text) => AfterBlock(text, end) \in i + 1 .. Len(text) + 3
  BY <1>0, <1>2, <1>3
<1>5. /\ slash \in i + 1 .. Len(text) + 1
      /\ slash - 1 \in 0 .. Len(text) /\ i \in 1 .. slash - 1
      /\ slash + 1 \in i + 1 .. Len(text) + 3
  BY <1>0, <1>1
<1> QED BY <1>3, <1>4, <1>5 DEF slash, end

(* What is read at a place depends on what is read further on, and on      *)
(* nothing before.                                                         *)
LEMMA BlocksBodyLooksUp ==
    ASSUME NEW text \in Texts, NEW i \in 1 .. Len(text) + 3, NEW f, NEW g,
           \A j \in i + 1 .. Len(text) + 3 : f[j] = g[j]
    PROVE  BlocksBody(text, i, f) = BlocksBody(text, i, g)
<1>1. CASE Stops(text, i)
  BY <1>1 DEF BlocksBody, Stops
<1>2. CASE ~Stops(text, i)
  <2> DEFINE slash == Find(text, Slash, i, Len(text))
             end == BlockEnd(text, i)
  <2>1. i \in 1 .. Len(text)
    BY <1>2 DEF Stops, Texts
  <2>2. /\ slash + 1 \in i + 1 .. Len(text) + 3
        /\ end <= Len(text) => AfterBlock(text, end) \in i + 1 .. Len(text) + 3
        /\ end \in i .. Len(text) - 1 \/ end = Len(text) + 1
    BY <1>2, <2>1, NextBlock, BlockEndAt
  <2> HIDE DEF slash, end
  <2>3. f[slash + 1] = g[slash + 1] /\ (end <= Len(text) => f[AfterBlock(text, end)] = g[AfterBlock(text, end)])
    BY <2>2
  <2>4. Len(text) \in Nat
    BY DEF Texts
  <2>5. CASE end > Len(text)
    BY <2>3, <2>5 DEF BlocksBody, slash, end
  <2>6. CASE end <= Len(text)
    <3>1. ~(end > Len(text)) /\ f[AfterBlock(text, end)] = g[AfterBlock(text, end)]
      BY <2>2, <2>3, <2>4, <2>6
    <3> QED BY <3>1 DEF BlocksBody, slash, end
  <2> QED BY <2>2, <2>4, <2>5, <2>6
<1> QED BY <1>1, <1>2

(* One block and results for what is behind it are results.                *)
LEMMA BlocksBodyTyped ==
    ASSUME NEW text \in Texts, NEW i \in 1 .. Len(text) + 3, NEW f,
           \A j \in i + 1 .. Len(text) + 3 : f[j] \in SUBSET Results
    PROVE  BlocksBody(text, i, f) \in SUBSET Results
<1>0. Ended \in SUBSET Results /\ Hangs \in SUBSET Results /\ Len(text) \in Nat
  BY DEF Ended, Hangs, Results, Texts
<1>1. CASE Stops(text, i)
  BY <1>0, <1>1 DEF BlocksBody, Stops
<1>2. CASE ~Stops(text, i)
  <2> DEFINE slash == Find(text, Slash, i, Len(text))
             first == ParseBlock(text, i, slash - 1)
             end == BlockEnd(text, i)
  <2>1. i \in 1 .. Len(text)
    BY <1>2 DEF Stops, Texts
  <2>2. /\ slash - 1 \in 0 .. Len(text) /\ i \in 1 .. slash - 1
        /\ slash + 1 \in i + 1 .. Len(text) + 3
        /\ end <= Len(text) => AfterBlock(text, end) \in i + 1 .. Len(text) + 3
        /\ end \in i .. Len(text) - 1 \/ end = Len(text) + 1
    BY <1>2, <2>1, NextBlock, BlockEndAt
  <2>3. first \in ParsedBlocks
    BY <2>2, BlockTyped
  <2> HIDE DEF slash, end, first
  <2>4. Behind(first, Ended \cup f[slash + 1]) \in SUBSET Results
    <3>1. Ended \cup f[slash + 1] \in SUBSET Results
      BY <1>0, <2>2
    <3> QED BY <2>3, <3>1, BehindTyped
  <2>5. end <= Len(text) => Behind(first, f[AfterBlock(text, end)]) \in SUBSET Results
    BY <2>2, <2>3, BehindTyped
  <2>6. BlocksBody(text, i, f) = IF Stops(text, i) THEN Ended
        ELSE IF ~first.ends THEN Hangs
        ELSE IF end > Len(text) THEN Behind(first, Ended \cup f[slash + 1])
        ELSE Behind(first, f[AfterBlock(text, end)])
    BY DEF BlocksBody, Stops, slash, end, first
  <2>7. CASE end > Len(text)
    BY <1>0, <2>4, <2>6, <2>7
  <2>8. CASE ~(end > Len(text))
    <3>1. end <= Len(text)
      BY <1>0, <2>2, <2>8
    <3> QED BY <1>0, <2>5, <2>6, <2>8, <3>1
  <2> QED BY <2>7, <2>8
<1> QED BY <1>1, <1>2

(* So the recursion of ParseChain defines a function, and its values are   *)
(* sets of results.                                                        *)
LEMMA BlocksExist ==
    ASSUME NEW text \in Texts
    PROVE  \A i \in 1 .. Len(text) + 3 :
               /\ BlocksOf(text)[i] \in SUBSET Results
               /\ BlocksOf(text)[i] = BlocksBody(text, i, BlocksOf(text))
<1> DEFINE hi == Len(text) + 3
           D == 1 .. hi
           V == SUBSET Results
           body == [i \in D |-> [f \in [D -> V] |-> BlocksBody(text, i, f)]]
<1>0. 1 \in Int /\ hi \in Int
  BY DEF Texts
<1>1. V # {}
  OBVIOUS
<1>2. body \in [D -> [[D -> V] -> V]]
  <2> SUFFICES ASSUME NEW i \in D, NEW f \in [D -> V] PROVE BlocksBody(text, i, f) \in V
    OBVIOUS
  <2>1. i \in 1 .. hi /\ \A j \in i + 1 .. hi : f[j] \in SUBSET Results
    OBVIOUS
  <2> QED BY <2>1, BlocksBodyTyped
<1>3. ASSUME NEW i \in D, NEW f \in [D -> V], NEW g \in [D -> V],
             \A j \in i + 1 .. hi : f[j] = g[j]
      PROVE  body[i][f] = body[i][g]
  <2>1. BlocksBody(text, i, f) = BlocksBody(text, i, g)
    BY <1>3, BlocksBodyLooksUp
  <2> QED BY <2>1
<1> HIDE DEF body, V
<1>4. PICK f \in [D -> V] : Solves(f, body)
  <2>1. LooksUp(body, 1, hi, V)
    BY <1>2, <1>3 DEF LooksUp
  <2> HIDE DEF hi
  <2> QED BY <1>0, <1>1, <2>1, RecursionDown
<1>5. f = [i \in D |-> BlocksBody(text, i, f)]
  <2>1. \A i \in D : f[i] = body[i][f]
    BY <1>4 DEF Solves
  <2>2. \A i \in D : body[i][f] = BlocksBody(text, i, f)
    BY DEF body
  <2> QED BY <2>1, <2>2
<1> DEFINE g == BlocksOf(text)
<1>6. g = [i \in D |-> BlocksBody(text, i, g)]
  BY <1>5 DEF BlocksOf
<1> HIDE DEF g
<1>7. \A i \in D : g[i] = BlocksBody(text, i, g)
  BY <1>6
<1> DEFINE S == {i \in D : g[i] \in V}
<1>8. ASSUME NEW i \in D, i + 1 .. hi \subseteq S PROVE i \in S
  <2>1. i \in 1 .. hi /\ \A j \in i + 1 .. hi : g[j] \in SUBSET Results
    BY <1>8 DEF V
  <2> QED BY <1>7, <2>1, BlocksBodyTyped DEF V
<1> HIDE DEF S
<1>9. D \subseteq S
  <2> HIDE DEF hi
  <2> QED BY <1>0, <1>8, InductDown
<1> QED BY <1>7, <1>9 DEF S, g, V

(* One step of the loop over blocks.                                       *)
LEMMA BlocksStep ==
    ASSUME NEW text \in Texts, NEW i \in 1 .. Len(text) + 3,
           NEW slash, slash = Find(text, Slash, i, Len(text)),
           NEW first, first = ParseBlock(text, i, slash - 1),
           NEW end, end = BlockEnd(text, i)
    PROVE  BlocksOf(text)[i] =
               IF Stops(text, i) THEN Ended
               ELSE IF ~first.ends THEN Hangs
               ELSE IF end > Len(text) THEN Behind(first, Ended \cup BlocksOf(text)[slash + 1])
               ELSE Behind(first, BlocksOf(text)[AfterBlock(text, end)])
<1>1. BlocksOf(text)[i] = BlocksBody(text, i, BlocksOf(text))
  BY BlocksExist
<1> QED BY <1>1 DEF BlocksBody, Stops

(* The four branches of the loop over blocks, each by itself: it ends;     *)
LEMMA StepStops ==
    ASSUME NEW text \in Texts, NEW i \in 1 .. Len(text) + 3, Stops(text, i)
    PROVE  BlocksOf(text)[i] = Ended
BY BlocksStep

(* the transactions of a block are read for ever;                          *)
LEMMA StepHangs ==
    ASSUME NEW text \in Texts, NEW i \in 1 .. Len(text) + 3, ~Stops(text, i),
           ~ParseBlock(text, i, Find(text, Slash, i, Len(text)) - 1).ends
    PROVE  BlocksOf(text)[i] = Hangs
BY BlocksStep

(* no "|-" is left in the text;                                            *)
LEMMA StepOpen ==
    ASSUME NEW text \in Texts, NEW i \in 1 .. Len(text) + 3, ~Stops(text, i),
           NEW slash, slash = Find(text, Slash, i, Len(text)),
           NEW first, first = ParseBlock(text, i, slash - 1), first.ends,
           BlockEnd(text, i) > Len(text)
    PROVE  BlocksOf(text)[i] = Behind(first, Ended \cup BlocksOf(text)[slash + 1])
BY BlocksStep

(* the block is erased, and the next one is read.                          *)
LEMMA StepNext ==
    ASSUME NEW text \in Texts, NEW i \in 1 .. Len(text) + 3, ~Stops(text, i),
           NEW slash, slash = Find(text, Slash, i, Len(text)),
           NEW first, first = ParseBlock(text, i, slash - 1), first.ends,
           NEW end, end = BlockEnd(text, i), end <= Len(text)
    PROVE  BlocksOf(text)[i] = Behind(first, BlocksOf(text)[AfterBlock(text, end)])
<1>1. i \in 1 .. Len(text) /\ Len(text) \in Nat
  BY DEF Stops, Texts
<1>2. ~(end > Len(text))
  BY <1>1, BlockEndAt
<1>3. BlocksOf(text)[i] =
          IF Stops(text, i) THEN Ended
          ELSE IF ~first.ends THEN Hangs
          ELSE IF end > Len(text) THEN Behind(first, Ended \cup BlocksOf(text)[slash + 1])
          ELSE Behind(first, BlocksOf(text)[AfterBlock(text, end)])
  BY BlocksStep
<1> QED BY <1>2, <1>3

-----------------------------------------------------------------------------
(* A text that goes on, from L + 1, with what is left of a text of blocks. *)
(* The first token may have lost characters.                               *)

(* A block of that text, which begins at p, or would.                      *)
BlockRest(text, L, p, b) ==
    LET n == Len(b.data)
        Is(x, token) == x > L => text[x] = token
    IN  /\ p > L => text[p] = Header(b.id) \/ (p = L + 1 /\ text[p] = Header(0))
        /\ \A k \in 1 .. n :
               /\ p + 2 * k - 1 > L =>
                      \/ text[p + 2 * k - 1] = Tx(b.data[k])
                      \/ p + 2 * k - 1 = L + 1 /\ text[p + 2 * k - 1] = Tx(0)
               /\ Is(p + 2 * k, Bar)
        /\ Is(p + 2 * n + 1, Dash) /\ Is(p + 2 * n + 2, Slash)

(* Blocks with transactions, which every block has that was mined: the     *)
(* reward is one.                                                          *)
FullBlocks == {b \in Blocks : b.data # <<>>}

(* What is where in it.                                                    *)
Laying(text, L, p, b, n) ==
    /\ n \in Nat \ {0} /\ b.data \in Seq(Int) /\ b.id \in Int
    /\ \A x \in Int : x > L /\ p <= x /\ x < p + 2 * n + 1 => text[x] # Dash /\ text[x] # Slash /\ text[x] # Star
    /\ \A x \in Int : x > L /\ p < x /\ x <= p + 2 * n + 1 => text[x][1] # "head"
    /\ \A x \in Int : x > L /\ p < x /\ x <= p + 2 * n /\ text[x] # Bar => x < p + 2 * n /\ text[x + 1] = Bar
    /\ p + 2 * n > L => text[p + 2 * n] = Bar
    /\ p + 2 * n + 1 > L => text[p + 2 * n + 1] = Dash
    /\ p + 2 * n + 2 > L => text[p + 2 * n + 2] = Slash

LEMMA BlockIsLaid ==
    ASSUME NEW text \in Texts, NEW L \in Nat, NEW p \in Int, NEW b \in FullBlocks, BlockRest(text, L, p, b),
           NEW n, n = Len(b.data)
    PROVE  Laying(text, L, p, b, n)
<1>1. n \in Nat \ {0} /\ b.data \in Seq(Int) /\ b.id \in Int
  BY DEF FullBlocks, Blocks
<1>2. ASSUME NEW x \in Int, x > L, p < x, x <= p + 2 * n
      PROVE  \/ text[x] = Bar
             \/ x < p + 2 * n /\ text[x + 1] = Bar /\ \E t \in Int : text[x] = Tx(t)
  <2>1. PICK k \in 1 .. n : x = p + 2 * k - 1 \/ x = p + 2 * k
    <3>1. CASE (x - p) % 2 = 0
      <4>1. (x - p) \div 2 \in 1 .. n /\ x = p + 2 * ((x - p) \div 2)
        BY <1>1, <1>2, <3>1
      <4> QED BY <4>1
    <3>2. CASE (x - p) % 2 = 1
      <4>1. ((x - p) + 1) \div 2 \in 1 .. n /\ x = p + 2 * (((x - p) + 1) \div 2) - 1
        BY <1>1, <1>2, <3>2, SMTT(30)
      <4> QED BY <4>1
    <3> QED BY <1>2, <3>1, <3>2
  <2>2. CASE x = p + 2 * k
    BY <1>2, <2>2 DEF BlockRest
  <2>3. CASE x = p + 2 * k - 1
    <3>1. x + 1 = p + 2 * k /\ x < p + 2 * n
      BY <1>1, <2>3
    <3>2. text[x + 1] = Bar
      <4>1. p + 2 * k > L /\ k \in 1 .. Len(b.data)
        BY <1>1, <1>2, <2>3
      <4>2. text[p + 2 * k] = Bar
        BY <4>1 DEF BlockRest
      <4> QED BY <3>1, <4>2
    <3>3. text[x] = Tx(b.data[k]) \/ text[x] = Tx(0)
      BY <1>2, <2>3 DEF BlockRest
    <3>4. b.data[k] \in Int /\ 0 \in Int
      BY <1>1
    <3> QED BY <3>1, <3>2, <3>3, <3>4
  <2> QED BY <2>1, <2>2, <2>3
<1>3. ASSUME p > L PROVE \E h \in Int : text[p] = Header(h)
  BY <1>1, <1>3 DEF BlockRest
<1>4. /\ p + 2 * n + 1 > L => text[p + 2 * n + 1] = Dash
      /\ p + 2 * n + 2 > L => text[p + 2 * n + 2] = Slash
  BY DEF BlockRest
<1>5. p + 2 * n > L => text[p + 2 * n] = Bar
  BY <1>1 DEF BlockRest
<1>6. ASSUME NEW x \in Int, x > L, p <= x, x < p + 2 * n + 1
      PROVE  text[x] # Dash /\ text[x] # Slash /\ text[x] # Star
  <2>1. CASE x = p
    BY <1>3, <1>6, <2>1 DEF Header, Dash, Slash, Star
  <2>2. CASE x # p
    <3>1. p < x /\ x <= p + 2 * n
      BY <1>1, <1>6, <2>2
    <3>2. text[x] = Bar \/ \E t \in Int : text[x] = Tx(t)
      BY <1>2, <1>6, <3>1
    <3> QED BY <3>2 DEF Bar, Tx, Dash, Slash, Star
  <2> QED BY <2>1, <2>2
<1>7. ASSUME NEW x \in Int, x > L, p < x, x <= p + 2 * n + 1 PROVE text[x][1] # "head"
  <2>1. CASE x = p + 2 * n + 1
    BY <1>4, <1>7, <2>1 DEF Dash
  <2>2. CASE x # p + 2 * n + 1
    <3>1. x <= p + 2 * n
      BY <1>1, <1>7, <2>2
    <3>2. text[x] = Bar \/ \E t \in Int : text[x] = Tx(t)
      BY <1>2, <1>7, <3>1
    <3> QED BY <3>2 DEF Bar, Tx
  <2> QED BY <2>1, <2>2
<1> QED BY <1>1, <1>2, <1>4, <1>5, <1>6, <1>7 DEF Laying

LEMMA InBlock ==
    ASSUME NEW text \in Texts, NEW L \in Nat, NEW p \in Int, NEW b \in FullBlocks, BlockRest(text, L, p, b),
           NEW n, n = Len(b.data)
    PROVE  /\ n \in Nat \ {0} /\ b.data \in Seq(Int) /\ b.id \in Int
           /\ \A x \in Int : x > L /\ p <= x /\ x < p + 2 * n + 1 => text[x] # Dash /\ text[x] # Slash /\ text[x] # Star
           /\ \A x \in Int : x > L /\ p < x /\ x <= p + 2 * n + 1 => text[x][1] # "head"
           /\ \A x \in Int : x > L /\ p < x /\ x <= p + 2 * n /\ text[x] # Bar => x < p + 2 * n /\ text[x + 1] = Bar
           /\ p + 2 * n > L => text[p + 2 * n] = Bar
           /\ p + 2 * n + 1 > L => text[p + 2 * n + 1] = Dash
           /\ p + 2 * n + 2 > L => text[p + 2 * n + 2] = Slash
<1>1. Laying(text, L, p, b, n)
  BY BlockIsLaid
<1> QED BY ONLY <1>1 DEF Laying

(* What is read at a place, and where the reading goes on.                 *)
ReadBefore(text, p, next, first) == BlocksOf(text)[p] = Behind(first, BlocksOf(text)[next])

(* A block is read as it was written, but that its number is lost behind   *)
(* the end of another.                                                     *)
AsWritten(text, p, b, first) ==
    /\ first.data = b.data /\ first.id \in {b.id, 0}
    /\ text[p] = Header(b.id) /\ ~BehindBlock(text, p) => first.id = b.id

(* A block that is all there is read as it is, but for its identifier.     *)
LEMMA WholeBlockRead ==
    ASSUME NEW text \in Texts, NEW L \in Nat, NEW p \in Nat, p > L, NEW b \in FullBlocks,
           BlockRest(text, L, p, b), NEW n, n = Len(b.data), p + 2 * n + 3 <= Len(text)
    PROVE  \E first \in ParsedBlocks :
               AsWritten(text, p, b, first) /\ ReadBefore(text, p, p + 2 * n + 3, first)
<1> DEFINE slash == p + 2 * n + 2
           end == p + 2 * n
           to == p + 2 * n + 1
           first == ParseBlock(text, p, to)
<1>0. /\ n \in Nat \ {0} /\ b.data \in Seq(Int) /\ b.id \in Int /\ Len(text) \in Nat /\ p \in Nat \ {0}
      /\ L \in Nat /\ p > L /\ p + 2 * n + 3 <= Len(text)
  <2>1. n \in Nat \ {0} /\ b.data \in Seq(Int) /\ b.id \in Int
    BY InBlock
  <2> QED BY <2>1 DEF Texts
<1>1. /\ \A x \in Int : x > L /\ p <= x /\ x < p + 2 * n + 1 => text[x] # Dash /\ text[x] # Slash /\ text[x] # Star
      /\ \A x \in Int : x > L /\ p < x /\ x <= p + 2 * n + 1 => text[x][1] # "head"
      /\ text[p + 2 * n] = Bar /\ text[p + 2 * n + 1] = Dash /\ text[p + 2 * n + 2] = Slash
  <2>1. p \in Int /\ p + 2 * n > L /\ p + 2 * n + 1 > L /\ p + 2 * n + 2 > L
    BY <1>0
  <2>2. /\ \A x \in Int : x > L /\ p <= x /\ x < p + 2 * n + 1 => text[x] # Dash /\ text[x] # Slash /\ text[x] # Star
        /\ \A x \in Int : x > L /\ p < x /\ x <= p + 2 * n + 1 => text[x][1] # "head"
    <3>1. text \in Texts /\ L \in Nat /\ b \in FullBlocks /\ BlockRest(text, L, p, b) /\ n = Len(b.data)
      OBVIOUS
    <3>2. \A x \in Int : x > L /\ p <= x /\ x < p + 2 * n + 1 => text[x] # Dash /\ text[x] # Slash /\ text[x] # Star
      BY ONLY <2>1, <3>1, InBlock
    <3>3. \A x \in Int : x > L /\ p < x /\ x <= p + 2 * n + 1 => text[x][1] # "head"
      BY ONLY <2>1, <3>1, InBlock
    <3> QED BY <3>2, <3>3
  <2>3. text[p + 2 * n] = Bar
    BY <2>1, InBlock, ZenonT(40)
  <2>4. text[p + 2 * n + 1] = Dash
    BY <2>1, InBlock
  <2>5. text[p + 2 * n + 2] = Slash
    BY <2>1, InBlock
  <2> QED BY <2>2, <2>3, <2>4, <2>5
<1>2. \E h \in {b.id, 0} : text[p] = Header(h) /\ (text[p] = Header(b.id) => h = b.id)
  BY <1>0 DEF BlockRest
<1>3. TxsAt(text, p + 1, b.data)
  <2>1. ASSUME NEW k \in 1 .. n PROVE text[p + 1 + 2 * k - 2] = Tx(b.data[k]) /\ text[p + 1 + 2 * k - 1] = Bar
    <3>1. /\ p + 1 + 2 * k - 2 = p + 2 * k - 1 /\ p + 1 + 2 * k - 1 = p + 2 * k
          /\ p + 2 * k - 1 > L + 1 - 1 /\ p + 2 * k > L /\ p + 2 * k - 1 # L + 1
      BY <1>0
    <3>2. text[p + 2 * k - 1] = Tx(b.data[k]) /\ text[p + 2 * k] = Bar
      BY <1>0, <3>1 DEF BlockRest
    <3> QED BY <3>1, <3>2
  <2>2. p + 1 + 2 * n = p + 2 * n + 1
    BY ONLY <1>0
  <2> QED BY <1>0, <1>1, <2>1, <2>2 DEF TxsAt
<1>4. slash = Find(text, Slash, p, Len(text))
  <2>1. \A x \in p .. slash - 1 : text[x] # Slash
    <3> TAKE x \in p .. slash - 1
    <3>1. CASE x = p + 2 * n + 1
      BY <1>1, <3>1 DEF Dash, Slash
    <3>2. CASE x # p + 2 * n + 1
      <4>1. x \in Int /\ x > L /\ p <= x /\ x < p + 2 * n + 1
        BY <1>0, <3>2
      <4> QED BY <1>1, <4>1
    <3> QED BY <3>1, <3>2
  <2>2. slash \in p .. Len(text) + 1 /\ (slash <= Len(text) => text[slash] = Slash)
    BY ONLY <1>0, <1>1
  <2>3. p \in Nat /\ Len(text) \in Nat
    BY <1>0
  <2> HIDE DEF slash
  <2> QED BY ONLY <2>1, <2>2, <2>3, FoundInText
<1>5. end = BlockEnd(text, p)
  <2>1. \A x \in p .. end - 1 : ~(text[x] = Bar /\ text[x + 1] = Dash)
    <3> TAKE x \in p .. end - 1
    <3>1. x + 1 \in Int /\ x + 1 > L /\ p <= x + 1 /\ x + 1 < p + 2 * n + 1
      BY <1>0
    <3> QED BY <1>1, <3>1
  <2>2. end \in p .. Len(text) - 1 /\ text[end] = Bar /\ text[end + 1] = Dash
    BY <1>0, <1>1, SMTT(30)
  <2>3. p \in 1 .. Len(text)
    BY <1>0
  <2> HIDE DEF end
  <2> QED BY <2>1, <2>2, <2>3, BlockEndIs
<1>6. to \in 0 .. Len(text) /\ p \in 1 .. to
  BY <1>0
<1>7. p \in Heads(text, p, to) /\ Min(Heads(text, p, to)) = p
  <2>1. p \in Heads(text, p, to)
    BY <1>2, <1>6 DEF Heads, Header
  <2>2. Heads(text, p, to) \in SUBSET Nat /\ \A m \in Heads(text, p, to) : p <= m
    BY <1>0 DEF Heads
  <2> QED BY <2>1, <2>2, MinIs
<1>8. ParseTxs(text, p + 1, to) = [data |-> b.data, ends |-> TRUE]
  <2>1. ~BehindBlock(text, p + 1)
    BY <1>0, <1>2 DEF BehindBlock, Header, Dash
  <2>2. p + 1 + 2 * n = to /\ p + 1 \in Nat \ {0} /\ to <= Len(text)
    BY ONLY <1>0
  <2> HIDE DEF to
  <2> QED BY <1>0, <1>3, <2>1, <2>2, TxsExact
<1>9. first = [id |-> Number(text, p), data |-> b.data, ends |-> TRUE]
  <2> HIDE DEF to
  <2> QED BY <1>6, <1>7, <1>8, BlockParsed
<1>10. Number(text, p) \in {b.id, 0} /\ (text[p] = Header(b.id) /\ ~BehindBlock(text, p) => Number(text, p) = b.id)
  BY <1>0, <1>2 DEF Number, BehindBlock, Header
<1>11. first \in ParsedBlocks /\ first.data = b.data /\ first.ends /\ first.id = Number(text, p)
  <2> HIDE DEF first
  <2>1. Number(text, p) \in Int
    BY <1>0, <1>10
  <2> QED BY <1>0, <1>9, <2>1 DEF ParsedBlocks
<1>12. ~Stops(text, p)
  <2>1. p <= Len(text) /\ slash # p /\ slash # p + 1
    BY <1>0
  <2> HIDE DEF slash
  <2> QED BY <1>0, <1>4, <2>1 DEF Stops
<1>13. AfterBlock(text, end) = p + 2 * n + 3
  <2>1. end + 2 = p + 2 * n + 2 /\ end + 3 = p + 2 * n + 3
    BY <1>0
  <2>2. text[end + 2][1] \notin Lossy
    BY <1>1, <2>1 DEF Slash, Lossy
  <2> HIDE DEF end
  <2> QED BY <2>1, <2>2 DEF AfterBlock
<1>14. BlocksOf(text)[p] = Behind(first, BlocksOf(text)[p + 2 * n + 3])
  <2>1. p \in 1 .. Len(text) + 3 /\ end <= Len(text) /\ to = slash - 1
    BY <1>0
  <2> HIDE DEF end, slash, to
  <2>3. first = ParseBlock(text, p, slash - 1) /\ first.ends
    BY <1>11, <2>1
  <2> HIDE DEF first
  <2>2. BlocksOf(text)[p] = Behind(first, BlocksOf(text)[AfterBlock(text, end)])
    BY ONLY <2>3, <1>4, <1>5, <1>12, <2>1, text \in Texts, StepNext
  <2> QED BY <1>13, <2>2
<1> QED BY <1>10, <1>11, <1>14 DEF AsWritten, ReadBefore

(* From inside of a block, what is left of it is read as a block of its    *)
(* own, which has no header.                                               *)
LEMMA HeadlessBlock ==
    ASSUME NEW text \in Texts, NEW to \in 0 .. Len(text), NEW i \in 1 .. to,
           \A x \in i .. to : text[x][1] # "head",
           text[to] = Dash, i = to \/ text[to - 1] = Bar
    PROVE  /\ ParseBlock(text, i, to) \in ParsedBlocks
           /\ ParseBlock(text, i, to).id = 0 /\ ParseBlock(text, i, to).ends
<1> DEFINE txs == ParseTxs(text, i, to)
<1>1. Heads(text, i, to) = {}
  BY DEF Heads
<1>2. ParseBlock(text, i, to) = [id |-> 0, data |-> txs.data, ends |-> txs.ends]
  BY <1>1, BlockParsed
<1>3. txs.ends
  <2>1. to \in 1 .. Len(text)
    BY DEF Texts
  <2> QED BY <2>1, TxsEnd
<1>4. ParseBlock(text, i, to) \in ParsedBlocks
  BY BlockTyped
<1> QED BY <1>2, <1>3, <1>4

(* Within a block, what is left of it is read as a block without a number. *)
LEMMA PartOfBlockRead ==
    ASSUME NEW text \in Texts, NEW L \in Nat, NEW p \in Int, NEW b \in FullBlocks,
           BlockRest(text, L, p, b), NEW n, n = Len(b.data), p + 2 * n + 3 <= Len(text),
           NEW i \in Nat, i > L, p < i, i <= p + 2 * n
    PROVE  \E first \in ParsedBlocks : first.id = 0 /\ ReadBefore(text, i, p + 2 * n + 3, first)
<1> DEFINE slash == p + 2 * n + 2
           end == p + 2 * n
           to == p + 2 * n + 1
           first == ParseBlock(text, i, to)
<1>10. Laying(text, L, p, b, n)
  BY BlockIsLaid
<1>0. /\ n \in Nat \ {0} /\ Len(text) \in Nat /\ i \in Nat \ {0} /\ p \in Int
      /\ L \in Nat /\ i > L /\ p < i /\ i <= p + 2 * n /\ p + 2 * n + 3 <= Len(text)
  <2>1. n \in Nat \ {0}
    BY <1>10 DEF Laying
  <2> QED BY <2>1 DEF Texts
<1>1. /\ \A x \in Int : x > L /\ p <= x /\ x < p + 2 * n + 1 => text[x] # Dash /\ text[x] # Slash /\ text[x] # Star
      /\ \A x \in Int : x > L /\ p < x /\ x <= p + 2 * n + 1 => text[x][1] # "head"
  <2>1. \A x \in Int : x > L /\ p <= x /\ x < p + 2 * n + 1 => text[x] # Dash /\ text[x] # Slash /\ text[x] # Star
    BY ONLY <1>10 DEF Laying
  <2>2. \A x \in Int : x > L /\ p < x /\ x <= p + 2 * n + 1 => text[x][1] # "head"
    BY ONLY <1>10 DEF Laying
  <2> QED BY <2>1, <2>2
<1>2. text[p + 2 * n] = Bar /\ text[p + 2 * n + 1] = Dash /\ text[p + 2 * n + 2] = Slash
  <2>1. p + 2 * n > L /\ p + 2 * n + 1 > L /\ p + 2 * n + 2 > L
    BY <1>0
  <2>3. text[p + 2 * n] = Bar
    BY ONLY <2>1, <1>10 DEF Laying
  <2>4. text[p + 2 * n + 1] = Dash /\ text[p + 2 * n + 2] = Slash
    BY <2>1 DEF BlockRest
  <2> QED BY <2>3, <2>4
<1>3. slash = Find(text, Slash, i, Len(text))
  <2>1. \A x \in i .. slash - 1 : text[x] # Slash
    <3> TAKE x \in i .. slash - 1
    <3>1. CASE x = p + 2 * n + 1
      BY <1>2, <3>1 DEF Dash, Slash
    <3>2. CASE x # p + 2 * n + 1
      <4>1. x \in Int /\ x > L /\ p <= x /\ x < p + 2 * n + 1
        BY <1>0, <3>2
      <4> QED BY <1>1, <4>1
    <3> QED BY <3>1, <3>2
  <2>2. slash \in i .. Len(text) + 1 /\ (slash <= Len(text) => text[slash] = Slash)
    BY ONLY <1>0, <1>2
  <2>3. i \in Nat /\ Len(text) \in Nat
    BY <1>0
  <2> HIDE DEF slash
  <2> QED BY ONLY <2>1, <2>2, <2>3, FoundInText
<1>4. end = BlockEnd(text, i)
  <2>1. \A x \in i .. end - 1 : ~(text[x] = Bar /\ text[x + 1] = Dash)
    <3> TAKE x \in i .. end - 1
    <3>1. x + 1 \in Int /\ x + 1 > L /\ p <= x + 1 /\ x + 1 < p + 2 * n + 1
      BY <1>0
    <3> QED BY <1>1, <3>1
  <2>2. end \in i .. Len(text) - 1 /\ text[end] = Bar /\ text[end + 1] = Dash
    BY ONLY <1>0, <1>2
  <2>3. i \in 1 .. Len(text)
    BY ONLY <1>0
  <2> HIDE DEF end
  <2> QED BY <2>1, <2>2, <2>3, BlockEndIs
<1>5. first \in ParsedBlocks /\ first.id = 0 /\ first.ends
  <2>1. to \in 0 .. Len(text) /\ i \in 1 .. to /\ to - 1 = p + 2 * n
    BY ONLY <1>0
  <2>2. \A x \in i .. to : text[x][1] # "head"
    <3> TAKE x \in i .. to
    <3>1. x \in Int /\ x > L /\ p < x /\ x <= p + 2 * n + 1
      BY ONLY <1>0, x \in i .. to
    <3> QED BY <1>1, <3>1
  <2>3. text[to] = Dash /\ text[to - 1] = Bar
    BY <1>2, <2>1
  <2> HIDE DEF to
  <2> QED BY <2>1, <2>2, <2>3, HeadlessBlock
<1>6. ~Stops(text, i)
  <2>1. i <= Len(text) /\ slash # i /\ slash # i + 1
    BY ONLY <1>0
  <2> HIDE DEF slash
  <2> QED BY <1>0, <1>3, <2>1 DEF Stops
<1>7. AfterBlock(text, end) = p + 2 * n + 3
  <2>1. end + 2 = p + 2 * n + 2 /\ end + 3 = p + 2 * n + 3
    BY ONLY <1>0
  <2>2. text[end + 2][1] \notin Lossy
    BY <1>2, <2>1 DEF Slash, Lossy
  <2> HIDE DEF end
  <2> QED BY <2>1, <2>2 DEF AfterBlock
<1>8. BlocksOf(text)[i] = Behind(first, BlocksOf(text)[p + 2 * n + 3])
  <2>1. i \in 1 .. Len(text) + 3 /\ end <= Len(text) /\ to = slash - 1
    BY ONLY <1>0
  <2> HIDE DEF end, slash, to
  <2>2. first = ParseBlock(text, i, slash - 1) /\ first.ends
    BY <1>5, <2>1
  <2> HIDE DEF first
  <2>3. BlocksOf(text)[i] = Behind(first, BlocksOf(text)[AfterBlock(text, end)])
    BY ONLY <1>3, <1>4, <1>6, <2>1, <2>2, text \in Texts, StepNext
  <2> QED BY <1>7, <2>3
<1> QED BY <1>5, <1>8 DEF ReadBefore

(* What is read at a place where no "|-" is left in the text.              *)
ReadLast(text, p, next, first) == BlocksOf(text)[p] = Behind(first, Ended \cup BlocksOf(text)[next])

(* From a "-" that is left of a block, what is read is an empty block, and *)
(* the next block is lost with it.                                         *)
LEMMA DashRead ==
    ASSUME NEW text \in Texts, NEW i \in Nat \ {0}, i + 1 <= Len(text),
           text[i] = Dash, text[i + 1] = Slash, NEW end, end = BlockEnd(text, i)
    PROVE  \E first \in ParsedBlocks :
               /\ first.id = 0
               /\ end > Len(text) => ReadLast(text, i, i + 2, first)
               /\ end <= Len(text) => ReadBefore(text, i, AfterBlock(text, end), first)
<1> DEFINE slash == i + 1
           first == ParseBlock(text, i, i)
<1>0. Len(text) \in Nat /\ i \in Nat \ {0} /\ i + 1 <= Len(text) /\ i \in 1 .. Len(text) + 3
  BY DEF Texts
<1>1. slash = Find(text, Slash, i, Len(text))
  <2>1. \A x \in i .. slash - 1 : text[x] # Slash
    <3> TAKE x \in i .. slash - 1
    <3>1. x = i
      BY <1>0
    <3> QED BY <3>1 DEF Dash, Slash
  <2>2. slash \in i .. Len(text) + 1 /\ (slash <= Len(text) => text[slash] = Slash)
    BY <1>0
  <2>3. i \in Nat /\ Len(text) \in Nat
    BY <1>0
  <2> HIDE DEF slash
  <2> QED BY ONLY <2>1, <2>2, <2>3, FoundInText
<1>2. first \in ParsedBlocks /\ first.id = 0 /\ first.ends
  <2>1. i \in 0 .. Len(text) /\ i \in 1 .. i
    BY <1>0
  <2>2. \A x \in i .. i : text[x][1] # "head"
    <3> TAKE x \in i .. i
    <3>1. x = i
      OBVIOUS
    <3> QED BY <3>1 DEF Dash
  <2> QED BY <2>1, <2>2, HeadlessBlock
<1>3. ~Stops(text, i)
  <2>1. i <= Len(text) /\ slash # i /\ text[i] # Star
    BY <1>0 DEF Dash, Star
  <2> HIDE DEF slash
  <2> QED BY <1>0, <1>1, <2>1 DEF Stops
<1>4. first = ParseBlock(text, i, slash - 1) /\ slash + 1 = i + 2
  <2>1. slash - 1 = i /\ slash + 1 = i + 2
    BY <1>0
  <2> QED BY <2>1
<1> HIDE DEF slash, first
<1>5. end > Len(text) => BlocksOf(text)[i] = Behind(first, Ended \cup BlocksOf(text)[i + 2])
  <2> SUFFICES ASSUME end > Len(text) PROVE BlocksOf(text)[i] = Behind(first, Ended \cup BlocksOf(text)[i + 2])
    OBVIOUS
  <2>1. BlocksOf(text)[i] = Behind(first, Ended \cup BlocksOf(text)[slash + 1])
    BY <1>0, <1>1, <1>2, <1>3, <1>4, StepOpen
  <2> QED BY <1>4, <2>1
<1>6. end <= Len(text) => BlocksOf(text)[i] = Behind(first, BlocksOf(text)[AfterBlock(text, end)])
  BY <1>0, <1>1, <1>2, <1>3, <1>4, StepNext
<1> QED BY <1>2, <1>5, <1>6 DEF ReadBefore, ReadLast

(* The text of a chain in its place, from L + 1.                           *)
RestOfChain(text, L, pos, blocks) ==
    /\ L \in 0 .. Len(text)
    /\ pos \in [1 .. Len(blocks) + 1 -> Int]
    /\ pos[1] <= L + 1 /\ pos[Len(blocks) + 1] = Len(text)
    /\ \A b \in 1 .. Len(blocks) :
           /\ pos[b + 1] = pos[b] + 2 * Len(blocks[b].data) + 3
           /\ BlockRest(text, L, pos[b], blocks[b])
    /\ Len(text) > L => text[Len(text)] = Star

(* The blocks of a chain lie one behind the other, and cover the text up   *)
(* to "*".                                                                 *)
LEMMA Positions ==
    ASSUME NEW text \in Texts, NEW L, NEW pos, NEW blocks \in Seq(FullBlocks),
           RestOfChain(text, L, pos, blocks)
    PROVE  /\ \A b \in 1 .. Len(blocks) + 1 : pos[b] \in Int /\ pos[b] <= Len(text)
           /\ \A b \in 1 .. Len(blocks) : pos[b] + 2 * Len(blocks[b].data) + 3 <= Len(text)
           /\ \A i \in L + 1 .. Len(text) - 1 :
                  \E b \in 1 .. Len(blocks) : pos[b] <= i /\ i < pos[b + 1]
<1> DEFINE m == Len(blocks)
           len == Len(text)
<1>0. /\ m \in Nat /\ len \in Nat /\ L \in 0 .. len /\ pos[1] <= L + 1 /\ pos[m + 1] = len
      /\ \A b \in 1 .. m + 1 : pos[b] \in Int
      /\ \A b \in 1 .. m : pos[b + 1] = pos[b] + 2 * Len(blocks[b].data) + 3
  BY SMTT(30) DEF RestOfChain, Texts
<1>1. \A b \in 1 .. m : Len(blocks[b].data) \in Nat
  <2> TAKE b \in 1 .. m
  <2>1. blocks[b] \in FullBlocks
    OBVIOUS
  <2> QED BY <2>1 DEF FullBlocks, Blocks
<1> HIDE DEF m, len
<1>2. \A b \in 1 .. m : pos[b + 1] >= pos[b] + 3
  <2> TAKE b \in 1 .. m
  <2> DEFINE n == Len(blocks[b].data)
  <2>1. n \in Nat /\ pos[b] \in Int /\ pos[b + 1] = pos[b] + 2 * n + 3
    BY <1>0, <1>1
  <2> HIDE DEF n
  <2> QED BY <2>1
<1>3. \A b \in 1 .. m + 1 : pos[b] <= len
  <2> DEFINE S == {b \in 1 .. m + 1 : pos[b] <= len}
  <2>1. ASSUME NEW b \in 1 .. m + 1, b + 1 .. m + 1 \subseteq S PROVE b \in S
    <3>1. CASE b = m + 1
      BY <1>0, <3>1
    <3>2. CASE b # m + 1
      <4>1. b \in 1 .. m /\ b + 1 \in S
        BY <1>0, <2>1, <3>2
      <4> QED BY <1>0, <1>2, <4>1
    <3> QED BY <3>1, <3>2
  <2>2. 1 \in Int /\ m + 1 \in Int
    BY <1>0
  <2> HIDE DEF S
  <2>3. 1 .. m + 1 \subseteq S
    BY <2>1, <2>2, InductDown
  <2> QED BY <2>3 DEF S
<1>4. ASSUME NEW i \in L + 1 .. len - 1
      PROVE  \E b \in 1 .. m : pos[b] <= i /\ i < pos[b + 1]
  <2> SUFFICES ASSUME \A b \in 1 .. m : ~(pos[b] <= i /\ i < pos[b + 1]) PROVE FALSE
    OBVIOUS
  <2> DEFINE S == {b \in 1 .. m + 1 : pos[b] <= i}
  <2>1. 1 \in S
    BY <1>0, <1>4
  <2>2. ASSUME NEW b \in 1 .. (m + 1) - 1, b \in S PROVE b + 1 \in S
    <3>1. b \in 1 .. m /\ b + 1 \in 1 .. m + 1 /\ pos[b] \in Int /\ pos[b + 1] \in Int /\ i \in Int
      BY <1>0
    <3> QED BY <2>2, <3>1
  <2>3. 1 \in Int /\ m + 1 \in Int
    BY <1>0
  <2> HIDE DEF S
  <2>4. 1 .. m + 1 \subseteq S
    BY <2>1, <2>2, <2>3, InductTo
  <2>5. m + 1 \in S
    BY <1>0, <2>4
  <2> QED BY <1>0, <2>5 DEF S
<1>5. \A b \in 1 .. m : pos[b] + 2 * Len(blocks[b].data) + 3 <= len
  <2> TAKE b \in 1 .. m
  <2>1. b + 1 \in 1 .. m + 1
    BY <1>0
  <2> QED BY <1>0, <1>3, <2>1
<1> QED BY <1>0, <1>3, <1>4, <1>5 DEF m, len

(* A block in front of one result.                                         *)
LEMMA BehindOne ==
    ASSUME NEW first, NEW r \in Results
    PROVE  Behind(first, {r}) =
               {[chain |-> <<[id |-> first.id, data |-> first.data]>> \o r.chain, ends |-> r.ends]}
<1> DEFINE x == [id |-> first.id, data |-> first.data]
<1>1. Behind(first, {r}) = {[r EXCEPT !.chain = <<x>> \o @]}
  BY DEF Behind
<1> HIDE DEF x
<1>2. [r EXCEPT !.chain = <<x>> \o @] = [chain |-> <<x>> \o r.chain, ends |-> r.ends]
  BY WithChain
<1> QED BY <1>1, <1>2 DEF x

(* Blocks that are all there are read as they are.                         *)
LEMMA ExactFrom ==
    ASSUME NEW text \in Texts, NEW L, NEW pos, NEW blocks \in Seq(FullBlocks),
           RestOfChain(text, L, pos, blocks), NEW m, m = Len(blocks)
    PROVE  \A b \in 1 .. m + 1 : pos[b] > L + 1 =>
               BlocksOf(text)[pos[b]] = {[chain |-> SubSeq(blocks, b, m), ends |-> TRUE]}
<1> DEFINE len == Len(text)
           Right(b) == BlocksOf(text)[pos[b]] = {[chain |-> SubSeq(blocks, b, m), ends |-> TRUE]}
           S == {b \in 1 .. m + 1 : pos[b] > L + 1 => Right(b)}
<1>0. /\ m \in Nat /\ len \in Nat /\ L \in Nat /\ L \in 0 .. len /\ pos[1] <= L + 1 /\ pos[m + 1] = len
      /\ (len > L => text[len] = Star) /\ len = Len(text)
      /\ \A b \in 1 .. m + 1 : pos[b] \in Int
      /\ \A b \in 1 .. m :
             pos[b + 1] = pos[b] + 2 * Len(blocks[b].data) + 3 /\ BlockRest(text, L, pos[b], blocks[b])
  BY DEF RestOfChain, Texts
<1>1. \A b \in 1 .. m : pos[b] + 2 * Len(blocks[b].data) + 3 <= len /\ blocks[b] \in FullBlocks
  BY Positions
<1> HIDE DEF S
<1>2. ASSUME NEW b \in 1 .. m + 1, b + 1 .. m + 1 \subseteq S PROVE b \in S
  <2> SUFFICES ASSUME pos[b] > L + 1 PROVE Right(b)
    BY DEF S
  <2> DEFINE p == pos[b]
  <2>0. p \in Int /\ p > L /\ p > L + 1 /\ p \in Nat /\ p \in Nat \ {0}
    BY <1>0
  <2>1. CASE b = m + 1
    <3>1. p = len /\ text[p] = Star /\ text[p] # Slash
      BY <1>0, <2>0, <2>1 DEF Star, Slash
    <3>2. Find(text, Slash, p, Len(text)) = p + 1
      <4> HIDE DEF p, len
      <4>1. p \in Nat /\ len \in Nat /\ p <= len + 1 /\ \A x \in p .. len : text[x] # Slash
        BY <2>0, <3>1, <1>0
      <4> QED BY <1>0, <3>1, <4>1, FoundNone
    <3>3. Stops(text, p)
      BY <3>1, <3>2 DEF Stops
    <3>4. BlocksOf(text)[p] = Ended
      <4>1. p \in 1 .. Len(text) + 3
        BY <1>0, <2>0, <3>1
      <4> QED BY <3>3, <4>1, StepStops
    <3>5. SubSeq(blocks, b, m) = <<>>
      BY <1>0, <2>1
    <3> QED BY <3>4, <3>5 DEF Ended
  <2>2. CASE b # m + 1
    <3> DEFINE n == Len(blocks[b].data)
    <3>1. b \in 1 .. m /\ b - 1 \in 1 .. m /\ (b - 1) + 1 = b
      BY <1>0, <2>0, <2>2
    <3>2. text[p - 1] = Slash
      <4> DEFINE q == pos[b - 1]
                 k == Len(blocks[b - 1].data)
      <4>1. q \in Int /\ p = q + 2 * k + 3 /\ BlockRest(text, L, q, blocks[b - 1]) /\ blocks[b - 1] \in FullBlocks
        BY <1>0, <1>1, <3>1
      <4>2. k \in Nat
        BY <4>1 DEF FullBlocks, Blocks
      <4> HIDE DEF q, k
      <4>3. p - 1 = q + 2 * k + 2 /\ q + 2 * k + 2 > L
        BY <1>0, <2>0, <4>1, <4>2
      <4>4. text[q + 2 * k + 2] = Slash
        BY <4>1, <4>3 DEF BlockRest, k
      <4> QED BY <4>3, <4>4
    <3>3. ~BehindBlock(text, p)
      BY <3>2 DEF BehindBlock, Slash, Dash
    <3>4. BlockRest(text, L, p, blocks[b]) /\ blocks[b] \in FullBlocks /\ pos[b + 1] = p + 2 * n + 3
      BY <1>0, <1>1, <3>1
    <3>5. text[p] = Header(blocks[b].id)
      BY <1>0, <2>0, <3>4 DEF BlockRest
    <3>6. p + 2 * n + 3 <= Len(text) /\ n \in Nat
      <4>1. n \in Nat
        BY <3>4 DEF FullBlocks, Blocks
      <4>2. p + 2 * n + 3 <= Len(text)
        BY <1>0, <1>1, <3>1
      <4> QED BY <4>1, <4>2
    <3>7. Right(b + 1)
      <4>1. b + 1 \in S /\ b + 1 \in 1 .. m + 1
        BY <1>2, <3>1
      <4>2. pos[b + 1] > L + 1
        <5> HIDE DEF n, p
        <5> QED BY <1>0, <2>0, <3>4, <3>6
      <4> QED BY <4>1, <4>2 DEF S
    <3> HIDE DEF n
    <3>8. PICK first \in ParsedBlocks :
              /\ first.data = blocks[b].data /\ first.id = blocks[b].id
              /\ BlocksOf(text)[p] = Behind(first, BlocksOf(text)[p + 2 * n + 3])
      <4> HIDE DEF p
      <4>1. n = Len(blocks[b].data)
        BY DEF n
      <4> DEFINE blk == blocks[b]
      <4>2. blk \in FullBlocks /\ BlockRest(text, L, p, blk) /\ text[p] = Header(blk.id) /\ n = Len(blk.data)
        BY <3>4, <3>5, <4>1
      <4> HIDE DEF blk
      <4>3. \E first \in ParsedBlocks :
               AsWritten(text, p, blk, first) /\ ReadBefore(text, p, p + 2 * n + 3, first)
        BY ONLY <1>0, <2>0, <3>6, <4>2, text \in Texts, WholeBlockRead
      <4> QED BY <3>3, <4>2, <4>3 DEF blk, AsWritten, ReadBefore
    <3> DEFINE r == [chain |-> SubSeq(blocks, b + 1, m), ends |-> TRUE]
    <3>9. blocks[b] = [id |-> first.id, data |-> first.data]
      BY <3>4, <3>8 DEF FullBlocks, Blocks
    <3>10. r \in Results /\ r.chain = SubSeq(blocks, b + 1, m) /\ r.ends = TRUE
      <4>1. blocks \in Seq(Blocks)
        <5>1. FullBlocks \subseteq Blocks
          BY DEF FullBlocks
        <5> QED BY <5>1
      <4>2. SubSeq(blocks, b + 1, m) \in Seq(Blocks)
        BY <1>0, <3>1, <4>1
      <4> QED BY <4>2 DEF Results
    <3> HIDE DEF r
    <3>11. BlocksOf(text)[p + 2 * n + 3] = {r}
      BY <3>4, <3>7 DEF r
    <3>12. BlocksOf(text)[p] = {[chain |-> <<blocks[b]>> \o r.chain, ends |-> r.ends]}
      <4>1. Behind(first, {r}) =
               {[chain |-> <<[id |-> first.id, data |-> first.data]>> \o r.chain, ends |-> r.ends]}
        BY <3>10, BehindOne
      <4> HIDE DEF p
      <4> QED BY <3>8, <3>9, <3>11, <4>1
    <3>13. SubSeq(blocks, b, m) = <<blocks[b]>> \o SubSeq(blocks, b + 1, m)
      BY <3>1, FirstAndRest
    <3> QED BY <3>10, <3>12, <3>13
  <2> QED BY <2>1, <2>2
<1>3. 1 \in Int /\ m + 1 \in Int
  BY <1>0
<1>4. 1 .. m + 1 \subseteq S
  BY <1>2, <1>3, InductDown
<1> QED BY <1>4 DEF S

(* An end of a chain, behind at most one block that has no header.         *)
TailRead(c, blocks) ==
    /\ c.ends
    /\ \E b \in 1 .. Len(blocks) + 1 :
           \/ c.chain = SubSeq(blocks, b, Len(blocks))
           \/ \E x \in Blocks : x.id = 0 /\ c.chain = <<x>> \o SubSeq(blocks, b, Len(blocks))

(* A chain of blocks that have transactions is a chain of blocks.          *)
LEMMA FullIsBlock == \A blocks : blocks \in Seq(FullBlocks) => blocks \in Seq(Blocks)
<1>1. FullBlocks \subseteq Blocks
  BY DEF FullBlocks
<1> QED BY <1>1

(* Where reading ends, the empty end of the chain has been read.           *)
LEMMA EndedIsTail ==
    ASSUME NEW blocks \in Seq(FullBlocks), NEW c \in Ended
    PROVE  TailRead(c, blocks)
<1>1. c.chain = <<>> /\ c.ends
  BY DEF Ended
<1>2. Len(blocks) + 1 \in 1 .. Len(blocks) + 1 /\ SubSeq(blocks, Len(blocks) + 1, Len(blocks)) = <<>>
  OBVIOUS
<1> QED BY <1>1, <1>2 DEF TailRead

(* One block that has lost its header, and what is behind it.              *)
LEMMA BehindIsTail ==
    ASSUME NEW blocks \in Seq(FullBlocks), NEW b \in 1 .. Len(blocks) + 1,
           NEW first \in ParsedBlocks, first.id = 0,
           NEW c \in Behind(first, {[chain |-> SubSeq(blocks, b, Len(blocks)), ends |-> TRUE]})
    PROVE  TailRead(c, blocks)
<1> DEFINE x == [id |-> first.id, data |-> first.data]
           s == SubSeq(blocks, b, Len(blocks))
           r == [chain |-> s, ends |-> TRUE]
<1>1. x \in Blocks /\ x.id = 0
  BY DEF ParsedBlocks, Blocks
<1>2. r \in Results
  <2>1. blocks \in Seq(Blocks)
    BY FullIsBlock
  <2>2. s \in Seq(Blocks)
    BY <2>1
  <2> QED BY <2>2 DEF Results
<1> HIDE DEF s, x
<1>3. Behind(first, {r}) = {[chain |-> <<x>> \o s, ends |-> TRUE]}
  <2> HIDE DEF r
  <2>1. Behind(first, {r}) = {[chain |-> <<x>> \o r.chain, ends |-> r.ends]}
    BY <1>2, BehindOne DEF x
  <2> QED BY <2>1 DEF r
<1>4. c \in Behind(first, {r})
  BY DEF s
<1>5. c.chain = <<x>> \o s /\ c.ends
  BY <1>3, <1>4
<1> QED BY <1>1, <1>5 DEF TailRead, s

(* A block that is read as it was written, in front of the blocks behind   *)
(* it, is an end of the chain.                                             *)
LEMMA BehindIsWritten ==
    ASSUME NEW blocks \in Seq(FullBlocks), NEW b \in 1 .. Len(blocks),
           NEW first \in ParsedBlocks, first.id = blocks[b].id, first.data = blocks[b].data,
           NEW c \in Behind(first, {[chain |-> SubSeq(blocks, b + 1, Len(blocks)), ends |-> TRUE]})
    PROVE  TailRead(c, blocks)
<1> DEFINE s == SubSeq(blocks, b + 1, Len(blocks))
           r == [chain |-> s, ends |-> TRUE]
<1>1. blocks[b] = [id |-> first.id, data |-> first.data]
  <2>1. blocks[b] \in FullBlocks
    OBVIOUS
  <2> QED BY <2>1 DEF FullBlocks, Blocks
<1>2. r \in Results
  <2>1. blocks \in Seq(Blocks)
    BY FullIsBlock
  <2>2. s \in Seq(Blocks)
    BY <2>1
  <2> QED BY <2>2 DEF Results
<1> HIDE DEF s
<1>3. Behind(first, {r}) = {[chain |-> <<blocks[b]>> \o s, ends |-> TRUE]}
  <2> HIDE DEF r
  <2>1. Behind(first, {r}) =
            {[chain |-> <<[id |-> first.id, data |-> first.data]>> \o r.chain, ends |-> r.ends]}
    BY <1>2, BehindOne
  <2> QED BY <1>1, <2>1 DEF r
<1>4. c \in Behind(first, {r})
  BY DEF s
<1>5. c.chain = <<blocks[b]>> \o s /\ c.ends
  BY <1>3, <1>4
<1>6. SubSeq(blocks, b, Len(blocks)) = <<blocks[b]>> \o s
  BY FirstAndRest DEF s
<1>7. b \in 1 .. Len(blocks) + 1
  OBVIOUS
<1> QED BY <1>5, <1>6, <1>7 DEF TailRead

(* A block, its place, its transactions, and the place behind it.          *)
AtPlace(text, L, blk, p, n, next) ==
    /\ L \in Nat /\ L <= Len(text) /\ Len(text) \in Nat
    /\ p \in Int /\ n \in Nat \ {0} /\ n = Len(blk.data)
    /\ next \in Int /\ next = p + 2 * n + 3 /\ next <= Len(text)
    /\ BlockRest(text, L, p, blk) /\ blk \in FullBlocks

(* There is no separator of blocks within one, before its last two tokens. *)
LEMMA InPlace ==
    ASSUME NEW text \in Texts, NEW L, NEW blk, NEW p, NEW n, NEW next,
           AtPlace(text, L, blk, p, n, next),
           NEW x \in Int, x > L, p <= x, x < p + 2 * n + 1
    PROVE  text[x] # Dash /\ text[x] # Slash /\ text[x] # Star
<1>1. /\ L \in Nat /\ p \in Int /\ blk \in FullBlocks /\ BlockRest(text, L, p, blk) /\ n = Len(blk.data)
  BY DEF AtPlace
<1>2. \A y \in Int : y > L /\ p <= y /\ y < p + 2 * n + 1 => text[y] # Dash /\ text[y] # Slash /\ text[y] # Star
  BY ONLY <1>1, text \in Texts, InBlock
<1> QED BY <1>2

(* The block of the chain that is at a place of it.                        *)
LEMMA BlockOfRest ==
    ASSUME NEW text \in Texts, NEW L, NEW pos, NEW blocks \in Seq(FullBlocks),
           RestOfChain(text, L, pos, blocks), NEW b \in 1 .. Len(blocks)
    PROVE  AtPlace(text, L, blocks[b], pos[b], Len(blocks[b].data), pos[b + 1])
<1> DEFINE blk == blocks[b]
           n == Len(blk.data)
           p == pos[b]
<1>1. blk \in FullBlocks
  OBVIOUS
<1>2. BlockRest(text, L, p, blk) /\ pos[b + 1] = p + 2 * n + 3 /\ L \in 0 .. Len(text)
  BY DEF RestOfChain
<1>3. Len(text) \in Nat /\ L \in Nat /\ L <= Len(text)
  BY <1>2 DEF Texts
<1>4. n \in Nat \ {0}
  <2> HIDE DEF blk
  <2>1. blk.data \in Seq(Int) /\ blk.data # <<>>
    BY <1>1 DEF FullBlocks, Blocks
  <2> QED BY <2>1
<1>5. b \in 1 .. Len(blocks) + 1
  OBVIOUS
<1>6. p \in Int /\ p + 2 * n + 3 <= Len(text)
  BY <1>5, Positions
<1> HIDE DEF blk, n, p
<1>7. AtPlace(text, L, blk, p, n, pos[b + 1])
  <2>1. n = Len(blk.data)
    BY DEF n
  <2> QED BY <1>1, <1>2, <1>3, <1>4, <1>6, <2>1 DEF AtPlace
<1> QED BY <1>7 DEF blk, n, p

(* The "-" of a block: the next one is lost.                               *)
LEMMA DashOfRest ==
    ASSUME NEW text \in Texts, NEW L, NEW pos, NEW blocks \in Seq(FullBlocks),
           RestOfChain(text, L, pos, blocks), NEW b \in 1 .. Len(blocks),
           NEW i \in Nat, i > L, i = pos[b] + 2 * Len(blocks[b].data) + 1,
           NEW c \in BlocksOf(text)[i]
    PROVE  TailRead(c, blocks)
<1> DEFINE p == pos[b]
           n == Len(blocks[b].data)
           len == Len(text)
           m == Len(blocks)
           end == BlockEnd(text, i)
<1>0. /\ L \in Nat /\ L <= len /\ len \in Nat /\ p \in Int /\ n \in Nat \ {0}
      /\ p + 2 * n + 3 <= len /\ pos[b + 1] = p + 2 * n + 3 /\ BlockRest(text, L, p, blocks[b])
      /\ i = p + 2 * n + 1 /\ i > L /\ i \in Nat
  <2>1. AtPlace(text, L, blocks[b], p, n, pos[b + 1])
    BY BlockOfRest
  <2>2. i = p + 2 * n + 1
    OBVIOUS
  <2> HIDE DEF p, n
  <2> QED BY <2>1, <2>2 DEF AtPlace
<1>1. m \in Nat /\ b \in 1 .. m
  OBVIOUS
<1>2. text[i] = Dash /\ text[i + 1] = Slash
  <2>1. p + 2 * n + 1 > L /\ p + 2 * n + 2 > L /\ i + 1 = p + 2 * n + 2
    BY <1>0
  <2> QED BY <1>0, <2>1 DEF BlockRest
<1>3. i \in Nat \ {0} /\ i + 1 <= len /\ i \in 1 .. len /\ i + 2 = pos[b + 1]
  <2> HIDE DEF p, n, len
  <2> QED BY <1>0
<1>4. PICK first \in ParsedBlocks :
          /\ first.id = 0
          /\ end > len => ReadLast(text, i, i + 2, first)
          /\ end <= len => ReadBefore(text, i, AfterBlock(text, end), first)
  <2> HIDE DEF end
  <2>1. end = BlockEnd(text, i)
    BY DEF end
  <2> QED BY <1>2, <1>3, <2>1, DashRead
<1>5. /\ end \in i .. len - 1 \/ end = len + 1
      /\ end <= len => text[end] = Bar /\ text[end + 1] = Dash
  BY <1>3, BlockEndAt
<1>6. text[i] # Bar /\ text[i + 1] # Bar
  BY <1>2 DEF Dash, Slash, Bar
<1> HIDE DEF p, n, len, end, m
<1>7. CASE b = m
  <2>1. i + 2 = len
    BY <1>3, <1>7 DEF RestOfChain, m, len
  <2>2. end = len + 1
    <3> SUFFICES ASSUME end \in i .. len - 1 PROVE FALSE
      BY <1>5
    <3>1. end = i \/ end = i + 1
      BY <1>0, <1>3, <2>1
    <3>2. end <= len
      BY <1>0, <1>3, <2>1, <3>1
    <3> QED BY <1>5, <1>6, <3>1, <3>2
  <2>3. BlocksOf(text)[i + 2] = Ended
    <3>1. text[len] = Star /\ text[len] # Slash
      BY <1>0, <1>3, <2>1 DEF RestOfChain, len, Star, Slash
    <3>2. Find(text, Slash, len, len) = len + 1
      BY <1>0, <3>1, FoundNone
    <3>3. Stops(text, len)
      BY <3>1, <3>2 DEF Stops, len
    <3>4. len \in 1 .. Len(text) + 3
      BY <1>0, <1>3, <2>1 DEF len
    <3> QED BY <2>1, <3>3, <3>4, StepStops
  <2>4. BlocksOf(text)[i] = Behind(first, Ended)
    <3>1. end > len
      BY <1>0, <2>2
    <3> QED BY <1>4, <2>3, <3>1 DEF ReadLast
  <2>5. Ended = {[chain |-> SubSeq(blocks, m + 1, Len(blocks)), ends |-> TRUE]}
    <3>1. SubSeq(blocks, m + 1, Len(blocks)) = <<>>
      BY <1>1 DEF m
    <3> QED BY <3>1 DEF Ended
  <2>6. c \in Behind(first, {[chain |-> SubSeq(blocks, m + 1, Len(blocks)), ends |-> TRUE]})
    BY <2>4, <2>5
  <2>7. m + 1 \in 1 .. Len(blocks) + 1
    BY <1>1 DEF m
  <2> QED BY <1>4, <2>6, <2>7, BehindIsTail
<1>8. CASE b # m
  <2> DEFINE q == pos[b + 1]
             blk == blocks[b + 1]
             k == Len(blk.data)
  <2>1. b + 1 \in 1 .. Len(blocks) /\ (b + 1) + 1 = b + 2 /\ b + 2 \in 1 .. Len(blocks) + 1
    BY <1>1, <1>8 DEF m
  <2>9. AtPlace(text, L, blk, q, k, pos[(b + 1) + 1])
    BY <2>1, BlockOfRest
  <2>3. q = i + 2
    BY <1>3
  <2> HIDE DEF q, k, blk
  <2>2. /\ q \in Int /\ k \in Nat \ {0} /\ q + 2 * k + 3 <= len /\ pos[b + 2] = q + 2 * k + 3
        /\ BlockRest(text, L, q, blk) /\ blk \in FullBlocks
    BY <2>1, <2>9 DEF AtPlace, len
  <2>12. k = Len(blk.data)
    BY DEF k
  <2>4. \A x \in Int : x > L /\ q <= x /\ x < q + 2 * k + 1 => text[x] # Dash /\ text[x] # Slash /\ text[x] # Star
    BY <2>9, InPlace
  <2>13. q > L
    BY ONLY <1>0, <2>2, <2>3
  <2>5. text[q + 2 * k] = Bar /\ text[q + 2 * k + 1] = Dash /\ text[q + 2 * k + 2] = Slash
    <3>1. q + 2 * k > L /\ q + 2 * k + 1 > L /\ q + 2 * k + 2 > L
      BY ONLY <1>0, <2>2, <2>13, SMTT(30)
    <3>2. k \in 1 .. Len(blk.data)
      BY <2>2, <2>12
    <3>3. text[q + 2 * k] = Bar
      BY <2>2, <3>1, <3>2 DEF BlockRest
    <3> QED BY <2>2, <2>12, <3>1, <3>3 DEF BlockRest
  <2>6. end = q + 2 * k
    <3> DEFINE e == q + 2 * k
    <3>1. e \in i .. Len(text) - 1 /\ text[e] = Bar /\ text[e + 1] = Dash
      <4>1. i \in Int /\ q \in Int /\ k \in Nat /\ len \in Nat /\ q = i + 2 /\ q + 2 * k + 3 <= len
        BY <1>0, <2>2, <2>3
      <4>2. e \in i .. len - 1
        BY ONLY <4>1
      <4> QED BY <2>5, <4>2 DEF len
    <3>2. \A x \in i .. e - 1 : ~(text[x] = Bar /\ text[x + 1] = Dash)
      <4> TAKE x \in i .. e - 1
      <4>1. CASE x = i \/ x = i + 1
        BY <1>6, <4>1
      <4>2. CASE x # i /\ x # i + 1
        <5>1. x + 1 \in Int /\ x + 1 > L /\ q <= x + 1 /\ x + 1 < q + 2 * k + 1
          BY ONLY <1>0, <1>3, <2>2, <2>3, <4>2, x \in i .. e - 1 DEF e
        <5> QED BY <2>4, <5>1
      <4> QED BY <4>1, <4>2
    <3>3. i \in 1 .. Len(text)
      BY <1>3 DEF len
    <3> HIDE DEF e
    <3>4. BlockEnd(text, i) = e
      BY <3>1, <3>2, <3>3, BlockEndIs
    <3> QED BY <3>4 DEF e, end
  <2>7. AfterBlock(text, end) = q + 2 * k + 3
    <3>1. end + 2 = q + 2 * k + 2 /\ end + 3 = q + 2 * k + 3
      BY <2>2, <2>6
    <3>2. text[end + 2][1] \notin Lossy
      BY <2>5, <3>1 DEF Slash, Lossy
    <3> QED BY <3>1, <3>2 DEF AfterBlock
  <2>8. end <= len /\ pos[b + 2] > L + 1
    BY ONLY <1>0, <1>3, <2>2, <2>3, <2>6
  <2>11. BlocksOf(text)[pos[b + 2]] = {[chain |-> SubSeq(blocks, b + 2, Len(blocks)), ends |-> TRUE]}
    <3>1. \A j \in 1 .. Len(blocks) + 1 : pos[j] > L + 1 =>
               BlocksOf(text)[pos[j]] = {[chain |-> SubSeq(blocks, j, Len(blocks)), ends |-> TRUE]}
      BY ExactFrom
    <3> QED BY <2>1, <2>8, <3>1
  <2>10. c \in Behind(first, {[chain |-> SubSeq(blocks, b + 2, Len(blocks)), ends |-> TRUE]})
    BY <1>4, <2>2, <2>7, <2>8, <2>11 DEF ReadBefore
  <2> QED BY <1>4, <2>1, <2>10, BehindIsTail
<1> QED BY <1>7, <1>8

(* Wherever in it the reading begins, an end of the chain is read.         *)
LEMMA RestIsRead ==
    ASSUME NEW text \in Texts, NEW L, NEW pos, NEW blocks \in Seq(FullBlocks),
           RestOfChain(text, L, pos, blocks),
           NEW i \in L + 1 .. Len(text) + 3, NEW c \in BlocksOf(text)[i]
    PROVE  TailRead(c, blocks)
<1> DEFINE len == Len(text)
<1>0. L \in Nat /\ L <= len /\ len \in Nat /\ i \in Nat /\ i > L /\ i \in 1 .. Len(text) + 3 /\ i <= len + 3
  BY DEF RestOfChain, Texts
<1>1. CASE Stops(text, i)
  <2>1. c \in Ended
    BY <1>0, <1>1, StepStops
  <2> QED BY <2>1, EndedIsTail
<1>2. CASE ~Stops(text, i)
  <2>1. i <= len
    BY <1>0, <1>2 DEF Stops
  <2>2. i # len
    <3> SUFFICES ASSUME i = len PROVE Stops(text, i)
      BY <1>2
    <3>1. text[i] = Star /\ text[i] # Slash
      BY <1>0 DEF RestOfChain, Star, Slash
    <3> HIDE DEF len
    <3>2. Find(text, Slash, i, len) = len + 1
      BY <1>0, <3>1, FoundNone
    <3> QED BY <3>1, <3>2 DEF Stops, len
  <2>3. PICK b \in 1 .. Len(blocks) : pos[b] <= i /\ i < pos[b + 1]
    <3>1. i \in L + 1 .. Len(text) - 1
      BY <1>0, <2>1, <2>2
    <3> QED BY <3>1, Positions
  <2> DEFINE blk == blocks[b]
             p == pos[b]
             n == Len(blk.data)
             next == pos[b + 1]
             r == [chain |-> SubSeq(blocks, b + 1, Len(blocks)), ends |-> TRUE]
  <2>4. AtPlace(text, L, blk, p, n, next)
    BY BlockOfRest
  <2>5. b + 1 \in 1 .. Len(blocks) + 1
    OBVIOUS
  <2>6. next > L + 1 => BlocksOf(text)[next] = {r}
    <3>1. \A j \in 1 .. Len(blocks) + 1 : pos[j] > L + 1 =>
               BlocksOf(text)[pos[j]] = {[chain |-> SubSeq(blocks, j, Len(blocks)), ends |-> TRUE]}
      BY ExactFrom
    <3> QED BY <2>5, <3>1
  <2> HIDE DEF blk, p, n, next
  <2>7. /\ p \in Int /\ n \in Nat \ {0} /\ next = p + 2 * n + 3 /\ next <= len /\ p <= i /\ i < next
        /\ BlockRest(text, L, p, blk) /\ blk \in FullBlocks
    BY <2>3, <2>4 DEF AtPlace, p, next
  <2>8. n = Len(blk.data)
    BY DEF n
  <2>9. i \in {p} \cup p + 1 .. p + 2 * n \cup {p + 2 * n + 1, p + 2 * n + 2}
    BY ONLY <1>0, <2>7
  <2>10. CASE i = p
    <3>1. p \in Nat /\ p > L /\ next > L + 1 /\ p + 2 * n + 3 <= Len(text)
      BY ONLY <1>0, <2>7, <2>10 DEF len
    <3>2. PICK first \in ParsedBlocks :
             AsWritten(text, p, blk, first) /\ ReadBefore(text, p, p + 2 * n + 3, first)
      BY ONLY <1>0, <2>7, <2>8, <3>1, text \in Texts, WholeBlockRead
    <3>3. c \in Behind(first, {r})
      BY <2>6, <2>7, <2>10, <3>1, <3>2 DEF ReadBefore
    <3>4. CASE first.id = 0
      BY <2>5, <3>3, <3>4, BehindIsTail
    <3>5. CASE first.id # 0
      <4>1. first.id = blocks[b].id /\ first.data = blocks[b].data
        BY <3>2, <3>5 DEF AsWritten, blk
      <4> QED BY <3>3, <4>1, BehindIsWritten
    <3> QED BY <3>4, <3>5
  <2>11. CASE i \in p + 1 .. p + 2 * n
    <3>1. p < i /\ i <= p + 2 * n /\ next > L + 1 /\ p + 2 * n + 3 <= Len(text)
      BY ONLY <1>0, <2>7, <2>11 DEF len
    <3>2. PICK first \in ParsedBlocks : first.id = 0 /\ ReadBefore(text, i, p + 2 * n + 3, first)
      BY ONLY <1>0, <2>7, <2>8, <3>1, text \in Texts, PartOfBlockRead
    <3>3. c \in Behind(first, {r})
      BY <2>6, <2>7, <3>1, <3>2 DEF ReadBefore
    <3> QED BY <2>5, <3>2, <3>3, BehindIsTail
  <2>12. CASE i = p + 2 * n + 1
    BY <1>0, <2>12, DashOfRest DEF p, n, blk
  <2>13. CASE i = p + 2 * n + 2
    <3>1. text[i] = Slash
      BY <1>0, <2>7, <2>8, <2>13 DEF BlockRest
    <3> HIDE DEF len
    <3>2. Find(text, Slash, i, len) = i
      BY <1>0, <2>1, <3>1, FoundHere
    <3> QED BY <1>2, <3>2 DEF Stops, len
  <2> QED BY <2>9, <2>10, <2>11, <2>12, <2>13
<1> QED BY <1>1, <1>2

-----------------------------------------------------------------------------
(* What was in the file before comes first.                                *)

(* Every "-" is followed by "/", and everything but "*" by "/" some time.  *)
Closed(text) ==
    \A j \in 1 .. Len(text) :
        /\ text[j] = Dash => j + 1 <= Len(text) /\ text[j + 1] = Slash
        /\ text[j] # Star => \E s \in j .. Len(text) : text[s] = Slash

(* A chain that is an earlier one and what a part of a chain is read as.   *)
Extends(c, old, blocks) ==
    \E t \in Results : TailRead(t, blocks) /\ c.chain = old.chain \o t.chain

(* An end of a chain goes on from nothing.                                 *)
LEMMA TailExtends ==
    ASSUME NEW blocks, NEW c \in Results, TailRead(c, blocks), NEW old, old.chain = <<>>
    PROVE  Extends(c, old, blocks)
<1>1. c.chain \in Seq(Blocks)
  BY DEF Results
<1>2. old.chain \o c.chain = c.chain
  BY <1>1
<1> QED BY <1>2 DEF Extends

(* If what is read behind a block goes on from what was, so does what is   *)
(* read from the block on.                                                 *)
LEMMA Onwards ==
    ASSUME NEW blocks, NEW first \in ParsedBlocks, NEW RT \in SUBSET Results, NEW RL \in SUBSET Results,
           NEW c \in Behind(first, RT), c.ends,
           \A r \in RT : r.ends => \E o \in RL : Extends(r, o, blocks)
    PROVE  \E old \in Behind(first, RL) : Extends(c, old, blocks)
<1> DEFINE x == <<[id |-> first.id, data |-> first.data]>>
<1>1. x \in Seq(Blocks)
  <2>1. [id |-> first.id, data |-> first.data] \in Blocks
    BY DEF ParsedBlocks, Blocks
  <2> QED BY <2>1
<1>2. PICK r \in RT : c = [chain |-> x \o r.chain, ends |-> r.ends]
  BY BehindHas
<1>3. PICK o \in RL : Extends(r, o, blocks)
  BY <1>2
<1>4. PICK t \in Results : TailRead(t, blocks) /\ r.chain = o.chain \o t.chain
  BY <1>3 DEF Extends
<1> DEFINE old == [chain |-> x \o o.chain, ends |-> o.ends]
<1>5. old \in Behind(first, RL)
  BY BehindHas
<1>6. o.chain \in Seq(Blocks) /\ t.chain \in Seq(Blocks)
  BY DEF Results
<1> HIDE DEF x
<1>7. x \o (o.chain \o t.chain) = (x \o o.chain) \o t.chain
  <2> DEFINE s == o.chain
             u == t.chain
  <2>1. s \in Seq(Blocks) /\ u \in Seq(Blocks)
    BY <1>6
  <2> HIDE DEF s, u
  <2>2. (x \o s) \o u = x \o (s \o u)
    BY <1>1, <2>1, ConcatAssociative
  <2> QED BY <2>2 DEF s, u
<1>8. c.chain = old.chain \o t.chain
  BY <1>2, <1>4, <1>7
<1> QED BY <1>4, <1>5, <1>8 DEF Extends

(* The end of what is read there may be more than was there.               *)
LEMMA EndedExtends ==
    ASSUME NEW blocks \in Seq(FullBlocks), NEW c \in Ended
    PROVE  Extends(c, c, blocks)
<1>1. c \in Results /\ c.chain = <<>>
  <2>1. c = [chain |-> <<>>, ends |-> TRUE]
    BY DEF Ended
  <2>2. <<>> \in Seq(Blocks)
    OBVIOUS
  <2> HIDE DEF Blocks
  <2> QED BY <2>1, <2>2 DEF Results
<1>2. TailRead(c, blocks)
  BY EndedIsTail
<1> QED BY <1>1, <1>2, TailExtends

(* An end of a block in what the text goes on with.                        *)
LEMMA EndInRest ==
    ASSUME NEW text \in Texts, NEW L, NEW pos, NEW blocks \in Seq(FullBlocks),
           RestOfChain(text, L, pos, blocks),
           NEW end \in Nat, end >= L, end + 1 <= Len(text), text[end + 1] = Dash
    PROVE  \E b \in 1 .. Len(blocks) : AfterBlock(text, end) = pos[b + 1] /\ pos[b + 1] > L + 1
<1>0. L \in Nat /\ L <= Len(text) /\ Len(text) \in Nat
  BY DEF RestOfChain, Texts
<1>1. end + 1 # Len(text)
  <2> SUFFICES ASSUME end + 1 = Len(text) PROVE FALSE
    OBVIOUS
  <2>1. Len(text) > L
    BY <1>0
  <2>2. text[Len(text)] = Star
    BY <2>1 DEF RestOfChain
  <2> QED BY <2>2 DEF Star, Dash
<1>2. PICK b \in 1 .. Len(blocks) : pos[b] <= end + 1 /\ end + 1 < pos[b + 1]
  <2>1. end + 1 \in L + 1 .. Len(text) - 1
    BY <1>0, <1>1
  <2> QED BY <2>1, Positions
<1> DEFINE blk == blocks[b]
           p == pos[b]
           n == Len(blk.data)
           next == pos[b + 1]
<1>3. AtPlace(text, L, blk, p, n, next)
  BY BlockOfRest
<1>4. p <= end + 1 /\ end + 1 < next
  BY <1>2
<1> HIDE DEF blk, p, n, next
<1>5. /\ p \in Int /\ n \in Nat \ {0} /\ next = p + 2 * n + 3 /\ BlockRest(text, L, p, blk) /\ blk \in FullBlocks
  BY <1>3 DEF AtPlace
<1>9. n = Len(blk.data)
  BY <1>3 DEF AtPlace
<1>6. ~(end + 1 < p + 2 * n + 1)
  <2> SUFFICES ASSUME end + 1 < p + 2 * n + 1 PROVE FALSE
    OBVIOUS
  <2>1. end + 1 \in Int /\ end + 1 > L
    BY <1>0
  <2>2. text[end + 1] # Dash
    BY <1>3, <1>4, <2>1, InPlace
  <2> QED BY <2>2
<1>7. end + 1 # p + 2 * n + 2
  <2> SUFFICES ASSUME end + 1 = p + 2 * n + 2 PROVE FALSE
    OBVIOUS
  <2>1. p + 2 * n + 2 > L
    BY ONLY <1>0, end + 1 = p + 2 * n + 2, end >= L, end \in Nat
  <2>2. text[p + 2 * n + 2] = Slash
    BY <1>5, <1>9, <2>1 DEF BlockRest
  <2> QED BY <2>2 DEF Dash, Slash
<1>8. end + 2 = p + 2 * n + 2 /\ end + 3 = next /\ p + 2 * n + 2 > L /\ next > L + 1
  BY ONLY <1>0, <1>4, <1>5, <1>6, <1>7, end >= L, end \in Nat
<1>10. text[end + 2][1] \notin Lossy
  <2>1. text[p + 2 * n + 2] = Slash
    BY <1>5, <1>8, <1>9 DEF BlockRest
  <2> QED BY <1>8, <2>1 DEF Slash, Lossy
<1> QED BY <1>8, <1>10 DEF AfterBlock, next

(* From an end of an earlier text.                                         *)
LEMMA StarsRead ==
    ASSUME NEW text \in Texts, NEW L, NEW pos, NEW blocks \in Seq(FullBlocks),
           RestOfChain(text, L, pos, blocks),
           NEW i \in 1 .. L, \A x \in i .. L : text[x] = Star,
           NEW c \in BlocksOf(text)[i], c.ends
    PROVE  TailRead(c, blocks)
<1> DEFINE slash == Find(text, Slash, i, Len(text))
           first == ParseBlock(text, i, slash - 1)
           end == BlockEnd(text, i)
<1>0. L \in Nat /\ L <= Len(text) /\ Len(text) \in Nat /\ i \in Nat /\ i <= L /\ i \in 1 .. Len(text) + 3 /\ i \in 1 .. Len(text)
  BY DEF RestOfChain, Texts
<1>1. CASE Stops(text, i)
  <2>1. c \in Ended
    BY <1>0, <1>1, StepStops
  <2> QED BY <2>1, EndedIsTail
<1>2. CASE ~Stops(text, i)
  <2>1. /\ slash \in i + 1 .. Len(text) + 1
        /\ slash - 1 \in 0 .. Len(text) /\ i \in 1 .. slash - 1
    BY <1>0, <1>2, NextBlock
  <2>2. first.ends
    <3> SUFFICES ASSUME ~first.ends PROVE FALSE
      OBVIOUS
    <3>1. c \in Hangs
      BY <1>0, <1>2, StepHangs
    <3> QED BY <3>1 DEF Hangs
  <2>3. first \in ParsedBlocks
    BY <2>1, BlockTyped
  <2>4. first.id = 0
    <3>1. i \notin Heads(text, i, slash - 1)
      <4>1. text[i] = Star
        BY <1>0
      <4> QED BY <4>1 DEF Heads, Star
    <3> HIDE DEF slash
    <3>2. first.id = IF i \in Heads(text, i, slash - 1) THEN Number(text, i) ELSE 0
      BY <2>1, BlockParsed
    <3> QED BY <3>1, <3>2
  <2>5. /\ end \in i .. Len(text) - 1 \/ end = Len(text) + 1
        /\ end <= Len(text) => text[end] = Bar /\ text[end + 1] = Dash
        /\ \A k \in i .. Len(text) - 1 : k < end => ~(text[k] = Bar /\ text[k + 1] = Dash)
    BY <1>0, BlockEndAt
  <2>6. /\ slash <= Len(text) => text[slash] = Slash
        /\ \A k \in i .. slash - 1 : text[k] # Slash
    BY <1>0, FoundAt
  <2>7. CASE end <= Len(text)
    <3>1. BlocksOf(text)[i] = Behind(first, BlocksOf(text)[AfterBlock(text, end)])
      BY <1>0, <1>2, <2>2, <2>7, StepNext
    <3> HIDE DEF end, first, slash
    <3>2. end \in Nat /\ end >= L /\ end + 1 <= Len(text) /\ text[end + 1] = Dash
      <4>1. ~(end \in i .. L)
        <5> SUFFICES ASSUME end \in i .. L PROVE FALSE
          OBVIOUS
        <5>1. text[end] = Star
          OBVIOUS
        <5> QED BY <2>5, <2>7, <5>1 DEF Star, Bar
      <4> QED BY <1>0, <2>5, <2>7, <4>1
    <3>3. PICK b \in 1 .. Len(blocks) : AfterBlock(text, end) = pos[b + 1] /\ pos[b + 1] > L + 1
      BY <3>2, EndInRest
    <3>4. b + 1 \in 1 .. Len(blocks) + 1
      OBVIOUS
    <3>5. BlocksOf(text)[pos[b + 1]] = {[chain |-> SubSeq(blocks, b + 1, Len(blocks)), ends |-> TRUE]}
      <4>1. \A j \in 1 .. Len(blocks) + 1 : pos[j] > L + 1 =>
               BlocksOf(text)[pos[j]] = {[chain |-> SubSeq(blocks, j, Len(blocks)), ends |-> TRUE]}
        BY ExactFrom
      <4> QED BY <3>3, <3>4, <4>1
    <3>6. c \in Behind(first, {[chain |-> SubSeq(blocks, b + 1, Len(blocks)), ends |-> TRUE]})
      BY <3>1, <3>3, <3>5
    <3> QED BY <2>3, <2>4, <3>4, <3>6, BehindIsTail
  <2>8. CASE end > Len(text)
    <3>1. BlocksOf(text)[i] = Behind(first, Ended \cup BlocksOf(text)[slash + 1])
      BY <1>0, <1>2, <2>2, <2>8, StepOpen
    <3>2. CASE slash > Len(text)
      <4>1. slash = Len(text) + 1 /\ slash + 1 \in 1 .. Len(text) + 3 /\ slash + 1 > Len(text)
        BY <1>0, <2>1, <3>2
      <4> HIDE DEF slash
      <4>2. Stops(text, slash + 1)
        BY <4>1 DEF Stops
      <4>3. BlocksOf(text)[slash + 1] = Ended
        BY <4>1, <4>2, StepStops
      <4>4. Ended = {[chain |-> SubSeq(blocks, Len(blocks) + 1, Len(blocks)), ends |-> TRUE]}
        <5>1. SubSeq(blocks, Len(blocks) + 1, Len(blocks)) = <<>>
          OBVIOUS
        <5> QED BY <5>1 DEF Ended
      <4>5. c \in Behind(first, {[chain |-> SubSeq(blocks, Len(blocks) + 1, Len(blocks)), ends |-> TRUE]})
        BY <3>1, <4>3, <4>4
      <4>6. Len(blocks) + 1 \in 1 .. Len(blocks) + 1
        OBVIOUS
      <4> QED BY <2>3, <2>4, <4>5, <4>6, BehindIsTail
    <3>3. CASE slash <= Len(text)
      <4> HIDE DEF slash, end
      <4>0. slash \in Nat /\ slash > L /\ text[slash] = Slash
        <5>1. ~(slash \in i .. L)
          <6> SUFFICES ASSUME slash \in i .. L PROVE FALSE
            OBVIOUS
          <6>1. text[slash] = Star
            OBVIOUS
          <6> QED BY <2>6, <3>3, <6>1 DEF Star, Slash
        <5> QED BY <1>0, <2>1, <2>6, <3>3, <5>1
      <4>1. slash # Len(text)
        <5> SUFFICES ASSUME slash = Len(text) PROVE FALSE
          OBVIOUS
        <5>1. Len(text) > L
          BY <4>0
        <5>2. text[Len(text)] = Star
          BY <5>1 DEF RestOfChain
        <5> QED BY <4>0, <5>2 DEF Star, Slash
      <4>2. PICK b \in 1 .. Len(blocks) : pos[b] <= slash /\ slash < pos[b + 1]
        <5>1. slash \in L + 1 .. Len(text) - 1
          BY <1>0, <3>3, <4>0, <4>1
        <5> QED BY <5>1, Positions
      <4> DEFINE blk == blocks[b]
                 p == pos[b]
                 n == Len(blk.data)
                 next == pos[b + 1]
      <4>3. AtPlace(text, L, blk, p, n, next)
        BY BlockOfRest
      <4>4. p <= slash /\ slash < next
        BY <4>2
      <4> HIDE DEF blk, p, n, next
      <4>5. /\ p \in Int /\ n \in Nat \ {0} /\ next = p + 2 * n + 3 /\ BlockRest(text, L, p, blk) /\ blk \in FullBlocks
            /\ next <= Len(text)
        BY <4>3 DEF AtPlace
      <4>6. n = Len(blk.data)
        BY <4>3 DEF AtPlace
      <4>7. ~(slash < p + 2 * n + 1)
        BY <4>0, <4>3, <4>4, InPlace
      <4>8. p + 2 * n + 1 > L => text[p + 2 * n + 1] = Dash
        BY <4>5, <4>6 DEF BlockRest
      <4>9. slash # p + 2 * n + 1
        BY <4>0, <4>8 DEF Slash, Dash
      <4>10. slash = p + 2 * n + 2
        BY ONLY <4>0, <4>4, <4>5, <4>7, <4>9
      <4>11. p + 2 * n <= L
        <5>1. ASSUME p + 2 * n > L PROVE FALSE
          <6>1. text[p + 2 * n] = Bar
            BY ONLY <1>0, <4>5, <4>6, <5>1, text \in Texts, InBlock, ZenonT(40)
          <6>2. p + 2 * n + 1 > L /\ p + 2 * n \in i .. Len(text) - 1 /\ p + 2 * n < end
            BY ONLY <1>0, <2>8, <4>5, <5>1, <2>5
          <6> QED BY <2>5, <4>8, <6>1, <6>2
        <5>2. p + 2 * n \in Int /\ L \in Int
          BY ONLY <1>0, <4>5
        <5> HIDE DEF p, n
        <5> QED BY ONLY <5>1, <5>2
      <4>12. \A x \in i .. slash - 1 : text[x] = Star \/ text[x] = Dash
        <5> TAKE x \in i .. slash - 1
        <5>1. x \in i .. L \/ (x = p + 2 * n + 1 /\ p + 2 * n + 1 > L)
          BY ONLY <1>0, <4>5, <4>10, <4>11, x \in i .. slash - 1
        <5> QED BY <4>8, <5>1
      <4>13. Heads(text, i, slash - 1) = {}
        <5>1. \A x \in i .. slash - 1 : text[x][1] # "head"
          BY <4>12 DEF Star, Dash
        <5> QED BY <5>1 DEF Heads
      <4> DEFINE txs == ParseTxs(text, i, slash - 1)
      <4>14. first.ends = txs.ends
        <5> DEFINE to == slash - 1
        <5>1. to \in 0 .. Len(text) /\ i \in 1 .. to /\ Heads(text, i, to) = {}
          BY <2>1, <4>13
        <5> HIDE DEF to
        <5>2. ParseBlock(text, i, to) = [id |-> IF i \in Heads(text, i, to) THEN Number(text, i) ELSE 0,
                     data |-> ParseTxs(text, i, to).data, ends |-> ParseTxs(text, i, to).ends]
          BY <5>1, BlockParsed
        <5> QED BY <5>2 DEF to, first
      <4>15. \A x \in i .. slash - 1 : text[x] # Bar
        BY <4>12 DEF Star, Dash, Bar
      <4>16. Find(text, Bar, i, slash - 1) = (slash - 1) + 1
        <5>1. i \in Nat /\ slash - 1 \in Nat /\ i <= (slash - 1) + 1
          BY <1>0, <2>1
        <5> QED BY <4>15, <5>1, FoundNone
      <4>17. (slash - 1) + 1 # i /\ (slash - 1) + 1 > slash - 1 /\ i \in 1 .. (slash - 1) + 1
        BY <1>0, <2>1
      <4>18. text[i] # Dash
        <5>1. text[i] = Star
          BY <1>0
        <5> QED BY <5>1 DEF Star, Dash
      <4>19. txs = [data |-> <<>>, ends |-> FALSE]
        <5> DEFINE bar == Find(text, Bar, i, slash - 1)
                   tx == IF bar = i + 1 /\ text[i][1] = "tx" THEN Number(text, i) ELSE 0
                   ended == bar = i \/ (bar = i + 1 /\ text[i] = Dash)
        <5>1. ~ended /\ bar > slash - 1
          BY <4>16, <4>17, <4>18
        <5>2. ~ended /\ bar > slash - 1 => txs = [data |-> <<>>, ends |-> FALSE]
          <6> HIDE DEF bar, tx, ended
          <6> QED BY <2>1, <4>17, TxsStep DEF bar, tx, ended
        <5> QED BY <5>1, <5>2
      <4> QED BY <2>2, <4>14, <4>19
    <3> QED BY <1>0, <2>1, <3>2, <3>3
  <2> QED BY <1>0, <2>5, <2>7, <2>8
<1> QED BY <1>1, <1>2

(* A text that goes on from an earlier one.                                *)
GoesOn(text, rest) ==
    Len(rest) \in 0 .. Len(text) /\ \A x \in 1 .. Len(rest) : text[x] = rest[x]

(* What is read from j is what was read there before, and an end of the    *)
(* chain.                                                                  *)
Carried(text, rest, blocks, j) ==
    \A c \in BlocksOf(text)[j] : c.ends => \E old \in BlocksOf(rest)[j] : Extends(c, old, blocks)

(* Of a text of "*" alone nothing is read.                                 *)
LEMMA StarsLeft ==
    ASSUME NEW rest \in Texts, NEW i \in 1 .. Len(rest), \A x \in i .. Len(rest) : rest[x] = Star
    PROVE  \E old \in BlocksOf(rest)[i] : old.chain = <<>>
<1> DEFINE len == Len(rest)
<1>0. len \in Nat /\ i \in 1 .. len + 3 /\ i \in 1 .. len /\ len \in 0 .. len /\ i \in Nat /\ i <= len + 1
  BY DEF Texts
<1>1. \A x \in i .. len : rest[x] # Slash /\ rest[x] # Bar /\ rest[x] # Dash /\ rest[x][1] # "head"
  <2> TAKE x \in i .. len
  <2>1. rest[x] = Star
    OBVIOUS
  <2> QED BY <2>1 DEF Star, Slash, Bar, Dash
<1> HIDE DEF len
<1>2. Find(rest, Slash, i, len) = len + 1 /\ Find(rest, Bar, i, len) = len + 1
  <2>1. (\A x \in i .. len : rest[x] # Slash) /\ (\A x \in i .. len : rest[x] # Bar)
    BY <1>1
  <2> QED BY ONLY <1>0, <2>1, FoundNone
<1>3. CASE Stops(rest, i)
  <2>1. BlocksOf(rest)[i] = Ended
    BY <1>0, <1>3, StepStops DEF len
  <2> QED BY <2>1 DEF Ended
<1>4. CASE ~Stops(rest, i)
  <2>1. i # len + 1
    BY <1>0
  <2>3. Heads(rest, i, len) = {}
    BY <1>1 DEF Heads
  <2>4. ParseBlock(rest, i, len) = [id |-> IF i \in Heads(rest, i, len) THEN Number(rest, i) ELSE 0,
                     data |-> ParseTxs(rest, i, len).data, ends |-> ParseTxs(rest, i, len).ends]
    <3>1. len \in 0 .. Len(rest) /\ i \in 1 .. len
      BY <1>0 DEF len
    <3> QED BY <2>3, <3>1, BlockParsed
  <2>5. ParseTxs(rest, i, len) = [data |-> <<>>, ends |-> FALSE]
    <3> DEFINE bar == Find(rest, Bar, i, len)
               tx == IF bar = i + 1 /\ rest[i][1] = "tx" THEN Number(rest, i) ELSE 0
               ended == bar = i \/ (bar = i + 1 /\ rest[i] = Dash)
    <3>1. ~ended /\ bar > len
      BY <1>0, <1>1, <1>2
    <3>3. len \in 0 .. Len(rest) /\ i \in 1 .. len + 1
      BY <1>0 DEF len
    <3>2. ~ended /\ bar > len => ParseTxs(rest, i, len) = [data |-> <<>>, ends |-> FALSE]
      <4> HIDE DEF bar, tx, ended
      <4> QED BY <3>3, TxsStep DEF bar, tx, ended
    <3> QED BY <3>1, <3>2
  <2>6. ~ParseBlock(rest, i, len).ends
    BY <2>4, <2>5
  <2>7. ~ParseBlock(rest, i, Find(rest, Slash, i, Len(rest)) - 1).ends
    <3>1. Find(rest, Slash, i, Len(rest)) - 1 = len
      BY <1>0, <1>2 DEF len
    <3> QED BY <2>6, <3>1
  <2>8. BlocksOf(rest)[i] = Hangs
    BY <1>0, <1>4, <2>7, StepHangs DEF len
  <2> QED BY <2>8 DEF Hangs
<1> QED BY <1>3, <1>4

(* What is read from any place are results.                                *)
LEMMA ResultsOf ==
    ASSUME NEW text \in Texts, NEW i \in 1 .. Len(text) + 3
    PROVE  BlocksOf(text)[i] \in SUBSET Results
BY BlocksExist

(* Where the earlier text has ended.                                       *)
LEMMA CarriedBehind ==
    ASSUME NEW text \in Texts, NEW rest \in Texts, GoesOn(text, rest),
           NEW pos, NEW blocks \in Seq(FullBlocks), RestOfChain(text, Len(rest), pos, blocks)
    PROVE  Carried(text, rest, blocks, Len(rest) + 1)
<1> DEFINE L == Len(rest)
<1>0. /\ L \in Nat /\ Len(text) \in Nat /\ L <= Len(text) /\ L + 1 \in 1 .. L + 3 /\ L + 1 > L
      /\ L + 1 \in L + 1 .. Len(text) + 3 /\ L + 1 \in 1 .. Len(text) + 3
  BY DEF GoesOn, Texts
<1> SUFFICES ASSUME NEW c \in BlocksOf(text)[L + 1]
             PROVE  \E old \in BlocksOf(rest)[L + 1] : Extends(c, old, blocks)
  BY DEF Carried
<1>1. BlocksOf(rest)[L + 1] = Ended
  <2>1. Stops(rest, L + 1)
    BY <1>0 DEF Stops
  <2> QED BY <1>0, <2>1, StepStops
<1>2. TailRead(c, blocks)
  BY <1>0, RestIsRead
<1>3. c \in Results
  BY <1>0, ResultsOf
<1>4. PICK old \in Ended : old.chain = <<>>
  BY DEF Ended
<1>5. Extends(c, old, blocks)
  BY <1>2, <1>3, <1>4, TailExtends
<1> QED BY <1>1, <1>5

(* A step back in the earlier text.                                        *)
LEMMA CarriedBack ==
    ASSUME NEW text \in Texts, NEW rest \in Texts, GoesOn(text, rest), Closed(rest),
           NEW pos, NEW blocks \in Seq(FullBlocks), RestOfChain(text, Len(rest), pos, blocks),
           NEW i \in 1 .. Len(rest),
           \A j \in i + 1 .. Len(rest) + 1 : Carried(text, rest, blocks, j)
    PROVE  Carried(text, rest, blocks, i)
<1> DEFINE L == Len(rest)
           len == Len(text)
           s == Find(rest, Slash, i, L)
           first == ParseBlock(rest, i, s - 1)
           endL == BlockEnd(rest, i)
           end == BlockEnd(text, i)
<1>0. /\ L \in Nat /\ len \in Nat /\ L <= len /\ i \in Nat /\ i \in 1 .. L /\ i \in 1 .. len
      /\ i \in 1 .. L + 3 /\ i \in 1 .. len + 3 /\ i <= L
      /\ \A x \in 1 .. L : text[x] = rest[x]
  BY DEF GoesOn, Texts
<1> SUFFICES ASSUME NEW c \in BlocksOf(text)[i], c.ends
             PROVE  \E old \in BlocksOf(rest)[i] : Extends(c, old, blocks)
  BY DEF Carried
<1>1. s \in i .. L + 1 /\ (s <= L => rest[s] = Slash) /\ \A k \in i .. s - 1 : rest[k] # Slash
  BY <1>0, FoundAt
<1>2. c \in Results
  BY <1>0, ResultsOf
<1>3. CASE s = L + 1
  <2>1. \A x \in i .. L : rest[x] = Star
    <3> SUFFICES ASSUME NEW x \in i .. L, rest[x] # Star PROVE FALSE
      OBVIOUS
    <3>1. x \in 1 .. Len(rest)
      BY <1>0
    <3>2. PICK y \in x .. L : rest[y] = Slash
      BY <3>1 DEF Closed
    <3>3. y \in i .. s - 1
      BY <1>0, <1>3
    <3> QED BY <1>1, <3>2, <3>3
  <2>2. PICK old \in BlocksOf(rest)[i] : old.chain = <<>>
    BY <2>1, StarsLeft
  <2>3. \A x \in i .. L : text[x] = Star
    BY <1>0, <2>1
  <2>4. TailRead(c, blocks)
    BY <2>3, StarsRead
  <2>5. Extends(c, old, blocks)
    BY <1>2, <2>2, <2>4, TailExtends
  <2> QED BY <2>5
<1>4. CASE s <= L
  <2>1. Find(text, Slash, i, Len(text)) = s
    <3>1. s \in i .. Len(text) + 1 /\ text[s] = Slash /\ \A k \in i .. s - 1 : text[k] # Slash
      BY <1>0, <1>1, <1>4, SMTT(30)
    <3> HIDE DEF s
    <3> QED BY <1>0, <3>1, FoundInText
  <2>2. Stops(text, i) <=> Stops(rest, i)
    BY <1>0, <2>1 DEF Stops
  <2>3. CASE Stops(text, i)
    <3>1. c \in Ended /\ BlocksOf(rest)[i] = Ended
      BY <1>0, <2>2, <2>3, StepStops
    <3>2. Extends(c, c, blocks)
      BY <3>1, EndedExtends
    <3> QED BY <3>1, <3>2
  <2>4. CASE ~Stops(text, i)
    <3>0. ~Stops(rest, i)
      BY <2>2, <2>4
    <3>1. s - 1 \in 0 .. Len(rest) /\ i \in 1 .. s - 1 /\ s # i /\ s + 1 \in i + 1 .. L + 1
      BY <1>0, <1>1, <1>4, <3>0 DEF Stops
    <3>2. first = ParseBlock(text, i, s - 1)
      <4>1. s - 1 \in Nat /\ s - 1 <= Len(text) /\ s - 1 <= Len(rest) /\ \A x \in 1 .. s - 1 : text[x] = rest[x]
        BY <1>0, <1>4, <3>1
      <4> HIDE DEF s
      <4> QED BY <3>1, <4>1, BlockAgrees
    <3>3. first.ends
      <4> SUFFICES ASSUME ~first.ends PROVE FALSE
        OBVIOUS
      <4>1. c \in Hangs
        BY <1>0, <2>1, <2>4, <3>2, StepHangs
      <4> QED BY <4>1 DEF Hangs
    <3>4. first \in ParsedBlocks
      BY <3>1, BlockTyped
    <3>5. /\ endL \in i .. L - 1 \/ endL = L + 1
          /\ endL <= L => rest[endL] = Bar /\ rest[endL + 1] = Dash
          /\ \A k \in i .. L - 1 : k < endL => ~(rest[k] = Bar /\ rest[k + 1] = Dash)
      BY BlockEndAt
    <3>6. /\ end \in i .. len - 1 \/ end = len + 1
          /\ end <= len => text[end] = Bar /\ text[end + 1] = Dash
          /\ \A k \in i .. len - 1 : k < end => ~(text[k] = Bar /\ text[k + 1] = Dash)
      BY <1>0, BlockEndAt
    <3>7. endL > L => BlocksOf(rest)[i] = Behind(first, Ended \cup BlocksOf(rest)[s + 1])
      BY <1>0, <3>0, <3>3, StepOpen
    <3>8. endL <= L => BlocksOf(rest)[i] = Behind(first, BlocksOf(rest)[AfterBlock(rest, endL)])
      BY <1>0, <3>0, <3>3, StepNext
    <3>9. end > len => BlocksOf(text)[i] = Behind(first, Ended \cup BlocksOf(text)[s + 1])
      BY <1>0, <2>1, <2>4, <3>2, <3>3, StepOpen
    <3>10. end <= len => BlocksOf(text)[i] = Behind(first, BlocksOf(text)[AfterBlock(text, end)])
      BY <1>0, <2>1, <2>4, <3>2, <3>3, StepNext
    <3> HIDE DEF first, s, endL, end
    <3>11. Ended \in SUBSET Results
      BY DEF Ended, Hangs, Results
    <3>12. BlocksOf(text)[s + 1] \in SUBSET Results /\ BlocksOf(rest)[s + 1] \in SUBSET Results
      <4>1. s + 1 \in 1 .. Len(text) + 3 /\ s + 1 \in 1 .. Len(rest) + 3
        BY <1>0, <3>1
      <4> QED BY <4>1, ResultsOf
    <3>13. CASE endL <= L
      <4> DEFINE next == endL + 3
      <4>1. endL \in i .. L - 1 /\ rest[endL] = Bar /\ rest[endL + 1] = Dash
        BY <1>0, <3>5, <3>13
      <4>2. endL + 2 <= L /\ rest[endL + 2] = Slash
        <5>1. endL + 1 \in 1 .. Len(rest) /\ (endL + 1) + 1 = endL + 2
          BY <1>0, <4>1
        <5> QED BY <4>1, <5>1 DEF Closed
      <4>3. end = endL
        <5>1. endL \in i .. Len(text) - 1
          BY <1>0, <4>1
        <5>2. text[endL] = Bar /\ text[endL + 1] = Dash
          BY <1>0, <4>1
        <5>3. \A k \in i .. endL - 1 : ~(text[k] = Bar /\ text[k + 1] = Dash)
          <6> TAKE k \in i .. endL - 1
          <6>1. k \in i .. L - 1 /\ k < endL /\ text[k] = rest[k] /\ text[k + 1] = rest[k + 1]
            BY <1>0, <4>1
          <6> QED BY <3>5, <6>1
        <5> QED BY <1>0, <5>1, <5>2, <5>3, BlockEndIs DEF end
      <4>4. AfterBlock(rest, endL) = next /\ AfterBlock(text, end) = next
        <5>1. text[endL + 2] = Slash
          BY <1>0, <4>1, <4>2
        <5> QED BY <4>2, <4>3, <5>1 DEF AfterBlock, Slash, Lossy
      <4>5. next \in i + 1 .. L + 1 /\ end <= len /\ next \in 1 .. Len(text) + 3 /\ next \in 1 .. Len(rest) + 3
        BY <1>0, <4>1, <4>2, <4>3
      <4> HIDE DEF next
      <4>6. BlocksOf(text)[i] = Behind(first, BlocksOf(text)[next]) /\ BlocksOf(rest)[i] = Behind(first, BlocksOf(rest)[next])
        BY <3>8, <3>10, <3>13, <4>4, <4>5
      <4>7. BlocksOf(text)[next] \in SUBSET Results /\ BlocksOf(rest)[next] \in SUBSET Results
        BY <4>5, ResultsOf
      <4>8. \A r \in BlocksOf(text)[next] : r.ends => \E o \in BlocksOf(rest)[next] : Extends(r, o, blocks)
        BY <4>5 DEF Carried
      <4>9. \E old \in Behind(first, BlocksOf(rest)[next]) : Extends(c, old, blocks)
        BY <3>4, <4>6, <4>7, <4>8, Onwards
      <4> QED BY <4>6, <4>9
    <3>14. CASE endL > L /\ end > len
      <4>1. \A r \in Ended \cup BlocksOf(text)[s + 1] : r.ends =>
                \E o \in Ended \cup BlocksOf(rest)[s + 1] : Extends(r, o, blocks)
        <5>1. \A r \in Ended : Extends(r, r, blocks)
          BY EndedExtends
        <5>2. \A r \in BlocksOf(text)[s + 1] : r.ends => \E o \in BlocksOf(rest)[s + 1] : Extends(r, o, blocks)
          BY <3>1 DEF Carried
        <5> QED BY <5>1, <5>2
      <4>2. \E old \in Behind(first, Ended \cup BlocksOf(rest)[s + 1]) : Extends(c, old, blocks)
        <5> DEFINE RT == Ended \cup BlocksOf(text)[s + 1]
                   RL == Ended \cup BlocksOf(rest)[s + 1]
        <5>1. RT \in SUBSET Results /\ RL \in SUBSET Results
          BY <3>11, <3>12
        <5>2. c \in Behind(first, RT)
          BY <3>9, <3>14
        <5>3. \A r \in RT : r.ends => \E o \in RL : Extends(r, o, blocks)
          BY <4>1
        <5> HIDE DEF RT, RL
        <5>4. \E old \in Behind(first, RL) : Extends(c, old, blocks)
          BY <3>4, <5>1, <5>2, <5>3, Onwards
        <5> QED BY <5>4 DEF RL
      <4> QED BY <3>7, <3>14, <4>2
    <3>15. CASE endL > L /\ end <= len
      <4>1. end \in i .. len - 1 /\ text[end] = Bar /\ text[end + 1] = Dash
        BY <1>0, <3>6, <3>15
      <4>2. end >= L
        <5> SUFFICES ASSUME end < L PROVE FALSE
          BY <1>0, <4>1
        <5>1. end \in i .. L - 1 /\ end < endL /\ text[end] = rest[end] /\ text[end + 1] = rest[end + 1]
          BY <1>0, <3>5, <3>15, <4>1
        <5> QED BY <3>5, <4>1, <5>1
      <4>3. PICK b \in 1 .. Len(blocks) : AfterBlock(text, end) = pos[b + 1] /\ pos[b + 1] > L + 1
        <5>1. end \in Nat /\ end + 1 <= Len(text)
          BY <1>0, <4>1
        <5> QED BY <4>1, <4>2, <5>1, EndInRest, SMTT(30)
      <4> DEFINE next == AfterBlock(text, end)
      <4>4. next \in L + 1 .. Len(text) + 3 /\ next \in 1 .. Len(text) + 3
        <5>1. next \in i + 1 .. Len(text) + 3
          BY <1>0, <2>4, <3>15, NextBlock DEF end
        <5>2. next > L + 1
          BY <4>3
        <5> HIDE DEF next
        <5> QED BY <1>0, <5>1, <5>2
      <4> HIDE DEF next
      <4>5. c \in Behind(first, BlocksOf(text)[next])
        BY <3>10, <3>15 DEF next
      <4> DEFINE RT == BlocksOf(text)[next]
                 RL == Ended \cup BlocksOf(rest)[s + 1]
      <4>6. RT \in SUBSET Results /\ RL \in SUBSET Results
        BY <3>11, <3>12, <4>4, ResultsOf
      <4>7. \A r \in RT : r.ends => \E o \in RL : Extends(r, o, blocks)
        <5> TAKE r \in RT
        <5>1. TailRead(r, blocks)
          BY <4>4, RestIsRead
        <5>2. PICK o \in Ended : o.chain = <<>>
          BY DEF Ended
        <5>3. Extends(r, o, blocks)
          BY <4>6, <5>1, <5>2, TailExtends
        <5> QED BY <5>3
      <4> HIDE DEF RT, RL
      <4>8. \E old \in Behind(first, RL) : Extends(c, old, blocks)
        BY <3>4, <4>5, <4>6, <4>7, Onwards DEF RT
      <4> QED BY <3>7, <3>15, <4>8 DEF RL
    <3> QED BY <1>0, <3>5, <3>6, <3>13, <3>14, <3>15
  <2> QED BY <2>3, <2>4
<1>5. s = L + 1 \/ s <= L
  <2> HIDE DEF s, L
  <2> QED BY <1>0, <1>1
<1> QED BY <1>3, <1>4, <1>5

(* From every place of the earlier text on, what is read goes on from what *)
(* was read of it: by induction from its end.                              *)
LEMMA CarriedFrom ==
    ASSUME NEW text \in Texts, NEW rest \in Texts, GoesOn(text, rest), Closed(rest),
           NEW pos, NEW blocks \in Seq(FullBlocks), RestOfChain(text, Len(rest), pos, blocks)
    PROVE  \A i \in 1 .. Len(rest) + 1 : Carried(text, rest, blocks, i)
<1> DEFINE L == Len(rest)
           S == {i \in 1 .. L + 1 : Carried(text, rest, blocks, i)}
<1>0. L \in Nat
  BY DEF Texts
<1>1. ASSUME NEW i \in 1 .. L + 1, i + 1 .. L + 1 \subseteq S PROVE i \in S
  <2>1. CASE i = L + 1
    BY <2>1, CarriedBehind
  <2>2. CASE i # L + 1
    <3>1. i \in 1 .. Len(rest)
      BY <1>0, <2>2
    <3>2. \A j \in i + 1 .. Len(rest) + 1 : Carried(text, rest, blocks, j)
      BY <1>1
    <3> QED BY <3>1, <3>2, CarriedBack
  <2> QED BY <2>1, <2>2
<1>2. 1 \in Int /\ L + 1 \in Int
  BY <1>0
<1> HIDE DEF S
<1>3. 1 .. L + 1 \subseteq S
  BY <1>1, <1>2, InductDown
<1> QED BY <1>3 DEF S

(* The chain that is read from a file to which a text was added.           *)
LEMMA AddedChain ==
    ASSUME NEW text \in Texts, NEW rest \in Texts, GoesOn(text, rest), Closed(rest),
           NEW pos, NEW blocks \in Seq(FullBlocks), RestOfChain(text, Len(rest), pos, blocks),
           NEW c \in ParseChain(text), c.ends
    PROVE  \E old \in ParseChain(rest) : Extends(c, old, blocks)
<1>1. 1 \in 1 .. Len(rest) + 1
  BY DEF Texts
<1>2. Carried(text, rest, blocks, 1)
  BY <1>1, CarriedFrom
<1> QED BY <1>2, ChainByBody DEF Carried

-----------------------------------------------------------------------------
(* What is written.                                                        *)

(* A text and one token more.                                              *)
LEMMA OneMore ==
    ASSUME NEW s \in Seq(Tokens), NEW n, n = Len(s), NEW e \in Tokens
    PROVE  /\ s \o <<e>> \in Seq(Tokens) /\ Len(s \o <<e>>) = n + 1 /\ (s \o <<e>>)[n + 1] = e
           /\ \A x \in 1 .. n : (s \o <<e>>)[x] = s[x]
<1>1. <<e>> \in Seq(Tokens) /\ Len(<<e>>) = 1 /\ <<e>>[1] = e
  OBVIOUS
<1> QED BY <1>1

(* Transactions.                                                           *)
LEMMA TxsWritten ==
    ASSUME NEW data \in Seq(Int), NEW n, n = Len(data)
    PROVE  /\ TxsText(data) \in Texts /\ Len(TxsText(data)) = 2 * n + 1
           /\ \A k \in 1 .. n : TxsText(data)[2 * k - 1] = Tx(data[k]) /\ TxsText(data)[2 * k] = Bar
           /\ TxsText(data)[2 * n + 1] = Dash
<1> DEFINE seqs == [i \in DOMAIN data |-> <<Tx(data[i]), Bar>>]
           pos == [i \in 1 .. n + 1 |-> 2 * i - 1]
           flat == FlattenSeq(seqs)
<1>0. n \in Nat /\ DOMAIN data = 1 .. n
  OBVIOUS
<1>1. \A i \in 1 .. n : Tx(data[i]) \in Tokens /\ Bar \in Tokens
  BY Kinds
<1>2. seqs \in Seq(Seq(Tokens)) /\ Len(seqs) = n
  <2>1. \A i \in 1 .. n : <<Tx(data[i]), Bar>> \in Seq(Tokens)
    BY <1>1
  <2> QED BY <1>0, <2>1
<1>3. \A i \in 1 .. n : seqs[i] = <<Tx(data[i]), Bar>>
  BY <1>0
<1> HIDE DEF seqs
<1>4. \A b \in 1 .. n : Len(seqs[b]) = 2 /\ seqs[b][1] = Tx(data[b]) /\ seqs[b][2] = Bar
  <2> TAKE b \in 1 .. n
  <2> DEFINE x == Tx(data[b])
  <2>1. seqs[b] = <<x, Bar>>
    BY <1>3
  <2> HIDE DEF x
  <2>2. Len(<<x, Bar>>) = 2 /\ <<x, Bar>>[1] = x /\ <<x, Bar>>[2] = Bar
    OBVIOUS
  <2> QED BY <2>1, <2>2 DEF x
<1> HIDE <1>3
<1>5. Placed(seqs, pos)
  <2>1. pos \in [1 .. n + 1 -> Nat] /\ pos[1] = 1
    BY <1>0
  <2>2. \A b \in 1 .. n : pos[b + 1] = pos[b] + 2
    BY <1>0
  <2> HIDE DEF pos
  <2> QED BY <1>2, <1>4, <2>1, <2>2 DEF Placed
<1>6. /\ flat \in Seq(Tokens) /\ Len(flat) = pos[n + 1] - 1
      /\ \A b \in 1 .. n : \A x \in 1 .. 2 : flat[pos[b] + x - 1] = seqs[b][x]
  <2> HIDE DEF pos
  <2>1. /\ flat \in Seq(Tokens) /\ Len(flat) = pos[Len(seqs) + 1] - 1
        /\ \A b \in 1 .. Len(seqs) : \A x \in 1 .. Len(seqs[b]) : flat[pos[b] + x - 1] = seqs[b][x]
    BY <1>2, <1>5, Flat
  <2> HIDE DEF flat
  <2>2. \A b \in 1 .. n : \A x \in 1 .. 2 : flat[pos[b] + x - 1] = seqs[b][x]
    BY <1>2, <1>4, <2>1
  <2> QED BY <1>2, <2>1, <2>2
<1> HIDE DEF flat
<1>7. Len(flat) = 2 * n
  BY <1>0, <1>6
<1>8. ASSUME NEW k \in 1 .. n PROVE flat[2 * k - 1] = Tx(data[k]) /\ flat[2 * k] = Bar
  <2>1. pos[k] = 2 * k - 1 /\ pos[k] + 1 - 1 = 2 * k - 1 /\ pos[k] + 2 - 1 = 2 * k
    BY <1>0
  <2> HIDE DEF pos
  <2>2. flat[pos[k] + 1 - 1] = seqs[k][1] /\ flat[pos[k] + 2 - 1] = seqs[k][2]
    BY <1>6
  <2> QED BY <1>4, <2>1, <2>2
<1>9. TxsText(data) = flat \o <<Dash>>
  BY DEF TxsText, flat, seqs
<1> DEFINE t == flat \o <<Dash>>
<1>10. t \in Seq(Tokens) /\ Len(t) = 2 * n + 1 /\ t[2 * n + 1] = Dash /\ \A x \in 1 .. 2 * n : t[x] = flat[x]
  <2>1. flat \in Seq(Tokens) /\ 2 * n = Len(flat) /\ Dash \in Tokens
    BY <1>6, <1>7, Kinds
  <2> QED BY ONLY <2>1, OneMore DEF t
<1> HIDE DEF t
<1>11. \A k \in 1 .. n : t[2 * k - 1] = Tx(data[k]) /\ t[2 * k] = Bar
  <2> TAKE k \in 1 .. n
  <2>1. 2 * k - 1 \in 1 .. 2 * n /\ 2 * k \in 1 .. 2 * n
    BY <1>0
  <2> QED BY <1>8, <1>10, <2>1
<1> QED BY <1>9, <1>10, <1>11 DEF t, Texts

(* A block and what is behind it, from p.                                  *)
BlockAt(text, p, b) ==
    LET n == Len(b.data)
    IN  /\ text[p] = Header(b.id)
        /\ \A k \in 1 .. n : text[p + 2 * k - 1] = Tx(b.data[k]) /\ text[p + 2 * k] = Bar
        /\ text[p + 2 * n + 1] = Dash /\ text[p + 2 * n + 2] = Slash

(* The layout of the text of a block.                                      *)
LEMMA BlockWritten ==
    ASSUME NEW b \in Blocks, NEW n, n = Len(b.data), NEW t, t = BlockText(b) \o <<Slash>>
    PROVE  t \in Texts /\ Len(t) = 2 * n + 3 /\ BlockAt(t, 1, b)
<1> DEFINE u == TxsText(b.data)
<1>0. b.data \in Seq(Int) /\ b.id \in Int
  BY DEF Blocks
<1>1. n \in Nat
  BY <1>0
<1>2. /\ u \in Seq(Tokens) /\ Len(u) = 2 * n + 1
      /\ \A k \in 1 .. n : u[2 * k - 1] = Tx(b.data[k]) /\ u[2 * k] = Bar
      /\ u[2 * n + 1] = Dash
  BY <1>0, TxsWritten DEF Texts
<1>3. t = (<<Header(b.id)>> \o u) \o <<Slash>>
  BY DEF BlockText
<1>4. Header(b.id) \in Tokens /\ Slash \in Tokens
  BY <1>0, Kinds
<1> HIDE DEF u
<1> DEFINE v == <<Header(b.id)>> \o u
<1>5. /\ v \in Seq(Tokens) /\ Len(v) = 2 * n + 2 /\ v[1] = Header(b.id)
      /\ \A x \in 1 .. 2 * n + 1 : v[x + 1] = u[x]
  BY <1>1, <1>2, <1>4, SMTT(30)
<1>6. t = v \o <<Slash>>
  BY <1>3
<1> HIDE DEF v
<1>7. /\ t \in Seq(Tokens) /\ Len(t) = 2 * n + 3 /\ t[2 * n + 3] = Slash
      /\ \A x \in 1 .. 2 * n + 2 : t[x] = v[x]
  <2>1. v \in Seq(Tokens) /\ 2 * n + 2 = Len(v) /\ Slash \in Tokens
    BY <1>4, <1>5
  <2>2. (2 * n + 2) + 1 = 2 * n + 3
    BY <1>1
  <2>3. /\ v \o <<Slash>> \in Seq(Tokens) /\ Len(v \o <<Slash>>) = (2 * n + 2) + 1
        /\ (v \o <<Slash>>)[(2 * n + 2) + 1] = Slash
        /\ \A x \in 1 .. 2 * n + 2 : (v \o <<Slash>>)[x] = v[x]
    BY ONLY <2>1, OneMore
  <2> QED BY <1>6, <2>2, <2>3
<1>8. t[1] = Header(b.id)
  BY <1>1, <1>5, <1>7
<1>9. ASSUME NEW k \in 1 .. n PROVE t[1 + 2 * k - 1] = Tx(b.data[k]) /\ t[1 + 2 * k] = Bar
  <2>1. 1 + 2 * k - 1 = (2 * k - 1) + 1 /\ 1 + 2 * k = 2 * k + 1
    BY <1>1
  <2>2. 2 * k - 1 \in 1 .. 2 * n + 1 /\ 2 * k \in 1 .. 2 * n + 1 /\ (2 * k - 1) + 1 \in 1 .. 2 * n + 2 /\ 2 * k + 1 \in 1 .. 2 * n + 2
    BY <1>1
  <2>3. t[(2 * k - 1) + 1] = u[2 * k - 1] /\ t[2 * k + 1] = u[2 * k]
    BY <1>5, <1>7, <2>2
  <2> QED BY <1>2, <2>1, <2>3
<1>10. t[1 + 2 * n + 1] = Dash /\ t[1 + 2 * n + 2] = Slash
  <2>1. 1 + 2 * n + 1 = (2 * n + 1) + 1 /\ 1 + 2 * n + 2 = 2 * n + 3
    BY <1>1
  <2>2. 2 * n + 1 \in 1 .. 2 * n + 1 /\ (2 * n + 1) + 1 \in 1 .. 2 * n + 2
    BY <1>1
  <2>3. t[(2 * n + 1) + 1] = u[2 * n + 1]
    BY <1>5, <1>7, <2>2
  <2> QED BY <1>2, <1>7, <2>1, <2>3
<1> QED BY <1>7, <1>8, <1>9, <1>10 DEF BlockAt, Texts

(* A chain.                                                                *)
Laid(text, pos, blocks) ==
    /\ pos \in [1 .. Len(blocks) + 1 -> Nat]
    /\ pos[1] = 1 /\ pos[Len(blocks) + 1] = Len(text)
    /\ \A b \in 1 .. Len(blocks) :
           pos[b + 1] = pos[b] + 2 * Len(blocks[b].data) + 3 /\ BlockAt(text, pos[b], blocks[b])
    /\ text[Len(text)] = Star

(* The layout of the text of a chain.                                      *)
LEMMA ChainWritten ==
    ASSUME NEW blocks \in Seq(Blocks)
    PROVE  ChainText(blocks) \in Texts /\ \E pos : Laid(ChainText(blocks), pos, blocks)
<1> DEFINE m == Len(blocks)
           seqs == [i \in DOMAIN blocks |-> BlockText(blocks[i]) \o <<Slash>>]
           flat == FlattenSeq(seqs)
           t == flat \o <<Star>>
<1>0. m \in Nat /\ DOMAIN blocks = 1 .. m
  OBVIOUS
<1>1. \A i \in 1 .. m : blocks[i] \in Blocks /\ Len(blocks[i].data) \in Nat
  <2> TAKE i \in 1 .. m
  <2>1. blocks[i] \in Blocks
    OBVIOUS
  <2> QED BY <2>1 DEF Blocks
<1>2. \A i \in 1 .. m : seqs[i] = BlockText(blocks[i]) \o <<Slash>>
  BY <1>0
<1>3. DOMAIN seqs = 1 .. m
  BY <1>0
<1> HIDE DEF seqs
<1>4. \A i \in 1 .. m : /\ seqs[i] \in Seq(Tokens) /\ Len(seqs[i]) = 2 * Len(blocks[i].data) + 3
                        /\ BlockAt(seqs[i], 1, blocks[i])
  <2> TAKE i \in 1 .. m
  <2> QED BY <1>1, <1>2, BlockWritten DEF Texts
<1>5. seqs \in Seq(Seq(Tokens)) /\ Len(seqs) = m
  <2> HIDE DEF m
  <2>1. seqs = [i \in 1 .. m |-> seqs[i]]
    BY DEF seqs, m
  <2> QED BY <1>0, <1>4, <2>1
<1>6. PICK pos : Placed(seqs, pos)
  BY <1>5, PlacesExist
<1>7. /\ flat \in Seq(Tokens) /\ Len(flat) = pos[m + 1] - 1
      /\ \A b \in 1 .. m : \A x \in 1 .. Len(seqs[b]) : flat[pos[b] + x - 1] = seqs[b][x]
  BY <1>5, <1>6, Flat
<1>8. /\ pos \in [1 .. m + 1 -> Nat] /\ pos[1] = 1
      /\ \A b \in 1 .. m : pos[b + 1] = pos[b] + (2 * Len(blocks[b].data) + 3)
  BY <1>4, <1>5, <1>6 DEF Placed
<1>9. ChainText(blocks) = t
  BY DEF ChainText, seqs
<1> HIDE DEF flat, m
<1>10. /\ t \in Seq(Tokens) /\ Len(t) = Len(flat) + 1 /\ t[Len(t)] = Star
       /\ \A x \in 1 .. Len(flat) : t[x] = flat[x]
  <2>1. <<Star>> \in Seq(Tokens)
    BY Kinds
  <2> QED BY <1>7, <2>1
<1> HIDE DEF t
<1>11. Len(t) = pos[m + 1] /\ pos[m + 1] \in Nat
  <2>1. pos[m + 1] \in Nat
    BY <1>0, <1>8
  <2> QED BY <1>7, <1>10, <2>1
<1>12. ASSUME NEW b \in 1 .. m + 1 PROVE pos[b] <= pos[m + 1] /\ pos[b] >= 1
  <2> DEFINE S == {k \in 1 .. m + 1 : pos[k] <= pos[m + 1]}
             R == {k \in 1 .. m + 1 : pos[k] >= 1}
  <2>0. ASSUME NEW k \in 1 .. m PROVE pos[k + 1] \in Nat /\ pos[k] \in Nat /\ pos[k + 1] >= pos[k]
    <3> DEFINE j == Len(blocks[k].data)
    <3>1. j \in Nat /\ pos[k + 1] = pos[k] + (2 * j + 3) /\ pos[k] \in Nat
      BY <1>0, <1>1, <1>8 DEF m
    <3> HIDE DEF j
    <3> QED BY <3>1
  <2>1. ASSUME NEW k \in 1 .. m + 1, k + 1 .. m + 1 \subseteq S PROVE k \in S
    <3>1. CASE k = m + 1
      BY <1>11, <3>1
    <3>2. CASE k # m + 1
      <4>1. k \in 1 .. m /\ k + 1 \in S
        BY <1>0, <2>1, <3>2
      <4> QED BY <1>11, <2>0, <4>1
    <3> QED BY <3>1, <3>2
  <2>2. 1 \in Int /\ m + 1 \in Int
    BY <1>0
  <2>3. 1 \in R
    BY <1>0, <1>8
  <2>4. ASSUME NEW k \in 1 .. (m + 1) - 1, k \in R PROVE k + 1 \in R
    <3>1. k \in 1 .. m /\ k + 1 \in 1 .. m + 1
      BY <1>0
    <3> QED BY <2>0, <2>4, <3>1
  <2> HIDE DEF S, R
  <2>5. 1 .. m + 1 \subseteq S /\ 1 .. m + 1 \subseteq R
    BY <2>1, <2>2, <2>3, <2>4, InductDown, InductTo
  <2> QED BY <2>5 DEF S, R
<1>13. ASSUME NEW b \in 1 .. m PROVE BlockAt(t, pos[b], blocks[b])
  <2> DEFINE p == pos[b]
             blk == blocks[b]
             n == Len(blk.data)
             s == seqs[b]
  <2>1. p \in Nat /\ p >= 1 /\ p + (2 * n + 3) <= pos[m + 1] /\ n \in Nat /\ n = Len(blk.data)
    <3>1. b + 1 \in 1 .. m + 1 /\ b \in 1 .. m + 1
      BY <1>0
    <3> QED BY <1>1, <1>8, <1>12, <3>1
  <2>2. BlockAt(s, 1, blk) /\ Len(s) = 2 * n + 3
    BY <1>4
  <2>3. \A x \in 1 .. Len(s) : flat[p + x - 1] = s[x]
    BY <1>7
  <2> HIDE DEF p, blk, n, s
  <2>4. \A x \in 1 .. 2 * n + 3 : t[p + x - 1] = s[x]
    <3> TAKE x \in 1 .. 2 * n + 3
    <3>1. p + x - 1 \in 1 .. Len(flat)
      <4>1. p + x - 1 \in 1 .. pos[m + 1] - 1
        BY <1>11, <2>1
      <4> QED BY <1>7, <4>1
    <3> QED BY <1>10, <2>2, <2>3, <3>1
  <2>5. t[p] = Header(blk.id)
    <3>1. 1 \in 1 .. 2 * n + 3 /\ p + 1 - 1 = p
      BY ONLY <2>1
    <3>2. t[p + 1 - 1] = s[1]
      BY <2>4, <3>1
    <3> QED BY <2>2, <3>1, <3>2 DEF BlockAt
  <2>6. ASSUME NEW k \in 1 .. n PROVE t[p + 2 * k - 1] = Tx(blk.data[k]) /\ t[p + 2 * k] = Bar
    <3>1. /\ 1 + 2 * k - 1 \in 1 .. 2 * n + 3 /\ p + (1 + 2 * k - 1) - 1 = p + 2 * k - 1
          /\ 1 + 2 * k \in 1 .. 2 * n + 3 /\ p + (1 + 2 * k) - 1 = p + 2 * k
      BY ONLY <2>1, <2>6
    <3>2. s[1 + 2 * k - 1] = Tx(blk.data[k]) /\ s[1 + 2 * k] = Bar
      BY <2>1, <2>2 DEF BlockAt
    <3> QED BY <2>4, <3>1, <3>2
  <2>7. t[p + 2 * n + 1] = Dash /\ t[p + 2 * n + 2] = Slash
    <3>1. /\ 1 + 2 * n + 1 \in 1 .. 2 * n + 3 /\ p + (1 + 2 * n + 1) - 1 = p + 2 * n + 1
          /\ 1 + 2 * n + 2 \in 1 .. 2 * n + 3 /\ p + (1 + 2 * n + 2) - 1 = p + 2 * n + 2
      BY ONLY <2>1
    <3>2. s[1 + 2 * n + 1] = Dash /\ s[1 + 2 * n + 2] = Slash
      BY <2>1, <2>2 DEF BlockAt
    <3> QED BY <2>4, <3>1, <3>2
  <2>8. BlockAt(t, p, blk)
    BY <2>1, <2>5, <2>6, <2>7 DEF BlockAt
  <2> QED BY <2>8 DEF p, blk
<1>14. Laid(t, pos, blocks)
  <2>1. \A b \in 1 .. m : pos[b + 1] = pos[b] + 2 * Len(blocks[b].data) + 3
    <3> TAKE b \in 1 .. m
    <3> DEFINE j == Len(blocks[b].data)
    <3>1. j \in Nat /\ pos[b + 1] = pos[b] + (2 * j + 3) /\ pos[b] \in Nat
      BY <1>0, <1>1, <1>8
    <3> HIDE DEF j
    <3>2. pos[b + 1] = pos[b] + 2 * j + 3
      BY <3>1
    <3> QED BY <3>2 DEF j
  <2> QED BY <1>8, <1>10, <1>11, <1>13, <2>1 DEF Laid, m
<1> QED BY <1>9, <1>10, <1>14 DEF Texts

-----------------------------------------------------------------------------
(* What is left of a text t, behind another text: d further on.            *)
Shifted(text, L, t, d) ==
    /\ L \in 0 .. Len(text) /\ d \in Int /\ d <= L /\ Len(text) = Len(t) + d
    /\ \A x \in L + 1 .. Len(text) :
           \/ text[x] = t[x - d]
           \/ x = L + 1 /\ t[x - d][1] \in Lossy /\ text[x] = <<t[x - d][1], 0>>

(* The second part of a text that was put together of two.                 *)
Joined(text, rest, more) ==
    /\ Len(text) = Len(rest) + Len(more)
    /\ \A x \in Len(rest) + 1 .. Len(text) : text[x] = more[x - Len(rest)]

(* A text behind another.                                                  *)
LEMMA JoinedWith ==
    ASSUME NEW rest \in Texts, NEW more \in Texts
    PROVE  /\ rest \o more \in Texts /\ GoesOn(rest \o more, rest)
           /\ Joined(rest \o more, rest, more)
<1> DEFINE text == rest \o more
<1>1. rest \in Seq(Tokens) /\ more \in Seq(Tokens)
  BY DEF Texts
<1> DEFINE l == Len(rest)
           k == Len(more)
<1>2. l \in Nat /\ k \in Nat
  BY <1>1
<1>3. /\ text \in Seq(Tokens) /\ Len(text) = l + k
      /\ \A x \in 1 .. l + k : text[x] = IF x <= l THEN rest[x] ELSE more[x - l]
  BY ONLY <1>1, ConcatProperties
<1> HIDE DEF text
<1>4. Len(rest) = l /\ Len(more) = k
  OBVIOUS
<1> HIDE DEF l, k
<1>5. \A x \in 1 .. l : x \in 1 .. l + k /\ x <= l
  BY <1>2
<1>6. \A x \in l + 1 .. l + k : x \in 1 .. l + k /\ ~(x <= l)
  BY <1>2
<1>7. l \in 0 .. l + k
  BY <1>2
<1>8. text \in Texts /\ GoesOn(text, rest) /\ Joined(text, rest, more)
  BY <1>3, <1>4, <1>5, <1>6, <1>7 DEF GoesOn, Joined, Texts
<1> QED BY <1>8 DEF text

(* What is left of a text is an end of it, whose first token may have lost *)
(* its number.                                                             *)
LEMMA RemainderOf ==
    ASSUME NEW t \in Texts, NEW more \in Remainders(t)
    PROVE  /\ more \in Texts
           /\ \E e \in 0 .. Len(t) :
                  /\ Len(more) = Len(t) - e
                  /\ \A x \in 1 .. Len(more) :
                         \/ more[x] = t[x + e]
                         \/ x = 1 /\ t[x + e][1] \in Lossy /\ more[x] = <<t[x + e][1], 0>>
<1> DEFINE n == Len(t)
<1>0. n \in Nat /\ t \in Seq(Tokens) /\ DOMAIN t = 1 .. n
  BY DEF Texts
<1>1. ASSUME NEW i \in 1 .. n
      PROVE  /\ SubSeq(t, i + 1, n) \in Seq(Tokens) /\ Len(SubSeq(t, i + 1, n)) = n - i
             /\ \A x \in 1 .. n - i : SubSeq(t, i + 1, n)[x] = t[x + i]
  <2> HIDE DEF n
  <2>1. \A y \in i + 1 .. n : t[y] \in Tokens
    BY <1>0
  <2>2. i + 1 \in Int /\ n \in Int
    BY <1>0
  <2>3. /\ SubSeq(t, i + 1, n) \in Seq(Tokens)
        /\ Len(SubSeq(t, i + 1, n)) = IF i + 1 <= n THEN n - (i + 1) + 1 ELSE 0
        /\ \A x \in 1 .. n - (i + 1) + 1 : SubSeq(t, i + 1, n)[x] = t[(i + 1) + x - 1]
    BY ONLY <2>1, <2>2, SubSeqProperties
  <2>4. (IF i + 1 <= n THEN n - (i + 1) + 1 ELSE 0) = n - i /\ n - (i + 1) + 1 = n - i
    BY <1>0
  <2>5. \A x \in 1 .. n - i : (i + 1) + x - 1 = x + i
    BY <1>0
  <2> QED BY <2>3, <2>4, <2>5
<1>2. CASE \E i \in DOMAIN t : more = SubSeq(t, i + 1, Len(t))
  <2>1. PICK i \in 1 .. n : more = SubSeq(t, i + 1, n)
    BY <1>0, <1>2
  <2>2. i \in 0 .. n
    BY <1>0
  <2>3. more \in Seq(Tokens) /\ Len(more) = n - i /\ \A x \in 1 .. n - i : more[x] = t[x + i]
    BY <1>1, <2>1
  <2> QED BY <2>2, <2>3 DEF Texts
<1>3. CASE \E i \in {j \in DOMAIN t : t[j][1] \in Lossy} :
               more = <<<<t[i][1], 0>>>> \o SubSeq(t, i + 1, Len(t))
  <2>1. PICK i \in 1 .. n : t[i][1] \in Lossy /\ more = <<<<t[i][1], 0>>>> \o SubSeq(t, i + 1, n)
    BY <1>0, <1>3
  <2> DEFINE s == SubSeq(t, i + 1, n)
             h == <<t[i][1], 0>>
  <2>2. s \in Seq(Tokens) /\ Len(s) = n - i /\ \A x \in 1 .. n - i : s[x] = t[x + i]
    BY <1>1
  <2>3. h \in Tokens
    <3>1. h = Tx(0) \/ h = Header(0)
      BY <2>1 DEF Lossy, Tx, Header
    <3> QED BY <3>1, Kinds
  <2>4. more = <<h>> \o s
    BY <2>1
  <2>5. i - 1 \in 0 .. n /\ n - i \in Nat
    BY <1>0
  <2> HIDE DEF s, h, n
  <2>6. more \in Seq(Tokens) /\ Len(more) = 1 + (n - i) /\ more[1] = h /\ \A x \in 1 .. n - i : more[x + 1] = s[x]
    <3> DEFINE k == n - i
               a == <<h>>
    <3>1. a \in Seq(Tokens) /\ Len(a) = 1 /\ a[1] = h /\ k \in Nat /\ Len(s) = k /\ s \in Seq(Tokens)
      BY <2>2, <2>3, <2>5
    <3>2. more = a \o s
      BY <2>4
    <3> HIDE DEF a, k
    <3>3. /\ more \in Seq(Tokens) /\ Len(more) = 1 + k
          /\ \A x \in 1 .. 1 + k : more[x] = IF x <= 1 THEN a[x] ELSE s[x - 1]
      <4>1. /\ a \o s \in Seq(Tokens) /\ Len(a \o s) = Len(a) + Len(s)
            /\ \A x \in 1 .. Len(a) + Len(s) : (a \o s)[x] = IF x <= Len(a) THEN a[x] ELSE s[x - Len(a)]
        BY ONLY <3>1, ConcatProperties
      <4> QED BY <3>1, <3>2, <4>1
    <3>4. \A x \in 1 .. k : x + 1 \in 1 .. 1 + k /\ ~(x + 1 <= 1) /\ (x + 1) - 1 = x
      BY <3>1
    <3>5. 1 \in 1 .. 1 + k /\ 1 <= 1
      BY <3>1
    <3>6. more[1] = a[1] /\ \A x \in 1 .. k : more[x + 1] = s[x]
      BY <3>3, <3>4, <3>5
    <3> QED BY <3>1, <3>3, <3>6 DEF k
  <2>7. Len(more) = n - (i - 1)
    BY <1>0, <2>6
  <2>8. ASSUME NEW x \in 1 .. Len(more)
        PROVE  \/ more[x] = t[x + (i - 1)]
               \/ x = 1 /\ t[x + (i - 1)][1] \in Lossy /\ more[x] = <<t[x + (i - 1)][1], 0>>
    <3>0. x \in 1 .. n - (i - 1)
      BY <2>7
    <3>1. CASE x = 1
      <4>1. x + (i - 1) = i
        BY <3>1
      <4> QED BY <2>1, <2>6, <3>1, <4>1 DEF h
    <3>2. CASE x # 1
      <4>1. x - 1 \in 1 .. n - i /\ (x - 1) + 1 = x /\ (x - 1) + i = x + (i - 1)
        BY ONLY <1>0, <2>5, <3>0, <3>2, i \in 1 .. n
      <4>2. more[(x - 1) + 1] = s[x - 1] /\ s[x - 1] = t[(x - 1) + i]
        BY <2>2, <2>6, <4>1
      <4> QED BY <4>1, <4>2
    <3> QED BY <3>1, <3>2
  <2> QED BY <2>5, <2>6, <2>7, <2>8 DEF Texts, n
<1> QED BY <1>2, <1>3 DEF Remainders

(* What is left of a text, behind another: every token is the same         *)
(* distance from where it was.                                             *)
LEMMA RemainderShifts ==
    ASSUME NEW rest \in Texts, NEW t \in Texts, NEW more \in Remainders(t), NEW text, text = rest \o more
    PROVE  /\ text \in Texts /\ GoesOn(text, rest)
           /\ \E d : Shifted(text, Len(rest), t, d)
<1> DEFINE L == Len(rest)
           n == Len(t)
           k == Len(more)
<1>0. L \in Nat /\ n \in Nat
  BY DEF Texts
<1>1. more \in Texts
  BY RemainderOf
<1>2. PICK e \in 0 .. n :
          /\ k = n - e
          /\ \A x \in 1 .. k : \/ more[x] = t[x + e]
                               \/ x = 1 /\ t[x + e][1] \in Lossy /\ more[x] = <<t[x + e][1], 0>>
  BY RemainderOf
<1>3. /\ text \in Texts /\ GoesOn(text, rest) /\ Len(text) = L + k
      /\ \A x \in L + 1 .. Len(text) : text[x] = more[x - L]
  <2>1. text \in Texts /\ GoesOn(text, rest) /\ Joined(text, rest, more)
    BY <1>1, JoinedWith
  <2> QED BY <2>1 DEF Joined
<1> HIDE DEF L, n, k
<1> DEFINE d == L - e
<1>4. L \in 0 .. Len(text) /\ d \in Int /\ d <= L /\ Len(text) = n + d
  BY <1>0, <1>2, <1>3
<1>5. ASSUME NEW x \in L + 1 .. Len(text)
      PROVE  \/ text[x] = t[x - d]
             \/ x = L + 1 /\ t[x - d][1] \in Lossy /\ text[x] = <<t[x - d][1], 0>>
  <2> DEFINE y == x - L
  <2>1. y \in 1 .. k /\ y + e = x - d /\ (y = 1 <=> x = L + 1)
    <3>1. x \in L + 1 .. L + k
      BY <1>3
    <3> QED BY <1>0, <1>2, <3>1
  <2>2. text[x] = more[y]
    BY <1>3
  <2> HIDE DEF y, d
  <2>3. \/ more[y] = t[y + e]
        \/ y = 1 /\ t[y + e][1] \in Lossy /\ more[y] = <<t[y + e][1], 0>>
    BY <1>2, <2>1
  <2> QED BY <2>1, <2>2, <2>3
<1> HIDE DEF d
<1>6. Shifted(text, L, t, d)
  BY <1>4, <1>5 DEF Shifted, n
<1> QED BY <1>3, <1>6 DEF L

(* A token that is at x was at y, or what is left of it.                   *)
Whence(text, L, t, x, y) ==
    text[x] = t[y] \/ (x = L + 1 /\ t[y][1] \in Lossy /\ text[x] = <<t[y][1], 0>>)

(* A token of such a text.                                                 *)
LEMMA ShiftedToken ==
    ASSUME NEW text, NEW L, NEW t, NEW d, Shifted(text, L, t, d), NEW y \in Int,
           y + d > L, y + d <= Len(text), NEW x, x = y + d
    PROVE  Whence(text, L, t, x, y)
<1>1. x \in L + 1 .. Len(text) /\ x - d = y
  BY DEF Shifted
<1> QED BY <1>1 DEF Shifted, Whence

(* A block of such a text is, from L + 1 on, as it was written.            *)
LEMMA ShiftedBlock ==
    ASSUME NEW text \in Texts, NEW L, NEW t, NEW d, Shifted(text, L, t, d),
           NEW p \in Nat, NEW b \in Blocks, BlockAt(t, p, b), NEW n, n = Len(b.data),
           (p + d) + 2 * n + 3 <= Len(text)
    PROVE  BlockRest(text, L, p + d, b)
<1> DEFINE q == p + d
<1>0. n \in Nat /\ d \in Int /\ L \in Int /\ Len(text) \in Nat /\ q \in Int /\ q = p + d /\ q + 2 * n + 3 <= Len(text)
  BY DEF Blocks, Shifted, Texts
<1> HIDE DEF q
<1>1. ASSUME q > L PROVE text[q] = Header(b.id) \/ (q = L + 1 /\ text[q] = Header(0))
  <2>1. t[p] = Header(b.id)
    BY DEF BlockAt
  <2>2. p + d > L /\ p + d <= Len(text)
    BY ONLY <1>0, <1>1, p \in Nat
  <2>3. Whence(text, L, t, q, p)
    BY <1>0, <2>2, ShiftedToken
  <2> QED BY <2>1, <2>3 DEF Header, Whence
<1>2. ASSUME NEW k \in 1 .. n, q + 2 * k - 1 > L
      PROVE  text[q + 2 * k - 1] = Tx(b.data[k]) \/ (q + 2 * k - 1 = L + 1 /\ text[q + 2 * k - 1] = Tx(0))
  <2> DEFINE y == p + 2 * k - 1
             x == q + 2 * k - 1
  <2>1. t[y] = Tx(b.data[k])
    BY DEF BlockAt
  <2>2. y \in Int /\ y + d > L /\ y + d <= Len(text) /\ x = y + d
    BY ONLY <1>0, <1>2, p \in Nat
  <2> HIDE DEF x, y
  <2>3. Whence(text, L, t, x, y)
    BY <2>2, ShiftedToken
  <2>4. text[x] = Tx(b.data[k]) \/ (x = L + 1 /\ text[x] = Tx(0))
    BY <2>1, <2>3 DEF Tx, Whence
  <2> QED BY <2>4 DEF x
<1>3. ASSUME NEW y \in Int, NEW x, x = y + d, x > L, x <= Len(text), t[y] \in {Bar, Dash, Slash}
      PROVE  text[x] = t[y]
  <2>1. Whence(text, L, t, x, y)
    BY <1>3, ShiftedToken
  <2>2. t[y][1] \notin Lossy
    BY <1>3 DEF Bar, Dash, Slash, Lossy
  <2> QED BY <2>1, <2>2 DEF Whence
<1>4. ASSUME NEW k \in 1 .. n, q + 2 * k > L PROVE text[q + 2 * k] = Bar
  <2>1. t[p + 2 * k] = Bar
    BY DEF BlockAt
  <2>2. p + 2 * k \in Int /\ q + 2 * k = (p + 2 * k) + d /\ q + 2 * k > L /\ q + 2 * k <= Len(text)
    BY ONLY <1>0, <1>4, p \in Nat
  <2> QED BY <1>3, <2>1, <2>2
<1>5. ASSUME q + 2 * n + 1 > L PROVE text[q + 2 * n + 1] = Dash
  <2>1. t[p + 2 * n + 1] = Dash
    BY DEF BlockAt
  <2>2. p + 2 * n + 1 \in Int /\ q + 2 * n + 1 = (p + 2 * n + 1) + d /\ q + 2 * n + 1 > L /\ q + 2 * n + 1 <= Len(text)
    BY ONLY <1>0, <1>5, p \in Nat
  <2> QED BY <1>3, <2>1, <2>2
<1>6. ASSUME q + 2 * n + 2 > L PROVE text[q + 2 * n + 2] = Slash
  <2>1. t[p + 2 * n + 2] = Slash
    BY DEF BlockAt
  <2>2. p + 2 * n + 2 \in Int /\ q + 2 * n + 2 = (p + 2 * n + 2) + d /\ q + 2 * n + 2 > L /\ q + 2 * n + 2 <= Len(text)
    BY ONLY <1>0, <1>6, p \in Nat
  <2> QED BY <1>3, <2>1, <2>2
<1>7. BlockRest(text, L, q, b)
  BY <1>1, <1>2, <1>4, <1>5, <1>6 DEF BlockRest
<1> QED BY <1>7 DEF q

(* What is left of the text of a chain is the rest of it.                  *)
LEMMA LeftOfChain ==
    ASSUME NEW text \in Texts, NEW L, NEW t \in Texts, NEW d, Shifted(text, L, t, d),
           NEW blocks \in Seq(Blocks), NEW pos, Laid(t, pos, blocks)
    PROVE  \E at : RestOfChain(text, L, at, blocks)
<1> DEFINE m == Len(blocks)
           at == [b \in 1 .. m + 1 |-> pos[b] + d]
<1>0. /\ m \in Nat /\ d \in Int /\ L \in 0 .. Len(text) /\ L \in Nat /\ Len(text) \in Nat /\ Len(t) \in Nat
      /\ d <= L /\ Len(text) = Len(t) + d
      /\ \A b \in 1 .. m + 1 : pos[b] \in Nat
      /\ pos[1] = 1 /\ pos[m + 1] = Len(t) /\ t[Len(t)] = Star
  <2>1. Len(text) \in Nat /\ Len(t) \in Nat
    BY DEF Texts
  <2>2. d \in Int /\ L \in 0 .. Len(text) /\ d <= L /\ Len(text) = Len(t) + d
    BY DEF Shifted
  <2>3. /\ \A b \in 1 .. m + 1 : pos[b] \in Nat
        /\ pos[1] = 1 /\ pos[m + 1] = Len(t) /\ t[Len(t)] = Star
    BY DEF Laid
  <2> QED BY <2>1, <2>2, <2>3
<1>1. \A b \in 1 .. m : pos[b + 1] = pos[b] + 2 * Len(blocks[b].data) + 3 /\ BlockAt(t, pos[b], blocks[b])
  BY DEF Laid
<1>2. \A b \in 1 .. m : blocks[b] \in Blocks /\ Len(blocks[b].data) \in Nat
  <2> TAKE b \in 1 .. m
  <2>1. blocks[b] \in Blocks
    OBVIOUS
  <2> QED BY <2>1 DEF Blocks
<1>3. \A b \in 1 .. m + 1 : at[b] = pos[b] + d
  OBVIOUS
<1>4. at \in [1 .. m + 1 -> Int] /\ DOMAIN at = 1 .. m + 1
  BY <1>0
<1>13. Len(blocks) = m
  OBVIOUS
<1> HIDE DEF at, m
<1>5. at[1] <= L + 1 /\ at[m + 1] = Len(text)
  <2>1. 1 \in 1 .. m + 1 /\ m + 1 \in 1 .. m + 1
    BY <1>0
  <2> QED BY <1>0, <1>3, <2>1
<1>6. ASSUME NEW b \in 1 .. m PROVE at[b + 1] = at[b] + 2 * Len(blocks[b].data) + 3
  <2> DEFINE n == Len(blocks[b].data)
  <2>1. /\ n \in Nat /\ pos[b + 1] = pos[b] + 2 * n + 3 /\ at[b] = pos[b] + d /\ at[b + 1] = pos[b + 1] + d
        /\ pos[b] \in Nat /\ d \in Int
    <3>1. b \in 1 .. m + 1 /\ b + 1 \in 1 .. m + 1
      BY <1>0
    <3> QED BY <1>0, <1>1, <1>2, <1>3, <3>1
  <2> HIDE DEF n
  <2>2. at[b + 1] = at[b] + 2 * n + 3
    BY ONLY <2>1
  <2> QED BY <2>2 DEF n
<1>7. ASSUME NEW b \in 1 .. m + 1 PROVE at[b] <= Len(text) /\ at[b] \in Int
  <2> DEFINE S == {k \in 1 .. m + 1 : at[k] <= Len(text)}
  <2>1. ASSUME NEW k \in 1 .. m + 1, k + 1 .. m + 1 \subseteq S PROVE k \in S
    <3>1. CASE k = m + 1
      BY <1>0, <1>5, <3>1
    <3>2. CASE k # m + 1
      <4> DEFINE n == Len(blocks[k].data)
      <4>1. k \in 1 .. m /\ k + 1 \in S
        BY <1>0, <2>1, <3>2
      <4>2. n \in Nat /\ at[k + 1] = at[k] + 2 * n + 3 /\ at[k + 1] <= Len(text) /\ at[k] \in Int /\ Len(text) \in Nat
        BY <1>0, <1>2, <1>4, <1>6, <4>1
      <4> HIDE DEF n
      <4>3. at[k] <= Len(text)
        BY ONLY <4>2
      <4> QED BY <4>3
    <3> QED BY <3>1, <3>2
  <2>2. 1 \in Int /\ m + 1 \in Int
    BY <1>0
  <2> HIDE DEF S
  <2>3. 1 .. m + 1 \subseteq S
    BY <2>1, <2>2, InductDown
  <2> QED BY <1>4, <2>3 DEF S
<1>8. ASSUME NEW b \in 1 .. m PROVE BlockRest(text, L, at[b], blocks[b])
  <2> DEFINE n == Len(blocks[b].data)
             p == pos[b]
             blk == blocks[b]
  <2>1. b \in 1 .. m + 1 /\ b + 1 \in 1 .. m + 1
    BY <1>0
  <2>2. at[b] = p + d /\ at[b + 1] = at[b] + 2 * n + 3 /\ at[b + 1] <= Len(text) /\ p \in Nat
    BY <1>0, <1>3, <1>6, <1>7, <2>1
  <2>3. blk \in Blocks /\ BlockAt(t, p, blk) /\ n = Len(blk.data)
    BY <1>1, <1>2
  <2> HIDE DEF n, p, blk
  <2>4. (p + d) + 2 * n + 3 <= Len(text)
    BY <2>2
  <2>5. BlockRest(text, L, p + d, blk)
    BY <2>2, <2>3, <2>4, ShiftedBlock
  <2> QED BY <2>2, <2>5 DEF blk
<1>9. ASSUME Len(text) > L PROVE text[Len(text)] = Star
  <2> DEFINE y == Len(t)
             x == Len(text)
  <2>1. y \in Int /\ y + d > L /\ y + d <= Len(text) /\ x = y + d /\ t[y] = Star
    BY <1>0, <1>9
  <2> HIDE DEF x, y
  <2>2. Whence(text, L, t, x, y)
    BY <2>1, ShiftedToken
  <2>3. text[x] = Star
    BY <2>1, <2>2 DEF Star, Lossy, Whence
  <2> QED BY <2>3 DEF x
<1>10. RestOfChain(text, L, at, blocks)
  BY <1>0, <1>4, <1>5, <1>6, <1>8, <1>9, <1>13 DEF RestOfChain
<1> QED BY <1>10

-----------------------------------------------------------------------------
(* Every "-" of a text of blocks is the last of a block.                   *)
LEMMA DashOfBlock ==
    ASSUME NEW t, NEW p \in Nat, NEW b \in Blocks, BlockAt(t, p, b), NEW n, n = Len(b.data),
           NEW x \in Nat, p <= x, x <= p + 2 * n + 2, t[x] = Dash
    PROVE  x = p + 2 * n + 1
<1>0. n \in Nat
  BY DEF Blocks
<1>1. x # p
  <2> SUFFICES ASSUME x = p PROVE FALSE
    OBVIOUS
  <2>1. t[p] = Header(b.id)
    BY DEF BlockAt
  <2> QED BY <2>1 DEF Header, Dash
<1>2. x # p + 2 * n + 2
  <2> SUFFICES ASSUME x = p + 2 * n + 2 PROVE FALSE
    OBVIOUS
  <2>1. t[p + 2 * n + 2] = Slash
    BY DEF BlockAt
  <2> QED BY <2>1 DEF Slash, Dash
<1>3. ASSUME x <= p + 2 * n PROVE FALSE
  <2>1. PICK k \in 1 .. n : x = p + 2 * k - 1 \/ x = p + 2 * k
    <3>1. CASE (x - p) % 2 = 0
      <4>1. (x - p) \div 2 \in 1 .. n /\ x = p + 2 * ((x - p) \div 2)
        BY ONLY <1>0, <1>1, <1>3, <3>1, p \in Nat, x \in Nat, p <= x
      <4> QED BY <4>1
    <3>2. CASE (x - p) % 2 = 1
      <4>1. ((x - p) + 1) \div 2 \in 1 .. n /\ x = p + 2 * (((x - p) + 1) \div 2) - 1
        BY ONLY <1>0, <1>1, <1>3, <3>2, p \in Nat, x \in Nat, p <= x
      <4> QED BY <4>1
    <3> QED BY ONLY <3>1, <3>2, p \in Nat, x \in Nat, p <= x
  <2>2. t[p + 2 * k - 1] = Tx(b.data[k]) /\ t[p + 2 * k] = Bar
    BY DEF BlockAt
  <2> QED BY <2>1, <2>2 DEF Tx, Bar, Dash
<1> QED BY ONLY <1>0, <1>1, <1>2, <1>3, p \in Nat, x \in Nat, p <= x, x <= p + 2 * n + 2

(* The text of a chain is closed,                                          *)
LEMMA ClosedChain ==
    ASSUME NEW t \in Texts, NEW blocks \in Seq(Blocks), NEW pos, Laid(t, pos, blocks)
    PROVE  Closed(t)
<1> DEFINE m == Len(blocks)
           len == Len(t)
<1>0. /\ m \in Nat /\ len \in Nat /\ pos[1] = 1 /\ pos[m + 1] = len /\ t[len] = Star
      /\ \A b \in 1 .. m + 1 : pos[b] \in Nat
  <2>1. len \in Nat
    BY DEF Texts
  <2>2. /\ pos[1] = 1 /\ pos[m + 1] = len /\ t[len] = Star
        /\ \A b \in 1 .. m + 1 : pos[b] \in Nat
    BY DEF Laid
  <2> QED BY <2>1, <2>2
<1>1. \A b \in 1 .. m : pos[b + 1] = pos[b] + 2 * Len(blocks[b].data) + 3 /\ BlockAt(t, pos[b], blocks[b])
  BY DEF Laid
<1>2. \A b \in 1 .. m : blocks[b] \in Blocks /\ Len(blocks[b].data) \in Nat
  <2> TAKE b \in 1 .. m
  <2>1. blocks[b] \in Blocks
    OBVIOUS
  <2> QED BY <2>1 DEF Blocks
<1> HIDE DEF m
<1>3. ASSUME NEW b \in 1 .. m + 1 PROVE pos[b] <= len
  <2> HIDE DEF len
  <2> DEFINE S == {k \in 1 .. m + 1 : pos[k] <= len}
  <2>1. ASSUME NEW k \in 1 .. m + 1, k + 1 .. m + 1 \subseteq S PROVE k \in S
    <3>1. CASE k = m + 1
      BY <1>0, <3>1
    <3>2. CASE k # m + 1
      <4> DEFINE n == Len(blocks[k].data)
      <4>1. k \in 1 .. m /\ k + 1 \in S
        BY <1>0, <2>1, <3>2
      <4>2. n \in Nat /\ pos[k + 1] = pos[k] + 2 * n + 3 /\ pos[k + 1] <= len /\ pos[k] \in Int /\ len \in Nat
        BY <1>0, <1>1, <1>2, <4>1
      <4> HIDE DEF n
      <4>3. pos[k] <= len
        BY ONLY <4>2
      <4> QED BY <4>3
    <3> QED BY <3>1, <3>2
  <2>2. 1 \in Int /\ m + 1 \in Int
    BY <1>0
  <2> HIDE DEF S
  <2>3. 1 .. m + 1 \subseteq S
    BY <2>1, <2>2, InductDown
  <2> QED BY <2>3 DEF S
<1> SUFFICES ASSUME NEW j \in 1 .. len
             PROVE  /\ t[j] = Dash => j + 1 <= len /\ t[j + 1] = Slash
                    /\ t[j] # Star => \E s \in j .. len : t[s] = Slash
  BY DEF Closed
<1>4. CASE j = len
  <2>1. t[j] = Star /\ t[j] # Dash
    BY <1>0, <1>4 DEF Star, Dash
  <2> QED BY <2>1
<1>5. CASE j # len
  <2> HIDE DEF len
  <2>1. PICK b \in 1 .. m : pos[b] <= j /\ j < pos[b + 1]
    <3> SUFFICES ASSUME \A b \in 1 .. m : ~(pos[b] <= j /\ j < pos[b + 1]) PROVE FALSE
      OBVIOUS
    <3> DEFINE S == {b \in 1 .. m + 1 : pos[b] <= j}
    <3>1. 1 \in S
      BY <1>0
    <3>2. ASSUME NEW b \in 1 .. (m + 1) - 1, b \in S PROVE b + 1 \in S
      <4>1. b \in 1 .. m /\ b + 1 \in 1 .. m + 1 /\ pos[b] \in Int /\ pos[b + 1] \in Int /\ j \in Int
        BY <1>0
      <4> QED BY <3>2, <4>1
    <3>3. 1 \in Int /\ m + 1 \in Int
      BY <1>0
    <3> HIDE DEF S
    <3>4. 1 .. m + 1 \subseteq S
      BY <3>1, <3>2, <3>3, InductTo
    <3>5. m + 1 \in S
      BY <1>0, <3>4
    <3> QED BY <1>0, <1>5, <3>5 DEF S
  <2> DEFINE p == pos[b]
             blk == blocks[b]
             n == Len(blk.data)
  <2>2. p \in Nat /\ n \in Nat /\ p <= j /\ j < p + 2 * n + 3 /\ p + 2 * n + 3 <= len
    <3>1. b \in 1 .. m + 1 /\ b + 1 \in 1 .. m + 1
      BY <1>0
    <3>2. pos[b + 1] <= len /\ pos[b + 1] = p + 2 * n + 3
      BY <1>1, <1>3, <3>1
    <3> QED BY <1>0, <1>2, <2>1, <3>1, <3>2
  <2>3. BlockAt(t, p, blk) /\ blk \in Blocks /\ n = Len(blk.data)
    BY <1>1, <1>2
  <2> HIDE DEF p, blk, n
  <2>4. t[p + 2 * n + 2] = Slash
    BY <2>3 DEF BlockAt
  <2>5. p + 2 * n + 2 \in j .. len
    BY ONLY <1>0, <2>2, j \in 1 .. len
  <2>6. t[j] = Dash => j + 1 = p + 2 * n + 2
    <3> SUFFICES ASSUME t[j] = Dash PROVE j + 1 = p + 2 * n + 2
      OBVIOUS
    <3>1. j \in Nat /\ p <= j /\ j <= p + 2 * n + 2
      BY ONLY <1>0, <2>2, j \in 1 .. len
    <3>2. j = p + 2 * n + 1
      BY <2>2, <2>3, <3>1, DashOfBlock
    <3> QED BY ONLY <2>2, <3>2
  <2>7. p + 2 * n + 2 <= len
    BY ONLY <1>0, <2>2
  <2> QED BY <2>4, <2>5, <2>6, <2>7
<1> QED BY <1>4, <1>5

(* and so is what is left of a closed text behind a closed text.           *)
LEMMA ClosedOn ==
    ASSUME NEW text \in Texts, NEW rest \in Texts, NEW t \in Texts, NEW d,
           GoesOn(text, rest), Closed(rest), Closed(t), Shifted(text, Len(rest), t, d)
    PROVE  Closed(text)
<1> DEFINE L == Len(rest)
           len == Len(text)
           n == Len(t)
<1>0. L \in Nat /\ len \in Nat /\ n \in Nat /\ L <= len /\ d \in Int /\ d <= L /\ len = n + d
  BY DEF GoesOn, Shifted, Texts
<1>1. \A x \in 1 .. L : text[x] = rest[x]
  BY DEF GoesOn
<1>2. ASSUME NEW x \in L + 1 .. len PROVE Whence(text, L, t, x, x - d) /\ x - d \in 1 .. n
  <2>1. x - d \in Int /\ (x - d) + d > L /\ (x - d) + d <= Len(text) /\ x = (x - d) + d
    BY <1>0
  <2>2. Whence(text, L, t, x, x - d)
    BY <2>1, ShiftedToken
  <2> HIDE DEF L, len, n
  <2> QED BY <1>0, <2>2
<1>3. \A j \in 1 .. L : /\ rest[j] = Dash => j + 1 <= L /\ rest[j + 1] = Slash
                        /\ rest[j] # Star => \E s \in j .. L : rest[s] = Slash
  BY DEF Closed
<1>4. \A j \in 1 .. n : /\ t[j] = Dash => j + 1 <= n /\ t[j + 1] = Slash
                        /\ t[j] # Star => \E s \in j .. n : t[s] = Slash
  BY DEF Closed
<1> SUFFICES ASSUME NEW j \in 1 .. len
             PROVE  /\ text[j] = Dash => j + 1 <= len /\ text[j + 1] = Slash
                    /\ text[j] # Star => \E s \in j .. len : text[s] = Slash
  BY DEF Closed
<1> HIDE DEF L, len, n
<1>5. CASE j \in 1 .. L
  <2>1. text[j] = Dash => j + 1 <= len /\ text[j + 1] = Slash
    <3> SUFFICES ASSUME text[j] = Dash PROVE j + 1 <= len /\ text[j + 1] = Slash
      OBVIOUS
    <3>1. j + 1 <= L /\ rest[j + 1] = Slash
      BY <1>1, <1>3, <1>5
    <3> QED BY <1>0, <1>1, <3>1
  <2>2. text[j] # Star => \E s \in j .. len : text[s] = Slash
    <3> SUFFICES ASSUME text[j] # Star PROVE \E s \in j .. len : text[s] = Slash
      OBVIOUS
    <3>1. PICK s \in j .. L : rest[s] = Slash
      BY <1>1, <1>3, <1>5
    <3>2. s \in 1 .. L /\ s \in j .. len
      BY <1>0
    <3> QED BY <1>1, <3>1, <3>2
  <2> QED BY <2>1, <2>2
<1>6. CASE j \in L + 1 .. len
  <2>1. Whence(text, L, t, j, j - d) /\ j - d \in 1 .. n
    BY <1>2, <1>6
  <2>2. ASSUME NEW s \in j + 1 .. len PROVE text[s] = t[s - d]
    <3>1. s \in L + 1 .. len /\ s # L + 1
      BY <1>0, <1>6
    <3> QED BY <1>2, <3>1 DEF Whence
  <2>3. text[j] = t[j - d] \/ (t[j - d][1] \in Lossy /\ text[j] = <<t[j - d][1], 0>>)
    BY <2>1 DEF Whence
  <2>4. text[j] = Dash => j + 1 <= len /\ text[j + 1] = Slash
    <3> SUFFICES ASSUME text[j] = Dash PROVE j + 1 <= len /\ text[j + 1] = Slash
      OBVIOUS
    <3>1. t[j - d] = Dash
      BY <2>3 DEF Dash, Lossy
    <3>2. (j - d) + 1 <= n /\ t[(j - d) + 1] = Slash
      BY <1>4, <2>1, <3>1
    <3>3. j + 1 \in j + 1 .. len /\ (j + 1) - d = (j - d) + 1
      BY <1>0, <3>2
    <3> QED BY <2>2, <3>2, <3>3
  <2>5. text[j] # Star => \E s \in j .. len : text[s] = Slash
    <3> SUFFICES ASSUME text[j] # Star PROVE \E s \in j .. len : text[s] = Slash
      OBVIOUS
    <3>1. t[j - d] # Star
      BY <2>3 DEF Star, Lossy
    <3>2. PICK s \in j - d .. n : t[s] = Slash
      BY <1>4, <2>1, <3>1
    <3>3. CASE s = j - d
      <4>1. text[j] = Slash
        BY <2>3, <3>2, <3>3 DEF Slash, Lossy
      <4> QED BY <4>1
    <3>4. CASE s # j - d
      <4>1. s + d \in j + 1 .. len /\ (s + d) - d = s
        BY <1>0, <3>4
      <4>2. text[s + d] = Slash
        BY <2>2, <3>2, <4>1
      <4>3. s + d \in j .. len
        BY <4>1
      <4> QED BY <4>2, <4>3
    <3> QED BY <3>3, <3>4
  <2> QED BY <2>4, <2>5
<1>7. j \in 1 .. L \/ j \in L + 1 .. len
  BY <1>0
<1> QED BY <1>5, <1>6, <1>7

-----------------------------------------------------------------------------
(* What a chain's text is read as, and what is left of it.                 *)

(* Both for the text that Blockchain::toString writes.                     *)
LEMMA ChainTextClosed ==
    ASSUME NEW blocks \in Seq(Blocks)
    PROVE  ChainText(blocks) \in Texts /\ Closed(ChainText(blocks))
<1>1. ChainText(blocks) \in Texts /\ \E pos : Laid(ChainText(blocks), pos, blocks)
  BY ChainWritten
<1> QED BY <1>1, ClosedChain

(* What is left of a chain's text, behind a text that was there before:    *)
(* the whole is closed again; behind nothing it is read as an end of the   *)
(* chain; and what is read of it, if that ends, goes on from what the      *)
(* earlier text is read as with an end of the chain.                       *)
THEOREM ChainAdded ==
    ASSUME NEW rest \in Texts, Closed(rest), NEW blocks \in Seq(FullBlocks),
           NEW more \in Remainders(ChainText(blocks))
    PROVE  /\ rest \o more \in Texts /\ Closed(rest \o more)
           /\ rest = <<>> => \A c \in ParseChain(rest \o more) : TailRead(c, blocks)
           /\ \A c \in ParseChain(rest \o more) : c.ends =>
                  \E old \in ParseChain(rest) : Extends(c, old, blocks)
<1> DEFINE t == ChainText(blocks)
           text == rest \o more
<1>1. blocks \in Seq(Blocks)
  BY FullIsBlock
<1>2. t \in Texts /\ Closed(t)
  BY <1>1, ChainTextClosed
<1>3. PICK pos : Laid(t, pos, blocks)
  BY <1>1, ChainWritten
<1>4. more \in Remainders(t)
  OBVIOUS
<1>10. text = rest \o more
  OBVIOUS
<1> HIDE DEF t, text
<1>5. text \in Texts /\ GoesOn(text, rest) /\ \E d : Shifted(text, Len(rest), t, d)
  BY <1>2, <1>4, <1>10, RemainderShifts
<1>6. PICK d : Shifted(text, Len(rest), t, d)
  BY <1>5
<1>7. Closed(text)
  BY <1>2, <1>5, <1>6, ClosedOn
<1>8. PICK at : RestOfChain(text, Len(rest), at, blocks)
  BY <1>1, <1>2, <1>3, <1>5, <1>6, LeftOfChain
<1>9. ASSUME rest = <<>>, NEW c \in ParseChain(text) PROVE TailRead(c, blocks)
  <2>1. Len(rest) = 0 /\ Len(text) \in Nat
    BY <1>5, <1>9 DEF Texts
  <2>2. 1 \in Len(rest) + 1 .. Len(text) + 3
    BY <2>1
  <2>3. c \in BlocksOf(text)[1]
    BY <1>9, ChainByBody
  <2> QED BY <1>5, <1>8, <2>2, <2>3, RestIsRead
<1>11. ASSUME NEW c \in ParseChain(text), c.ends PROVE \E old \in ParseChain(rest) : Extends(c, old, blocks)
  BY <1>5, <1>8, <1>11, AddedChain
<1> QED BY <1>5, <1>7, <1>9, <1>11 DEF text

(* Blocks that all have transactions are read as they were written.        *)
THEOREM ChainReadBack ==
    ASSUME NEW blocks \in Seq(FullBlocks), blocks # <<>>
    PROVE  ParseChain(ChainText(blocks)) = {[chain |-> blocks, ends |-> TRUE]}
<1> DEFINE t == ChainText(blocks)
           m == Len(blocks)
<1>1. blocks \in Seq(Blocks)
  BY FullIsBlock
<1>2. t \in Texts
  BY <1>1, ChainTextClosed
<1>3. PICK pos : Laid(t, pos, blocks)
  BY <1>1, ChainWritten
<1>4. m \in Nat /\ 1 \in 1 .. m
  OBVIOUS
<1> HIDE DEF t
<1>5. Len(t) \in Nat /\ pos \in [1 .. m + 1 -> Nat] /\ pos[1] = 1 /\ pos[m + 1] = Len(t) /\ t[Len(t)] = Star
  BY <1>2, <1>3 DEF Laid, Texts
<1>6. \A b \in 1 .. m : pos[b + 1] = pos[b] + 2 * Len(blocks[b].data) + 3 /\ BlockAt(t, pos[b], blocks[b])
  BY <1>3 DEF Laid
<1>7. RestOfChain(t, 0, pos, blocks)
  <2>1. ASSUME NEW b \in 1 .. m PROVE BlockRest(t, 0, pos[b], blocks[b])
    BY <1>3 DEF Laid, BlockAt, BlockRest
  <2>2. pos \in [1 .. m + 1 -> Int] /\ 0 \in 0 .. Len(t) /\ pos[1] <= 0 + 1
    BY <1>5
  <2> QED BY <1>5, <1>6, <2>1, <2>2 DEF RestOfChain
<1> DEFINE blk == blocks[1]
           n == Len(blk.data)
           s == SubSeq(blocks, 2, m)
           r == [chain |-> s, ends |-> TRUE]
<1>8. /\ AtPlace(t, 0, blk, 1, n, pos[2]) /\ BlockAt(t, 1, blk)
      /\ pos[2] > 0 + 1
  <2>1. AtPlace(t, 0, blk, pos[1], n, pos[1 + 1])
    BY <1>2, <1>4, <1>7, BlockOfRest
  <2>2. pos[1 + 1] = pos[2] /\ BlockAt(t, 1, blk)
    BY <1>4, <1>5, <1>6
  <2> HIDE DEF n, blk
  <2>3. AtPlace(t, 0, blk, 1, n, pos[2])
    BY <1>5, <2>1, <2>2
  <2> QED BY <2>2, <2>3 DEF AtPlace
<1>9. BlocksOf(t)[pos[2]] = {r}
  <2>1. \A j \in 1 .. Len(blocks) + 1 : pos[j] > 0 + 1 =>
             BlocksOf(t)[pos[j]] = {[chain |-> SubSeq(blocks, j, Len(blocks)), ends |-> TRUE]}
    BY <1>2, <1>7, ExactFrom
  <2>2. 2 \in 1 .. Len(blocks) + 1
    BY <1>4
  <2> QED BY <1>8, <2>1, <2>2
<1> HIDE DEF blk, n
<1>10. PICK first \in ParsedBlocks : AsWritten(t, 1, blk, first) /\ ReadBefore(t, 1, pos[2], first)
  <2>1. n = Len(blk.data) /\ 1 + 2 * n + 3 <= Len(t) /\ pos[2] = 1 + 2 * n + 3 /\ BlockRest(t, 0, 1, blk) /\ blk \in FullBlocks
    BY <1>8 DEF AtPlace
  <2>2. \E first \in ParsedBlocks : AsWritten(t, 1, blk, first) /\ ReadBefore(t, 1, 1 + 2 * n + 3, first)
    <3>1. 0 \in Nat /\ 1 \in Nat /\ 1 > 0
      OBVIOUS
    <3> QED BY ONLY <1>2, <2>1, <3>1, WholeBlockRead
  <2> QED BY <2>1, <2>2
<1>11. first.data = blk.data /\ first.id = blk.id
  <2>1. ~BehindBlock(t, 1)
    BY DEF BehindBlock
  <2>2. t[1] = Header(blk.id)
    BY <1>8 DEF BlockAt
  <2> QED BY <1>10, <2>1, <2>2 DEF AsWritten
<1>12. [id |-> first.id, data |-> first.data] = blocks[1]
  <2>1. blocks[1] \in FullBlocks
    BY <1>4
  <2>2. blk \in FullBlocks
    BY <2>1 DEF blk
  <2>3. [id |-> blk.id, data |-> blk.data] = blk
    BY <2>2 DEF FullBlocks, Blocks
  <2> QED BY <1>11, <2>3 DEF blk
<1>13. r \in Results /\ s \in Seq(FullBlocks)
  <2>1. s \in Seq(Blocks) /\ s \in Seq(FullBlocks)
    BY <1>1
  <2> HIDE DEF s
  <2> QED BY <2>1 DEF Results
<1>14. blocks = <<blocks[1]>> \o s
  <2>1. SubSeq(blocks, 1, Len(blocks)) = <<blocks[1]>> \o SubSeq(blocks, 1 + 1, Len(blocks))
    BY <1>1, <1>4, FirstAndRest
  <2>2. SubSeq(blocks, 1, Len(blocks)) = blocks
    OBVIOUS
  <2> QED BY <2>1, <2>2
<1>15. BlocksOf(t)[1] = {[chain |-> <<blocks[1]>> \o r.chain, ends |-> r.ends]}
  <2> HIDE DEF r
  <2>1. BlocksOf(t)[1] = Behind(first, {r})
    BY <1>9, <1>10 DEF ReadBefore
  <2>2. Behind(first, {r}) =
            {[chain |-> <<[id |-> first.id, data |-> first.data]>> \o r.chain, ends |-> r.ends]}
    BY <1>13, BehindOne
  <2> QED BY <1>12, <2>1, <2>2
<1>16. BlocksOf(t)[1] = {[chain |-> blocks, ends |-> TRUE]}
  BY <1>14, <1>15
<1> QED BY <1>16, ChainByBody DEF t

-----------------------------------------------------------------------------
(* The same of a pool.                                                     *)

(* The text of a pool in its place, from L + 1.                            *)
RestOfPool(text, L, p, data) ==
    LET n == Len(data)
    IN  /\ L \in 0 .. Len(text) /\ p \in Int /\ p <= L + 1 /\ p + 2 * n = Len(text)
        /\ \A k \in 1 .. n :
               /\ p + 2 * k - 2 > L =>
                      \/ text[p + 2 * k - 2] = Tx(data[k])
                      \/ p + 2 * k - 2 = L + 1 /\ text[p + 2 * k - 2] = Tx(0)
               /\ p + 2 * k - 1 > L => text[p + 2 * k - 1] = Bar
        /\ Len(text) > L => text[Len(text)] = Dash

(* An end of a pool, behind at most one transaction without a number.      *)
PoolTail(d, data) ==
    \E k \in 1 .. Len(data) + 1 :
        d = SubSeq(data, k, Len(data)) \/ d = <<0>> \o SubSeq(data, k, Len(data))

(* Every place behind L is that of a transaction, of a "|" or of the "-".  *)
LEMMA PoolPlaces ==
    ASSUME NEW text \in Texts, NEW data \in Seq(Int), NEW L, NEW p, RestOfPool(text, L, p, data),
           NEW n, n = Len(data), NEW x \in L + 1 .. Len(text)
    PROVE  x = p + 2 * n \/ \E k \in 1 .. n : x = p + 2 * k - 2 \/ x = p + 2 * k - 1
<1>1. n \in Nat /\ L \in Nat /\ p \in Int /\ p <= L + 1 /\ p + 2 * n = Len(text) /\ Len(text) \in Nat
  BY DEF RestOfPool, Texts
<1>2. x \in Int /\ p <= x /\ x <= p + 2 * n
  BY <1>1
<1>3. ASSUME x # p + 2 * n PROVE \E k \in 1 .. n : x = p + 2 * k - 2 \/ x = p + 2 * k - 1
  <2>1. CASE (x - p) % 2 = 0
    <3>1. (x - p) \div 2 + 1 \in 1 .. n /\ x = p + 2 * ((x - p) \div 2 + 1) - 2
      BY ONLY <1>1, <1>2, <1>3, <2>1
    <3> QED BY <3>1
  <2>2. CASE (x - p) % 2 = 1
    <3>1. (x - p) \div 2 + 1 \in 1 .. n /\ x = p + 2 * ((x - p) \div 2 + 1) - 1
      BY ONLY <1>1, <1>2, <1>3, <2>2
    <3> QED BY <3>1
  <2> QED BY ONLY <1>1, <1>2, <2>1, <2>2
<1> QED BY <1>3

(* Transactions that are all there are read as they are.                   *)
LEMMA PoolExactFrom ==
    ASSUME NEW text \in Texts, NEW data \in Seq(Int), NEW L, NEW p, RestOfPool(text, L, p, data),
           NEW n, n = Len(data), NEW k \in 1 .. n, p + 2 * k > L + 1
    PROVE  ParseTxs(text, p + 2 * k, Len(text)) = [data |-> SubSeq(data, k + 1, n), ends |-> TRUE]
<1> DEFINE q == p + 2 * k
           s == SubSeq(data, k + 1, n)
           j == n - k
<1>1. n \in Nat /\ L \in Nat /\ p \in Int /\ p <= L + 1 /\ p + 2 * n = Len(text) /\ Len(text) \in Nat
  BY DEF RestOfPool, Texts
<1>2. j \in Nat /\ s \in Seq(Int) /\ Len(s) = j /\ \A y \in 1 .. j : s[y] = data[k + y]
  <2>1. k + 1 \in Int /\ n \in Int /\ \A y \in k + 1 .. n : data[y] \in Int
    BY <1>1
  <2>2. /\ s \in Seq(Int) /\ Len(s) = IF k + 1 <= n THEN n - (k + 1) + 1 ELSE 0
        /\ \A y \in 1 .. n - (k + 1) + 1 : s[y] = data[(k + 1) + y - 1]
    BY ONLY <2>1, SubSeqProperties
  <2>3. (IF k + 1 <= n THEN n - (k + 1) + 1 ELSE 0) = j /\ n - (k + 1) + 1 = j /\ j \in Nat
    BY <1>1
  <2>4. \A y \in 1 .. j : (k + 1) + y - 1 = k + y
    BY <1>1
  <2> QED BY <2>2, <2>3, <2>4
<1>3. text[Len(text)] = Dash
  <2>1. Len(text) > L
    BY <1>1
  <2> QED BY <2>1 DEF RestOfPool
<1>4. text[p + 2 * k - 1] = Bar
  <2>1. p + 2 * k - 1 > L
    BY <1>1
  <2> QED BY <2>1 DEF RestOfPool
<1>5. ASSUME NEW y \in 1 .. j PROVE text[q + 2 * y - 2] = Tx(s[y]) /\ text[q + 2 * y - 1] = Bar
  <2> DEFINE i == k + y
  <2>1. i \in 1 .. n /\ p + 2 * i - 2 > L + 1 /\ p + 2 * i - 1 > L
        /\ q + 2 * y - 2 = p + 2 * i - 2 /\ q + 2 * y - 1 = p + 2 * i - 1
    BY <1>1
  <2>2. s[y] = data[i]
    BY <1>2
  <2> HIDE DEF i, q, s
  <2>4. p + 2 * i - 2 > L /\ p + 2 * i - 2 # L + 1
    BY ONLY <1>1, <2>1
  <2>3. text[p + 2 * i - 2] = Tx(data[i]) /\ text[p + 2 * i - 1] = Bar
    BY <2>1, <2>4 DEF RestOfPool
  <2> QED BY <2>1, <2>2, <2>3
<1>6. q \in Nat \ {0} /\ q + 2 * j = Len(text)
  BY <1>1
<1> HIDE DEF q, s, j
<1>7. ~BehindBlock(text, q)
  <2>1. q - 1 = p + 2 * k - 1
    BY <1>1 DEF q
  <2>2. text[q - 1] = Bar
    BY <1>4, <2>1
  <2> QED BY <2>2 DEF BehindBlock, Bar, Dash
<1>8. TxsAt(text, q, s)
  BY <1>2, <1>3, <1>5, <1>6 DEF TxsAt
<1>9. ParseTxs(text, q, q + 2 * Len(s)) = [data |-> s, ends |-> TRUE]
  <2>1. q + 2 * Len(s) <= Len(text)
    BY <1>1, <1>2, <1>6
  <2> QED BY <1>2, <1>6, <1>7, <1>8, <2>1, TxsExact
<1> QED BY <1>2, <1>6, <1>9 DEF q, s

(* Nothing is an end of every pool.                                        *)
LEMMA NothingIsTail ==
    ASSUME NEW data \in Seq(Int)
    PROVE  PoolTail(<<>>, data)
<1>1. SubSeq(data, Len(data) + 1, Len(data)) = <<>> /\ Len(data) + 1 \in 1 .. Len(data) + 1
  OBVIOUS
<1> QED BY <1>1 DEF PoolTail

(* An end of the pool is read.                                             *)
LEMMA PoolRestRead ==
    ASSUME NEW text \in Texts, NEW data \in Seq(Int), NEW L, NEW p, RestOfPool(text, L, p, data)
    PROVE  /\ ParseTxs(text, L + 1, Len(text)).ends
           /\ PoolTail(ParseTxs(text, L + 1, Len(text)).data, data)
<1> DEFINE n == Len(data)
           len == Len(text)
           i == L + 1
           bar == Find(text, Bar, i, len)
           tx == IF bar = i + 1 /\ text[i][1] = "tx" THEN Number(text, i) ELSE 0
           ended == bar = i \/ (bar = i + 1 /\ text[i] = Dash)
           this == ParseTxs(text, i, len)
<1>1. n \in Nat /\ L \in Nat /\ p \in Int /\ p <= L + 1 /\ p + 2 * n = len /\ len \in Nat /\ L <= len
  BY DEF RestOfPool, Texts
<1>2. i \in 1 .. len + 1 /\ len \in 0 .. Len(text) /\ i \in Nat /\ i <= len + 1
  BY <1>1
<1>3. /\ ended => this = [data |-> <<>>, ends |-> TRUE]
      /\ ~ended /\ bar <= len =>
                  LET next == ParseTxs(text, bar + 1, len)
                  IN  this = [data |-> <<tx>> \o next.data, ends |-> next.ends]
  <2> HIDE DEF bar, tx, ended
  <2> QED BY <1>2, TxsStep DEF bar, tx, ended
<1>4. ASSUME ended PROVE this.ends /\ PoolTail(this.data, data)
  <2>1. this.data = <<>> /\ this.ends
    BY <1>3, <1>4
  <2> QED BY <2>1, NothingIsTail
<1>5. CASE L = len
  <2>1. bar = i
    <3>1. \A x \in i .. len : text[x] # Bar
      BY <1>1, <1>5
    <3> HIDE DEF i, len
    <3>2. Find(text, Bar, i, len) = len + 1
      BY <1>2, <3>1, FoundNone
    <3> QED BY <1>5, <3>2 DEF i
  <2> QED BY <1>4, <2>1
<1>6. CASE L < len
  <2>1. i \in L + 1 .. Len(text)
    BY <1>1, <1>6
  <2>2. CASE i = p + 2 * n
    <3>1. text[i] = Dash /\ i = len
      BY <1>1, <1>6, <2>2 DEF RestOfPool
    <3>2. Find(text, Bar, i, len) = len + 1
      <4>1. \A x \in i .. len : text[x] # Bar
        <5> TAKE x \in i .. len
        <5>1. x = i
          BY <1>1, <3>1
        <5> QED BY <3>1, <5>1 DEF Dash, Bar
      <4> HIDE DEF i, len
      <4> QED BY <1>2, <4>1, FoundNone
    <3> QED BY <1>4, <3>1, <3>2
  <2>3. CASE \E k \in 1 .. n : i = p + 2 * k - 1
    <3>1. PICK k \in 1 .. n : i = p + 2 * k - 1
      BY <2>3
    <3>2. text[i] = Bar
      <4>1. p + 2 * k - 1 > L
        BY <1>1, <3>1
      <4> QED BY <3>1, <4>1 DEF RestOfPool
    <3>3. bar = i
      <4>1. i <= len
        BY <1>1, <1>6
      <4> HIDE DEF i, len
      <4> QED BY <1>2, <3>2, <4>1, FoundHere
    <3> QED BY <1>4, <3>3
  <2>4. CASE \E k \in 1 .. n : i = p + 2 * k - 2
    <3>1. PICK k \in 1 .. n : i = p + 2 * k - 2
      BY <2>4
    <3>2. text[i] = Tx(data[k]) \/ text[i] = Tx(0)
      <4>1. p + 2 * k - 2 > L
        BY <1>1, <3>1
      <4> QED BY <3>1, <4>1 DEF RestOfPool
    <3>3. text[i + 1] = Bar
      <4>1. p + 2 * k - 1 > L /\ i + 1 = p + 2 * k - 1
        BY <1>1, <3>1
      <4>2. text[p + 2 * k - 1] = Bar
        BY <4>1 DEF RestOfPool
      <4> QED BY <4>1, <4>2
    <3>4. text[i] # Bar /\ text[i] # Dash /\ text[i][2] \in {data[k], 0}
      BY <3>2 DEF Tx, Bar, Dash
    <3>5. bar = i + 1 /\ bar + 1 = p + 2 * k /\ bar <= len /\ p + 2 * k > L + 1 /\ bar # i
      <4>1. i + 1 <= len /\ (i + 1) + 1 = p + 2 * k /\ p + 2 * k > L + 1 /\ i + 1 # i
        BY <1>1, <3>1
      <4>2. bar = i + 1
        <5> HIDE DEF i, len
        <5> QED BY <1>2, <3>3, <3>4, <4>1, FoundNext
      <4> HIDE DEF bar, i
      <4> QED BY <4>1, <4>2
    <3>6. ~ended
      BY <3>4, <3>5
    <3>7. tx \in {data[k], 0}
      BY <3>4 DEF Number
    <3>8. ParseTxs(text, bar + 1, len) = [data |-> SubSeq(data, k + 1, n), ends |-> TRUE]
      <4>1. ParseTxs(text, p + 2 * k, len) = [data |-> SubSeq(data, k + 1, n), ends |-> TRUE]
        <5>1. k \in 1 .. Len(data) /\ p + 2 * k > L + 1
          BY <3>5
        <5>2. ParseTxs(text, p + 2 * k, Len(text)) = [data |-> SubSeq(data, k + 1, Len(data)), ends |-> TRUE]
          BY ONLY <5>1, text \in Texts, data \in Seq(Int), RestOfPool(text, L, p, data), PoolExactFrom, SMTT(30)
        <5> QED BY <5>2
      <4> QED BY <3>5, <4>1
    <3>9. this = [data |-> <<tx>> \o SubSeq(data, k + 1, n), ends |-> TRUE]
      <4> DEFINE nx == ParseTxs(text, bar + 1, len)
      <4>1. this = [data |-> <<tx>> \o nx.data, ends |-> nx.ends]
        <5> HIDE DEF bar, tx, ended, this
        <5> QED BY <1>3, <3>5, <3>6
      <4>2. nx.data = SubSeq(data, k + 1, n) /\ nx.ends = TRUE
        BY <3>8
      <4> HIDE DEF nx, tx, this
      <4> QED BY <4>1, <4>2
    <3>10. PoolTail(this.data, data)
      <4>1. SubSeq(data, k, Len(data)) = <<data[k]>> \o SubSeq(data, k + 1, Len(data))
        BY FirstAndRest
      <4>2. k \in 1 .. Len(data) + 1 /\ k + 1 \in 1 .. Len(data) + 1
        OBVIOUS
      <4>3. this.data = <<tx>> \o SubSeq(data, k + 1, Len(data))
        BY <3>9
      <4> HIDE DEF tx, this
      <4> QED BY <3>7, <4>1, <4>2, <4>3 DEF PoolTail
    <3> QED BY <3>9, <3>10
  <2> QED BY <2>1, <2>2, <2>3, <2>4, PoolPlaces
<1> QED BY <1>1, <1>5, <1>6

(* Everything but "-" is followed by "|" some time.                        *)
PoolClosed(text) ==
    \A j \in 1 .. Len(text) : text[j] # Dash => \E s \in j .. Len(text) : text[s] = Bar

(* A pool that is an earlier one and such an end.                          *)
PoolExtends(d, old, data) ==
    \E e \in Seq(Int) : PoolTail(e, data) /\ d = old \o e

(* What is read from j is what was read there before, and an end of the    *)
(* pool.                                                                   *)
PoolCarried(text, rest, data, j) ==
    LET parsed == ParseTxs(text, j, Len(text))
    IN  parsed.ends => PoolExtends(parsed.data, ParseTxs(rest, j, Len(rest)).data, data)

(* An end of a pool goes on from nothing.                                  *)
LEMMA PoolFromNothing ==
    ASSUME NEW data, NEW d \in Seq(Int), PoolTail(d, data)
    PROVE  PoolExtends(d, <<>>, data)
<1>1. d = <<>> \o d
  OBVIOUS
<1> QED BY <1>1 DEF PoolExtends

(* What is read as transactions are some.                                  *)
LEMMA ParsedTyped ==
    ASSUME NEW text \in Texts, NEW i \in 1 .. Len(text) + 1
    PROVE  /\ ParseTxs(text, i, Len(text)).data \in Seq(Int)
           /\ ParseTxs(text, i, Len(text)).ends \in BOOLEAN
<1> DEFINE len == Len(text)
           bar == Find(text, Bar, i, len)
           tx == IF bar = i + 1 /\ text[i][1] = "tx" THEN Number(text, i) ELSE 0
           ended == bar = i \/ (bar = i + 1 /\ text[i] = Dash)
<1>1. len \in 0 .. Len(text) /\ i \in 1 .. len + 1
  BY DEF Texts
<1>2. ParseTxs(text, i, len) \in TxsResults
  <2> HIDE DEF bar, tx, ended
  <2> QED BY <1>1, TxsStep DEF bar, tx, ended
<1> QED BY <1>2 DEF TxsResults

(* Behind a text nothing is read.                                          *)
LEMMA NothingBehind ==
    ASSUME NEW rest \in Texts
    PROVE  ParseTxs(rest, Len(rest) + 1, Len(rest)) = [data |-> <<>>, ends |-> TRUE]
<1> DEFINE len == Len(rest)
           i == len + 1
           bar == Find(rest, Bar, i, len)
           tx == IF bar = i + 1 /\ rest[i][1] = "tx" THEN Number(rest, i) ELSE 0
           ended == bar = i \/ (bar = i + 1 /\ rest[i] = Dash)
<1>1. len \in 0 .. Len(rest) /\ i \in 1 .. len + 1 /\ i \in Nat /\ len \in Nat /\ i <= len + 1
  BY DEF Texts
<1>2. ended
  <2>1. \A x \in i .. len : rest[x] # Bar
    BY <1>1
  <2>2. i = len + 1
    OBVIOUS
  <2> HIDE DEF i, len
  <2>3. Find(rest, Bar, i, len) = len + 1
    BY <1>1, <2>1, FoundNone
  <2> QED BY <2>2, <2>3
<1>3. ended => ParseTxs(rest, i, len) = [data |-> <<>>, ends |-> TRUE]
  <2> HIDE DEF bar, tx, ended
  <2> QED BY <1>1, TxsStep DEF bar, tx, ended
<1> QED BY <1>2, <1>3

(* A "-" that no "|" followed in the old text is read together with the    *)
(* piece it meets in the new one, for a transaction without a number.      *)
LEMMA PoolPastDashes ==
    ASSUME NEW text \in Texts, NEW data \in Seq(Int), NEW L, NEW p, RestOfPool(text, L, p, data),
           NEW i \in 1 .. L, \A x \in i .. L : text[x] = Dash,
           ParseTxs(text, i, Len(text)).ends
    PROVE  PoolTail(ParseTxs(text, i, Len(text)).data, data)
<1> DEFINE n == Len(data)
           len == Len(text)
           bar == Find(text, Bar, i, len)
           tx == IF bar = i + 1 /\ text[i][1] = "tx" THEN Number(text, i) ELSE 0
           ended == bar = i \/ (bar = i + 1 /\ text[i] = Dash)
           this == ParseTxs(text, i, len)
<1>0. n \in Nat /\ L \in Nat /\ p \in Int /\ p <= L + 1 /\ p + 2 * n = len /\ len \in Nat /\ L <= len
  BY DEF RestOfPool, Texts
<1>1. i \in 1 .. len + 1 /\ len \in 0 .. Len(text) /\ i \in Nat /\ i <= L /\ i <= len
  BY <1>0
<1>2. bar \in i .. len + 1 /\ (bar <= len => text[bar] = Bar) /\ \A k \in i .. bar - 1 : text[k] # Bar
  BY <1>1, FoundAt
<1>3. /\ ended => this = [data |-> <<>>, ends |-> TRUE]
      /\ ~ended /\ bar > len => this = [data |-> <<>>, ends |-> FALSE]
      /\ ~ended /\ bar <= len =>
                  LET next == ParseTxs(text, bar + 1, len)
                  IN  this = [data |-> <<tx>> \o next.data, ends |-> next.ends]
  <2> HIDE DEF bar, tx, ended
  <2> QED BY <1>1, TxsStep DEF bar, tx, ended
<1>4. text[i] = Dash
  BY <1>1
<1>5. bar > L
  <2> SUFFICES ASSUME bar <= L PROVE FALSE
    BY <1>0, <1>1, <1>2
  <2>1. bar \in i .. L /\ bar <= len
    BY <1>0, <1>1, <1>2
  <2>2. text[bar] = Dash /\ text[bar] = Bar
    BY <1>2, <2>1
  <2> QED BY <2>2 DEF Dash, Bar
<1>6. CASE ended
  <2>1. this.data = <<>>
    BY <1>3, <1>6
  <2> HIDE DEF this
  <2>2. PoolTail(this.data, data)
    BY <2>1, NothingIsTail
  <2> QED BY <2>2 DEF this
<1>7. CASE ~ended
  <2>1. bar <= len
    <3> SUFFICES ASSUME bar > len PROVE FALSE
      BY <1>0, <1>1, <1>2
    <3>1. this = [data |-> <<>>, ends |-> FALSE]
      BY <1>3, <1>7
    <3> QED BY <3>1
  <2>2. tx = 0
    BY <1>4 DEF Dash
  <2> DEFINE next == ParseTxs(text, bar + 1, len)
  <2>3. this = [data |-> <<0>> \o next.data, ends |-> next.ends]
    <3> HIDE DEF bar, tx, ended, this
    <3> QED BY <1>3, <1>7, <2>1, <2>2
  <2>4. text[bar] = Bar /\ bar \in L + 1 .. Len(text)
    BY <1>0, <1>1, <1>2, <1>5, <2>1
  <2> HIDE DEF bar, tx, ended
  <2>5. PICK k \in 1 .. n : bar = p + 2 * k - 1
    <3>1. bar # p + 2 * n
      <4> SUFFICES ASSUME bar = p + 2 * n PROVE FALSE
        OBVIOUS
      <4>1. Len(text) > L /\ bar = Len(text)
        BY <1>0, <2>4
      <4>2. text[Len(text)] = Dash
        BY <4>1 DEF RestOfPool
      <4> QED BY <2>4, <4>1, <4>2 DEF Dash, Bar
    <3>2. ASSUME NEW k \in 1 .. n, bar = p + 2 * k - 2 PROVE FALSE
      <4>1. p + 2 * k - 2 > L
        BY <1>0, <2>4, <3>2
      <4>2. text[bar] = Tx(data[k]) \/ text[bar] = Tx(0)
        BY <3>2, <4>1 DEF RestOfPool
      <4> QED BY <2>4, <4>2 DEF Tx, Bar
    <3>3. bar = p + 2 * n \/ \E k \in 1 .. n : bar = p + 2 * k - 2 \/ bar = p + 2 * k - 1
      BY <2>4, PoolPlaces
    <3> QED BY <3>1, <3>2, <3>3
  <2>6. bar + 1 = p + 2 * k /\ p + 2 * k > L + 1
    BY ONLY <1>0, <2>4, <2>5
  <2>7. next.data = SubSeq(data, k + 1, Len(data))
    <3>1. k \in 1 .. n /\ p + 2 * k > L + 1 /\ n = Len(data)
      BY <2>6
    <3>2. ParseTxs(text, p + 2 * k, Len(text)) = [data |-> SubSeq(data, k + 1, n), ends |-> TRUE]
      <4> HIDE DEF n
      <4> QED BY ONLY <3>1, text \in Texts, data \in Seq(Int), RestOfPool(text, L, p, data), PoolExactFrom, SMTT(30)
    <3> QED BY <2>6, <3>2
  <2> HIDE DEF next
  <2>8. this.data = <<0>> \o SubSeq(data, k + 1, Len(data))
    <3> HIDE DEF this
    <3> QED BY <2>3, <2>7
  <2>9. PoolTail(this.data, data)
    <3>1. k + 1 \in 1 .. Len(data) + 1
      OBVIOUS
    <3> HIDE DEF this
    <3> QED BY <2>8, <3>1 DEF PoolTail
  <2> QED BY <2>9
<1> QED BY <1>6, <1>7

(* If from every later place on what is read goes on from what was read of *)
(* the earlier text, so it does from this place.                           *)
LEMMA PoolCarriedBack ==
    ASSUME NEW text \in Texts, NEW rest \in Texts, GoesOn(text, rest), PoolClosed(rest),
           NEW data \in Seq(Int), NEW p, RestOfPool(text, Len(rest), p, data),
           NEW i \in 1 .. Len(rest),
           \A j \in i + 1 .. Len(rest) + 1 : PoolCarried(text, rest, data, j)
    PROVE  PoolCarried(text, rest, data, i)
<1> DEFINE L == Len(rest)
           len == Len(text)
           barL == Find(rest, Bar, i, L)
           bar == Find(text, Bar, i, len)
           txL == IF barL = i + 1 /\ rest[i][1] = "tx" THEN Number(rest, i) ELSE 0
           tx == IF bar = i + 1 /\ text[i][1] = "tx" THEN Number(text, i) ELSE 0
           endedL == barL = i \/ (barL = i + 1 /\ rest[i] = Dash)
           ended == bar = i \/ (bar = i + 1 /\ text[i] = Dash)
           old == ParseTxs(rest, i, L)
           this == ParseTxs(text, i, len)
<1>0. /\ L \in Nat /\ len \in Nat /\ L <= len /\ i \in Nat /\ i \in 1 .. L /\ i \in 1 .. len
      /\ i \in 1 .. L + 1 /\ i \in 1 .. len + 1 /\ i <= L /\ i <= L + 1 /\ i <= len + 1
      /\ L \in 0 .. Len(rest) /\ len \in 0 .. Len(text)
      /\ \A x \in 1 .. L : text[x] = rest[x]
  BY DEF GoesOn, Texts
<1>1. /\ barL \in i .. L + 1 /\ (barL <= L => rest[barL] = Bar) /\ \A k \in i .. barL - 1 : rest[k] # Bar
      /\ bar \in i .. len + 1 /\ (bar <= len => text[bar] = Bar) /\ \A k \in i .. bar - 1 : text[k] # Bar
  BY <1>0, FoundAt
<1>2. /\ endedL => old = [data |-> <<>>, ends |-> TRUE]
      /\ ~endedL /\ barL > L => old = [data |-> <<>>, ends |-> FALSE]
      /\ ~endedL /\ barL <= L =>
                  LET next == ParseTxs(rest, barL + 1, L)
                  IN  old = [data |-> <<txL>> \o next.data, ends |-> next.ends]
  <2> HIDE DEF barL, txL, endedL
  <2> QED BY <1>0, TxsStep DEF barL, txL, endedL
<1>3. /\ ended => this = [data |-> <<>>, ends |-> TRUE]
      /\ ~ended /\ bar > len => this = [data |-> <<>>, ends |-> FALSE]
      /\ ~ended /\ bar <= len =>
                  LET next == ParseTxs(text, bar + 1, len)
                  IN  this = [data |-> <<tx>> \o next.data, ends |-> next.ends]
  <2> HIDE DEF bar, tx, ended
  <2> QED BY <1>0, TxsStep DEF bar, tx, ended
<1> SUFFICES ASSUME this.ends PROVE PoolExtends(this.data, old.data, data)
  BY DEF PoolCarried
<1>4. ASSUME this.data = <<>>, old.data = <<>> PROVE PoolExtends(this.data, old.data, data)
  <2>1. PoolTail(<<>>, data)
    BY NothingIsTail
  <2>2. <<>> \in Seq(Int)
    OBVIOUS
  <2>3. PoolExtends(<<>>, <<>>, data)
    BY <2>1, <2>2, PoolFromNothing
  <2> HIDE DEF this, old
  <2> QED BY <1>4, <2>3
<1>5. CASE barL <= L
  <2>1. bar = barL
    <3> HIDE DEF barL, bar
    <3>3. barL \in i .. L /\ rest[barL] = Bar /\ \A k \in i .. barL - 1 : rest[k] # Bar
      BY <1>0, <1>1, <1>5
    <3>4. \A k \in i .. barL : k \in 1 .. L
      BY <1>0, <3>3
    <3>5. \A k \in i .. barL : text[k] = rest[k]
      BY <1>0, <3>4
    <3>1. barL \in i .. Len(text) + 1 /\ text[barL] = Bar /\ \A k \in i .. barL - 1 : text[k] # Bar
      BY <1>0, <3>3, <3>5
    <3>2. Find(text, Bar, i, Len(text)) = barL
      BY <1>0, <3>1, FoundInText
    <3> QED BY <3>2 DEF bar
  <2>2. Number(text, i) = Number(rest, i)
    <3>1. \A x \in 1 .. i : text[x] = rest[x]
      BY <1>0
    <3>2. i > 0
      BY <1>0
    <3> QED BY <1>0, <3>1, <3>2, NumberAgrees
  <2>3. tx = txL /\ (ended <=> endedL)
    BY <1>0, <2>1, <2>2
  <2>4. CASE ended
    <3>1. this.data = <<>> /\ old.data = <<>>
      BY <1>2, <1>3, <2>3, <2>4
    <3> QED BY <1>4, <3>1
  <2>5. CASE ~ended
    <3> DEFINE j == bar + 1
               next == ParseTxs(text, j, Len(text))
               nextL == ParseTxs(rest, j, Len(rest))
    <3>1. j \in i + 1 .. Len(rest) + 1 /\ j \in 1 .. Len(rest) + 1 /\ j \in 1 .. Len(text) + 1 /\ bar <= len
      BY <1>0, <1>1, <1>5, <2>1
    <3>2. this = [data |-> <<tx>> \o next.data, ends |-> next.ends]
      <4> HIDE DEF bar, tx, ended, this
      <4> QED BY <1>3, <2>5, <3>1
    <3>3. old = [data |-> <<tx>> \o nextL.data, ends |-> nextL.ends]
      <4>1. ~endedL /\ barL <= L /\ j = barL + 1 /\ txL = tx
        BY <1>5, <2>1, <2>3, <2>5
      <4> HIDE DEF barL, txL, endedL, old, tx, j
      <4> QED BY <1>2, <4>1
    <3>4. PoolCarried(text, rest, data, j)
      BY <3>1
    <3>5. tx \in Int
      <4>1. text[i] \in Tokens
        BY <1>0 DEF Texts
      <4>2. text[i][1] = "tx" => Number(text, i) \in Int
        BY <4>1, Kinds DEF Number
      <4>3. tx = 0 \/ (tx = Number(text, i) /\ Number(text, i) \in Int)
        <5> DEFINE c == bar = i + 1 /\ text[i][1] = "tx"
                   v == Number(text, i)
        <5>1. tx = IF c THEN v ELSE 0
          OBVIOUS
        <5>2. c => v \in Int
          BY <4>2
        <5> HIDE DEF c, v, tx
        <5>3. tx = 0 \/ (tx = v /\ v \in Int)
          BY <5>1, <5>2
        <5> QED BY <5>3 DEF v
      <4> HIDE DEF tx
      <4> QED BY <4>3
    <3>6. next.data \in Seq(Int) /\ nextL.data \in Seq(Int)
      BY <3>1, ParsedTyped
    <3> HIDE DEF this, old, tx, next, nextL, j
    <3>7. next.ends
      BY <3>2
    <3>8. PICK e \in Seq(Int) : PoolTail(e, data) /\ next.data = nextL.data \o e
      BY <3>4, <3>7 DEF PoolCarried, PoolExtends, next, nextL
    <3>9. <<tx>> \o (nextL.data \o e) = (<<tx>> \o nextL.data) \o e
      <4> DEFINE a == <<tx>>
                 b == nextL.data
      <4>1. a \in Seq(Int) /\ b \in Seq(Int)
        BY <3>5, <3>6
      <4> HIDE DEF a, b
      <4>2. (a \o b) \o e = a \o (b \o e)
        BY <4>1, ConcatAssociative, SMTT(30)
      <4> QED BY <4>2 DEF a, b
    <3>10. this.data = old.data \o e
      <4>1. this.data = <<tx>> \o next.data /\ old.data = <<tx>> \o nextL.data
        BY <3>2, <3>3
      <4> QED BY <3>8, <3>9, <4>1
    <3> QED BY <3>8, <3>10 DEF PoolExtends
  <2> QED BY <2>4, <2>5
<1>6. CASE barL > L
  <2>1. old.data = <<>>
    <3>1. old = [data |-> <<>>, ends |-> TRUE] \/ old = [data |-> <<>>, ends |-> FALSE]
      BY <1>2, <1>6
    <3> QED BY <3>1
  <2>2. \A x \in i .. L : rest[x] = Dash
    <3> SUFFICES ASSUME NEW x \in i .. L, rest[x] # Dash PROVE FALSE
      OBVIOUS
    <3>1. x \in 1 .. Len(rest)
      BY <1>0
    <3>2. PICK y \in x .. L : rest[y] = Bar
      BY <3>1 DEF PoolClosed
    <3>3. y \in i .. barL - 1
      <4> HIDE DEF barL, L
      <4> QED BY <1>0, <1>1, <1>6
    <3> QED BY <1>1, <3>2, <3>3
  <2>3. \A x \in i .. Len(rest) : text[x] = Dash
    BY <1>0, <2>2
  <2>4. PoolTail(this.data, data)
    <3>1. ParseTxs(text, i, Len(text)).ends
      OBVIOUS
    <3>2. PoolTail(ParseTxs(text, i, Len(text)).data, data)
      BY ONLY <2>3, <3>1, i \in 1 .. Len(rest), text \in Texts, data \in Seq(Int),
              RestOfPool(text, Len(rest), p, data), PoolPastDashes
    <3> QED BY <3>2
  <2>5. this.data \in Seq(Int)
    BY <1>0, ParsedTyped
  <2> HIDE DEF this, old
  <2> QED BY <2>1, <2>4, <2>5, PoolFromNothing
<1> QED BY <1>0, <1>1, <1>5, <1>6

(* The pool that is read from a file to which a text was added.            *)
LEMMA AddedPool ==
    ASSUME NEW text \in Texts, NEW rest \in Texts, GoesOn(text, rest), PoolClosed(rest),
           NEW data \in Seq(Int), NEW p, RestOfPool(text, Len(rest), p, data)
    PROVE  PoolCarried(text, rest, data, 1)
<1> DEFINE L == Len(rest)
           S == {i \in 1 .. L + 1 : PoolCarried(text, rest, data, i)}
<1>0. L \in Nat /\ Len(text) \in Nat /\ L + 1 \in 1 .. Len(text) + 1
  BY DEF GoesOn, Texts
<1>1. PoolCarried(text, rest, data, L + 1)
  <2>1. PoolTail(ParseTxs(text, L + 1, Len(text)).data, data)
    BY PoolRestRead
  <2>2. ParseTxs(text, L + 1, Len(text)).data \in Seq(Int)
    BY <1>0, ParsedTyped
  <2>3. ParseTxs(rest, L + 1, Len(rest)).data = <<>>
    BY NothingBehind
  <2>4. PoolExtends(ParseTxs(text, L + 1, Len(text)).data, <<>>, data)
    BY <2>1, <2>2, PoolFromNothing
  <2> QED BY <2>3, <2>4 DEF PoolCarried
<1>2. ASSUME NEW i \in 1 .. L + 1, i + 1 .. L + 1 \subseteq S PROVE i \in S
  <2>1. CASE i = L + 1
    BY <1>1, <2>1
  <2>2. CASE i # L + 1
    <3>1. i \in 1 .. Len(rest)
      BY <1>0, <2>2
    <3>2. \A j \in i + 1 .. Len(rest) + 1 : PoolCarried(text, rest, data, j)
      BY <1>2
    <3> QED BY <3>1, <3>2, PoolCarriedBack
  <2> QED BY <2>1, <2>2
<1>3. 1 \in Int /\ L + 1 \in Int /\ 1 \in 1 .. L + 1
  BY <1>0
<1> HIDE DEF S
<1>4. 1 .. L + 1 \subseteq S
  BY <1>2, <1>3, InductDown
<1> QED BY <1>3, <1>4 DEF S
-----------------------------------------------------------------------------
(* What is left of the text of a pool is the rest of it.                   *)
LEMMA LeftOfPool ==
    ASSUME NEW text \in Texts, NEW L, NEW data \in Seq(Int), NEW t, t = PoolText(data),
           NEW d, Shifted(text, L, t, d)
    PROVE  RestOfPool(text, L, 1 + d, data)
<1> DEFINE n == Len(data)
           p == 1 + d
<1>1. /\ t \in Texts /\ Len(t) = 2 * n + 1
      /\ \A k \in 1 .. n : t[2 * k - 1] = Tx(data[k]) /\ t[2 * k] = Bar
      /\ t[2 * n + 1] = Dash
  BY TxsWritten DEF PoolText
<1>2. n \in Nat /\ d \in Int /\ d <= L /\ L \in 0 .. Len(text) /\ L \in Nat /\ Len(text) \in Nat
      /\ Len(text) = (2 * n + 1) + d
  <2>1. Len(text) \in Nat /\ n \in Nat
    BY DEF Texts
  <2>2. L \in 0 .. Len(text) /\ d \in Int /\ d <= L /\ Len(text) = Len(t) + d
    BY DEF Shifted
  <2> QED BY <1>1, <2>1, <2>2
<1>3. p \in Int /\ p <= L + 1 /\ p + 2 * n = Len(text)
  BY <1>2
<1>4. ASSUME NEW k \in 1 .. n, p + 2 * k - 2 > L
      PROVE  \/ text[p + 2 * k - 2] = Tx(data[k])
             \/ p + 2 * k - 2 = L + 1 /\ text[p + 2 * k - 2] = Tx(0)
  <2> DEFINE y == 2 * k - 1
             x == p + 2 * k - 2
  <2>1. y \in Int /\ y + d > L /\ y + d <= Len(text) /\ x = y + d
    BY <1>2, <1>4
  <2>2. t[y] = Tx(data[k])
    BY <1>1
  <2> HIDE DEF x, y
  <2>3. Whence(text, L, t, x, y)
    BY <2>1, ShiftedToken
  <2>4. text[x] = Tx(data[k]) \/ (x = L + 1 /\ text[x] = Tx(0))
    BY <2>2, <2>3 DEF Tx, Whence
  <2> QED BY <2>4 DEF x
<1>5. ASSUME NEW k \in 1 .. n, p + 2 * k - 1 > L PROVE text[p + 2 * k - 1] = Bar
  <2> DEFINE y == 2 * k
             x == p + 2 * k - 1
  <2>1. y \in Int /\ y + d > L /\ y + d <= Len(text) /\ x = y + d
    BY <1>2, <1>5
  <2>2. t[y] = Bar
    BY <1>1
  <2> HIDE DEF x, y
  <2>3. Whence(text, L, t, x, y)
    BY <2>1, ShiftedToken
  <2>4. text[x] = Bar
    BY <2>2, <2>3 DEF Bar, Lossy, Whence
  <2> QED BY <2>4 DEF x
<1>6. ASSUME Len(text) > L PROVE text[Len(text)] = Dash
  <2> DEFINE y == 2 * n + 1
             x == Len(text)
  <2>1. y \in Int /\ y + d > L /\ y + d <= Len(text) /\ x = y + d
    BY <1>2, <1>6
  <2>2. t[y] = Dash
    BY <1>1
  <2> HIDE DEF x, y
  <2>3. Whence(text, L, t, x, y)
    BY <2>1, ShiftedToken
  <2>4. text[x] = Dash
    BY <2>2, <2>3 DEF Dash, Lossy, Whence
  <2> QED BY <2>4 DEF x
<1>7. \A k \in 1 .. n :
          /\ p + 2 * k - 2 > L =>
                 \/ text[p + 2 * k - 2] = Tx(data[k])
                 \/ p + 2 * k - 2 = L + 1 /\ text[p + 2 * k - 2] = Tx(0)
          /\ p + 2 * k - 1 > L => text[p + 2 * k - 1] = Bar
  BY <1>4, <1>5
<1>8. Len(text) > L => text[Len(text)] = Dash
  BY <1>6
<1> HIDE DEF p
<1>9. RestOfPool(text, L, p, data)
  BY <1>2, <1>3, <1>7, <1>8 DEF RestOfPool
<1> QED BY <1>9 DEF p

(* The text of a pool is closed,                                           *)
LEMMA PoolTextClosed ==
    ASSUME NEW data \in Seq(Int)
    PROVE  PoolText(data) \in Texts /\ PoolClosed(PoolText(data))
<1> DEFINE n == Len(data)
           t == PoolText(data)
<1>1. /\ t \in Texts /\ Len(t) = 2 * n + 1
      /\ \A k \in 1 .. n : t[2 * k - 1] = Tx(data[k]) /\ t[2 * k] = Bar
      /\ t[2 * n + 1] = Dash
  BY TxsWritten DEF PoolText
<1>2. n \in Nat
  OBVIOUS
<1> HIDE DEF t
<1>3. ASSUME NEW j \in 1 .. Len(t), t[j] # Dash PROVE \E s \in j .. Len(t) : t[s] = Bar
  <2>1. j \in 1 .. 2 * n
    <3>1. ASSUME j = 2 * n + 1 PROVE FALSE
      BY <1>1, <1>3, <3>1
    <3>2. j \in 1 .. 2 * n + 1
      BY <1>1
    <3> QED BY ONLY <1>2, <3>1, <3>2
  <2>2. 2 * n \in j .. Len(t) /\ n \in 1 .. n
    BY <1>1, <1>2, <2>1
  <2>3. t[2 * n] = Bar
    BY <1>1, <2>2
  <2> QED BY <2>2, <2>3
<1>4. PoolClosed(t)
  BY <1>3 DEF PoolClosed
<1> QED BY <1>1, <1>4 DEF t

(* and so is what is left of a closed text behind a closed text.           *)
LEMMA PoolClosedOn ==
    ASSUME NEW text \in Texts, NEW rest \in Texts, NEW t \in Texts, NEW d,
           GoesOn(text, rest), PoolClosed(rest), PoolClosed(t), Shifted(text, Len(rest), t, d)
    PROVE  PoolClosed(text)
<1> DEFINE L == Len(rest)
           len == Len(text)
           n == Len(t)
<1>0. L \in Nat /\ len \in Nat /\ n \in Nat /\ L <= len /\ d \in Int /\ d <= L /\ len = n + d
  BY DEF GoesOn, Shifted, Texts
<1>1. \A x \in 1 .. L : text[x] = rest[x]
  BY DEF GoesOn
<1>2. ASSUME NEW x \in L + 1 .. len PROVE Whence(text, L, t, x, x - d) /\ x - d \in 1 .. n
  <2>1. x - d \in Int /\ (x - d) + d > L /\ (x - d) + d <= Len(text) /\ x = (x - d) + d
    BY <1>0
  <2>2. Whence(text, L, t, x, x - d)
    BY <2>1, ShiftedToken
  <2> HIDE DEF L, len, n
  <2> QED BY <1>0, <2>2
<1>3. \A j \in 1 .. L : rest[j] # Dash => \E s \in j .. L : rest[s] = Bar
  BY DEF PoolClosed
<1>4. \A j \in 1 .. n : t[j] # Dash => \E s \in j .. n : t[s] = Bar
  BY DEF PoolClosed
<1> SUFFICES ASSUME NEW j \in 1 .. len, text[j] # Dash PROVE \E s \in j .. len : text[s] = Bar
  BY DEF PoolClosed
<1> HIDE DEF L, len, n
<1>5. CASE j \in 1 .. L
  <2>1. PICK s \in j .. L : rest[s] = Bar
    BY <1>1, <1>3, <1>5
  <2>2. s \in 1 .. L /\ s \in j .. len
    BY <1>0
  <2> QED BY <1>1, <2>1, <2>2
<1>6. CASE j \in L + 1 .. len
  <2>1. Whence(text, L, t, j, j - d) /\ j - d \in 1 .. n
    BY <1>2, <1>6
  <2>2. t[j - d] # Dash
    BY <2>1 DEF Whence, Dash, Lossy
  <2>3. PICK s \in j - d .. n : t[s] = Bar
    BY <1>4, <2>1, <2>2
  <2>4. s + d \in j .. len /\ s + d \in L + 1 .. len /\ (s + d) - d = s
    BY <1>0, <1>6
  <2>5. Whence(text, L, t, s + d, s)
    BY <1>2, <2>4
  <2>6. text[s + d] = Bar
    BY <2>3, <2>5 DEF Whence, Bar, Lossy
  <2> QED BY <2>4, <2>6
<1>7. j \in 1 .. L \/ j \in L + 1 .. len
  BY <1>0
<1> QED BY <1>5, <1>6, <1>7

(* What is left of a pool's text, behind a text that was there before.     *)
THEOREM PoolAdded ==
    ASSUME NEW rest \in Texts, PoolClosed(rest), NEW data \in Seq(Int),
           NEW more \in Remainders(PoolText(data))
    PROVE  /\ rest \o more \in Texts /\ PoolClosed(rest \o more)
           /\ rest = <<>> => ParsePool(rest \o more).ends
           /\ ParsePool(rest \o more).ends =>
                  PoolExtends(ParsePool(rest \o more).data, ParsePool(rest).data, data)
<1> DEFINE t == PoolText(data)
           text == rest \o more
<1>1. t \in Texts /\ PoolClosed(t)
  BY PoolTextClosed
<1>2. more \in Remainders(t) /\ text = rest \o more /\ t = PoolText(data)
  OBVIOUS
<1> HIDE DEF t, text
<1>3. text \in Texts /\ GoesOn(text, rest) /\ \E d : Shifted(text, Len(rest), t, d)
  BY <1>1, <1>2, RemainderShifts
<1>4. PICK d : Shifted(text, Len(rest), t, d)
  BY <1>3
<1>5. PoolClosed(text)
  BY <1>1, <1>3, <1>4, PoolClosedOn
<1>6. RestOfPool(text, Len(rest), 1 + d, data)
  BY <1>2, <1>3, <1>4, LeftOfPool
<1>7. ASSUME rest = <<>> PROVE ParsePool(text).ends
  <2>1. Len(rest) + 1 = 1
    BY <1>7
  <2>2. ParseTxs(text, Len(rest) + 1, Len(text)).ends
    BY <1>3, <1>6, PoolRestRead
  <2> QED BY <2>1, <2>2 DEF ParsePool
<1>8. ASSUME ParsePool(text).ends PROVE PoolExtends(ParsePool(text).data, ParsePool(rest).data, data)
  <2>1. PoolCarried(text, rest, data, 1)
    BY <1>3, <1>6, AddedPool
  <2> QED BY <1>8, <2>1 DEF PoolCarried, ParsePool
<1> QED BY <1>3, <1>5, <1>7, <1>8 DEF text

(* A pool is read as it was written.                                       *)
THEOREM PoolReadBack ==
    ASSUME NEW data \in Seq(Int)
    PROVE  ParsePool(PoolText(data)) = [data |-> data, ends |-> TRUE]
<1> DEFINE n == Len(data)
           t == PoolText(data)
<1>1. /\ t \in Texts /\ Len(t) = 2 * n + 1
      /\ \A k \in 1 .. n : t[2 * k - 1] = Tx(data[k]) /\ t[2 * k] = Bar
      /\ t[2 * n + 1] = Dash
  BY TxsWritten DEF PoolText
<1> HIDE DEF t
<1>2. n \in Nat /\ 1 \in Nat \ {0}
  OBVIOUS
<1>3. TxsAt(t, 1, data)
  <2>1. \A k \in 1 .. n : 1 + 2 * k - 2 = 2 * k - 1 /\ 1 + 2 * k - 1 = 2 * k
    OBVIOUS
  <2>2. 1 + 2 * n = 2 * n + 1
    BY <1>2
  <2> QED BY <1>1, <2>1, <2>2 DEF TxsAt
<1>4. ~BehindBlock(t, 1)
  BY DEF BehindBlock
<1>5. 1 + 2 * Len(data) = Len(t) /\ 1 + 2 * Len(data) <= Len(t)
  BY <1>1, <1>2
<1>6. ParseTxs(t, 1, 1 + 2 * Len(data)) = [data |-> data, ends |-> TRUE]
  BY <1>1, <1>2, <1>3, <1>4, <1>5, TxsExact
<1>7. ParsePool(t) = [data |-> data, ends |-> TRUE]
  BY <1>5, <1>6 DEF ParsePool
<1> QED BY <1>7 DEF t

-----------------------------------------------------------------------------
(* Behaviours of ChainTransfer.                                            *)

(* What TypeOK rests on.                                                   *)
ControlInv ==
    /\ TypeOK
    /\ chain \in Seq(FullBlocks) /\ chain # <<>>
    /\ waiting \in Seq(1 .. MaxTx)
    /\ pool # <<>> => stage = "up"
    /\ conn # "open" => cuts > 0

(* The bounds are numbers.                                                 *)
LEMMA Bounds ==
    /\ MaxHeight \in Nat \ {0} /\ MaxTries \in Nat \ {0} /\ MaxTrouble \in Nat \ {0}
    /\ MaxTx \in Nat
BY ChainTransferAssumption

(* A sequence of elements of S has elements of S.                          *)
LEMMA RangeTyped ==
    ASSUME NEW S, NEW seq \in Seq(S)
    PROVE  Range(seq) \subseteq S
BY DEF Range

(* So has one into which another is inserted.                              *)
LEMMA InsertedTyped ==
    ASSUME NEW S, NEW seq \in Seq(S), NEW e \in S, NEW i \in 1 .. Len(seq) + 1
    PROVE  InsertAt(seq, i, e) \in Seq(S)
<1> DEFINE a == SubSeq(seq, 1, i - 1)
           b == SubSeq(seq, i, Len(seq))
<1>1. a \in Seq(S) /\ b \in Seq(S) /\ <<e>> \in Seq(S)
  <2>1. a \in Seq(S)
    <3>1. \A y \in 1 .. i - 1 : seq[y] \in S
      OBVIOUS
    <3>2. 1 \in Int /\ i - 1 \in Int
      OBVIOUS
    <3> QED BY ONLY <3>1, <3>2, SubSeqProperties
  <2>2. b \in Seq(S)
    <3>1. \A y \in i .. Len(seq) : seq[y] \in S
      OBVIOUS
    <3>2. i \in Int /\ Len(seq) \in Int
      OBVIOUS
    <3> QED BY ONLY <3>1, <3>2, SubSeqProperties
  <2> QED BY <2>1, <2>2
<1> HIDE DEF a, b
<1>2. (a \o <<e>>) \o b \in Seq(S)
  <2>1. a \o <<e>> \in Seq(S)
    BY <1>1
  <2> QED BY <1>1, <2>1
<1> QED BY <1>2 DEF a, b, InsertAt

(* The transaction that the peer accepts next is one.                      *)
LEMMA FreshTx ==
    ASSUME 1 .. MaxTx \ Known # {}
    PROVE  Min(1 .. MaxTx \ Known) \in 1 .. MaxTx
<1> DEFINE S == 1 .. MaxTx \ Known
<1>1. S \in SUBSET Nat /\ S # {}
  OBVIOUS
<1>2. S \subseteq 1 .. MaxTx
  OBVIOUS
<1> HIDE DEF S
<1>3. PICK n \in S : \A m \in S : n <= m
  BY <1>1, LeastNatural
<1>4. Min(S) = n
  BY <1>1, <1>3, MinIs
<1> QED BY <1>2, <1>3, <1>4 DEF S

(* The first block has a transaction,                                      *)
LEMMA GenesisTyped == <<Genesis>> \in Seq(FullBlocks) /\ Len(<<Genesis>>) = 1 /\ <<Genesis>> # <<>>
<1>1. Genesis \in FullBlocks
  BY DEF Genesis, Reward, FullBlocks, Blocks
<1> QED BY <1>1

(* and so has a block that is mined: its reward.                           *)
LEMMA MinedTyped ==
    ASSUME NEW w \in Seq(1 .. MaxTx), NEW h \in Nat
    PROVE  [id |-> h, data |-> Append(w, Reward(h))] \in FullBlocks
<1> DEFINE d == Append(w, Reward(h))
<1>1. d \in Seq(Int) /\ d # <<>>
  <2>1. w \in Seq(Int)
    BY ONLY Bounds, w \in Seq(1 .. MaxTx)
  <2>2. Reward(h) \in Int
    BY DEF Reward
  <2> QED BY <2>1, <2>2
<1> HIDE DEF d
<1>2. [id |-> h, data |-> d] \in FullBlocks
  BY <1>1 DEF FullBlocks, Blocks
<1> QED BY <1>2 DEF d

(* Where a failed try can lead.                                            *)
LEMMA FailedControl ==
    ASSUME ControlInv, Failed, stage # "off"
    PROVE  /\ stage' \in {"off", "ask", "up"} /\ tries' \in 0 .. MaxTries - 1 /\ links' = links
           /\ stage' = "off" => what = "chain"
           /\ stage' = "up" => what = "pool"
BY Bounds DEF ControlInv, TypeOK, Failed

(* ControlInv holds in the beginning,                                      *)
LEMMA ControlInit == Init => ControlInv
<1> SUFFICES ASSUME Init PROVE ControlInv
  OBVIOUS
<1>1. Range(waiting) \subseteq 1 .. MaxTx /\ waiting \in Seq(1 .. MaxTx)
  BY DEF Init, Range
<1> QED BY <1>1, Bounds, GenesisTyped DEF Init, ControlInv, TypeOK

(* is kept by every action,                                                *)
LEMMA ControlStep == ControlInv /\ [Next]_vars => ControlInv'
<1> SUFFICES ASSUME ControlInv, [Next]_vars PROVE ControlInv'
  OBVIOUS
<1> USE Bounds
<1>1. CASE Accept
  <2>1. waiting' \in Seq(1 .. MaxTx)
    <3>1. PICK place \in 1 .. Len(waiting) + 1 : waiting' = InsertAt(waiting, place, Min(1 .. MaxTx \ Known))
      BY <1>1 DEF Accept
    <3>2. Min(1 .. MaxTx \ Known) \in 1 .. MaxTx
      BY <1>1, FreshTx DEF Accept
    <3> QED BY <3>1, <3>2, InsertedTyped DEF ControlInv
  <2>2. Range(waiting') \subseteq 1 .. MaxTx
    BY <2>1, RangeTyped
  <2> QED BY <1>1, <2>1, <2>2 DEF Accept, ControlInv, TypeOK, links, net
<1>2. CASE Mine
  <2> DEFINE h == Len(chain) + 1
             b == [id |-> h, data |-> Append(waiting, Reward(h))]
  <2>1. chain' = Append(chain, b) /\ waiting' = <<>> /\ h \in Nat /\ h \in 1 .. MaxHeight
    BY <1>2 DEF Mine, ControlInv, TypeOK
  <2>2. b \in FullBlocks
    BY <2>1, MinedTyped DEF ControlInv
  <2> HIDE DEF b
  <2>3. chain' \in Seq(FullBlocks) /\ Len(chain') = h /\ chain' # <<>>
    BY <2>1, <2>2 DEF ControlInv
  <2>4. Range(waiting') \subseteq 1 .. MaxTx /\ waiting' \in Seq(1 .. MaxTx)
    BY <2>1 DEF Range
  <2> QED BY <1>2, <2>1, <2>3, <2>4 DEF Mine, ControlInv, TypeOK, links, net
<1>3. CASE Start
  BY <1>3 DEF Start, ControlInv, TypeOK, peer, links, net
<1>4. CASE End
  BY <1>4 DEF End, Forget, ControlInv, TypeOK, peer
<1>5. CASE AskPool
  BY <1>5 DEF AskPool, ControlInv, TypeOK, peer, links, net
<1>6. CASE AskInVain
  BY <1>6, FailedControl DEF AskInVain, ControlInv, TypeOK, peer, links, net
<1>7. CASE Serve
  BY <1>7 DEF Serve, ControlInv, TypeOK, peer, links
<1>8. CASE Request
  BY <1>8 DEF Request, ControlInv, TypeOK, peer, links
<1>9. CASE Cut
  BY <1>9 DEF Cut, ControlInv, TypeOK, peer, links
<1>10. CASE ReceiveFile
  <2>1. CASE conn # "reset" /\ stage' = "text" /\ UNCHANGED <<tries, links, conn, served, left>>
    BY <1>10, <2>1 DEF ReceiveFile, ControlInv, TypeOK, peer, links
  <2>2. CASE conn = "reset" /\ Failed /\ Forget
    BY <1>10, <2>2, FailedControl DEF ReceiveFile, Forget, ControlInv, TypeOK, peer, links
  <2> QED BY <1>10, <2>1, <2>2 DEF ReceiveFile
<1>11. CASE ReadChain
  <2>0. PICK parsed \in ParseChain(file.chain) :
           \/ /\ ~parsed.ends
              /\ stage' = "hung"
              /\ UNCHANGED <<what, tries, links, conn, served, left>>
           \/ /\ parsed.ends /\ parsed.chain = <<>>
              /\ Failed /\ Forget
              /\ UNCHANGED what
           \/ /\ parsed.ends /\ parsed.chain # <<>>
              /\ local' = parsed.chain
              /\ stage' = "ask" /\ what' = "pool" /\ tries' = 0
              /\ Forget
              /\ UNCHANGED pool
    BY <1>11 DEF ReadChain
  <2>1. CASE /\ ~parsed.ends
             /\ stage' = "hung"
             /\ UNCHANGED <<what, tries, links, conn, served, left>>
    BY <1>11, <2>1 DEF ReadChain, ControlInv, TypeOK, peer, links
  <2>2. CASE /\ parsed.ends /\ parsed.chain = <<>>
             /\ Failed /\ Forget
             /\ UNCHANGED what
    BY <1>11, <2>2, FailedControl DEF ReadChain, Forget, ControlInv, TypeOK, peer, links
  <2>3. CASE /\ parsed.ends /\ parsed.chain # <<>>
             /\ local' = parsed.chain
             /\ stage' = "ask" /\ what' = "pool" /\ tries' = 0
             /\ Forget
             /\ UNCHANGED pool
    BY <1>11, <2>3 DEF ReadChain, Forget, ControlInv, TypeOK, peer
  <2> QED BY <2>0, <2>1, <2>2, <2>3
<1>12. CASE ReadPool
  BY <1>12 DEF ReadPool, Forget, ControlInv, TypeOK, peer
<1>13. CASE OutOfMemory
  BY <1>13, FailedControl DEF OutOfMemory, Forget, ControlInv, TypeOK, peer, links
<1>14. CASE ServeOthers
  BY <1>14 DEF ServeOthers, ControlInv, TypeOK, peer, links, net
<1>15. CASE UNCHANGED vars
  BY <1>15 DEF vars, ControlInv, TypeOK, peer, links, net
<1> QED BY <1>1, <1>2, <1>3, <1>4, <1>5, <1>6, <1>7, <1>8, <1>9, <1>10, <1>11, <1>12, <1>13, <1>14, <1>15
        DEF Next, Link

(* and so holds always.                                                    *)
LEMMA ControlHolds == Spec => []ControlInv
<1>1. Init => ControlInv
  BY ControlInit
<1>2. ControlInv /\ [Next]_vars => ControlInv'
  BY ControlStep
<1> QED BY <1>1, <1>2, PTL DEF Spec

(* Every variable has its type.                                            *)
THEOREM TransferTypeOK == Spec => []TypeOK
<1>1. ControlInv => TypeOK
  BY DEF ControlInv
<1> QED BY <1>1, ControlHolds, PTL

(* What the peer writes is read back.                                      *)
THEOREM ReadBack == Spec => []ReadsWhatItWrites
<1>1. ControlInv => ReadsWhatItWrites
  <2> SUFFICES ASSUME ControlInv PROVE ReadsWhatItWrites
    OBVIOUS
  <2>1. ParseChain(ChainText(chain)) = {[chain |-> chain, ends |-> TRUE]}
    BY ChainReadBack DEF ControlInv
  <2>2. waiting \in Seq(Int)
    BY Bounds DEF ControlInv
  <2>3. ParsePool(PoolText(waiting)) = [data |-> waiting, ends |-> TRUE]
    BY <2>2, PoolReadBack
  <2> QED BY <2>1, <2>3 DEF ReadsWhatItWrites
<1> QED BY <1>1, ControlHolds, PTL

-----------------------------------------------------------------------------
(* Texts.                                                                  *)

TextOf(kind, data) == IF kind = "chain" THEN ChainText(data) ELSE PoolText(data)

(* Nothing of a text of this kind is half there.                           *)
Complete(kind, text) == text \in Texts /\ IF kind = "chain" THEN Closed(text) ELSE PoolClosed(text)

WellServed == IF what = "chain" THEN served \in Seq(FullBlocks) ELSE served \in Seq(Int)

(* The files while no connection was cut: each is a row of whole texts but *)
(* for the beginning of the first, and at the end of a transfer is what    *)
(* was there before and what is left of the text that was served.          *)
FilesInv ==
    /\ conn = "open"
    /\ file = [chain |-> file.chain, pool |-> file.pool]
    /\ Complete("chain", file.chain) /\ Complete("pool", file.pool)
    /\ local \in Seq(Blocks) /\ pool \in Seq(Int)
    /\ stage \in {"first", "rest", "text"} => WellServed /\ Complete(what, left)
    /\ stage \in {"first", "rest"} => left = file[what]
    /\ stage = "first" => wire = TextOf(what, served)
    /\ stage = "rest" => wire \in Remainders(TextOf(what, served))
    /\ stage = "text" => \E more \in Remainders(TextOf(what, served)) : file[what] = left \o more
    /\ stage = "hung" => left # <<>>

(* A file that is not there is complete.                                   *)
LEMMA EmptyComplete == Complete("chain", <<>>) /\ Complete("pool", <<>>)
BY DEF Complete, Closed, PoolClosed, Texts

(* What is left of a text of the peer, added to a complete file, makes a   *)
(* complete file.                                                          *)
LEMMA ReceivedComplete ==
    ASSUME NEW kind \in {"chain", "pool"}, NEW old, Complete(kind, old),
           NEW data, IF kind = "chain" THEN data \in Seq(FullBlocks) ELSE data \in Seq(Int),
           NEW more \in Remainders(TextOf(kind, data))
    PROVE  Complete(kind, old \o more)
<1>1. CASE kind = "chain"
  <2>1. old \in Texts /\ Closed(old) /\ data \in Seq(FullBlocks) /\ more \in Remainders(ChainText(data))
    BY <1>1 DEF Complete, TextOf
  <2>2. old \o more \in Texts /\ Closed(old \o more)
    BY <2>1, ChainAdded
  <2> QED BY <1>1, <2>2 DEF Complete
<1>2. CASE kind = "pool"
  <2>1. old \in Texts /\ PoolClosed(old) /\ data \in Seq(Int) /\ more \in Remainders(PoolText(data))
    BY <1>2 DEF Complete, TextOf
  <2>2. old \o more \in Texts /\ PoolClosed(old \o more)
    BY <2>1, PoolAdded
  <2> QED BY <1>2, <2>2 DEF Complete
<1> QED BY <1>1, <1>2

(* What a file is read as are chains,                                      *)
LEMMA ParsedChainTyped ==
    ASSUME NEW text \in Texts
    PROVE  ParseChain(text) \in SUBSET Results
<1>1. 1 \in 1 .. Len(text) + 3
  BY DEF Texts
<1> QED BY <1>1, ResultsOf, ChainByBody

(* or a pool.                                                              *)
LEMMA ParsedPoolTyped ==
    ASSUME NEW text \in Texts
    PROVE  ParsePool(text).data \in Seq(Int)
<1>1. 1 \in 1 .. Len(text) + 1
  BY DEF Texts
<1> QED BY <1>1, ParsedTyped DEF ParsePool

(* The pool in an order of the map.                                        *)
LEMMA OrderTyped ==
    ASSUME NEW seq \in Seq(Int), NEW inMap \in Orders(seq)
    PROVE  inMap \in Seq(Int)
<1> DEFINE n == Len(seq)
           D == DOMAIN seq
<1>1. n \in Nat /\ D = 1 .. n
  OBVIOUS
<1>2. Cardinality(1 .. n) = n
  BY <1>1, FS_Interval
<1>3. PICK order \in SetToSeqs(D) : inMap = [i \in D |-> seq[order[i]]]
  BY DEF Orders
<1>4. order \in [1 .. n -> 1 .. n]
  BY <1>1, <1>2, <1>3 DEF SetToSeqs
<1>5. inMap \in [1 .. n -> Int]
  <2>1. \A i \in 1 .. n : order[i] \in 1 .. n
    BY <1>4
  <2>2. \A i \in 1 .. n : seq[order[i]] \in Int
    BY <2>1
  <2> QED BY <1>1, <1>3, <2>2
<1> HIDE DEF n
<1> QED BY <1>1, <1>5

(* FilesInv holds in the beginning.                                        *)
LEMMA FilesInit == Init => FilesInv
<1> SUFFICES ASSUME Init PROVE FilesInv
  OBVIOUS
<1>1. Complete("chain", file.chain) /\ Complete("pool", file.pool)
  BY EmptyComplete DEF Init
<1>2. local \in Seq(Blocks) /\ pool \in Seq(Int)
  BY DEF Init
<1> QED BY <1>1, <1>2 DEF Init, FilesInv

(* A failed try changes neither chain nor pool of the client.              *)
LEMMA FailedFiles ==
    ASSUME Failed
    PROVE  stage' \in {"off", "ask", "up"} /\ local' = local /\ pool' = pool
BY DEF Failed, links

(* A step to a stage at which no transfer is in course.                    *)
LEMMA NotReceiving ==
    ASSUME stage' \in {"off", "ask", "ready", "up"}, conn' = "open",
           file' = [chain |-> file'.chain, pool |-> file'.pool],
           Complete("chain", file'.chain), Complete("pool", file'.pool),
           local' \in Seq(Blocks), pool' \in Seq(Int)
    PROVE  FilesInv'
BY DEF FilesInv

(* Every action but Cut keeps FilesInv.  That a hung client had a file     *)
(* before is ChainAdded and PoolAdded, for the empty text.                 *)
LEMMA FilesStep == ControlInv /\ (cuts = 0 => FilesInv) /\ [Next]_vars => (cuts' = 0 => FilesInv')
<1> SUFFICES ASSUME ControlInv, cuts = 0 => FilesInv, [Next]_vars, cuts' = 0 PROVE FilesInv'
  OBVIOUS
<1>0. cuts = 0 /\ FilesInv /\ ~Cut
  <2>1. cuts \in Nat
    BY Bounds DEF ControlInv, TypeOK
  <2>2. ~Cut
    BY <2>1 DEF Cut
  <2>3. cuts' = cuts
    BY <2>2 DEF Next, Link, Accept, Mine, Start, End, AskPool, AskInVain, Serve, Request, ReceiveFile,
                ReadChain, ReadPool, OutOfMemory, ServeOthers, vars
  <2> QED BY <2>2, <2>3
<1>1. CASE Accept
  BY <1>0, <1>1 DEF Accept, FilesInv, WellServed, links, net
<1>2. CASE Mine
  BY <1>0, <1>2 DEF Mine, FilesInv, WellServed, links, net
<1>3. CASE Start
  BY <1>0, <1>3 DEF Start, FilesInv, WellServed, links, net
<1>4. CASE End
  <2>1. local' \in Seq(Blocks) /\ pool' \in Seq(Int)
    BY <1>4 DEF End
  <2> QED BY <1>0, <1>4, <2>1, NotReceiving DEF End, Forget, FilesInv
<1>5. CASE AskPool
  BY <1>0, <1>5, NotReceiving DEF AskPool, FilesInv, links, net
<1>6. CASE AskInVain
  BY <1>0, <1>6, FailedFiles, NotReceiving DEF AskInVain, FilesInv, net
<1>7. CASE Serve
  <2>1. CASE what = "chain"
    <3>1. served' \in Seq(FullBlocks) /\ wire' = TextOf(what', served') /\ what' = "chain" /\ stage' = "first"
      BY <1>7, <2>1 DEF Serve, TextOf, ControlInv
    <3> QED BY <1>0, <1>7, <2>1, <3>1 DEF Serve, FilesInv, WellServed, links, Complete
  <2>2. CASE what = "pool"
    <3>0. waiting \in Seq(Int)
      BY Bounds DEF ControlInv
    <3>1. served' \in Seq(Int) /\ wire' = TextOf(what', served') /\ what' = "pool" /\ stage' = "first"
      BY <1>7, <2>2, <3>0 DEF Serve, TextOf
    <3> QED BY <1>0, <1>7, <2>2, <3>1 DEF Serve, FilesInv, WellServed, links, Complete
  <2> QED BY <2>1, <2>2 DEF ControlInv, TypeOK
<1>8. CASE Request
  BY <1>0, <1>8 DEF Request, FilesInv, WellServed, links
<1>9. CASE ReceiveFile
  <2>1. stage = "rest" /\ wire \in Remainders(TextOf(what, served)) /\ left = file[what] /\ what \in {"chain", "pool"}
    BY <1>0, <1>9 DEF ReceiveFile, FilesInv, ControlInv, TypeOK
  <2>2. WellServed /\ Complete(what, left)
    BY <1>0, <2>1 DEF FilesInv
  <2>3. Complete(what, left \o wire)
    BY <2>1, <2>2, ReceivedComplete DEF WellServed
  <2>4. /\ file' = [chain |-> file'.chain, pool |-> file'.pool] /\ file'[what] = left \o wire
        /\ Complete("chain", file'.chain) /\ Complete("pool", file'.pool)
    <3> DEFINE text == left \o wire
    <3>1. file' = [file EXCEPT ![what] = text]
      BY <1>9, <2>1 DEF ReceiveFile, Appended
    <3> HIDE DEF text
    <3>2. file = [chain |-> file.chain, pool |-> file.pool] /\ Complete("chain", file.chain) /\ Complete("pool", file.pool)
      BY <1>0 DEF FilesInv
    <3>3. CASE what = "chain"
      <4>1. file' = [chain |-> text, pool |-> file.pool]
        BY <3>1, <3>2, <3>3
      <4> QED BY <2>3, <3>2, <3>3, <4>1 DEF text
    <3>4. CASE what = "pool"
      <4>1. file' = [chain |-> file.chain, pool |-> text]
        BY <3>1, <3>2, <3>4
      <4> QED BY <2>3, <3>2, <3>4, <4>1 DEF text
    <3> QED BY <2>1, <3>3, <3>4
  <2>5. conn = "open"
    BY <1>0 DEF FilesInv
  <2>6. stage' = "text" /\ UNCHANGED <<tries, links, conn, served, left, what>>
    BY <1>9, <2>5 DEF ReceiveFile
  <2> QED BY <1>0, <2>1, <2>2, <2>4, <2>6 DEF FilesInv, WellServed, links
<1>10. CASE ReadChain
  <2>0. PICK parsed \in ParseChain(file.chain) :
           \/ /\ ~parsed.ends
              /\ stage' = "hung"
              /\ UNCHANGED <<what, tries, links, conn, served, left>>
           \/ /\ parsed.ends /\ parsed.chain = <<>>
              /\ Failed /\ Forget
              /\ UNCHANGED what
           \/ /\ parsed.ends /\ parsed.chain # <<>>
              /\ local' = parsed.chain
              /\ stage' = "ask" /\ what' = "pool" /\ tries' = 0
              /\ Forget
              /\ UNCHANGED pool
    BY <1>10 DEF ReadChain
  <2>1. stage = "text" /\ what = "chain" /\ file.chain \in Texts /\ local \in Seq(Blocks) /\ pool \in Seq(Int)
    BY <1>0, <1>10 DEF ReadChain, FilesInv, Complete
  <2>2. /\ file' = [chain |-> file'.chain, pool |-> file'.pool]
        /\ Complete("chain", file'.chain) /\ Complete("pool", file'.pool)
    <3>1. file' = [file EXCEPT !.chain = <<>>] /\ file = [chain |-> file.chain, pool |-> file.pool]
          /\ Complete("pool", file.pool)
      BY <1>0, <1>10 DEF ReadChain, FilesInv
    <3>2. file' = [chain |-> <<>>, pool |-> file.pool]
      BY <3>1
    <3> QED BY <3>1, <3>2, EmptyComplete
  <2>3. CASE /\ ~parsed.ends
             /\ stage' = "hung"
             /\ UNCHANGED <<what, tries, links, conn, served, left>>
    <3>1. left # <<>>
      <4> SUFFICES ASSUME left = <<>> PROVE FALSE
        OBVIOUS
      <4>1. PICK more \in Remainders(ChainText(served)) : file.chain = left \o more
        BY <1>0, <2>1 DEF FilesInv, TextOf
      <4>2. left \in Texts /\ Closed(left) /\ served \in Seq(FullBlocks)
        BY <1>0, <2>1 DEF FilesInv, WellServed, Complete
      <4>3. \A c \in ParseChain(left \o more) : TailRead(c, served)
        BY <4>1, <4>2, ChainAdded
      <4> QED BY <2>3, <4>1, <4>3 DEF TailRead
    <3> QED BY <1>0, <2>1, <2>2, <2>3, <3>1 DEF FilesInv, links
  <2>4. CASE /\ parsed.ends /\ parsed.chain = <<>>
             /\ Failed /\ Forget
             /\ UNCHANGED what
    BY <2>1, <2>2, <2>4, FailedFiles, NotReceiving DEF Forget
  <2>5. CASE /\ parsed.ends /\ parsed.chain # <<>>
             /\ local' = parsed.chain
             /\ stage' = "ask" /\ what' = "pool" /\ tries' = 0
             /\ Forget
             /\ UNCHANGED pool
    <3>1. parsed \in Results
      BY <2>1, ParsedChainTyped
    <3>2. local' \in Seq(Blocks)
      BY <2>5, <3>1 DEF Results
    <3> QED BY <2>1, <2>2, <2>5, <3>2, NotReceiving DEF Forget
  <2> QED BY <2>0, <2>3, <2>4, <2>5
<1>11. CASE ReadPool
  <2>1. /\ stage = "text" /\ what = "pool" /\ file.pool \in Texts /\ local \in Seq(Blocks) /\ pool \in Seq(Int)
        /\ file' = file /\ what' = what /\ local' = local
    BY <1>0, <1>11 DEF ReadPool, FilesInv, Complete
  <2>2. /\ file = [chain |-> file.chain, pool |-> file.pool]
        /\ Complete("chain", file.chain) /\ Complete("pool", file.pool)
    BY <1>0 DEF FilesInv
  <2>3. CASE ~ParsePool(file.pool).ends /\ stage' = "hung" /\ UNCHANGED <<pool, conn, served, left>>
    <3>1. left # <<>>
      <4> SUFFICES ASSUME left = <<>> PROVE FALSE
        OBVIOUS
      <4>1. PICK more \in Remainders(PoolText(served)) : file.pool = left \o more
        BY <1>0, <2>1 DEF FilesInv, TextOf
      <4>2. left \in Texts /\ PoolClosed(left) /\ served \in Seq(Int)
        BY <1>0, <2>1 DEF FilesInv, WellServed, Complete
      <4>3. ParsePool(left \o more).ends
        BY <4>1, <4>2, PoolAdded
      <4> QED BY <2>3, <4>1, <4>3
    <3> QED BY <1>0, <2>1, <2>2, <2>3, <3>1 DEF FilesInv
  <2>4. CASE ParsePool(file.pool).ends /\ stage' = "up" /\ pool' = ParsePool(file.pool).data /\ Forget
    <3>1. pool' \in Seq(Int)
      BY <2>1, <2>4, ParsedPoolTyped
    <3> QED BY <2>1, <2>2, <2>4, <3>1, NotReceiving DEF Forget
  <2> QED BY <1>11, <2>3, <2>4 DEF ReadPool
<1>12. CASE OutOfMemory
  BY <1>0, <1>12, FailedFiles, NotReceiving DEF OutOfMemory, Forget, FilesInv
<1>13. CASE ServeOthers
  <2>1. /\ stage' = "up" /\ conn' = "open" /\ local' = local /\ pool' = pool
        /\ local \in Seq(Blocks) /\ pool \in Seq(Int)
        /\ file = [chain |-> file.chain, pool |-> file.pool]
        /\ Complete("chain", file.chain) /\ Complete("pool", file.pool)
    BY <1>0, <1>13 DEF ServeOthers, FilesInv, links, net
  <2>2. CASE file' = [file EXCEPT !.chain = ChainText(local)]
    <3>1. Complete("chain", ChainText(local))
      BY <2>1, ChainTextClosed DEF Complete
    <3>2. file' = [chain |-> ChainText(local), pool |-> file.pool]
      BY <2>1, <2>2
    <3> QED BY <2>1, <3>1, <3>2, NotReceiving
  <2>3. CASE \E inMap \in Orders(pool) : file' = [file EXCEPT !.pool = PoolText(inMap)]
    <3>0. PICK inMap \in Orders(pool) : file' = [file EXCEPT !.pool = PoolText(inMap)]
      BY <2>3
    <3>1. inMap \in Seq(Int)
      BY <2>1, OrderTyped
    <3>2. Complete("pool", PoolText(inMap))
      BY <3>1, PoolTextClosed DEF Complete
    <3>3. file' = [chain |-> file.chain, pool |-> PoolText(inMap)]
      BY <2>1, <3>0
    <3> QED BY <2>1, <3>2, <3>3, NotReceiving
  <2> QED BY <1>13, <2>2, <2>3 DEF ServeOthers
<1>14. CASE UNCHANGED vars
  BY <1>0, <1>14 DEF vars, FilesInv, WellServed, links, net
<1> QED BY <1>0, <1>1, <1>2, <1>3, <1>4, <1>5, <1>6, <1>7, <1>8, <1>9, <1>10, <1>11, <1>12, <1>13, <1>14
        DEF Next, Link

TransferInv == ControlInv /\ (cuts = 0 => FilesInv)

(* The files are complete as long as no connection was cut.                *)
LEMMA FilesHold == Spec => []TransferInv
<1>1. Init => TransferInv
  BY ControlInit, FilesInit DEF TransferInv
<1>2. TransferInv /\ [Next]_vars => TransferInv'
  BY ControlStep, FilesStep DEF TransferInv
<1> QED BY <1>1, <1>2, PTL DEF Spec

(* A text is read for ever only where something was lost or left.          *)
THEOREM HangsExplained == Spec => []HangsAreExplained
<1>1. TransferInv => HangsAreExplained
  BY Bounds DEF TransferInv, ControlInv, TypeOK, FilesInv, HangsAreExplained
<1> QED BY <1>1, FilesHold, PTL

-----------------------------------------------------------------------------
(* What a transfer adds.                                                   *)

(* The two parts of a sequence that was put together of them.              *)
LEMMA SplitAgain ==
    ASSUME NEW S, NEW a \in Seq(S), NEW b \in Seq(S), NEW c, c = a \o b
    PROVE  /\ Len(a) \in 0 .. Len(c) /\ Len(a) \in Nat /\ Len(c) = Len(a) + Len(b)
           /\ SubSeq(c, 1, Len(a)) = a /\ SubSeq(c, Len(a) + 1, Len(c)) = b
           /\ \A i \in 1 .. Len(b) : c[Len(a) + i] = b[i]
<1> DEFINE m == Len(a)
           n == Len(b)
<1>1. /\ c \in Seq(S) /\ Len(c) = m + n /\ m \in Nat /\ n \in Nat
      /\ \A x \in 1 .. m + n : c[x] = IF x <= m THEN a[x] ELSE b[x - m]
  <2>1. /\ a \o b \in Seq(S) /\ Len(a \o b) = Len(a) + Len(b)
        /\ \A x \in 1 .. Len(a) + Len(b) : (a \o b)[x] = IF x <= Len(a) THEN a[x] ELSE b[x - Len(a)]
    BY ONLY a \in Seq(S), b \in Seq(S), ConcatProperties
  <2> QED BY <2>1
<1>2. Len(a) = m /\ Len(b) = n
  OBVIOUS
<1> HIDE DEF m, n
<1>3. \A i \in 1 .. n : m + i \in 1 .. m + n /\ ~(m + i <= m) /\ (m + i) - m = i
  BY <1>1
<1>4. \A i \in 1 .. n : c[m + i] = b[i]
  BY <1>1, <1>3
<1>5. \A i \in 1 .. m : c[i] = a[i] /\ c[i] \in S
  <2>1. \A i \in 1 .. m : i \in 1 .. m + n /\ i <= m
    BY <1>1
  <2>2. \A i \in 1 .. m : a[i] \in S
    BY <1>2
  <2> QED BY <1>1, <2>1, <2>2
<1>6. SubSeq(c, 1, m) = a
  <2>1. 1 \in Int /\ m \in Int /\ \A y \in 1 .. m : c[y] \in S
    BY <1>1, <1>5
  <2>2. /\ SubSeq(c, 1, m) \in Seq(S) /\ Len(SubSeq(c, 1, m)) = IF 1 <= m THEN m - 1 + 1 ELSE 0
        /\ \A x \in 1 .. m - 1 + 1 : SubSeq(c, 1, m)[x] = c[1 + x - 1]
    BY ONLY <2>1, SubSeqProperties
  <2> DEFINE s == SubSeq(c, 1, m)
  <2>3. s \in Seq(S) /\ Len(s) = m /\ \A x \in 1 .. m : s[x] = c[x]
    BY <1>1, <2>2
  <2> HIDE DEF s
  <2>4. s = a
    BY <1>2, <1>5, <2>3, SeqEqual
  <2> QED BY <2>4 DEF s
<1>7. SubSeq(c, m + 1, m + n) = b
  <2> DEFINE lo == m + 1
             hi == m + n
             s == SubSeq(c, lo, hi)
  <2>1. lo \in Int /\ hi \in Int /\ \A y \in lo .. hi : c[y] \in S
    <3>1. \A y \in m + 1 .. m + n : y \in 1 .. m + n
      BY <1>1
    <3>2. \A y \in 1 .. m + n : c[y] \in S
      BY <1>1
    <3> QED BY <1>1, <3>1, <3>2
  <2>2. /\ (IF lo <= hi THEN hi - lo + 1 ELSE 0) = n /\ hi - lo + 1 = n
        /\ \A x \in 1 .. n : lo + x - 1 = m + x
    BY <1>1
  <2> HIDE DEF lo, hi
  <2>3. /\ SubSeq(c, lo, hi) \in Seq(S)
        /\ Len(SubSeq(c, lo, hi)) = IF lo <= hi THEN hi - lo + 1 ELSE 0
        /\ \A x \in 1 .. hi - lo + 1 : SubSeq(c, lo, hi)[x] = c[lo + x - 1]
    BY ONLY <2>1, SubSeqProperties
  <2>4. s \in Seq(S) /\ Len(s) = n /\ \A x \in 1 .. n : s[x] = c[m + x]
    BY <2>2, <2>3
  <2> HIDE DEF s
  <2>5. s = b
    BY <1>2, <1>4, <2>4, SeqEqual
  <2> QED BY <2>5 DEF s, lo, hi
<1>8. m \in 0 .. m + n
  BY <1>1
<1> QED BY <1>1, <1>2, <1>4, <1>6, <1>7, <1>8

(* What was there, one thing more, and an end.                             *)
LEMMA SplitBehind ==
    ASSUME NEW S, NEW a \in Seq(S), NEW x \in S, NEW e \in Seq(S), NEW c, c = a \o (<<x>> \o e)
    PROVE  /\ Len(a) \in Nat /\ Len(a) + 1 <= Len(c) /\ Len(c) \in Nat
           /\ SubSeq(c, 1, Len(a)) = a /\ c[Len(a) + 1] = x
           /\ SubSeq(c, Len(a) + 2, Len(c)) = e
<1> DEFINE h == <<x>>
           b == h \o e
           d == a \o h
<1>1. h \in Seq(S) /\ Len(h) = 1 /\ h[1] = x
  OBVIOUS
<1> HIDE DEF h
<1>2. b \in Seq(S) /\ d \in Seq(S)
  BY <1>1
<1>3. c = a \o b
  BY DEF h
<1>4. c = d \o e
  <2>1. (a \o h) \o e = a \o (h \o e)
    BY ONLY a \in Seq(S), e \in Seq(S), <1>1, ConcatAssociative
  <2> QED BY <1>3, <2>1
<1>5. Len(b) = Len(h) + Len(e) /\ b[1] = h[1]
  <2>1. /\ Len(b) = Len(h) + Len(e)
        /\ \A y \in 1 .. Len(h) + Len(e) : b[y] = IF y <= Len(h) THEN h[y] ELSE e[y - Len(h)]
    BY ONLY e \in Seq(S), <1>1, ConcatProperties
  <2>2. 1 \in 1 .. Len(h) + Len(e) /\ 1 <= Len(h)
    BY <1>1
  <2> QED BY <2>1, <2>2
<1>6. Len(d) = Len(a) + 1
  <2>1. Len(d) = Len(a) + Len(h)
    BY ONLY a \in Seq(S), <1>1, ConcatProperties
  <2> QED BY <1>1, <2>1
<1> HIDE DEF b, d
<1>7. /\ Len(a) \in Nat /\ Len(c) = Len(a) + Len(b) /\ SubSeq(c, 1, Len(a)) = a
      /\ \A i \in 1 .. Len(b) : c[Len(a) + i] = b[i]
  <2>1. Len(a) \in Nat /\ Len(c) = Len(a) + Len(b) /\ SubSeq(c, 1, Len(a)) = a
    BY ONLY <1>2, <1>3, a \in Seq(S), SplitAgain
  <2>2. \A i \in 1 .. Len(b) : c[Len(a) + i] = b[i]
    BY ONLY <1>2, <1>3, a \in Seq(S), SplitAgain
  <2> QED BY <2>1, <2>2
<1>8. SubSeq(c, Len(d) + 1, Len(c)) = e
  BY <1>2, <1>4, SplitAgain
<1>9. Len(e) \in Nat /\ 1 \in 1 .. Len(b) /\ Len(c) \in Nat /\ Len(a) + 1 <= Len(c)
  BY <1>1, <1>5, <1>7
<1>10. c[Len(a) + 1] = x
  BY <1>1, <1>5, <1>7, <1>9
<1>11. Len(d) + 1 = Len(a) + 2
  BY <1>6, <1>7
<1> QED BY <1>7, <1>8, <1>9, <1>10, <1>11

(* A chain that goes on with what a part of the served one is read as.     *)
LEMMA ExtendsShows ==
    ASSUME NEW c, NEW old \in Results, NEW all \in Seq(Blocks), Extends(c, old, all), NEW now, now = c.chain
    PROVE  \E i \in 0 .. Len(now) :
              /\ old.chain = SubSeq(now, 1, i)
              /\ \/ IsTailOf(SubSeq(now, i + 1, Len(now)), all)
                 \/ /\ i < Len(now) /\ now[i + 1].id = 0
                    /\ IsTailOf(SubSeq(now, i + 2, Len(now)), all)
<1> DEFINE a == old.chain
           i == Len(a)
<1>1. a \in Seq(Blocks)
  BY DEF Results
<1>2. PICK t \in Results : TailRead(t, all) /\ now = a \o t.chain
  BY DEF Extends
<1> DEFINE e == t.chain
<1>3. e \in Seq(Blocks) /\ now = a \o e
  BY <1>2 DEF Results
<1> HIDE DEF a, e
<1>4. PICK b \in 1 .. Len(all) + 1 :
          \/ e = SubSeq(all, b, Len(all))
          \/ \E x \in Blocks : x.id = 0 /\ e = <<x>> \o SubSeq(all, b, Len(all))
  BY <1>2 DEF TailRead, e
<1> DEFINE s == SubSeq(all, b, Len(all))
<1>5. IsTailOf(s, all) /\ s \in Seq(Blocks)
  <2>1. IsTailOf(s, all)
    BY DEF IsTailOf
  <2>2. b \in Int /\ Len(all) \in Int /\ \A y \in b .. Len(all) : all[y] \in Blocks
    OBVIOUS
  <2>3. s \in Seq(Blocks)
    BY ONLY <2>2, SubSeqProperties
  <2> QED BY <2>1, <2>3
<1>6. e = s \/ \E x \in Blocks : x.id = 0 /\ e = <<x>> \o s
  BY <1>4
<1> HIDE DEF s
<1>7. CASE e = s
  <2>1. /\ Len(a) \in 0 .. Len(now) /\ SubSeq(now, 1, Len(a)) = a
        /\ SubSeq(now, Len(a) + 1, Len(now)) = e
    BY <1>1, <1>3, SplitAgain
  <2> QED BY <1>5, <1>7, <2>1 DEF a
<1>8. CASE \E x \in Blocks : x.id = 0 /\ e = <<x>> \o s
  <2>1. PICK x \in Blocks : x.id = 0 /\ e = <<x>> \o s
    BY <1>8
  <2>2. /\ Len(a) \in Nat /\ Len(a) + 1 <= Len(now) /\ Len(now) \in Nat
        /\ SubSeq(now, 1, Len(a)) = a /\ now[Len(a) + 1] = x
        /\ SubSeq(now, Len(a) + 2, Len(now)) = s
    BY <1>1, <1>3, <1>5, <2>1, SplitBehind
  <2>3. Len(a) \in 0 .. Len(now) /\ Len(a) < Len(now)
    BY <2>2
  <2> QED BY <1>5, <2>1, <2>2, <2>3 DEF a
<1> QED BY <1>6, <1>7, <1>8

(* The same of a pool.                                                     *)
LEMMA PoolExtendsShows ==
    ASSUME NEW now, NEW old \in Seq(Int), NEW all \in Seq(Int), PoolExtends(now, old, all)
    PROVE  \E i \in {Len(old), Len(old) + 1} :
              /\ old = SubSeq(now, 1, Len(old))
              /\ \A k \in Len(old) + 1 .. i : k \in DOMAIN now => now[k] = 0
              /\ IsTailOf(SubSeq(now, i + 1, Len(now)), all)
<1>1. PICK e \in Seq(Int) : PoolTail(e, all) /\ now = old \o e
  BY DEF PoolExtends
<1>2. PICK b \in 1 .. Len(all) + 1 : e = SubSeq(all, b, Len(all)) \/ e = <<0>> \o SubSeq(all, b, Len(all))
  BY <1>1 DEF PoolTail
<1> DEFINE s == SubSeq(all, b, Len(all))
<1>3. IsTailOf(s, all) /\ s \in Seq(Int)
  <2>1. IsTailOf(s, all)
    BY DEF IsTailOf
  <2>2. b \in Int /\ Len(all) \in Int /\ \A y \in b .. Len(all) : all[y] \in Int
    OBVIOUS
  <2>3. s \in Seq(Int)
    BY ONLY <2>2, SubSeqProperties
  <2> QED BY <2>1, <2>3
<1>4. e = s \/ e = <<0>> \o s
  BY <1>2
<1> HIDE DEF s
<1>5. CASE e = s
  <2>1. /\ Len(old) \in Nat /\ SubSeq(now, 1, Len(old)) = old
        /\ SubSeq(now, Len(old) + 1, Len(now)) = e
    BY <1>1, SplitAgain
  <2>2. Len(old) + 1 .. Len(old) = {}
    BY <2>1
  <2> QED BY <1>3, <1>5, <2>1, <2>2
<1>6. CASE e = <<0>> \o s
  <2>1. now = old \o (<<0>> \o s) /\ 0 \in Int
    BY <1>1, <1>6
  <2>2. /\ Len(old) \in Nat
        /\ SubSeq(now, 1, Len(old)) = old /\ now[Len(old) + 1] = 0
        /\ SubSeq(now, Len(old) + 2, Len(now)) = s
    BY <1>3, <2>1, SplitBehind
  <2>3. \A k \in Len(old) + 1 .. Len(old) + 1 : k = Len(old) + 1
    BY <2>2
  <2>4. (Len(old) + 1) + 1 = Len(old) + 2
    BY <2>2
  <2> QED BY <1>3, <2>2, <2>3, <2>4
<1> QED BY <1>4, <1>5, <1>6

(* ReadChain is the only action that gives the client a chain, and it has  *)
(* the file then that the transfer has left.                               *)
LEMMA ChainStep ==
    ASSUME TransferInv, [Next]_vars, cuts = 0, local' # local, local' # <<>>
    PROVE  \E old \in ParseChain(left), i \in 0 .. Len(local') :
              /\ old.chain = SubSeq(local', 1, i)
              /\ \/ IsTailOf(SubSeq(local', i + 1, Len(local')), served)
                 \/ /\ i < Len(local') /\ local'[i + 1].id = 0
                    /\ IsTailOf(SubSeq(local', i + 2, Len(local')), served)
<1>0. FilesInv
  BY DEF TransferInv
<1>1. ReadChain
  BY FailedFiles DEF Next, Link, Accept, Mine, Start, End, Cut, AskPool, AskInVain, Serve, Request, ReceiveFile,
     ReadPool, OutOfMemory, ServeOthers, links, vars
<1>2. PICK parsed \in ParseChain(file.chain) : parsed.ends /\ local' = parsed.chain
  BY <1>1, FailedFiles DEF ReadChain, links
<1>3. stage = "text" /\ what = "chain"
  BY <1>1 DEF ReadChain
<1>4. left \in Texts /\ Closed(left) /\ served \in Seq(FullBlocks)
  BY <1>0, <1>3 DEF FilesInv, WellServed, Complete
<1>5. PICK more \in Remainders(ChainText(served)) : file.chain = left \o more
  BY <1>0, <1>3 DEF FilesInv, TextOf
<1>6. PICK old \in ParseChain(left) : Extends(parsed, old, served)
  BY <1>2, <1>4, <1>5, ChainAdded
<1>7. old \in Results
  BY <1>4, ParsedChainTyped
<1>8. served \in Seq(Blocks)
  BY <1>4, FullIsBlock
<1> DEFINE now == local'
<1>9. now = parsed.chain
  BY <1>2
<1> HIDE DEF now
<1>10. \E i \in 0 .. Len(now) :
          /\ old.chain = SubSeq(now, 1, i)
          /\ \/ IsTailOf(SubSeq(now, i + 1, Len(now)), served)
             \/ /\ i < Len(now) /\ now[i + 1].id = 0
                /\ IsTailOf(SubSeq(now, i + 2, Len(now)), served)
  BY <1>6, <1>7, <1>8, <1>9, ExtendsShows
<1> QED BY <1>10 DEF now

(* The same of ReadPool and the pool.                                      *)
LEMMA PoolStep ==
    ASSUME TransferInv, [Next]_vars, cuts = 0, pool' # pool, pool' # <<>>,
           NEW old, old = ParsePool(left).data
    PROVE  \E i \in {Len(old), Len(old) + 1} :
              /\ old = SubSeq(pool', 1, Len(old))
              /\ \A k \in Len(old) + 1 .. i : k \in DOMAIN pool' => pool'[k] = 0
              /\ IsTailOf(SubSeq(pool', i + 1, Len(pool')), served)
<1>0. FilesInv
  BY DEF TransferInv
<1>1. ReadPool
  BY FailedFiles DEF Next, Link, Accept, Mine, Start, End, Cut, AskPool, AskInVain, Serve, Request, ReceiveFile,
     ReadChain, OutOfMemory, ServeOthers, links, vars
<1>2. ParsePool(file.pool).ends /\ pool' = ParsePool(file.pool).data
  BY <1>1 DEF ReadPool
<1>3. stage = "text" /\ what = "pool"
  BY <1>1 DEF ReadPool
<1>4. left \in Texts /\ PoolClosed(left) /\ served \in Seq(Int)
  BY <1>0, <1>3 DEF FilesInv, WellServed, Complete
<1>5. PICK more \in Remainders(PoolText(served)) : file.pool = left \o more
  BY <1>0, <1>3 DEF FilesInv, TextOf
<1>6. PoolExtends(pool', old, served)
  BY <1>2, <1>4, <1>5, PoolAdded
<1>7. old \in Seq(Int)
  BY <1>4, ParsedPoolTyped
<1> QED BY <1>4, <1>6, <1>7, PoolExtendsShows

(* What is received is read as an end of what was served, behind what was  *)
(* there before and at most one block or transaction without a number.     *)
THEOREM ReceivedTail == Spec => ReceivedIsTail
<1>1. TransferInv /\ [Next]_vars =>
         [cuts = 0 /\ local' # local /\ local' # <<>> =>
          \E old \in ParseChain(left), i \in 0 .. Len(local') :
              /\ old.chain = SubSeq(local', 1, i)
              /\ \/ IsTailOf(SubSeq(local', i + 1, Len(local')), served)
                 \/ /\ i < Len(local') /\ local'[i + 1].id = 0
                    /\ IsTailOf(SubSeq(local', i + 2, Len(local')), served)]_vars
  BY ChainStep
<1>2. TransferInv /\ [Next]_vars =>
         [cuts = 0 /\ pool' # pool /\ pool' # <<>> =>
          LET old == ParsePool(left).data IN
          \E i \in {Len(old), Len(old) + 1} :
              /\ old = SubSeq(pool', 1, Len(old))
              /\ \A k \in Len(old) + 1 .. i : k \in DOMAIN pool' => pool'[k] = 0
              /\ IsTailOf(SubSeq(pool', i + 1, Len(pool')), served)]_vars
  BY PoolStep
<1> QED BY <1>1, <1>2, FilesHold, PTL DEF Spec, ReceivedIsTail, ChainIsTail, PoolIsTail
=============================================================================
