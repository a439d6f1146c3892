--------------------------- MODULE StartupProofs ---------------------------
(***************************************************************************)
(* Proofs about Startup, for any sets of processes and answers, any number *)
(* of starts and any number of times the disk fills.                       *)
(***************************************************************************)
EXTENDS Startup, FiniteSetTheorems, TLAPS

(* The settings that a file is meant to have.                              *)
KeySet(d) == Key \ (IF d = "node.conf" THEN {"backlog"} ELSE {"uuid"})

-----------------------------------------------------------------------------
(* Processes, files and the order of the settings.                         *)

LEMMA PathType ==
    /\ \A p \in Process : Path(p) \in Dir /\ (Path(p) = "node.conf" <=> p \in Node)
    /\ \A p, q \in Process : Path(p) = Path(q) => Keys(p) = Keys(q)
BY DEF Path, Dir, Process, Keys

(* Six settings are saved, all different.                                  *)
LEMMA KeyOrder ==
    ASSUME NEW p \in Process
    PROVE  /\ Keys(p) \in Seq(Key) /\ Len(Keys(p)) = 6
           /\ \A i, j \in 1 .. 6 : Keys(p)[i] = Keys(p)[j] => i = j
           /\ ToSet(Keys(p)) = KeySet(Path(p))
           /\ ToSet(Keys(p)) = {Keys(p)[i] : i \in 1 .. 6}
<1>1. CASE p \in Node
  <2>1. Keys(p) = <<"domain", "service", "protocol", "port", "threads", "uuid">>
    BY <1>1 DEF Keys
  <2>2. KeySet(Path(p)) = {"domain", "service", "protocol", "port", "threads", "uuid"}
    BY <1>1 DEF KeySet, Path, Key
  <2>3. /\ Keys(p) \in Seq(Key) /\ Len(Keys(p)) = 6
        /\ \A i, j \in 1 .. 6 : Keys(p)[i] = Keys(p)[j] => i = j
    BY <2>1 DEF Key
  <2>4. ToSet(Keys(p)) = {Keys(p)[i] : i \in 1 .. 6}
    BY <2>3 DEF ToSet
  <2> QED BY <2>1, <2>2, <2>3, <2>4
<1>2. CASE p \notin Node
  <2>1. Keys(p) = <<"domain", "service", "protocol", "port", "backlog", "threads">>
    BY <1>2 DEF Keys
  <2>2. KeySet(Path(p)) = {"domain", "service", "protocol", "port", "backlog", "threads"}
    BY <1>2 DEF KeySet, Path, Key
  <2>3. /\ Keys(p) \in Seq(Key) /\ Len(Keys(p)) = 6
        /\ \A i, j \in 1 .. 6 : Keys(p)[i] = Keys(p)[j] => i = j
    BY <2>1 DEF Key
  <2>4. ToSet(Keys(p)) = {Keys(p)[i] : i \in 1 .. 6}
    BY <2>3 DEF ToSet
  <2> QED BY <2>1, <2>2, <2>3, <2>4
<1> QED BY <1>1, <1>2

-----------------------------------------------------------------------------
(* What getConfigFromFile makes of the lines of a file.                    *)

LEMMA SettingsEqual ==
    ASSUME NEW a, NEW b, IsSettings(a), IsSettings(b), DOMAIN a = DOMAIN b,
           \A k \in DOMAIN a : a[k] = b[k]
    PROVE  a = b
<1> DEFINE D == DOMAIN a
<1>1. a \in [D -> Nat] /\ b \in [D -> Nat] /\ \A k \in D : a[k] = b[k]
  BY DEF IsSettings
<1> QED BY ONLY <1>1

LEMMA ReadBackType ==
    ASSUME NEW f \in Seq(Line)
    PROVE  /\ IsSettings(ReadBack(f))
           /\ \A k : k \in DOMAIN ReadBack(f) <=> \E i \in First(f) : f[i].key = k
           /\ \A i \in First(f) : ReadBack(f)[f[i].key] = f[i].value
<1> DEFINE v == ReadBack(f)
<1>1. v = [k \in {f[i].key : i \in First(f)} |->
             f[CHOOSE i \in First(f) : f[i].key = k].value]
  BY DEF ReadBack, Values
<1>2. First(f) \subseteq DOMAIN f /\ DOMAIN f = 1 .. Len(f) /\ Len(f) \in Nat
  BY DEF First
<1>3. \A i \in DOMAIN f : f[i].key \in Key /\ f[i].value \in Nat
  <2>1. \A i \in DOMAIN f : f[i] \in Line
    OBVIOUS
  <2> QED BY <2>1 DEF Line
<1>4. \A i, j \in First(f) : f[i].key = f[j].key => i = j
  BY <1>2 DEF First
<1>5. \A i \in First(f) : v[f[i].key] = f[i].value
  <2> TAKE i \in First(f)
  <2>1. v[f[i].key] = f[CHOOSE j \in First(f) : f[j].key = f[i].key].value
    BY <1>1
  <2>2. (CHOOSE j \in First(f) : f[j].key = f[i].key) = i
    BY <1>4
  <2> QED BY <2>1, <2>2
<1>6. \A k \in DOMAIN v : k \in Key /\ v[k] \in Nat
  BY <1>1, <1>2, <1>3, <1>5
<1>7. v \in [DOMAIN v -> Nat]
  BY <1>1, <1>6
<1>8. \A k : k \in DOMAIN v <=> \E i \in First(f) : f[i].key = k
  BY <1>1
<1> QED BY <1>5, <1>6, <1>7, <1>8 DEF IsSettings

LEMMA ReadBackNothing == ReadBack(<<>>) = <<>>
<1>1. First(<<>>) = {}
  BY DEF First
<1>2. ReadBack(<<>>) = [k \in {} |-> 0]
  BY <1>1 DEF ReadBack, Values
<1> QED BY <1>2

(* Only from an empty file nothing is read.                                *)
LEMMA NothingReadBack ==
    ASSUME NEW f \in Seq(Line), DOMAIN ReadBack(f) = {}
    PROVE  f = <<>>
<1>1. SUFFICES ASSUME f # <<>> PROVE FALSE
  OBVIOUS
<1>2. 1 \in DOMAIN f
  BY <1>1
<1>3. 1 \in First(f)
  BY <1>2 DEF First
<1> QED BY <1>3, ReadBackType

(* A line that is appended gives a value to its key, unless there was one. *)
LEMMA ReadBackAppend ==
    ASSUME NEW f \in Seq(Line), NEW l \in Line, NEW g, g = Append(f, l)
    PROVE  /\ g \in Seq(Line)
           /\ \/ ReadBack(g) = ReadBack(f)
              \/ /\ l.key \notin DOMAIN ReadBack(f)
                 /\ DOMAIN ReadBack(g) = DOMAIN ReadBack(f) \cup {l.key}
                 /\ \A k \in DOMAIN ReadBack(f) : ReadBack(g)[k] = ReadBack(f)[k]
<1> DEFINE n == Len(f) + 1
<1>1. /\ g \in Seq(Line) /\ Len(f) \in Nat /\ DOMAIN f = 1 .. Len(f) /\ DOMAIN g = 1 .. n
      /\ g[n] = l /\ \A i \in 1 .. Len(f) : g[i] = f[i]
  OBVIOUS
<1>2. First(f) = First(g) \ {n}
  BY <1>1 DEF First
<1>3. First(f) \subseteq 1 .. Len(f)
  BY <1>1 DEF First
<1>4. /\ IsSettings(ReadBack(f)) /\ IsSettings(ReadBack(g))
      /\ \A k : k \in DOMAIN ReadBack(f) <=> \E i \in First(f) : f[i].key = k
      /\ \A k : k \in DOMAIN ReadBack(g) <=> \E i \in First(g) : g[i].key = k
      /\ \A i \in First(f) : ReadBack(f)[f[i].key] = f[i].value
      /\ \A i \in First(g) : ReadBack(g)[g[i].key] = g[i].value
  BY <1>1, ReadBackType
<1>5. \A k \in DOMAIN ReadBack(f) : k \in DOMAIN ReadBack(g) /\ ReadBack(g)[k] = ReadBack(f)[k]
  <2> TAKE k \in DOMAIN ReadBack(f)
  <2>1. PICK i \in First(f) : f[i].key = k
    BY <1>4
  <2>2. i \in First(g) /\ g[i] = f[i]
    BY <1>1, <1>2, <1>3, <2>1
  <2>3. ReadBack(g)[k] = g[i].value /\ ReadBack(f)[k] = f[i].value
    BY <1>4, <2>1, <2>2
  <2>4. k \in DOMAIN ReadBack(g)
    BY <1>4, <2>1, <2>2
  <2> QED BY <2>2, <2>3, <2>4
<1>6. CASE n \notin First(g)
  <2>1. First(g) = First(f)
    BY <1>2, <1>6
  <2>2. \A k \in DOMAIN ReadBack(g) : k \in DOMAIN ReadBack(f)
    BY <1>1, <1>3, <1>4, <2>1
  <2>3. DOMAIN ReadBack(g) = DOMAIN ReadBack(f)
    BY <1>5, <2>2
  <2>4. ReadBack(g) = ReadBack(f)
    <3>1. \A k \in DOMAIN ReadBack(g) : ReadBack(g)[k] = ReadBack(f)[k]
      BY <1>5, <2>3
    <3>2. IsSettings(ReadBack(f)) /\ IsSettings(ReadBack(g))
      BY <1>4
    <3> HIDE DEF n
    <3> QED BY ONLY <2>3, <3>1, <3>2, SettingsEqual
  <2> QED BY <1>1, <2>4
<1>7. CASE n \in First(g)
  <2>1. \A i \in 1 .. Len(f) : f[i].key # l.key
    BY <1>1, <1>7 DEF First
  <2>2. l.key \notin DOMAIN ReadBack(f)
    BY <1>3, <1>4, <2>1
  <2>3. l.key \in DOMAIN ReadBack(g)
    BY <1>1, <1>4, <1>7
  <2>4. \A k \in DOMAIN ReadBack(g) : k = l.key \/ k \in DOMAIN ReadBack(f)
    <3> TAKE k \in DOMAIN ReadBack(g)
    <3>1. PICK i \in First(g) : g[i].key = k
      BY <1>4
    <3>2. CASE i = n
      BY <1>1, <3>1, <3>2
    <3>3. CASE i # n
      BY <1>1, <1>2, <1>3, <1>4, <3>1, <3>3
    <3> QED BY <3>2, <3>3
  <2>5. DOMAIN ReadBack(g) = DOMAIN ReadBack(f) \cup {l.key}
    BY <1>5, <2>3, <2>4
  <2> QED BY <1>1, <1>5, <2>2, <2>5
<1> QED BY <1>6, <1>7

-----------------------------------------------------------------------------
(* Types.                                                                  *)

Settings == UNION {[K -> Nat] : K \in SUBSET Key}

LEMMA SettingsAre ==
    ASSUME NEW c
    PROVE  /\ c \in Settings <=> IsSettings(c)
           /\ c \in Settings => \A k \in DOMAIN c : k \in Key /\ c[k] \in Nat
BY DEF Settings, IsSettings

LEMMA RestrictionType ==
    ASSUME NEW c \in Settings, NEW K
    PROVE  [k \in DOMAIN c \cap K |-> c[k]] \in Settings
<1> DEFINE D == DOMAIN c \cap K
<1>1. D \subseteq Key /\ \A k \in D : c[k] \in Nat
  BY SettingsAre
<1>2. [k \in D |-> c[k]] \in [D -> Nat]
  BY <1>1
<1> QED BY <1>1, <1>2 DEF Settings

Heard == Ports \cup {Nowhere, Elsewhere}

(* TypeOK, with functions for the settings.                                *)
Types ==
    /\ stage \in [Process -> Stage]
    /\ cfg \in [Process -> Settings]
    /\ source \in [Process -> {"file", "user"}]
    /\ saved \in [Process -> 0 .. 5]
    /\ listens \in [Process -> Heard]
    /\ file \in [Dir -> Seq(Line)]
    /\ full \in BOOLEAN
    /\ lingering \subseteq Ports
    /\ boots \in Nat /\ drawn \in Nat /\ fills \in Nat
    /\ overlapped \subseteq Dir /\ lost \subseteq Dir
    /\ freed \subseteq Ports
    /\ ran \in [Dir -> SUBSET Settings]

LEMMA TypesAre == Types => TypeOK
<1> SUFFICES ASSUME Types PROVE TypeOK
  OBVIOUS
<1>1. DOMAIN cfg = Process /\ \A p \in Process : IsSettings(cfg[p])
  BY SettingsAre DEF Types
<1>2. DOMAIN ran = Dir /\ \A d \in Dir : \A c \in ran[d] : IsSettings(c)
  BY SettingsAre DEF Types
<1>3. /\ stage \in [Process -> Stage] /\ source \in [Process -> {"file", "user"}]
      /\ saved \in [Process -> 0 .. 5] /\ listens \in [Process -> Heard]
      /\ file \in [Dir -> Seq(Line)] /\ full \in BOOLEAN
  BY DEF Types
<1>4. /\ lingering \subseteq Ports /\ boots \in Nat /\ drawn \in Nat /\ fills \in Nat
      /\ overlapped \subseteq Dir /\ lost \subseteq Dir /\ freed \subseteq Ports
  BY DEF Types
<1> QED BY ONLY <1>1, <1>2, <1>3, <1>4, Zenon DEF TypeOK, Heard

(* What a process has of settings and ports, wherever it is.               *)
Has(p) ==
    /\ stage[p] \in {"down", "read", "ask"} => cfg[p] = <<>> /\ source[p] = "file"
    /\ stage[p] = "save" => source[p] = "user" /\ KeySet(Path(p)) \subseteq DOMAIN cfg[p]
    /\ stage[p] # "save" => saved[p] = 0
    /\ stage[p] \in {"open", "query"} => p \in Node
    /\ stage[p] = "down" \/ (p \in Node /\ stage[p] \notin {"query", "up"})
          => listens[p] = Nowhere
Control == (\A p \in Process : Has(p)) /\ lingering \subseteq freed

(* A remainder, for any divisor: with a number of five digits for it this  *)
(* takes the solver many times longer.                                     *)
LEMMA Remainder ==
    ASSUME NEW m \in Nat, m > 0, NEW n \in Nat PROVE n % m \in 0 .. (m - 1)
OBVIOUS

LEMMA BoundType ==
    ASSUME NEW domain, NEW service, NEW port \in Nat
    PROVE  /\ BoundTo(domain, service, port) \in Heard
           /\ Wire(port) \in Ports \cup {0}
<1>1. Wire(port) \in 0 .. 65535
  <2>1. PICK m \in Nat : m = 65536
    OBVIOUS
  <2>2. m > 0 /\ m - 1 = 65535
    BY <2>1
  <2>3. Wire(port) = port % m
    BY <2>1 DEF Wire
  <2>4. port % m \in 0 .. (m - 1)
    BY <2>2, Remainder
  <2> QED BY <2>2, <2>3, <2>4
<1>2. Wire(port) \in Ports \cup {0}
  BY <1>1 DEF Ports
<1> QED BY <1>2 DEF Heard, BoundTo

LEMMA NumberType ==
    ASSUME Types, NEW p \in Process, NEW k
    PROVE  Number(p, k) \in Nat
<1>1. cfg[p] \in Settings
  BY DEF Types
<1> QED BY <1>1, SettingsAre DEF Number

(* The settings that a process leaves the constructor with.                *)
LEMMA LeaveType ==
    ASSUME Types, NEW p \in Process, NEW c \in Settings, Leave(p, c)
    PROVE  stage' \in [Process -> Stage] /\ ran' \in [Dir -> SUBSET Settings]
<1>1. stage \in [Process -> Stage] /\ ran \in [Dir -> SUBSET Settings]
  BY DEF Types
<1>2. stage' \in [Process -> Stage]
  BY <1>1 DEF Leave, Stage
<1> DEFINE r == [k \in DOMAIN c \cap ToSet(Keys(p)) |-> c[k]]
<1>3. r \in Settings
  BY RestrictionType
<1> HIDE DEF r
<1>4. ran' = [ran EXCEPT ![Path(p)] = @ \cup {r}]
  BY DEF Leave, r
<1>5. ran' \in [Dir -> SUBSET Settings]
  BY <1>1, <1>3, <1>4
<1> QED BY <1>2, <1>5

(* The answers are numbers, for every setting but the identifier.          *)
LEMMA AnswersType ==
    ASSUME NEW a \in NodeAnswers \cup ServerAnswers, NEW k \in Key \ {"uuid"}
    PROVE  a[k] \in Nat
<1> DEFINE Asked == {"domain", "service", "protocol", "port", "threads", "backlog"}
<1>1. k \in Asked
  BY DEF Key
<1>2. AF_INET \in Nat /\ SOCK_STREAM \in Nat /\ IPPROTO_TCP \in Nat
  BY DEF AF_INET, SOCK_STREAM, IPPROTO_TCP
<1>3. a \in [domain : Nat, service : Nat, protocol : Nat, port : Nat, threads : Nat, backlog : Nat]
  <2>1. CASE \/ a = [domain |-> AF_INET, service |-> SOCK_STREAM, protocol |-> IPPROTO_TCP,
                     port |-> 4568, threads |-> 0, backlog |-> 100]
             \/ a = [domain |-> AF_INET, service |-> SOCK_STREAM, protocol |-> IPPROTO_TCP,
                     port |-> 4542, threads |-> 0, backlog |-> 100]
    BY <1>2, <2>1
  <2>2. CASE a \in [domain : {AF_INET}, service : {SOCK_STREAM}, protocol : {IPPROTO_TCP},
                    port : Port, threads : Threads, backlog : Backlog]
    BY <1>2, <2>2, StartupAssumption
  <2>3. CASE a \in [domain : Domain, service : Service, protocol : Protocol,
                    port : Port, threads : Threads, backlog : Backlog]
    BY <2>3, StartupAssumption
  <2> QED BY <2>1, <2>2, <2>3 DEF NodeAnswers, ServerAnswers
<1>4. /\ a.domain \in Nat /\ a.service \in Nat /\ a.protocol \in Nat
      /\ a.port \in Nat /\ a.threads \in Nat /\ a.backlog \in Nat
  BY <1>3
<1> QED BY <1>1, <1>4

LEMMA NextLineType ==
    ASSUME Types, Control, NEW p \in Process, stage[p] = "save"
    PROVE  /\ NextLine(p) \in Line
           /\ NextLine(p).key = Keys(p)[saved[p] + 1]
           /\ NextLine(p).value = cfg[p][Keys(p)[saved[p] + 1]]
           /\ saved[p] + 1 \in 1 .. 6
<1> DEFINE k == Keys(p)[saved[p] + 1]
<1>1. saved[p] \in 0 .. 5 /\ cfg[p] \in Settings
  BY DEF Types
<1>2. saved[p] + 1 \in 1 .. 6
  BY <1>1
<1>3. k \in KeySet(Path(p))
  BY <1>2, KeyOrder
<1>4. k \in DOMAIN cfg[p]
  BY <1>3 DEF Control, Has
<1>5. k \in Key /\ cfg[p][k] \in Nat
  BY <1>1, <1>4, SettingsAre
<1>6. NextLine(p) = [key |-> k, value |-> cfg[p][k]]
  BY DEF NextLine
<1> HIDE DEF k
<1>7. NextLine(p) \in Line
  BY <1>5, <1>6 DEF Line
<1> QED BY <1>2, <1>6, <1>7 DEF k

LEMMA TypeInit == Init => Types /\ Control
<1> SUFFICES ASSUME Init PROVE Types /\ Control
  OBVIOUS
<1>1. <<>> \in Settings
  <2>1. <<>> \in [{} -> Nat]
    OBVIOUS
  <2> QED BY <2>1 DEF Settings
<1>2. cfg \in [Process -> Settings] /\ file \in [Dir -> Seq(Line)]
  BY <1>1 DEF Init
<1>3. /\ stage \in [Process -> Stage] /\ source \in [Process -> {"file", "user"}]
      /\ full \in BOOLEAN /\ lingering \subseteq Ports
  BY DEF Init, Stage
<1>4. saved \in [Process -> 0 .. 5]
  BY DEF Init
<1>5. listens \in [Process -> Heard]
  BY DEF Init, Heard
<1>6. /\ boots \in Nat /\ drawn \in Nat /\ fills \in Nat /\ overlapped \subseteq Dir
      /\ lost \subseteq Dir /\ freed \subseteq Ports /\ ran \in [Dir -> SUBSET Settings]
  BY DEF Init
<1>7. Control
  BY DEF Init, Control, Has, Nowhere
<1> QED BY <1>2, <1>3, <1>4, <1>5, <1>6, <1>7 DEF Types

(* A process changes nothing of another one.                               *)
Same(p) ==
    /\ stage'[p] = stage[p] /\ cfg'[p] = cfg[p] /\ source'[p] = source[p]
    /\ saved'[p] = saved[p] /\ listens'[p] = listens[p]

LEMMA OnlyItself ==
    ASSUME Types, NEW p \in Process, Step(p), NEW q \in Process \ {p}
    PROVE  Same(q)
<1>0. /\ stage \in [Process -> Stage] /\ cfg \in [Process -> Settings]
      /\ source \in [Process -> {"file", "user"}] /\ saved \in [Process -> 0 .. 5]
      /\ listens \in [Process -> Heard]
  BY DEF Types
<1>1. CASE Start(p)
  BY <1>0, <1>1 DEF Start, Goto, Same
<1>2. CASE Load(p)
  BY <1>0, <1>2 DEF Load, Leave, Same
<1>3. CASE Ask(p)
  BY <1>0, <1>3 DEF Ask, Goto, Same
<1>4. CASE SaveKey(p)
  BY <1>0, <1>4 DEF SaveKey, Saved, Leave, Same
<1>5. CASE Open(p)
  BY <1>0, <1>5 DEF Open, Opened, Goto, Same
<1>6. CASE Announce(p)
  BY <1>0, <1>6 DEF Announce, Goto, Same
<1>7. CASE End(p)
  BY <1>0, <1>7 DEF End, Same
<1> QED BY <1>1, <1>2, <1>3, <1>4, <1>5, <1>6, <1>7 DEF Step

LEMMA StartTypes ==
    ASSUME Types, Control, NEW p \in Process, Start(p)
    PROVE  Types' /\ Has(p)' /\ lingering' \subseteq freed'
<1>1. /\ stage \in [Process -> Stage] /\ listens \in [Process -> Heard]
      /\ stage[p] = "down" /\ Has(p)
  BY DEF Types, Control, Start, Goto
<1>2. stage' \in [Process -> Stage] /\ stage'[p] = "read"
  BY <1>1 DEF Start, Goto, Stage
<1>3. BoundTo(AF_INET, SOCK_STREAM, StartPort) \in Heard
  BY BoundType DEF StartPort
<1>4. listens' \in [Process -> Heard] /\ (p \in Node => listens'[p] = Nowhere)
  BY <1>1, <1>3, StartupAssumption DEF Start, Has
<1>5. Types'
  BY <1>2, <1>4 DEF Start, Types, history
<1>6. Has(p)'
  BY <1>1, <1>2, <1>4 DEF Start, Has
<1> QED BY <1>5, <1>6 DEF Start, history, Control

LEMMA LoadTypes ==
    ASSUME Types, Control, NEW p \in Process, Load(p)
    PROVE  Types' /\ Has(p)' /\ lingering' \subseteq freed'
<1> DEFINE found == ReadBack(file[Path(p)])
<1>1. /\ stage \in [Process -> Stage] /\ cfg \in [Process -> Settings]
      /\ source \in [Process -> {"file", "user"}] /\ stage[p] = "read" /\ Has(p)
      /\ overlapped \subseteq Dir /\ file[Path(p)] \in Seq(Line)
  BY PathType DEF Types, Control, Load
<1>2. found \in Settings
  BY <1>1, ReadBackType, SettingsAre
<1>3. source' = [source EXCEPT ![p] = "file"] /\ overlapped' \subseteq Dir
  BY <1>1, PathType DEF Load
<1>4. source' \in [Process -> {"file", "user"}] /\ source'[p] = "file"
  BY <1>1, <1>3
<1>5. CASE DOMAIN found # {}
  <2>1. cfg' = [cfg EXCEPT ![p] = found] /\ Leave(p, found)
    BY <1>5 DEF Load
  <2>2. cfg' \in [Process -> Settings]
    BY <1>1, <1>2, <2>1
  <2>3. Types'
    BY <1>2, <1>3, <1>4, <2>1, <2>2, LeaveType DEF Load, Types
  <2>4. stage'[p] = IF p \in Node THEN "open" ELSE "up"
    BY <1>1, <2>1 DEF Leave
  <2>5. Has(p)'
    BY <1>1, <2>4 DEF Load, Has
  <2> QED BY <2>3, <2>5 DEF Load, Control
<1>6. CASE DOMAIN found = {}
  <2>1. stage' = [stage EXCEPT ![p] = "ask"] /\ UNCHANGED <<cfg, ran>>
    BY <1>6 DEF Load
  <2>2. stage' \in [Process -> Stage] /\ stage'[p] = "ask"
    BY <1>1, <2>1 DEF Stage
  <2>3. Types'
    BY <1>3, <1>4, <2>1, <2>2 DEF Load, Types
  <2>4. Has(p)'
    BY <1>1, <1>4, <2>1, <2>2 DEF Load, Has
  <2> QED BY <2>3, <2>4 DEF Load, Control
<1> QED BY <1>5, <1>6

LEMMA AskTypes ==
    ASSUME Types, Control, NEW p \in Process, Ask(p)
    PROVE  Types' /\ Has(p)' /\ lingering' \subseteq freed'
<1>1. /\ stage \in [Process -> Stage] /\ cfg \in [Process -> Settings]
      /\ source \in [Process -> {"file", "user"}] /\ drawn \in Nat
      /\ stage[p] = "ask" /\ Has(p)
  BY DEF Types, Control, Ask, Goto
<1>2. PICK c : cfg' = [cfg EXCEPT ![p] = c] /\ c \in Settings /\ KeySet(Path(p)) \subseteq DOMAIN c
  <2>1. CASE p \in Node
    <3>1. PICK a \in NodeAnswers :
             cfg' = [cfg EXCEPT ![p] = [k \in Key |-> IF k = "uuid" THEN drawn' ELSE a[k]]]
      BY <2>1 DEF Ask
    <3>2. drawn' \in Nat
      BY <1>1, <2>1 DEF Ask
    <3>3. \A k \in Key \ {"uuid"} : a[k] \in Nat
      BY AnswersType
    <3> DEFINE c == [k \in Key |-> IF k = "uuid" THEN drawn' ELSE a[k]]
    <3>4. c \in [Key -> Nat]
      BY <3>2, <3>3
    <3>5. c \in Settings
      BY <3>4 DEF Settings
    <3>6. KeySet(Path(p)) \subseteq DOMAIN c
      BY DEF KeySet
    <3> QED BY <3>1, <3>5, <3>6
  <2>2. CASE p \notin Node
    <3>1. PICK a \in ServerAnswers :
             cfg' = [cfg EXCEPT ![p] = [k \in Key \ {"uuid"} |-> a[k]]]
      BY <2>2 DEF Ask
    <3>2. \A k \in Key \ {"uuid"} : a[k] \in Nat
      BY AnswersType
    <3> DEFINE D == Key \ {"uuid"}
               c == [k \in D |-> a[k]]
    <3>3. c \in [D -> Nat] /\ D \subseteq Key
      BY <3>2
    <3>4. c \in Settings
      BY <3>3 DEF Settings
    <3>5. KeySet(Path(p)) \subseteq DOMAIN c
      BY <2>2 DEF KeySet, Path
    <3> QED BY <3>1, <3>4, <3>5
  <2> QED BY <2>1, <2>2
<1>3. cfg' \in [Process -> Settings] /\ cfg'[p] = c
  BY <1>1, <1>2
<1>4. /\ stage' \in [Process -> Stage] /\ stage'[p] = "save"
      /\ source' \in [Process -> {"file", "user"}] /\ source'[p] = "user" /\ drawn' \in Nat
  BY <1>1 DEF Ask, Goto, Stage
<1>5. Types'
  BY <1>3, <1>4 DEF Ask, Types, history
<1>6. Has(p)'
  BY <1>1, <1>2, <1>3, <1>4 DEF Ask, Has
<1> QED BY <1>5, <1>6 DEF Ask, history, Control

LEMMA SaveTypes ==
    ASSUME Types, Control, NEW p \in Process, SaveKey(p)
    PROVE  Types' /\ Has(p)' /\ lingering' \subseteq freed'
<1>1. /\ stage \in [Process -> Stage] /\ cfg[p] \in Settings /\ saved \in [Process -> 0 .. 5]
      /\ file \in [Dir -> Seq(Line)] /\ lost \subseteq Dir /\ ran \in [Dir -> SUBSET Settings]
      /\ stage[p] = "save" /\ Has(p)
  BY DEF Types, Control, SaveKey, Saved
<1>2. NextLine(p) \in Line /\ Path(p) \in Dir
  BY <1>1, NextLineType, PathType
<1>3. file' \in [Dir -> Seq(Line)]
  <2>1. file' = file \/ file' = [file EXCEPT ![Path(p)] = Append(@, NextLine(p))]
    BY DEF SaveKey, Saved
  <2>2. Append(file[Path(p)], NextLine(p)) \in Seq(Line)
    BY <1>1, <1>2
  <2> QED BY <1>1, <1>2, <2>1, <2>2
<1>4. lost' \subseteq Dir
  BY <1>1, <1>2 DEF SaveKey, Saved
<1>5. CASE saved[p] + 1 = 6
  <2>1. Leave(p, cfg[p]) /\ saved' = [saved EXCEPT ![p] = 0]
    BY <1>5 DEF SaveKey, Saved
  <2>2. stage' \in [Process -> Stage] /\ ran' \in [Dir -> SUBSET Settings]
    BY <1>1, <2>1, LeaveType
  <2>3. saved' \in [Process -> 0 .. 5] /\ saved'[p] = 0
    BY <1>1, <2>1
  <2>4. stage'[p] = IF p \in Node THEN "open" ELSE "up"
    BY <1>1, <2>1 DEF Leave
  <2>5. Types'
    BY <1>3, <1>4, <2>2, <2>3 DEF SaveKey, Saved, Types
  <2>6. Has(p)'
    BY <1>1, <2>3, <2>4 DEF SaveKey, Saved, Has
  <2> QED BY <2>5, <2>6 DEF SaveKey, Saved, Control
<1>6. CASE saved[p] + 1 # 6
  <2>1. UNCHANGED <<stage, ran>> /\ saved' = [saved EXCEPT ![p] = @ + 1]
    BY <1>6 DEF SaveKey, Saved
  <2>2. saved[p] + 1 \in 0 .. 5
    BY <1>1, <1>6
  <2>3. saved' \in [Process -> 0 .. 5]
    BY <1>1, <2>1, <2>2
  <2>4. Types'
    BY <1>3, <1>4, <2>1, <2>3 DEF SaveKey, Saved, Types
  <2>5. Has(p)'
    BY <1>1, <2>1 DEF SaveKey, Saved, Has
  <2> QED BY <2>4, <2>5 DEF SaveKey, Saved, Control
<1> QED BY <1>5, <1>6

LEMMA OpenTypes ==
    ASSUME Types, Control, NEW p \in Process, Open(p)
    PROVE  Types' /\ Has(p)' /\ lingering' \subseteq freed'
<1>1. /\ stage \in [Process -> Stage] /\ listens \in [Process -> Heard]
      /\ stage[p] = "open" /\ Has(p)
  BY DEF Types, Control, Open, Opened, Goto
<1>2. stage' \in [Process -> Stage] /\ stage'[p] = "query"
  BY <1>1 DEF Open, Opened, Goto, Stage
<1>3. BoundTo(Number(p, "domain"), Number(p, "service"), Number(p, "port")) \in Heard
  BY BoundType, NumberType
<1>4. listens' \in [Process -> Heard]
  BY <1>1, <1>3 DEF Open, Opened
<1>5. Types'
  BY <1>2, <1>4 DEF Open, Opened, Types, history
<1>6. Has(p)'
  BY <1>1, <1>2 DEF Open, Opened, Has
<1> QED BY <1>5, <1>6 DEF Open, Opened, history, Control

LEMMA AnnounceTypes ==
    ASSUME Types, Control, NEW p \in Process, Announce(p)
    PROVE  Types' /\ Has(p)' /\ lingering' \subseteq freed'
<1>1. stage \in [Process -> Stage] /\ stage[p] = "query" /\ Has(p)
  BY DEF Types, Control, Announce, Goto
<1>2. stage' \in [Process -> Stage] /\ stage'[p] = "up"
  BY <1>1 DEF Announce, Goto, Stage
<1>3. Types'
  BY <1>2 DEF Announce, Types, history
<1>4. Has(p)'
  BY <1>1, <1>2 DEF Announce, Has
<1> QED BY <1>3, <1>4 DEF Announce, history, Control

LEMMA EndTypes ==
    ASSUME Types, Control, NEW p \in Process, End(p)
    PROVE  Types' /\ Has(p)' /\ lingering' \subseteq freed'
<1> DEFINE had == {listens[p]} \cap Ports
<1>1. /\ stage \in [Process -> Stage] /\ cfg \in [Process -> Settings]
      /\ source \in [Process -> {"file", "user"}] /\ saved \in [Process -> 0 .. 5]
      /\ listens \in [Process -> Heard] /\ freed \subseteq Ports /\ lingering \subseteq freed
  BY DEF Types, Control
<1>2. <<>> \in Settings
  <2>1. <<>> \in [{} -> Nat]
    OBVIOUS
  <2> QED BY <2>1 DEF Settings
<1>3. /\ stage' \in [Process -> Stage] /\ stage'[p] = "down"
      /\ source' \in [Process -> {"file", "user"}] /\ source'[p] = "file"
  BY <1>1 DEF End, Stage
<1>4. cfg' \in [Process -> Settings] /\ cfg'[p] = <<>>
  BY <1>1, <1>2 DEF End
<1>5. saved' \in [Process -> 0 .. 5] /\ saved'[p] = 0
  BY <1>1 DEF End
<1>6. listens' \in [Process -> Heard] /\ listens'[p] = Nowhere
  BY <1>1 DEF End, Heard
<1>7. freed' = freed \cup had /\ (lingering' = lingering \/ lingering' = lingering \cup had)
  BY DEF End
<1>8. freed' \subseteq Ports /\ lingering' \subseteq freed'
  BY <1>1, <1>7
<1>9. lingering' \subseteq Ports
  BY <1>8
<1>10. Types'
  BY <1>3, <1>4, <1>5, <1>6, <1>8, <1>9 DEF End, Types
<1>11. Has(p)'
  BY <1>3, <1>4, <1>5, <1>6 DEF Has
<1> QED BY <1>8, <1>10, <1>11

(* What the system does, and steps that change nothing.                    *)
LEMMA Unseen ==
    ASSUME Types, Control, Settle \/ DiskFills \/ DiskEmpties \/ UNCHANGED vars
    PROVE  /\ Types' /\ lingering' \subseteq freed' /\ \A q \in Process : Same(q)
           /\ UNCHANGED <<processes, file, history>>
<1>1. CASE Settle
  BY <1>1 DEF Settle, Types, Control, Same, processes, history
<1>2. CASE DiskFills
  BY <1>2 DEF DiskFills, Types, Control, Same, processes, history
<1>3. CASE DiskEmpties
  BY <1>3 DEF DiskEmpties, Types, Control, Same, processes, history
<1>4. CASE UNCHANGED vars
  BY <1>4 DEF vars, Types, Control, Same, processes, history
<1> QED BY <1>1, <1>2, <1>3, <1>4

LEMMA TypeStep == Types /\ Control /\ [Next]_vars => Types' /\ Control'
<1> SUFFICES ASSUME Types, Control, [Next]_vars PROVE Types' /\ Control'
  OBVIOUS
<1>1. ASSUME NEW q \in Process, Same(q) PROVE Has(q)'
  BY <1>1 DEF Control, Has, Same
<1>2. ASSUME NEW p \in Process, Step(p) PROVE Types' /\ Control'
  <2>1. Types' /\ Has(p)' /\ lingering' \subseteq freed'
    BY <1>2, StartTypes, LoadTypes, AskTypes, SaveTypes, OpenTypes, AnnounceTypes, EndTypes DEF Step
  <2>2. \A q \in Process : Has(q)'
    BY <1>1, <1>2, <2>1, OnlyItself
  <2> QED BY <2>1, <2>2 DEF Control
<1>3. CASE Settle \/ DiskFills \/ DiskEmpties \/ UNCHANGED vars
  <2>1. \A q \in Process : Has(q)'
    BY <1>1, <1>3, Unseen
  <2> QED BY <1>3, <2>1, Unseen DEF Control
<1> QED BY <1>2, <1>3 DEF Next

LEMMA TypesStay == Spec => [](Types /\ Control)
<1>1. Init => Types /\ Control
  BY TypeInit
<1>2. (Types /\ Control) /\ [Next]_vars => (Types /\ Control)'
  BY TypeStep
<1> QED BY <1>1, <1>2, PTL DEF Spec

(* Every variable has its type, whoever starts, ends or saves.             *)
THEOREM TypeCorrect == Spec => []TypeOK
BY TypesStay, TypesAre, PTL

-----------------------------------------------------------------------------
(* A setting that was read from a file is read from it ever after.         *)

(* What a step does to the lines of a file.                                *)
LEMMA FileStep ==
    ASSUME Types, Control, [Next]_vars, NEW d \in Dir
    PROVE  \/ file'[d] = file[d]
           \/ /\ \E l \in Line : file'[d] = Append(file[d], l)
              /\ \A e \in Dir \ {d} : file'[e] = file[e]
<1>0. file \in [Dir -> Seq(Line)]
  BY DEF Types
<1>1. ASSUME NEW p \in Process, SaveKey(p)
      PROVE  \/ file'[d] = file[d]
             \/ /\ \E l \in Line : file'[d] = Append(file[d], l)
                /\ \A e \in Dir \ {d} : file'[e] = file[e]
  <2>1. NextLine(p) \in Line /\ Path(p) \in Dir
    BY <1>1, NextLineType, PathType DEF SaveKey, Saved
  <2>2. file' = file \/ file' = [file EXCEPT ![Path(p)] = Append(@, NextLine(p))]
    BY <1>1 DEF SaveKey, Saved
  <2> QED BY <1>0, <2>1, <2>2
<1>2. ASSUME NEW p \in Process, Step(p), ~SaveKey(p) PROVE file' = file
  <2>1. ASSUME Start(p) \/ Ask(p) PROVE file' = file
    BY <2>1 DEF Start, Ask
  <2>2. ASSUME Load(p) PROVE file' = file
    BY <2>2 DEF Load
  <2>3. ASSUME Open(p) \/ Announce(p) PROVE file' = file
    BY <2>3 DEF Open, Opened, Announce
  <2>4. ASSUME End(p) PROVE file' = file
    BY <2>4 DEF End
  <2> QED BY <1>2, <2>1, <2>2, <2>3, <2>4 DEF Step
<1>3. ASSUME Settle \/ DiskFills \/ DiskEmpties \/ UNCHANGED vars PROVE file' = file
  BY <1>3, Unseen
<1> QED BY <1>1, <1>2, <1>3 DEF Next, Step

(* What has a value keeps it.                                              *)
LEMMA Kept ==
    ASSUME Types, Control, [Next]_vars, NEW d \in Dir,
           NEW k \in DOMAIN ReadBack(file[d])
    PROVE  k \in DOMAIN ReadBack(file'[d]) /\ ReadBack(file'[d])[k] = ReadBack(file[d])[k]
<1>1. file[d] \in Seq(Line)
  BY DEF Types
<1>2. CASE file'[d] = file[d]
  BY <1>2
<1>3. ASSUME NEW l \in Line, file'[d] = Append(file[d], l)
      PROVE  k \in DOMAIN ReadBack(file'[d]) /\ ReadBack(file'[d])[k] = ReadBack(file[d])[k]
  <2>1. \/ ReadBack(file'[d]) = ReadBack(file[d])
        \/ /\ DOMAIN ReadBack(file'[d]) = DOMAIN ReadBack(file[d]) \cup {l.key}
           /\ \A j \in DOMAIN ReadBack(file[d]) : ReadBack(file'[d])[j] = ReadBack(file[d])[j]
    BY <1>1, <1>3, ReadBackAppend
  <2> QED BY <2>1
<1> QED BY <1>2, <1>3, FileStep

Settled == [d \in Dir |-> ReadBack(file[d])]

(* The files do what WriteOnce promises.                                   *)
THEOREM Implements == Spec => ImplementsWriteOnce
<1>1. Init => Register!Init
  BY ReadBackNothing DEF Init, Register!Init
<1>2. Types /\ Control /\ [Next]_vars => [Register!Next]_Settled
  <2> SUFFICES ASSUME Types, Control, [Next]_vars
               PROVE  Register!Next \/ UNCHANGED Settled
    BY DEF Settled
  <2>1. CASE \A d \in Dir : ReadBack(file'[d]) = ReadBack(file[d])
    BY <2>1 DEF Settled
  <2>2. ASSUME NEW d \in Dir, ReadBack(file'[d]) # ReadBack(file[d])
        PROVE  Register!Next
    <3>1. PICK l \in Line : /\ file'[d] = Append(file[d], l)
                            /\ \A e \in Dir \ {d} : file'[e] = file[e]
      BY <2>2, FileStep
    <3>2. file[d] \in Seq(Line)
      BY DEF Types
    <3>3. /\ l.key \notin DOMAIN ReadBack(file[d])
          /\ DOMAIN ReadBack(file'[d]) = DOMAIN ReadBack(file[d]) \cup {l.key}
          /\ \A k \in DOMAIN ReadBack(file[d]) : ReadBack(file'[d])[k] = ReadBack(file[d])[k]
      BY <2>2, <3>1, <3>2, ReadBackAppend
    <3>4. Register!Write(d)
      BY <3>1, <3>3 DEF Register!Write
    <3> QED BY <3>4 DEF Register!Next
  <2> QED BY <2>1, <2>2
<1> QED BY <1>1, <1>2, TypesStay, PTL DEF Spec, ImplementsWriteOnce, Register!Spec, Settled

-----------------------------------------------------------------------------
(* What a process has from a file is in the file.                          *)

FromFile(p) ==
    source[p] = "file" =>
        \A k \in DOMAIN cfg[p] : /\ k \in DOMAIN ReadBack(file[Path(p)])
                                 /\ ReadBack(file[Path(p)])[k] = cfg[p][k]
Loaded == \A p \in Process : FromFile(p)

LEMMA LoadedStep == Types /\ Control /\ Loaded /\ [Next]_vars => Loaded'
<1> SUFFICES ASSUME Types, Control, Loaded, [Next]_vars, NEW q \in Process
             PROVE  FromFile(q)'
  BY DEF Loaded
<1>0. /\ cfg \in [Process -> Settings] /\ source \in [Process -> {"file", "user"}]
      /\ Path(q) \in Dir
  BY PathType DEF Types
<1>1. ASSUME cfg'[q] = cfg[q], source'[q] = source[q] PROVE FromFile(q)'
  BY <1>0, <1>1, Kept DEF Loaded, FromFile
<1>2. ASSUME source'[q] = "user" PROVE FromFile(q)'
  BY <1>2 DEF FromFile
<1>3. ASSUME cfg'[q] = <<>> PROVE FromFile(q)'
  BY <1>3 DEF FromFile
<1>4. CASE Load(q)
  <2> DEFINE found == ReadBack(file[Path(q)])
  <2>1. CASE DOMAIN found # {}
    <3>1. cfg'[q] = found /\ file' = file
      BY <1>0, <1>4, <2>1 DEF Load
    <3> QED BY <3>1 DEF FromFile
  <2>2. CASE DOMAIN found = {}
    <3>1. cfg'[q] = <<>>
      BY <1>4, <2>2 DEF Load, Control, Has
    <3> QED BY <1>3, <3>1
  <2> QED BY <2>1, <2>2
<1>5. CASE Ask(q)
  BY <1>0, <1>2, <1>5 DEF Ask
<1>6. CASE End(q)
  BY <1>0, <1>3, <1>6 DEF End
<1>7. CASE Start(q) \/ SaveKey(q) \/ Open(q) \/ Announce(q)
  <2>1. cfg' = cfg /\ source' = source
    BY <1>7 DEF Start, SaveKey, Saved, Open, Opened, Announce
  <2> QED BY <1>1, <2>1
<1>8. ASSUME Same(q) PROVE FromFile(q)'
  BY <1>1, <1>8 DEF Same
<1>9. CASE Settle \/ DiskFills \/ DiskEmpties \/ UNCHANGED vars
  BY <1>8, <1>9, Unseen
<1>10. ASSUME NEW p \in Process \ {q}, Step(p) PROVE FromFile(q)'
  BY <1>8, <1>10, OnlyItself
<1> QED BY <1>4, <1>5, <1>6, <1>7, <1>9, <1>10 DEF Next, Step

LEMMA LoadedStays == Spec => [](Types /\ Control /\ Loaded)
<1>1. Init => Loaded
  BY DEF Init, Loaded, FromFile
<1>2. (Types /\ Control) /\ Loaded /\ [Next]_vars => Loaded'
  BY LoadedStep
<1> QED BY <1>1, <1>2, TypesStay, PTL DEF Spec

(* Processes that found all settings in one file agree.                    *)
THEOREM WholeLoadsAgreeAlways == Spec => []WholeLoadsAgree
<1>1. Types /\ Loaded => WholeLoadsAgree
  <2> SUFFICES ASSUME Types, Loaded, NEW p \in Process, NEW q \in Process,
                      Path(p) = Path(q), Whole(p), Whole(q)
               PROVE  cfg[p] = cfg[q]
    BY DEF WholeLoadsAgree
  <2>1. IsSettings(cfg[p]) /\ IsSettings(cfg[q])
    BY SettingsAre DEF Types
  <2>2. DOMAIN cfg[p] = DOMAIN cfg[q]
    BY PathType DEF Whole
  <2>3. \A k \in DOMAIN cfg[p] : cfg[p][k] = cfg[q][k]
    BY <2>2 DEF Loaded, FromFile, Whole
  <2> QED BY <2>1, <2>2, <2>3, SettingsEqual
<1> QED BY <1>1, LoadedStays, PTL

(* A directory that was left without the settings of a socket keeps its    *)
(* nodes down.                                                             *)
THEOREM TornStaysOutAlways == Spec => TornStaysOut
<1>1. Types /\ Control /\ Loaded /\ [Next]_vars
        => [Torn => \A p \in Node : stage[p] # "up" => stage'[p] # "up"]_vars
  <2> SUFFICES ASSUME Types, Control, Loaded, [Next]_vars, Torn,
                      NEW p \in Node, stage[p] # "up", stage'[p] = "up"
               PROVE  FALSE
    OBVIOUS
  <2>0. p \in Process /\ stage \in [Process -> Stage] /\ cfg \in [Process -> Settings]
    BY DEF Process, Types
  <2>1. ~Same(p)
    BY DEF Same
  <2>2. Step(p)
    BY <2>0, <2>1, OnlyItself, Unseen DEF Next
  <2>3. Announce(p)
    <3>1. ~Start(p) /\ ~Ask(p) /\ ~Open(p) /\ ~End(p)
      BY <2>0 DEF Start, Ask, Open, Opened, End, Goto
    <3>2. ~Load(p)
      BY <2>0 DEF Load, Leave
    <3>3. ~SaveKey(p)
      BY <2>0 DEF SaveKey, Saved, Leave
    <3> QED BY <2>2, <3>1, <3>2, <3>3 DEF Step
  <2>4. stage[p] = "query" /\ Number(p, "domain") # 0 /\ Number(p, "service") # 0
    BY <2>3 DEF Announce, Goto
  <2>5. {"domain", "service"} \subseteq DOMAIN cfg[p]
    BY <2>4 DEF Number
  <2>6. source[p] = "file" /\ Path(p) = "node.conf"
    BY <2>4 DEF Torn, Path
  <2>7. {"domain", "service"} \subseteq DOMAIN ReadBack(file["node.conf"])
    BY <2>0, <2>5, <2>6 DEF Loaded, FromFile
  <2> QED BY <2>7 DEF Torn
<1> QED BY <1>1, LoadedStays, PTL DEF Spec, TornStaysOut

-----------------------------------------------------------------------------
(* Where a node is served.                                                 *)

(* A node that listens elsewhere found its port taken; one that listens    *)
(* nowhere will not get past its client.                                   *)
OthersPort(p, port) == \E q \in Process \ {p} : listens[q] = port
Explained(p, port) == listens[p] = port \/ port = 0 \/ port \in freed \/ OthersPort(p, port)
Speechless(p) == stage[p] = "query" /\ (Number(p, "domain") = 0 \/ Number(p, "service") = 0)
ServedAt(p) ==
    stage[p] \in {"query", "up"} => Speechless(p) \/ Explained(p, Wire(Number(p, "port")))
Served == \A p \in Node : ServedAt(p)

(* A port that a process had is its own, or was freed.                     *)
LEMMA PortsKept ==
    ASSUME Types, Control, [Next]_vars, NEW p \in Process, NEW port \in Ports,
           port \in freed \/ OthersPort(p, port)
    PROVE  port \in freed' \/ OthersPort(p, port)'
<1>0. listens \in [Process -> Heard] /\ Nowhere \notin Ports
  <2>1. Nowhere \notin Ports
    BY DEF Ports, Nowhere
  <2> QED BY <2>1 DEF Types
<1>1. CASE Settle \/ DiskFills \/ DiskEmpties \/ UNCHANGED vars
  BY <1>1, Unseen DEF processes, history, OthersPort
<1>2. ASSUME NEW r \in Process, Step(r), ~End(r)
      PROVE  port \in freed' \/ OthersPort(p, port)'
  <2>1. freed' = freed
    <3>1. ASSUME Start(r) \/ Ask(r) PROVE freed' = freed
      BY <3>1 DEF Start, Ask, history
    <3>2. ASSUME Load(r) \/ SaveKey(r) PROVE freed' = freed
      BY <3>2 DEF Load, SaveKey, Saved
    <3>3. ASSUME Open(r) \/ Announce(r) PROVE freed' = freed
      BY <3>3 DEF Open, Opened, Announce, history
    <3> QED BY <1>2, <3>1, <3>2, <3>3 DEF Step
  <2>2. ASSUME NEW q \in Process \ {p}, listens[q] = port PROVE listens'[q] = port
    <3>1. CASE q # r
      BY <1>2, <2>2, <3>1, OnlyItself DEF Same
    <3>2. CASE q = r
      <4>1. listens[r] # Nowhere
        BY <1>0, <2>2, <3>2
      <4>2. ~Start(r) /\ ~Open(r)
        BY <4>1 DEF Control, Has, Start, Open, Opened, Goto
      <4>3. ASSUME Load(r) \/ Ask(r) \/ SaveKey(r) \/ Announce(r) PROVE listens' = listens
        BY <4>3 DEF Load, Ask, SaveKey, Saved, Announce
      <4> QED BY <1>2, <2>2, <3>2, <4>2, <4>3 DEF Step
    <3> QED BY <3>1, <3>2
  <2> QED BY <2>1, <2>2 DEF OthersPort
<1>3. ASSUME NEW r \in Process, End(r)
      PROVE  port \in freed' \/ OthersPort(p, port)'
  <2>1. freed' = freed \cup ({listens[r]} \cap Ports) /\ listens' = [listens EXCEPT ![r] = Nowhere]
    BY <1>3 DEF End
  <2>2. ASSUME NEW q \in Process \ {p}, listens[q] = port
        PROVE  port \in freed' \/ listens'[q] = port
    BY <1>0, <2>1, <2>2
  <2> QED BY <2>1, <2>2 DEF OthersPort
<1> QED BY <1>1, <1>2, <1>3 DEF Next

LEMMA ServedStep == Types /\ Control /\ Served /\ [Next]_vars => Served'
<1> SUFFICES ASSUME Types, Control, Served, [Next]_vars, NEW p \in Node PROVE ServedAt(p)'
  BY DEF Served
<1>0. p \in Process /\ Types'
  BY TypeStep DEF Process
<1>1. ASSUME cfg'[p] = cfg[p], listens'[p] = listens[p], stage[p] \in {"query", "up"},
             stage'[p] = stage[p] \/ ~Speechless(p)
      PROVE  ServedAt(p)'
  <2> DEFINE port == Wire(Number(p, "port"))
  <2>1. \A k : Number(p, k)' = Number(p, k)
    BY <1>1 DEF Number
  <2>2. port \in Ports \cup {0} /\ port' = port
    BY <1>0, <2>1, BoundType, NumberType DEF Wire
  <2> HIDE DEF port
  <2>3. Speechless(p) => Speechless(p)' \/ ~(stage'[p] \in {"query", "up"})
    BY <1>1, <2>1 DEF Speechless
  <2>4. Explained(p, port) => Explained(p, port)'
    BY <1>0, <1>1, <2>2, PortsKept DEF Explained
  <2>5. Speechless(p) \/ Explained(p, port)
    BY <1>1 DEF Served, ServedAt, port
  <2> QED BY <2>3, <2>4, <2>5 DEF ServedAt, port
<1>2. ASSUME stage'[p] \notin {"query", "up"} PROVE ServedAt(p)'
  BY <1>2 DEF ServedAt
<1>3. ASSUME Same(p) PROVE ServedAt(p)'
  BY <1>1, <1>2, <1>3 DEF Same
<1>4. stage \in [Process -> Stage] /\ listens \in [Process -> Heard] /\ cfg \in [Process -> Settings]
  BY DEF Types
<1>5. CASE Open(p)
  <2> DEFINE port == Wire(Number(p, "port"))
  <2>1. port \in Ports \cup {0} /\ listens[p] = Nowhere /\ lingering \subseteq freed
    BY <1>0, <1>5, BoundType, NumberType DEF Control, Has, Open, Opened, Goto
  <2>2. cfg' = cfg /\ freed' = freed /\ stage'[p] = "query"
    BY <1>0, <1>4, <1>5 DEF Open, Opened, Goto, history
  <2>3. \A k : Number(p, k)' = Number(p, k)
    BY <2>2 DEF Number
  <2>4. /\ listens'[p] = BoundTo(Number(p, "domain"), Number(p, "service"), Number(p, "port"))
        /\ \A q \in Process \ {p} : listens'[q] = listens[q]
    BY <1>0, <1>4, <1>5 DEF Open, Opened
  <2>5. CASE Number(p, "domain") = 0 \/ Number(p, "service") = 0
    BY <2>2, <2>3, <2>5 DEF ServedAt, Speechless
  <2>6. CASE ~(Number(p, "domain") = 0 \/ Number(p, "service") = 0)
    <3>1. CASE port \notin Taken \cup {0}
      <4>1. listens'[p] = port
        BY <2>4, <2>6, <3>1 DEF BoundTo
      <4> QED BY <2>3, <4>1 DEF ServedAt, Explained, Wire
    <3>2. CASE port = 0
      BY <2>3, <3>2 DEF ServedAt, Explained, Wire
    <3>3. CASE port \in Taken /\ port # 0
      <4>1. port \in freed \/ OthersPort(p, port)
        BY <2>1, <3>3 DEF Taken, OthersPort, Nowhere
      <4>2. port \in freed' \/ OthersPort(p, port)'
        BY <2>2, <2>3, <2>4, <4>1 DEF OthersPort, Wire
      <4> QED BY <2>3, <4>2 DEF ServedAt, Explained, OthersPort, Wire
    <3> QED BY <3>1, <3>2, <3>3
  <2> QED BY <2>5, <2>6
<1>6. CASE Announce(p)
  BY <1>0, <1>1, <1>6 DEF Announce, Goto, Speechless
<1>7. CASE Start(p) \/ Ask(p) \/ Load(p) \/ SaveKey(p) \/ End(p)
  <2>1. CASE Start(p)
    BY <1>0, <1>2, <1>4, <2>1 DEF Start, Goto
  <2>2. CASE Ask(p)
    BY <1>0, <1>2, <1>4, <2>2 DEF Ask, Goto
  <2>3. CASE Load(p)
    BY <1>0, <1>2, <1>4, <2>3 DEF Load, Leave
  <2>4. CASE SaveKey(p)
    BY <1>0, <1>2, <1>4, <2>4 DEF SaveKey, Saved, Leave
  <2>5. CASE End(p)
    BY <1>0, <1>2, <1>4, <2>5 DEF End
  <2> QED BY <1>7, <2>1, <2>2, <2>3, <2>4, <2>5
<1>8. CASE Settle \/ DiskFills \/ DiskEmpties \/ UNCHANGED vars
  BY <1>0, <1>3, <1>8, Unseen
<1>9. ASSUME NEW q \in Process \ {p}, Step(q) PROVE ServedAt(p)'
  BY <1>0, <1>3, <1>9, OnlyItself
<1> QED BY <1>0, <1>5, <1>6, <1>7, <1>8, <1>9 DEF Next, Step

(* A node that is up is served where it announced, unless that port was    *)
(* none or another process's.                                              *)
THEOREM ServedAlways == Spec => []ServesWhatItAnnounced
<1>1. Init => Served
  BY DEF Init, Served, ServedAt, Process
<1>2. Types /\ Served => ServesWhatItAnnounced
  <2> SUFFICES ASSUME Served, NEW p \in Node, stage[p] = "up"
               PROVE  Explained(p, Wire(Number(p, "port")))
    BY DEF ServesWhatItAnnounced, Explained, OthersPort
  <2> QED BY DEF Served, ServedAt, Speechless
<1> QED BY <1>1, <1>2, ServedStep, TypesStay, PTL DEF Spec

-----------------------------------------------------------------------------
(* What is restored.                                                       *)

(* While a process saves alone, the file is the beginning of its lines;    *)
(* whoever left the constructor has what the file has.                     *)
Intact(d) == d \notin overlapped \cup lost
Restored(d) == [k \in DOMAIN ReadBack(file[d]) \cap KeySet(d) |-> ReadBack(file[d])[k]]
LineOf(p, k) == [key |-> k, value |-> cfg[p][k]]
Saves(p) ==
    /\ Len(file[Path(p)]) = saved[p]
    /\ \A i \in 1 .. saved[p] : file[Path(p)][i] = LineOf(p, Keys(p)[i])
Alone(d) ==
    /\ \A p, q \in Process : Fresh(p) /\ Fresh(q) /\ Path(p) = d /\ Path(q) = d => p = q
    /\ \A p \in Process : Fresh(p) /\ Path(p) = d => ran[d] = {} /\ Saves(p)
    /\ file[d] = <<>> => ran[d] = {}
    /\ ran[d] \subseteq {Restored(d)}
SavedAlone == \A d \in Dir : Intact(d) => Alone(d)

(* All six settings are read back as they were saved.                      *)
LEMMA AllSaved ==
    ASSUME NEW p \in Process, NEW c \in Settings, KeySet(Path(p)) \subseteq DOMAIN c,
           NEW f \in Seq(Line), Len(f) = 6,
           \A i \in 1 .. 6 : f[i] = [key |-> Keys(p)[i], value |-> c[Keys(p)[i]]]
    PROVE  [k \in DOMAIN ReadBack(f) \cap KeySet(Path(p)) |-> ReadBack(f)[k]]
             = [k \in DOMAIN c \cap ToSet(Keys(p)) |-> c[k]]
<1> DEFINE K == KeySet(Path(p))
           v == ReadBack(f)
<1>1. /\ \A i, j \in 1 .. 6 : Keys(p)[i] = Keys(p)[j] => i = j
      /\ ToSet(Keys(p)) = K /\ K = {Keys(p)[i] : i \in 1 .. 6}
  BY KeyOrder
<1>2. DOMAIN f = 1 .. 6 /\ \A i \in 1 .. 6 : f[i].key = Keys(p)[i] /\ f[i].value = c[Keys(p)[i]]
  OBVIOUS
<1>3. First(f) = 1 .. 6
  BY <1>1, <1>2 DEF First
<1>4. /\ \A k : k \in DOMAIN v <=> \E i \in 1 .. 6 : f[i].key = k
      /\ \A i \in 1 .. 6 : v[f[i].key] = f[i].value
  <2>1. /\ \A k : k \in DOMAIN v <=> \E i \in First(f) : f[i].key = k
        /\ \A i \in First(f) : v[f[i].key] = f[i].value
    BY ReadBackType
  <2> HIDE DEF v
  <2> QED BY ONLY <1>3, <2>1
<1>5. \A i \in 1 .. 6 : Keys(p)[i] \in DOMAIN v /\ v[Keys(p)[i]] = c[Keys(p)[i]]
  <2> TAKE i \in 1 .. 6
  <2>1. f[i].key = Keys(p)[i] /\ f[i].value = c[Keys(p)[i]]
    BY <1>2
  <2>2. f[i].key \in DOMAIN v /\ v[f[i].key] = f[i].value
    BY <1>4
  <2> QED BY ONLY <2>1, <2>2
<1>6. \A k \in K : k \in DOMAIN v /\ v[k] = c[k]
  BY <1>1, <1>5
<1> HIDE DEF v, K
<1>7. DOMAIN v \cap K = K /\ DOMAIN c \cap ToSet(Keys(p)) = K
  BY <1>1, <1>6 DEF K
<1>8. [k \in K |-> v[k]] = [k \in K |-> c[k]]
  BY <1>6
<1> QED BY <1>7, <1>8 DEF v, K

(* Nothing that is of a file happens.                                      *)
LEMMA Untouched ==
    ASSUME NEW d \in Dir, Alone(d), file'[d] = file[d], ran'[d] = ran[d],
           \A q \in Process : Path(q) = d /\ Fresh(q)' =>
              Fresh(q) /\ saved'[q] = saved[q] /\ cfg'[q] = cfg[q]
    PROVE  Alone(d)'
<1>1. Restored(d)' = Restored(d)
  BY DEF Restored
<1>2. \A q \in Process : Path(q) = d /\ Fresh(q)' => (Saves(q) => Saves(q)')
  BY DEF Saves, LineOf
<1>3. \A p, q \in Process : Fresh(p)' /\ Fresh(q)' /\ Path(p) = d /\ Path(q) = d => p = q
  BY DEF Alone
<1>4. \A p \in Process : Fresh(p)' /\ Path(p) = d => ran'[d] = {} /\ Saves(p)'
  BY <1>2 DEF Alone
<1>5. (file'[d] = <<>> => ran'[d] = {}) /\ ran'[d] \subseteq {Restored(d)'}
  BY <1>1 DEF Alone
<1> QED BY <1>3, <1>4, <1>5 DEF Alone

LEMMA LoadAlone ==
    ASSUME Types, Control, SavedAlone, NEW p \in Process, Load(p), Intact(Path(p))'
    PROVE  Alone(Path(p))'
<1> DEFINE d == Path(p)
           found == ReadBack(file[d])
<1>0. /\ d \in Dir /\ file[d] \in Seq(Line) /\ stage \in [Process -> Stage]
      /\ ran \in [Dir -> SUBSET Settings] /\ stage[p] = "read" /\ saved[p] = 0
      /\ \A q \in Process \ {p} : stage'[q] = stage[q]
  <2>1. d \in Dir
    BY PathType
  <2>2. \A q \in Process \ {p} : stage'[q] = stage[q]
    BY OnlyItself DEF Step, Same
  <2> QED BY <2>1, <2>2 DEF Types, Control, Has, Load
<1>1. \A q \in Process \ {p} : Path(q) = d => ~Fresh(q)
  BY DEF Load, Intact
<1>2. Intact(d) /\ file' = file /\ saved' = saved
  BY DEF Load, Intact
<1>3. Alone(d)
  BY <1>0, <1>2 DEF SavedAlone
<1>4. \A q \in Process \ {p} : Path(q) = d => ~Fresh(q)'
  BY <1>0, <1>1 DEF Fresh
<1>5. Restored(d)' = Restored(d)
  BY <1>2 DEF Restored
<1>6. CASE DOMAIN found # {}
  <2> DEFINE r == [k \in DOMAIN found \cap ToSet(Keys(p)) |-> found[k]]
  <2>1. Leave(p, found)
    BY <1>6 DEF Load
  <2>2. ~Fresh(p)'
    BY <1>0, <2>1 DEF Leave, Fresh
  <2>3. r = Restored(d)
    BY KeyOrder DEF Restored
  <2> HIDE DEF r
  <2>4. ran'[d] = ran[d] \cup {Restored(d)}
    <3>1. ran' = [ran EXCEPT ![d] = @ \cup {r}]
      BY <2>1 DEF Leave, r
    <3> QED BY <1>0, <2>3, <3>1
  <2>5. file[d] # <<>>
    BY <1>6, ReadBackNothing
  <2>6. \A q \in Process : Path(q) = d => ~Fresh(q)'
    BY <1>4, <2>2
  <2> HIDE DEF d
  <2>7. ran'[d] \subseteq {Restored(d)'}
    BY <1>3, <1>5, <2>4 DEF Alone
  <2> QED BY <1>2, <2>5, <2>6, <2>7 DEF Alone, d
<1>7. CASE DOMAIN found = {}
  <2>1. file[d] = <<>> /\ ran[d] = {}
    BY <1>0, <1>3, <1>7, NothingReadBack DEF Alone
  <2>2. ran' = ran
    BY <1>7 DEF Load
  <2>3. Saves(p)'
    BY <1>0, <1>2, <2>1 DEF Saves
  <2>4. \A q \in Process : Path(q) = d /\ Fresh(q)' => q = p
    BY <1>4
  <2> HIDE DEF d
  <2> QED BY <1>2, <2>1, <2>2, <2>3, <2>4 DEF Alone, d
<1> QED BY <1>6, <1>7

LEMMA SaveAlone ==
    ASSUME Types, Control, SavedAlone, NEW p \in Process, SaveKey(p), Intact(Path(p))'
    PROVE  Alone(Path(p))'
<1> DEFINE d == Path(p)
           line == NextLine(p)
<1>0. /\ d \in Dir /\ file \in [Dir -> Seq(Line)] /\ stage \in [Process -> Stage]
      /\ ran \in [Dir -> SUBSET Settings] /\ saved \in [Process -> 0 .. 5]
      /\ cfg[p] \in Settings /\ stage[p] = "save" /\ KeySet(d) \subseteq DOMAIN cfg[p]
  <2>1. d \in Dir
    BY PathType
  <2> QED BY <2>1 DEF Types, Control, Has, SaveKey, Saved
<1>1. ~full /\ Intact(d) /\ cfg' = cfg
  BY <1>0 DEF SaveKey, Saved, Intact
<1>2. Alone(d)
  BY <1>0, <1>1 DEF SavedAlone
<1>3. ran[d] = {} /\ Saves(p) /\ \A q \in Process \ {p} : Path(q) = d => ~Fresh(q)
  BY <1>0, <1>2 DEF Alone, Fresh
<1>4. /\ \A q \in Process \ {p} : Path(q) = d => ~Fresh(q)'
      /\ \A q \in Process \ {p} : stage'[q] = stage[q]
  BY <1>3, OnlyItself DEF Step, Same, Fresh
<1>5. line \in Line /\ line = LineOf(p, Keys(p)[saved[p] + 1])
  BY <1>0, NextLineType DEF LineOf, NextLine
<1>6. file'[d] = Append(file[d], line)
  BY <1>0, <1>1 DEF SaveKey, Saved
<1>7. /\ file'[d] \in Seq(Line) /\ Len(file'[d]) = saved[p] + 1 /\ file'[d] # <<>>
      /\ \A i \in 1 .. saved[p] + 1 : file'[d][i] = LineOf(p, Keys(p)[i])
  <2>1. /\ file[d] \in Seq(Line) /\ Len(file[d]) = saved[p] /\ saved[p] \in Nat
        /\ \A i \in 1 .. saved[p] : file[d][i] = LineOf(p, Keys(p)[i])
    BY <1>0, <1>3 DEF Saves
  <2> HIDE DEF d, line
  <2>2. /\ file'[d] \in Seq(Line) /\ Len(file'[d]) = saved[p] + 1
        /\ file'[d][saved[p] + 1] = line
        /\ \A i \in 1 .. saved[p] : file'[d][i] = file[d][i]
    BY <1>5, <1>6, <2>1
  <2>3. \A i \in 1 .. saved[p] + 1 : i = saved[p] + 1 \/ i \in 1 .. saved[p]
    BY <2>1
  <2>4. \A i \in 1 .. saved[p] + 1 : file'[d][i] = LineOf(p, Keys(p)[i])
    BY <1>5, <2>1, <2>2, <2>3
  <2> QED BY <2>1, <2>2, <2>4
<1>8. CASE saved[p] + 1 = 6
  <2> DEFINE r == [k \in DOMAIN cfg[p] \cap ToSet(Keys(p)) |-> cfg[p][k]]
  <2>1. Leave(p, cfg[p])
    BY <1>8 DEF SaveKey, Saved
  <2>2. \A q \in Process : Path(q) = d => ~Fresh(q)'
    BY <1>0, <1>4, <2>1 DEF Leave, Fresh
  <2>3. r = Restored(d)'
    <3>1. /\ Len(file'[d]) = 6
          /\ \A i \in 1 .. 6 : file'[d][i] = [key |-> Keys(p)[i], value |-> cfg[p][Keys(p)[i]]]
      BY <1>7, <1>8 DEF LineOf
    <3> QED BY <1>0, <1>7, <3>1, AllSaved DEF Restored
  <2> HIDE DEF r
  <2>4. ran'[d] = {r}
    <3>1. ran' = [ran EXCEPT ![d] = @ \cup {r}]
      BY <2>1 DEF Leave, r
    <3> QED BY <1>0, <1>3, <3>1
  <2> HIDE DEF d, line
  <2> QED BY <1>7, <2>2, <2>3, <2>4 DEF Alone, d
<1>9. CASE saved[p] + 1 # 6
  <2>1. saved'[p] = saved[p] + 1 /\ ran' = ran
    BY <1>0, <1>9 DEF SaveKey, Saved
  <2>2. Saves(p)'
    BY <1>1, <1>7, <2>1 DEF Saves, LineOf
  <2> HIDE DEF d, line
  <2> QED BY <1>3, <1>4, <1>7, <2>1, <2>2 DEF Alone, d
<1> QED BY <1>8, <1>9

LEMMA AskAlone ==
    ASSUME Types, Control, SavedAlone, NEW p \in Process, Ask(p), Intact(Path(p))'
    PROVE  Alone(Path(p))'
<1> DEFINE d == Path(p)
<1>1. d \in Dir /\ stage[p] = "ask" /\ saved[p] = 0
  BY PathType DEF Types, Control, Has, Ask, Goto
<1>2. Intact(d) /\ file' = file /\ ran' = ran /\ saved' = saved
  BY DEF Ask, Intact, history
<1>3. Alone(d)
  BY <1>1, <1>2 DEF SavedAlone
<1>4. ran[d] = {} /\ Len(file[d]) = 0 /\ \A q \in Process \ {p} : Path(q) = d => ~Fresh(q)
  BY <1>1, <1>3 DEF Alone, Fresh, Saves
<1>5. \A q \in Process \ {p} : Path(q) = d => ~Fresh(q)'
  BY <1>4, OnlyItself DEF Step, Same, Fresh
<1>6. Saves(p)'
  BY <1>1, <1>2, <1>4 DEF Saves
<1> HIDE DEF d
<1> QED BY <1>2, <1>4, <1>5, <1>6 DEF Alone, d

(* A step of a process that is not about a file.                           *)
LEMMA OtherAlone ==
    ASSUME Types, Control, NEW d \in Dir, Alone(d), NEW p \in Process, Step(p),
           Path(p) # d \/ ~(Load(p) \/ Ask(p) \/ SaveKey(p))
    PROVE  Alone(d)'
<1>0. /\ file \in [Dir -> Seq(Line)] /\ ran \in [Dir -> SUBSET Settings]
      /\ stage \in [Process -> Stage] /\ Path(p) \in Dir
  BY PathType DEF Types
<1>1. \A q \in Process \ {p} : Fresh(q)' => Fresh(q) /\ saved'[q] = saved[q] /\ cfg'[q] = cfg[q]
  BY OnlyItself DEF Same, Fresh
<1>2. CASE Path(p) # d /\ (Load(p) \/ Ask(p) \/ SaveKey(p))
  <2>1. ASSUME Load(p) PROVE file'[d] = file[d] /\ ran'[d] = ran[d]
    BY <1>0, <1>2, <2>1 DEF Load, Leave
  <2>2. ASSUME Ask(p) PROVE file'[d] = file[d] /\ ran'[d] = ran[d]
    BY <2>2 DEF Ask, history
  <2>3. ASSUME SaveKey(p) PROVE file'[d] = file[d] /\ ran'[d] = ran[d]
    BY <1>0, <1>2, <2>3 DEF SaveKey, Saved, Leave
  <2> QED BY <1>1, <1>2, <2>1, <2>2, <2>3, Untouched
<1>3. CASE Start(p) \/ Open(p) \/ Announce(p) \/ End(p)
  <2>1. file' = file /\ ran' = ran
    <3>1. ASSUME Start(p) \/ Open(p) \/ Announce(p) PROVE file' = file /\ ran' = ran
      BY <3>1 DEF Start, Open, Opened, Announce, history
    <3>2. ASSUME End(p) PROVE file' = file /\ ran' = ran
      BY <3>2 DEF End
    <3> QED BY <1>3, <3>1, <3>2
  <2>2. ~Fresh(p)'
    <3>1. ASSUME Start(p) \/ Open(p) \/ Announce(p) PROVE ~Fresh(p)'
      BY <1>0, <3>1 DEF Start, Open, Opened, Announce, Goto, Fresh
    <3>2. ASSUME End(p) PROVE ~Fresh(p)'
      BY <1>0, <3>2 DEF End, Fresh
    <3> QED BY <1>3, <3>1, <3>2
  <2> QED BY <1>1, <2>1, <2>2, Untouched
<1> QED BY <1>2, <1>3 DEF Step

LEMMA SavedAloneStep == Types /\ Control /\ SavedAlone /\ [Next]_vars => SavedAlone'
<1> SUFFICES ASSUME Types, Control, SavedAlone, [Next]_vars, NEW d \in Dir, Intact(d)'
             PROVE  Alone(d)'
  BY DEF SavedAlone
<1>1. ASSUME NEW p \in Process, Step(p) PROVE Alone(d)'
  <2>1. Intact(d)
    <3>1. ASSUME Start(p) \/ Ask(p) \/ Open(p) \/ Announce(p) PROVE Intact(d)
      BY <3>1 DEF Start, Ask, Open, Opened, Announce, history, Intact
    <3>2. ASSUME Load(p) \/ SaveKey(p) \/ End(p) PROVE Intact(d)
      BY <3>2 DEF Load, SaveKey, Saved, End, Intact
    <3> QED BY <1>1, <3>1, <3>2 DEF Step
  <2>2. Alone(d)
    BY <2>1 DEF SavedAlone
  <2>3. CASE Path(p) = d /\ (Load(p) \/ Ask(p) \/ SaveKey(p))
    BY <2>3, LoadAlone, AskAlone, SaveAlone
  <2>4. CASE ~(Path(p) = d /\ (Load(p) \/ Ask(p) \/ SaveKey(p)))
    BY <1>1, <2>2, <2>4, OtherAlone
  <2> QED BY <2>3, <2>4
<1>2. CASE Settle \/ DiskFills \/ DiskEmpties \/ UNCHANGED vars
  <2>1. UNCHANGED <<processes, file, history>>
    BY <1>2, Unseen
  <2>2. Alone(d)
    BY <2>1 DEF history, Intact, SavedAlone
  <2> QED BY <2>1, <2>2, Untouched DEF processes, history, Fresh
<1> QED BY <1>1, <1>2 DEF Next

(* Every process that leaves the constructor has the same settings, unless *)
(* the disk was full or two processes looked at an empty file.             *)
THEOREM RestoredAlways == Spec => []RestoredAsSaved
<1>1. Init => SavedAlone
  BY DEF Init, SavedAlone, Alone, Fresh
<1>2. SavedAlone => RestoredAsSaved
  <2> SUFFICES ASSUME SavedAlone, NEW d \in Dir, Intact(d) PROVE Cardinality(ran[d]) <= 1
    BY DEF RestoredAsSaved, Intact
  <2> DEFINE S == {Restored(d)}
  <2>1. ran[d] \subseteq S
    BY DEF SavedAlone, Alone
  <2>2. IsFiniteSet(S) /\ Cardinality(S) = 1
    BY FS_Singleton
  <2>3. Cardinality(ran[d]) <= Cardinality(S)
    BY <2>1, <2>2, FS_Subset
  <2> QED BY <2>2, <2>3
<1> QED BY <1>1, <1>2, SavedAloneStep, TypesStay, PTL DEF Spec
=============================================================================
