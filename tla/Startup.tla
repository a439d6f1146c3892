------------------------------ MODULE Startup ------------------------------
(***************************************************************************)
(* How the processes of one machine start: nodes that share a working      *)
(* directory, and with it node.conf, and the name server with a file of    *)
(* its own.  A process that finds no setting asks the user and saves the   *)
(* answers line by line; one that finds any takes what there is.  A node   *)
(* then binds the port of its settings and announces it to a name server.  *)
(* Processes may end at any step and be started again, and the disk may be *)
(* full for a while.                                                       *)
(*                                                                         *)
(* A setting is a number: what to_string writes atoi reads back, and reads *)
(* 0 where there is nothing.  An identifier (uuid) is a number as well.    *)
(*                                                                         *)
(* Definitions marked "a slip" are mistakes that could be made in the code *)
(* beside them, used by no other definition.                               *)
(***************************************************************************)
EXTENDS Naturals, SequencesExt, FiniteSets

CONSTANTS
    Node, Server,       \* processes
    Domain, Service, Protocol, Port, Threads, Backlog,
                        \* what a user may answer beside the defaults, or
                        \* memory hold where the answer is neither y nor n
    MaxBoots,           \* starts, of all processes together
    MaxFills            \* times the disk fills

ASSUME StartupAssumption ==
    /\ Node \cap Server = {}
    /\ Domain \subseteq Nat /\ Service \subseteq Nat /\ Protocol \subseteq Nat
    /\ Port \subseteq Nat /\ Threads \subseteq Nat /\ Backlog \subseteq Nat
    /\ MaxBoots \in Nat /\ MaxFills \in Nat

VARIABLES
    stage,      \* where each process is
    cfg,        \* its settings, those that have a value
    source,     \* "file" or "user"
    saved,      \* how many of them it has saved
    listens,    \* the port its server listens to
    file,       \* the lines of each file
    full,       \* nothing can be written to the disk
    lingering,  \* ports whose last connections are not over
    boots, drawn, fills,    \* starts, identifiers drawn, and fillings
    overlapped, \* files that a process looked at while another was saving
    lost,       \* files from which a line is missing
    freed,      \* ports that a process had and lost by ending
    ran         \* the settings with which processes left the constructor

processes == <<stage, cfg, source, saved, listens>>
history   == <<overlapped, lost, freed, ran>>
vars      == <<processes, file, full, lingering, boots, drawn, fills, history>>

Process == Node \cup Server
Dir == {"node.conf", "ddns.conf"}
Path(p) == IF p \in Node THEN "node.conf" ELSE "ddns.conf"

(* The settings in the order in which save_config writes them.             *)
Key == {"domain", "service", "protocol", "port", "backlog", "threads", "uuid"}
Keys(p) == IF p \in Node
           THEN <<"domain", "service", "protocol", "port", "threads", "uuid">>
           ELSE <<"domain", "service", "protocol", "port", "backlog", "threads">>

Line == [key : Key, value : Nat]
IsSettings(c) == DOMAIN c \subseteq Key /\ c \in [DOMAIN c -> Nat]
Stage == {"down", "read", "ask", "save", "open", "query", "up"}

AF_INET == 2
SOCK_STREAM == 1
IPPROTO_TCP == 6

(* Sixteen bits of a port are sent and bound.  A server that has no port,  *)
(* and one that was given some port by the system.                         *)
Wire(port) == port % 65536
Ports == 1 .. 65535
Nowhere == 0
Elsewhere == 65536

(* getConfigFromFile: the first line of a key is kept.                     *)
Values(f, I) == [k \in {f[i].key : i \in I} |-> f[CHOOSE i \in I : f[i].key = k].value]
First(f) == {i \in DOMAIN f : \A j \in 1 .. i - 1 : f[j].key # f[i].key}
ReadBackLast(f) ==  \* a slip: a later line replaces an earlier one
    Values(f, {i \in DOMAIN f : \A j \in i + 1 .. Len(f) : f[j].key # f[i].key})
ReadBack(f) == Values(f, First(f))

Number(p, k) == IF k \in DOMAIN cfg[p] THEN cfg[p][k] ELSE 0

TypeOK ==
    /\ stage \in [Process -> Stage]
    /\ DOMAIN cfg = Process /\ \A p \in Process : IsSettings(cfg[p])
    /\ source \in [Process -> {"file", "user"}]
    /\ saved \in [Process -> 0 .. 5]
    /\ listens \in [Process -> Ports \cup {Nowhere, Elsewhere}]
    /\ file \in [Dir -> Seq(Line)]
    /\ full \in BOOLEAN
    /\ lingering \subseteq Ports
    /\ boots \in Nat /\ drawn \in Nat /\ fills \in Nat
    /\ overlapped \subseteq Dir /\ lost \subseteq Dir
    /\ freed \subseteq Ports
    /\ DOMAIN ran = Dir /\ \A d \in Dir : \A c \in ran[d] : IsSettings(c)

Init ==
    /\ stage = [p \in Process |-> "down"]
    /\ cfg = [p \in Process |-> <<>>]
    /\ source = [p \in Process |-> "file"]
    /\ saved = [p \in Process |-> 0]
    /\ listens = [p \in Process |-> Nowhere]
    /\ file = [d \in Dir |-> <<>>]
    /\ full = FALSE
    /\ lingering = {}
    /\ boots = 0 /\ drawn = 0 /\ fills = 0
    /\ overlapped = {} /\ lost = {} /\ freed = {}
    /\ ran = [d \in Dir |-> {}]

-----------------------------------------------------------------------------
Goto(p, from, to) == stage[p] = from /\ stage' = [stage EXCEPT ![p] = to]

Fresh(p) == stage[p] \in {"ask", "save"}    \* settings of its own, not all saved

(* The servers' sockets: bind fails, and nobody notices, where the port is *)
(* in use; listen then takes any port.                                     *)
Taken == {listens[p] : p \in Process} \cup lingering
BoundTo(domain, service, port) ==
    IF domain = 0 \/ service = 0 THEN Nowhere
    ELSE IF Wire(port) \notin Taken \cup {0} THEN Wire(port) ELSE Elsewhere

(* A process is started.  The name server binds what it was constructed    *)
(* with, before it looks for settings.                                     *)
StartPort == 4542
Start(p) ==
    /\ boots < MaxBoots
    /\ Goto(p, "down", "read")
    /\ boots' = boots + 1
    /\ listens' = IF p \in Server
                  THEN [listens EXCEPT ![p] = BoundTo(AF_INET, SOCK_STREAM, StartPort)]
                  ELSE listens
    /\ UNCHANGED <<cfg, source, saved, file, full, lingering, drawn, fills, history>>

(* The constructor is left, with the settings c.                           *)
Leave(p, c) ==
    /\ stage' = [stage EXCEPT ![p] = IF p \in Node THEN "open" ELSE "up"]
    /\ ran' = [ran EXCEPT ![Path(p)] = @ \cup {[k \in DOMAIN c \cap ToSet(Keys(p)) |-> c[k]]}]

(* Whatever the file has is taken for a configuration.                     *)
Load(p) ==
    LET found == ReadBack(file[Path(p)])
    IN  /\ stage[p] = "read"
        /\ IF DOMAIN found # {}
           THEN /\ cfg' = [cfg EXCEPT ![p] = found]
                /\ Leave(p, found)
           ELSE /\ stage' = [stage EXCEPT ![p] = "ask"]
                /\ UNCHANGED <<cfg, ran>>
        /\ source' = [source EXCEPT ![p] = "file"]
        /\ overlapped' = IF \E q \in Process \ {p} : Path(q) = Path(p) /\ Fresh(q)
                         THEN overlapped \cup {Path(p)} ELSE overlapped
        /\ UNCHANGED <<saved, listens, file, full, lingering, boots, drawn, fills, lost, freed>>

(* The answers.  An identifier is drawn for a node; its backlog is a       *)
(* setting that it does not save.                                          *)
NodeAnswers ==
    {[domain |-> AF_INET, service |-> SOCK_STREAM, protocol |-> IPPROTO_TCP,
      port |-> 4568, threads |-> 0, backlog |-> 100]} \cup
    [domain : {AF_INET}, service : {SOCK_STREAM}, protocol : {IPPROTO_TCP},
     port : Port, threads : Threads, backlog : Backlog]
ServerAnswers ==
    {[domain |-> AF_INET, service |-> SOCK_STREAM, protocol |-> IPPROTO_TCP,
      port |-> 4542, threads |-> 0, backlog |-> 100]} \cup
    [domain : Domain, service : Service, protocol : Protocol,
     port : Port, threads : Threads, backlog : Backlog]

Ask(p) ==
    /\ Goto(p, "ask", "save")
    /\ IF p \in Node
       THEN /\ drawn' = drawn + 1
            /\ \E a \in NodeAnswers :
                  cfg' = [cfg EXCEPT ![p] = [k \in Key |-> IF k = "uuid" THEN drawn' ELSE a[k]]]
       ELSE /\ drawn' = drawn
            /\ \E a \in ServerAnswers :
                  cfg' = [cfg EXCEPT ![p] = [k \in Key \ {"uuid"} |-> a[k]]]
    /\ source' = [source EXCEPT ![p] = "user"]
    /\ UNCHANGED <<saved, listens, file, full, lingering, boots, fills, history>>

(* set_config: one line is appended, in one write.  That it could not be   *)
(* is returned, and ignored.                                               *)
Saved(p, line, last) ==
    /\ stage[p] = "save"
    /\ file' = IF full THEN file ELSE [file EXCEPT ![Path(p)] = Append(@, line)]
    /\ lost' = IF full THEN lost \cup {Path(p)} ELSE lost
    /\ IF saved[p] + 1 = last
       THEN Leave(p, cfg[p]) /\ saved' = [saved EXCEPT ![p] = 0]
       ELSE UNCHANGED <<stage, ran>> /\ saved' = [saved EXCEPT ![p] = @ + 1]
    /\ UNCHANGED <<cfg, source, listens, full, lingering, boots, drawn, fills, overlapped, freed>>

NextLine(p) == LET k == Keys(p)[saved[p] + 1] IN [key |-> k, value |-> cfg[p][k]]

(* A slip: the last setting is not saved.                                  *)
SaveKeyShort(p) == Saved(p, NextLine(p), 5)

(* A slip: the file is opened without append.                              *)
SaveKeyAfresh(p) ==
    /\ stage[p] = "save" /\ ~full
    /\ file' = [file EXCEPT ![Path(p)] = <<NextLine(p)>>]
    /\ IF saved[p] + 1 = 6
       THEN Leave(p, cfg[p]) /\ saved' = [saved EXCEPT ![p] = 0]
       ELSE UNCHANGED <<stage, ran>> /\ saved' = [saved EXCEPT ![p] = @ + 1]
    /\ UNCHANGED <<cfg, source, listens, full, lingering, boots, drawn, fills, overlapped, freed,
                   lost>>

SaveKey(p) == Saved(p, NextLine(p), 6)

Opened(p, port) ==
    /\ Goto(p, "open", "query")
    /\ listens' = [listens EXCEPT
                       ![p] = BoundTo(Number(p, "domain"), Number(p, "service"), port)]
    /\ UNCHANGED <<cfg, source, saved, file, full, lingering, boots, drawn, fills, history>>

(* A slip: the default port is bound.                                      *)
OpenDefault(p) == Opened(p, 4568)

(* Node::start: the node's server.                                         *)
Open(p) == Opened(p, Number(p, "port"))

(* A slip: whether the name server was reached is not asked.               *)
AnnounceAnyway(p) ==
    /\ Goto(p, "query", "up")
    /\ UNCHANGED <<cfg, source, saved, listens, file, full, lingering, boots, drawn, fills, history>>

(* The node tells a name server its identifier and port, and goes on if it *)
(* was answered; the client needs the settings of a socket.                *)
Announce(p) ==
    /\ Goto(p, "query", "up")
    /\ Number(p, "domain") # 0 /\ Number(p, "service") # 0
    /\ UNCHANGED <<cfg, source, saved, listens, file, full, lingering, boots, drawn, fills, history>>

(* A process ends, killed or by itself.  The system keeps its port for a   *)
(* while if connections are left.                                          *)
End(p) ==
    LET had == {listens[p]} \cap Ports
    IN  /\ stage[p] # "down"
        /\ stage' = [stage EXCEPT ![p] = "down"]
        /\ cfg' = [cfg EXCEPT ![p] = <<>>]
        /\ source' = [source EXCEPT ![p] = "file"]
        /\ saved' = [saved EXCEPT ![p] = 0]
        /\ listens' = [listens EXCEPT ![p] = Nowhere]
        /\ freed' = freed \cup had
        /\ lingering' \in {lingering, lingering \cup had}
        /\ UNCHANGED <<file, full, boots, drawn, fills, overlapped, lost, ran>>


Settle ==
    /\ \E port \in lingering : lingering' = lingering \ {port}
    /\ UNCHANGED <<processes, file, full, boots, drawn, fills, history>>

DiskFills ==
    /\ ~full /\ fills < MaxFills
    /\ full' = TRUE /\ fills' = fills + 1
    /\ UNCHANGED <<processes, file, lingering, boots, drawn, history>>

DiskEmpties ==
    /\ full /\ full' = FALSE
    /\ UNCHANGED <<processes, file, lingering, boots, drawn, fills, history>>

Step(p) == Start(p) \/ Load(p) \/ Ask(p) \/ SaveKey(p) \/ Open(p) \/ Announce(p) \/ End(p)

Next == (\E p \in Process : Step(p)) \/ Settle \/ DiskFills \/ DiskEmpties

Spec == Init /\ [][Next]_vars

-----------------------------------------------------------------------------
(* A setting that getConfigFromFile has once returned for a file is what   *)
(* it returns ever after, whoever crashes, overlaps or appends.            *)
Register == INSTANCE WriteOnce
    WITH Place <- Dir, reg <- [d \in Dir |-> ReadBack(file[d])]
ImplementsWriteOnce == Register!Spec

(* Node::Node, DNS_Server: what the user chose, or the identifier drawn,   *)
(* is what every later start finds, however often a save is cut short,     *)
(* unless the disk was full or two processes looked at an empty file.      *)
RestoredAsSaved ==
    \A d \in Dir : d \in overlapped \cup lost \/ Cardinality(ran[d]) <= 1

(* Even then, two processes that found all settings in a file agree.       *)
Whole(p) == source[p] = "file" /\ DOMAIN cfg[p] = ToSet(Keys(p))
WholeLoadsAgree ==
    \A p, q \in Process : Path(p) = Path(q) /\ Whole(p) /\ Whole(q) => cfg[p] = cfg[q]

(* Node::start: a node that is up is served at the port it announced, but  *)
(* for a port that is not in its file, or was that of another process.     *)
ServesWhatItAnnounced ==
    \A p \in Node : stage[p] = "up" =>
        \/ listens[p] = Wire(Number(p, "port"))
        \/ Wire(Number(p, "port")) = 0
        \/ Wire(Number(p, "port")) \in freed \cup {listens[q] : q \in Process \ {p}}

(* config::set_config, getConfigFromFile: a first start that ends between  *)
(* two lines, with no settings of a socket saved, keeps every node of the  *)
(* directory from ever coming up.                                          *)
Torn ==
    /\ \A p \in Node : ~Fresh(p) /\ (stage[p] \in {"open", "query"} => source[p] = "file")
    /\ LET found == DOMAIN ReadBack(file["node.conf"])
       IN  found # {} /\ ~({"domain", "service"} \subseteq found)
TornStaysOut ==
    [][Torn => \A p \in Node : stage[p] # "up" => stage'[p] # "up"]_vars
=============================================================================
