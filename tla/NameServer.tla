----------------------------- MODULE NameServer -----------------------------
(***************************************************************************)
(* The name server (DDNS).  One thread accepts a connection, reads one     *)
(* query into a buffer that is never cleared, executes its SQL statements  *)
(* and answers.  The tables are in a file and survive a restart of the     *)
(* process, the buffer and the root address it remembers do not.           *)
(*                                                                         *)
(* Definitions marked "a slip" are mistakes that could be made in the code *)
(* beside them, used by no action.                                         *)
(***************************************************************************)
EXTENDS Integers, FiniteSets

CONSTANTS
    Nodes,   \* nodes, each with its uuid, host and wallet address
    None,    \* an empty string
    Limit    \* LIMIT 10 of the query for hosts

ASSUME NameServerAssumption ==
    /\ IsFiniteSet(Nodes) /\ None \notin Nodes
    /\ Limit \in Nat \ {0}

VARIABLES
    status,      \* whether the process runs
    buffer,      \* "long" when it holds the tail of a query with a body
    hosts,       \* rows of the table hosts
    wallets,     \* rows of the table wallets, all of them with root = 1
    rootAnswer,  \* root_address
    mishaps      \* what went wrong since the beginning, history

tables == <<hosts, wallets>>
process == <<status, buffer, rootAnswer>>
server == <<tables, process>>

ServerInit ==
    /\ status = "up" /\ buffer = "fresh" /\ rootAnswer = None
    /\ hosts = {} /\ wallets = {}
    /\ mishaps = {}

-----------------------------------------------------------------------------
(* Slips: a host is told of itself, and only roots are told.               *)
OthersAndItself(n) == hosts
OthersWithWallet(n) == wallets \ {n}

(* Hosts with another uuid; all have 0 links, so any Limit of them may be  *)
(* the first.                                                              *)
Others(n) == hosts \ {n}
FirstHosts(n) ==
    {list \in SUBSET Others(n) :
        Cardinality(list) = IF Cardinality(Others(n)) < Limit
                            THEN Cardinality(Others(n)) ELSE Limit}

(* A slip: a host that is alone is not entered.                            *)
RegisterIfAccompanied(n) == IF hosts = {} THEN hosts ELSE hosts \cup {n}

(* INSERT OR REPLACE INTO hosts.                                           *)
Register(n) == hosts \cup {n}

(* A statement that fails is reported on the console of the server, and    *)
(* the query goes on without its result.                                   *)
Fails == mishaps' = mishaps \cup {"statement"}

(* SYNC_ME.  The list of hosts is the answer, or "root" where it is empty. *)
SyncMe(n, list) ==
    /\ status = "up"
    /\ \/ list \in FirstHosts(n) /\ hosts' = Register(n) /\ UNCHANGED mishaps
       \/ list \in FirstHosts(n) \cup {{}} /\ hosts' \in {hosts, Register(n)} /\ Fails
    /\ buffer' = "long"
    /\ status' \in {"up", "down"}
    /\ UNCHANGED <<wallets, rootAnswer>>

(* IM_ROOT.  The answer is empty.                                          *)
ImRoot(n) ==
    /\ status = "up"
    /\ \/ wallets' = wallets \cup {n} /\ UNCHANGED mishaps
       \/ UNCHANGED wallets /\ Fails
    /\ buffer' = "long"
    /\ status' \in {"up", "down"}
    /\ UNCHANGED <<hosts, rootAnswer>>

(* A slip: the buffer is cleared before it is read into.                   *)
ParsesInClearedBuffer == FALSE

(* WHOS_ROOT has no body.  strtok finds one only in the tail of an earlier *)
(* query; without a tail it returns a null pointer, and the server dies of *)
(* assigning it to a string.                                               *)
Parses == buffer = "long"

WhosRoot ==
    /\ status = "up"
    /\ \/ /\ ~Parses
          /\ status' = "down"
          /\ mishaps' = mishaps \cup {"query"}
          /\ UNCHANGED rootAnswer
       \/ /\ Parses
          /\ rootAnswer' \in IF wallets = {} THEN {rootAnswer} ELSE wallets
          /\ status' \in {"up", "down"}
          /\ UNCHANGED mishaps
       \/ Parses /\ status' \in {"up", "down"} /\ UNCHANGED rootAnswer /\ Fails
    /\ UNCHANGED <<tables, buffer>>

ServerCrash ==
    /\ status = "up"
    /\ status' = "down"
    /\ UNCHANGED <<tables, buffer, rootAnswer, mishaps>>

ServerRestart ==
    /\ status = "down"
    /\ status' = "up" /\ buffer' = "fresh" /\ rootAnswer' = None
    /\ mishaps' = mishaps \cup {"restart"}
    /\ UNCHANGED tables

-----------------------------------------------------------------------------
ServerTypeOK ==
    /\ status \in {"up", "down"} /\ buffer \in {"fresh", "long"}
    /\ hosts \subseteq Nodes /\ wallets \subseteq Nodes
    /\ rootAnswer \in Nodes \cup {None}
    /\ mishaps \subseteq {"statement", "query", "restart", "end"}
=============================================================================
