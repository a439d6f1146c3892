---------------------------- MODULE MCBootstrap ----------------------------
(* Small instances of Bootstrap for TLC.                                   *)
EXTENDS Bootstrap, TLC

Symmetric == Permutations(Nodes) \cup Permutations(Genesis)

(* States after which RootsReachAll says nothing are not continued.        *)
NothingEnded == mishaps \cap {"end", "statement"} = {}

(* "If it doesn't respond, the registry is deleted from the list"          *)
(* (servers/DNS/README.md): when nothing ends by itself any more and nodes *)
(* that are off are started again, the network runs again and again.       *)
Mishap == (\E n \in Nodes : End(n)) \/ ServerCrash \/ Fails \/ status' # status
Restarting ==
    /\ FairSpec
    /\ WF_vars(ServerRestart /\ UNCHANGED node)
    /\ \A n \in Nodes : WF_vars(Start(n))
Recovers == <>[][~Mishap]_vars => []<>(Up # {})
=============================================================================
