----------------------------- MODULE MCStartup -----------------------------
(* Two nodes in one directory, whose user may ask for a port of more than  *)
(* sixteen bits, and a name server.                                        *)
EXTENDS Startup, TLC

Symmetry == Permutations(Node)

(* Nodes and name server share nothing but ports: a machine runs the one   *)
(* or the other.  Processes that run at once take the default answers and  *)
(* have a good disk, and no port lingers.                                  *)
Untouched(d) == file[d] = <<>> /\ \A p \in Process : Path(p) = d => stage[p] = "down"
OneAtATime ==
    overlapped = {} /\ \A p, q \in Process : p = q \/ "down" \in {stage[p], stage[q]}
Plain ==
    fills = 0 /\ lingering = {} /\ \A p \in Node : Number(p, "port") \in {0, 4568}
Small == (\E d \in Dir : Untouched(d)) /\ (OneAtATime \/ Plain)
=============================================================================
