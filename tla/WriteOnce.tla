----------------------------- MODULE WriteOnce -----------------------------
(***************************************************************************)
(* What a configuration file promises those who read it: a setting that    *)
(* once had a value keeps it.                                              *)
(***************************************************************************)
CONSTANT Place

VARIABLE reg    \* the settings of every place, those that have a value

Init == reg = [d \in Place |-> <<>>]

(* One setting that has no value is given one.                             *)
Write(d) ==
    LET old == reg[d]
        new == reg'[d]
    IN  /\ \E k \in DOMAIN new \ DOMAIN old : DOMAIN new = DOMAIN old \cup {k}
        /\ \A l \in DOMAIN old : new[l] = old[l]
        /\ \A e \in Place \ {d} : reg'[e] = reg[e]

Next == \E d \in Place : Write(d)

Spec == Init /\ [][Next]_reg
=============================================================================
