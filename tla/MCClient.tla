------------------------------ MODULE MCClient ------------------------------
(* Two threads; three hosts, one of which does not answer and one of which *)
(* is learned on the way.  Sockets for every request of every broadcast.   *)
EXTENDS Client

CONSTANTS h1, h2, h3

MCKnown == <<h1, h3>>
=============================================================================
