---------------------------- MODULE MCMultiplex ----------------------------
(* Multiplex on two connections and two workers.  Users 0 and 2 share a      *)
(* worker; the table has three entries, so that 3 is an id outside it.       *)
EXTENDS Multiplex

CONSTANTS c1, c2

MCConns == {c1, c2}
MCStrays == {c1}

=============================================================================
