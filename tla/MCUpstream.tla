----------------------------- MODULE MCUpstream -----------------------------
(* Upstream on two connections and three orders, with the code's three       *)
(* responses per order and a timer that is due every second millisecond.     *)
EXTENDS Upstream

CONSTANTS c1, c2

MCConns == {c1, c2}

=============================================================================
