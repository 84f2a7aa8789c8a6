--------------------------- MODULE MCChannelOrders ---------------------------
(* ChannelOrders on two connections of the same user, one of which sends      *)
(* orders; orders may name another user, who has no session, or an id outside *)
(* the table, which has two entries.                                          *)
EXTENDS ChannelOrders

CONSTANTS c1, c2

MCConns == {c1, c2}
MCSenders == {c1}
MCLoginIds == [c \in MCConns |-> {1}]
MCOrder == 1..MaxOrders

=============================================================================
