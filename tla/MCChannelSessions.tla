--------------------------- MODULE MCChannelSessions -------------------------
(* ChannelSessions on two connections and two workers.  The table of users    *)
(* has two entries, so that 2 is the first user id outside it.                *)
EXTENDS ChannelSessions

CONSTANTS c1, c2

MCConns == {c1, c2}

InTableIds == {0, 1}

AnyIds == {0, 1, 2}

=============================================================================
