------------------------------- MODULE Gateway -------------------------------
(***************************************************************************)
(* What both servers promise their clients: sessions are served as a user; *)
(* the exchange answers orders; and the gateway relays the responses of    *)
(* each order one by one, oldest first.  It writes a response to every     *)
(* session that is then served as the order's user and to nobody else, or  *)
(* it gives the response up (a broken link, a full channel) and never      *)
(* writes it.  Multiplex and ChannelOrders implement it.                   *)
(***************************************************************************)
EXTENDS Naturals, Sequences

CONSTANTS
    Sessions,    \* the sessions clients may open
    Users,       \* the user ids they may use
    NoUser,      \* of a session that is not served
    Orders,      \* the orders that may be sent, numbered from 1
    MaxRsp       \* responses per order

VARIABLES
    served,      \* served[s]: the user s is served as, or NoUser
    order,       \* order[o]: the user id o names
    answers,     \* answers[o]: responses the exchange has given to o
    owed,        \* owed[o]: the numbers of those the gateway has still to relay
    got          \* got[s]: the responses written to s

gatewayVars == <<served, order, answers, owed, got>>

GatewayInit ==
    /\ served = [s \in Sessions |-> NoUser]
    /\ order = <<>>
    /\ answers = [o \in Orders |-> 0]
    /\ owed = [o \in Orders |-> {}]
    /\ got = [s \in Sessions |-> <<>>]

Serve(s, u) ==
    /\ served[s] = NoUser
    /\ served' = [served EXCEPT ![s] = u]
    /\ UNCHANGED <<order, answers, owed, got>>

Leave(s) ==
    /\ served[s] # NoUser
    /\ served' = [served EXCEPT ![s] = NoUser]
    /\ UNCHANGED <<order, answers, owed, got>>

Submit(u) ==
    /\ order' = Append(order, u)
    /\ UNCHANGED <<served, answers, owed, got>>

\* The exchange gives each of these orders its next response.
Answer(os) ==
    /\ \A o \in os : o \in DOMAIN order /\ answers[o] < MaxRsp
    /\ answers' = [o \in Orders |-> IF o \in os THEN answers[o] + 1 ELSE answers[o]]
    /\ owed' = [o \in Orders |-> IF o \in os THEN owed[o] \cup {answers[o] + 1} ELSE owed[o]]
    /\ UNCHANGED <<served, order, got>>

\* The oldest response of o still owed reaches the sessions of its user.
Relay(o) ==
    \E n \in owed[o] :
        /\ \A k \in owed[o] : n <= k
        /\ owed' = [owed EXCEPT ![o] = @ \ {n}]
        /\ got' = [s \in Sessions |->
                      IF served[s] = order[o]
                      THEN Append(got[s], [order |-> o, rsp_cnt |-> n])
                      ELSE got[s]]
        /\ UNCHANGED <<served, order, answers>>

\* Responses that are lost on the way.
GiveUp ==
    /\ DOMAIN owed' = Orders
    /\ \A o \in Orders : owed'[o] \subseteq owed[o]
    /\ UNCHANGED <<served, order, answers, got>>

GatewayNext ==
    \/ \E s \in Sessions : Leave(s) \/ \E u \in Users : Serve(s, u)
    \/ \E u \in Users : Submit(u)
    \/ \E os \in SUBSET Orders : Answer(os)
    \/ \E o \in Orders : Relay(o)
    \/ GiveUp

GatewaySpec == GatewayInit /\ [][GatewayNext]_gatewayVars

=============================================================================
