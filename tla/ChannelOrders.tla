---------------------------- MODULE ChannelOrders ----------------------------
(***************************************************************************)
(* The way of an order through example/server_channel and back:            *)
(*                                                                         *)
(*   worker loop -> upstream_chan -> upstream channel thread -> link       *)
(*   -> exchange -> link -> upstream loop -> client_chan                   *)
(*   -> client channel thread -> every session of the order's user.        *)
(*                                                                         *)
(* The link, its loop and the thread that writes to it are those of        *)
(* ChannelLink: an action here is one of its actions together with what it *)
(* does to orders.  Of a session only what its orders meet is kept: the    *)
(* ADD its worker pushes before it reads the first order, the DEL it       *)
(* pushes as it closes, and the list the client channel thread makes of    *)
(* them; ChannelSessions has the rest.  The exchange does what             *)
(* Upstream.tla implements.                                                *)
(***************************************************************************)
EXTENDS ChannelLink, SequencesExt

CONSTANTS
    Conns,       \* the client connections that may be made
    NumUser,     \* entries in server_ctx.user_ctxs, 256 in the code
    UserIds,     \* the user ids orders name, in the table or not
    LoginIds,    \* LoginIds[c]: those c may log in with; ChannelSessions has
                 \* what becomes of a login outside the table
    Leavers,     \* the connections whose clients may hang up
    Senders,     \* the connections whose clients send orders
    MaxOrders,   \* bound on the orders sent
    MaxRsp       \* responses per order, 3 in the code

ASSUME OrdersAssumption ==
    /\ UserIds \subseteq Nat
    /\ NumUser \in Nat
    /\ LoginIds \in [Conns -> SUBSET {u \in UserIds : u < NumUser}]
    /\ Leavers \subseteq Conns
    /\ Senders \subseteq Conns
    /\ MaxOrders \in Nat
    /\ MaxRsp \in Nat \ {0}
    /\ Order = 1..MaxOrders

VARIABLES
    session,       \* session[c]: "none", with its "worker", or "left"
    user_id,       \* user_id[c]: session->user_id
    listed,        \* the sessions in the lists of user_ctxs
    client_chan,   \* the messages in the channel, oldest first
    client_overflowed, \* a message has been lost because it was full
    order,         \* order[o]: what was sent: the session and the user id it names
    lost,          \* the orders that a missing or broken link has lost
    pending,       \* the orders written to the link and not finished, oldest
                   \* first: on their way or in the exchange's list
    answers,       \* answers[o]: responses the exchange has given to o
    wire_down,     \* responses on the link
    got            \* got[c]: the responses written to c

sessionVars == <<session, user_id, listed>>
clientChanVars == <<client_chan, client_overflowed>>
wireVars == <<pending, answers, wire_down>>
orderVars == <<order, lost>>
ordersVars == <<vars, session, user_id, listed, client_chan, client_overflowed,
                order, lost, pending, answers, wire_down, got>>

OrdersInit ==
    /\ Init
    /\ session = [c \in Conns |-> "none"]
    /\ user_id = [c \in Conns |-> 0]
    /\ listed = {}
    /\ client_chan = <<>>
    /\ client_overflowed = FALSE
    /\ order = <<>>
    /\ lost = {}
    /\ pending = <<>>
    /\ answers = [o \in Order |-> 0]
    /\ wire_down = <<>>
    /\ got = [c \in Conns |-> <<>>]

-----------------------------------------------------------------------------
(* Helpers.  A definition named Fault_... is a seeded fault: a plausible    *)
(* slip in the definition that follows it.  Nothing uses it.                *)

ClientMessage ==
    [type : {"ADD", "DEL"}, ctx : Conns]
    \cup [type : {"RSP_ORDER"}, order : Order, rsp_cnt : 1..MaxRsp]

\* server_context_push to client_chan.
ClientPushed(m) ==
    IF Len(client_chan) < ChanCapacity THEN Append(client_chan, m) ELSE client_chan

Push(m) ==
    /\ client_chan' = ClientPushed(m)
    /\ client_overflowed' = (client_overflowed \/ Len(client_chan) >= ChanCapacity)

Fault_Linked(c) ==             \* a user is listed with one session only
    IF user_id[c] = 0 \/ \E d \in listed : user_id[d] = user_id[c]
    THEN listed ELSE listed \cup {c}

\* user_context_add: user 0 is never listed.
Linked(c) == IF user_id[c] = 0 THEN listed ELSE listed \cup {c}

\* Whether user_ctxs has an entry for the user.
InTable(u) == u < NumUser

Fault_Targets(o) ==           \* every session of the server
    listed

\* client_chan_routine, RSP_ORDER: the list it walks.
Targets(o) == {c \in listed : user_id[c] = order[o].user_id}

Fault_Written(o) ==            \* written once more after a reconnect
    IF made > 1 THEN pending \o <<o, o>> ELSE Append(pending, o)

\* The write of the upstream channel thread.
Written(o) == Append(pending, o)

\* The responses of a round of the exchange, oldest order first.
Answers ==
    [i \in DOMAIN pending |-> [type |-> "RSP_ORDER", order |-> pending[i],
                               rsp_cnt |-> answers[pending[i]] + 1]]

Fault_Finished(o) ==           \* one response too many
    answers[o] + 1 > MaxRsp

\* Whether a round gives o its last response.
Finished(o) == answers[o] + 1 >= MaxRsp

-----------------------------------------------------------------------------
(* Sessions, as their workers pass them on.                                 *)

\* on_worker_add_ctx.
OnWorkerAddCtx(c, u) ==
    /\ ~crashed
    /\ session[c] = "none"
    /\ session' = [session EXCEPT ![c] = "worker"]
    /\ user_id' = [user_id EXCEPT ![c] = u]
    /\ Push([type |-> "ADD", ctx |-> c])
    /\ UNCHANGED <<vars, listed, orderVars, wireVars, got>>

\* on_worker_close.
OnWorkerClose(c) ==
    /\ ~crashed
    /\ session[c] = "worker"
    /\ session' = [session EXCEPT ![c] = "left"]
    /\ Push([type |-> "DEL", ctx |-> c])
    /\ UNCHANGED <<vars, user_id, listed, orderVars, wireVars, got>>

\* client_handle_message: a session may name any user id in its order, nobody
\* compares it with the session's or with the size of the table.
ClientReqOrder(c, u) ==
    /\ session[c] = "worker"
    /\ Len(order) < MaxOrders
    /\ ClientHandleMessage(Len(order) + 1)
    /\ order' = Append(order, [by |-> c, user_id |-> u])
    /\ UNCHANGED <<sessionVars, clientChanVars, lost, wireVars, got>>

-----------------------------------------------------------------------------
(* The link.                                                                *)

NoOrderMoves == UNCHANGED <<sessionVars, clientChanVars, orderVars, wireVars, got>>

\* An action of ChannelLink that moves no order.
LinkStep ==
    /\ \/ ConnectUpstream
       \/ \E k \in Link : OnUpstreamAddCtx(k)
       \/ UpstreamRelease
       \/ ChanAddCtx
       \/ ChanDelCtx
    /\ NoOrderMoves

\* The link breaks; the exchange's own on_close drops the orders of the link.
LinkBreaks(k) ==
    /\ OnUpstreamClose(k)
    /\ lost' = lost \cup ToSet(pending) \cup {wire_down[i].order : i \in DOMAIN wire_down}
    /\ pending' = <<>>
    /\ wire_down' = <<>>
    /\ UNCHANGED <<sessionVars, clientChanVars, order, answers, got>>

\* upstream_chan_routine, REQ_ORDER: what is written to a link that is broken
\* already, or to none, is lost.
WriteOrder ==
    /\ ChanReqOrder
    /\ LET o == Head(upstream_chan).order IN
       IF upstream_ctx # NULL /\ place[upstream_ctx] = "loop"
       THEN pending' = Written(o) /\ UNCHANGED lost
       ELSE lost' = lost \cup {o} /\ UNCHANGED pending
    /\ UNCHANGED <<sessionVars, clientChanVars, order, answers, wire_down, got>>

\* upstream_handle_message: a response of the exchange.
UpstreamRspOrder ==
    /\ ~crashed
    /\ closing = NULL
    /\ wire_down # <<>>
    /\ Push(Head(wire_down))
    /\ wire_down' = Tail(wire_down)
    /\ UNCHANGED <<vars, sessionVars, orderVars, pending, answers, got>>

-----------------------------------------------------------------------------
(* The client channel thread.                                               *)

ClientReading(type) ==
    ~crashed /\ client_chan # <<>> /\ Head(client_chan).type = type

ClientChanAdd ==
    /\ ClientReading("ADD")
    /\ listed' = Linked(Head(client_chan).ctx)
    /\ client_chan' = Tail(client_chan)
    /\ UNCHANGED <<vars, session, user_id, client_overflowed, orderVars, wireVars, got>>

\* The session is unlinked, unless its worker still has its own reference: then
\* it stays in the list (ChannelSessions).
ClientChanDel ==
    /\ ClientReading("DEL")
    /\ listed' \in {listed, listed \ {Head(client_chan).ctx}}
    /\ client_chan' = Tail(client_chan)
    /\ UNCHANGED <<vars, session, user_id, client_overflowed, orderVars, wireVars, got>>

\* The response is written to every session in the list of the user the order
\* names.  The list is user_ctxs[order->user_id], whatever the id is: an index
\* outside the table is undefined behaviour, the process dies, or what it takes
\* for a list is empty.
ClientChanRsp ==
    /\ ClientReading("RSP_ORDER")
    /\ LET r == Head(client_chan) IN
       \/ /\ InTable(order[r.order].user_id)
          /\ got' = [c \in Conns |->
                        IF c \in Targets(r.order)
                        THEN Append(got[c], [order |-> r.order, rsp_cnt |-> r.rsp_cnt])
                        ELSE got[c]]
          /\ UNCHANGED vars
       \/ /\ ~InTable(order[r.order].user_id)
          /\ UNCHANGED got
          /\ UNCHANGED vars \/ ProcessDies
    /\ client_chan' = Tail(client_chan)
    /\ UNCHANGED <<sessionVars, client_overflowed, orderVars, wireVars>>

-----------------------------------------------------------------------------
(* The exchange (Upstream.tla).                                             *)

\* A round takes in all orders it finds, answers them, and drops the finished
\* ones from the head of its list up to the first that is not.  An order that
\* arrives later than the round is an order written later.
ExchangeRound ==
    /\ ~crashed
    /\ pending # <<>>
    /\ wire_down' = wire_down \o Answers
    /\ answers' = [o \in Order |-> answers[o] + (IF o \in ToSet(pending) THEN 1 ELSE 0)]
    /\ \E n \in 0..Len(pending) :
          /\ \A i \in 1..n : Finished(pending[i])
          /\ n < Len(pending) => ~Finished(pending[n + 1])
          /\ pending' = SubSeq(pending, n + 1, Len(pending))
    /\ UNCHANGED <<vars, sessionVars, clientChanVars, orderVars, got>>

-----------------------------------------------------------------------------
ClientChanRoutine == ClientChanAdd \/ ClientChanDel \/ ClientChanRsp

OrdersNext ==
    \/ \E c \in Conns : \E u \in LoginIds[c] : OnWorkerAddCtx(c, u)
    \/ \E c \in Leavers : OnWorkerClose(c)
    \/ \E c \in Senders, u \in UserIds : ClientReqOrder(c, u)
    \/ LinkStep
    \/ \E k \in Link : LinkBreaks(k)
    \/ WriteOrder
    \/ UpstreamRspOrder
    \/ ClientChanAdd
    \/ ClientChanDel
    \/ ClientChanRsp
    \/ ExchangeRound

\* The fairness of ChannelLink, and: the threads and loops keep running, the
\* exchange serves what it is sent.
OrdersFairness ==
    /\ WF_ordersVars(ConnectUpstream /\ NoOrderMoves)
    /\ WF_ordersVars(((\E k \in Link : OnUpstreamAddCtx(k)) \/ UpstreamRelease) /\ NoOrderMoves)
    /\ WF_ordersVars(((ChanAddCtx \/ ChanDelCtx) /\ NoOrderMoves) \/ WriteOrder)
    /\ WF_ordersVars(UpstreamRspOrder)
    /\ WF_ordersVars(ClientChanRoutine)
    /\ WF_ordersVars(ExchangeRound)

OrdersSpec == OrdersInit /\ [][OrdersNext]_ordersVars /\ OrdersFairness

-----------------------------------------------------------------------------
(* Properties.                                                              *)

OrdersTypeOK ==
    /\ TypeOK
    /\ session \in [Conns -> {"none", "worker", "left"}]
    /\ user_id \in [Conns -> UserIds \cup {0}]
    /\ listed \subseteq Conns
    /\ client_chan \in Seq(ClientMessage)
    /\ client_overflowed \in BOOLEAN
    /\ order \in Seq([by : Conns, user_id : UserIds])
    /\ lost \subseteq Order
    /\ pending \in Seq(Order)
    /\ answers \in [Order -> 0..MaxRsp]
    /\ wire_down \in Seq(ClientMessage)
    /\ got \in [Conns -> Seq([order : Order, rsp_cnt : 1..MaxRsp])]

\* The places of upstream_chan with an order.
Waiting == {i \in DOMAIN upstream_chan : upstream_chan[i].type = "REQ_ORDER"}

\* An order is in one place between its worker and the exchange, and the
\* exchange's list has the orders in the order the workers have pushed them,
\* across reconnects.
OrdersInOrder ==
    /\ \A i, j \in DOMAIN pending : i < j => pending[i] < pending[j]
    /\ \A j \in Waiting :
          /\ \A i \in Waiting : i < j => upstream_chan[i].order < upstream_chan[j].order
          /\ \A i \in DOMAIN pending : pending[i] < upstream_chan[j].order

\* An order gets all its responses through to its user's session, unless that
\* session leaves, the link breaks, or a channel overflows.
OrderAnswered ==
    \A c \in Senders, o \in Order :
        o \in DOMAIN order /\ order[o].by = c /\ order[o].user_id = user_id[c]
           /\ user_id[c] # 0
        ~> \/ Cardinality({i \in DOMAIN got[c] : got[c][i].order = o}) = MaxRsp
           \/ session[c] = "left" \/ o \in lost
           \/ overflowed \/ client_overflowed \/ crashed

\* In terms of the gateway: a session is served while it is listed, and the
\* responses on the link and in the channel are those still owed.
OnTheWay(o) ==
    {r.rsp_cnt : r \in {r \in ToSet(wire_down) \cup ToSet(client_chan) :
                           r.type = "RSP_ORDER" /\ r.order = o}}

TheGateway == INSTANCE Gateway WITH
    Sessions <- Conns,
    Users <- UserIds,
    NoUser <- -1,
    Orders <- Order,
    served <- [c \in Conns |-> IF c \in listed THEN user_id[c] ELSE -1],
    order <- [o \in DOMAIN order |-> order[o].user_id],
    owed <- [o \in Order |-> OnTheWay(o)]

\* The channel server is a gateway like the multiplexing one: across both
\* channels and the link, no response is written twice, out of order, or to a
\* session not of the user the order names; those of an order that names a user
\* outside the table are given up, if the process survives them.
ImplementsGateway == TheGateway!GatewaySpec

=============================================================================
