------------------------- MODULE ChannelOrdersProofs -------------------------
(***************************************************************************)
(* Proofs about ChannelOrders, in three parts.                             *)
(*                                                                         *)
(*   - The link keeps its properties while it carries orders.  Every step  *)
(*     of ChannelOrders is a step of ChannelLink with what it does to      *)
(*     orders, or leaves the link alone (StepIsLinkStep); so the invariant *)
(*     of ChannelLinkProofs holds here as well.                            *)
(*   - No order is overtaken on its way up, and no response on its way     *)
(*     down.  The invariant is OrdersInv: UpInv relates the channel to the *)
(*     exchange's list and its counts, DownInv the link and the channel to *)
(*     the responses given, and ListedInv the list to the workers.         *)
(*   - Under it every step is a step of Gateway or none, so the server     *)
(*     implements it (OrdersImplementGateway).                             *)
(***************************************************************************)
EXTENDS ChannelOrders, ChannelLinkProofs, SequenceTheorems

OrdersSent == order \in Seq([by : Conns, user_id : UserIds])

LEMMA LeaversConnect == Leavers \subseteq Conns
BY OrdersAssumption

LEMMA StepIsLinkStep == OrdersSent /\ [OrdersNext]_ordersVars => [Next]_vars
<1> SUFFICES ASSUME OrdersSent, [OrdersNext]_ordersVars PROVE [Next]_vars
    OBVIOUS
<1>1. ASSUME NEW c \in Conns, NEW u, OnWorkerAddCtx(c, u) \/ OnWorkerClose(c)
      PROVE  UNCHANGED vars
    BY <1>1 DEF OnWorkerAddCtx, OnWorkerClose
<1>2. ASSUME NEW c \in Conns, NEW u \in UserIds, ClientReqOrder(c, u)
      PROVE  Next
    <2>1. Len(order) + 1 \in Order
        BY <1>2, OrdersAssumption DEF OrdersSent, ClientReqOrder
    <2>2. ClientHandleMessage(Len(order) + 1)
        BY <1>2 DEF ClientReqOrder
    <2> QED
        BY <2>1, <2>2 DEF Next
<1>3. LinkStep => Next
    BY DEF LinkStep, NoOrderMoves, Next
<1>4. ASSUME NEW k \in Link, LinkBreaks(k) PROVE Next
    BY <1>4 DEF LinkBreaks, Next
<1>5. WriteOrder => Next
    BY DEF WriteOrder, Next
<1>6. UpstreamRspOrder \/ ClientChanAdd \/ ClientChanDel \/ ExchangeRound => UNCHANGED vars
    BY DEF UpstreamRspOrder, ClientChanAdd, ClientChanDel, ExchangeRound
<1>9. ClientChanRsp => [Next]_vars
    BY DEF ClientChanRsp, Next
<1>7. UNCHANGED ordersVars => UNCHANGED vars
    BY DEF ordersVars
<1>8. Senders \subseteq Conns
    BY OrdersAssumption
<1> QED
    BY <1>1, <1>2, <1>3, <1>4, <1>5, <1>6, <1>7, <1>8, <1>9, LeaversConnect DEF OrdersNext

LEMMA StepKeepsOrdersSent == OrdersSent /\ [OrdersNext]_ordersVars => OrdersSent'
<1> SUFFICES ASSUME OrdersSent, [OrdersNext]_ordersVars PROVE OrdersSent'
    OBVIOUS
<1>1. ASSUME NEW c \in Senders, NEW u \in UserIds, ClientReqOrder(c, u)
      PROVE  OrdersSent'
    <2>1. [by |-> c, user_id |-> u] \in [by : Conns, user_id : UserIds]
        BY OrdersAssumption
    <2>2. order' = Append(order, [by |-> c, user_id |-> u])
        BY <1>1 DEF ClientReqOrder
    <2> QED
        BY <2>1, <2>2 DEF OrdersSent
<1>2. ASSUME NEW c \in Conns, NEW u, OnWorkerAddCtx(c, u) \/ OnWorkerClose(c)
      PROVE  UNCHANGED order
    BY <1>2 DEF OnWorkerAddCtx, OnWorkerClose, orderVars
<1>3. LinkStep \/ (\E k \in Link : LinkBreaks(k)) \/ WriteOrder => UNCHANGED order
    BY DEF LinkStep, NoOrderMoves, LinkBreaks, WriteOrder, orderVars
<1>4. UpstreamRspOrder \/ ClientChanRoutine \/ ExchangeRound => UNCHANGED order
    BY DEF UpstreamRspOrder, ClientChanRoutine, ClientChanAdd, ClientChanDel,
           ClientChanRsp, ExchangeRound, orderVars
<1>5. UNCHANGED ordersVars => UNCHANGED order
    BY DEF ordersVars
<1>6. UNCHANGED order => OrdersSent'
    BY DEF OrdersSent
<1> QED
    BY <1>1, <1>2, <1>3, <1>4, <1>5, <1>6, LeaversConnect DEF OrdersNext, ClientChanRoutine

LEMMA LinkInvHolds == OrdersSpec => [](Inv /\ OrdersSent)
<1>1. OrdersInit => Inv /\ OrdersSent
    <2>1. OrdersInit => OrdersSent
        BY DEF OrdersInit, OrdersSent
    <2> QED
        BY <2>1, InitInv DEF OrdersInit
<1>2. Inv /\ OrdersSent /\ [OrdersNext]_ordersVars => (Inv /\ OrdersSent)'
    BY StepIsLinkStep, StepKeepsInv, StepKeepsOrdersSent
<1> QED
    BY <1>1, <1>2, PTL DEF OrdersSpec

\* What the server does to its link while it carries orders, the link of
\* ChannelLink may do: the composition adds no step to the handlers of
\* upstream_handle.c and to upstream_chan_routine.
THEOREM OrdersImplementLink == OrdersSpec => Init /\ [][Next]_vars
<1>1. OrdersInit => Init
    BY DEF OrdersInit
<1>2. OrdersSent /\ [OrdersNext]_ordersVars => [Next]_vars
    BY StepIsLinkStep
<1> QED
    BY <1>1, <1>2, LinkInvHolds, PTL DEF OrdersSpec

\* A gateway that carries orders works on exactly one link (on_upstream_close).
THEOREM OrdersOneLink == OrdersSpec => []OneLinkInTheWorks
BY LinkInvHolds, InvOneLink, PTL

\* No order is ever written to a freed context (upstream_chan_routine).
THEOREM OrdersWrittenToLive == OrdersSpec => []WritesToLive
BY LinkInvHolds, InvWritesToLive, PTL

\* As long as nothing is lost, orders go to the link the responses are read
\* from, once the messages about links have been read (upstream_chan_routine).
THEOREM OrdersFollowLoop == OrdersSpec => []PointerCaughtUp
BY LinkInvHolds, InvPointerCaughtUp, PTL

-----------------------------------------------------------------------------
(* The orders on their way up and the responses on their way down.          *)

\* An order that waits in the channel or is with the exchange was sent.
SentInv ==
    /\ \A i \in DOMAIN pending : pending[i] \in DOMAIN order
    /\ \A i \in Waiting : upstream_chan[i].order \in DOMAIN order

\* The exchange's list is sorted by responses and has no finished order; an
\* order that has not come to it has no response.
ExchangeInv ==
    /\ \A i \in DOMAIN pending : answers[pending[i]] < MaxRsp
    /\ \A i, j \in DOMAIN pending : i < j => answers[pending[i]] >= answers[pending[j]]
    /\ \A i \in Waiting : answers[upstream_chan[i].order] = 0
    /\ \A o \in Order : o \notin DOMAIN order => answers[o] = 0

UpInv == OrdersInOrder /\ SentInv /\ ExchangeInv

\* Of two responses to the same order m is the earlier one.
Before(m, n) ==
    m.type = "RSP_ORDER" /\ n.type = "RSP_ORDER" /\ m.order = n.order => m.rsp_cnt < n.rsp_cnt

\* Every response on its way down was given by the exchange, and those of an
\* order are in the order they were given in, across the link and the channel.
DownInv ==
    /\ \A i \in DOMAIN client_chan :
          client_chan[i].type = "RSP_ORDER" =>
              /\ client_chan[i].order \in DOMAIN order
              /\ client_chan[i].rsp_cnt <= answers[client_chan[i].order]
    /\ \A i \in DOMAIN wire_down :
          /\ wire_down[i].type = "RSP_ORDER"
          /\ wire_down[i].order \in DOMAIN order
          /\ wire_down[i].rsp_cnt <= answers[wire_down[i].order]
    /\ \A i, j \in DOMAIN client_chan : i < j => Before(client_chan[i], client_chan[j])
    /\ \A i, j \in DOMAIN wire_down : i < j => Before(wire_down[i], wire_down[j])
    /\ \A i \in DOMAIN client_chan, j \in DOMAIN wire_down : Before(client_chan[i], wire_down[j])

\* A session is listed, or about to be, only once its worker has it.
ListedInv ==
    \A c \in Conns : session[c] = "none" =>
        /\ c \notin listed
        /\ \A i \in DOMAIN client_chan :
              client_chan[i].type = "ADD" => client_chan[i].ctx # c

OrdersInv == OrdersTypeOK /\ UpInv /\ DownInv /\ ListedInv

-----------------------------------------------------------------------------
(* Sequences.                                                               *)

LEMMA AppendFacts ==
    ASSUME NEW S, NEW s \in Seq(S), NEW e \in S
    PROVE  /\ Append(s, e) \in Seq(S)
           /\ Len(s) \in Nat /\ Len(Append(s, e)) = Len(s) + 1
           /\ DOMAIN s = 1..Len(s) /\ DOMAIN Append(s, e) = 1..(Len(s) + 1)
           /\ \A i \in 1..Len(s) : Append(s, e)[i] = s[i]
           /\ Append(s, e)[Len(s) + 1] = e
BY AppendProperties, LenProperties

LEMMA TailFacts ==
    ASSUME NEW S, NEW s \in Seq(S), s # <<>>
    PROVE  /\ Tail(s) \in Seq(S)
           /\ Len(s) \in Nat \ {0} /\ Len(Tail(s)) = Len(s) - 1
           /\ DOMAIN s = 1..Len(s) /\ DOMAIN Tail(s) = 1..(Len(s) - 1)
           /\ \A i \in 1..(Len(s) - 1) : Tail(s)[i] = s[i + 1]
           /\ Head(s) = s[1] /\ Head(s) \in S /\ s[1] \in S
BY HeadTailProperties, LenProperties, EmptySeq, ElementOfSeq

LEMMA ConcatFacts ==
    ASSUME NEW S, NEW s \in Seq(S), NEW t \in Seq(S)
    PROVE  /\ s \o t \in Seq(S)
           /\ Len(s) \in Nat /\ Len(t) \in Nat /\ Len(s \o t) = Len(s) + Len(t)
           /\ DOMAIN s = 1..Len(s) /\ DOMAIN t = 1..Len(t)
           /\ DOMAIN (s \o t) = 1..(Len(s) + Len(t))
           /\ \A i \in 1..Len(s) : (s \o t)[i] = s[i]
           /\ \A i \in 1..Len(t) : (s \o t)[Len(s) + i] = t[i]
<1>1. /\ s \o t \in Seq(S)
      /\ Len(s) \in Nat /\ Len(t) \in Nat /\ Len(s \o t) = Len(s) + Len(t)
      /\ DOMAIN s = 1..Len(s) /\ DOMAIN t = 1..Len(t)
      /\ DOMAIN (s \o t) = 1..Len(s \o t)
    BY ConcatProperties, LenProperties
<1>2. \A i \in 1..(Len(s) + Len(t)) :
          (s \o t)[i] = IF i <= Len(s) THEN s[i] ELSE t[i - Len(s)]
    BY <1>1, ConcatProperties
<1>3. \A i \in 1..Len(t) : (s \o t)[Len(s) + i] = t[i]
    <2> TAKE i \in 1..Len(t)
    <2>1. Len(s) + i \in 1..(Len(s) + Len(t)) /\ ~(Len(s) + i <= Len(s)) /\ Len(s) + i - Len(s) = i
        BY <1>1
    <2> QED
        BY <1>2, <2>1
<1>4. \A i \in 1..Len(s) : (s \o t)[i] = s[i]
    BY <1>1, <1>2
<1> QED
    BY <1>1, <1>3, <1>4

\* What is left of a sequence when its first n elements are dropped.
LEMMA DropFacts ==
    ASSUME NEW S, NEW s \in Seq(S), NEW n \in Nat, n <= Len(s)
    PROVE  LET t == SubSeq(s, n + 1, Len(s)) IN
           /\ t \in Seq(S)
           /\ Len(s) \in Nat /\ Len(t) = Len(s) - n
           /\ DOMAIN s = 1..Len(s) /\ DOMAIN t = 1..(Len(s) - n)
           /\ \A i \in 1..(Len(s) - n) : t[i] = s[i + n]
<1>1. Len(s) \in Nat /\ DOMAIN s = 1..Len(s)
    BY LenProperties
<1>2. \A i \in (n + 1)..Len(s) : s[i] \in S
    BY <1>1, ElementOfSeq
<1> DEFINE t == SubSeq(s, n + 1, Len(s))
<1>3. /\ t \in Seq(S)
      /\ Len(t) = IF n + 1 <= Len(s) THEN Len(s) - (n + 1) + 1 ELSE 0
      /\ \A i \in 1..(Len(s) - (n + 1) + 1) : t[i] = s[(n + 1) + i - 1]
    BY <1>1, <1>2, SubSeqProperties
<1> HIDE DEF t
<1>4. Len(t) = Len(s) - n
    <2>1. Len(t) = IF n + 1 <= Len(s) THEN Len(s) - (n + 1) + 1 ELSE 0
        BY <1>3
    <2>2. PICK L \in Nat : L = Len(s)
        BY <1>1
    <2>3. n <= L
        BY <2>2
    <2>4. Len(t) = IF n + 1 <= L THEN L - (n + 1) + 1 ELSE 0
        BY <2>1, <2>2
    <2>5. Len(t) = L - n
        BY <2>3, <2>4
    <2> QED
        BY <2>2, <2>5
<1>5. \A i \in 1..(Len(s) - n) : t[i] = s[i + n]
    <2> TAKE i \in 1..(Len(s) - n)
    <2>1. i \in 1..(Len(s) - (n + 1) + 1) /\ (n + 1) + i - 1 = i + n
        BY <1>1
    <2> QED
        BY <1>3, <2>1
<1>6. DOMAIN t = 1..Len(t)
    BY <1>3, LenProperties
<1> QED
    BY <1>1, <1>3, <1>4, <1>5, <1>6 DEF t

-----------------------------------------------------------------------------
(* Messages and channels.                                                   *)

LEMMA ClientMessageFacts ==
    /\ \A c \in Conns, t \in {"ADD", "DEL"} : [type |-> t, ctx |-> c] \in ClientMessage
    /\ \A o \in Order, n \in 1..MaxRsp :
          [type |-> "RSP_ORDER", order |-> o, rsp_cnt |-> n] \in ClientMessage
    /\ \A m \in ClientMessage :
          /\ m.type = "RSP_ORDER" => m.order \in Order /\ m.rsp_cnt \in 1..MaxRsp /\ m.rsp_cnt \in Nat
          /\ m.type # "RSP_ORDER" => m.type \in {"ADD", "DEL"} /\ m.ctx \in Conns
BY OrdersAssumption DEF ClientMessage

LEMMA OrdersTyping ==
    ASSUME OrdersTypeOK
    PROVE  /\ Len(order) \in Nat /\ DOMAIN order = 1..Len(order)
           /\ Len(pending) \in Nat /\ DOMAIN pending = 1..Len(pending)
           /\ Len(wire_down) \in Nat /\ DOMAIN wire_down = 1..Len(wire_down)
           /\ Len(client_chan) \in Nat /\ DOMAIN client_chan = 1..Len(client_chan)
           /\ Len(upstream_chan) \in Nat /\ DOMAIN upstream_chan = 1..Len(upstream_chan)
           /\ MaxRsp \in Nat \ {0} /\ MaxOrders \in Nat /\ Order = 1..MaxOrders
           /\ \A i \in DOMAIN pending : pending[i] \in Order
           /\ \A i \in DOMAIN client_chan : client_chan[i] \in ClientMessage
           /\ \A i \in DOMAIN wire_down : wire_down[i] \in ClientMessage
           /\ \A o \in Order : o \in Nat /\ answers[o] \in Nat /\ answers[o] <= MaxRsp
           /\ \A i \in Waiting : i \in Nat /\ upstream_chan[i].order \in Order
<1>1. /\ Len(order) \in Nat /\ DOMAIN order = 1..Len(order)
      /\ Len(pending) \in Nat /\ DOMAIN pending = 1..Len(pending)
      /\ Len(wire_down) \in Nat /\ DOMAIN wire_down = 1..Len(wire_down)
      /\ Len(client_chan) \in Nat /\ DOMAIN client_chan = 1..Len(client_chan)
      /\ Len(upstream_chan) \in Nat /\ DOMAIN upstream_chan = 1..Len(upstream_chan)
    BY LenProperties DEF OrdersTypeOK, TypeOK
<1>2. /\ MaxRsp \in Nat \ {0} /\ MaxOrders \in Nat /\ Order = 1..MaxOrders
    BY OrdersAssumption
<1>3. /\ \A i \in DOMAIN pending : pending[i] \in Order
      /\ \A i \in DOMAIN client_chan : client_chan[i] \in ClientMessage
      /\ \A i \in DOMAIN wire_down : wire_down[i] \in ClientMessage
    BY <1>1, ElementOfSeq DEF OrdersTypeOK
<1>4. \A o \in Order : o \in Nat /\ answers[o] \in Nat /\ answers[o] <= MaxRsp
    BY <1>2 DEF OrdersTypeOK
<1>5. \A i \in Waiting : i \in Nat /\ upstream_chan[i].order \in Order
    <2>1. \A i \in DOMAIN upstream_chan : upstream_chan[i] \in Message
        BY <1>1, ElementOfSeq DEF OrdersTypeOK, TypeOK
    <2>2. \A m \in Message : m.type = "REQ_ORDER" => m.order \in Order
        BY DEF Message
    <2> QED
        BY <1>1, <2>1, <2>2 DEF Waiting
<1> QED
    BY <1>1, <1>2, <1>3, <1>4, <1>5

\* After a push that is about a link, the orders that wait are those that
\* waited, in their places; after a read, one place further up.
LEMMA WaitingPush ==
    ASSUME TypeOK, NEW m \in Message, m.type # "REQ_ORDER", upstream_chan' = Pushed(m)
    PROVE  \A i \in Waiting' : /\ i \in Nat /\ i + 0 \in Waiting
                               /\ upstream_chan'[i] = upstream_chan[i + 0]
<1> SUFFICES ASSUME NEW i \in Waiting'
             PROVE  i \in Nat /\ i \in Waiting /\ upstream_chan'[i] = upstream_chan[i]
    OBVIOUS
<1>1. i \in DOMAIN Pushed(m) /\ upstream_chan'[i].type = "REQ_ORDER"
    BY DEF Waiting
<1>2. i \in Nat /\ i \in DOMAIN upstream_chan /\ upstream_chan'[i] = upstream_chan[i]
    BY <1>1, PushFacts DEF TypeOK
<1> QED
    BY <1>1, <1>2 DEF Waiting

LEMMA WaitingRead ==
    ASSUME TypeOK, upstream_chan # <<>>, upstream_chan' = Tail(upstream_chan)
    PROVE  \A i \in Waiting' : /\ i \in Nat /\ i + 1 \in Waiting
                               /\ upstream_chan'[i] = upstream_chan[i + 1]
<1> SUFFICES ASSUME NEW i \in Waiting'
             PROVE  i \in Nat /\ i + 1 \in Waiting /\ upstream_chan'[i] = upstream_chan[i + 1]
    OBVIOUS
<1>1. i \in DOMAIN Tail(upstream_chan) /\ upstream_chan'[i].type = "REQ_ORDER"
    BY DEF Waiting
<1>2. i \in Nat /\ i + 1 \in DOMAIN upstream_chan /\ upstream_chan'[i] = upstream_chan[i + 1]
    BY <1>1, ReadFacts DEF TypeOK
<1> QED
    BY <1>1, <1>2 DEF Waiting

-----------------------------------------------------------------------------
(* The way up.                                                              *)

\* What moves no order into the channel or out of it keeps UpInv.
LEMMA UpShift ==
    ASSUME OrdersTypeOK, UpInv, UNCHANGED <<order, answers>>, pending' = pending \/ pending' = <<>>,
           NEW d \in {0, 1},
           \A i \in Waiting' : /\ i \in Nat /\ i + d \in Waiting
                               /\ upstream_chan'[i] = upstream_chan[i + d]
    PROVE  UpInv'
<1>1. \A i \in DOMAIN pending' : i \in DOMAIN pending /\ pending'[i] = pending[i]
    OBVIOUS
<1>2. OrdersInOrder'
    <2>1. \A i, j \in DOMAIN pending' : i < j => pending'[i] < pending'[j]
        BY <1>1 DEF UpInv, OrdersInOrder
    <2>2. ASSUME NEW j \in Waiting', NEW i \in Waiting', i < j
          PROVE  upstream_chan'[i].order < upstream_chan'[j].order
        <3>1. i + d < j + d /\ i + d \in Waiting /\ j + d \in Waiting
            BY <2>2
        <3>2. upstream_chan[i + d].order < upstream_chan[j + d].order
            BY <3>1 DEF UpInv, OrdersInOrder
        <3> QED
            BY <3>2
    <2>3. ASSUME NEW j \in Waiting', NEW i \in DOMAIN pending'
          PROVE  pending'[i] < upstream_chan'[j].order
        BY <1>1 DEF UpInv, OrdersInOrder
    <2> QED
        BY <2>1, <2>2, <2>3 DEF OrdersInOrder
<1>3. SentInv'
    BY <1>1 DEF UpInv, SentInv
<1>4. ExchangeInv'
    BY <1>1 DEF UpInv, ExchangeInv
<1> QED
    BY <1>2, <1>3, <1>4 DEF UpInv

LEMMA UpLinkStep ==
    ASSUME OrdersTypeOK, UpInv, LinkStep
    PROVE  UpInv'
<1>1. UNCHANGED <<order, answers, pending>>
    BY DEF LinkStep, NoOrderMoves, orderVars, wireVars
<1>2. CASE ConnectUpstream \/ UpstreamRelease
    <2>1. upstream_chan' = upstream_chan
        BY <1>2 DEF ConnectUpstream, UpstreamRelease
    <2> QED
        BY <1>1, <2>1 DEF UpInv, OrdersInOrder, SentInv, ExchangeInv, Waiting
<1>3. ASSUME NEW k \in Link, OnUpstreamAddCtx(k) PROVE UpInv'
    <2> DEFINE m == [type |-> "ADD", ctx |-> k]
    <2>1. m \in Message /\ m.type # "REQ_ORDER"
        BY MessageFacts
    <2>2. upstream_chan' = Pushed(m)
        BY <1>3 DEF OnUpstreamAddCtx
    <2> HIDE DEF m
    <2> QED
        BY <1>1, <2>1, <2>2, WaitingPush, UpShift DEF OrdersTypeOK
<1>4. CASE ChanAddCtx \/ ChanDelCtx
    <2>1. upstream_chan # <<>> /\ upstream_chan' = Tail(upstream_chan)
        BY <1>4 DEF ChanAddCtx, ChanDelCtx, Reading
    <2> QED
        BY <1>1, <2>1, WaitingRead, UpShift DEF OrdersTypeOK
<1> QED
    BY <1>2, <1>3, <1>4 DEF LinkStep, NoOrderMoves

LEMMA UpLinkBreaks ==
    ASSUME OrdersTypeOK, UpInv, NEW k \in Link, LinkBreaks(k)
    PROVE  UpInv'
<1>1. UNCHANGED <<order, answers>> /\ pending' = <<>>
    BY DEF LinkBreaks
<1> DEFINE m == [type |-> "DEL", ctx |-> k]
<1>2. m \in Message /\ m.type # "REQ_ORDER"
    BY MessageFacts
<1>3. upstream_chan' = Pushed(m)
    BY DEF LinkBreaks, OnUpstreamClose, DelPush
<1> HIDE DEF m
<1> QED
    BY <1>1, <1>2, <1>3, WaitingPush, UpShift DEF OrdersTypeOK

LEMMA WriteOrderFacts ==
    ASSUME OrdersTypeOK, WriteOrder
    PROVE  /\ upstream_chan # <<>> /\ upstream_chan' = Tail(upstream_chan)
           /\ 1 \in Waiting
           /\ \/ pending' = Append(pending, upstream_chan[1].order) /\ UNCHANGED lost
              \/ pending' = pending /\ lost' = lost \cup {upstream_chan[1].order}
           /\ UNCHANGED <<session, user_id, listed, client_chan, client_overflowed, order,
                          answers, wire_down, got>>
<1>1. upstream_chan # <<>> /\ Head(upstream_chan).type = "REQ_ORDER"
      /\ upstream_chan' = Tail(upstream_chan)
    BY DEF WriteOrder, ChanReqOrder, Reading
<1>2. Head(upstream_chan) = upstream_chan[1] /\ 1 \in DOMAIN upstream_chan
    BY <1>1, ReadFacts DEF OrdersTypeOK, TypeOK
<1>3. \/ pending' = Append(pending, upstream_chan[1].order) /\ UNCHANGED lost
      \/ pending' = pending /\ lost' = lost \cup {upstream_chan[1].order}
    BY <1>2 DEF WriteOrder, Written
<1> QED
    BY <1>1, <1>2, <1>3 DEF WriteOrder, sessionVars, clientChanVars, Waiting

LEMMA UpWriteOrder ==
    ASSUME OrdersTypeOK, UpInv, WriteOrder
    PROVE  UpInv'
<1>1. /\ upstream_chan # <<>> /\ upstream_chan' = Tail(upstream_chan)
      /\ 1 \in Waiting /\ UNCHANGED <<order, answers>>
    BY WriteOrderFacts
<1>2. \A i \in Waiting' : /\ i \in Nat /\ i + 1 \in Waiting
                          /\ upstream_chan'[i] = upstream_chan[i + 1]
    BY <1>1, WaitingRead DEF OrdersTypeOK
<1>3. CASE pending' = pending
    BY <1>1, <1>2, <1>3, UpShift
<1>4. CASE pending' = Append(pending, upstream_chan[1].order)
    <2>1. PICK o \in Order : o = upstream_chan[1].order
        BY <1>1, OrdersTyping
    <2>2. PICK L \in Nat : L = Len(pending)
        BY OrdersTyping
    <2>3. /\ DOMAIN pending = 1..L /\ DOMAIN pending' = 1..(L + 1)
          /\ \A i \in 1..L : pending'[i] = pending[i]
          /\ pending'[L + 1] = o
        <3>1. pending \in Seq(Order)
            BY DEF OrdersTypeOK
        <3> QED
            BY <1>4, <2>1, <2>2, <3>1, AppendFacts
    <2>4. /\ o \in DOMAIN order /\ answers[o] = 0
          /\ \A i \in 1..L : pending[i] < o
          /\ \A i \in Waiting : 1 < i => o < upstream_chan[i].order
        BY <1>1, <2>1, <2>3 DEF UpInv, OrdersInOrder, SentInv, ExchangeInv
    <2>5. \A i \in DOMAIN pending' : i \in Nat /\ (i \in 1..L \/ i = L + 1)
        BY <2>3
    <2>6. OrdersInOrder'
        <3>1. ASSUME NEW i \in DOMAIN pending', NEW j \in DOMAIN pending', i < j
              PROVE  pending'[i] < pending'[j]
            <4>1. i \in 1..L
                BY <2>3, <3>1
            <4>2. CASE j = L + 1
                BY <2>3, <2>4, <4>1, <4>2
            <4>3. CASE j \in 1..L
                BY <2>3, <3>1, <4>1, <4>3 DEF UpInv, OrdersInOrder
            <4> QED
                BY <2>5, <4>2, <4>3
        <3>2. ASSUME NEW j \in Waiting', NEW i \in Waiting', i < j
              PROVE  upstream_chan'[i].order < upstream_chan'[j].order
            <4>1. i + 1 < j + 1 /\ i + 1 \in Waiting /\ j + 1 \in Waiting
                BY <1>2, <3>2
            <4>2. upstream_chan[i + 1].order < upstream_chan[j + 1].order
                BY <4>1 DEF UpInv, OrdersInOrder
            <4> QED
                BY <1>2, <4>2
        <3>3. ASSUME NEW j \in Waiting', NEW i \in DOMAIN pending'
              PROVE  pending'[i] < upstream_chan'[j].order
            <4>1. j + 1 \in Waiting /\ upstream_chan'[j] = upstream_chan[j + 1] /\ j \in Nat
                BY <1>2
            <4>2. 1 < j + 1
                <5>1. j + 1 # 1
                    <6>1. j # 0
                        BY OrdersTyping, ReadFacts, <1>1 DEF Waiting, OrdersTypeOK, TypeOK
                    <6> QED
                        BY <4>1, <6>1
                <5> QED
                    BY <4>1, <5>1
            <4>3. CASE i = L + 1
                BY <2>3, <2>4, <4>1, <4>2, <4>3
            <4>4. CASE i \in 1..L
                BY <2>3, <4>1, <4>4 DEF UpInv, OrdersInOrder
            <4> QED
                BY <2>5, <4>3, <4>4
        <3> QED
            BY <3>1, <3>2, <3>3 DEF OrdersInOrder
    <2>7. SentInv'
        BY <1>1, <1>2, <2>3, <2>4, <2>5 DEF UpInv, SentInv
    <2>8. ExchangeInv'
        <3>1. \A i \in DOMAIN pending' : answers[pending'[i]] < MaxRsp /\ answers[pending'[i]] \in Nat
            BY <2>3, <2>4, <2>5, OrdersTyping DEF UpInv, ExchangeInv
        <3>2. ASSUME NEW i \in DOMAIN pending', NEW j \in DOMAIN pending', i < j
              PROVE  answers[pending'[i]] >= answers[pending'[j]]
            <4>1. i \in 1..L
                BY <2>3, <3>2
            <4>2. CASE j = L + 1
                BY <2>3, <2>4, <3>1, <4>2
            <4>3. CASE j \in 1..L
                BY <2>3, <3>2, <4>1, <4>3 DEF UpInv, ExchangeInv
            <4> QED
                BY <2>5, <4>2, <4>3
        <3>3. \A i \in Waiting' : answers[upstream_chan'[i].order] = 0
            BY <1>2 DEF UpInv, ExchangeInv
        <3> QED
            BY <1>1, <3>1, <3>2, <3>3 DEF UpInv, ExchangeInv
    <2> QED
        BY <2>6, <2>7, <2>8 DEF UpInv
<1> QED
    BY <1>3, <1>4, WriteOrderFacts

LEMMA ClientReqOrderFacts ==
    ASSUME OrdersTypeOK, NEW c \in Senders, NEW u \in UserIds, ClientReqOrder(c, u)
    PROVE  LET o == Len(order) + 1 IN
           /\ o \in Order /\ o \notin DOMAIN order
           /\ upstream_chan' = Pushed([type |-> "REQ_ORDER", order |-> o])
           /\ order' \in Seq([by : Conns, user_id : UserIds])
           /\ DOMAIN order' = 1..o
           /\ \A i \in DOMAIN order : i \in DOMAIN order' /\ order'[i] = order[i]
           /\ order'[o] = [by |-> c, user_id |-> u]
           /\ UNCHANGED <<session, user_id, listed, client_chan, client_overflowed, lost,
                          pending, answers, wire_down, got>>
<1> DEFINE e == [by |-> c, user_id |-> u]
<1>1. e \in [by : Conns, user_id : UserIds]
    BY OrdersAssumption
<1>2. order' = Append(order, e)
    BY DEF ClientReqOrder
<1> HIDE DEF e
<1>3. order \in Seq([by : Conns, user_id : UserIds]) /\ Len(order) \in Nat
      /\ DOMAIN order = 1..Len(order)
    BY LenProperties DEF OrdersTypeOK
<1>4. Len(order) + 1 \in Order
    BY <1>3, OrdersAssumption DEF ClientReqOrder
<1>5. /\ order' \in Seq([by : Conns, user_id : UserIds])
      /\ DOMAIN order' = 1..(Len(order) + 1)
      /\ \A i \in 1..Len(order) : order'[i] = order[i]
      /\ order'[Len(order) + 1] = e
    BY <1>1, <1>2, <1>3, AppendFacts
<1>6. Len(order) + 1 \notin DOMAIN order
      /\ \A i \in DOMAIN order : i \in DOMAIN order'
    BY <1>3, <1>5
<1> QED
    BY <1>3, <1>4, <1>5, <1>6
    DEF e, ClientReqOrder, ClientHandleMessage, sessionVars, clientChanVars, wireVars

LEMMA UpClientReqOrder ==
    ASSUME OrdersTypeOK, UpInv, NEW c \in Senders, NEW u \in UserIds, ClientReqOrder(c, u)
    PROVE  UpInv'
<1>1. PICK o \in Order :
         /\ o = Len(order) + 1 /\ o \notin DOMAIN order
         /\ upstream_chan' = Pushed([type |-> "REQ_ORDER", order |-> o])
         /\ DOMAIN order' = 1..o
         /\ UNCHANGED <<pending, answers>>
    BY ClientReqOrderFacts
<1>2. \A i \in DOMAIN order : i < o /\ i \in DOMAIN order'
    BY <1>1, OrdersTyping
<1>3. PICK L \in Nat : L = Len(upstream_chan) /\ DOMAIN upstream_chan = 1..L
    BY OrdersTyping
<1>4. \A i \in Waiting' :
         /\ i \in Nat
         /\ \/ i \in Waiting /\ i <= L /\ upstream_chan'[i] = upstream_chan[i]
            \/ i = L + 1 /\ upstream_chan'[i].order = o
    <2> TAKE i \in Waiting'
    <2> DEFINE m == [type |-> "REQ_ORDER", order |-> o]
    <2>1. m \in Message /\ m.order = o
        BY MessageFacts
    <2>2. upstream_chan' = Pushed(m)
        BY <1>1
    <2> HIDE DEF m
    <2>3. i \in DOMAIN Pushed(m) /\ upstream_chan'[i].type = "REQ_ORDER"
        BY <2>2 DEF Waiting
    <2>4. /\ i \in Nat
          /\ \/ i \in DOMAIN upstream_chan /\ upstream_chan'[i] = upstream_chan[i]
             \/ i = L + 1 /\ upstream_chan'[i] = m
        BY <1>3, <2>1, <2>2, <2>3, PushFacts DEF OrdersTypeOK, TypeOK
    <2> QED
        BY <1>3, <2>1, <2>3, <2>4 DEF Waiting
<1>5. OrdersInOrder'
    <2>1. ASSUME NEW j \in Waiting', NEW i \in Waiting', i < j
          PROVE  upstream_chan'[i].order < upstream_chan'[j].order
        <3>1. i \in Waiting /\ upstream_chan'[i] = upstream_chan[i]
            BY <1>3, <1>4, <2>1
        <3>2. CASE j = L + 1 /\ upstream_chan'[j].order = o
            <4>1. upstream_chan[i].order \in DOMAIN order
                BY <3>1 DEF UpInv, SentInv
            <4> QED
                BY <1>2, <3>1, <3>2, <4>1
        <3>3. CASE j \in Waiting /\ upstream_chan'[j] = upstream_chan[j]
            BY <2>1, <3>1, <3>3 DEF UpInv, OrdersInOrder
        <3> QED
            BY <1>4, <3>2, <3>3
    <2>2. ASSUME NEW j \in Waiting', NEW i \in DOMAIN pending
          PROVE  pending[i] < upstream_chan'[j].order
        <3>1. CASE j = L + 1 /\ upstream_chan'[j].order = o
            <4>1. pending[i] \in DOMAIN order
                BY DEF UpInv, SentInv
            <4> QED
                BY <1>2, <3>1, <4>1
        <3>2. CASE j \in Waiting /\ upstream_chan'[j] = upstream_chan[j]
            BY <3>2 DEF UpInv, OrdersInOrder
        <3> QED
            BY <1>4, <3>1, <3>2
    <2> QED
        BY <1>1, <2>1, <2>2 DEF UpInv, OrdersInOrder
<1>6. SentInv'
    <2>1. o \in DOMAIN order'
        BY <1>1, OrdersTyping
    <2> QED
        BY <1>1, <1>2, <1>4, <2>1 DEF UpInv, SentInv
<1>7. ExchangeInv'
    <2>1. answers[o] = 0
        BY <1>1 DEF UpInv, ExchangeInv
    <2>2. \A i \in Waiting' : answers[upstream_chan'[i].order] = 0
        BY <1>4, <2>1 DEF UpInv, ExchangeInv
    <2>3. \A p \in Order : p \notin DOMAIN order' => answers[p] = 0
        BY <1>2 DEF UpInv, ExchangeInv
    <2> QED
        BY <1>1, <2>2, <2>3 DEF UpInv, ExchangeInv
<1> QED
    BY <1>5, <1>6, <1>7 DEF UpInv

\* A round of the exchange: every order on its list answered once more, a
\* finished beginning of the list gone.
LEMMA ExchangeRoundFacts ==
    ASSUME OrdersTypeOK, UpInv, ExchangeRound
    PROVE  /\ UNCHANGED <<upstream_chan, session, user_id, listed, client_chan,
                          client_overflowed, order, lost, got>>
           /\ Answers \in Seq(ClientMessage) /\ Len(Answers) = Len(pending)
           /\ \A i \in 1..Len(pending) :
                 /\ Answers[i].type = "RSP_ORDER" /\ Answers[i].order = pending[i]
                 /\ Answers[i].rsp_cnt = answers[pending[i]] + 1
           /\ wire_down' = wire_down \o Answers
           /\ answers' \in [Order -> 0..MaxRsp]
           /\ \A i \in 1..Len(pending) : answers'[pending[i]] = answers[pending[i]] + 1
           /\ \A o \in Order : /\ answers[o] <= answers'[o]
                               /\ (\A i \in 1..Len(pending) : pending[i] # o) => answers'[o] = answers[o]
           /\ pending' \in Seq(Order)
           /\ \E n \in Nat :
                 /\ n <= Len(pending) /\ DOMAIN pending' = 1..(Len(pending) - n)
                 /\ \A i \in 1..(Len(pending) - n) : pending'[i] = pending[i + n]
                 /\ n < Len(pending) => answers[pending[n + 1]] + 1 < MaxRsp
<1>1. PICK L \in Nat : L = Len(pending) /\ DOMAIN pending = 1..L
    BY OrdersTyping
<1>2. \A i \in 1..L : /\ pending[i] \in Order
                      /\ answers[pending[i]] \in Nat /\ answers[pending[i]] < MaxRsp
    BY <1>1, OrdersTyping DEF UpInv, ExchangeInv
<1>3. MaxRsp \in Nat \ {0}
    BY OrdersTyping
<1>4. ASSUME NEW i \in 1..L
      PROVE  [type |-> "RSP_ORDER", order |-> pending[i], rsp_cnt |-> answers[pending[i]] + 1]
                \in ClientMessage
    <2>1. pending[i] \in Order /\ answers[pending[i]] + 1 \in 1..MaxRsp
        BY <1>2, <1>3
    <2> QED
        BY <2>1, ClientMessageFacts
<1>5. Answers = [i \in 1..L |-> [type |-> "RSP_ORDER", order |-> pending[i],
                                 rsp_cnt |-> answers[pending[i]] + 1]]
    BY <1>1 DEF Answers
<1>6. Answers \in Seq(ClientMessage)
    BY <1>4, <1>5, IsASeq
<1>7. Len(Answers) = L
    BY <1>5, <1>6, LenProperties
<1>8. \A i \in 1..L : /\ Answers[i].type = "RSP_ORDER" /\ Answers[i].order = pending[i]
                      /\ Answers[i].rsp_cnt = answers[pending[i]] + 1
    BY <1>5
<1>9. answers' = [o \in Order |-> answers[o] + (IF o \in ToSet(pending) THEN 1 ELSE 0)]
    BY DEF ExchangeRound
<1>10. \A i \in 1..L : pending[i] \in ToSet(pending)
    BY <1>1 DEF ToSet
<1>11. \A o \in ToSet(pending) : \E i \in 1..L : pending[i] = o
    BY <1>1 DEF ToSet
<1>12. \A o \in Order : answers[o] \in Nat /\ answers[o] <= MaxRsp
    BY OrdersTyping
<1>13. \A i \in 1..L : answers'[pending[i]] = answers[pending[i]] + 1
    BY <1>2, <1>9, <1>10
<1>14. ASSUME NEW o \in Order
       PROVE  /\ answers[o] <= answers'[o] /\ answers'[o] \in 0..MaxRsp
              /\ (\A i \in 1..L : pending[i] # o) => answers'[o] = answers[o]
    <2>1. CASE o \in ToSet(pending)
        <3>1. PICK i \in 1..L : pending[i] = o
            BY <1>11, <2>1
        <3> QED
            BY <1>2, <1>3, <1>13, <3>1
    <2>2. CASE o \notin ToSet(pending)
        <3>1. answers'[o] = answers[o]
            BY <1>9, <1>12, <2>2
        <3> QED
            BY <1>3, <1>12, <3>1
    <2> QED
        BY <2>1, <2>2
<1>15. answers' \in [Order -> 0..MaxRsp]
    BY <1>9, <1>14
<1>16. PICK n \in 0..Len(pending) :
          /\ n < Len(pending) => ~Finished(pending[n + 1])
          /\ pending' = SubSeq(pending, n + 1, Len(pending))
    BY DEF ExchangeRound
<1>17. n \in Nat /\ n <= L
    BY <1>1
<1>18. /\ pending' \in Seq(Order) /\ DOMAIN pending' = 1..(Len(pending) - n)
       /\ \A i \in 1..(Len(pending) - n) : pending'[i] = pending[i + n]
    BY <1>1, <1>16, <1>17, DropFacts DEF OrdersTypeOK
<1>19. n < L => answers[pending[n + 1]] + 1 < MaxRsp
    <2> SUFFICES ASSUME n < L PROVE answers[pending[n + 1]] + 1 < MaxRsp
        OBVIOUS
    <2>1. ~(answers[pending[n + 1]] + 1 >= MaxRsp)
        BY <1>1, <1>16 DEF Finished
    <2>2. n + 1 \in 1..L
        BY <1>17
    <2> QED
        BY <1>2, <1>3, <2>1, <2>2
<1>20. wire_down' = wire_down \o Answers
    BY DEF ExchangeRound
<1>21. UNCHANGED <<upstream_chan, session, user_id, listed, client_chan,
                   client_overflowed, order, lost, got>>
    BY DEF ExchangeRound, vars, sessionVars, clientChanVars, orderVars
<1>22. \E k \in Nat :
          /\ k <= Len(pending) /\ DOMAIN pending' = 1..(Len(pending) - k)
          /\ \A i \in 1..(Len(pending) - k) : pending'[i] = pending[i + k]
          /\ k < Len(pending) => answers[pending[k + 1]] + 1 < MaxRsp
    BY <1>1, <1>17, <1>18, <1>19
<1> QED
    BY <1>1, <1>6, <1>7, <1>8, <1>13, <1>14, <1>15, <1>18, <1>20, <1>21, <1>22

LEMMA UpExchangeRound ==
    ASSUME OrdersTypeOK, UpInv, ExchangeRound
    PROVE  UpInv'
<1>1. PICK L \in Nat : L = Len(pending) /\ DOMAIN pending = 1..L
    BY OrdersTyping
<1>2. PICK n \in Nat :
         /\ n <= L /\ DOMAIN pending' = 1..(L - n)
         /\ \A i \in 1..(L - n) : pending'[i] = pending[i + n]
         /\ n < L => answers[pending[n + 1]] + 1 < MaxRsp
    BY <1>1, ExchangeRoundFacts
<1>3. UNCHANGED <<upstream_chan, order>> /\ Waiting' = Waiting
    BY ExchangeRoundFacts DEF Waiting
<1>4. \A i \in 1..L : /\ pending[i] \in Order
                      /\ answers'[pending[i]] = answers[pending[i]] + 1
                      /\ answers[pending[i]] \in Nat
    BY <1>1, ExchangeRoundFacts, OrdersTyping
<1>5. \A o \in Order : (\A i \in 1..L : pending[i] # o) => answers'[o] = answers[o]
    BY <1>1, ExchangeRoundFacts
<1>6. \A i \in DOMAIN pending' : /\ i \in Nat /\ i + n \in 1..L /\ pending'[i] = pending[i + n]
    BY <1>2
<1>7. OrdersInOrder'
    <2>1. ASSUME NEW i \in DOMAIN pending', NEW j \in DOMAIN pending', i < j
          PROVE  pending'[i] < pending'[j]
        <3>1. i + n < j + n
            BY <1>6, <2>1
        <3>2. pending[i + n] < pending[j + n]
            BY <1>1, <1>6, <3>1 DEF UpInv, OrdersInOrder
        <3> QED
            BY <1>6, <3>2
    <2>2. ASSUME NEW j \in Waiting, NEW i \in DOMAIN pending'
          PROVE  pending'[i] < upstream_chan[j].order
        BY <1>1, <1>6 DEF UpInv, OrdersInOrder
    <2> QED
        BY <1>3, <2>1, <2>2 DEF UpInv, OrdersInOrder
<1>8. SentInv'
    BY <1>1, <1>3, <1>6 DEF UpInv, SentInv
<1>9. \A i, j \in 1..L : i <= j => answers[pending[i]] >= answers[pending[j]]
    <2> TAKE i, j \in 1..L
    <2>1. i < j => answers[pending[i]] >= answers[pending[j]]
        BY <1>1 DEF UpInv, ExchangeInv
    <2>2. answers[pending[i]] \in Nat /\ answers[pending[j]] \in Nat
        BY <1>4
    <2>3. i <= j => i < j \/ i = j
        OBVIOUS
    <2> QED
        BY <2>1, <2>2, <2>3
<1>10. ExchangeInv'
    <2>1. ASSUME NEW i \in DOMAIN pending'
          PROVE  answers'[pending'[i]] < MaxRsp
        <3>1. /\ i + n \in 1..L /\ n + 1 \in 1..L /\ n + 1 <= i + n /\ n < L
            BY <1>2, <2>1
        <3>2. answers[pending[n + 1]] >= answers[pending[i + n]]
            BY <1>9, <3>1
        <3>3. answers[pending[n + 1]] \in Nat /\ answers[pending[i + n]] \in Nat /\ MaxRsp \in Nat
            BY <1>4, <3>1, OrdersTyping
        <3>4. answers'[pending'[i]] = answers[pending[i + n]] + 1
            BY <1>4, <1>6, <3>1
        <3>5. answers[pending[n + 1]] + 1 < MaxRsp
            BY <1>2, <3>1
        <3> QED
            BY <3>2, <3>3, <3>4, <3>5
    <2>2. ASSUME NEW i \in DOMAIN pending', NEW j \in DOMAIN pending', i < j
          PROVE  answers'[pending'[i]] >= answers'[pending'[j]]
        <3>1. i + n <= j + n /\ i + n \in 1..L /\ j + n \in 1..L
            BY <1>6, <2>2
        <3>2. answers[pending[i + n]] >= answers[pending[j + n]]
            BY <1>9, <3>1
        <3>3. /\ answers'[pending'[i]] = answers[pending[i + n]] + 1
              /\ answers'[pending'[j]] = answers[pending[j + n]] + 1
              /\ answers[pending[i + n]] \in Nat /\ answers[pending[j + n]] \in Nat
            BY <1>4, <1>6, <3>1
        <3> QED
            BY <3>2, <3>3
    <2>3. ASSUME NEW i \in Waiting
          PROVE  answers'[upstream_chan[i].order] = 0
        <3>1. PICK o \in Order : o = upstream_chan[i].order
            BY OrdersTyping
        <3>2. ASSUME NEW k \in 1..L PROVE pending[k] # o
            <4>1. pending[k] < o
                BY <1>1, <3>1 DEF UpInv, OrdersInOrder
            <4> QED
                BY <1>4, <4>1, OrdersTyping
        <3>3. answers[o] = 0
            BY <3>1 DEF UpInv, ExchangeInv
        <3> QED
            BY <1>5, <3>1, <3>2, <3>3
    <2>4. ASSUME NEW o \in Order, o \notin DOMAIN order
          PROVE  answers'[o] = 0
        <3>1. \A k \in 1..L : pending[k] # o
            BY <1>1, <2>4 DEF UpInv, SentInv
        <3>2. answers[o] = 0
            BY <2>4 DEF UpInv, ExchangeInv
        <3> QED
            BY <1>5, <3>1, <3>2
    <2> QED
        BY <1>3, <2>1, <2>2, <2>3, <2>4 DEF ExchangeInv
<1> QED
    BY <1>7, <1>8, <1>10 DEF UpInv

LEMMA UpStep ==
    ASSUME OrdersTypeOK, UpInv, [OrdersNext]_ordersVars
    PROVE  UpInv'
<1>1. UNCHANGED <<upstream_chan, order, pending, answers>> => UpInv'
    BY DEF UpInv, OrdersInOrder, SentInv, ExchangeInv, Waiting
<1>2. ASSUME NEW c \in Conns, NEW u, OnWorkerAddCtx(c, u) \/ OnWorkerClose(c)
      PROVE  UpInv'
    BY <1>1, <1>2 DEF OnWorkerAddCtx, OnWorkerClose, vars, orderVars, wireVars
<1>3. UpstreamRspOrder \/ ClientChanAdd \/ ClientChanDel \/ ClientChanRsp => UpInv'
    BY <1>1 DEF UpstreamRspOrder, ClientChanAdd, ClientChanDel, ClientChanRsp, ProcessDies,
                vars, orderVars, wireVars
<1>4. UNCHANGED ordersVars => UpInv'
    BY <1>1 DEF ordersVars, vars
<1>5. ASSUME NEW c \in Senders, NEW u \in UserIds, ClientReqOrder(c, u) PROVE UpInv'
    BY <1>5, UpClientReqOrder
<1>6. ASSUME NEW k \in Link, LinkBreaks(k) PROVE UpInv'
    BY <1>6, UpLinkBreaks
<1> QED
    BY <1>2, <1>3, <1>4, <1>5, <1>6, UpLinkStep, UpWriteOrder, UpExchangeRound, LeaversConnect DEF OrdersNext

-----------------------------------------------------------------------------
(* The way down.                                                            *)

\* The places of client_chan with a response.
Rsps == {i \in DOMAIN client_chan : client_chan[i].type = "RSP_ORDER"}

\* Pushing appends the message, or loses it.
LEMMA ClientPushFacts ==
    ASSUME client_chan \in Seq(ClientMessage), NEW m \in ClientMessage,
           client_chan' = ClientPushed(m)
    PROVE  /\ client_chan' \in Seq(ClientMessage)
           /\ \A i \in DOMAIN client_chan' :
                 /\ i \in Nat
                 /\ \/ i \in DOMAIN client_chan /\ client_chan'[i] = client_chan[i]
                    \/ i = Len(client_chan) + 1 /\ client_chan'[i] = m
<1>1. DOMAIN client_chan = 1..Len(client_chan) /\ Len(client_chan) \in Nat
    BY LenProperties
<1>2. CASE client_chan' = client_chan
    BY <1>1, <1>2
<1>3. CASE client_chan' = Append(client_chan, m)
    <2>1. /\ client_chan' \in Seq(ClientMessage)
          /\ DOMAIN client_chan' = 1..(Len(client_chan) + 1)
          /\ \A i \in 1..Len(client_chan) : client_chan'[i] = client_chan[i]
          /\ client_chan'[Len(client_chan) + 1] = m
        BY <1>3, AppendFacts
    <2>2. \A i \in DOMAIN client_chan' : /\ i \in Nat
                                         /\ i \in 1..Len(client_chan) \/ i = Len(client_chan) + 1
        BY <1>1, <2>1
    <2> QED
        BY <1>1, <2>1, <2>2
<1> QED
    BY <1>2, <1>3 DEF ClientPushed

LEMMA ClientReadFacts ==
    ASSUME client_chan \in Seq(ClientMessage), client_chan # <<>>,
           client_chan' = Tail(client_chan)
    PROVE  /\ client_chan' \in Seq(ClientMessage)
           /\ 1 \in DOMAIN client_chan /\ Head(client_chan) = client_chan[1]
           /\ Head(client_chan) \in ClientMessage
           /\ \A i \in DOMAIN client_chan' :
                 /\ i \in Nat /\ 0 < i /\ i + 1 \in DOMAIN client_chan
                 /\ client_chan'[i] = client_chan[i + 1]
           /\ \A i \in DOMAIN client_chan : i # 1 =>
                 /\ i - 1 \in DOMAIN client_chan' /\ client_chan'[i - 1] = client_chan[i]
<1>1. PICK L \in Nat \ {0} : L = Len(client_chan)
    BY TailFacts
<1>2. /\ client_chan' \in Seq(ClientMessage)
      /\ DOMAIN client_chan = 1..L /\ DOMAIN client_chan' = 1..(L - 1)
      /\ \A i \in 1..(L - 1) : client_chan'[i] = client_chan[i + 1]
      /\ Head(client_chan) = client_chan[1] /\ Head(client_chan) \in ClientMessage
    BY <1>1, TailFacts
<1>3. \A i \in DOMAIN client_chan' :
         /\ i \in Nat /\ 0 < i /\ i + 1 \in DOMAIN client_chan
         /\ client_chan'[i] = client_chan[i + 1]
    BY <1>2
<1>4. ASSUME NEW i \in DOMAIN client_chan, i # 1
      PROVE  i - 1 \in DOMAIN client_chan' /\ client_chan'[i - 1] = client_chan[i]
    <2>1. i - 1 \in 1..(L - 1) /\ (i - 1) + 1 = i
        BY <1>2, <1>4
    <2> QED
        BY <1>2, <2>1
<1> QED
    BY <1>2, <1>3, <1>4

LEMMA RspsPush ==
    ASSUME OrdersTypeOK, NEW m \in ClientMessage, m.type # "RSP_ORDER",
           client_chan' = ClientPushed(m)
    PROVE  \A i \in Rsps' : i \in Nat /\ i + 0 \in Rsps /\ client_chan'[i] = client_chan[i + 0]
<1> SUFFICES ASSUME NEW i \in Rsps'
             PROVE  i \in Nat /\ i \in Rsps /\ client_chan'[i] = client_chan[i]
    OBVIOUS
<1>1. i \in DOMAIN client_chan' /\ client_chan'[i].type = "RSP_ORDER"
    BY DEF Rsps
<1>2. i \in Nat /\ i \in DOMAIN client_chan /\ client_chan'[i] = client_chan[i]
    BY <1>1, ClientPushFacts DEF OrdersTypeOK
<1> QED
    BY <1>1, <1>2 DEF Rsps

LEMMA RspsRead ==
    ASSUME OrdersTypeOK, client_chan # <<>>, client_chan' = Tail(client_chan)
    PROVE  \A i \in Rsps' : /\ i \in Nat /\ i + 1 \in Rsps
                            /\ client_chan'[i] = client_chan[i + 1]
<1> SUFFICES ASSUME NEW i \in Rsps'
             PROVE  i \in Nat /\ i + 1 \in Rsps /\ client_chan'[i] = client_chan[i + 1]
    OBVIOUS
<1>1. i \in DOMAIN client_chan' /\ client_chan'[i].type = "RSP_ORDER"
    BY DEF Rsps
<1>2. i \in Nat /\ i + 1 \in DOMAIN client_chan /\ client_chan'[i] = client_chan[i + 1]
    BY <1>1, ClientReadFacts DEF OrdersTypeOK
<1> QED
    BY <1>1, <1>2 DEF Rsps

\* What brings no response into the channel or onto the link keeps DownInv.
LEMMA DownShift ==
    ASSUME OrdersTypeOK, DownInv, UNCHANGED answers,
           \A o \in DOMAIN order : o \in DOMAIN order',
           wire_down' = wire_down \/ wire_down' = <<>>,
           NEW d \in {0, 1},
           \A i \in Rsps' : i \in Nat /\ i + d \in Rsps /\ client_chan'[i] = client_chan[i + d]
    PROVE  DownInv'
<1>1. \A i \in DOMAIN wire_down' : i \in DOMAIN wire_down /\ wire_down'[i] = wire_down[i]
    OBVIOUS
<1>2. \A i \in DOMAIN client_chan' : client_chan'[i].type = "RSP_ORDER" => i \in Rsps'
    BY DEF Rsps
<1>3. \A i \in Rsps : i \in DOMAIN client_chan /\ client_chan[i].type = "RSP_ORDER"
    BY DEF Rsps
<1>4. ASSUME NEW i \in DOMAIN client_chan', client_chan'[i].type = "RSP_ORDER"
      PROVE  /\ client_chan'[i].order \in DOMAIN order'
             /\ client_chan'[i].rsp_cnt <= answers'[client_chan'[i].order]
    <2>1. i + d \in Rsps /\ client_chan'[i] = client_chan[i + d]
        BY <1>2, <1>4
    <2> QED
        BY <1>3, <1>4, <2>1 DEF DownInv
<1>5. ASSUME NEW i \in DOMAIN wire_down'
      PROVE  /\ wire_down'[i].type = "RSP_ORDER"
             /\ wire_down'[i].order \in DOMAIN order'
             /\ wire_down'[i].rsp_cnt <= answers'[wire_down'[i].order]
    BY <1>1 DEF DownInv
<1>6. ASSUME NEW i \in DOMAIN client_chan', NEW j \in DOMAIN client_chan', i < j
      PROVE  Before(client_chan'[i], client_chan'[j])
    <2> SUFFICES ASSUME client_chan'[i].type = "RSP_ORDER", client_chan'[j].type = "RSP_ORDER"
                 PROVE  Before(client_chan'[i], client_chan'[j])
        BY DEF Before
    <2>1. /\ i \in Nat /\ i + d \in Rsps /\ client_chan'[i] = client_chan[i + d]
          /\ j \in Nat /\ j + d \in Rsps /\ client_chan'[j] = client_chan[j + d]
        BY <1>2
    <2>2. i + d < j + d
        BY <1>6, <2>1
    <2> QED
        BY <1>3, <2>1, <2>2 DEF DownInv
<1>7. ASSUME NEW i \in DOMAIN wire_down', NEW j \in DOMAIN wire_down', i < j
      PROVE  Before(wire_down'[i], wire_down'[j])
    BY <1>1, <1>7 DEF DownInv
<1>8. ASSUME NEW i \in DOMAIN client_chan', NEW j \in DOMAIN wire_down'
      PROVE  Before(client_chan'[i], wire_down'[j])
    <2> SUFFICES ASSUME client_chan'[i].type = "RSP_ORDER"
                 PROVE  Before(client_chan'[i], wire_down'[j])
        BY DEF Before
    <2>1. i + d \in Rsps /\ client_chan'[i] = client_chan[i + d]
        BY <1>2
    <2> QED
        BY <1>1, <1>3, <2>1 DEF DownInv
<1> QED
    BY <1>4, <1>5, <1>6, <1>7, <1>8 DEF DownInv

\* A response leaves the link for the channel, or is lost in between.
LEMMA RspOrderFacts ==
    ASSUME OrdersTypeOK, UpstreamRspOrder
    PROVE  /\ wire_down' \in Seq(ClientMessage)
           /\ 1 \in DOMAIN wire_down /\ wire_down[1] \in ClientMessage
           /\ \A i \in DOMAIN wire_down' :
                 /\ i \in Nat /\ 0 < i /\ i + 1 \in DOMAIN wire_down
                 /\ wire_down'[i] = wire_down[i + 1]
           /\ client_chan' = ClientPushed(wire_down[1])
           /\ client_overflowed' \in BOOLEAN
           /\ UNCHANGED <<session, user_id, listed, order, lost, pending, answers, got>>
<1>1. wire_down # <<>> /\ wire_down' = Tail(wire_down)
      /\ client_chan' = ClientPushed(Head(wire_down))
    BY DEF UpstreamRspOrder, Push
<1>2. PICK L \in Nat \ {0} : L = Len(wire_down)
    BY <1>1, TailFacts DEF OrdersTypeOK
<1>3. /\ wire_down' \in Seq(ClientMessage)
      /\ DOMAIN wire_down = 1..L /\ DOMAIN wire_down' = 1..(L - 1)
      /\ \A i \in 1..(L - 1) : wire_down'[i] = wire_down[i + 1]
      /\ Head(wire_down) = wire_down[1] /\ wire_down[1] \in ClientMessage
    BY <1>1, <1>2, TailFacts DEF OrdersTypeOK
<1>4. client_overflowed' \in BOOLEAN
    BY DEF UpstreamRspOrder, Push, OrdersTypeOK
<1>5. \A i \in DOMAIN wire_down' :
         /\ i \in Nat /\ 0 < i /\ i + 1 \in DOMAIN wire_down
         /\ wire_down'[i] = wire_down[i + 1]
    BY <1>3
<1> QED
    BY <1>1, <1>3, <1>4, <1>5 DEF UpstreamRspOrder, sessionVars, orderVars

LEMMA DownRspOrder ==
    ASSUME OrdersTypeOK, DownInv, UpstreamRspOrder
    PROVE  DownInv'
<1> PICK m : m = wire_down[1]
    OBVIOUS
<1>1. /\ 1 \in DOMAIN wire_down /\ m \in ClientMessage
      /\ client_chan' = ClientPushed(m)
      /\ UNCHANGED <<order, answers>>
    BY RspOrderFacts
<1>2. \A i \in DOMAIN wire_down' :
         /\ i \in Nat /\ 1 < i + 1 /\ i + 1 \in DOMAIN wire_down
         /\ wire_down'[i] = wire_down[i + 1]
    BY RspOrderFacts
<1>3. PICK C \in Nat : C = Len(client_chan) /\ DOMAIN client_chan = 1..C
    BY OrdersTyping
<1>4. \A i \in DOMAIN client_chan' :
         /\ i \in Nat
         /\ \/ i \in 1..C /\ client_chan'[i] = client_chan[i]
            \/ i = C + 1 /\ client_chan'[i] = m
    BY <1>1, <1>3, ClientPushFacts DEF OrdersTypeOK
<1>5. /\ m.type = "RSP_ORDER" /\ m.order \in DOMAIN order
      /\ m.rsp_cnt <= answers[m.order]
    BY <1>1 DEF DownInv
<1>6. \A i \in 1..C : Before(client_chan[i], m)
    BY <1>1, <1>3 DEF DownInv
<1>7. ASSUME NEW i \in DOMAIN client_chan', client_chan'[i].type = "RSP_ORDER"
      PROVE  /\ client_chan'[i].order \in DOMAIN order'
             /\ client_chan'[i].rsp_cnt <= answers'[client_chan'[i].order]
    BY <1>1, <1>3, <1>4, <1>5, <1>7 DEF DownInv
<1>8. ASSUME NEW i \in DOMAIN wire_down'
      PROVE  /\ wire_down'[i].type = "RSP_ORDER"
             /\ wire_down'[i].order \in DOMAIN order'
             /\ wire_down'[i].rsp_cnt <= answers'[wire_down'[i].order]
    BY <1>1, <1>2 DEF DownInv
<1>9. ASSUME NEW i \in DOMAIN client_chan', NEW j \in DOMAIN client_chan', i < j
      PROVE  Before(client_chan'[i], client_chan'[j])
    <2>1. i \in 1..C /\ client_chan'[i] = client_chan[i]
        <3>1. i # C + 1
            BY <1>3, <1>4, <1>9
        <3> QED
            BY <1>4, <3>1
    <2>2. CASE j = C + 1 /\ client_chan'[j] = m
        BY <1>6, <2>1, <2>2
    <2>3. CASE j \in 1..C /\ client_chan'[j] = client_chan[j]
        BY <1>3, <1>9, <2>1, <2>3 DEF DownInv
    <2> QED
        BY <1>4, <2>2, <2>3
<1>10. ASSUME NEW i \in DOMAIN wire_down', NEW j \in DOMAIN wire_down', i < j
       PROVE  Before(wire_down'[i], wire_down'[j])
    <2>1. i + 1 < j + 1
        BY <1>2, <1>10
    <2> QED
        BY <1>2, <2>1 DEF DownInv
<1>11. ASSUME NEW i \in DOMAIN client_chan', NEW j \in DOMAIN wire_down'
       PROVE  Before(client_chan'[i], wire_down'[j])
    <2>1. j + 1 \in DOMAIN wire_down /\ wire_down'[j] = wire_down[j + 1] /\ 1 < j + 1
        BY <1>2
    <2>2. CASE client_chan'[i] = m
        BY <1>1, <2>1, <2>2 DEF DownInv
    <2>3. CASE i \in DOMAIN client_chan /\ client_chan'[i] = client_chan[i]
        BY <2>1, <2>3 DEF DownInv
    <2> QED
        BY <1>3, <1>4, <2>2, <2>3
<1> QED
    BY <1>7, <1>8, <1>9, <1>10, <1>11 DEF DownInv

\* The responses of a round are on the link behind those that were there.
LEMMA RoundOnLink ==
    ASSUME OrdersTypeOK, UpInv, ExchangeRound
    PROVE  LET W == Len(wire_down)  L == Len(pending) IN
           /\ \A i \in 1..W : i \in DOMAIN wire_down' /\ wire_down'[i] = wire_down[i]
           /\ \A i \in 1..L : /\ W + i \in DOMAIN wire_down'
                              /\ wire_down'[W + i].type = "RSP_ORDER"
                              /\ wire_down'[W + i].order = pending[i]
                              /\ wire_down'[W + i].rsp_cnt = answers[pending[i]] + 1
           /\ \A j \in DOMAIN wire_down' :
                 /\ j \in Nat
                 /\ j \in 1..W \/ (~(j <= W) /\ \E i \in 1..L : j = W + i)
<1>1. PICK W \in Nat : W = Len(wire_down)
    BY OrdersTyping
<1>2. PICK L \in Nat : L = Len(pending)
    BY OrdersTyping
<1>3. PICK A \in Seq(ClientMessage) : A = Answers
    BY ExchangeRoundFacts
<1>4. Len(A) = L /\ wire_down' = wire_down \o A
    BY <1>2, <1>3, ExchangeRoundFacts
<1>5. wire_down \in Seq(ClientMessage)
    BY DEF OrdersTypeOK
<1>6. /\ DOMAIN (wire_down \o A) = 1..(Len(wire_down) + Len(A))
      /\ \A i \in 1..Len(wire_down) : (wire_down \o A)[i] = wire_down[i]
      /\ \A i \in 1..Len(A) : (wire_down \o A)[Len(wire_down) + i] = A[i]
    BY <1>5, ConcatFacts
<1>7. /\ DOMAIN wire_down' = 1..(W + L)
      /\ \A i \in 1..W : wire_down'[i] = wire_down[i]
      /\ \A i \in 1..L : wire_down'[W + i] = A[i]
    BY <1>1, <1>4, <1>6
<1>8. \A i \in 1..L : /\ A[i].type = "RSP_ORDER" /\ A[i].order = pending[i]
                      /\ A[i].rsp_cnt = answers[pending[i]] + 1
    BY <1>2, <1>3, ExchangeRoundFacts
<1>9. /\ \A i \in 1..W : i \in 1..(W + L)
      /\ \A i \in 1..L : W + i \in 1..(W + L)
    OBVIOUS
<1>10. ASSUME NEW j \in 1..(W + L)
       PROVE  j \in Nat /\ (j \in 1..W \/ (~(j <= W) /\ \E i \in 1..L : j = W + i))
    <2>1. j \in Nat /\ (j \in 1..W \/ ~(j <= W))
        OBVIOUS
    <2>2. ~(j <= W) => j - W \in 1..L /\ j = W + (j - W)
        OBVIOUS
    <2> QED
        BY <2>1, <2>2
<1> QED
    BY <1>1, <1>2, <1>7, <1>8, <1>9, <1>10

LEMMA DownExchangeRound ==
    ASSUME OrdersTypeOK, UpInv, DownInv, ExchangeRound
    PROVE  DownInv'
<1>1. PICK W \in Nat : W = Len(wire_down) /\ DOMAIN wire_down = 1..W
    BY OrdersTyping
<1>2. PICK L \in Nat : L = Len(pending) /\ DOMAIN pending = 1..L
    BY OrdersTyping
<1>3. UNCHANGED <<client_chan, order>>
    BY ExchangeRoundFacts
<1>4. \A i \in 1..L : /\ pending[i] \in Order /\ pending[i] \in DOMAIN order
                      /\ answers[pending[i]] \in Nat
                      /\ answers'[pending[i]] = answers[pending[i]] + 1
    BY <1>2, ExchangeRoundFacts, OrdersTyping DEF UpInv, SentInv
<1>5. \A o \in Order : /\ answers[o] \in Nat /\ answers[o] <= answers'[o]
                       /\ answers'[o] \in Nat
    BY ExchangeRoundFacts, OrdersTyping
<1>6. \A i \in 1..W : wire_down'[i] = wire_down[i]
    BY <1>1, RoundOnLink
<1>7. \A i \in 1..L : /\ wire_down'[W + i].type = "RSP_ORDER"
                      /\ wire_down'[W + i].order = pending[i]
                      /\ wire_down'[W + i].rsp_cnt = answers[pending[i]] + 1
    BY <1>1, <1>2, RoundOnLink
<1>8. \A j \in DOMAIN wire_down' :
         /\ j \in Nat
         /\ j \in 1..W \/ (~(j <= W) /\ \E i \in 1..L : j = W + i)
    BY <1>1, <1>2, RoundOnLink
<1>9. \A i, j \in 1..L : i < j => pending[i] # pending[j]
    <2> TAKE i, j \in 1..L
    <2>1. i < j => pending[i] < pending[j]
        BY <1>2 DEF UpInv, OrdersInOrder
    <2>2. pending[i] \in Nat /\ pending[j] \in Nat
        BY <1>2, OrdersTyping
    <2> QED
        BY <2>1, <2>2
\* An older response to an order on the list, in the channel or on the link.
<1>10. ASSUME NEW m \in ClientMessage, NEW i \in 1..L,
              m.type = "RSP_ORDER" => m.rsp_cnt <= answers[m.order]
       PROVE  Before(m, wire_down'[W + i])
    <2> SUFFICES ASSUME m.type = "RSP_ORDER", m.order = wire_down'[W + i].order
                 PROVE  m.rsp_cnt < wire_down'[W + i].rsp_cnt
        BY DEF Before
    <2>1. PICK n \in Nat : n = m.rsp_cnt
        BY ClientMessageFacts
    <2>2. n <= answers[pending[i]]
        BY <1>7, <1>10, <2>1
    <2>3. n < answers[pending[i]] + 1
        BY <1>4, <2>2
    <2> QED
        BY <1>7, <2>1, <2>3
<1>11. ASSUME NEW m \in ClientMessage, m.type = "RSP_ORDER", m.rsp_cnt <= answers[m.order]
       PROVE  m.rsp_cnt <= answers'[m.order]
    <2>1. m.order \in Order /\ m.rsp_cnt \in Nat
        BY <1>11, ClientMessageFacts
    <2> QED
        BY <1>5, <1>11, <2>1
<1>12. ASSUME NEW i \in DOMAIN client_chan, client_chan[i].type = "RSP_ORDER"
       PROVE  /\ client_chan[i].order \in DOMAIN order
              /\ client_chan[i].rsp_cnt <= answers'[client_chan[i].order]
    BY <1>11, <1>12, OrdersTyping DEF DownInv
<1>13. ASSUME NEW j \in DOMAIN wire_down'
       PROVE  /\ wire_down'[j].type = "RSP_ORDER"
              /\ wire_down'[j].order \in DOMAIN order
              /\ wire_down'[j].rsp_cnt <= answers'[wire_down'[j].order]
    <2>1. CASE j \in 1..W
        <3>1. wire_down[j] \in ClientMessage
            BY <1>1, <2>1, OrdersTyping
        <3> QED
            BY <1>1, <1>6, <1>11, <2>1, <3>1 DEF DownInv
    <2>2. ASSUME NEW i \in 1..L, j = W + i
          PROVE  /\ wire_down'[j].type = "RSP_ORDER"
                 /\ wire_down'[j].order \in DOMAIN order
                 /\ wire_down'[j].rsp_cnt <= answers'[wire_down'[j].order]
        <3>1. answers[pending[i]] + 1 <= answers'[pending[i]]
            BY <1>4
        <3> QED
            BY <1>4, <1>7, <2>2, <3>1
    <2> QED
        BY <1>8, <2>1, <2>2
<1>14. ASSUME NEW k \in DOMAIN wire_down', NEW j \in DOMAIN wire_down', k < j
       PROVE  Before(wire_down'[k], wire_down'[j])
    <2>1. CASE j \in 1..W
        <3>1. k \in 1..W
            BY <1>8, <1>14, <2>1
        <3> QED
            BY <1>1, <1>6, <1>14, <2>1, <3>1 DEF DownInv
    <2>2. ASSUME NEW i \in 1..L, j = W + i, k \in 1..W
          PROVE  Before(wire_down'[k], wire_down'[j])
        <3>1. wire_down[k] \in ClientMessage
            BY <1>1, <2>2, OrdersTyping
        <3>2. wire_down[k].rsp_cnt <= answers[wire_down[k].order]
            BY <1>1, <2>2 DEF DownInv
        <3>3. Before(wire_down[k], wire_down'[W + i])
            BY <1>10, <3>1, <3>2
        <3> QED
            BY <1>6, <2>2, <3>3
    <2>3. ASSUME NEW i \in 1..L, j = W + i, NEW h \in 1..L, k = W + h
          PROVE  Before(wire_down'[k], wire_down'[j])
        <3>1. h < i
            BY <1>14, <2>3
        <3>2. pending[h] # pending[i]
            BY <1>9, <3>1
        <3> QED
            BY <1>7, <2>3, <3>2 DEF Before
    <2> QED
        BY <1>8, <2>1, <2>2, <2>3
<1>15. ASSUME NEW k \in DOMAIN client_chan, NEW j \in DOMAIN wire_down'
       PROVE  Before(client_chan[k], wire_down'[j])
    <2>1. CASE j \in 1..W
        BY <1>1, <1>6, <2>1 DEF DownInv
    <2>2. ASSUME NEW i \in 1..L, j = W + i
          PROVE  Before(client_chan[k], wire_down'[j])
        <3>1. client_chan[k] \in ClientMessage
            BY OrdersTyping
        <3>2. client_chan[k].type = "RSP_ORDER"
                 => client_chan[k].rsp_cnt <= answers[client_chan[k].order]
            BY DEF DownInv
        <3>3. Before(client_chan[k], wire_down'[W + i])
            BY <1>10, <3>1, <3>2
        <3> QED
            BY <2>2, <3>3
    <2> QED
        BY <1>8, <2>1, <2>2
<1> QED
    BY <1>3, <1>12, <1>13, <1>14, <1>15 DEF DownInv

LEMMA DownStep ==
    ASSUME OrdersTypeOK, UpInv, DownInv, [OrdersNext]_ordersVars
    PROVE  DownInv'
<1>1. UNCHANGED <<client_chan, order, answers>> /\ wire_down' \in {wire_down, <<>>} => DownInv'
    <2> SUFFICES ASSUME UNCHANGED <<client_chan, order, answers>>, wire_down' \in {wire_down, <<>>}
                 PROVE  DownInv'
        OBVIOUS
    <2>1. \A i \in DOMAIN wire_down' : i \in DOMAIN wire_down /\ wire_down'[i] = wire_down[i]
        OBVIOUS
    <2> QED
        BY <2>1 DEF DownInv
<1>2. ASSUME NEW m \in ClientMessage, m.type # "RSP_ORDER", Push(m), UNCHANGED <<order, answers, wire_down>>
      PROVE  DownInv'
    <2>1. client_chan' = ClientPushed(m)
        BY <1>2 DEF Push
    <2> QED
        BY <1>2, <2>1, RspsPush, DownShift
<1>3. ASSUME NEW c \in Conns, NEW u, OnWorkerAddCtx(c, u) \/ OnWorkerClose(c)
      PROVE  DownInv'
    <2>1. UNCHANGED <<order, answers, wire_down>>
        BY <1>3 DEF OnWorkerAddCtx, OnWorkerClose, orderVars, wireVars
    <2>2. \E t \in {"ADD", "DEL"} : Push([type |-> t, ctx |-> c])
        BY <1>3 DEF OnWorkerAddCtx, OnWorkerClose
    <2>3. PICK t \in {"ADD", "DEL"} : Push([type |-> t, ctx |-> c])
        BY <2>2
    <2>4. [type |-> t, ctx |-> c] \in ClientMessage
        BY ClientMessageFacts
    <2> QED
        BY <1>2, <2>1, <2>3, <2>4
<1>4. ClientChanAdd \/ ClientChanDel \/ ClientChanRsp => DownInv'
    <2> SUFFICES ASSUME ClientChanAdd \/ ClientChanDel \/ ClientChanRsp PROVE DownInv'
        OBVIOUS
    <2>1. /\ client_chan # <<>> /\ client_chan' = Tail(client_chan)
          /\ UNCHANGED <<order, answers, wire_down>>
        BY DEF ClientChanAdd, ClientChanDel, ClientChanRsp, ClientReading, orderVars, wireVars
    <2> QED
        BY <2>1, RspsRead, DownShift
<1>5. ASSUME NEW c \in Senders, NEW u \in UserIds, ClientReqOrder(c, u) PROVE DownInv'
    <2>1. /\ \A o \in DOMAIN order : o \in DOMAIN order'
          /\ UNCHANGED <<client_chan, wire_down, answers>>
        BY <1>5, ClientReqOrderFacts
    <2>2. \A i \in Rsps' : i \in Nat /\ i + 0 \in Rsps /\ client_chan'[i] = client_chan[i + 0]
        BY <2>1, OrdersTyping DEF Rsps
    <2> QED
        BY <2>1, <2>2, DownShift
<1>6. LinkStep \/ WriteOrder \/ (\E k \in Link : LinkBreaks(k)) \/ UNCHANGED ordersVars => DownInv'
    BY <1>1 DEF LinkStep, NoOrderMoves, WriteOrder, LinkBreaks, ordersVars, clientChanVars, orderVars, wireVars
<1> QED
    BY <1>3, <1>4, <1>5, <1>6, DownRspOrder, DownExchangeRound, LeaversConnect DEF OrdersNext

-----------------------------------------------------------------------------
(* Sessions, and the invariant.                                             *)

LEMMA ListedStep ==
    ASSUME OrdersTypeOK, ListedInv, DownInv, [OrdersNext]_ordersVars
    PROVE  ListedInv'
<1>1. UNCHANGED <<session, listed, client_chan>> => ListedInv'
    BY DEF ListedInv
\* A push: the sessions without a worker are no more than before, and the
\* message is not an ADD of one of them.
<1>2. ASSUME NEW m \in ClientMessage, Push(m), UNCHANGED listed,
             \A c \in Conns : session'[c] = "none" =>
                 session[c] = "none" /\ (m.type = "ADD" => m.ctx # c)
      PROVE  ListedInv'
    <2>1. \A i \in DOMAIN client_chan' :
             \/ i \in DOMAIN client_chan /\ client_chan'[i] = client_chan[i]
             \/ client_chan'[i] = m
        BY <1>2, ClientPushFacts DEF Push, OrdersTypeOK
    <2> QED
        BY <1>2, <2>1 DEF ListedInv
<1>3. ASSUME NEW c \in Conns, NEW u, OnWorkerAddCtx(c, u) PROVE ListedInv'
    <2> DEFINE m == [type |-> "ADD", ctx |-> c]
    <2>1. m \in ClientMessage /\ m.ctx = c
        BY ClientMessageFacts
    <2>2. Push(m) /\ UNCHANGED listed /\ session' = [session EXCEPT ![c] = "worker"]
        BY <1>3 DEF OnWorkerAddCtx
    <2> HIDE DEF m
    <2>3. \A d \in Conns : session'[d] = "none" => session[d] = "none" /\ c # d
        BY <2>2 DEF OrdersTypeOK
    <2> QED
        BY <1>2, <2>1, <2>2, <2>3
<1>4. ASSUME NEW c \in Conns, OnWorkerClose(c) PROVE ListedInv'
    <2> DEFINE m == [type |-> "DEL", ctx |-> c]
    <2>1. m \in ClientMessage /\ m.type # "ADD"
        BY ClientMessageFacts
    <2>2. Push(m) /\ UNCHANGED listed /\ session' = [session EXCEPT ![c] = "left"]
        BY <1>4 DEF OnWorkerClose
    <2> HIDE DEF m
    <2>3. \A d \in Conns : session'[d] = "none" => session[d] = "none"
        BY <2>2 DEF OrdersTypeOK
    <2> QED
        BY <1>2, <2>1, <2>2, <2>3
<1>5. UpstreamRspOrder => ListedInv'
    <2> SUFFICES ASSUME UpstreamRspOrder PROVE ListedInv'
        OBVIOUS
    <2>1. /\ wire_down[1] \in ClientMessage /\ wire_down[1].type = "RSP_ORDER"
          /\ client_chan' = ClientPushed(wire_down[1])
          /\ UNCHANGED <<session, listed>>
        BY RspOrderFacts DEF DownInv
    <2>2. \A i \in DOMAIN client_chan' :
             \/ i \in DOMAIN client_chan /\ client_chan'[i] = client_chan[i]
             \/ client_chan'[i] = wire_down[1]
        BY <2>1, ClientPushFacts DEF OrdersTypeOK
    <2> QED
        BY <2>1, <2>2 DEF ListedInv
<1>6. ClientChanAdd \/ ClientChanDel \/ ClientChanRsp => ListedInv'
    <2> SUFFICES ASSUME ClientChanAdd \/ ClientChanDel \/ ClientChanRsp PROVE ListedInv'
        OBVIOUS
    <2>1. client_chan # <<>> /\ client_chan' = Tail(client_chan) /\ UNCHANGED session
        BY DEF ClientChanAdd, ClientChanDel, ClientChanRsp, ClientReading, sessionVars
    <2>2. /\ 1 \in DOMAIN client_chan /\ Head(client_chan) = client_chan[1]
          /\ \A i \in DOMAIN client_chan' :
                i + 1 \in DOMAIN client_chan /\ client_chan'[i] = client_chan[i + 1]
        BY <2>1, ClientReadFacts DEF OrdersTypeOK
    <2>3. \A c \in listed' : \/ c \in listed
                             \/ client_chan[1].type = "ADD" /\ c = client_chan[1].ctx
        BY <2>2 DEF ClientChanAdd, ClientChanDel, ClientChanRsp, ClientReading, sessionVars, Linked
    <2> QED
        BY <2>1, <2>2, <2>3 DEF ListedInv
<1>7. ASSUME NEW c \in Senders, NEW u \in UserIds, ClientReqOrder(c, u) PROVE ListedInv'
    BY <1>1, <1>7, ClientReqOrderFacts
<1>8. LinkStep \/ WriteOrder \/ (\E k \in Link : LinkBreaks(k)) \/ UNCHANGED ordersVars => ListedInv'
    BY <1>1 DEF LinkStep, NoOrderMoves, WriteOrder, LinkBreaks, ordersVars, clientChanVars, sessionVars
<1>9. ExchangeRound => ListedInv'
    BY <1>1 DEF ExchangeRound, sessionVars, clientChanVars
<1> QED
    BY <1>3, <1>4, <1>5, <1>6, <1>7, <1>8, <1>9, LeaversConnect DEF OrdersNext

\* The types of the variables that are not those of the link.
OwnTypes ==
    /\ session \in [Conns -> {"none", "worker", "left"}]
    /\ user_id \in [Conns -> UserIds \cup {0}]
    /\ listed \subseteq Conns
    /\ client_chan \in Seq(ClientMessage)
    /\ client_overflowed \in BOOLEAN
    /\ order \in Seq([by : Conns, user_id : UserIds])
    /\ lost \subseteq Order
    /\ pending \in Seq(Order)
    /\ answers \in [Order -> 0..MaxRsp]
    /\ wire_down \in Seq(ClientMessage)
    /\ got \in [Conns -> Seq([order : Order, rsp_cnt : 1..MaxRsp])]

LEMMA PushTypes ==
    ASSUME OrdersTypeOK, NEW m \in ClientMessage, Push(m)
    PROVE  client_chan' \in Seq(ClientMessage) /\ client_overflowed' \in BOOLEAN
<1>1. client_chan' = ClientPushed(m)
      /\ client_overflowed' = (client_overflowed \/ Len(client_chan) >= ChanCapacity)
    BY DEF Push
<1>2. client_chan' \in Seq(ClientMessage)
    BY <1>1, ClientPushFacts DEF OrdersTypeOK
<1> QED
    BY <1>1, <1>2 DEF OrdersTypeOK

LEMMA TypesChanRsp ==
    ASSUME OrdersTypeOK, ClientChanRsp
    PROVE  OwnTypes'
<1>1. /\ client_chan # <<>> /\ Head(client_chan).type = "RSP_ORDER"
      /\ client_chan' = Tail(client_chan)
    BY DEF ClientChanRsp, ClientReading
<1>2. client_chan' \in Seq(ClientMessage) /\ Head(client_chan) \in ClientMessage
    BY <1>1, ClientReadFacts DEF OrdersTypeOK
<1>3. PICK r \in ClientMessage : r = Head(client_chan)
    BY <1>2
<1>4. r.order \in Order /\ r.rsp_cnt \in 1..MaxRsp
    BY <1>1, <1>3, ClientMessageFacts
<1> DEFINE e == [order |-> r.order, rsp_cnt |-> r.rsp_cnt]
<1>5. e \in [order : Order, rsp_cnt : 1..MaxRsp]
    BY <1>4
<1>6. \/ got' = [c \in Conns |-> IF c \in Targets(r.order) THEN Append(got[c], e) ELSE got[c]]
      \/ UNCHANGED got
    BY <1>3 DEF ClientChanRsp
<1> HIDE DEF e
<1>7. ASSUME NEW c \in Conns
      PROVE  /\ got[c] \in Seq([order : Order, rsp_cnt : 1..MaxRsp])
             /\ Append(got[c], e) \in Seq([order : Order, rsp_cnt : 1..MaxRsp])
    <2>1. got[c] \in Seq([order : Order, rsp_cnt : 1..MaxRsp])
        BY DEF OrdersTypeOK
    <2> QED
        BY <1>5, <2>1, AppendFacts
<1>8. got' \in [Conns -> Seq([order : Order, rsp_cnt : 1..MaxRsp])]
    BY <1>6, <1>7 DEF OrdersTypeOK
<1>9. UNCHANGED <<session, user_id, listed, client_overflowed, order, lost, pending, answers,
                  wire_down>>
    BY DEF ClientChanRsp, sessionVars, orderVars, wireVars
<1> QED
    BY <1>2, <1>8, <1>9 DEF OrdersTypeOK, OwnTypes

LEMMA TypesLinkBreaks ==
    ASSUME OrdersTypeOK, DownInv, NEW k \in Link, LinkBreaks(k)
    PROVE  OwnTypes'
<1>1. /\ pending' = <<>> /\ wire_down' = <<>>
      /\ lost' = lost \cup ToSet(pending) \cup {wire_down[i].order : i \in DOMAIN wire_down}
      /\ UNCHANGED <<session, user_id, listed, client_chan, client_overflowed, order, answers, got>>
    BY DEF LinkBreaks, sessionVars, clientChanVars
<1>2. ToSet(pending) \subseteq Order
    BY OrdersTyping DEF ToSet
<1>3. \A i \in DOMAIN wire_down : wire_down[i].order \in Order
    BY OrdersTyping, ClientMessageFacts DEF DownInv
<1>4. lost' \subseteq Order
    BY <1>1, <1>2, <1>3 DEF OrdersTypeOK
<1>5. pending' \in Seq(Order) /\ wire_down' \in Seq(ClientMessage)
    BY <1>1, EmptySeq
<1> QED
    BY <1>1, <1>4, <1>5 DEF OrdersTypeOK, OwnTypes

LEMMA TypesStep ==
    ASSUME OrdersTypeOK, UpInv, DownInv, [OrdersNext]_ordersVars
    PROVE  OwnTypes'
<1>1. ASSUME NEW c \in Conns, NEW u \in LoginIds[c], OnWorkerAddCtx(c, u) PROVE OwnTypes'
    <2>1. [type |-> "ADD", ctx |-> c] \in ClientMessage /\ u \in UserIds
        BY ClientMessageFacts, OrdersAssumption
    <2>2. client_chan' \in Seq(ClientMessage) /\ client_overflowed' \in BOOLEAN
        BY <1>1, <2>1, PushTypes DEF OnWorkerAddCtx
    <2>3. /\ session' = [session EXCEPT ![c] = "worker"]
          /\ user_id' = [user_id EXCEPT ![c] = u]
          /\ UNCHANGED <<listed, order, lost, pending, answers, wire_down, got>>
        BY <1>1 DEF OnWorkerAddCtx, orderVars, wireVars
    <2> QED
        BY <2>1, <2>2, <2>3 DEF OrdersTypeOK, OwnTypes
<1>2. ASSUME NEW c \in Conns, OnWorkerClose(c) PROVE OwnTypes'
    <2>1. [type |-> "DEL", ctx |-> c] \in ClientMessage
        BY ClientMessageFacts
    <2>2. client_chan' \in Seq(ClientMessage) /\ client_overflowed' \in BOOLEAN
        BY <1>2, <2>1, PushTypes DEF OnWorkerClose
    <2>3. /\ session' = [session EXCEPT ![c] = "left"]
          /\ UNCHANGED <<user_id, listed, order, lost, pending, answers, wire_down, got>>
        BY <1>2 DEF OnWorkerClose, orderVars, wireVars
    <2> QED
        BY <2>2, <2>3 DEF OrdersTypeOK, OwnTypes
<1>3. ASSUME NEW c \in Senders, NEW u \in UserIds, ClientReqOrder(c, u) PROVE OwnTypes'
    BY <1>3, ClientReqOrderFacts DEF OrdersTypeOK, OwnTypes
<1>4. LinkStep \/ UNCHANGED ordersVars => OwnTypes'
    BY DEF LinkStep, NoOrderMoves, ordersVars, sessionVars, clientChanVars, orderVars, wireVars,
           OrdersTypeOK, OwnTypes
<1>5. WriteOrder => OwnTypes'
    <2> SUFFICES ASSUME WriteOrder PROVE OwnTypes'
        OBVIOUS
    <2>1. PICK o \in Order : o = upstream_chan[1].order
        BY WriteOrderFacts, OrdersTyping
    <2>2. Append(pending, o) \in Seq(Order) /\ lost \cup {o} \subseteq Order
        <3>1. pending \in Seq(Order) /\ lost \subseteq Order
            BY DEF OrdersTypeOK
        <3> QED
            BY <3>1, AppendFacts
    <2>3. pending' \in Seq(Order) /\ lost' \subseteq Order
        BY <2>1, <2>2, WriteOrderFacts DEF OrdersTypeOK
    <2>4. UNCHANGED <<session, user_id, listed, client_chan, client_overflowed, order,
                      answers, wire_down, got>>
        BY WriteOrderFacts
    <2> QED
        BY <2>3, <2>4 DEF OrdersTypeOK, OwnTypes
<1>6. UpstreamRspOrder => OwnTypes'
    <2> SUFFICES ASSUME UpstreamRspOrder PROVE OwnTypes'
        OBVIOUS
    <2>1. client_chan' \in Seq(ClientMessage)
        BY RspOrderFacts, ClientPushFacts DEF OrdersTypeOK
    <2> QED
        BY <2>1, RspOrderFacts DEF OrdersTypeOK, OwnTypes
<1>7. ClientChanAdd \/ ClientChanDel => OwnTypes'
    <2> SUFFICES ASSUME ClientChanAdd \/ ClientChanDel PROVE OwnTypes'
        OBVIOUS
    <2>1. /\ client_chan # <<>> /\ client_chan' = Tail(client_chan)
          /\ Head(client_chan).type # "RSP_ORDER"
          /\ UNCHANGED <<session, user_id, client_overflowed, order, lost, pending, answers,
                         wire_down, got>>
        BY DEF ClientChanAdd, ClientChanDel, ClientReading, orderVars, wireVars
    <2>2. client_chan' \in Seq(ClientMessage) /\ Head(client_chan).ctx \in Conns
        BY <2>1, ClientReadFacts, ClientMessageFacts DEF OrdersTypeOK
    <2>3. listed' \subseteq Conns
        BY <2>2 DEF ClientChanAdd, ClientChanDel, Linked, OrdersTypeOK
    <2> QED
        BY <2>1, <2>2, <2>3 DEF OrdersTypeOK, OwnTypes
<1>8. ExchangeRound => OwnTypes'
    <2> SUFFICES ASSUME ExchangeRound PROVE OwnTypes'
        OBVIOUS
    <2>1. wire_down \o Answers \in Seq(ClientMessage)
        BY ExchangeRoundFacts, ConcatFacts DEF OrdersTypeOK
    <2>2. wire_down' \in Seq(ClientMessage)
        BY <2>1, ExchangeRoundFacts
    <2> QED
        BY <2>2, ExchangeRoundFacts DEF OrdersTypeOK, OwnTypes
<1> QED
    BY <1>1, <1>2, <1>3, <1>4, <1>5, <1>6, <1>7, <1>8, TypesChanRsp, TypesLinkBreaks, LeaversConnect DEF OrdersNext

LEMMA InitOrdersInv == OrdersInit => OrdersInv
<1> SUFFICES ASSUME OrdersInit PROVE OrdersInv
    OBVIOUS
<1>1. TypeOK /\ upstream_chan = <<>>
    BY InitInv DEF OrdersInit, Inv, Init
<1>2. Waiting = {}
    BY <1>1 DEF Waiting
<1>3. OrdersTypeOK
    <2>1. /\ [c \in Conns |-> "none"] \in [Conns -> {"none", "worker", "left"}]
          /\ [c \in Conns |-> 0] \in [Conns -> UserIds \cup {0}]
          /\ [o \in Order |-> 0] \in [Order -> 0..MaxRsp]
          /\ [c \in Conns |-> <<>>] \in [Conns -> Seq([order : Order, rsp_cnt : 1..MaxRsp])]
        BY OrdersAssumption, EmptySeq
    <2>2. /\ client_chan \in Seq(ClientMessage) /\ wire_down \in Seq(ClientMessage)
          /\ order \in Seq([by : Conns, user_id : UserIds]) /\ pending \in Seq(Order)
        BY EmptySeq DEF OrdersInit
    <2>3. listed \subseteq Conns /\ lost \subseteq Order /\ client_overflowed \in BOOLEAN
        BY DEF OrdersInit
    <2> QED
        BY <1>1, <2>1, <2>2, <2>3 DEF OrdersTypeOK, OrdersInit
<1>4. UpInv
    BY <1>2, OrdersAssumption DEF OrdersInit, UpInv, OrdersInOrder, SentInv, ExchangeInv
<1>5. DownInv /\ ListedInv
    BY DEF OrdersInit, DownInv, ListedInv
<1> QED
    BY <1>3, <1>4, <1>5 DEF OrdersInv

LEMMA StepKeepsOrdersInv == Inv /\ OrdersInv /\ [OrdersNext]_ordersVars => OrdersInv'
<1> SUFFICES ASSUME Inv, OrdersInv, [OrdersNext]_ordersVars PROVE OrdersInv'
    OBVIOUS
<1>1. TypeOK'
    <2>1. OrdersSent
        BY DEF OrdersInv, OrdersTypeOK, OrdersSent
    <2> QED
        BY <2>1, StepIsLinkStep, StepKeepsInv DEF Inv
<1>2. OrdersTypeOK'
    BY <1>1, TypesStep DEF OrdersInv, OrdersTypeOK, OwnTypes
<1> QED
    BY <1>2, UpStep, DownStep, ListedStep DEF OrdersInv

LEMMA OrdersInvHolds == OrdersSpec => [](Inv /\ OrdersInv)
<1>1. OrdersInit => Inv /\ OrdersInv
    BY InitInv, InitOrdersInv DEF OrdersInit
<1>2. Inv /\ OrdersInv /\ [OrdersNext]_ordersVars => (Inv /\ OrdersInv)'
    <2>1. OrdersInv => OrdersSent
        BY DEF OrdersInv, OrdersTypeOK, OrdersSent
    <2> QED
        BY <2>1, StepIsLinkStep, StepKeepsInv, StepKeepsOrdersInv
<1> QED
    BY <1>1, <1>2, PTL DEF OrdersSpec

\* Every variable of the way of an order keeps its type; above all the exchange
\* never answers an order more than MaxRsp times (up_on_timer of the exchange,
\* across reconnects).
THEOREM OrdersTypeCorrect == OrdersSpec => []OrdersTypeOK
<1>1. OrdersInv => OrdersTypeOK
    BY DEF OrdersInv
<1> QED
    BY <1>1, OrdersInvHolds, PTL

\* An order is never in two places or overtaken on its way to the exchange
\* (client_handle_message, upstream_chan_routine, on_upstream_close).
THEOREM OrdersKeepOrder == OrdersSpec => []OrdersInOrder
<1>1. OrdersInv => OrdersInOrder
    BY DEF OrdersInv, UpInv
<1> QED
    BY <1>1, OrdersInvHolds, PTL

-----------------------------------------------------------------------------
(* The server as a gateway.                                                 *)

Served == [c \in Conns |-> IF c \in listed THEN user_id[c] ELSE -1]
UserOf == [o \in DOMAIN order |-> order[o].user_id]
Owed == [o \in Order |-> OnTheWay(o)]

\* m is response n to order o.
IsRsp(m, o, n) == m.type = "RSP_ORDER" /\ m.order = o /\ m.rsp_cnt = n

LEMMA OnTheWayOf ==
    ASSUME NEW W, NEW C, NEW o, NEW n
    PROVE  n \in {r.rsp_cnt : r \in {r \in ToSet(W) \cup ToSet(C) :
                                        r.type = "RSP_ORDER" /\ r.order = o}}
           <=> \/ \E i \in DOMAIN W : IsRsp(W[i], o, n)
               \/ \E i \in DOMAIN C : IsRsp(C[i], o, n)
BY DEF ToSet, IsRsp

LEMMA OnTheWayIs ==
    ASSUME NEW o, NEW n
    PROVE  /\ n \in OnTheWay(o) <=> \/ \E i \in DOMAIN wire_down : IsRsp(wire_down[i], o, n)
                                    \/ \E i \in DOMAIN client_chan : IsRsp(client_chan[i], o, n)
           /\ n \in OnTheWay(o)' <=> \/ \E i \in DOMAIN wire_down' : IsRsp(wire_down'[i], o, n)
                                     \/ \E i \in DOMAIN client_chan' : IsRsp(client_chan'[i], o, n)
BY OnTheWayOf DEF OnTheWay

LEMMA OwedSame ==
    ASSUME UNCHANGED wire_down,
           \A i \in DOMAIN client_chan' : client_chan'[i].type = "RSP_ORDER" =>
               \E j \in DOMAIN client_chan : client_chan'[i] = client_chan[j],
           \A j \in DOMAIN client_chan : client_chan[j].type = "RSP_ORDER" =>
               \E i \in DOMAIN client_chan' : client_chan'[i] = client_chan[j]
    PROVE  Owed' = Owed
<1>1. ASSUME NEW o \in Order PROVE OnTheWay(o)' = OnTheWay(o)
    <2>1. ASSUME NEW n PROVE n \in OnTheWay(o)' <=> n \in OnTheWay(o)
        BY OnTheWayIs DEF IsRsp
    <2> QED
        BY <2>1
<1> QED
    BY <1>1 DEF Owed

LEMMA OwedPush ==
    ASSUME OrdersTypeOK, NEW m \in ClientMessage, m.type # "RSP_ORDER", Push(m),
           UNCHANGED wire_down
    PROVE  Owed' = Owed
<1>1. client_chan' = client_chan \/ client_chan' = Append(client_chan, m)
    BY DEF Push, ClientPushed
<1>2. PICK C \in Nat : C = Len(client_chan) /\ DOMAIN client_chan = 1..C
    BY OrdersTyping
<1>3. CASE client_chan' = Append(client_chan, m)
    <2>1. /\ DOMAIN client_chan' = 1..(C + 1)
          /\ \A i \in 1..C : client_chan'[i] = client_chan[i]
          /\ client_chan'[C + 1] = m
        <3>1. client_chan \in Seq(ClientMessage)
            BY DEF OrdersTypeOK
        <3> QED
            BY <1>2, <1>3, <3>1, AppendFacts
    <2>2. \A i \in DOMAIN client_chan' : i \in 1..C \/ i = C + 1
        BY <2>1
    <2>3. \A i \in 1..C : i \in DOMAIN client_chan'
        BY <2>1
    <2> QED
        BY <1>2, <2>1, <2>2, <2>3, OwedSame
<1>4. CASE client_chan' = client_chan
    BY <1>4, OwedSame
<1> QED
    BY <1>1, <1>3, <1>4

LEMMA OwedRead ==
    ASSUME OrdersTypeOK, client_chan # <<>>, Head(client_chan).type # "RSP_ORDER",
           client_chan' = Tail(client_chan), UNCHANGED wire_down
    PROVE  Owed' = Owed
<1>1. /\ Head(client_chan) = client_chan[1]
      /\ \A i \in DOMAIN client_chan' :
            i + 1 \in DOMAIN client_chan /\ client_chan'[i] = client_chan[i + 1]
      /\ \A i \in DOMAIN client_chan : i # 1 =>
            i - 1 \in DOMAIN client_chan' /\ client_chan'[i - 1] = client_chan[i]
    BY ClientReadFacts DEF OrdersTypeOK
<1> QED
    BY <1>1, OwedSame

\* A session comes: served once the client channel thread lists it.
LEMMA GatewayChanAdd ==
    ASSUME OrdersTypeOK, ClientChanAdd
    PROVE  \/ \E c \in Conns, u \in UserIds : TheGateway!Serve(c, u)
           \/ UNCHANGED TheGateway!gatewayVars
<1>1. /\ client_chan # <<>> /\ Head(client_chan).type = "ADD"
      /\ client_chan' = Tail(client_chan) /\ listed' = Linked(Head(client_chan).ctx)
      /\ UNCHANGED <<user_id, order, answers, wire_down, got>>
    BY DEF ClientChanAdd, ClientReading, orderVars, wireVars
<1>2. PICK c \in Conns : c = Head(client_chan).ctx
    BY <1>1, ClientReadFacts, ClientMessageFacts DEF OrdersTypeOK
<1>3. Owed' = Owed
    BY <1>1, OwedRead
<1>4. CASE user_id[c] = 0 \/ c \in listed
    <2>1. listed' = listed
        BY <1>1, <1>2, <1>4 DEF Linked
    <2> QED
        BY <1>1, <1>3, <2>1 DEF TheGateway!gatewayVars, Owed
<1>5. CASE user_id[c] # 0 /\ c \notin listed
    <2>1. listed' = listed \cup {c}
        BY <1>1, <1>2, <1>5 DEF Linked
    <2>2. PICK u \in UserIds : u = user_id[c]
        BY <1>5 DEF OrdersTypeOK
    <2>3. Served[c] = -1 /\ Served' = [Served EXCEPT ![c] = u]
        BY <1>1, <1>5, <2>1, <2>2 DEF Served
    <2>4. UserOf' = UserOf
        BY <1>1 DEF UserOf
    <2>5. TheGateway!Serve(c, u)
        BY <1>1, <1>3, <2>3, <2>4 DEF TheGateway!Serve, Served, UserOf, Owed
    <2> QED
        BY <2>5
<1> QED
    BY <1>4, <1>5

LEMMA GatewayChanDel ==
    ASSUME OrdersTypeOK, ClientChanDel
    PROVE  (\E c \in Conns : TheGateway!Leave(c)) \/ UNCHANGED TheGateway!gatewayVars
<1>1. /\ client_chan # <<>> /\ Head(client_chan).type = "DEL"
      /\ client_chan' = Tail(client_chan)
      /\ listed' \in {listed, listed \ {Head(client_chan).ctx}}
      /\ UNCHANGED <<user_id, order, answers, wire_down, got>>
    BY DEF ClientChanDel, ClientReading, orderVars, wireVars
<1>2. PICK c \in Conns : c = Head(client_chan).ctx
    BY <1>1, ClientReadFacts, ClientMessageFacts DEF OrdersTypeOK
<1>3. Owed' = Owed
    BY <1>1, OwedRead
<1>4. CASE listed' = listed
    BY <1>1, <1>3, <1>4 DEF TheGateway!gatewayVars, Owed
<1>5. CASE listed' # listed
    <2>1. listed' = listed \ {c} /\ c \in listed
        BY <1>1, <1>2, <1>5
    <2>2. user_id[c] # -1
        BY OrdersAssumption DEF OrdersTypeOK
    <2>3. Served[c] # -1 /\ Served' = [Served EXCEPT ![c] = -1]
        BY <1>1, <2>1, <2>2 DEF Served
    <2>4. TheGateway!Leave(c)
        BY <1>1, <1>3, <2>3 DEF TheGateway!Leave, Served, Owed
    <2> QED
        BY <2>4
<1> QED
    BY <1>4, <1>5

\* A response reaches the sessions of its user: it is the oldest one of its
\* order still on the way, and is on the way only once.  One of an order that
\* names a user outside the table is given up.
LEMMA GatewayChanRsp ==
    ASSUME OrdersTypeOK, DownInv, ClientChanRsp
    PROVE  (\E o \in Order : TheGateway!Relay(o)) \/ TheGateway!GiveUp
<1>1. /\ client_chan # <<>> /\ Head(client_chan).type = "RSP_ORDER"
      /\ client_chan' = Tail(client_chan)
      /\ UNCHANGED <<user_id, listed, order, answers, wire_down>>
    BY DEF ClientChanRsp, ClientReading, sessionVars, orderVars, wireVars
<1>2. /\ 1 \in DOMAIN client_chan /\ Head(client_chan) = client_chan[1]
      /\ \A i \in DOMAIN client_chan' :
            /\ i \in Nat /\ 0 < i /\ i + 1 \in DOMAIN client_chan
            /\ client_chan'[i] = client_chan[i + 1]
      /\ \A i \in DOMAIN client_chan : i # 1 =>
            i - 1 \in DOMAIN client_chan' /\ client_chan'[i - 1] = client_chan[i]
    BY <1>1, ClientReadFacts DEF OrdersTypeOK
<1>3. PICK r \in ClientMessage : r = client_chan[1]
    BY <1>2, OrdersTyping
<1>4. PICK o \in Order : o = r.order
    BY <1>1, <1>2, <1>3, ClientMessageFacts
<1>5. PICK n \in Nat : n = r.rsp_cnt
    BY <1>1, <1>2, <1>3, ClientMessageFacts
<1>6. IsRsp(client_chan[1], o, n)
    BY <1>1, <1>2, <1>3, <1>4, <1>5 DEF IsRsp
<1>7. o \in DOMAIN order /\ order[o].user_id \in UserIds
    <2>1. o \in DOMAIN order
        BY <1>1, <1>2, <1>3, <1>4 DEF DownInv
    <2>2. order[o] \in [by : Conns, user_id : UserIds]
        BY <2>1, OrdersTyping, ElementOfSeq DEF OrdersTypeOK
    <2> QED
        BY <2>1, <2>2
<1>8. \A i \in DOMAIN client_chan : i \in Nat /\ (i # 1 => 1 < i)
    BY OrdersTyping
\* Any other response to the order is a later one.
<1>9. /\ \A i \in DOMAIN client_chan : \A k : i # 1 /\ IsRsp(client_chan[i], o, k) => n < k
      /\ \A i \in DOMAIN wire_down : \A k : IsRsp(wire_down[i], o, k) => n < k
    BY <1>2, <1>6, <1>8 DEF DownInv, Before, IsRsp
<1>10. n \in OnTheWay(o)
    BY <1>2, <1>6, OnTheWayIs
<1>11. \A k \in OnTheWay(o) : n <= k /\ (n = k \/ n < k)
    <2> TAKE k \in OnTheWay(o)
    <2>1. \/ \E i \in DOMAIN wire_down : IsRsp(wire_down[i], o, k)
          \/ \E i \in DOMAIN client_chan : IsRsp(client_chan[i], o, k)
        BY OnTheWayIs
    <2>2. k = n \/ n < k
        BY <1>6, <1>9, <2>1 DEF IsRsp
    <2>3. k \in Nat
        BY <2>1, OrdersTyping, ClientMessageFacts DEF IsRsp
    <2> QED
        BY <2>2, <2>3
<1>12. OnTheWay(o)' = OnTheWay(o) \ {n}
    <2>1. ASSUME NEW k, k \in OnTheWay(o)' PROVE k \in OnTheWay(o) /\ n < k
        <3>1. CASE \E i \in DOMAIN wire_down : IsRsp(wire_down[i], o, k)
            BY <1>9, <3>1, OnTheWayIs
        <3>2. ASSUME NEW i \in DOMAIN client_chan', IsRsp(client_chan'[i], o, k)
              PROVE  k \in OnTheWay(o) /\ n < k
            <4>1. i + 1 \in DOMAIN client_chan /\ i + 1 # 1 /\ IsRsp(client_chan[i + 1], o, k)
                BY <1>2, <3>2
            <4> QED
                BY <1>9, <4>1, OnTheWayIs
        <3> QED
            BY <1>1, <2>1, <3>1, <3>2, OnTheWayIs
    <2>2. ASSUME NEW k \in OnTheWay(o), k # n PROVE k \in OnTheWay(o)'
        <3>1. CASE \E i \in DOMAIN wire_down : IsRsp(wire_down[i], o, k)
            BY <1>1, <3>1, OnTheWayIs
        <3>2. ASSUME NEW i \in DOMAIN client_chan, IsRsp(client_chan[i], o, k)
              PROVE  k \in OnTheWay(o)'
            <4>1. i # 1
                BY <1>6, <2>2, <3>2 DEF IsRsp
            <4>2. i - 1 \in DOMAIN client_chan' /\ IsRsp(client_chan'[i - 1], o, k)
                BY <1>2, <3>2, <4>1
            <4> QED
                BY <4>2, OnTheWayIs
        <3> QED
            BY <3>1, <3>2, OnTheWayIs
    <2> QED
        BY <2>1, <2>2, <1>5
<1>13. ASSUME NEW p \in Order, p # o PROVE OnTheWay(p)' = OnTheWay(p)
    <2>1. ASSUME NEW k, k \in OnTheWay(p)' PROVE k \in OnTheWay(p)
        BY <1>1, <1>2, <2>1, OnTheWayIs
    <2>2. ASSUME NEW k \in OnTheWay(p) PROVE k \in OnTheWay(p)'
        <3>1. CASE \E i \in DOMAIN wire_down : IsRsp(wire_down[i], p, k)
            BY <1>1, <3>1, OnTheWayIs
        <3>2. ASSUME NEW i \in DOMAIN client_chan, IsRsp(client_chan[i], p, k)
              PROVE  k \in OnTheWay(p)'
            <4>1. i # 1
                BY <1>6, <1>13, <3>2 DEF IsRsp
            <4>2. i - 1 \in DOMAIN client_chan' /\ IsRsp(client_chan'[i - 1], p, k)
                BY <1>2, <3>2, <4>1
            <4> QED
                BY <4>2, OnTheWayIs
        <3> QED
            BY <3>1, <3>2, OnTheWayIs
    <2> QED
        BY <2>1, <2>2
<1>14. Owed' = [Owed EXCEPT ![o] = @ \ {n}]
    BY <1>12, <1>13 DEF Owed
<1>15. CASE InTable(order[o].user_id)
    <2>1. got' = [c \in Conns |-> IF c \in Targets(o)
                                  THEN Append(got[c], [order |-> o, rsp_cnt |-> n])
                                  ELSE got[c]]
        BY <1>2, <1>3, <1>4, <1>5, <1>15 DEF ClientChanRsp
    <2>2. UserOf[o] = order[o].user_id /\ UserOf[o] # -1
        BY <1>7, OrdersAssumption DEF UserOf
    <2>3. \A c \in Conns : c \in Targets(o) <=> Served[c] = UserOf[o]
        BY <2>2 DEF Targets, Served, OrdersTypeOK
    <2>4. got' = [c \in Conns |-> IF Served[c] = UserOf[o]
                                  THEN Append(got[c], [order |-> o, rsp_cnt |-> n])
                                  ELSE got[c]]
        BY <2>1, <2>3
    <2>5. Served' = Served /\ UserOf' = UserOf
        BY <1>1 DEF Served, UserOf
    <2>6. n \in Owed[o] /\ \A k \in Owed[o] : n <= k
        BY <1>10, <1>11 DEF Owed
    <2>7. TheGateway!Relay(o)
        BY <1>1, <1>14, <2>4, <2>5, <2>6 DEF TheGateway!Relay, Served, UserOf, Owed
    <2> QED
        BY <2>7
<1>16. CASE ~InTable(order[o].user_id)
    <2>1. UNCHANGED got
        BY <1>2, <1>3, <1>4, <1>16 DEF ClientChanRsp
    <2>2. Served' = Served /\ UserOf' = UserOf
        BY <1>1 DEF Served, UserOf
    <2>3. DOMAIN Owed' = Order /\ \A p \in Order : Owed'[p] \subseteq Owed[p]
        BY <1>14 DEF Owed
    <2> QED
        BY <1>1, <2>1, <2>2, <2>3 DEF TheGateway!GiveUp, Served, UserOf, Owed
<1> QED
    BY <1>15, <1>16

\* A round of the exchange gives every order on its list one more response.
LEMMA GatewayExchangeRound ==
    ASSUME OrdersTypeOK, UpInv, DownInv, ExchangeRound
    PROVE  TheGateway!Answer(ToSet(pending))
<1>1. PICK L \in Nat : L = Len(pending) /\ DOMAIN pending = 1..L
    BY OrdersTyping
<1>2. PICK W \in Nat : W = Len(wire_down) /\ DOMAIN wire_down = 1..W
    BY OrdersTyping
<1>3. \A o \in ToSet(pending) : \E i \in 1..L : pending[i] = o
    BY <1>1 DEF ToSet
<1>4. \A i \in 1..L : pending[i] \in ToSet(pending)
    BY <1>1 DEF ToSet
<1>5. UNCHANGED <<listed, user_id, client_chan, order, got>>
    BY ExchangeRoundFacts
<1>6. \A o \in ToSet(pending) : o \in DOMAIN order /\ o \in Order /\ answers[o] < MaxRsp
    BY <1>1, <1>3, OrdersTyping DEF UpInv, SentInv, ExchangeInv
<1>7. answers' = [o \in Order |-> IF o \in ToSet(pending) THEN answers[o] + 1 ELSE answers[o]]
    <2>1. answers' = [o \in Order |-> answers[o] + (IF o \in ToSet(pending) THEN 1 ELSE 0)]
        BY DEF ExchangeRound
    <2>2. \A o \in Order : answers[o] + 0 = answers[o]
        BY OrdersTyping
    <2> QED
        BY <2>1, <2>2
<1>8. \A i \in 1..W : wire_down'[i] = wire_down[i]
    BY <1>2, RoundOnLink
<1>9. /\ \A i \in 1..W : i \in DOMAIN wire_down'
      /\ \A i \in 1..L : W + i \in DOMAIN wire_down'
      /\ \A j \in DOMAIN wire_down' : j \in 1..W \/ \E i \in 1..L : j = W + i
    BY <1>1, <1>2, RoundOnLink
<1>10. \A i \in 1..L : /\ wire_down'[W + i].type = "RSP_ORDER"
                       /\ wire_down'[W + i].order = pending[i]
                       /\ wire_down'[W + i].rsp_cnt = answers[pending[i]] + 1
    BY <1>1, <1>2, RoundOnLink
<1>11. ASSUME NEW o \in Order, NEW n
       PROVE  n \in OnTheWay(o)' <=> n \in OnTheWay(o) \/ (o \in ToSet(pending) /\ n = answers[o] + 1)
    <2>1. ASSUME NEW i \in 1..L
          PROVE  IsRsp(wire_down'[W + i], o, n) <=> pending[i] = o /\ n = answers[o] + 1
        BY <1>10 DEF IsRsp
    <2>2. (\E j \in DOMAIN wire_down' : IsRsp(wire_down'[j], o, n))
             <=> \/ \E j \in DOMAIN wire_down : IsRsp(wire_down[j], o, n)
                 \/ \E i \in 1..L : IsRsp(wire_down'[W + i], o, n)
        BY <1>2, <1>8, <1>9
    <2>3. (\E i \in 1..L : IsRsp(wire_down'[W + i], o, n))
             <=> o \in ToSet(pending) /\ n = answers[o] + 1
        BY <1>3, <1>4, <2>1
    <2> QED
        BY <1>5, <2>2, <2>3, OnTheWayIs
<1>12. ASSUME NEW o \in Order
       PROVE  OnTheWay(o)' = IF o \in ToSet(pending) THEN OnTheWay(o) \cup {answers[o] + 1}
                                                     ELSE OnTheWay(o)
    <2>1. CASE o \in ToSet(pending)
        <3>1. \A n : n \in OnTheWay(o)' <=> n \in OnTheWay(o) \cup {answers[o] + 1}
            BY <1>11, <2>1
        <3> QED
            BY <2>1, <3>1
    <2>2. CASE o \notin ToSet(pending)
        <3>1. \A n : n \in OnTheWay(o)' <=> n \in OnTheWay(o)
            BY <1>11, <2>2
        <3> QED
            BY <2>2, <3>1
    <2> QED
        BY <2>1, <2>2
<1>13. Owed' = [o \in Order |-> IF o \in ToSet(pending) THEN Owed[o] \cup {answers[o] + 1}
                                                        ELSE Owed[o]]
    BY <1>12 DEF Owed
<1>14. Served' = Served /\ UserOf' = UserOf
    BY <1>5 DEF Served, UserOf
<1>15. \A o \in ToSet(pending) : o \in DOMAIN UserOf
    BY <1>6 DEF UserOf
<1> QED
    BY <1>5, <1>6, <1>7, <1>13, <1>14, <1>15 DEF TheGateway!Answer, Served, UserOf, Owed

\* Responses that the loop drops in front of a full channel or with the link.
LEMMA GatewayGiveUp ==
    ASSUME OrdersTypeOK, UpstreamRspOrder \/ \E k \in Link : LinkBreaks(k)
    PROVE  TheGateway!GiveUp
<1>1. UNCHANGED <<listed, user_id, order, answers, got>>
    BY DEF UpstreamRspOrder, LinkBreaks, sessionVars, orderVars
<1>2. ASSUME NEW o \in Order, NEW n \in OnTheWay(o)' PROVE n \in OnTheWay(o)
    <2>1. CASE UpstreamRspOrder
        <3>1. /\ \A i \in DOMAIN wire_down' :
                    i + 1 \in DOMAIN wire_down /\ wire_down'[i] = wire_down[i + 1]
              /\ 1 \in DOMAIN wire_down /\ wire_down[1] \in ClientMessage
              /\ client_chan' = ClientPushed(wire_down[1])
            BY <2>1, RspOrderFacts
        <3>2. \A i \in DOMAIN client_chan' :
                 \/ i \in DOMAIN client_chan /\ client_chan'[i] = client_chan[i]
                 \/ client_chan'[i] = wire_down[1]
            BY <3>1, ClientPushFacts DEF OrdersTypeOK
        <3> QED
            BY <3>1, <3>2, OnTheWayIs
    <2>2. CASE \E k \in Link : LinkBreaks(k)
        <3>1. wire_down' = <<>> /\ client_chan' = client_chan
            BY <2>2 DEF LinkBreaks, clientChanVars
        <3>2. DOMAIN wire_down' = {}
            BY <3>1
        <3> QED
            BY <3>1, <3>2, OnTheWayIs
    <2> QED
        BY <2>1, <2>2
<1>3. DOMAIN Owed' = Order /\ \A o \in Order : Owed'[o] \subseteq Owed[o]
    BY <1>2 DEF Owed
<1>4. Served' = Served /\ UserOf' = UserOf
    BY <1>1 DEF Served, UserOf
<1> QED
    BY <1>1, <1>3, <1>4 DEF TheGateway!GiveUp, Served, UserOf, Owed

LEMMA GatewayReqOrder ==
    ASSUME OrdersTypeOK, NEW c \in Senders, NEW u \in UserIds, ClientReqOrder(c, u)
    PROVE  TheGateway!Submit(u)
<1>1. PICK L \in Nat : L = Len(order) /\ DOMAIN order = 1..L
    BY OrdersTyping
<1>2. /\ DOMAIN order' = 1..(L + 1)
      /\ \A i \in 1..L : order'[i] = order[i]
      /\ order'[L + 1] = [by |-> c, user_id |-> u]
      /\ UNCHANGED <<user_id, listed, client_chan, answers, wire_down, got>>
    BY <1>1, ClientReqOrderFacts
<1>3. UserOf \in Seq(UserIds) /\ Len(UserOf) = L
    <2>1. ASSUME NEW o \in 1..L PROVE order[o].user_id \in UserIds
        <3>1. order[o] \in [by : Conns, user_id : UserIds]
            BY <1>1, ElementOfSeq DEF OrdersTypeOK
        <3> QED
            BY <3>1
    <2>2. UserOf = [o \in 1..L |-> order[o].user_id]
        BY <1>1 DEF UserOf
    <2>3. UserOf \in Seq(UserIds)
        BY <2>1, <2>2, IsASeq
    <2> QED
        BY <2>2, <2>3, LenProperties
<1>4. UserOf' = Append(UserOf, u)
    <2>1. /\ DOMAIN Append(UserOf, u) = 1..(L + 1)
          /\ \A i \in 1..L : Append(UserOf, u)[i] = UserOf[i]
          /\ Append(UserOf, u)[L + 1] = u
          /\ Append(UserOf, u) \in Seq(UserIds) /\ Len(Append(UserOf, u)) = L + 1
        BY <1>3, AppendFacts
    <2>2. UserOf' = [o \in 1..(L + 1) |-> order'[o].user_id]
        BY <1>2 DEF UserOf
    <2>3. Append(UserOf, u) = [o \in 1..(L + 1) |-> Append(UserOf, u)[o]]
        BY <2>1, LenProperties
    <2>4. ASSUME NEW o \in 1..(L + 1) PROVE order'[o].user_id = Append(UserOf, u)[o]
        <3>1. CASE o = L + 1
            BY <1>2, <2>1, <3>1
        <3>2. CASE o \in 1..L
            BY <1>1, <1>2, <2>1, <3>2 DEF UserOf
        <3>3. o = L + 1 \/ o \in 1..L
            OBVIOUS
        <3> QED
            BY <3>1, <3>2, <3>3
    <2> QED
        BY <2>2, <2>3, <2>4
<1>5. Served' = Served /\ Owed' = Owed
    BY <1>2, OwedSame DEF Served
<1> QED
    BY <1>2, <1>4, <1>5 DEF TheGateway!Submit, Served, UserOf, Owed

LEMMA GatewayStep ==
    ASSUME OrdersInv, [OrdersNext]_ordersVars
    PROVE  [TheGateway!GatewayNext]_(TheGateway!gatewayVars)
<1> USE DEF OrdersInv
<1>1. UNCHANGED <<user_id, listed, client_chan, order, answers, wire_down, got>>
         => UNCHANGED TheGateway!gatewayVars
    <2> SUFFICES ASSUME UNCHANGED <<user_id, listed, client_chan, order, answers, wire_down, got>>
                 PROVE  UNCHANGED TheGateway!gatewayVars
        OBVIOUS
    <2>1. Served' = Served /\ UserOf' = UserOf /\ Owed' = Owed
        BY OwedSame DEF Served, UserOf
    <2> QED
        BY <2>1 DEF TheGateway!gatewayVars, Served, UserOf, Owed
\* A session that is not listed may change its user id; none that is does.
<1>2. ASSUME NEW m \in ClientMessage, m.type # "RSP_ORDER", Push(m), Served' = Served,
             UNCHANGED <<order, answers, wire_down, got>>
      PROVE  UNCHANGED TheGateway!gatewayVars
    <2>1. Owed' = Owed /\ UserOf' = UserOf
        BY <1>2, OwedPush DEF UserOf
    <2> QED
        BY <1>2, <2>1 DEF TheGateway!gatewayVars, Served, UserOf, Owed
<1>3. ASSUME NEW c \in Conns, NEW u, OnWorkerAddCtx(c, u) PROVE UNCHANGED TheGateway!gatewayVars
    <2> DEFINE m == [type |-> "ADD", ctx |-> c]
    <2>1. m \in ClientMessage /\ m.type # "RSP_ORDER"
        BY ClientMessageFacts
    <2>2. /\ session[c] = "none" /\ user_id' = [user_id EXCEPT ![c] = u] /\ Push(m)
          /\ UNCHANGED <<listed, order, answers, wire_down, got>>
        BY <1>3 DEF OnWorkerAddCtx, orderVars, wireVars
    <2> HIDE DEF m
    <2>3. c \notin listed
        BY <2>2 DEF ListedInv
    <2>4. Served' = Served
        BY <2>2, <2>3 DEF Served, OrdersTypeOK
    <2> QED
        BY <1>2, <2>1, <2>2, <2>4
<1>4. ASSUME NEW c \in Conns, OnWorkerClose(c) PROVE UNCHANGED TheGateway!gatewayVars
    <2> DEFINE m == [type |-> "DEL", ctx |-> c]
    <2>1. m \in ClientMessage /\ m.type # "RSP_ORDER"
        BY ClientMessageFacts
    <2>2. Push(m) /\ UNCHANGED <<user_id, listed, order, answers, wire_down, got>>
        BY <1>4 DEF OnWorkerClose, orderVars, wireVars
    <2> HIDE DEF m
    <2>3. Served' = Served
        BY <2>2 DEF Served
    <2> QED
        BY <1>2, <2>1, <2>2, <2>3
<1>5. LinkStep \/ WriteOrder \/ UNCHANGED ordersVars => UNCHANGED TheGateway!gatewayVars
    BY <1>1 DEF LinkStep, NoOrderMoves, WriteOrder, ordersVars, sessionVars, clientChanVars, orderVars, wireVars
<1>6. ASSUME NEW c \in Senders, NEW u \in UserIds, ClientReqOrder(c, u)
      PROVE  TheGateway!GatewayNext
    BY <1>6, GatewayReqOrder DEF TheGateway!GatewayNext
<1>7. UpstreamRspOrder \/ (\E k \in Link : LinkBreaks(k)) => TheGateway!GatewayNext
    BY GatewayGiveUp DEF TheGateway!GatewayNext
<1>8. ClientChanAdd => [TheGateway!GatewayNext]_(TheGateway!gatewayVars)
    BY GatewayChanAdd DEF TheGateway!GatewayNext
<1>9. ClientChanDel => [TheGateway!GatewayNext]_(TheGateway!gatewayVars)
    BY GatewayChanDel DEF TheGateway!GatewayNext
<1>10. ClientChanRsp => TheGateway!GatewayNext
    BY GatewayChanRsp DEF TheGateway!GatewayNext
<1>11. ExchangeRound => TheGateway!GatewayNext
    <2> SUFFICES ASSUME ExchangeRound PROVE TheGateway!GatewayNext
        OBVIOUS
    <2>1. ToSet(pending) \in SUBSET Order
        BY OrdersTyping DEF ToSet
    <2> QED
        BY <2>1, GatewayExchangeRound DEF TheGateway!GatewayNext
<1> QED
    BY <1>3, <1>4, <1>5, <1>6, <1>7, <1>8, <1>9, <1>10, <1>11, LeaversConnect DEF OrdersNext

\* The channel server is a gateway: whatever the workers, both channel threads,
\* the link and the exchange do in turn, each response to an order is relayed at
\* most once, oldest first, to the sessions that are then listed with the user
\* the order names, and to nobody else (client_chan_routine); the responses to an
\* order that names a user outside the table are given up, if the process has not
\* died of the first one.
THEOREM OrdersImplementGateway == OrdersSpec => ImplementsGateway
<1>1. OrdersInit => TheGateway!GatewayInit
    <2> SUFFICES ASSUME OrdersInit PROVE TheGateway!GatewayInit
        OBVIOUS
    <2>1. Served = [c \in Conns |-> -1]
        BY DEF OrdersInit, Served
    <2>2. UserOf = <<>>
        BY DEF OrdersInit, UserOf
    <2>3. Owed = [o \in Order |-> {}]
        <3>1. ASSUME NEW o \in Order PROVE OnTheWay(o) = {}
            <4>1. ASSUME NEW n PROVE n \notin OnTheWay(o)
                BY OnTheWayIs DEF OrdersInit
            <4> QED
                BY <4>1
        <3> QED
            BY <3>1 DEF Owed
    <2> QED
        BY <2>1, <2>2, <2>3 DEF TheGateway!GatewayInit, Served, UserOf, Owed, OrdersInit
<1>2. OrdersInv /\ [OrdersNext]_ordersVars => [TheGateway!GatewayNext]_(TheGateway!gatewayVars)
    BY GatewayStep
<1> QED
    BY <1>1, <1>2, OrdersInvHolds, PTL DEF OrdersSpec, ImplementsGateway, TheGateway!GatewaySpec

=============================================================================
