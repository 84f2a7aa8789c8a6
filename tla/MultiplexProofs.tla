--------------------------- MODULE MultiplexProofs ---------------------------
(***************************************************************************)
(* server_multiplex for every number of connections, workers, orders,      *)
(* responses and link breaks, and any user ids.                            *)
(*                                                                         *)
(*   - SessionInv: who has a reference of a context, by where it is.  The  *)
(*     listener that has handed a context over may release it as late as   *)
(*     it likes, before or after the worker is done with it.               *)
(*   - OrderInv: a session that has sent an order stays with its worker    *)
(*     until it leaves, so its user id and its worker do not change.       *)
(*   - LinkInv: what is on the link of a worker is of orders whose session *)
(*     is of that worker and of the user the order names.  An order is on  *)
(*     one link and in one place, so the exchange never counts it twice.   *)
(*   - GotInv, UnaskedInv: what a session has been sent, of the exchange   *)
(*     and of clients that send responses.                                 *)
(*   - GatewayInv: the responses to an order are on a link in the order of *)
(*     their numbers, and none is ahead of the exchange; a session on its  *)
(*     way to a worker is logged in.                                       *)
(* The last part maps every step to a step of Gateway, or to none.         *)
(***************************************************************************)
EXTENDS Multiplex, SequenceTheorems, FiniteSetTheorems, TLAPS

SessionTypes ==
    /\ place \in [Conns -> {"none", "listen", "login", "handover", "worker",
                            "rejected", "left"}]
    /\ ref \in [Conns -> 0..2]
    /\ ctx \in [Conns -> {"none", "live", "freed"}]
    /\ user_id \in [Conns -> UserIds \cup {0}]
    /\ listen_closing \in Conns \cup {NoConn}
    /\ listed \subseteq Conns

\* The references that are held: the listener's until it has released the
\* context, and the one taken at the login until the worker has.
Held(c) ==
    (IF place[c] \in {"listen", "login"} \/ listen_closing = c THEN 1 ELSE 0)
    + (IF place[c] \in {"login", "handover", "worker", "rejected"} THEN 1 ELSE 0)

SessionInv ==
    /\ SessionTypes
    /\ \A c \in Conns :
          /\ ref[c] = Held(c)
          /\ ref[c] > 0 => ctx[c] = "live"
          /\ listen_closing = c => place[c] \notin {"none", "listen", "login"}
          /\ c \in listed => place[c] = "worker"

Settled(c) == place[c] \in {"worker", "left"}

OrderInv ==
    /\ order \in Seq([by : Conns, user_id : UserIds])
    /\ Len(order) <= MaxOrders
    /\ \A o \in DOMAIN order : Settled(order[o].by)

\* The orders worker w may forward: from a session of its own, and of its user.
Proper(w) ==
    {o \in DOMAIN order : /\ order[o].user_id = user_id[order[o].by]
                          /\ WorkerOf(order[o].by) = w}

UpInv(w) ==
    /\ \A i \in DOMAIN wire_up[w] :
          /\ wire_up[w][i] \in Proper(w)
          /\ answers[wire_up[w][i]] = 0
          /\ wire_up[w][i] \notin pending[w]
    /\ \A i, j \in DOMAIN wire_up[w] : i < j => wire_up[w][i] < wire_up[w][j]

PendingInv(w) == \A o \in pending[w] : o \in Proper(w) /\ answers[o] < MaxRsp

DownInv(w) == \A i \in DOMAIN wire_down[w] : wire_down[w][i].order \in Proper(w)

LinkTypes ==
    /\ link \in [Workers -> {"starting", "queued", "up", "down"}]
    /\ breaks \in 0..MaxBreak
    /\ fate \in [Order -> {"unsent", "forwarded", "dropped", "lost"}]
    /\ wire_up \in [Workers -> Seq(Order)]
    /\ pending \in [Workers -> SUBSET Order]
    /\ answers \in [Order -> 0..MaxRsp]
    /\ wire_down \in [Workers -> Seq(Response)]
    /\ crashed \in BOOLEAN

LinkInv ==
    /\ LinkTypes
    /\ \A w \in Workers : UpInv(w) /\ PendingInv(w) /\ DownInv(w)
    /\ \A o \in Order : o > Len(order) => answers[o] = 0

GotInv ==
    /\ got \in [Conns -> Seq(Response)]
    /\ \A c \in Conns : \A i \in DOMAIN got[c] :
          /\ Settled(c)
          /\ got[c][i].order \in DOMAIN order
          /\ user_id[order[got[c][i].order].by] = user_id[c]

UnaskedInv ==
    /\ unasked \in [Conns -> SUBSET [by : Conns, user_id : UserIds]]
    /\ \A c \in Conns : \A r \in unasked[c] :
          /\ Settled(c) /\ Settled(r.by)
          /\ r.user_id = user_id[c]
          /\ WorkerOf(r.by) = WorkerOf(c)

Inv == SessionInv /\ OrderInv /\ LinkInv /\ GotInv /\ UnaskedInv

-----------------------------------------------------------------------------
(* Constants and sequences.                                                 *)

LEMMA Bounds ==
    /\ NumWorker \in Nat /\ NumWorker >= 1 /\ NumUser \in Nat /\ MaxOrders \in Nat
    /\ MaxRsp \in Nat /\ MaxRsp >= 1 /\ MaxBreak \in Nat
    /\ Workers \subseteq Nat /\ Order \subseteq Nat
    /\ \A u \in UserIds \cup {0} : u \in Nat
BY NumWorkerAssumption, UserIdsAssumption, BoundsAssumption DEF Workers, Order

LEMMA WorkerIsOne == SessionTypes => \A c \in Conns : WorkerOf(c) \in Workers
<1> SUFFICES ASSUME SessionTypes, NEW c \in Conns PROVE WorkerOf(c) \in Workers
    OBVIOUS
<1>1. PICK u \in Nat : u = user_id[c]
    BY Bounds DEF SessionTypes
<1>2. PICK n \in Nat : n = NumWorker /\ n >= 1
    BY Bounds
<1>3. u % n \in 0..(n - 1)
    BY <1>2
<1> QED
    BY <1>1, <1>2, <1>3 DEF WorkerOf, Workers

LEMMA TailFacts ==
    ASSUME NEW S, NEW s \in Seq(S), s # <<>>
    PROVE  /\ 1 \in DOMAIN s /\ Head(s) = s[1] /\ Head(s) \in S
           /\ Tail(s) \in Seq(S)
           /\ \A i \in DOMAIN Tail(s) : i \in Nat /\ i + 1 \in DOMAIN s /\ Tail(s)[i] = s[i + 1]
<1>1. /\ Len(s) \in Nat /\ Len(s) >= 1 /\ DOMAIN s = 1..Len(s)
      /\ Tail(s) \in Seq(S) /\ Len(Tail(s)) = Len(s) - 1 /\ Head(s) \in S
      /\ \A i \in 1..Len(Tail(s)) : Tail(s)[i] = s[i + 1]
    BY EmptySeq, LenProperties, HeadTailProperties
<1>2. DOMAIN Tail(s) = 1..Len(Tail(s))
    BY <1>1, LenProperties
<1> QED
    BY <1>1, <1>2

LEMMA AppendFacts ==
    ASSUME NEW S, NEW s \in Seq(S), NEW e \in S
    PROVE  /\ Append(s, e) \in Seq(S)
           /\ Len(Append(s, e)) = Len(s) + 1
           /\ DOMAIN s \subseteq DOMAIN Append(s, e)
           /\ Len(s) + 1 \in DOMAIN Append(s, e) /\ Append(s, e)[Len(s) + 1] = e
           /\ \A i \in DOMAIN s : Append(s, e)[i] = s[i]
           /\ \A i \in DOMAIN Append(s, e) : i \in Nat /\ (i \in DOMAIN s \/ i = Len(s) + 1)
<1>1. DOMAIN s = 1..Len(s) /\ Len(s) \in Nat
    BY LenProperties
<1>2. /\ Append(s, e) \in Seq(S)
      /\ Len(Append(s, e)) = Len(s) + 1
      /\ \A i \in 1..Len(s) : Append(s, e)[i] = s[i]
      /\ Append(s, e)[Len(s) + 1] = e
    BY AppendProperties
<1>3. DOMAIN Append(s, e) = 1..(Len(s) + 1)
    BY <1>2, LenProperties
<1> QED
    BY <1>1, <1>2, <1>3

\* A response a client sends changes nothing but what other clients read.
LEMMA RspOfClientQuiet ==
    ASSUME NEW c \in Strays, NEW u \in UserIds, WorkerRspOrderOfClient(c, u)
    PROVE  /\ c \in Conns
           /\ UNCHANGED <<place, ref, ctx, user_id, listen_closing, listed, link, breaks,
                          order, fate, wire_up, pending, answers, wire_down, got>>
           /\ crashed' \in BOOLEAN
BY StraysAssumption DEF WorkerRspOrderOfClient, sessionVars, linkVars, orderVars, wireVars

-----------------------------------------------------------------------------
(* Sessions.                                                                *)

LEMMA SessionStep == SessionInv /\ [Next]_vars => SessionInv'
<1> SUFFICES ASSUME SessionInv, [Next]_vars PROVE SessionInv'
    OBVIOUS
<1> USE NoConnAssumption
<1>1. ASSUME UNCHANGED sessionVars PROVE SessionInv'
    BY <1>1 DEF sessionVars, SessionInv, SessionTypes, Held
<1>2. ASSUME NEW c \in Conns, OnListenConnect(c) PROVE SessionInv'
    BY <1>2 DEF OnListenConnect, SessionInv, SessionTypes, Held
<1>3. ASSUME NEW c \in Conns, NEW u \in UserIds, ListenLogin(c, u) PROVE SessionInv'
    BY <1>3 DEF ListenLogin, RefForWorker, SessionInv, SessionTypes, Held
<1>4. ASSUME NEW c \in Conns, OnListenClose(c) PROVE SessionInv'
    BY <1>4 DEF OnListenClose, SessionInv, SessionTypes, Held
<1>5. ASSUME NEW c \in Conns, ListenRelease(c) PROVE SessionInv'
    BY <1>5 DEF ListenRelease, Released, FreedIfLast, SessionInv, SessionTypes, Held
<1>6. ASSUME NEW c \in Conns, OnWorkerAddClient(c) PROVE SessionInv'
    BY <1>6 DEF OnWorkerAddClient, SessionInv, SessionTypes, Held
<1>7. ASSUME NEW c \in Conns, OnWorkerCloseClient(c) PROVE SessionInv'
    BY <1>7 DEF OnWorkerCloseClient, Released, FreedIfLast, Unlisted, SessionInv,
                SessionTypes, Held
<1>8. ASSUME NEW c \in Conns, NEW u \in UserIds, WorkerReqOrder(c, u)
      PROVE  UNCHANGED sessionVars
    BY <1>8 DEF WorkerReqOrder
<1>9. ASSUME NEW w \in Workers,
             \/ WorkerRspOrder(w) \/ ConnectUpstream(w) \/ OnWorkerAddUpstream(w)
             \/ OnWorkerCloseUpstream(w) \/ ExchangeTake(w) \/ ExchangeRound(w)
      PROVE  UNCHANGED sessionVars
    BY <1>9 DEF WorkerRspOrder, ConnectUpstream, OnWorkerAddUpstream, OnWorkerCloseUpstream,
                ExchangeTake, ExchangeRound
<1>10. ASSUME NEW c \in Strays, NEW u \in UserIds, WorkerRspOrderOfClient(c, u)
       PROVE  UNCHANGED sessionVars
    BY <1>10, RspOfClientQuiet DEF sessionVars
<1>11. CASE UNCHANGED vars
    BY <1>1, <1>11 DEF vars, sessionVars
<1> QED
    BY <1>1, <1>2, <1>3, <1>4, <1>5, <1>6, <1>7, <1>8, <1>9, <1>10, <1>11 DEF Next

\* Where a session with orders is, and what is known of it, does not change.
LEMMA SettledStays ==
    ASSUME SessionInv, [Next]_vars, NEW c \in Conns, Settled(c)
    PROVE  Settled(c)' /\ user_id'[c] = user_id[c] /\ WorkerOf(c)' = WorkerOf(c)
<1> USE DEF Settled, SessionInv, SessionTypes
<1>1. ASSUME UNCHANGED sessionVars PROVE Settled(c)' /\ user_id'[c] = user_id[c]
    BY <1>1 DEF sessionVars
<1>2. ASSUME NEW d \in Conns, OnListenConnect(d) \/ OnListenClose(d) \/ ListenRelease(d)
             \/ OnWorkerAddClient(d) \/ OnWorkerCloseClient(d)
      PROVE  Settled(c)' /\ user_id'[c] = user_id[c]
    BY <1>2 DEF OnListenConnect, OnListenClose, ListenRelease, OnWorkerAddClient,
                OnWorkerCloseClient
<1>3. ASSUME NEW d \in Conns, NEW u \in UserIds, ListenLogin(d, u)
      PROVE  Settled(c)' /\ user_id'[c] = user_id[c]
    BY <1>3 DEF ListenLogin
<1>4. ASSUME NEW d \in Conns, NEW u \in UserIds, WorkerReqOrder(d, u)
      PROVE  UNCHANGED sessionVars
    BY <1>4 DEF WorkerReqOrder
<1>5. ASSUME NEW w \in Workers,
             \/ WorkerRspOrder(w) \/ ConnectUpstream(w) \/ OnWorkerAddUpstream(w)
             \/ OnWorkerCloseUpstream(w) \/ ExchangeTake(w) \/ ExchangeRound(w)
      PROVE  UNCHANGED sessionVars
    BY <1>5 DEF WorkerRspOrder, ConnectUpstream, OnWorkerAddUpstream, OnWorkerCloseUpstream,
                ExchangeTake, ExchangeRound
<1>6. UNCHANGED vars => UNCHANGED sessionVars
    BY DEF vars, sessionVars
<1>7. ASSUME NEW d \in Strays, NEW u \in UserIds, WorkerRspOrderOfClient(d, u)
      PROVE  UNCHANGED sessionVars
    BY <1>7, RspOfClientQuiet DEF sessionVars
<1>8. Settled(c)' /\ user_id'[c] = user_id[c]
    BY <1>1, <1>2, <1>3, <1>4, <1>5, <1>6, <1>7 DEF Next
<1> QED
    BY <1>8 DEF WorkerOf

-----------------------------------------------------------------------------
(* Orders.                                                                  *)

\* Only a worker that reads an order changes them.
LEMMA OrderSteps ==
    ASSUME [Next]_vars
    PROVE  \/ order' = order
           \/ \E c \in Conns, u \in UserIds : WorkerReqOrder(c, u)
<1>1. ASSUME NEW c \in Conns,
             \/ OnListenConnect(c) \/ OnListenClose(c) \/ ListenRelease(c)
             \/ OnWorkerAddClient(c) \/ OnWorkerCloseClient(c)
             \/ \E u \in UserIds : ListenLogin(c, u)
      PROVE  order' = order
    BY <1>1 DEF OnListenConnect, OnListenClose, ListenRelease, OnWorkerAddClient,
                OnWorkerCloseClient, ListenLogin, orderVars
<1>2. ASSUME NEW w \in Workers,
             \/ WorkerRspOrder(w) \/ ConnectUpstream(w) \/ OnWorkerAddUpstream(w)
             \/ OnWorkerCloseUpstream(w) \/ ExchangeTake(w) \/ ExchangeRound(w)
      PROVE  order' = order
    BY <1>2 DEF WorkerRspOrder, ConnectUpstream, OnWorkerAddUpstream, OnWorkerCloseUpstream,
                ExchangeTake, ExchangeRound, orderVars
<1>3. ASSUME NEW c \in Strays, NEW u \in UserIds, WorkerRspOrderOfClient(c, u)
      PROVE  order' = order
    BY <1>3, RspOfClientQuiet
<1>4. UNCHANGED vars => order' = order
    BY DEF vars
<1> QED
    BY <1>1, <1>2, <1>3, <1>4 DEF Next

\* What was sent stays as it was.
LEMMA OrderStays ==
    ASSUME OrderInv, [Next]_vars
    PROVE  /\ order' \in Seq([by : Conns, user_id : UserIds])
           /\ DOMAIN order \subseteq DOMAIN order'
           /\ \A o \in DOMAIN order : order'[o] = order[o] /\ order[o].by \in Conns
<1>1. \A o \in DOMAIN order : order[o].by \in Conns
    <2>1. ASSUME NEW o \in DOMAIN order PROVE order[o] \in [by : Conns, user_id : UserIds]
        BY LenProperties, ElementOfSeq DEF OrderInv
    <2> QED
        BY <2>1
<1>2. ASSUME NEW c \in Conns, NEW u \in UserIds, WorkerReqOrder(c, u)
      PROVE  /\ order' \in Seq([by : Conns, user_id : UserIds])
             /\ DOMAIN order \subseteq DOMAIN order'
             /\ \A o \in DOMAIN order : order'[o] = order[o]
    <2>1. /\ order' = Append(order, [by |-> c, user_id |-> u])
          /\ [by |-> c, user_id |-> u] \in [by : Conns, user_id : UserIds]
        BY <1>2 DEF WorkerReqOrder
    <2> QED
        BY <2>1, AppendFacts DEF OrderInv
<1> QED
    BY <1>1, <1>2, OrderSteps DEF OrderInv

LEMMA OrderStep ==
    ASSUME SessionInv, OrderInv, [Next]_vars
    PROVE  OrderInv'
<1>1. ASSUME NEW o \in DOMAIN order PROVE Settled(order[o].by)'
    <2>1. PICK c \in Conns : order'[o] = order[o] /\ order[o].by = c /\ Settled(c)
        BY OrderStays DEF OrderInv
    <2>2. Settled(c)'
        BY <2>1, SettledStays
    <2> QED
        BY <2>1, <2>2 DEF Settled
<1>2. ASSUME NEW c \in Conns, NEW u \in UserIds, WorkerReqOrder(c, u) PROVE OrderInv'
    <2>1. /\ order' = Append(order, [by |-> c, user_id |-> u])
          /\ [by |-> c, user_id |-> u] \in [by : Conns, user_id : UserIds]
          /\ Len(order) < MaxOrders /\ Settled(c)
        BY <1>2 DEF WorkerReqOrder, Settled
    <2>2. Settled(c)'
        BY <2>1, SettledStays
    <2>3. /\ Len(order') = Len(order) + 1
          /\ order'[Len(order) + 1] = [by |-> c, user_id |-> u]
          /\ \A o \in DOMAIN order' : o \in DOMAIN order \/ o = Len(order) + 1
        BY <2>1, AppendFacts DEF OrderInv
    <2>4. Len(order') <= MaxOrders
        <3>1. Len(order) \in Nat
            BY LenProperties DEF OrderInv
        <3> QED
            BY <2>1, <2>3, <3>1, Bounds
    <2>5. ASSUME NEW o \in DOMAIN order' PROVE Settled(order[o].by)'
        <3>1. CASE o \in DOMAIN order
            BY <1>1, <3>1
        <3>2. CASE o = Len(order) + 1
            <4>1. order'[o].by = c
                BY <2>3, <3>2
            <4> QED
                BY <2>2, <4>1 DEF Settled
        <3> QED
            BY <2>3, <3>1, <3>2
    <2> QED
        BY <2>4, <2>5, OrderStays DEF OrderInv
<1>3. CASE order' = order
    <2>1. \A o \in DOMAIN order' : Settled(order[o].by)'
        BY <1>1, <1>3
    <2> QED
        BY <1>3, <2>1 DEF OrderInv
<1> QED
    BY <1>2, <1>3, OrderSteps

\* An order that its worker may forward stays one, and goes on one link only.
LEMMA ProperStays ==
    ASSUME SessionInv, OrderInv, [Next]_vars, NEW w \in Workers
    PROVE  Proper(w) \subseteq Proper(w)'
<1> SUFFICES ASSUME NEW o \in Proper(w) PROVE o \in Proper(w)'
    OBVIOUS
<1>1. /\ o \in DOMAIN order /\ o \in DOMAIN order' /\ order'[o] = order[o]
      /\ order[o].user_id = user_id[order[o].by] /\ WorkerOf(order[o].by) = w
    BY OrderStays DEF Proper
<1>2. PICK c \in Conns : c = order[o].by /\ Settled(c)
    BY <1>1, OrderStays DEF OrderInv
<1>3. user_id'[c] = user_id[c]
    BY <1>2, SettledStays
<1>4. user_id'[order'[o].by] % NumWorker = w
    BY <1>1, <1>2, <1>3 DEF WorkerOf
<1> QED
    BY <1>1, <1>2, <1>3, <1>4 DEF Proper, WorkerOf

LEMMA ProperFacts ==
    ASSUME OrderInv, NEW w \in Workers, NEW o \in Proper(w)
    PROVE  /\ o \in Order /\ o \in Nat /\ o <= Len(order)
           /\ \A v \in Workers : o \in Proper(v) => v = w
<1>1. Len(order) \in Nat /\ DOMAIN order = 1..Len(order)
    BY LenProperties DEF OrderInv
<1>2. o \in 1..Len(order)
    BY <1>1 DEF Proper
<1>3. o \in Order
    BY <1>1, <1>2, Bounds DEF Order, OrderInv
<1> QED
    BY <1>1, <1>2, <1>3 DEF Proper

-----------------------------------------------------------------------------
(* Links.                                                                   *)

\* A step that adds nothing to what is on the links keeps what is known of it.
LEMMA LinksQuiet ==
    ASSUME SessionInv, OrderInv, LinkInv, [Next]_vars, LinkTypes',
           UNCHANGED answers,
           \A w \in Workers :
               /\ wire_up'[w] = wire_up[w] \/ wire_up'[w] = <<>>
               /\ pending'[w] \subseteq pending[w]
               /\ \A i \in DOMAIN wire_down'[w] : \E j \in DOMAIN wire_down[w] :
                     wire_down'[w][i] = wire_down[w][j]
    PROVE  LinkInv'
<1>1. \A o \in Order : o > Len(order') => answers'[o] = 0
    <2>1. /\ Len(order) \in Nat /\ Len(order') \in Nat
          /\ DOMAIN order = 1..Len(order) /\ DOMAIN order' = 1..Len(order')
        BY OrderStays, LenProperties DEF OrderInv
    <2>2. Len(order) <= Len(order')
        <3>1. 1..Len(order) \subseteq 1..Len(order')
            BY <2>1, OrderStays
        <3> QED
            BY <2>1, <3>1
    <2>3. \A o \in Order : o \in Nat
        BY Bounds
    <2> QED
        BY <2>1, <2>2, <2>3 DEF LinkInv
<1>2. ASSUME NEW w \in Workers PROVE UpInv(w)' /\ PendingInv(w)' /\ DownInv(w)'
    <2>1. Proper(w) \subseteq Proper(w)' /\ UpInv(w) /\ PendingInv(w) /\ DownInv(w)
        BY ProperStays DEF LinkInv
    <2>2. UpInv(w)'
        <3>1. CASE wire_up'[w] = wire_up[w]
            BY <2>1, <3>1 DEF UpInv
        <3>2. CASE wire_up'[w] = <<>>
            BY <3>2 DEF UpInv
        <3> QED
            BY <3>1, <3>2
    <2>3. PendingInv(w)' /\ DownInv(w)'
        BY <2>1 DEF PendingInv, DownInv
    <2> QED
        BY <2>2, <2>3
<1> QED
    BY <1>1, <1>2 DEF LinkInv

LEMMA WorkerReqOrderLinks ==
    ASSUME SessionInv, OrderInv, LinkInv, NEW c \in Conns, NEW u \in UserIds,
           WorkerReqOrder(c, u)
    PROVE  LinkInv'
<1>n. Len(order) \in Nat /\ DOMAIN order = 1..Len(order)
    BY LenProperties DEF OrderInv
<1>p. PICK w \in Workers, o \in Nat : w = WorkerOf(c) /\ o = Len(order) + 1
    BY <1>n, WorkerIsOne DEF SessionInv
<1>1. [Next]_vars /\ o \in Order
    <2>1. o \in Order
        BY <1>n, <1>p, Bounds DEF WorkerReqOrder, Order
    <2>2. Next
        BY DEF Next
    <2> QED
        BY <2>1, <2>2
<1>2. /\ UNCHANGED <<pending, answers, wire_down, link, breaks, crashed, user_id>>
      /\ fate' \in [Order -> {"unsent", "forwarded", "dropped", "lost"}]
      /\ order' = Append(order, [by |-> c, user_id |-> u])
    BY DEF WorkerReqOrder, LinkInv, LinkTypes, linkVars, sessionVars
<1>3. \/ wire_up' = wire_up
      \/ u = user_id[c] /\ wire_up' = [wire_up EXCEPT ![w] = Append(@, o)]
    BY <1>p DEF WorkerReqOrder, Allowed
<1>4. CASE wire_up' = wire_up
    <2>1. LinkTypes'
        BY <1>2, <1>4 DEF LinkInv, LinkTypes
    <2> QED
        BY <1>1, <1>2, <1>4, <2>1, LinksQuiet
<1>5. CASE u = user_id[c] /\ wire_up' = [wire_up EXCEPT ![w] = Append(@, o)]
    <2>1. PICK s \in Seq(Order) : s = wire_up[w]
        BY <1>1 DEF LinkInv, LinkTypes
    <2>2. /\ wire_up'[w] = Append(s, o)
          /\ \A v \in Workers : v # w => wire_up'[v] = wire_up[v]
        BY <1>1, <1>5, <2>1 DEF LinkInv, LinkTypes
    <2>3. /\ Append(s, o) \in Seq(Order) /\ Append(s, o)[Len(s) + 1] = o
          /\ \A i \in DOMAIN s : Append(s, o)[i] = s[i] /\ i \in Nat /\ i < Len(s) + 1
          /\ \A i \in DOMAIN Append(s, o) :
                i \in Nat /\ (i \in DOMAIN s \/ i = Len(s) + 1)
          /\ Len(s) \in Nat
        BY <1>1, <2>1, AppendFacts, LenProperties
    <2>4. LinkTypes'
        BY <1>1, <1>2, <1>5, <2>1, <2>3 DEF LinkInv, LinkTypes
    <2>5. /\ order'[o] = [by |-> c, user_id |-> u] /\ o \in DOMAIN order'
          /\ Len(order') = o
        BY <1>2, <1>p, AppendFacts DEF OrderInv
    <2>6. o \in Proper(w)'
        BY <1>2, <1>5, <1>p, <2>5 DEF Proper, WorkerOf
    <2>7. answers[o] = 0 /\ \A p \in Order : p > o => answers[p] = 0
        BY <1>1, <1>n, <1>p, Bounds DEF LinkInv
    <2>8. ASSUME NEW v \in Workers PROVE UpInv(v)' /\ PendingInv(v)' /\ DownInv(v)'
        <3>1. Proper(v) \subseteq Proper(v)' /\ UpInv(v) /\ PendingInv(v) /\ DownInv(v)
            BY <1>1, ProperStays DEF LinkInv
        <3>2. PendingInv(v)' /\ DownInv(v)'
            BY <1>2, <3>1 DEF PendingInv, DownInv
        <3>3. CASE v # w
            BY <1>2, <2>2, <3>1, <3>2, <3>3 DEF UpInv
        <3>4. CASE v = w
            <4>1. \A i \in DOMAIN s : s[i] \in Proper(w) /\ s[i] \in Nat /\ s[i] < o
                <5>1. \A i \in DOMAIN s : s[i] \in Proper(w)
                    BY <2>1, <3>1, <3>4 DEF UpInv
                <5> QED
                    BY <1>n, <1>p, <5>1, ProperFacts
            <4>2. o \notin pending[w]
                <5>1. \A p \in pending[w] : p \in Nat /\ p < o
                    BY <1>n, <1>p, <3>1, <3>4, ProperFacts DEF PendingInv
                <5> QED
                    BY <1>p, <5>1
            <4>3. ASSUME NEW i \in DOMAIN Append(s, o)
                  PROVE  /\ Append(s, o)[i] \in Proper(w)'
                         /\ answers[Append(s, o)[i]] = 0
                         /\ Append(s, o)[i] \notin pending[w]
                <5>1. CASE i \in DOMAIN s
                    <6>1. Append(s, o)[i] = s[i] /\ s[i] \in Proper(w)
                        BY <2>3, <4>1, <5>1
                    <6>2. answers[s[i]] = 0 /\ s[i] \notin pending[w]
                        BY <2>1, <3>1, <3>4, <5>1 DEF UpInv
                    <6> QED
                        BY <3>1, <3>4, <6>1, <6>2
                <5>2. CASE i = Len(s) + 1
                    BY <2>3, <2>6, <2>7, <4>2, <5>2
                <5> QED
                    BY <2>3, <5>1, <5>2
            <4>4. ASSUME NEW i \in DOMAIN Append(s, o), NEW j \in DOMAIN Append(s, o), i < j
                  PROVE  Append(s, o)[i] < Append(s, o)[j]
                <5>1. i \in DOMAIN s
                    BY <2>3, <4>4
                <5>2. CASE j \in DOMAIN s
                    BY <2>1, <2>3, <3>1, <3>4, <4>4, <5>1, <5>2 DEF UpInv
                <5>3. CASE j = Len(s) + 1
                    BY <2>3, <4>1, <5>1, <5>3
                <5> QED
                    BY <2>3, <5>2, <5>3
            <4>5. UpInv(w)'
                BY <1>2, <2>2, <4>3, <4>4 DEF UpInv
            <4> QED
                BY <3>2, <3>4, <4>5
        <3> QED
            BY <3>3, <3>4
    <2> QED
        BY <1>2, <2>4, <2>5, <2>7, <2>8 DEF LinkInv
<1> QED
    BY <1>3, <1>4, <1>5

LEMMA WorkerRspOrderLinks ==
    ASSUME SessionInv, OrderInv, LinkInv, NEW w \in Workers, WorkerRspOrder(w)
    PROVE  LinkInv'
<1>1. PICK s \in Seq(Response) : s = wire_down[w] /\ s # <<>>
    BY DEF WorkerRspOrder, LinkInv, LinkTypes
<1>2. /\ UNCHANGED <<link, breaks, fate, wire_up, pending, answers, crashed>>
      /\ wire_down' = [wire_down EXCEPT ![w] = Tail(s)]
    BY <1>1 DEF WorkerRspOrder, linkVars, orderVars
<1>3. /\ Tail(s) \in Seq(Response)
      /\ \A i \in DOMAIN Tail(s) : \E j \in DOMAIN s : Tail(s)[i] = s[j]
    BY <1>1, TailFacts
<1>4. LinkTypes'
    BY <1>2, <1>3 DEF LinkInv, LinkTypes
<1>5. ASSUME NEW v \in Workers
      PROVE  \A i \in DOMAIN wire_down'[v] : \E j \in DOMAIN wire_down[v] :
                 wire_down'[v][i] = wire_down[v][j]
    <2>1. CASE v = w
        BY <1>1, <1>2, <1>3, <2>1 DEF LinkInv, LinkTypes
    <2>2. CASE v # w
        BY <1>2, <2>2 DEF LinkInv, LinkTypes
    <2> QED
        BY <2>1, <2>2
<1>6. Next
    BY DEF Next
<1> QED
    BY <1>2, <1>4, <1>5, <1>6, LinksQuiet

LEMMA OnWorkerCloseUpstreamLinks ==
    ASSUME SessionInv, OrderInv, LinkInv, NEW w \in Workers, OnWorkerCloseUpstream(w)
    PROVE  LinkInv'
<1>1. /\ UNCHANGED <<answers, crashed>>
      /\ link' = [link EXCEPT ![w] = "down"]
      /\ breaks' = breaks + 1 /\ breaks < MaxBreak
      /\ wire_up' = [wire_up EXCEPT ![w] = <<>>]
      /\ wire_down' = [wire_down EXCEPT ![w] = <<>>]
      /\ pending' = [pending EXCEPT ![w] = {}]
    BY DEF OnWorkerCloseUpstream
<1>2. fate' \in [Order -> {"unsent", "forwarded", "dropped", "lost"}]
    BY DEF OnWorkerCloseUpstream, LinkInv, LinkTypes
<1>3. breaks' \in 0..MaxBreak
    BY <1>1, Bounds DEF LinkInv, LinkTypes
<1>4. <<>> \in Seq(Order) /\ <<>> \in Seq(Response)
    BY EmptySeq
<1>5. LinkTypes'
    BY <1>1, <1>2, <1>3, <1>4 DEF LinkInv, LinkTypes
<1>6. ASSUME NEW v \in Workers
      PROVE  /\ wire_up'[v] = wire_up[v] \/ wire_up'[v] = <<>>
             /\ pending'[v] \subseteq pending[v]
             /\ \A i \in DOMAIN wire_down'[v] : \E j \in DOMAIN wire_down[v] :
                   wire_down'[v][i] = wire_down[v][j]
    <2>1. CASE v = w
        <3>1. wire_up'[v] = <<>> /\ pending'[v] = {} /\ wire_down'[v] = <<>>
            BY <1>1, <2>1 DEF LinkInv, LinkTypes
        <3> QED
            BY <3>1
    <2>2. CASE v # w
        BY <1>1, <2>2 DEF LinkInv, LinkTypes
    <2> QED
        BY <2>1, <2>2
<1>7. Next
    BY DEF Next
<1> QED
    BY <1>1, <1>5, <1>6, <1>7, LinksQuiet

\* The other steps that leave the links' contents alone.
LEMMA QuietLinks ==
    ASSUME SessionInv, OrderInv, LinkInv, [Next]_vars,
           UNCHANGED <<wire_up, pending, answers, wire_down, fate, breaks>>,
           link' \in [Workers -> {"starting", "queued", "up", "down"}], crashed' \in BOOLEAN
    PROVE  LinkInv'
<1>1. LinkTypes'
    BY DEF LinkInv, LinkTypes
<1> QED
    BY <1>1, LinksQuiet

LEMMA ExchangeTakeLinks ==
    ASSUME SessionInv, OrderInv, LinkInv, NEW w \in Workers, ExchangeTake(w)
    PROVE  LinkInv'
<1>1. PICK s \in Seq(Order) : s = wire_up[w] /\ s # <<>>
    BY DEF ExchangeTake, LinkInv, LinkTypes
<1>2. /\ UNCHANGED <<link, breaks, fate, order, answers, wire_down, crashed>>
      /\ wire_up' = [wire_up EXCEPT ![w] = Tail(s)]
      /\ pending' = [pending EXCEPT ![w] = @ \cup {Head(s)}]
    BY <1>1 DEF ExchangeTake, linkVars, orderVars
<1>3. /\ 1 \in DOMAIN s /\ Head(s) = s[1] /\ Head(s) \in Order
      /\ Tail(s) \in Seq(Order)
      /\ \A i \in DOMAIN Tail(s) : i \in Nat /\ i + 1 \in DOMAIN s /\ Tail(s)[i] = s[i + 1]
    BY <1>1, TailFacts
<1>4. LinkTypes'
    BY <1>2, <1>3 DEF LinkInv, LinkTypes
<1>5. /\ wire_up'[w] = Tail(s) /\ pending'[w] = pending[w] \cup {s[1]}
      /\ \A v \in Workers : v # w => wire_up'[v] = wire_up[v] /\ pending'[v] = pending[v]
    BY <1>2, <1>3 DEF LinkInv, LinkTypes
<1>6. [Next]_vars
    <2>1. Next
        BY DEF Next
    <2> QED
        BY <2>1
<1>7. ASSUME NEW v \in Workers PROVE UpInv(v)' /\ PendingInv(v)' /\ DownInv(v)'
    <2>1. Proper(v) \subseteq Proper(v)' /\ UpInv(v) /\ PendingInv(v) /\ DownInv(v)
        BY <1>6, ProperStays DEF LinkInv
    <2>2. DownInv(v)'
        BY <1>2, <2>1 DEF DownInv
    <2>3. CASE v # w
        BY <1>2, <1>5, <2>1, <2>2, <2>3 DEF UpInv, PendingInv
    <2>4. CASE v = w
        <3>1. /\ \A i \in DOMAIN s : /\ s[i] \in Proper(v) /\ s[i] \in Nat
                                     /\ answers[s[i]] = 0 /\ s[i] \notin pending[v]
              /\ \A i, j \in DOMAIN s : i < j => s[i] < s[j]
            <4>1. /\ \A i \in DOMAIN s : /\ s[i] \in Proper(v)
                                         /\ answers[s[i]] = 0 /\ s[i] \notin pending[v]
                  /\ \A i, j \in DOMAIN s : i < j => s[i] < s[j]
                BY <1>1, <2>1, <2>4 DEF UpInv
            <4> QED
                BY <4>1, ProperFacts
        <3>2. ASSUME NEW i \in DOMAIN Tail(s)
              PROVE  /\ Tail(s)[i] \in Proper(v)' /\ answers[Tail(s)[i]] = 0
                     /\ Tail(s)[i] \notin pending[v] \cup {s[1]}
            <4>1. Tail(s)[i] = s[i + 1] /\ i + 1 \in DOMAIN s /\ 1 < i + 1
                <5>1. DOMAIN Tail(s) = 1..Len(Tail(s)) /\ Len(Tail(s)) \in Nat
                    BY <1>3, LenProperties
                <5> QED
                    BY <1>3, <5>1
            <4>2. s[1] < s[i + 1] /\ s[1] \in Nat
                BY <1>3, <3>1, <4>1
            <4> QED
                BY <2>1, <3>1, <4>1, <4>2
        <3>3. ASSUME NEW i \in DOMAIN Tail(s), NEW j \in DOMAIN Tail(s), i < j
              PROVE  Tail(s)[i] < Tail(s)[j]
            <4>1. i + 1 < j + 1
                BY <1>3, <3>3
            <4> QED
                BY <1>3, <3>1, <4>1
        <3>4. UpInv(v)'
            BY <1>2, <1>5, <2>4, <3>2, <3>3 DEF UpInv
        <3>5. PendingInv(v)'
            BY <1>2, <1>3, <1>5, <2>1, <2>4, <3>1, Bounds DEF PendingInv
        <3> QED
            BY <2>2, <3>4, <3>5
    <2> QED
        BY <2>3, <2>4
<1> QED
    BY <1>2, <1>4, <1>7 DEF LinkInv

\* The exchange answers orders it has: one of the sequences is theirs.
LEMMA AnswersFacts ==
    ASSUME LinkInv, NEW w \in Workers, NEW s \in OldestFirst(pending[w]), OrderInv
    PROVE  /\ Answers(s) \in Seq(Response)
           /\ \A i \in DOMAIN Answers(s) : Answers(s)[i].order \in pending[w]
<1>1. pending[w] \subseteq Order /\ PendingInv(w)
    BY DEF LinkInv, LinkTypes
<1>2. IsFiniteSet(Order)
    BY Bounds, FS_Interval DEF Order
<1>3. PICK n \in Nat : n = Cardinality(pending[w])
    BY <1>1, <1>2, FS_Subset, FS_CardinalityType
<1>4. s \in [1..n -> pending[w]]
    BY <1>3 DEF OldestFirst
<1>5. ASSUME NEW i \in 1..n
      PROVE  [order |-> s[i], rsp_cnt |-> answers[s[i]] + 1] \in Response
    <2>1. s[i] \in Order /\ s[i] \in pending[w]
        BY <1>1, <1>4
    <2>2. answers[s[i]] \in Nat /\ answers[s[i]] < MaxRsp
        <3>1. answers[s[i]] \in 0..MaxRsp
            BY <2>1 DEF LinkInv, LinkTypes
        <3>2. answers[s[i]] < MaxRsp
            BY <1>1, <2>1 DEF PendingInv
        <3> QED
            BY <3>1, <3>2, Bounds
    <2>3. answers[s[i]] + 1 \in 1..MaxRsp
        BY <2>2, Bounds
    <2> QED
        BY <2>1, <2>3 DEF Response
<1>6. DOMAIN Answers(s) = 1..n /\ Answers(s) \in [1..n -> Response]
    BY <1>4, <1>5 DEF Answers
<1>7. \A i \in 1..n : Answers(s)[i].order = s[i]
    BY <1>4 DEF Answers
<1> QED
    BY <1>4, <1>6, <1>7

LEMMA ExchangeRoundLinks ==
    ASSUME SessionInv, OrderInv, LinkInv, NEW w \in Workers, ExchangeRound(w)
    PROVE  LinkInv'
<1>1. PICK s \in OldestFirst(pending[w]) :
          wire_down' = [wire_down EXCEPT ![w] = @ \o Answers(s)]
    BY DEF ExchangeRound
<1>2. /\ UNCHANGED <<link, breaks, fate, order, wire_up, crashed>>
      /\ answers' = [o \in Order |-> IF o \in pending[w] THEN answers[o] + 1
                                                        ELSE answers[o]]
      /\ pending' = [pending EXCEPT ![w] = {o \in @ : answers[o] + 1 < MaxRsp}]
    BY DEF ExchangeRound, linkVars, orderVars
<1>3. PICK d \in Seq(Response), a \in Seq(Response) :
          /\ d = wire_down[w] /\ a = Answers(s)
          /\ \A i \in DOMAIN a : a[i].order \in pending[w]
    BY AnswersFacts DEF LinkInv, LinkTypes
<1>4. /\ d \o a \in Seq(Response) /\ Len(d) \in Nat
      /\ \A i \in DOMAIN (d \o a) :
            \/ i \in DOMAIN d /\ (d \o a)[i] = d[i]
            \/ i - Len(d) \in DOMAIN a /\ (d \o a)[i] = a[i - Len(d)]
    <2>1. /\ Len(d) \in Nat /\ Len(a) \in Nat
          /\ DOMAIN d = 1..Len(d) /\ DOMAIN a = 1..Len(a)
        BY LenProperties
    <2>2. /\ d \o a \in Seq(Response) /\ Len(d \o a) = Len(d) + Len(a)
          /\ \A i \in 1..(Len(d) + Len(a)) :
                (d \o a)[i] = IF i <= Len(d) THEN d[i] ELSE a[i - Len(d)]
        BY ConcatProperties
    <2>3. DOMAIN (d \o a) = 1..(Len(d) + Len(a))
        BY <2>2, LenProperties
    <2> QED
        BY <2>1, <2>2, <2>3
<1>5. [Next]_vars
    <2>1. Next
        BY DEF Next
    <2> QED
        BY <2>1
<1>6. \A v \in Workers : /\ Proper(v) \subseteq Proper(v)'
                         /\ UpInv(v) /\ PendingInv(v) /\ DownInv(v)
    BY <1>5, ProperStays DEF LinkInv
<1>7. \A o \in Order : /\ answers[o] \in Nat /\ answers[o] <= MaxRsp
                       /\ o \notin pending[w] => answers'[o] = answers[o]
                       /\ o \in pending[w] => /\ answers'[o] = answers[o] + 1
                                              /\ answers[o] < MaxRsp
    <2>1. \A o \in Order : answers[o] \in 0..MaxRsp
        BY DEF LinkInv, LinkTypes
    <2>2. \A o \in pending[w] : answers[o] < MaxRsp
        BY <1>6 DEF PendingInv
    <2> QED
        BY <1>2, <2>1, <2>2, Bounds
<1>8. LinkTypes'
    <2>1. answers' \in [Order -> 0..MaxRsp]
        BY <1>2, <1>7, Bounds
    <2>2. pending' \in [Workers -> SUBSET Order]
        BY <1>2 DEF LinkInv, LinkTypes
    <2>3. wire_down' \in [Workers -> Seq(Response)]
        BY <1>1, <1>3, <1>4 DEF LinkInv, LinkTypes
    <2> QED
        BY <1>2, <2>1, <2>2, <2>3 DEF LinkInv, LinkTypes
<1>9. /\ wire_down'[w] = d \o a
      /\ pending'[w] = {o \in pending[w] : answers[o] + 1 < MaxRsp}
      /\ \A v \in Workers : v # w => /\ wire_down'[v] = wire_down[v]
                                     /\ pending'[v] = pending[v]
    BY <1>1, <1>2, <1>3 DEF LinkInv, LinkTypes
\* No order is on two links.
<1>10. \A v \in Workers : /\ \A o \in Proper(v) : o \in Order
                          /\ v # w => \A o \in Proper(v) : o \notin pending[w]
    <2>1. \A o \in pending[w] : o \in Proper(w)
        BY <1>6 DEF PendingInv
    <2> QED
        BY <2>1, ProperFacts
<1>11. ASSUME NEW v \in Workers PROVE UpInv(v)' /\ PendingInv(v)' /\ DownInv(v)'
    <2>1. UpInv(v)'
        <3>1. ASSUME NEW i \in DOMAIN wire_up[v]
              PROVE  /\ wire_up[v][i] \in Proper(v)' /\ answers'[wire_up[v][i]] = 0
                     /\ wire_up[v][i] \notin pending'[v]
            <4>1. PICK o \in Order :
                      /\ o = wire_up[v][i] /\ o \in Proper(v) /\ answers[o] = 0
                      /\ o \notin pending[v]
                BY <1>6, <1>10 DEF UpInv
            <4>2. o \notin pending[w] /\ o \notin pending'[v]
                BY <1>9, <1>10, <4>1
            <4>3. answers'[o] = 0
                BY <1>7, <4>1, <4>2
            <4> QED
                BY <1>6, <4>1, <4>2, <4>3
        <3>2. \A i, j \in DOMAIN wire_up[v] : i < j => wire_up[v][i] < wire_up[v][j]
            BY <1>6 DEF UpInv
        <3> QED
            BY <1>2, <3>1, <3>2 DEF UpInv
    <2>2. PendingInv(v)'
        <3>1. ASSUME NEW o \in pending'[v] PROVE o \in Proper(v)' /\ answers'[o] < MaxRsp
            <4>1. o \in pending[v] /\ o \in Proper(v) /\ o \in Order /\ answers[o] < MaxRsp
                BY <1>6, <1>9, <1>10, <3>1 DEF PendingInv
            <4>2. CASE v = w
                BY <1>6, <1>7, <1>9, <3>1, <4>1, <4>2
            <4>3. CASE v # w
                BY <1>6, <1>7, <1>10, <4>1, <4>3
            <4> QED
                BY <4>2, <4>3
        <3> QED
            BY <3>1 DEF PendingInv
    <2>3. DownInv(v)'
        <3>1. CASE v = w
            <4>1. \A i \in DOMAIN d : d[i].order \in Proper(w)
                BY <1>3, <1>6 DEF DownInv
            <4>2. \A i \in DOMAIN a : a[i].order \in Proper(w)
                BY <1>3, <1>6 DEF PendingInv
            <4>3. \A i \in DOMAIN (d \o a) : (d \o a)[i].order \in Proper(w)'
                BY <1>4, <1>6, <4>1, <4>2
            <4> QED
                BY <1>9, <3>1, <4>3 DEF DownInv
        <3>2. CASE v # w
            BY <1>6, <1>9, <3>2 DEF DownInv
        <3> QED
            BY <3>1, <3>2
    <2> QED
        BY <2>1, <2>2, <2>3
<1>12. \A o \in Order : o > Len(order') => answers'[o] = 0
    <2>1. ASSUME NEW o \in pending[w] PROVE o <= Len(order)
        BY <1>6, ProperFacts DEF PendingInv
    <2>2. Len(order) \in Nat
        BY LenProperties DEF OrderInv
    <2> QED
        BY <1>2, <1>7, <2>1, <2>2, Bounds DEF LinkInv
<1> QED
    BY <1>8, <1>11, <1>12 DEF LinkInv

LEMMA LinkStep ==
    ASSUME SessionInv, OrderInv, LinkInv, [Next]_vars
    PROVE  LinkInv'
<1>1. ASSUME NEW c \in Conns,
             \/ OnListenConnect(c) \/ OnListenClose(c) \/ ListenRelease(c)
             \/ OnWorkerAddClient(c) \/ \E u \in UserIds : ListenLogin(c, u)
      PROVE  UNCHANGED <<link, breaks, fate, wire_up, pending, answers, wire_down, crashed>>
    BY <1>1 DEF OnListenConnect, OnListenClose, ListenRelease, OnWorkerAddClient,
                ListenLogin, linkVars, orderVars, wireVars
<1>2. ASSUME UNCHANGED <<link, breaks, fate, wire_up, pending, answers, wire_down, crashed>>
      PROVE  LinkInv'
    <2>1. link' \in [Workers -> {"starting", "queued", "up", "down"}] /\ crashed' \in BOOLEAN
        BY <1>2 DEF LinkInv, LinkTypes
    <2> QED
        BY <1>2, <2>1, QuietLinks
<1>3. ASSUME NEW c \in Conns, OnWorkerCloseClient(c) PROVE LinkInv'
    <2>1. /\ UNCHANGED <<wire_up, pending, answers, wire_down, fate, breaks>>
          /\ link' \in [Workers -> {"starting", "queued", "up", "down"}] /\ crashed' \in BOOLEAN
        BY <1>3 DEF OnWorkerCloseClient, linkVars, orderVars, wireVars, LinkInv, LinkTypes
    <2> QED
        BY <2>1, QuietLinks
<1>4. ASSUME NEW w \in Workers, ConnectUpstream(w) \/ OnWorkerAddUpstream(w) PROVE LinkInv'
    <2>1. /\ UNCHANGED <<wire_up, pending, answers, wire_down, fate, breaks>>
          /\ link' \in [Workers -> {"starting", "queued", "up", "down"}] /\ crashed' \in BOOLEAN
        BY <1>4 DEF ConnectUpstream, OnWorkerAddUpstream, orderVars, wireVars, LinkInv,
                    LinkTypes
    <2> QED
        BY <2>1, QuietLinks
<1>5. ASSUME NEW c \in Conns, NEW u \in UserIds, WorkerReqOrder(c, u) PROVE LinkInv'
    BY <1>5, WorkerReqOrderLinks
<1>6. ASSUME NEW w \in Workers,
             \/ WorkerRspOrder(w) \/ OnWorkerCloseUpstream(w)
             \/ ExchangeTake(w) \/ ExchangeRound(w)
      PROVE  LinkInv'
    BY <1>6, WorkerRspOrderLinks, OnWorkerCloseUpstreamLinks, ExchangeTakeLinks,
       ExchangeRoundLinks
<1>7. ASSUME NEW c \in Strays, NEW u \in UserIds, WorkerRspOrderOfClient(c, u)
      PROVE  LinkInv'
    <2>1. /\ UNCHANGED <<wire_up, pending, answers, wire_down, fate, breaks>>
          /\ link' \in [Workers -> {"starting", "queued", "up", "down"}]
          /\ crashed' \in BOOLEAN
        BY <1>7, RspOfClientQuiet DEF LinkInv, LinkTypes
    <2> QED
        BY <2>1, QuietLinks
<1>8. CASE UNCHANGED vars
    BY <1>2, <1>8 DEF vars
<1> QED
    BY <1>1, <1>2, <1>3, <1>4, <1>5, <1>6, <1>7, <1>8 DEF Next

-----------------------------------------------------------------------------
(* What the sessions are sent.                                              *)

\* A session keeps what it has; only a worker that reads a response adds to it.
LEMMA GotSteps ==
    ASSUME [Next]_vars
    PROVE  got' = got \/ \E w \in Workers : WorkerRspOrder(w)
<1>1. ASSUME NEW c \in Conns,
             \/ OnListenConnect(c) \/ OnListenClose(c) \/ ListenRelease(c)
             \/ OnWorkerAddClient(c) \/ OnWorkerCloseClient(c)
             \/ \E u \in UserIds : ListenLogin(c, u) \/ WorkerReqOrder(c, u)
      PROVE  got' = got
    BY <1>1 DEF OnListenConnect, OnListenClose, ListenRelease, OnWorkerAddClient,
                OnWorkerCloseClient, ListenLogin, WorkerReqOrder
<1>2. ASSUME NEW w \in Workers,
             \/ ConnectUpstream(w) \/ OnWorkerAddUpstream(w) \/ OnWorkerCloseUpstream(w)
             \/ ExchangeTake(w) \/ ExchangeRound(w)
      PROVE  got' = got
    BY <1>2 DEF ConnectUpstream, OnWorkerAddUpstream, OnWorkerCloseUpstream,
                ExchangeTake, ExchangeRound
<1>3. ASSUME NEW c \in Strays, NEW u \in UserIds, WorkerRspOrderOfClient(c, u)
      PROVE  got' = got
    BY <1>3, RspOfClientQuiet
<1>4. UNCHANGED vars => got' = got
    BY DEF vars
<1> QED
    BY <1>1, <1>2, <1>3, <1>4 DEF Next

\* What holds of a response to an order of the session's own user.
Fits(c, r) ==
    /\ Settled(c)
    /\ r.order \in DOMAIN order
    /\ user_id[order[r.order].by] = user_id[c]

LEMMA FitsStays ==
    ASSUME SessionInv, OrderInv, [Next]_vars, NEW c \in Conns, NEW r, Fits(c, r)
    PROVE  /\ Settled(c)' /\ r.order \in DOMAIN order'
           /\ user_id'[order'[r.order].by] = user_id'[c]
<1>1. /\ r.order \in DOMAIN order' /\ order'[r.order] = order[r.order]
      /\ Settled(c) /\ user_id[order[r.order].by] = user_id[c]
    BY OrderStays DEF Fits
<1>2. PICK d \in Conns : d = order[r.order].by /\ Settled(d)
    BY OrderStays DEF Fits, OrderInv
<1>3. user_id'[d] = user_id[d] /\ user_id'[c] = user_id[c] /\ Settled(c)'
    BY <1>1, <1>2, SettledStays
<1> QED
    BY <1>1, <1>2, <1>3

LEMMA GotStep ==
    ASSUME SessionInv, OrderInv, LinkInv, GotInv, [Next]_vars
    PROVE  GotInv'
<1>1. \A c \in Conns : \A i \in DOMAIN got[c] : Fits(c, got[c][i])
    BY DEF GotInv, Fits
<1>2. CASE got' = got
    <2>1. ASSUME NEW c \in Conns, NEW i \in DOMAIN got[c]
          PROVE  /\ Settled(c)' /\ got[c][i].order \in DOMAIN order'
                 /\ user_id'[order'[got[c][i].order].by] = user_id'[c]
        BY <1>1, FitsStays
    <2> QED
        BY <1>2, <2>1 DEF GotInv
<1>3. ASSUME NEW w \in Workers, WorkerRspOrder(w) PROVE GotInv'
    <2>1. PICK s \in Seq(Response) : s = wire_down[w] /\ s # <<>>
        BY <1>3 DEF WorkerRspOrder, LinkInv, LinkTypes
    <2>2. PICK r \in Response : r = Head(s) /\ r.order \in Proper(w)
        <3>1. 1 \in DOMAIN s /\ Head(s) = s[1] /\ Head(s) \in Response
            BY <2>1, TailFacts
        <3>2. s[1].order \in Proper(w)
            BY <2>1, <3>1 DEF LinkInv, DownInv
        <3> QED
            BY <3>1, <3>2
    <2>3. got' = [c \in Conns |-> IF c \in ListOf(w, order[r.order].user_id)
                                  THEN Append(got[c], r) ELSE got[c]]
        BY <1>3, <2>1, <2>2 DEF WorkerRspOrder
    <2>4. ASSUME NEW c \in Conns, c \in ListOf(w, order[r.order].user_id)
          PROVE  Fits(c, r)
        BY <2>2, <2>4 DEF ListOf, Fits, Proper, Settled, SessionInv
    <2>5. ASSUME NEW c \in Conns
          PROVE  /\ got'[c] \in Seq(Response)
                 /\ \A i \in DOMAIN got'[c] : Fits(c, got'[c][i])
        <3>1. PICK g \in Seq(Response) : g = got[c]
            BY DEF GotInv
        <3>2. CASE c \in ListOf(w, order[r.order].user_id)
            <4>1. got'[c] = Append(g, r)
                BY <2>3, <3>1, <3>2
            <4>2. /\ Append(g, r) \in Seq(Response)
                  /\ Append(g, r)[Len(g) + 1] = r
                  /\ \A i \in DOMAIN g : Append(g, r)[i] = g[i]
                  /\ \A i \in DOMAIN Append(g, r) : i \in DOMAIN g \/ i = Len(g) + 1
                BY AppendFacts
            <4>3. \A i \in DOMAIN Append(g, r) : Fits(c, Append(g, r)[i])
                <5>1. Fits(c, r) /\ \A i \in DOMAIN g : Fits(c, g[i])
                    BY <1>1, <2>4, <3>1, <3>2
                <5> QED
                    BY <4>2, <5>1
            <4> QED
                BY <4>1, <4>2, <4>3
        <3>3. CASE c \notin ListOf(w, order[r.order].user_id)
            BY <1>1, <2>3, <3>1, <3>3
        <3> QED
            BY <3>2, <3>3
    <2>6. ASSUME NEW c \in Conns, NEW i \in DOMAIN got'[c]
          PROVE  /\ Settled(c)' /\ got'[c][i].order \in DOMAIN order'
                 /\ user_id'[order'[got'[c][i].order].by] = user_id'[c]
        <3>1. PICK q : q = got'[c][i] /\ Fits(c, q)
            BY <2>5
        <3> QED
            BY <3>1, FitsStays
    <2>7. got' \in [Conns -> Seq(Response)]
        BY <2>3, <2>5
    <2> QED
        BY <2>6, <2>7 DEF GotInv
<1> QED
    BY <1>2, <1>3, GotSteps

\* Only a client that sends a response adds to what is not of the exchange.
LEMMA UnaskedSteps ==
    ASSUME [Next]_vars
    PROVE  \/ unasked' = unasked
           \/ \E c \in Strays, u \in UserIds : WorkerRspOrderOfClient(c, u)
<1>1. ASSUME NEW c \in Conns,
             \/ OnListenConnect(c) \/ OnListenClose(c) \/ ListenRelease(c)
             \/ OnWorkerAddClient(c) \/ OnWorkerCloseClient(c)
             \/ \E u \in UserIds : ListenLogin(c, u) \/ WorkerReqOrder(c, u)
      PROVE  unasked' = unasked
    BY <1>1 DEF OnListenConnect, OnListenClose, ListenRelease, OnWorkerAddClient,
                OnWorkerCloseClient, ListenLogin, WorkerReqOrder
<1>2. ASSUME NEW w \in Workers,
             \/ WorkerRspOrder(w) \/ ConnectUpstream(w) \/ OnWorkerAddUpstream(w)
             \/ OnWorkerCloseUpstream(w) \/ ExchangeTake(w) \/ ExchangeRound(w)
      PROVE  unasked' = unasked
    BY <1>2 DEF WorkerRspOrder, ConnectUpstream, OnWorkerAddUpstream, OnWorkerCloseUpstream,
                ExchangeTake, ExchangeRound
<1>3. UNCHANGED vars => unasked' = unasked
    BY DEF vars
<1> QED
    BY <1>1, <1>2, <1>3 DEF Next

LEMMA UnaskedStep ==
    ASSUME SessionInv, UnaskedInv, [Next]_vars
    PROVE  UnaskedInv'
<1>1. ASSUME unasked' \in [Conns -> SUBSET [by : Conns, user_id : UserIds]],
             \A c \in Conns : \A r \in unasked'[c] :
                 /\ Settled(c) /\ Settled(r.by)
                 /\ r.user_id = user_id[c] /\ WorkerOf(r.by) = WorkerOf(c)
      PROVE  UnaskedInv'
    <2>1. ASSUME NEW c \in Conns, NEW r \in unasked'[c]
          PROVE  /\ Settled(c)' /\ Settled(r.by)'
                 /\ r.user_id = user_id'[c] /\ WorkerOf(r.by)' = WorkerOf(c)'
        <3>1. PICK d \in Conns : d = r.by
            BY <1>1, <2>1
        <3>2. /\ Settled(c)' /\ user_id'[c] = user_id[c] /\ WorkerOf(c)' = WorkerOf(c)
              /\ Settled(d)' /\ WorkerOf(d)' = WorkerOf(d)
            BY <1>1, <3>1, SettledStays
        <3>3. r.user_id = user_id[c] /\ WorkerOf(d) = WorkerOf(c)
            BY <1>1, <3>1
        <3> QED
            BY <3>1, <3>2, <3>3 DEF Settled, WorkerOf
    <2> QED
        BY <1>1, <2>1 DEF UnaskedInv
<1>2. CASE unasked' = unasked
    BY <1>1, <1>2 DEF UnaskedInv
<1>3. ASSUME NEW b \in Strays, NEW u \in UserIds, WorkerRspOrderOfClient(b, u)
      PROVE  UnaskedInv'
    <2>1. b \in Conns /\ Settled(b)
        BY <1>3, StraysAssumption DEF WorkerRspOrderOfClient, Settled
    <2> DEFINE g == [by |-> b, user_id |-> u]
    <2>0. g \in [by : Conns, user_id : UserIds] /\ g.by = b /\ g.user_id = u
        BY <2>1
    <2>2. PICK f : f = g
        OBVIOUS
    <2>5. f \in [by : Conns, user_id : UserIds] /\ f.by = b /\ f.user_id = u
        BY <2>0, <2>2
    <2>3. CASE unasked' = unasked
        BY <1>2, <2>3
    <2>4. CASE unasked' = [d \in Conns |-> IF d \in ListOf(WorkerOf(b), u)
                                           THEN unasked[d] \cup {f} ELSE unasked[d]]
        <3>1. unasked' \in [Conns -> SUBSET [by : Conns, user_id : UserIds]]
            BY <2>4, <2>5 DEF UnaskedInv
        <3>2. ASSUME NEW c \in Conns, NEW r \in unasked'[c]
              PROVE  /\ Settled(c) /\ Settled(r.by)
                     /\ r.user_id = user_id[c] /\ WorkerOf(r.by) = WorkerOf(c)
            <4>1. CASE r \in unasked[c]
                BY <4>1 DEF UnaskedInv
            <4>2. CASE r = f /\ c \in ListOf(WorkerOf(b), u)
                <5>1. c \in listed /\ WorkerOf(c) = WorkerOf(b) /\ user_id[c] = u
                    BY <4>2 DEF ListOf
                <5>2. Settled(c)
                    BY <5>1 DEF Settled, SessionInv
                <5> QED
                    BY <2>1, <2>5, <4>2, <5>1, <5>2
            <4> QED
                BY <2>4, <4>1, <4>2
        <3> QED
            BY <1>1, <3>1, <3>2
    <2> QED
        BY <1>3, <2>2, <2>3, <2>4 DEF WorkerRspOrderOfClient
<1> QED
    BY <1>2, <1>3, UnaskedSteps

-----------------------------------------------------------------------------
(* The theorems.                                                            *)

LEMMA InitInv == Init => Inv
<1> SUFFICES ASSUME Init PROVE Inv
    OBVIOUS
<1>1. SessionInv
    BY NoConnAssumption DEF Init, SessionInv, SessionTypes, Held
<1>2. OrderInv
    <2>1. order = <<>> /\ order \in Seq([by : Conns, user_id : UserIds])
          /\ Len(order) = 0 /\ DOMAIN order = {}
        BY EmptySeq DEF Init
    <2> QED
        BY <2>1, Bounds DEF OrderInv
<1>3. LinkInv
    <2>1. LinkTypes
        <3>1. /\ <<>> \in Seq(Order) /\ <<>> \in Seq(Response)
              /\ 0 \in 0..MaxBreak /\ 0 \in 0..MaxRsp
            BY EmptySeq, Bounds
        <3> QED
            BY <3>1 DEF Init, LinkTypes
    <2>2. \A w \in Workers : wire_up[w] = <<>> /\ pending[w] = {} /\ wire_down[w] = <<>>
        BY DEF Init
    <2>3. \A w \in Workers : UpInv(w) /\ PendingInv(w) /\ DownInv(w)
        BY <2>2 DEF UpInv, PendingInv, DownInv
    <2> QED
        BY <2>1, <2>3 DEF Init, LinkInv
<1>4. GotInv /\ UnaskedInv
    BY DEF Init, GotInv, UnaskedInv
<1> QED
    BY <1>1, <1>2, <1>3, <1>4 DEF Inv

\* Everything above holds of every run.
THEOREM Invariant == Spec => []Inv
<1>1. Inv /\ [Next]_vars => Inv'
    BY SessionStep, OrderStep, LinkStep, GotStep, UnaskedStep DEF Inv
<1> QED
    BY InitInv, <1>1, PTL DEF Spec

\* The type invariant of the model.
THEOREM TypeCorrect == Spec => []TypeOK
<1>1. Inv => TypeOK
    BY DEF Inv, SessionInv, SessionTypes, OrderInv, LinkInv, LinkTypes, GotInv,
       UnaskedInv, TypeOK
<1> QED
    BY Invariant, <1>1, PTL

\* A session in a list of its worker is with the worker, and its context has not
\* been freed: the worker writes the responses of a user to live contexts only,
\* whenever the listener gives up its own reference.
THEOREM SessionsListedLive == Spec => []ListedLive
<1>1. Inv => ListedLive
    BY DEF Inv, SessionInv, SessionTypes, Held, ListedLive
<1> QED
    BY Invariant, <1>1, PTL

\* However the sessions, the workers and the breaks of the links interleave, a
\* client is never written a response of the exchange to an order of another user;
\* and a frame that a client sends as if it were the exchange reaches sessions of
\* the user it names only, at the sender's own worker (worker_handle_message,
\* REQ_ORDER and RSP_ORDER).
THEOREM OwnResponses == Spec => []OwnResponsesOnly
<1>1. Inv => OwnResponsesOnly
    BY DEF Inv, GotInv, UnaskedInv, OwnResponsesOnly
<1> QED
    BY Invariant, <1>1, PTL

-----------------------------------------------------------------------------
(* The server as a gateway.                                                 *)

\* Every response on a link was given by the exchange, and those of an order
\* are in the order they were given in.
ReplyInv(w) ==
    /\ \A i \in DOMAIN wire_down[w] :
          wire_down[w][i].rsp_cnt <= answers[wire_down[w][i].order]
    /\ \A i, j \in DOMAIN wire_down[w] :
          i < j /\ wire_down[w][i].order = wire_down[w][j].order =>
              wire_down[w][i].rsp_cnt < wire_down[w][j].rsp_cnt

\* A session on its way to a worker has logged in.
LoggedIn ==
    \A c \in Conns : place[c] \in {"login", "handover"} => user_id[c] \in UserIds

GatewayInv == (\A w \in Workers : ReplyInv(w)) /\ LoggedIn

LEMMA LoggedInStep == SessionInv /\ LoggedIn /\ [Next]_vars => LoggedIn'
<1> SUFFICES ASSUME SessionInv, LoggedIn, [Next]_vars PROVE LoggedIn'
    OBVIOUS
<1> USE DEF LoggedIn, SessionInv, SessionTypes
<1>1. UNCHANGED <<place, user_id>> => LoggedIn'
    OBVIOUS
<1>2. ASSUME NEW c \in Conns, OnListenConnect(c) \/ OnListenClose(c) \/ OnWorkerAddClient(c)
             \/ OnWorkerCloseClient(c)
      PROVE  LoggedIn'
    BY <1>2 DEF OnListenConnect, OnListenClose, OnWorkerAddClient, OnWorkerCloseClient
<1>3. ASSUME NEW c \in Conns, NEW u \in UserIds, ListenLogin(c, u) PROVE LoggedIn'
    BY <1>3 DEF ListenLogin
<1>4. ASSUME NEW c \in Conns, NEW u, ListenRelease(c) \/ WorkerReqOrder(c, u)
      PROVE  LoggedIn'
    BY <1>1, <1>4 DEF ListenRelease, WorkerReqOrder, sessionVars
<1>5. ASSUME NEW w \in Workers,
             \/ WorkerRspOrder(w) \/ ConnectUpstream(w) \/ OnWorkerAddUpstream(w)
             \/ OnWorkerCloseUpstream(w) \/ ExchangeTake(w) \/ ExchangeRound(w)
      PROVE  LoggedIn'
    BY <1>1, <1>5 DEF WorkerRspOrder, ConnectUpstream, OnWorkerAddUpstream, OnWorkerCloseUpstream,
                      ExchangeTake, ExchangeRound, sessionVars
<1>6. ASSUME NEW c \in Strays, NEW u \in UserIds, WorkerRspOrderOfClient(c, u)
      PROVE  LoggedIn'
    BY <1>1, <1>6, RspOfClientQuiet
<1>7. UNCHANGED vars => LoggedIn'
    BY <1>1 DEF vars
<1> QED
    BY <1>2, <1>3, <1>4, <1>5, <1>6, <1>7 DEF Next

\* A round names each order of the list once.
LEMMA RoundFacts ==
    ASSUME OrderInv, LinkInv, NEW w \in Workers, NEW s \in OldestFirst(pending[w])
    PROVE  /\ Answers(s) \in Seq(Response)
           /\ DOMAIN Answers(s) = DOMAIN s /\ DOMAIN s \subseteq Nat
           /\ \A i \in DOMAIN s : /\ s[i] \in pending[w] /\ s[i] \in Order
                                  /\ Answers(s)[i].order = s[i]
                                  /\ Answers(s)[i].rsp_cnt = answers[s[i]] + 1
           /\ \A i, j \in DOMAIN s : i < j => s[i] # s[j]
           /\ \A o \in pending[w] : \E i \in DOMAIN s : s[i] = o
<1>1. pending[w] \subseteq Order
    BY DEF LinkInv, LinkTypes
<1>2. IsFiniteSet(Order)
    BY Bounds, FS_Interval DEF Order
<1>3. IsFiniteSet(pending[w])
    BY <1>1, <1>2, FS_Subset
<1>4. PICK n \in Nat : n = Cardinality(pending[w])
    BY <1>3, FS_CardinalityType
<1>5. s \in [1..n -> pending[w]] /\ \A i, j \in 1..n : i < j => s[i] < s[j]
    BY <1>4 DEF OldestFirst
<1>6. \A i \in 1..n : s[i] \in Nat
    BY <1>1, <1>5, Bounds
<1>7. \A i, j \in 1..n : i # j => s[i] # s[j]
    <2> TAKE i, j \in 1..n
    <2>1. i # j => i < j \/ j < i
        OBVIOUS
    <2>2. s[i] \in Nat /\ s[j] \in Nat
        BY <1>6
    <2> QED
        BY <1>5, <2>1, <2>2
<1>8. s \in Injection(1..n, pending[w])
    BY <1>5, <1>7 DEF Injection, IsInjective
<1>9. Cardinality(1..n) = n
    BY FS_Interval
<1>10. s \in Surjection(1..n, pending[w])
    BY <1>3, <1>4, <1>8, <1>9, FS_Injection
<1>11. \A o \in pending[w] : \E i \in 1..n : s[i] = o
    BY <1>10 DEF Surjection
<1>12. DOMAIN Answers(s) = 1..n /\ DOMAIN s = 1..n
       /\ \A i \in 1..n : /\ Answers(s)[i].order = s[i]
                          /\ Answers(s)[i].rsp_cnt = answers[s[i]] + 1
    BY <1>5 DEF Answers
<1>13. \A i, j \in 1..n : i < j => s[i] # s[j]
    <2> TAKE i, j \in 1..n
    <2>1. i < j => i # j
        OBVIOUS
    <2> QED
        BY <1>7, <2>1
<1> QED
    BY <1>1, <1>5, <1>11, <1>12, <1>13, AnswersFacts

\* A round puts its responses behind those on the link.
LEMMA RoundOnLink ==
    ASSUME OrderInv, LinkInv, NEW w \in Workers, NEW s \in OldestFirst(pending[w]),
           wire_down'[w] = wire_down[w] \o Answers(s),
           NEW D \in Nat, D = Len(wire_down[w])
    PROVE  /\ DOMAIN wire_down[w] = 1..D
           /\ \A i \in DOMAIN wire_down[w] : /\ i \in DOMAIN wire_down'[w]
                                             /\ wire_down'[w][i] = wire_down[w][i]
           /\ \A i \in DOMAIN s : /\ D + i \in DOMAIN wire_down'[w]
                                  /\ wire_down'[w][D + i].order = s[i]
                                  /\ wire_down'[w][D + i].rsp_cnt = answers[s[i]] + 1
           /\ \A j \in DOMAIN wire_down'[w] :
                 /\ j \in Nat
                 /\ j \in DOMAIN wire_down[w] \/ (~(j <= D) /\ j - D \in DOMAIN s)
<1>1. PICK d \in Seq(Response), a \in Seq(Response) : d = wire_down[w] /\ a = Answers(s)
    BY RoundFacts DEF LinkInv, LinkTypes
<1>2. wire_down'[w] = d \o a
    BY <1>1
<1>3. D = Len(d) /\ DOMAIN d = 1..D
    BY <1>1, LenProperties
<1>4. PICK A \in Nat : A = Len(a) /\ DOMAIN a = 1..A
    BY LenProperties
<1>5. /\ d \o a \in Seq(Response) /\ Len(d \o a) = D + A
      /\ \A i \in 1..(D + A) : (d \o a)[i] = IF i <= D THEN d[i] ELSE a[i - D]
    BY <1>3, <1>4, ConcatProperties
<1>6. DOMAIN (d \o a) = 1..(D + A)
    BY <1>5, LenProperties
<1>7. \A i \in 1..D : i \in 1..(D + A) /\ (d \o a)[i] = d[i]
    BY <1>5
<1>8. \A i \in 1..A : D + i \in 1..(D + A) /\ (d \o a)[D + i] = a[i]
    <2> TAKE i \in 1..A
    <2>1. D + i \in 1..(D + A) /\ ~(D + i <= D) /\ (D + i) - D = i
        OBVIOUS
    <2> QED
        BY <1>5, <2>1
<1>9. ASSUME NEW j \in 1..(D + A)
      PROVE  j \in Nat /\ (j \in 1..D \/ (~(j <= D) /\ j - D \in 1..A))
    <2>1. j \in Nat /\ (j \in 1..D \/ ~(j <= D))
        OBVIOUS
    <2>2. ~(j <= D) => j - D \in 1..A
        OBVIOUS
    <2> QED
        BY <2>1, <2>2
<1>10. DOMAIN s = 1..A
       /\ \A i \in 1..A : a[i].order = s[i] /\ a[i].rsp_cnt = answers[s[i]] + 1
    BY <1>1, <1>4, RoundFacts
<1>11. DOMAIN wire_down'[w] = 1..(D + A) /\ DOMAIN wire_down[w] = 1..D
    BY <1>1, <1>2, <1>3, <1>6
<1>12. \A i \in 1..D : i \in DOMAIN wire_down'[w] /\ wire_down'[w][i] = wire_down[w][i]
    BY <1>1, <1>2, <1>7, <1>11
<1>13. \A i \in 1..A : /\ D + i \in DOMAIN wire_down'[w]
                       /\ wire_down'[w][D + i] = a[i]
    BY <1>2, <1>8, <1>11
<1>14. \A i \in 1..A : /\ wire_down'[w][D + i].order = s[i]
                       /\ wire_down'[w][D + i].rsp_cnt = answers[s[i]] + 1
    BY <1>10, <1>13
<1>15. \A j \in DOMAIN wire_down'[w] :
          /\ j \in Nat
          /\ j \in DOMAIN wire_down[w] \/ (~(j <= D) /\ j - D \in DOMAIN s)
    <2>1. DOMAIN s = 1..A
        BY <1>10
    <2> QED
        BY <1>9, <1>11, <2>1
<1>16. DOMAIN s = 1..A
    BY <1>10
<1> QED
    BY <1>2, <1>11, <1>12, <1>13, <1>14, <1>15, <1>16

\* A link that keeps a part of its responses, the later ones.
LEMMA ReplyShift ==
    ASSUME NEW w \in Workers, ReplyInv(w), UNCHANGED answers, NEW d \in {0, 1},
           \A i \in DOMAIN wire_down'[w] : /\ i \in Nat /\ i + d \in DOMAIN wire_down[w]
                                           /\ wire_down'[w][i] = wire_down[w][i + d]
    PROVE  ReplyInv(w)'
<1>1. ASSUME NEW i \in DOMAIN wire_down'[w]
      PROVE  wire_down'[w][i].rsp_cnt <= answers'[wire_down'[w][i].order]
    BY DEF ReplyInv
<1>2. ASSUME NEW i \in DOMAIN wire_down'[w], NEW j \in DOMAIN wire_down'[w], i < j,
             wire_down'[w][i].order = wire_down'[w][j].order
      PROVE  wire_down'[w][i].rsp_cnt < wire_down'[w][j].rsp_cnt
    <2>1. i + d < j + d
        BY <1>2
    <2> QED
        BY <1>2, <2>1 DEF ReplyInv
<1> QED
    BY <1>1, <1>2 DEF ReplyInv

LEMMA ReplyExchangeRound ==
    ASSUME OrderInv, LinkInv, \A v \in Workers : ReplyInv(v),
           NEW w \in Workers, ExchangeRound(w), NEW v \in Workers
    PROVE  ReplyInv(v)'
<1>1. PICK s \in OldestFirst(pending[w]) :
          wire_down' = [wire_down EXCEPT ![w] = @ \o Answers(s)]
    BY DEF ExchangeRound
<1>2. answers' = [o \in Order |-> IF o \in pending[w] THEN answers[o] + 1 ELSE answers[o]]
    BY DEF ExchangeRound
<1>3. \A o \in Order : /\ answers[o] \in Nat /\ answers'[o] \in Nat
                       /\ answers[o] <= answers'[o]
                       /\ o \in pending[w] => answers'[o] = answers[o] + 1
    <2>1. \A o \in Order : answers[o] \in Nat
        BY Bounds DEF LinkInv, LinkTypes
    <2> QED
        BY <1>2, <2>1
<1>4. \A u \in Workers : \A i \in DOMAIN wire_down[u] :
          /\ i \in Nat /\ wire_down[u][i].order \in Order /\ wire_down[u][i].rsp_cnt \in Nat
    <2> TAKE u \in Workers
    <2>1. wire_down[u] \in Seq(Response)
        BY DEF LinkInv, LinkTypes
    <2> TAKE i \in DOMAIN wire_down[u]
    <2>2. i \in Nat /\ wire_down[u][i] \in Response
        BY <2>1, LenProperties, ElementOfSeq
    <2> QED
        BY <2>2, Bounds DEF Response
<1>5. \A u \in Workers : \A i \in DOMAIN wire_down[u] :
          wire_down[u][i].rsp_cnt <= answers'[wire_down[u][i].order]
    <2> TAKE u \in Workers
    <2> TAKE i \in DOMAIN wire_down[u]
    <2>1. wire_down[u][i].rsp_cnt <= answers[wire_down[u][i].order]
        BY DEF ReplyInv
    <2> QED
        BY <1>3, <1>4, <2>1
<1> PICK D \in Nat : D = Len(wire_down[w])
    BY LenProperties DEF LinkInv, LinkTypes
<1>8. /\ DOMAIN wire_down[w] = 1..D
      /\ \A i \in DOMAIN wire_down[w] : /\ i \in DOMAIN wire_down'[w]
                                        /\ wire_down'[w][i] = wire_down[w][i]
      /\ \A i \in DOMAIN s : /\ D + i \in DOMAIN wire_down'[w]
                             /\ wire_down'[w][D + i].order = s[i]
                             /\ wire_down'[w][D + i].rsp_cnt = answers[s[i]] + 1
      /\ \A j \in DOMAIN wire_down'[w] :
            /\ j \in Nat
            /\ j \in DOMAIN wire_down[w] \/ (~(j <= D) /\ j - D \in DOMAIN s)
    <2>1. wire_down'[w] = wire_down[w] \o Answers(s)
        BY <1>1 DEF LinkInv, LinkTypes
    <2> QED
        BY <2>1, RoundOnLink
<1>6. CASE v # w
    <2>1. wire_down'[v] = wire_down[v]
        BY <1>1, <1>6 DEF LinkInv, LinkTypes
    <2> QED
        BY <1>5, <2>1 DEF ReplyInv
<1>7. CASE v = w
    <2>1. DOMAIN wire_down[w] = 1..D
        BY <1>8
    <2>2. \A i \in DOMAIN wire_down[w] : wire_down'[w][i] = wire_down[w][i]
        BY <1>8
    <2>3. \A i \in DOMAIN s : /\ wire_down'[w][D + i].order = s[i]
                              /\ wire_down'[w][D + i].rsp_cnt = answers[s[i]] + 1
                              /\ i \in Nat /\ s[i] \in pending[w] /\ s[i] \in Order
        <3>1. \A i \in DOMAIN s : /\ wire_down'[w][D + i].order = s[i]
                                  /\ wire_down'[w][D + i].rsp_cnt = answers[s[i]] + 1
            BY <1>8
        <3>2. \A i \in DOMAIN s : i \in Nat /\ s[i] \in pending[w] /\ s[i] \in Order
            BY RoundFacts
        <3> QED
            BY <3>1, <3>2
    <2>4. \A j \in DOMAIN wire_down'[w] :
             /\ j \in Nat
             /\ j \in DOMAIN wire_down[w] \/ (~(j <= D) /\ \E i \in DOMAIN s : j = D + i)
        <3> TAKE j \in DOMAIN wire_down'[w]
        <3>1. /\ j \in Nat
              /\ j \in DOMAIN wire_down[w] \/ (~(j <= D) /\ j - D \in DOMAIN s)
            BY <1>8
        <3>2. j = D + (j - D)
            BY <3>1
        <3> QED
            BY <3>1, <3>2
    <2>5. ASSUME NEW j \in DOMAIN wire_down'[w]
          PROVE  wire_down'[w][j].rsp_cnt <= answers'[wire_down'[w][j].order]
        <3>1. CASE j \in DOMAIN wire_down[w]
            BY <1>5, <2>2, <3>1
        <3>2. ASSUME NEW i \in DOMAIN s, j = D + i
              PROVE  wire_down'[w][j].rsp_cnt <= answers'[wire_down'[w][j].order]
            <4>1. answers[s[i]] + 1 <= answers'[s[i]]
                BY <1>3, <2>3
            <4> QED
                BY <2>3, <3>2, <4>1
        <3> QED
            BY <2>4, <3>1, <3>2
    <2>6. ASSUME NEW h \in DOMAIN wire_down'[w], NEW j \in DOMAIN wire_down'[w], h < j,
                 wire_down'[w][h].order = wire_down'[w][j].order
          PROVE  wire_down'[w][h].rsp_cnt < wire_down'[w][j].rsp_cnt
        <3>1. CASE j \in DOMAIN wire_down[w]
            <4>1. h \in DOMAIN wire_down[w]
                BY <2>1, <2>4, <2>6, <3>1
            <4> QED
                BY <2>2, <2>6, <3>1, <4>1 DEF ReplyInv
        <3>2. ASSUME NEW i \in DOMAIN s, j = D + i, h \in DOMAIN wire_down[w]
              PROVE  wire_down'[w][h].rsp_cnt < wire_down'[w][j].rsp_cnt
            <4>1. PICK n \in Nat : n = wire_down[w][h].rsp_cnt
                BY <1>4, <3>2
            <4>2. n <= answers[s[i]]
                BY <2>2, <2>3, <2>6, <3>2, <4>1 DEF ReplyInv
            <4>3. n < answers[s[i]] + 1
                BY <1>3, <2>3, <4>2
            <4> QED
                BY <2>2, <2>3, <3>2, <4>1, <4>3
        <3>3. ASSUME NEW i \in DOMAIN s, j = D + i, NEW g \in DOMAIN s, h = D + g
              PROVE  FALSE
            <4>1. g < i
                BY <2>3, <2>6, <3>3
            <4>2. s[g] # s[i]
                <5>1. \A k, l \in DOMAIN s : k < l => s[k] # s[l]
                    BY RoundFacts
                <5> QED
                    BY <4>1, <5>1
            <4> QED
                BY <2>3, <2>6, <3>3, <4>2
        <3> QED
            BY <2>4, <3>1, <3>2, <3>3
    <2> QED
        BY <1>7, <2>5, <2>6 DEF ReplyInv
<1> QED
    BY <1>6, <1>7

LEMMA ReplyStep ==
    ASSUME OrderInv, LinkInv, \A v \in Workers : ReplyInv(v), [Next]_vars, NEW v \in Workers
    PROVE  ReplyInv(v)'
<1>1. UNCHANGED <<wire_down, answers>> => ReplyInv(v)'
    BY DEF ReplyInv
<1>2. ASSUME NEW c \in Conns,
             \/ OnListenConnect(c) \/ OnListenClose(c) \/ ListenRelease(c)
             \/ OnWorkerAddClient(c) \/ OnWorkerCloseClient(c)
             \/ \E u \in UserIds : ListenLogin(c, u) \/ WorkerReqOrder(c, u)
      PROVE  ReplyInv(v)'
    BY <1>1, <1>2 DEF OnListenConnect, OnListenClose, ListenRelease, OnWorkerAddClient,
                      OnWorkerCloseClient, ListenLogin, WorkerReqOrder, wireVars
<1>3. ASSUME NEW w \in Workers, ConnectUpstream(w) \/ OnWorkerAddUpstream(w) \/ ExchangeTake(w)
      PROVE  ReplyInv(v)'
    BY <1>1, <1>3 DEF ConnectUpstream, OnWorkerAddUpstream, ExchangeTake, wireVars
<1>4. UNCHANGED vars => ReplyInv(v)'
    BY <1>1 DEF vars
<1>5. wire_down[v] \in Seq(Response)
    BY DEF LinkInv, LinkTypes
<1>6. ASSUME NEW w \in Workers, WorkerRspOrder(w) PROVE ReplyInv(v)'
    <2>1. /\ UNCHANGED answers /\ wire_down[w] # <<>>
          /\ wire_down' = [wire_down EXCEPT ![w] = Tail(@)]
        BY <1>6 DEF WorkerRspOrder
    <2>2. CASE v = w
        <3>1. wire_down'[v] = Tail(wire_down[v])
            BY <2>1, <2>2 DEF LinkInv, LinkTypes
        <3>2. PICK t \in Seq(Response) : t = wire_down[v] /\ t # <<>>
            BY <1>5, <2>1, <2>2
        <3>3. \A i \in DOMAIN Tail(t) : i \in Nat /\ i + 1 \in DOMAIN t /\ Tail(t)[i] = t[i + 1]
            BY <3>2, TailFacts
        <3>4. ReplyInv(v)
            OBVIOUS
        <3> QED
            BY <2>1, <3>1, <3>2, <3>3, <3>4, ReplyShift
    <2>3. CASE v # w
        <3>1. wire_down'[v] = wire_down[v]
            BY <2>1, <2>3 DEF LinkInv, LinkTypes
        <3>2. ReplyInv(v) /\ UNCHANGED answers
            BY <2>1
        <3> QED
            BY <3>1, <3>2 DEF ReplyInv
    <2> QED
        BY <2>2, <2>3
<1>7. ASSUME NEW w \in Workers, OnWorkerCloseUpstream(w) PROVE ReplyInv(v)'
    <2>1. /\ UNCHANGED answers
          /\ wire_down'[v] = wire_down[v] \/ wire_down'[v] = <<>>
        BY <1>7 DEF OnWorkerCloseUpstream, LinkInv, LinkTypes
    <2>2. \A i \in DOMAIN wire_down'[v] : i \in DOMAIN wire_down[v] /\ wire_down'[v][i] = wire_down[v][i]
        BY <2>1
    <2> QED
        BY <2>1, <2>2 DEF ReplyInv
<1>8. ASSUME NEW c \in Strays, NEW u \in UserIds, WorkerRspOrderOfClient(c, u)
      PROVE  ReplyInv(v)'
    BY <1>1, <1>8, RspOfClientQuiet
<1> QED
    BY <1>2, <1>3, <1>4, <1>6, <1>7, <1>8, ReplyExchangeRound DEF Next

LEMMA GatewayInvHolds == Spec => [](Inv /\ GatewayInv)
<1>1. Init => GatewayInv
    <2> SUFFICES ASSUME Init PROVE GatewayInv
        OBVIOUS
    <2>1. \A w \in Workers : wire_down[w] = <<>>
        BY DEF Init
    <2> QED
        BY <2>1 DEF Init, GatewayInv, ReplyInv, LoggedIn
<1>2. Inv /\ GatewayInv /\ [Next]_vars => Inv' /\ GatewayInv'
    <2> SUFFICES ASSUME Inv, GatewayInv, [Next]_vars PROVE Inv' /\ GatewayInv'
        OBVIOUS
    <2>1. Inv'
        BY SessionStep, OrderStep, LinkStep, GotStep, UnaskedStep DEF Inv
    <2>2. \A w \in Workers : ReplyInv(w)'
        BY ReplyStep DEF Inv, GatewayInv
    <2>3. LoggedIn'
        BY LoggedInStep DEF Inv, GatewayInv
    <2> QED
        BY <2>1, <2>2, <2>3 DEF GatewayInv
<1> QED
    BY <1>1, <1>2, InitInv, PTL DEF Spec

Served == [c \in Conns |-> IF c \in listed THEN user_id[c] ELSE -1]
UserOf == [o \in DOMAIN order |-> order[o].user_id]
Owed == [o \in Order |-> OnTheWay(o)]

LEMMA OnTheWayIs ==
    ASSUME NEW o, NEW n
    PROVE  /\ n \in OnTheWay(o) <=>
                 \E w \in Workers : \E i \in DOMAIN wire_down[w] :
                     wire_down[w][i].order = o /\ wire_down[w][i].rsp_cnt = n
           /\ n \in OnTheWay(o)' <=>
                 \E w \in Workers : \E i \in DOMAIN wire_down'[w] :
                     wire_down'[w][i].order = o /\ wire_down'[w][i].rsp_cnt = n
<1>1. n \in OnTheWay(o) <=>
          \E w \in Workers : \E i \in DOMAIN wire_down[w] :
              wire_down[w][i].order = o /\ wire_down[w][i].rsp_cnt = n
    <2>1. \A r : r \in UNION {ToSet(wire_down[w]) : w \in Workers}
                 <=> \E w \in Workers : \E i \in DOMAIN wire_down[w] : wire_down[w][i] = r
        BY DEF ToSet
    <2> QED
        BY <2>1 DEF OnTheWay
<1>2. n \in OnTheWay(o)' <=>
          \E w \in Workers : \E i \in DOMAIN wire_down'[w] :
              wire_down'[w][i].order = o /\ wire_down'[w][i].rsp_cnt = n
    <2>1. \A r : r \in UNION {ToSet(wire_down'[w]) : w \in Workers}
                 <=> \E w \in Workers : \E i \in DOMAIN wire_down'[w] : wire_down'[w][i] = r
        BY DEF ToSet
    <2> QED
        BY <2>1 DEF OnTheWay
<1> QED
    BY <1>1, <1>2

LEMMA WireTypes ==
    ASSUME LinkInv, NEW w \in Workers, NEW i \in DOMAIN wire_down[w]
    PROVE  /\ i \in Nat /\ wire_down[w][i] \in Response
           /\ wire_down[w][i].order \in Order /\ wire_down[w][i].rsp_cnt \in Nat
<1>1. wire_down[w] \in Seq(Response)
    BY DEF LinkInv, LinkTypes
<1>2. i \in Nat /\ wire_down[w][i] \in Response
    BY <1>1, LenProperties, ElementOfSeq
<1> QED
    BY <1>2, Bounds DEF Response

LEMMA GatewayQuiet ==
    ASSUME Served' = Served, UNCHANGED <<order, answers, wire_down, got>>
    PROVE  UNCHANGED TheGateway!gatewayVars
<1>1. UserOf' = UserOf /\ Owed' = Owed
    BY DEF UserOf, Owed, OnTheWay
<1> QED
    BY <1>1 DEF TheGateway!gatewayVars, Served, UserOf, Owed

LEMMA GatewayAddClient ==
    ASSUME SessionInv, LoggedIn, NEW c \in Conns, OnWorkerAddClient(c)
    PROVE  (\E u \in UserIds : TheGateway!Serve(c, u)) \/ UNCHANGED TheGateway!gatewayVars
<1>1. /\ place[c] = "handover" /\ listed' \in {listed, listed \cup {c}}
      /\ UNCHANGED <<user_id, order, answers, wire_down, got>>
    BY DEF OnWorkerAddClient, orderVars, wireVars
<1>2. CASE listed' = listed
    BY <1>1, <1>2, GatewayQuiet DEF Served
<1>3. CASE listed' = listed \cup {c}
    <2>1. c \notin listed
        BY <1>1 DEF SessionInv
    <2>2. PICK u \in UserIds : u = user_id[c]
        BY <1>1 DEF LoggedIn
    <2>3. Served[c] = -1 /\ Served' = [Served EXCEPT ![c] = u]
        BY <1>1, <1>3, <2>1, <2>2 DEF Served
    <2>4. UserOf' = UserOf /\ Owed' = Owed
        BY <1>1 DEF UserOf, Owed, OnTheWay
    <2>5. TheGateway!Serve(c, u)
        BY <1>1, <2>3, <2>4 DEF TheGateway!Serve, Served, UserOf, Owed
    <2> QED
        BY <2>5
<1> QED
    BY <1>1, <1>2, <1>3

LEMMA GatewayCloseClient ==
    ASSUME SessionInv, NEW c \in Conns, OnWorkerCloseClient(c)
    PROVE  TheGateway!Leave(c) \/ UNCHANGED TheGateway!gatewayVars
<1>1. /\ listed' = listed \ {c}
      /\ UNCHANGED <<user_id, order, answers, wire_down, got>>
    BY DEF OnWorkerCloseClient, Unlisted, orderVars, wireVars
<1>2. CASE c \notin listed
    <2>1. listed' = listed
        BY <1>1, <1>2
    <2> QED
        BY <1>1, <2>1, GatewayQuiet DEF Served
<1>3. CASE c \in listed
    <2>1. user_id[c] # -1
        BY Bounds DEF SessionInv, SessionTypes
    <2>2. Served[c] # -1 /\ Served' = [Served EXCEPT ![c] = -1]
        BY <1>1, <1>3, <2>1 DEF Served
    <2>3. UserOf' = UserOf /\ Owed' = Owed
        BY <1>1 DEF UserOf, Owed, OnTheWay
    <2>4. TheGateway!Leave(c)
        BY <1>1, <2>2, <2>3 DEF TheGateway!Leave, Served, UserOf, Owed
    <2> QED
        BY <2>4
<1> QED
    BY <1>2, <1>3

LEMMA GatewayReqOrder ==
    ASSUME OrderInv, NEW c \in Conns, NEW u \in UserIds, WorkerReqOrder(c, u)
    PROVE  TheGateway!Submit(u)
<1> DEFINE e == [by |-> c, user_id |-> u]
<1>1. /\ order' = Append(order, e) /\ UNCHANGED <<listed, user_id, answers, wire_down, got>>
      /\ e \in [by : Conns, user_id : UserIds] /\ e.user_id = u
    BY DEF WorkerReqOrder, sessionVars
<1> HIDE DEF e
<1>2. PICK L \in Nat : L = Len(order) /\ DOMAIN order = 1..L
    BY LenProperties DEF OrderInv
<1>3. /\ DOMAIN order' = 1..(L + 1) /\ order'[L + 1] = e
      /\ \A i \in 1..L : order'[i] = order[i]
    <2>1. order \in Seq([by : Conns, user_id : UserIds])
        BY DEF OrderInv
    <2>2. /\ Append(order, e) \in Seq([by : Conns, user_id : UserIds])
          /\ Len(Append(order, e)) = L + 1
          /\ Append(order, e)[L + 1] = e
          /\ \A i \in 1..L : Append(order, e)[i] = order[i]
        BY <1>1, <1>2, <2>1, AppendFacts
    <2> QED
        BY <1>1, <2>2, LenProperties
<1>4. UserOf \in Seq(UserIds) /\ Len(UserOf) = L
    <2>1. ASSUME NEW o \in 1..L PROVE order[o].user_id \in UserIds
        <3>1. order[o] \in [by : Conns, user_id : UserIds]
            BY <1>2, ElementOfSeq DEF OrderInv
        <3> QED
            BY <3>1
    <2>2. UserOf = [o \in 1..L |-> order[o].user_id]
        BY <1>2 DEF UserOf
    <2>3. UserOf \in Seq(UserIds)
        BY <2>1, <2>2, IsASeq
    <2> QED
        BY <2>2, <2>3, LenProperties
<1>5. UserOf' = Append(UserOf, u)
    <2>1. /\ Append(UserOf, u) \in Seq(UserIds) /\ Len(Append(UserOf, u)) = L + 1
          /\ Append(UserOf, u)[L + 1] = u
          /\ \A i \in 1..L : Append(UserOf, u)[i] = UserOf[i]
        BY <1>4, AppendProperties
    <2>2. Append(UserOf, u) = [o \in 1..(L + 1) |-> Append(UserOf, u)[o]]
        BY <2>1, LenProperties
    <2>3. UserOf' = [o \in 1..(L + 1) |-> order'[o].user_id]
        BY <1>3 DEF UserOf
    <2>4. ASSUME NEW o \in 1..(L + 1) PROVE order'[o].user_id = Append(UserOf, u)[o]
        <3>1. CASE o = L + 1
            BY <1>1, <1>3, <2>1, <3>1
        <3>2. CASE o \in 1..L
            BY <1>2, <1>3, <2>1, <3>2 DEF UserOf
        <3>3. o = L + 1 \/ o \in 1..L
            OBVIOUS
        <3> QED
            BY <3>1, <3>2, <3>3
    <2> QED
        BY <2>2, <2>3, <2>4
<1>6. Served' = Served /\ Owed' = Owed
    BY <1>1 DEF Served, Owed, OnTheWay
<1> QED
    BY <1>1, <1>5, <1>6 DEF TheGateway!Submit, Served, UserOf, Owed

LEMMA GatewayCloseUpstream ==
    ASSUME LinkInv, NEW w \in Workers, OnWorkerCloseUpstream(w)
    PROVE  TheGateway!GiveUp
<1>1. /\ UNCHANGED <<listed, user_id, order, answers, got>>
      /\ wire_down' = [wire_down EXCEPT ![w] = <<>>]
    BY DEF OnWorkerCloseUpstream, sessionVars
<1>2. ASSUME NEW o \in Order, NEW n \in OnTheWay(o)' PROVE n \in OnTheWay(o)
    <2>1. PICK v \in Workers : \E i \in DOMAIN wire_down'[v] :
              wire_down'[v][i].order = o /\ wire_down'[v][i].rsp_cnt = n
        BY OnTheWayIs
    <2>2. wire_down'[v] = wire_down[v]
        BY <1>1, <2>1 DEF LinkInv, LinkTypes
    <2> QED
        BY <2>1, <2>2, OnTheWayIs
<1>3. DOMAIN Owed' = Order /\ \A o \in Order : Owed'[o] \subseteq Owed[o]
    BY <1>2 DEF Owed
<1>4. Served' = Served /\ UserOf' = UserOf
    BY <1>1 DEF Served, UserOf
<1> QED
    BY <1>1, <1>3, <1>4 DEF TheGateway!GiveUp, Served, UserOf, Owed

\* A round of the exchange on the link of w.
LEMMA GatewayExchangeRound ==
    ASSUME OrderInv, LinkInv, NEW w \in Workers, ExchangeRound(w)
    PROVE  TheGateway!Answer(pending[w])
<1>1. PICK s \in OldestFirst(pending[w]) :
          wire_down' = [wire_down EXCEPT ![w] = @ \o Answers(s)]
    BY DEF ExchangeRound
<1>2. /\ answers' = [o \in Order |-> IF o \in pending[w] THEN answers[o] + 1 ELSE answers[o]]
      /\ UNCHANGED <<listed, user_id, order, got>>
    BY DEF ExchangeRound, sessionVars, orderVars
<1>3. \A o \in pending[w] : o \in DOMAIN order /\ o \in Order /\ answers[o] < MaxRsp
    BY DEF LinkInv, LinkTypes, PendingInv, Proper
<1> PICK D \in Nat : D = Len(wire_down[w])
    BY LenProperties DEF LinkInv, LinkTypes
<1>4. /\ \A i \in DOMAIN wire_down[w] : /\ i \in DOMAIN wire_down'[w]
                                        /\ wire_down'[w][i] = wire_down[w][i]
      /\ \A i \in DOMAIN s : /\ D + i \in DOMAIN wire_down'[w]
                             /\ wire_down'[w][D + i].order = s[i]
                             /\ wire_down'[w][D + i].rsp_cnt = answers[s[i]] + 1
      /\ \A j \in DOMAIN wire_down'[w] :
            j \in Nat /\ (j \in DOMAIN wire_down[w] \/ j - D \in DOMAIN s)
    <2>1. wire_down'[w] = wire_down[w] \o Answers(s)
        BY <1>1 DEF LinkInv, LinkTypes
    <2> QED
        BY <2>1, RoundOnLink
<1>5. \A v \in Workers : v # w => wire_down'[v] = wire_down[v]
    BY <1>1 DEF LinkInv, LinkTypes
<1>6. /\ \A i \in DOMAIN s : s[i] \in pending[w]
      /\ \A o \in pending[w] : \E i \in DOMAIN s : s[i] = o
      /\ DOMAIN s \subseteq Nat
    BY RoundFacts
<1>7. ASSUME NEW o \in Order, NEW n
      PROVE  n \in OnTheWay(o)' <=> n \in OnTheWay(o) \/ (o \in pending[w] /\ n = answers[o] + 1)
    <2>1. ASSUME NEW v \in Workers, NEW j \in DOMAIN wire_down'[v],
                 wire_down'[v][j].order = o, wire_down'[v][j].rsp_cnt = n
          PROVE  n \in OnTheWay(o) \/ (o \in pending[w] /\ n = answers[o] + 1)
        <3>1. CASE v # w
            BY <1>5, <2>1, <3>1, OnTheWayIs
        <3>2. CASE v = w /\ j \in DOMAIN wire_down[w]
            BY <1>4, <2>1, <3>2, OnTheWayIs
        <3>3. CASE v = w /\ j - D \in DOMAIN s
            <4>1. PICK i \in DOMAIN s : i = j - D
                BY <3>3
            <4>2. j = D + i
                BY <1>4, <1>6, <2>1, <3>3, <4>1
            <4> QED
                BY <1>4, <1>6, <2>1, <3>3, <4>2
        <3> QED
            BY <1>4, <2>1, <3>1, <3>2, <3>3
    <2>2. ASSUME n \in OnTheWay(o) PROVE n \in OnTheWay(o)'
        <3>0. PICK v \in Workers : \E j \in DOMAIN wire_down[v] :
                 wire_down[v][j].order = o /\ wire_down[v][j].rsp_cnt = n
            BY <2>2, OnTheWayIs
        <3>1. PICK j \in DOMAIN wire_down[v] : wire_down[v][j].order = o /\ wire_down[v][j].rsp_cnt = n
            BY <3>0
        <3>2. j \in DOMAIN wire_down'[v] /\ wire_down'[v][j] = wire_down[v][j]
            BY <1>4, <1>5, <3>1
        <3> QED
            BY <3>1, <3>2, OnTheWayIs
    <2>3. ASSUME o \in pending[w], n = answers[o] + 1 PROVE n \in OnTheWay(o)'
        <3>1. PICK i \in DOMAIN s : s[i] = o
            BY <1>6, <2>3
        <3> QED
            BY <1>4, <2>3, <3>1, OnTheWayIs
    <2> QED
        BY <2>1, <2>2, <2>3, OnTheWayIs
<1>8. ASSUME NEW o \in Order
      PROVE  OnTheWay(o)' = IF o \in pending[w] THEN OnTheWay(o) \cup {answers[o] + 1}
                                                ELSE OnTheWay(o)
    <2>1. CASE o \in pending[w]
        <3>1. \A n : n \in OnTheWay(o)' <=> n \in OnTheWay(o) \cup {answers[o] + 1}
            BY <1>7, <2>1
        <3> QED
            BY <2>1, <3>1
    <2>2. CASE o \notin pending[w]
        <3>1. \A n : n \in OnTheWay(o)' <=> n \in OnTheWay(o)
            BY <1>7, <2>2
        <3> QED
            BY <2>2, <3>1
    <2> QED
        BY <2>1, <2>2
<1>9. Owed' = [o \in Order |-> IF o \in pending[w] THEN Owed[o] \cup {answers[o] + 1}
                                                   ELSE Owed[o]]
    BY <1>8 DEF Owed
<1>10. Served' = Served /\ UserOf' = UserOf
    BY <1>2 DEF Served, UserOf
<1>11. \A o \in pending[w] : o \in DOMAIN UserOf
    BY <1>3 DEF UserOf
<1> QED
    BY <1>2, <1>3, <1>9, <1>10, <1>11 DEF TheGateway!Answer, Served, UserOf, Owed

\* The worker passes the oldest response on its link on to all sessions of the
\* user: they all are its own.
LEMMA GatewayRspOrder ==
    ASSUME Inv, GatewayInv, NEW w \in Workers, WorkerRspOrder(w)
    PROVE  \E o \in Order : TheGateway!Relay(o)
<1> USE DEF Inv, GatewayInv
<1>1. PICK t \in Seq(Response) : t = wire_down[w] /\ t # <<>>
    BY DEF WorkerRspOrder, LinkInv, LinkTypes
<1>2. /\ wire_down' = [wire_down EXCEPT ![w] = Tail(t)]
      /\ UNCHANGED <<user_id, listed, order, answers>>
    BY <1>1 DEF WorkerRspOrder, sessionVars, orderVars
<1>3. /\ 1 \in DOMAIN t /\ Head(t) = t[1] /\ t[1] \in Response
      /\ \A i \in DOMAIN Tail(t) : i \in Nat /\ i + 1 \in DOMAIN t /\ Tail(t)[i] = t[i + 1]
    BY <1>1, TailFacts
<1>4. PICK L \in Nat : L = Len(t) /\ DOMAIN t = 1..L /\ DOMAIN Tail(t) = 1..(L - 1)
    <2>1. Tail(t) \in Seq(Response) /\ Len(Tail(t)) = Len(t) - 1
        BY <1>1, HeadTailProperties
    <2> QED
        BY <2>1, LenProperties
<1>5. PICK o \in Order, n \in Nat : o = t[1].order /\ n = t[1].rsp_cnt
    <2>1. t[1].order \in Order /\ t[1].rsp_cnt \in Nat
        BY <1>3, Bounds DEF Response
    <2>2. PICK o \in Order : o = t[1].order
        BY <2>1
    <2>3. PICK n \in Nat : n = t[1].rsp_cnt
        BY <2>1
    <2> QED
        BY <2>2, <2>3
<1>6. t[1] = [order |-> o, rsp_cnt |-> n]
    BY <1>3, <1>5 DEF Response
<1>7. o \in Proper(w) /\ o \in DOMAIN order
    BY <1>1, <1>3, <1>5 DEF LinkInv, DownInv, Proper
<1>8. /\ wire_down'[w] = Tail(t)
      /\ \A v \in Workers : v # w => wire_down'[v] = wire_down[v]
    BY <1>2 DEF LinkInv, LinkTypes
\* The other responses to the order are later ones, on the same link.
<1>9. \A i \in DOMAIN t : i # 1 /\ t[i].order = o => n < t[i].rsp_cnt
    <2>1. ASSUME NEW i \in DOMAIN t, i # 1, t[i].order = o PROVE n < t[i].rsp_cnt
        <3>1. 1 < i
            BY <1>4, <2>1
        <3> QED
            BY <1>1, <1>3, <1>5, <2>1, <3>1 DEF ReplyInv
    <2> QED
        BY <2>1
<1>10. \A v \in Workers : v # w => \A i \in DOMAIN wire_down[v] : wire_down[v][i].order # o
    <2>1. ASSUME NEW v \in Workers, v # w, NEW i \in DOMAIN wire_down[v],
                 wire_down[v][i].order = o
          PROVE  FALSE
        <3>1. o \in Proper(v)
            BY <2>1 DEF LinkInv, DownInv
        <3> QED
            BY <1>7, <2>1, <3>1, ProperFacts
    <2> QED
        BY <2>1
<1>11. n \in OnTheWay(o)
    BY <1>1, <1>3, <1>5, OnTheWayIs
<1>12. \A k \in OnTheWay(o) : k \in Nat /\ (k = n \/ n < k)
    <2> TAKE k \in OnTheWay(o)
    <2>0. PICK v \in Workers : \E i \in DOMAIN wire_down[v] :
             wire_down[v][i].order = o /\ wire_down[v][i].rsp_cnt = k
        BY OnTheWayIs
    <2>1. PICK i \in DOMAIN wire_down[v] : wire_down[v][i].order = o /\ wire_down[v][i].rsp_cnt = k
        BY <2>0
    <2>2. v = w /\ i \in DOMAIN t /\ t[i].order = o /\ t[i].rsp_cnt = k
        BY <1>1, <1>10, <2>1
    <2>3. k \in Nat
        BY <2>1, WireTypes
    <2> QED
        BY <1>5, <1>9, <2>2, <2>3
<1>13. OnTheWay(o)' = OnTheWay(o) \ {n}
    <2>1. ASSUME NEW k \in OnTheWay(o)' PROVE k \in OnTheWay(o) /\ k # n
        <3>0. PICK v \in Workers : \E i \in DOMAIN wire_down'[v] :
                 wire_down'[v][i].order = o /\ wire_down'[v][i].rsp_cnt = k
            BY OnTheWayIs
        <3>1. PICK i \in DOMAIN wire_down'[v] : wire_down'[v][i].order = o /\ wire_down'[v][i].rsp_cnt = k
            BY <3>0
        <3>2. v = w
            BY <1>8, <1>10, <3>1
        <3>3. PICK j \in DOMAIN t : j = i + 1 /\ i \in 1..(L - 1) /\ t[j].order = o /\ t[j].rsp_cnt = k
            BY <1>3, <1>4, <1>8, <3>1, <3>2
        <3>4. j # 1
            BY <3>3
        <3>5. n < k
            BY <1>9, <3>3, <3>4
        <3>6. k \in OnTheWay(o)
            BY <1>1, <3>3, OnTheWayIs
        <3> QED
            BY <1>12, <3>5, <3>6
    <2>2. ASSUME NEW k \in OnTheWay(o), k # n PROVE k \in OnTheWay(o)'
        <3>0. PICK v \in Workers : \E i \in DOMAIN wire_down[v] :
                 wire_down[v][i].order = o /\ wire_down[v][i].rsp_cnt = k
            BY OnTheWayIs
        <3>1. PICK i \in DOMAIN wire_down[v] : wire_down[v][i].order = o /\ wire_down[v][i].rsp_cnt = k
            BY <3>0
        <3>2. v = w /\ i \in DOMAIN t /\ t[i].order = o /\ t[i].rsp_cnt = k /\ i # 1
            BY <1>1, <1>5, <1>10, <2>2, <3>1
        <3>3. PICK j \in DOMAIN Tail(t) : j = i - 1 /\ j + 1 = i
            BY <1>4, <3>2
        <3>4. Tail(t)[j] = t[i]
            BY <1>3, <3>3
        <3> QED
            BY <1>8, <3>2, <3>3, <3>4, OnTheWayIs
    <2> QED
        BY <2>1, <2>2
<1>14. ASSUME NEW q \in Order, q # o PROVE OnTheWay(q)' = OnTheWay(q)
    <2>1. ASSUME NEW k \in OnTheWay(q)' PROVE k \in OnTheWay(q)
        <3>0. PICK v \in Workers : \E i \in DOMAIN wire_down'[v] :
                 wire_down'[v][i].order = q /\ wire_down'[v][i].rsp_cnt = k
            BY OnTheWayIs
        <3>1. PICK i \in DOMAIN wire_down'[v] : wire_down'[v][i].order = q /\ wire_down'[v][i].rsp_cnt = k
            BY <3>0
        <3>2. CASE v = w
            <4>1. PICK j \in DOMAIN t : t[j].order = q /\ t[j].rsp_cnt = k
                BY <1>3, <1>8, <3>1, <3>2
            <4> QED
                BY <1>1, <4>1, OnTheWayIs
        <3>3. CASE v # w
            BY <1>8, <3>1, <3>3, OnTheWayIs
        <3> QED
            BY <3>2, <3>3
    <2>2. ASSUME NEW k \in OnTheWay(q) PROVE k \in OnTheWay(q)'
        <3>0. PICK v \in Workers : \E i \in DOMAIN wire_down[v] :
                 wire_down[v][i].order = q /\ wire_down[v][i].rsp_cnt = k
            BY OnTheWayIs
        <3>1. PICK i \in DOMAIN wire_down[v] : wire_down[v][i].order = q /\ wire_down[v][i].rsp_cnt = k
            BY <3>0
        <3>2. CASE v = w
            <4>1. i \in DOMAIN t /\ i # 1 /\ t[i] = wire_down[v][i]
                BY <1>1, <1>5, <1>14, <3>1, <3>2
            <4>2. PICK j \in DOMAIN Tail(t) : j = i - 1 /\ j + 1 = i
                BY <1>4, <4>1
            <4>3. Tail(t)[j] = t[i]
                BY <1>3, <4>2
            <4> QED
                BY <1>8, <3>1, <3>2, <4>1, <4>2, <4>3, OnTheWayIs
        <3>3. CASE v # w
            BY <1>8, <3>1, <3>3, OnTheWayIs
        <3> QED
            BY <3>2, <3>3
    <2> QED
        BY <2>1, <2>2
<1>15. Owed' = [Owed EXCEPT ![o] = @ \ {n}]
    BY <1>13, <1>14 DEF Owed
<1>16. \A c \in Conns : c \in ListOf(w, order[o].user_id) <=> Served[c] = UserOf[o]
    <2>1. PICK b \in Conns : b = order[o].by
        <3>1. order[o] \in [by : Conns, user_id : UserIds]
            BY <1>7, LenProperties, ElementOfSeq DEF OrderInv
        <3> QED
            BY <3>1
    <2>2. /\ UserOf[o] = order[o].user_id /\ UserOf[o] = user_id[b]
          /\ user_id[b] % NumWorker = w
        BY <1>7, <2>1 DEF UserOf, Proper, WorkerOf
    <2>3. UserOf[o] # -1
        BY <2>1, <2>2, Bounds DEF SessionInv, SessionTypes
    <2>4. \A c \in Conns : user_id[c] = UserOf[o] => WorkerOf(c) = w
        BY <2>2 DEF WorkerOf
    <2> QED
        BY <2>2, <2>3, <2>4 DEF ListOf, Served, SessionInv, SessionTypes
<1>17. got' = [c \in Conns |-> IF Served[c] = UserOf[o]
                               THEN Append(got[c], [order |-> o, rsp_cnt |-> n])
                               ELSE got[c]]
    <2>1. got' = [c \in Conns |-> IF c \in ListOf(w, order[o].user_id)
                                  THEN Append(got[c], t[1]) ELSE got[c]]
        BY <1>1, <1>3, <1>5 DEF WorkerRspOrder
    <2> QED
        BY <1>6, <1>16, <2>1
<1>18. Served' = Served /\ UserOf' = UserOf
    BY <1>2 DEF Served, UserOf
<1>19. n \in Owed[o] /\ \A k \in Owed[o] : n <= k
    <2>1. \A k \in OnTheWay(o) : n <= k
        BY <1>12
    <2> QED
        BY <1>11, <2>1 DEF Owed
<1>20. TheGateway!Relay(o)
    BY <1>2, <1>15, <1>17, <1>18, <1>19 DEF TheGateway!Relay, Served, UserOf, Owed
<1> QED
    BY <1>20

LEMMA GatewayStep ==
    ASSUME Inv, GatewayInv, [Next]_vars
    PROVE  [TheGateway!GatewayNext]_(TheGateway!gatewayVars)
<1> USE DEF Inv, GatewayInv
<1>1. ASSUME NEW c \in Conns, OnListenConnect(c) \/ OnListenClose(c) \/ ListenRelease(c)
      PROVE  UNCHANGED TheGateway!gatewayVars
    <2>1. UNCHANGED <<listed, user_id, order, answers, wire_down, got>>
        BY <1>1 DEF OnListenConnect, OnListenClose, ListenRelease, orderVars, wireVars
    <2> QED
        BY <2>1, GatewayQuiet DEF Served
\* Only a session that no worker has logs in.
<1>2. ASSUME NEW c \in Conns, NEW u \in UserIds, ListenLogin(c, u)
      PROVE  UNCHANGED TheGateway!gatewayVars
    <2>1. /\ UNCHANGED <<listed, order, answers, wire_down, got>>
          /\ user_id' = [user_id EXCEPT ![c] = u] /\ place[c] = "listen"
        BY <1>2 DEF ListenLogin, orderVars, wireVars
    <2>2. c \notin listed
        BY <2>1 DEF SessionInv
    <2>3. Served' = Served
        BY <2>1, <2>2 DEF Served, SessionInv, SessionTypes
    <2> QED
        BY <2>1, <2>3, GatewayQuiet
<1>3. ASSUME NEW c \in Conns, OnWorkerAddClient(c)
      PROVE  [TheGateway!GatewayNext]_(TheGateway!gatewayVars)
    BY <1>3, GatewayAddClient DEF TheGateway!GatewayNext
<1>4. ASSUME NEW c \in Conns, OnWorkerCloseClient(c)
      PROVE  [TheGateway!GatewayNext]_(TheGateway!gatewayVars)
    BY <1>4, GatewayCloseClient DEF TheGateway!GatewayNext
<1>5. ASSUME NEW c \in Conns, NEW u \in UserIds, WorkerReqOrder(c, u)
      PROVE  TheGateway!GatewayNext
    BY <1>5, GatewayReqOrder DEF TheGateway!GatewayNext
<1>6. ASSUME NEW w \in Workers, ConnectUpstream(w) \/ OnWorkerAddUpstream(w) \/ ExchangeTake(w)
      PROVE  UNCHANGED TheGateway!gatewayVars
    <2>1. UNCHANGED <<listed, user_id, order, answers, wire_down, got>>
        BY <1>6 DEF ConnectUpstream, OnWorkerAddUpstream, ExchangeTake, sessionVars,
                    orderVars, wireVars
    <2> QED
        BY <2>1, GatewayQuiet DEF Served
<1>7. ASSUME NEW w \in Workers, WorkerRspOrder(w) PROVE TheGateway!GatewayNext
    BY <1>7, GatewayRspOrder DEF TheGateway!GatewayNext
<1>8. ASSUME NEW w \in Workers, OnWorkerCloseUpstream(w) PROVE TheGateway!GatewayNext
    BY <1>8, GatewayCloseUpstream DEF TheGateway!GatewayNext
<1>9. ASSUME NEW w \in Workers, ExchangeRound(w) PROVE TheGateway!GatewayNext
    <2>1. pending[w] \in SUBSET Order
        BY DEF LinkInv, LinkTypes
    <2> QED
        BY <1>9, <2>1, GatewayExchangeRound DEF TheGateway!GatewayNext
<1>10. ASSUME NEW c \in Strays, NEW u \in UserIds, WorkerRspOrderOfClient(c, u)
       PROVE  UNCHANGED TheGateway!gatewayVars
    BY <1>10, RspOfClientQuiet, GatewayQuiet DEF Served
<1>11. CASE UNCHANGED vars
    BY <1>11, GatewayQuiet DEF vars, Served
<1> QED
    BY <1>1, <1>2, <1>3, <1>4, <1>5, <1>6, <1>7, <1>8, <1>9, <1>10, <1>11 DEF Next

\* The multiplexing server is a gateway, for any number of workers: each response
\* to an order is relayed at most once, oldest first, to all sessions that are
\* then listed with the user of the order, and to nobody else
\* (worker_handle_message, RSP_ORDER).
THEOREM MultiplexImplementsGateway == Spec => ImplementsGateway
<1>1. Init => TheGateway!GatewayInit
    <2> SUFFICES ASSUME Init PROVE TheGateway!GatewayInit
        OBVIOUS
    <2>1. Served = [c \in Conns |-> -1]
        BY DEF Init, Served
    <2>2. UserOf = <<>>
        BY DEF Init, UserOf
    <2>3. Owed = [o \in Order |-> {}]
        <3>1. ASSUME NEW o \in Order PROVE OnTheWay(o) = {}
            <4>1. \A w \in Workers : wire_down[w] = <<>>
                BY DEF Init
            <4>2. ASSUME NEW n PROVE n \notin OnTheWay(o)
                BY <4>1, OnTheWayIs
            <4> QED
                BY <4>2
        <3> QED
            BY <3>1 DEF Owed
    <2> QED
        BY <2>1, <2>2, <2>3 DEF TheGateway!GatewayInit, Served, UserOf, Owed, Init
<1>2. Inv /\ GatewayInv /\ [Next]_vars => [TheGateway!GatewayNext]_(TheGateway!gatewayVars)
    BY GatewayStep
<1> QED
    BY <1>1, <1>2, GatewayInvHolds, PTL DEF Spec, ImplementsGateway, TheGateway!GatewaySpec

====
