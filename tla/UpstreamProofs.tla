--------------------------- MODULE UpstreamProofs ---------------------------
(***************************************************************************)
(* The simulated exchange, for every number of connections, orders and     *)
(* responses and every timer interval.                                     *)
(*                                                                         *)
(*   - ListInv, the discipline of the list.  Neither SortedByCount nor     *)
(*     NoFinishedOrderListed is inductive alone: the removal loop leaves   *)
(*     no finished order behind because the list is sorted, and only the   *)
(*     typing says that a fresh order's 0 is below every count.            *)
(*   - FateInv: what is known of an order that has left the list.          *)
(*   - OutInv: the frames on a connection are those that have been         *)
(*     counted for its orders, and in which order they were written.       *)
(*                                                                         *)
(* With the three of them every callback is a step of OrderDesk or none.   *)
(***************************************************************************)
EXTENDS Upstream, FunctionTheorems, FiniteSetTheorems, SequenceTheorems, TLAPS

ListInv ==
    /\ TypeOK
    /\ NoDanglingCtx
    /\ SortedByCount
    /\ NoFinishedOrderListed

Orders == [ctx : Conns \cup {NoCtx}, rsp_cnt : 0..MaxRsp, order_status : Status]

\* A stored request is a typed order of its connection without a response.
LEMMA StoredOrderFacts ==
    ASSUME NEW c \in Conns, NEW p \in Payload
    PROVE  /\ StoredOrder(c, p) \in Orders
           /\ StoredOrder(c, p).ctx = c
           /\ StoredOrder(c, p).rsp_cnt = 0
BY BoundsAssumption DEF StoredOrder, Orders, Payload, Status

\* Answering counts one response more and changes neither owner nor type.
LEMMA AnsweredFacts ==
    ASSUME NEW o \in Orders, o.rsp_cnt < MaxRsp
    PROVE  /\ Answered(o) \in Orders
           /\ Answered(o).ctx = o.ctx
           /\ Answered(o).rsp_cnt = o.rsp_cnt + 1
<1>1. o.rsp_cnt \in 0..MaxRsp /\ o.ctx \in Conns \cup {NoCtx}
    BY DEF Orders
<1> QED
    BY <1>1, BoundsAssumption DEF Answered, Orders, Status

\* The initial state satisfies the invariant.
LEMMA InitListInv == Init => ListInv
<1> SUFFICES ASSUME Init PROVE ListInv
    OBVIOUS
<1>1. TypeOK
    BY BoundsAssumption DEF Init, TypeOK, NoOrder, Status
<1>2. NoDanglingCtx /\ SortedByCount /\ NoFinishedOrderListed
    BY DEF Init, NoDanglingCtx, SortedByCount, NoFinishedOrderListed
<1> QED
    BY <1>1, <1>2 DEF ListInv

\* Accepting an order keeps the invariant: the new order is last in the list
\* and has no response, so it is below every count before it.
LEMMA HandleMessageStep ==
    ASSUME ListInv, NEW c \in Conns, NEW p \in Payload, HandleMessage(c, p)
    PROVE  ListInv'
<1> DEFINE n == accepted + 1
<1>1. /\ n \in Ticket
      /\ accepted \in Nat
      /\ n \notin order_list
      /\ order_list \subseteq 1..accepted
    BY BoundsAssumption DEF ListInv, TypeOK, HandleMessage, Ticket
<1>2. /\ store'[n] = StoredOrder(c, p)
      /\ \A t \in order_list : store'[t] = store[t]
      /\ order_list' = order_list \cup {n}
      /\ ctx' = ctx
      /\ ctx[c] = "open"
    BY <1>1 DEF ListInv, TypeOK, HandleMessage
<1>3. TypeOK'
    <2>1. store' \in [Ticket -> Orders]
        BY <1>1, StoredOrderFacts DEF ListInv, TypeOK, HandleMessage, Orders
    <2>2. order_list' \in SUBSET (1..accepted')
        BY <1>1 DEF HandleMessage
    <2>3. accepted' \in 0..MaxOrders
        BY <1>1, BoundsAssumption DEF HandleMessage, Ticket
    <2> QED
        BY <2>1, <2>2, <2>3 DEF ListInv, TypeOK, HandleMessage, Orders
<1>4. NoDanglingCtx'
    BY <1>2, StoredOrderFacts DEF ListInv, NoDanglingCtx
<1>5. SortedByCount'
    <2> SUFFICES ASSUME NEW t \in order_list', NEW u \in order_list', t < u
                 PROVE  store'[t].rsp_cnt >= store'[u].rsp_cnt
        BY DEF SortedByCount
    <2>1. t \in order_list
        BY <1>1, <1>2
    <2>2. CASE u = n
        <3>1. store[t] \in Orders
            BY <1>1, <2>1, BoundsAssumption DEF ListInv, TypeOK, Ticket, Orders
        <3>2. store'[t].rsp_cnt \in Nat
            BY <1>2, <2>1, <3>1 DEF Orders
        <3>3. store'[u].rsp_cnt = 0
            BY <1>2, <2>2, StoredOrderFacts
        <3> QED
            BY <3>2, <3>3
    <2>3. CASE u \in order_list
        BY <1>2, <2>1, <2>3 DEF ListInv, SortedByCount
    <2> QED
        BY <1>2, <2>2, <2>3
<1>6. NoFinishedOrderListed'
    BY <1>2, StoredOrderFacts, BoundsAssumption DEF ListInv, NoFinishedOrderListed
<1> QED
    BY <1>3, <1>4, <1>5, <1>6 DEF ListInv

\* A round of responses keeps the invariant: every count goes up by one, which
\* keeps the list sorted, and in a sorted list the orders that have reached
\* MaxRsp are a prefix, all of which is freed.
LEMMA OnTimerStep ==
    ASSUME ListInv, OnTimer
    PROVE  ListInv'
<1> USE DEF Orders
<1>1. /\ order_list \subseteq Ticket
      /\ order_list' \subseteq order_list
      /\ order_list' = order_list \ FinishedPrefix(order_list, store')
      /\ ctx' = ctx
      /\ accepted' = accepted
    BY BoundsAssumption DEF ListInv, TypeOK, OnTimer, Ticket
<1>2. \A t \in Ticket : store[t] \in Orders
    BY DEF ListInv, TypeOK
<1>3. \A t \in order_list : store'[t] = Answered(store[t])
    BY <1>1 DEF OnTimer
<1>4. \A t \in order_list : /\ store'[t].ctx = store[t].ctx
                            /\ store[t].rsp_cnt \in Nat
                            /\ store'[t].rsp_cnt = store[t].rsp_cnt + 1
    BY <1>1, <1>2, <1>3, AnsweredFacts DEF ListInv, NoFinishedOrderListed
<1>5. TypeOK'
    <2>1. store' \in [Ticket -> Orders]
        BY <1>1, <1>2, AnsweredFacts DEF OnTimer, ListInv, NoFinishedOrderListed
    <2>2. elapsed' \in 0..Interval
        BY BoundsAssumption DEF OnTimer
    <2> QED
        BY <1>1, <2>1, <2>2 DEF ListInv, TypeOK
<1>6. NoDanglingCtx'
    BY <1>1, <1>4 DEF ListInv, NoDanglingCtx
<1>7. \A t, u \in order_list :
          t < u => store'[t].rsp_cnt >= store'[u].rsp_cnt
    BY <1>4 DEF ListInv, SortedByCount
<1>8. SortedByCount'
    BY <1>1, <1>7 DEF SortedByCount
<1>9. NoFinishedOrderListed'
    <2> SUFFICES ASSUME NEW t \in order_list'
                 PROVE  store'[t].rsp_cnt < MaxRsp
        BY DEF NoFinishedOrderListed
    <2>1. PICK u \in order_list : u <= t /\ ~(store'[u].rsp_cnt >= MaxRsp)
        BY <1>1 DEF FinishedPrefix
    <2>2. store'[u].rsp_cnt \in Nat /\ store'[t].rsp_cnt \in Nat
        BY <1>1, <1>4
    <2>3. store'[t].rsp_cnt <= store'[u].rsp_cnt
        <3>1. u \in Int /\ t \in Int
            BY <1>1 DEF Ticket
        <3>2. CASE u = t
            BY <2>2, <3>2
        <3>3. CASE u < t
            BY <1>1, <1>7, <2>2, <3>3
        <3> QED
            BY <2>1, <3>1, <3>2, <3>3
    <2> QED
        BY <2>1, <2>2, <2>3, BoundsAssumption
<1> QED
    BY <1>5, <1>6, <1>8, <1>9 DEF ListInv

\* Closing a connection keeps the invariant: whatever part of the list the
\* orders of c are in, none of them is left when the context is freed.
LEMMA OnCloseStep ==
    ASSUME ListInv, NEW c \in Conns, OnClose(c)
    PROVE  ListInv'
<1>1. /\ order_list' \subseteq order_list
      /\ \A t \in order_list' : store[t].ctx # c
      /\ store' = store
      /\ accepted' = accepted
      /\ elapsed' = elapsed
    BY DEF OnClose, OrdersOf
<1>2. TypeOK'
    BY <1>1 DEF ListInv, TypeOK, OnClose
<1>3. NoDanglingCtx'
    BY <1>1 DEF ListInv, NoDanglingCtx, OnClose, TypeOK
<1>4. SortedByCount' /\ NoFinishedOrderListed'
    BY <1>1 DEF ListInv, SortedByCount, NoFinishedOrderListed
<1> QED
    BY <1>2, <1>3, <1>4 DEF ListInv

\* Making a connection keeps the invariant.
LEMMA OnConnectStep ==
    ASSUME ListInv, NEW c \in Conns, OnConnect(c)
    PROVE  ListInv'
<1>1. TypeOK'
    BY DEF ListInv, TypeOK, OnConnect
<1>2. NoDanglingCtx'
    BY DEF ListInv, NoDanglingCtx, OnConnect, TypeOK
<1>3. SortedByCount' /\ NoFinishedOrderListed'
    BY DEF ListInv, SortedByCount, NoFinishedOrderListed, OnConnect
<1> QED
    BY <1>1, <1>2, <1>3 DEF ListInv

\* The passing of time keeps the invariant.
LEMMA TickStep ==
    ASSUME ListInv, Tick
    PROVE  ListInv'
<1>1. TypeOK'
    BY BoundsAssumption DEF ListInv, TypeOK, Tick
<1>2. NoDanglingCtx' /\ SortedByCount' /\ NoFinishedOrderListed'
    BY DEF ListInv, NoDanglingCtx, SortedByCount, NoFinishedOrderListed, Tick
<1> QED
    BY <1>1, <1>2 DEF ListInv

LEMMA ListStep == ListInv /\ [Next]_vars => ListInv'
<1> SUFFICES ASSUME ListInv, [Next]_vars PROVE ListInv'
    OBVIOUS
<1>1. CASE Tick
    BY <1>1, TickStep
<1>2. CASE OnTimer
    BY <1>2, OnTimerStep
<1>3. ASSUME NEW c \in Conns, OnConnect(c) PROVE ListInv'
    BY <1>3, OnConnectStep
<1>4. ASSUME NEW c \in Conns, OnClose(c) PROVE ListInv'
    BY <1>4, OnCloseStep
<1>5. ASSUME NEW c \in Conns, NEW p \in Payload, HandleMessage(c, p) PROVE ListInv'
    BY <1>5, HandleMessageStep
<1>6. CASE UNCHANGED vars
    BY <1>6 DEF ListInv, TypeOK, NoDanglingCtx, SortedByCount, NoFinishedOrderListed, vars
<1> QED
    BY <1>1, <1>2, <1>3, <1>4, <1>5, <1>6 DEF Next

\* The list discipline holds in every reachable state.
THEOREM ListCorrect == Spec => []ListInv
BY InitListInv, ListStep, PTL DEF Spec

\* Every variable keeps its type.
THEOREM TypeCorrect == Spec => []TypeOK
BY ListCorrect, PTL DEF ListInv

\* on_timer never writes through a pointer to a freed context: each order in
\* the list belongs to an open connection.
THEOREM NoDanglingPointer == Spec => []NoDanglingCtx
BY ListCorrect, PTL DEF ListInv

\* The response counts never increase along the list, the fact the removal
\* loop of on_timer depends on.
THEOREM ListSorted == Spec => []SortedByCount
BY ListCorrect, PTL DEF ListInv

\* No order that has had its last response stays in the list, so none is
\* answered more than MaxRsp times.
THEOREM NothingFinishedStays == Spec => []NoFinishedOrderListed
BY ListCorrect, PTL DEF ListInv

-----------------------------------------------------------------------------
(* The walk along the list.                                                 *)

IsWalk(w, S) ==
    /\ w \in [1..Cardinality(S) -> S]
    /\ \A i, j \in DOMAIN w : i < j => w[i] < w[j]

\* The number of elements up to t: the place of t in the walk.
Rank(t, S) == Cardinality({u \in S : u <= t})

LEMMA RankFacts ==
    ASSUME NEW S \in SUBSET Nat, IsFiniteSet(S)
    PROVE  /\ \A t \in S : Rank(t, S) \in 1..Cardinality(S)
           /\ \A t, u \in S : t < u => Rank(t, S) < Rank(u, S)
<1>n. \A v \in S : v \in Nat
    OBVIOUS
<1>c. Cardinality(S) \in Nat
    BY FS_CardinalityType
<1>f. ASSUME NEW u \in S PROVE IsFiniteSet({v \in S : v <= u})
    <2>1. {v \in S : v <= u} \in SUBSET S
        OBVIOUS
    <2> QED
        BY <2>1, FS_Subset
<1>1. ASSUME NEW u \in S
      PROVE  Rank(u, S) \in Nat /\ Rank(u, S) <= Cardinality(S) /\ Rank(u, S) # 0
    <2> DEFINE upTo == {v \in S : v <= u}
    <2>1. upTo \in SUBSET S /\ u \in upTo
        BY <1>n
    <2>2. IsFiniteSet(upTo) /\ Cardinality(upTo) <= Cardinality(S)
        BY <2>1, FS_Subset
    <2>3. Cardinality(upTo) \in Nat /\ Cardinality(upTo) # 0
        BY <2>1, <2>2, FS_CardinalityType, FS_EmptySet
    <2> QED
        BY <2>2, <2>3 DEF Rank
<1>2. ASSUME NEW t \in S, NEW u \in S, t < u PROVE Rank(t, S) < Rank(u, S)
    <2> DEFINE upToT == {v \in S : v <= t}
               upToU == {v \in S : v <= u}
    <2>1. \A v \in S : v <= t => v <= u
        BY <1>n, <1>2
    <2>2. upToT \in SUBSET upToU
        BY <2>1
    <2>3. u <= u /\ ~(u <= t)
        BY <1>n, <1>2
    <2>4. upToT # upToU
        BY <2>3
    <2>5. IsFiniteSet(upToU)
        BY <1>f
    <2> HIDE DEF upToT, upToU
    <2>6. Cardinality(upToT) <= Cardinality(upToU) /\ Cardinality(upToT) # Cardinality(upToU)
        BY <2>2, <2>4, <2>5, FS_Subset
    <2>7. Rank(t, S) <= Rank(u, S) /\ Rank(t, S) # Rank(u, S)
        BY <2>6 DEF Rank, upToT, upToU
    <2> QED
        BY <1>1, <2>7
<1> QED
    BY <1>c, <1>1, <1>2

\* A finite set of numbers has a walk, and the walk meets all of it.
LEMMA WalkFacts ==
    ASSUME NEW S \in SUBSET Nat, IsFiniteSet(S)
    PROVE  /\ IsWalk(WalkOrder(S), S)
           /\ \A t \in S : \E i \in DOMAIN WalkOrder(S) : WalkOrder(S)[i] = t
<1>n. PICK n \in Nat : n = Cardinality(S) /\ IsFiniteSet(1..n) /\ Cardinality(1..n) = n
    BY FS_CardinalityType, FS_Interval
<1>p. PICK place \in [S -> 1..n] : \A t \in S : place[t] = Rank(t, S)
    <2>1. [t \in S |-> Rank(t, S)] \in [S -> 1..n]
        BY <1>n, RankFacts
    <2> QED
        BY <2>1
<1>e. \A t \in S : t \in Nat
    OBVIOUS
<1>1. \A t, u \in S : place[t] = place[u] => t = u
    <2>1. ASSUME NEW t \in S, NEW u \in S, place[t] = place[u] PROVE t = u
        <3>1. Rank(t, S) = Rank(u, S) /\ Rank(t, S) \in Nat
            BY <1>p, <2>1
        <3>2. ~(t < u) /\ ~(u < t)
            BY <3>1, RankFacts
        <3> QED
            BY <1>e, <3>2
    <2> QED
        BY <2>1
<1>2. place \in Injection(S, 1..n)
    BY <1>p, <1>1, Fun_IsInj
<1>3. place \in Surjection(S, 1..n)
    BY <1>2, <1>n, FS_Injection
<1>4. \A i \in 1..n : \E t \in S : place[t] = i
    BY <1>3 DEF Surjection
<1>5. PICK walk \in [1..n -> S] : \A i \in 1..n : Rank(walk[i], S) = i
    <2>1. [i \in 1..n |-> CHOOSE t \in S : place[t] = i] \in [1..n -> S]
        BY <1>4
    <2>2. \A i \in 1..n : place[CHOOSE t \in S : place[t] = i] = i
        BY <1>4
    <2> QED
        BY <1>p, <2>1, <2>2
<1>6. IsWalk(walk, S)
    <2>1. ASSUME NEW i \in 1..n, NEW j \in 1..n, i < j PROVE walk[i] < walk[j]
        <3>1. PICK t \in S, u \in S : t = walk[i] /\ u = walk[j]
            BY <1>5
        <3>2. Rank(t, S) = i /\ Rank(u, S) = j /\ i \in Nat /\ j \in Nat
            BY <1>5, <3>1
        <3>3. t # u /\ ~(u < t)
            <4>1. u < t => j < i
                BY <3>2, RankFacts
            <4> QED
                BY <2>1, <3>2, <4>1
        <3> QED
            BY <1>e, <3>1, <3>3
    <2> QED
        BY <1>n, <1>5, <2>1 DEF IsWalk
<1>7. IsWalk(WalkOrder(S), S)
    BY <1>6 DEF IsWalk, WalkOrder
<1>8. ASSUME NEW t \in S PROVE \E i \in DOMAIN WalkOrder(S) : WalkOrder(S)[i] = t
    <2>1. PICK w \in [1..n -> S] : w = WalkOrder(S) /\ \A i, j \in 1..n : i < j => w[i] < w[j]
        BY <1>n, <1>7 DEF IsWalk
    <2>2. \A i, j \in 1..n : w[i] = w[j] => i = j
        <3>1. ASSUME NEW i \in 1..n, NEW j \in 1..n, w[i] = w[j] PROVE i = j
            <4>1. PICK v \in Nat : v = w[i] /\ v = w[j]
                BY <1>e, <3>1
            <4>2. /\ i < j => w[i] < w[j]
                  /\ j < i => w[j] < w[i]
                BY <2>1
            <4>3. ~(i < j) /\ ~(j < i)
                BY <4>1, <4>2
            <4> QED
                BY <4>3
        <3> QED
            BY <3>1
    <2>3. w \in Injection(1..n, S)
        BY <2>1, <2>2, Fun_IsInj
    <2>4. w \in Surjection(1..n, S)
        BY <2>3, <1>n, FS_Injection
    <2>5. PICK i \in 1..n : w[i] = t
        BY <2>1, <2>4 DEF Surjection
    <2> QED
        BY <2>1, <2>5
<1> QED
    BY <1>7, <1>8

-----------------------------------------------------------------------------
(* What becomes of an order.                                                *)

\* A ticket that has been given is of a connection, whether or not its order is
\* still in the list; while the connection is open it is in the list until it has
\* had its last response.  On one connection an earlier order has had at least as
\* many responses, in the list or not.
FateInv ==
    /\ \A t \in Ticket :
          \/ /\ t <= accepted
             /\ store[t].ctx \in Conns
             /\ ctx[store[t].ctx] # "none"
             /\ ctx[store[t].ctx] = "open" => t \in order_list \/ store[t].rsp_cnt = MaxRsp
          \/ t > accepted /\ store[t].ctx = NoCtx /\ store[t].rsp_cnt = 0
    /\ \A t, u \in Ticket :
          t < u /\ store[t].ctx = store[u].ctx => store[t].rsp_cnt >= store[u].rsp_cnt

\* The facts about numbers and types the steps below need.
LEMMA Typing ==
    ASSUME ListInv
    PROVE  /\ order_list \subseteq Ticket /\ Ticket \subseteq Nat
           /\ accepted \in Nat /\ accepted <= MaxOrders
           /\ MaxRsp \in Nat /\ MaxRsp >= 1 /\ MaxOrders \in Nat
           /\ \A t \in order_list : t <= accepted
           /\ store \in [Ticket -> Orders]
           /\ \A t \in Ticket : /\ store[t].ctx \in Conns \cup {NoCtx}
                                /\ store[t].rsp_cnt \in Nat
                                /\ store[t].rsp_cnt <= MaxRsp
<1>1. store \in [Ticket -> Orders] /\ accepted \in 0..MaxOrders
      /\ order_list \in SUBSET (1..accepted)
    BY DEF ListInv, TypeOK, Orders
<1>2. /\ MaxRsp \in Nat /\ MaxRsp >= 1 /\ MaxOrders \in Nat
      /\ accepted \in Nat /\ accepted <= MaxOrders
    BY <1>1, BoundsAssumption
<1>3. order_list \subseteq Ticket /\ Ticket \subseteq Nat /\ \A t \in order_list : t <= accepted
    BY <1>1, <1>2 DEF Ticket
<1>4. \A o \in Orders : /\ o.ctx \in Conns \cup {NoCtx}
                        /\ o.rsp_cnt \in Nat /\ o.rsp_cnt <= MaxRsp
    BY <1>2 DEF Orders
<1> QED
    BY <1>1, <1>2, <1>3, <1>4

\* A round counts one response more for the orders in the list.
LEMMA TimerFacts ==
    ASSUME ListInv, OnTimer
    PROVE  /\ store' \in [Ticket -> Orders]
           /\ \A t \in Ticket :
                 /\ store'[t].ctx = store[t].ctx
                 /\ t \notin order_list => store'[t] = store[t]
                 /\ t \in order_list =>
                       /\ store'[t].rsp_cnt = store[t].rsp_cnt + 1
                       /\ store[t].rsp_cnt < MaxRsp
                       /\ store'[t].order_status = IF store'[t].rsp_cnt = MaxRsp
                                                   THEN "TOTAL_DEAL" ELSE "PART_DEAL"
           /\ \A t \in order_list : t \notin order_list' => store'[t].rsp_cnt >= MaxRsp
           /\ UNCHANGED <<ctx, accepted>>
           /\ \A c \in Conns : out'[c] = out[c] \o FramesTo(c, store')
<1>1. /\ store' = [t \in Ticket |-> IF t \in order_list THEN Answered(store[t]) ELSE store[t]]
      /\ order_list' = order_list \ FinishedPrefix(order_list, store')
      /\ out' = [c \in Conns |-> out[c] \o FramesTo(c, store')]
      /\ UNCHANGED <<ctx, accepted>>
    BY DEF OnTimer
<1>2. \A t \in order_list : store[t].rsp_cnt < MaxRsp
    BY DEF ListInv, NoFinishedOrderListed
<1>3. ASSUME NEW t \in order_list
      PROVE  /\ store'[t] \in Orders
             /\ store'[t].ctx = store[t].ctx
             /\ store'[t].rsp_cnt = store[t].rsp_cnt + 1
             /\ store'[t].order_status = IF store'[t].rsp_cnt = MaxRsp
                                         THEN "TOTAL_DEAL" ELSE "PART_DEAL"
    <2>1. PICK o \in Orders : o = store[t] /\ o.rsp_cnt < MaxRsp /\ store'[t] = Answered(o)
        BY <1>1, <1>2, Typing
    <2>2. Answered(o).order_status = IF Answered(o).rsp_cnt = MaxRsp
                                     THEN "TOTAL_DEAL" ELSE "PART_DEAL"
        BY DEF Answered
    <2> QED
        BY <2>1, <2>2, AnsweredFacts
<1>4. \A t \in Ticket : t \notin order_list => store'[t] = store[t]
    BY <1>1
<1>5. store' \in [Ticket -> Orders]
    BY <1>1, <1>3, <1>4, Typing
<1>6. ASSUME NEW t \in order_list, t \notin order_list' PROVE store'[t].rsp_cnt >= MaxRsp
    <2>1. t <= t
        BY Typing
    <2> QED
        BY <1>1, <1>6, <2>1 DEF FinishedPrefix
<1> QED
    BY <1>1, <1>2, <1>3, <1>4, <1>5, <1>6

LEMMA FateOnTimer ==
    ASSUME ListInv, FateInv, OnTimer
    PROVE  FateInv'
<1>0. store' \in [Ticket -> Orders] /\ \A o \in Orders : o.rsp_cnt \in Nat /\ o.rsp_cnt <= MaxRsp
    BY TimerFacts, BoundsAssumption DEF Orders
<1>1. ASSUME NEW t \in Ticket
      PROVE  \/ /\ t <= accepted'
                /\ store'[t].ctx \in Conns
                /\ ctx'[store'[t].ctx] # "none"
                /\ ctx'[store'[t].ctx] = "open" => t \in order_list' \/ store'[t].rsp_cnt = MaxRsp
             \/ t > accepted' /\ store'[t].ctx = NoCtx /\ store'[t].rsp_cnt = 0
    <2>1. CASE t \in order_list
        <3>1. /\ t <= accepted /\ store[t].ctx \in Conns /\ ctx[store[t].ctx] # "none"
            BY <2>1, Typing DEF ListInv, NoDanglingCtx
        <3>2. t \notin order_list' => store'[t].rsp_cnt = MaxRsp
            BY <1>0, <2>1, TimerFacts, Typing
        <3> QED
            BY <3>1, <3>2, TimerFacts
    <2>2. CASE t \notin order_list
        BY <2>2, TimerFacts DEF FateInv
    <2> QED
        BY <2>1, <2>2
<1>2. ASSUME NEW t \in Ticket, NEW u \in Ticket, t < u, store'[t].ctx = store'[u].ctx
      PROVE  store'[t].rsp_cnt >= store'[u].rsp_cnt
    <2>1. /\ store[t].ctx = store[u].ctx
          /\ store[t].rsp_cnt >= store[u].rsp_cnt
          /\ store[t].rsp_cnt \in Nat /\ store[u].rsp_cnt \in Nat
          /\ store'[u].rsp_cnt \in Nat /\ store'[u].rsp_cnt <= MaxRsp
        BY <1>0, <1>2, TimerFacts, Typing DEF FateInv
    <2>2. CASE t \in order_list
        BY <1>2, <2>1, <2>2, TimerFacts
    <2>3. CASE t \notin order_list /\ u \notin order_list
        BY <1>2, <2>1, <2>3, TimerFacts
    <2>4. CASE t \notin order_list /\ u \in order_list
        <3>1. ctx[store[t].ctx] = "open" /\ store[t].ctx \in Conns
            BY <2>1, <2>4 DEF ListInv, NoDanglingCtx
        <3>2. store[t].rsp_cnt = MaxRsp
            BY <2>4, <3>1, NoCtxAssumption DEF FateInv
        <3> QED
            BY <2>1, <2>4, <3>2, TimerFacts
    <2> QED
        BY <2>2, <2>3, <2>4
<1> QED
    BY <1>1, <1>2 DEF FateInv

LEMMA FateHandleMessage ==
    ASSUME ListInv, FateInv, NEW c \in Conns, NEW p \in Payload, HandleMessage(c, p)
    PROVE  FateInv'
<1>1. PICK n \in Ticket :
          /\ n = accepted + 1 /\ accepted' = n
          /\ order_list' = order_list \cup {n}
          /\ store'[n].ctx = c /\ store'[n].rsp_cnt = 0
          /\ \A t \in Ticket : t # n => store'[t] = store[t]
          /\ ctx' = ctx /\ ctx[c] = "open"
    <2>1. PICK n \in Ticket : n = accepted + 1
        BY Typing DEF HandleMessage, Ticket
    <2> QED
        BY <2>1, StoredOrderFacts, Typing DEF HandleMessage
<1>2. \A t \in Ticket : t <= n => t <= accepted \/ t = n
    BY <1>1, Typing
<1>3. \A t \in Ticket : t > n => t > accepted
    BY <1>1, Typing
<1>4. ASSUME NEW t \in Ticket
      PROVE  \/ /\ t <= accepted'
                /\ store'[t].ctx \in Conns
                /\ ctx'[store'[t].ctx] # "none"
                /\ ctx'[store'[t].ctx] = "open" => t \in order_list' \/ store'[t].rsp_cnt = MaxRsp
             \/ t > accepted' /\ store'[t].ctx = NoCtx /\ store'[t].rsp_cnt = 0
    <2>1. CASE t = n
        BY <1>1, <2>1, Typing
    <2>2. CASE t # n
        <3>1. t <= accepted => t <= n
            BY <1>1, Typing
        <3>2. t > accepted => t > n
            BY <1>1, <2>2, Typing
        <3> QED
            BY <1>1, <2>2, <3>1, <3>2 DEF FateInv
    <2> QED
        BY <2>1, <2>2
<1>5. ASSUME NEW t \in Ticket, NEW u \in Ticket, t < u, store'[t].ctx = store'[u].ctx
      PROVE  store'[t].rsp_cnt >= store'[u].rsp_cnt
    <2>1. CASE u = n
        BY <1>1, <1>5, <2>1, Typing
    <2>2. CASE t = n
        <3>1. store[u].ctx = NoCtx /\ u # n
            BY <1>1, <1>5, <2>2, Typing DEF FateInv
        <3> QED
            BY <1>1, <1>5, <2>2, <3>1, NoCtxAssumption
    <2>3. CASE u # n /\ t # n
        BY <1>1, <1>5, <2>3 DEF FateInv
    <2> QED
        BY <2>1, <2>2, <2>3
<1> QED
    BY <1>4, <1>5 DEF FateInv

LEMMA FateStep == ListInv /\ FateInv /\ [Next]_vars => FateInv'
<1> SUFFICES ASSUME ListInv, FateInv, [Next]_vars PROVE FateInv'
    OBVIOUS
<1>1. CASE Tick
    BY <1>1 DEF Tick, FateInv
<1>2. CASE OnTimer
    BY <1>2, FateOnTimer
<1>3. ASSUME NEW c \in Conns, OnConnect(c) PROVE FateInv'
    <2>1. /\ UNCHANGED <<accepted, store, order_list>>
          /\ ctx[c] = "none"
          /\ \A d \in Conns : ctx'[d] = IF d = c THEN "open" ELSE ctx[d]
        BY <1>3 DEF OnConnect, ListInv, TypeOK
    <2> QED
        BY <2>1, NoCtxAssumption DEF FateInv
<1>4. ASSUME NEW c \in Conns, OnClose(c) PROVE FateInv'
    <2>1. /\ UNCHANGED <<accepted, store>>
          /\ order_list' = order_list \ OrdersOf(c)
          /\ \A d \in Conns : ctx'[d] = IF d = c THEN "freed" ELSE ctx[d]
        BY <1>4 DEF OnClose, ListInv, TypeOK
    <2> QED
        BY <2>1, NoCtxAssumption DEF FateInv, OrdersOf
<1>5. ASSUME NEW c \in Conns, NEW p \in Payload, HandleMessage(c, p) PROVE FateInv'
    BY <1>5, FateHandleMessage
<1>6. CASE UNCHANGED vars
    BY <1>6 DEF vars, FateInv
<1> QED
    BY <1>1, <1>2, <1>3, <1>4, <1>5, <1>6 DEF Next

-----------------------------------------------------------------------------
(* What has been written to the connections.                                *)

RspFrames == [ticket : Ticket, rsp_cnt : Nat, order_status : Status]

\* The earlier frames, on connection c, of the order the frame at j is of.
Before(c, j) == {i \in 1..(j - 1) : out[c][i].ticket = out[c][j].ticket}

\* Frame j of connection c is the next response to an order of c.
FrameInv(c, j) ==
    /\ store[out[c][j].ticket].ctx = c
    /\ out[c][j].ticket <= accepted
    /\ out[c][j].rsp_cnt >= 1
    /\ out[c][j].rsp_cnt <= store[out[c][j].ticket].rsp_cnt
    /\ {out[c][i].rsp_cnt : i \in Before(c, j)} = 1..(out[c][j].rsp_cnt - 1)
    /\ out[c][j].order_status = IF out[c][j].rsp_cnt = MaxRsp THEN "TOTAL_DEAL"
                                                              ELSE "PART_DEAL"

\* The frames of an order are as many as have been counted for it.
WrittenInv(c) ==
    \A t \in Ticket : store[t].ctx = c =>
        \A k \in 1..store[t].rsp_cnt :
            \E i \in DOMAIN out[c] : out[c][i].ticket = t /\ out[c][i].rsp_cnt = k

OutInv ==
    /\ out \in [Conns -> Seq(RspFrames)]
    /\ \A c \in Conns : WrittenInv(c) /\ \A j \in DOMAIN out[c] : FrameInv(c, j)
    /\ \A t \in Ticket : Cardinality(FramesOf(t)) = store[t].rsp_cnt
    /\ AnsweredInOrder

HistoryInv == ListInv /\ FateInv /\ OutInv

\* Concatenation, position by position.
LEMMA ConcatFacts ==
    ASSUME NEW S, NEW s \in Seq(S), NEW e \in Seq(S)
    PROVE  /\ s \o e \in Seq(S)
           /\ Len(s) \in Nat /\ DOMAIN s = 1..Len(s)
           /\ \A i \in DOMAIN s : /\ i \in Nat /\ i >= 1 /\ i <= Len(s)
                                  /\ i \in DOMAIN (s \o e) /\ (s \o e)[i] = s[i]
           /\ \A k \in DOMAIN e : /\ k \in Nat /\ k >= 1
                                  /\ Len(s) + k \in DOMAIN (s \o e)
                                  /\ (s \o e)[Len(s) + k] = e[k]
           /\ \A i \in DOMAIN (s \o e) : /\ i \in Nat /\ i >= 1
                                         /\ i \in DOMAIN s \/ \E k \in DOMAIN e : i = Len(s) + k
<1>1. /\ Len(s) \in Nat /\ Len(e) \in Nat
      /\ DOMAIN s = 1..Len(s) /\ DOMAIN e = 1..Len(e)
    BY LenProperties
<1>2. /\ s \o e \in Seq(S) /\ Len(s \o e) = Len(s) + Len(e)
      /\ \A i \in 1..(Len(s) + Len(e)) :
            (s \o e)[i] = IF i <= Len(s) THEN s[i] ELSE e[i - Len(s)]
    BY ConcatProperties
<1>3. DOMAIN (s \o e) = 1..(Len(s) + Len(e))
    BY <1>2, LenProperties
<1>4. \A i \in DOMAIN s : /\ i \in Nat /\ i >= 1 /\ i <= Len(s)
                          /\ i \in DOMAIN (s \o e) /\ (s \o e)[i] = s[i]
    BY <1>1, <1>2, <1>3
<1>5. ASSUME NEW k \in DOMAIN e
      PROVE  /\ k \in Nat /\ k >= 1 /\ Len(s) + k \in DOMAIN (s \o e)
             /\ (s \o e)[Len(s) + k] = e[k]
    <2>1. /\ k \in Nat /\ k >= 1 /\ Len(s) + k \in 1..(Len(s) + Len(e))
          /\ ~(Len(s) + k <= Len(s)) /\ (Len(s) + k) - Len(s) = k
        BY <1>1
    <2> QED
        BY <1>2, <1>3, <2>1
<1>6. ASSUME NEW i \in DOMAIN (s \o e)
      PROVE  i \in Nat /\ i >= 1 /\ (i \in DOMAIN s \/ \E k \in DOMAIN e : i = Len(s) + k)
    <2>1. i \in DOMAIN s \/ (i - Len(s) \in DOMAIN e /\ i = Len(s) + (i - Len(s)))
        BY <1>1, <1>3
    <2> QED
        BY <1>3, <2>1
<1> QED
    BY <1>1, <1>2, <1>4, <1>5, <1>6

\* The frames of a round: one for each listed order of the connection, in the
\* order of the list.
LEMMA FramesToFacts ==
    ASSUME ListInv, NEW c \in Conns, NEW s \in [Ticket -> Orders]
    PROVE  /\ FramesTo(c, s) \in Seq(RspFrames)
           /\ \A i \in DOMAIN FramesTo(c, s) : \E t \in order_list :
                 s[t].ctx = c /\ FramesTo(c, s)[i] = Frame(t, s[t])
           /\ \A i, j \in DOMAIN FramesTo(c, s) :
                 i < j => FramesTo(c, s)[i].ticket < FramesTo(c, s)[j].ticket
           /\ \A t \in order_list : s[t].ctx = c =>
                 \E i \in DOMAIN FramesTo(c, s) : FramesTo(c, s)[i] = Frame(t, s[t])
<1>1. PICK S \in SUBSET Nat :
          S = {t \in order_list : s[t].ctx = c} /\ IsFiniteSet(S) /\ S \subseteq Ticket
    <2>1. IsFiniteSet(Ticket) /\ {t \in order_list : s[t].ctx = c} \in SUBSET Ticket
        BY Typing, FS_Interval DEF Ticket
    <2> QED
        BY <2>1, FS_Subset, Typing
<1>n. PICK n \in Nat : n = Cardinality(S)
    BY <1>1, FS_CardinalityType
<1>2. PICK w \in [1..n -> S] :
          /\ w = WalkOrder(S)
          /\ \A i, j \in 1..n : i < j => w[i] < w[j]
          /\ \A t \in S : \E i \in 1..n : w[i] = t
    <2>2. IsWalk(WalkOrder(S), S)
          /\ \A t \in S : \E i \in DOMAIN WalkOrder(S) : WalkOrder(S)[i] = t
        BY <1>1, WalkFacts
    <2>3. WalkOrder(S) \in [1..n -> S] /\ DOMAIN WalkOrder(S) = 1..n
        BY <1>n, <2>2 DEF IsWalk
    <2>4. \A i, j \in 1..n : i < j => WalkOrder(S)[i] < WalkOrder(S)[j]
        BY <2>2, <2>3 DEF IsWalk
    <2> QED
        BY <2>2, <2>3, <2>4
<1>3. FramesTo(c, s) = [i \in 1..n |-> Frame(w[i], s[w[i]])]
    BY <1>1, <1>2 DEF FramesTo
<1>4. \A t \in S : Frame(t, s[t]) \in RspFrames /\ Frame(t, s[t]).ticket = t
    <2>1. \A o \in Orders : o.rsp_cnt \in Nat /\ o.order_status \in Status
        BY BoundsAssumption DEF Orders
    <2> QED
        BY <1>1, <2>1 DEF Frame, RspFrames
<1>5. PICK F \in [1..n -> RspFrames] :
          F = FramesTo(c, s) /\ \A i \in 1..n : F[i] = Frame(w[i], s[w[i]])
    <2>1. \A i \in 1..n : w[i] \in S
        BY <1>2
    <2>2. \A i \in 1..n : Frame(w[i], s[w[i]]) \in RspFrames
        BY <1>4, <2>1
    <2> QED
        BY <1>3, <2>2
<1>6. \A i \in DOMAIN F : \E t \in order_list : s[t].ctx = c /\ F[i] = Frame(t, s[t])
    <2>1. ASSUME NEW i \in 1..n PROVE w[i] \in order_list /\ s[w[i]].ctx = c
        BY <1>1, <1>2
    <2> QED
        BY <1>5, <2>1
<1>7. \A i, j \in DOMAIN F : i < j => F[i].ticket < F[j].ticket
    <2>1. \A i \in 1..n : F[i].ticket = w[i]
        BY <1>2, <1>4, <1>5
    <2> QED
        BY <1>2, <1>5, <2>1
<1>8. \A t \in order_list : s[t].ctx = c => \E i \in DOMAIN F : F[i] = Frame(t, s[t])
    <2>1. ASSUME NEW t \in order_list, s[t].ctx = c
          PROVE  \E i \in DOMAIN F : F[i] = Frame(t, s[t])
        <3>1. PICK i \in 1..n : w[i] = t
            BY <1>1, <1>2, <2>1
        <3> QED
            BY <1>5, <3>1
    <2> QED
        BY <2>1
<1> QED
    BY <1>5, <1>6, <1>7, <1>8

\* A round writes to connection c the next response of each of its listed orders.
LEMMA OutOnTimer ==
    ASSUME HistoryInv, OnTimer, NEW c \in Conns
    PROVE  /\ out'[c] \in Seq(RspFrames)
           /\ WrittenInv(c)'
           /\ \A j \in DOMAIN out'[c] : FrameInv(c, j)'
           /\ \A t \in Ticket : store[t].ctx = c =>
                 Cardinality({i \in DOMAIN out'[c] : out'[c][i].ticket = t}) = store'[t].rsp_cnt
           /\ \A j \in DOMAIN out'[c] : \A t \in 1..(out'[c][j].ticket - 1) :
                 store'[t].ctx = c =>
                     \E i \in 1..(j - 1) : /\ out'[c][i].ticket = t
                                           /\ out'[c][i].rsp_cnt = out'[c][j].rsp_cnt
<1> USE DEF HistoryInv
<1>s. PICK s \in [Ticket -> Orders] : s = store'
    BY TimerFacts
<1>q. PICK q \in Seq(RspFrames) : q = out[c]
    BY DEF OutInv
<1>f. PICK F \in Seq(RspFrames) : F = FramesTo(c, s)
    BY FramesToFacts
<1>o. out'[c] = q \o F /\ accepted' = accepted
    BY <1>s, <1>q, <1>f, TimerFacts
<1>l. PICK L \in Nat : L = Len(q)
    BY LenProperties
\* The orders.
<1>1. \A t \in Ticket :
         /\ t \in Nat
         /\ s[t].ctx = store[t].ctx
         /\ store[t].rsp_cnt \in Nat /\ s[t].rsp_cnt \in Nat
         /\ t \notin order_list => s[t].rsp_cnt = store[t].rsp_cnt
         /\ t \in order_list => s[t].rsp_cnt = store[t].rsp_cnt + 1
    BY <1>s, TimerFacts, Typing
\* The frames there were, and the frames of the round.
<1>2. \A j \in DOMAIN q : /\ j \in Nat /\ j >= 1 /\ j <= L
                          /\ q[j].ticket \in Ticket /\ q[j].rsp_cnt \in Nat
                          /\ j \in DOMAIN (q \o F) /\ (q \o F)[j] = q[j]
    <2>1. \A j \in DOMAIN q : q[j] \in RspFrames
        BY ElementOfSeq, LenProperties
    <2>2. \A f \in RspFrames : f.ticket \in Ticket /\ f.rsp_cnt \in Nat
        BY DEF RspFrames
    <2> QED
        BY <1>l, <2>1, <2>2, ConcatFacts
<1>3. \A k \in DOMAIN F : /\ k \in Nat /\ k >= 1
                          /\ L + k \in DOMAIN (q \o F) /\ (q \o F)[L + k] = F[k]
    BY <1>l, ConcatFacts
<1>4. \A j \in DOMAIN (q \o F) :
          j \in Nat /\ (j \in DOMAIN q \/ \E k \in DOMAIN F : j = L + k)
    BY <1>l, ConcatFacts
<1>d. q \o F \in Seq(RspFrames) /\ DOMAIN q = 1..L
    BY <1>l, ConcatFacts
<1>5. \A k \in DOMAIN F :
         /\ F[k].ticket \in order_list /\ F[k].ticket \in Ticket
         /\ s[F[k].ticket].ctx = c
         /\ F[k].rsp_cnt = s[F[k].ticket].rsp_cnt
         /\ F[k].order_status = s[F[k].ticket].order_status
    <2>1. ASSUME NEW k \in DOMAIN F
          PROVE  \E t \in order_list : s[t].ctx = c /\ F[k] = Frame(t, s[t])
        BY <1>f, FramesToFacts
    <2>2. \A t \in order_list : /\ Frame(t, s[t]).ticket = t
                                /\ Frame(t, s[t]).rsp_cnt = s[t].rsp_cnt
                                /\ Frame(t, s[t]).order_status = s[t].order_status
        BY DEF Frame
    <2> QED
        BY <2>1, <2>2, Typing
<1>6. \A j, k \in DOMAIN F : /\ j < k => F[j].ticket < F[k].ticket
                             /\ F[j].ticket = F[k].ticket => j = k
    <2>1. \A j, k \in DOMAIN F : j < k => F[j].ticket < F[k].ticket
        BY <1>f, FramesToFacts
    <2>2. \A k \in DOMAIN F : k \in Nat /\ F[k].ticket \in Nat
        BY <1>1, <1>3, <1>5
    <2> QED
        BY <2>1, <2>2
<1>7. ASSUME NEW t \in order_list, s[t].ctx = c
      PROVE  \E k \in DOMAIN F : F[k].ticket = t /\ F[k].rsp_cnt = s[t].rsp_cnt
    <2>1. PICK k \in DOMAIN F : F[k] = Frame(t, s[t])
        BY <1>7, <1>f, FramesToFacts
    <2> QED
        BY <2>1 DEF Frame
\* What was known of the frames there were.
<1>8. \A j \in DOMAIN q :
         /\ store[q[j].ticket].ctx = c /\ q[j].ticket <= accepted
         /\ q[j].rsp_cnt >= 1 /\ q[j].rsp_cnt <= store[q[j].ticket].rsp_cnt
    BY <1>q DEF OutInv, FrameInv
<1>9. \A t \in Ticket : store[t].ctx = c => \A k \in 1..store[t].rsp_cnt :
          \E i \in DOMAIN q : q[i].ticket = t /\ q[i].rsp_cnt = k
    BY <1>q DEF OutInv, WrittenInv
<1>10. WrittenInv(c)'
    <2>1. ASSUME NEW t \in Ticket, s[t].ctx = c, NEW k \in 1..s[t].rsp_cnt
          PROVE  \E i \in DOMAIN (q \o F) : (q \o F)[i].ticket = t /\ (q \o F)[i].rsp_cnt = k
        <3>1. CASE k \in 1..store[t].rsp_cnt
            <4>1. PICK i \in DOMAIN q : q[i].ticket = t /\ q[i].rsp_cnt = k
                BY <1>1, <1>9, <2>1, <3>1
            <4> QED
                BY <1>2, <4>1
        <3>2. CASE k \notin 1..store[t].rsp_cnt
            <4>1. t \in order_list /\ k = s[t].rsp_cnt
                BY <1>1, <3>2
            <4>2. PICK i \in DOMAIN F : F[i].ticket = t /\ F[i].rsp_cnt = s[t].rsp_cnt
                BY <1>7, <2>1, <4>1
            <4> QED
                BY <1>3, <4>1, <4>2
        <3> QED
            BY <3>1, <3>2
    <2> QED
        BY <1>s, <1>o, <2>1 DEF WrittenInv
<1>11. ASSUME NEW j \in DOMAIN (q \o F) PROVE FrameInv(c, j)'
    <2>1. CASE j \in DOMAIN q
        <3>1. \A i \in 1..(j - 1) : i \in DOMAIN q
            BY <1>2, <1>d, <2>1
        <3>2. Before(c, j)' = Before(c, j)
            <4>1. \A i \in 1..(j - 1) : out'[c][i] = out[c][i]
                BY <1>2, <1>o, <1>q, <3>1
            <4>2. out'[c][j] = out[c][j]
                BY <1>2, <1>o, <1>q, <2>1
            <4> QED
                BY <4>1, <4>2 DEF Before
        <3>3. {out'[c][i].rsp_cnt : i \in Before(c, j)'} = {out[c][i].rsp_cnt : i \in Before(c, j)}
            <4>1. \A i \in Before(c, j) : out'[c][i] = out[c][i]
                BY <1>2, <1>o, <1>q, <3>1 DEF Before
            <4> QED
                BY <3>2, <4>1
        <3>4. out'[c][j] = q[j] /\ q[j].ticket \in Ticket
            BY <1>2, <1>o, <2>1
        <3>5. /\ s[q[j].ticket].ctx = c /\ q[j].ticket <= accepted
              /\ q[j].rsp_cnt >= 1 /\ q[j].rsp_cnt <= s[q[j].ticket].rsp_cnt
            <4>1. PICK t \in Ticket : t = q[j].ticket
                BY <3>4
            <4>2. /\ store[t].ctx = c /\ t <= accepted
                  /\ q[j].rsp_cnt >= 1 /\ q[j].rsp_cnt <= store[t].rsp_cnt
                BY <1>8, <2>1, <4>1
            <4>3. /\ q[j].rsp_cnt \in Nat /\ store[t].rsp_cnt \in Nat /\ s[t].rsp_cnt \in Nat
                  /\ s[t].rsp_cnt >= store[t].rsp_cnt /\ s[t].ctx = store[t].ctx
                <5>1. q[j].rsp_cnt \in Nat
                    BY <1>2, <2>1
                <5>2. store[t].rsp_cnt \in Nat /\ s[t].rsp_cnt \in Nat /\ s[t].ctx = store[t].ctx
                    BY <1>1
                <5>3. \/ s[t].rsp_cnt = store[t].rsp_cnt
                      \/ s[t].rsp_cnt = store[t].rsp_cnt + 1
                    BY <1>1
                <5> QED
                    BY <5>1, <5>2, <5>3
            <4> QED
                BY <4>1, <4>2, <4>3
        <3>6. FrameInv(c, j)
            BY <1>q, <2>1 DEF OutInv
        <3> QED
            BY <1>q, <1>s, <1>o, <3>3, <3>4, <3>5, <3>6 DEF FrameInv
    <2>2. ASSUME NEW k \in DOMAIN F, j = L + k PROVE FrameInv(c, j)'
        <3>1. PICK t \in Ticket :
                  /\ t = F[k].ticket /\ t \in order_list /\ s[t].ctx = c
                  /\ F[k].rsp_cnt = s[t].rsp_cnt /\ F[k].order_status = s[t].order_status
            BY <1>5
        <3>2. out'[c][j] = F[k]
            BY <1>3, <1>o, <2>2
        <3>3. \A i \in 1..(j - 1) :
                  (q \o F)[i].ticket = t <=> i \in DOMAIN q /\ q[i].ticket = t
            <4>1. ASSUME NEW i \in 1..(j - 1), i \in DOMAIN q
                  PROVE  (q \o F)[i] = q[i]
                BY <1>2, <4>1
            <4>2. ASSUME NEW i \in 1..(j - 1), i \notin DOMAIN q
                  PROVE  (q \o F)[i].ticket # t
                <5>1. i \in DOMAIN (q \o F)
                    <6>1. j \in DOMAIN (q \o F) /\ DOMAIN (q \o F) = 1..Len(q \o F)
                          /\ Len(q \o F) \in Nat
                        BY <1>d, LenProperties
                    <6> QED
                        BY <6>1
                <5>2. PICK m \in DOMAIN F : i = L + m
                    BY <1>4, <4>2, <5>1
                <5>3. m < k
                    BY <1>3, <2>2, <4>2, <5>2
                <5>4. F[m].ticket # t
                    BY <1>3, <1>6, <3>1, <5>3
                <5> QED
                    BY <1>3, <5>2, <5>4
            <4> QED
                BY <4>1, <4>2
        <3>4. \A i \in DOMAIN q : i \in 1..(j - 1)
            BY <1>2, <1>3, <2>2
        <3>5. Before(c, j)' = {i \in DOMAIN q : q[i].ticket = t}
            BY <1>o, <3>1, <3>2, <3>3, <3>4 DEF Before
        <3>6. {out'[c][i].rsp_cnt : i \in Before(c, j)'}
                  = {q[i].rsp_cnt : i \in {i \in DOMAIN q : q[i].ticket = t}}
            <4>1. \A i \in DOMAIN q : out'[c][i] = q[i]
                BY <1>2, <1>o
            <4> QED
                BY <3>5, <4>1
        <3>7. {q[i].rsp_cnt : i \in {i \in DOMAIN q : q[i].ticket = t}} = 1..store[t].rsp_cnt
            <4>1. \A i \in DOMAIN q : q[i].ticket = t => q[i].rsp_cnt \in 1..store[t].rsp_cnt
                BY <1>1, <1>2, <1>8
            <4>2. \A n \in 1..store[t].rsp_cnt : \E i \in DOMAIN q : q[i].ticket = t /\ q[i].rsp_cnt = n
                BY <1>1, <1>9, <3>1
            <4> QED
                BY <4>1, <4>2
        <3>8. /\ F[k].rsp_cnt - 1 = store[t].rsp_cnt
              /\ F[k].rsp_cnt >= 1
              /\ t <= accepted
            <4>1. s[t].rsp_cnt = store[t].rsp_cnt + 1 /\ store[t].rsp_cnt \in Nat
                BY <1>1, <3>1
            <4> QED
                BY <3>1, <4>1, Typing
        <3>9. F[k].order_status = IF F[k].rsp_cnt = MaxRsp THEN "TOTAL_DEAL" ELSE "PART_DEAL"
            BY <1>s, <3>1, TimerFacts
        <3>10. /\ out'[c][j].ticket = t /\ s[t].ctx = c /\ out'[c][j].rsp_cnt = s[t].rsp_cnt
               /\ s[t].rsp_cnt \in Nat
            BY <1>1, <3>1, <3>2
        <3>11. {out'[c][i].rsp_cnt : i \in Before(c, j)'} = 1..(out'[c][j].rsp_cnt - 1)
            BY <3>2, <3>6, <3>7, <3>8
        <3>12. out'[c][j].rsp_cnt >= 1 /\ out'[c][j].rsp_cnt <= s[t].rsp_cnt
            BY <3>2, <3>8, <3>10
        <3> QED
            BY <1>s, <1>o, <3>2, <3>8, <3>9, <3>10, <3>11, <3>12 DEF FrameInv
    <2> QED
        BY <1>4, <2>1, <2>2
<1>12. ASSUME NEW t \in Ticket, store[t].ctx = c
       PROVE  Cardinality({i \in DOMAIN (q \o F) : (q \o F)[i].ticket = t}) = s[t].rsp_cnt
    <2> DEFINE old == {i \in DOMAIN q : q[i].ticket = t}
               new == {i \in DOMAIN (q \o F) : (q \o F)[i].ticket = t}
    <2>1. Cardinality(old) = store[t].rsp_cnt
        <3>1. store[t].ctx # NoCtx
            BY <1>12, NoCtxAssumption
        <3>2. FramesOf(t) = old
            BY <1>12, <1>q, <3>1 DEF FramesOf
        <3> QED
            BY <3>2 DEF OutInv
    <2>2. IsFiniteSet(old)
        <3>1. IsFiniteSet(DOMAIN q) /\ old \in SUBSET DOMAIN q
            BY <1>d, FS_Interval
        <3> QED
            BY <3>1, FS_Subset
    <2>3. CASE t \notin order_list
        <3>1. new = old
            <4>1. \A i \in new : i \in old
                <5>1. ASSUME NEW i \in new PROVE i \in old
                    <6>1. \A k \in DOMAIN F : (q \o F)[L + k].ticket # t
                        BY <1>3, <1>5, <2>3
                    <6> QED
                        BY <1>2, <1>4, <6>1
                <5> QED
                    BY <5>1
            <4>2. \A i \in old : i \in new
                BY <1>2
            <4> QED
                BY <4>1, <4>2
        <3> QED
            BY <1>1, <2>1, <2>3, <3>1
    <2>4. CASE t \in order_list
        <3>1. PICK k \in DOMAIN F : F[k].ticket = t
            BY <1>1, <1>7, <1>12, <2>4
        <3>2. \A i \in new : i \in old \cup {L + k}
            <4>1. ASSUME NEW i \in new PROVE i \in old \cup {L + k}
                <5>1. CASE i \in DOMAIN q
                    BY <1>2, <5>1
                <5>2. ASSUME NEW m \in DOMAIN F, i = L + m PROVE i = L + k
                    <6>1. F[m].ticket = t
                        BY <1>3, <5>2
                    <6> QED
                        BY <1>6, <3>1, <5>2, <6>1
                <5> QED
                    BY <1>4, <5>1, <5>2
            <4> QED
                BY <4>1
        <3>3. \A i \in old \cup {L + k} : i \in new
            BY <1>2, <1>3, <3>1
        <3>4. new = old \cup {L + k}
            BY <3>2, <3>3
        <3>5. L + k \notin old
            BY <1>2, <1>3
        <3> HIDE DEF old, new
        <3>6. Cardinality(new) = Cardinality(old) + 1
            BY <2>2, <3>4, <3>5, FS_AddElement
        <3> QED
            BY <1>1, <2>1, <2>4, <3>6 DEF new
    <2> QED
        BY <2>3, <2>4
<1>13. ASSUME NEW j \in DOMAIN (q \o F), NEW t \in 1..((q \o F)[j].ticket - 1), s[t].ctx = c
       PROVE  \E i \in 1..(j - 1) : /\ (q \o F)[i].ticket = t
                                    /\ (q \o F)[i].rsp_cnt = (q \o F)[j].rsp_cnt
    <2>1. CASE j \in DOMAIN q
        <3>1. t \in Ticket /\ t \in 1..(q[j].ticket - 1)
            BY <1>2, <2>1, Typing DEF Ticket
        <3>2. PICK i \in 1..(j - 1) : q[i].ticket = t /\ q[i].rsp_cnt = q[j].rsp_cnt
            <4>1. store[t].ctx = c
                BY <1>1, <1>13, <3>1
            <4>2. AnsweredInOrder
                BY DEF OutInv
            <4>3. \A n \in DOMAIN out[c] : \A u \in 1..(out[c][n].ticket - 1) :
                      store[u].ctx = c =>
                          \E i \in 1..(n - 1) : /\ out[c][i].ticket = u
                                                /\ out[c][i].rsp_cnt = out[c][n].rsp_cnt
                BY <4>2, Zenon DEF AnsweredInOrder
            <4> QED
                BY <1>q, <2>1, <3>1, <4>1, <4>3
        <3>3. i \in DOMAIN q
            BY <1>2, <1>d, <2>1
        <3> QED
            BY <1>2, <2>1, <3>2, <3>3
    <2>2. ASSUME NEW k \in DOMAIN F, j = L + k
          PROVE  \E i \in 1..(j - 1) : /\ (q \o F)[i].ticket = t
                                       /\ (q \o F)[i].rsp_cnt = (q \o F)[j].rsp_cnt
        <3>1. PICK u \in Ticket :
                  /\ u = F[k].ticket /\ u \in order_list /\ s[u].ctx = c
                  /\ F[k].rsp_cnt = s[u].rsp_cnt
            BY <1>5
        <3>2. (q \o F)[j] = F[k] /\ t \in 1..(u - 1)
            BY <1>3, <2>2, <3>1
        <3>3. t \in Ticket /\ t < u /\ t <= accepted
            BY <1>1, <3>1, <3>2, Typing DEF Ticket
        <3>4. /\ store[t].ctx = c /\ store[u].ctx = c
              /\ store[t].rsp_cnt >= store[u].rsp_cnt
            BY <1>1, <1>13, <3>1, <3>3 DEF FateInv
        <3>5. s[u].rsp_cnt = store[u].rsp_cnt + 1 /\ store[u].rsp_cnt < MaxRsp
            BY <1>1, <3>1, TimerFacts
        <3>6. CASE t \in order_list /\ store[t].rsp_cnt = store[u].rsp_cnt
            <4>1. PICK m \in DOMAIN F : F[m].ticket = t /\ F[m].rsp_cnt = s[t].rsp_cnt
                BY <1>1, <1>7, <3>3, <3>4, <3>6
            <4>2. m < k
                <5>1. k \in Nat /\ m \in Nat
                    BY <1>3, <3>1, <4>1
                <5>2. F[k].ticket = u /\ F[m].ticket = t /\ t < u /\ t \in Nat /\ u \in Nat
                    BY <1>1, <3>1, <3>3, <4>1
                <5>3. k < m => u < t
                    BY <1>6, <3>1, <4>1, <5>2
                <5>4. k # m
                    BY <5>2
                <5> QED
                    BY <5>1, <5>2, <5>3, <5>4
            <4>3. L + m \in 1..(j - 1)
                BY <1>3, <2>2, <4>2
            <4>4. s[t].rsp_cnt = s[u].rsp_cnt
                BY <1>1, <3>1, <3>3, <3>6
            <4> QED
                BY <1>3, <3>1, <3>2, <4>1, <4>3, <4>4
        <3>7. CASE ~(t \in order_list /\ store[t].rsp_cnt = store[u].rsp_cnt)
            <4>1. s[u].rsp_cnt \in 1..store[t].rsp_cnt
                <5>1. t \notin order_list => store[t].rsp_cnt = MaxRsp
                    <6>1. ctx[c] = "open"
                        BY <1>1, <3>1 DEF ListInv, NoDanglingCtx
                    <6> QED
                        BY <3>3, <3>4, <6>1, NoCtxAssumption DEF FateInv
                <5>2. store[t].rsp_cnt \in Nat /\ store[u].rsp_cnt \in Nat /\ MaxRsp \in Nat
                    BY <1>1, <3>3, Typing
                <5>3. store[t].rsp_cnt > store[u].rsp_cnt
                    <6>1. CASE t \in order_list
                        <7>1. store[t].rsp_cnt # store[u].rsp_cnt
                            BY <3>7, <6>1
                        <7> QED
                            BY <3>4, <5>2, <7>1
                    <6>2. CASE t \notin order_list
                        BY <3>5, <5>1, <5>2, <6>2
                    <6> QED
                        BY <6>1, <6>2
                <5>4. s[u].rsp_cnt = store[u].rsp_cnt + 1
                    BY <3>5
                <5> QED
                    BY <5>2, <5>3, <5>4
            <4>2. PICK i \in DOMAIN q : q[i].ticket = t /\ q[i].rsp_cnt = s[u].rsp_cnt
                BY <1>9, <3>3, <3>4, <4>1
            <4>3. i \in 1..(j - 1)
                BY <1>2, <1>3, <2>2
            <4> QED
                BY <1>2, <3>1, <3>2, <4>2, <4>3
        <3> QED
            BY <3>6, <3>7
    <2> QED
        BY <1>4, <2>1, <2>2
<1>14. \A j \in DOMAIN out'[c] : FrameInv(c, j)'
    BY <1>o, <1>11
<1>15. \A t \in Ticket : store[t].ctx = c =>
          Cardinality({i \in DOMAIN out'[c] : out'[c][i].ticket = t}) = store'[t].rsp_cnt
    BY <1>o, <1>s, <1>12
<1>16. \A j \in DOMAIN out'[c] : \A t \in 1..(out'[c][j].ticket - 1) :
          store'[t].ctx = c => \E i \in 1..(j - 1) : /\ out'[c][i].ticket = t
                                                   /\ out'[c][i].rsp_cnt = out'[c][j].rsp_cnt
    <2> SUFFICES ASSUME NEW j \in DOMAIN out'[c], NEW t \in 1..(out'[c][j].ticket - 1),
                        store'[t].ctx = c
                 PROVE  \E i \in 1..(j - 1) : /\ out'[c][i].ticket = t
                                             /\ out'[c][i].rsp_cnt = out'[c][j].rsp_cnt
        OBVIOUS
    <2>1. j \in DOMAIN (q \o F) /\ t \in 1..((q \o F)[j].ticket - 1)
        BY <1>o
    <2>2. s[t].ctx = c
        BY <1>s
    <2>3. \E i \in 1..(j - 1) : /\ (q \o F)[i].ticket = t
                               /\ (q \o F)[i].rsp_cnt = (q \o F)[j].rsp_cnt
        BY <1>13, <2>1, <2>2
    <2> QED
        BY <1>o, <2>3
<1> QED
    BY <1>o, <1>d, <1>10, <1>14, <1>15, <1>16

\* The other callbacks write nothing.
LEMMA OutQuiet ==
    ASSUME HistoryInv, store' = store, accepted' = accepted, out' = out
    PROVE  OutInv'
<1>1. \A c \in Conns : WrittenInv(c)' /\ \A j \in DOMAIN out'[c] : FrameInv(c, j)'
    BY DEF HistoryInv, OutInv, WrittenInv, FrameInv, Before
<1>2. \A t \in Ticket : FramesOf(t)' = FramesOf(t)
    BY DEF FramesOf
<1>3. AnsweredInOrder'
    BY DEF HistoryInv, OutInv, AnsweredInOrder
<1> QED
    BY <1>1, <1>2, <1>3 DEF HistoryInv, OutInv

LEMMA OutHandleMessage ==
    ASSUME HistoryInv, NEW c \in Conns, NEW p \in Payload, HandleMessage(c, p)
    PROVE  OutInv'
<1> USE DEF HistoryInv
<1>1. PICK n \in Ticket :
          /\ n = accepted + 1 /\ accepted' = n
          /\ store'[n].ctx = c /\ store'[n].rsp_cnt = 0
          /\ \A t \in Ticket : t # n => store'[t] = store[t]
          /\ out' = out
    <2>1. PICK n \in Ticket : n = accepted + 1
        BY Typing DEF HandleMessage, Ticket
    <2> QED
        BY <2>1, StoredOrderFacts, Typing DEF HandleMessage
<1>2. n \in Nat /\ accepted \in Nat /\ n > accepted /\ ~(n <= accepted)
    BY <1>1, Typing
<1>3. ASSUME NEW d \in Conns, NEW j \in DOMAIN out[d]
      PROVE  /\ out[d][j].ticket \in Ticket /\ out[d][j].ticket # n
             /\ out[d][j].ticket <= accepted /\ FrameInv(d, j)
    <2>1. out[d] \in Seq(RspFrames) /\ FrameInv(d, j)
        BY DEF OutInv
    <2>2. out[d][j] \in RspFrames
        BY <2>1, ElementOfSeq, LenProperties
    <2> QED
        BY <1>2, <2>1, <2>2 DEF RspFrames, FrameInv
<1>4. ASSUME NEW d \in Conns, NEW j \in DOMAIN out[d] PROVE FrameInv(d, j)'
    <2>1. store'[out[d][j].ticket] = store[out[d][j].ticket]
        BY <1>1, <1>3
    <2>2. out[d][j].ticket <= accepted'
        BY <1>1, <1>2, <1>3, Typing
    <2> QED
        BY <1>1, <1>3, <2>1, <2>2 DEF FrameInv, Before
<1>5. ASSUME NEW d \in Conns PROVE WrittenInv(d)'
    <2>1. ASSUME NEW t \in Ticket, store'[t].ctx = d, NEW k \in 1..store'[t].rsp_cnt
          PROVE  \E i \in DOMAIN out[d] : out[d][i].ticket = t /\ out[d][i].rsp_cnt = k
        <3>1. t # n
            BY <1>1, <2>1
        <3>2. store[t].ctx = d /\ k \in 1..store[t].rsp_cnt
            BY <1>1, <2>1, <3>1
        <3> QED
            BY <3>2 DEF OutInv, WrittenInv
    <2> QED
        BY <1>1, <2>1 DEF WrittenInv
<1>6. ASSUME NEW t \in Ticket PROVE Cardinality(FramesOf(t)') = store'[t].rsp_cnt
    <2>1. CASE t = n
        <3>1. FramesOf(t)' = {i \in DOMAIN out[c] : out[c][i].ticket = n}
            BY <1>1, <2>1, NoCtxAssumption DEF FramesOf
        <3>2. FramesOf(t)' = {}
            BY <1>3, <3>1
        <3> QED
            BY <1>1, <2>1, <3>2, FS_EmptySet
    <2>2. CASE t # n
        <3>1. store'[t] = store[t] /\ FramesOf(t)' = FramesOf(t)
            BY <1>1, <2>2 DEF FramesOf
        <3> QED
            BY <3>1 DEF OutInv
    <2> QED
        BY <2>1, <2>2
<1>7. AnsweredInOrder'
    <2>1. ASSUME NEW d \in Conns, NEW j \in DOMAIN out[d],
                 NEW t \in 1..(out[d][j].ticket - 1), store'[t].ctx = d
          PROVE  \E i \in 1..(j - 1) : /\ out[d][i].ticket = t
                                       /\ out[d][i].rsp_cnt = out[d][j].rsp_cnt
        <3>1. t \in Ticket /\ t # n
            BY <1>1, <1>2, <1>3, Typing DEF Ticket
        <3>2. store[t].ctx = d
            BY <1>1, <2>1, <3>1
        <3>3. AnsweredInOrder
            BY DEF OutInv
        <3> QED
            BY <3>2, <3>3, Zenon DEF AnsweredInOrder
    <2> QED
        BY <1>1, <2>1 DEF AnsweredInOrder
<1> QED
    BY <1>1, <1>4, <1>5, <1>6, <1>7 DEF OutInv

LEMMA HistoryStep == HistoryInv /\ [Next]_vars => HistoryInv'
<1> SUFFICES ASSUME HistoryInv, [Next]_vars PROVE HistoryInv'
    OBVIOUS
<1>1. ListInv' /\ FateInv'
    BY ListStep, FateStep DEF HistoryInv
<1>2. CASE OnTimer
    <2>1. out' \in [Conns -> Seq(RspFrames)]
        <3>1. DOMAIN out' = Conns /\ out' = [c \in Conns |-> out'[c]]
            BY <1>2 DEF OnTimer
        <3> QED
            BY <1>2, <3>1, OutOnTimer
    <2>2. \A c \in Conns : WrittenInv(c)' /\ \A j \in DOMAIN out'[c] : FrameInv(c, j)'
        BY <1>2, OutOnTimer
    <2>3. ASSUME NEW t \in Ticket PROVE Cardinality(FramesOf(t)') = store'[t].rsp_cnt
        <3>1. store'[t].ctx = store[t].ctx
            BY <1>2, TimerFacts DEF HistoryInv
        <3>2. CASE store[t].ctx = NoCtx
            <4>1. FramesOf(t)' = {} /\ t \notin order_list
                BY <3>1, <3>2, NoCtxAssumption DEF FramesOf, HistoryInv, ListInv, NoDanglingCtx
            <4>2. store'[t].rsp_cnt = 0
                BY <1>2, <3>2, <4>1, TimerFacts, NoCtxAssumption DEF HistoryInv, FateInv
            <4> QED
                BY <4>1, <4>2, FS_EmptySet
        <3>3. ASSUME NEW c \in Conns, store[t].ctx = c
              PROVE  Cardinality(FramesOf(t)') = store'[t].rsp_cnt
            <4>1. FramesOf(t)' = {i \in DOMAIN out'[c] : out'[c][i].ticket = t}
                BY <3>1, <3>3, NoCtxAssumption DEF FramesOf
            <4>2. Cardinality({i \in DOMAIN out'[c] : out'[c][i].ticket = t}) = store'[t].rsp_cnt
                BY <1>2, <3>3, OutOnTimer
            <4> QED
                BY <4>1, <4>2
        <3> QED
            BY <3>2, <3>3, Typing DEF HistoryInv
    <2>4. AnsweredInOrder'
        BY <1>2, OutOnTimer DEF AnsweredInOrder
    <2> QED
        BY <1>1, <2>1, <2>2, <2>3, <2>4 DEF HistoryInv, OutInv
<1>3. ASSUME NEW c \in Conns, NEW p \in Payload, HandleMessage(c, p) PROVE OutInv'
    BY <1>3, OutHandleMessage
<1>4. ASSUME Tick \/ UNCHANGED vars PROVE OutInv'
    <2>1. store' = store /\ accepted' = accepted /\ out' = out
        BY <1>4 DEF Tick, vars
    <2> QED
        BY <2>1, OutQuiet
<1>5. ASSUME NEW c \in Conns, OnConnect(c) \/ OnClose(c) PROVE OutInv'
    BY <1>5, OutQuiet DEF OnConnect, OnClose
<1> QED
    BY <1>1, <1>2, <1>3, <1>4, <1>5 DEF HistoryInv, Next

LEMMA InitHistory == Init => HistoryInv
<1> SUFFICES ASSUME Init PROVE HistoryInv
    OBVIOUS
<1>1. FateInv
    <2>1. \A t \in Ticket : t > 0
        BY DEF Ticket
    <2>2. accepted = 0 /\ \A t \in Ticket : store[t].ctx = NoCtx /\ store[t].rsp_cnt = 0
        BY DEF Init, NoOrder
    <2> QED
        BY <2>1, <2>2 DEF FateInv
<1>2. OutInv
    <2>1. \A c \in Conns : out[c] = <<>> /\ DOMAIN out[c] = {}
        BY DEF Init
    <2>2. out \in [Conns -> Seq(RspFrames)]
        BY EmptySeq DEF Init
    <2>3. \A t \in Ticket : store[t].ctx = NoCtx /\ store[t].rsp_cnt = 0 /\ FramesOf(t) = {}
        BY DEF Init, NoOrder, FramesOf
    <2>4. \A c \in Conns : WrittenInv(c) /\ \A j \in DOMAIN out[c] : FrameInv(c, j)
        BY <2>1, <2>3, NoCtxAssumption DEF WrittenInv
    <2>5. \A t \in Ticket : Cardinality(FramesOf(t)) = store[t].rsp_cnt
        BY <2>3, FS_EmptySet
    <2>6. AnsweredInOrder
        BY <2>1 DEF AnsweredInOrder
    <2> QED
        BY <2>2, <2>4, <2>5, <2>6 DEF OutInv
<1> QED
    BY <1>1, <1>2, InitListInv DEF HistoryInv

THEOREM HistoryCorrect == Spec => []HistoryInv
BY InitHistory, HistoryStep, PTL DEF Spec

\* A client sees the responses to each of its orders numbered 1, 2, ... with
\* nothing missing or repeated, the last one and only it as the total deal, and
\* none on another connection.
THEOREM InSequence == Spec => []ResponsesInSequence
<1>1. ASSUME HistoryInv PROVE ResponsesInSequence
    <2>1. ASSUME NEW c \in Conns, NEW j \in DOMAIN out[c]
          PROVE  /\ store[out[c][j].ticket].ctx = c
                 /\ out[c][j].rsp_cnt \in 1..MaxRsp
                 /\ {out[c][i].rsp_cnt : i \in {i \in 1..(j - 1) :
                        out[c][i].ticket = out[c][j].ticket}} = 1..(out[c][j].rsp_cnt - 1)
                 /\ out[c][j].order_status =
                        IF out[c][j].rsp_cnt = MaxRsp THEN "TOTAL_DEAL" ELSE "PART_DEAL"
        <3>1. FrameInv(c, j) /\ out[c] \in Seq(RspFrames)
            BY <1>1 DEF HistoryInv, OutInv
        <3>2. out[c][j] \in RspFrames
            BY <3>1, ElementOfSeq, LenProperties
        <3>3. PICK t \in Ticket : t = out[c][j].ticket
            BY <3>2 DEF RspFrames
        <3>4. out[c][j].rsp_cnt \in 1..MaxRsp
            <4>1. out[c][j].rsp_cnt \in Nat
                BY <3>2 DEF RspFrames
            <4>2. out[c][j].rsp_cnt >= 1 /\ out[c][j].rsp_cnt <= store[t].rsp_cnt
                BY <3>1, <3>3 DEF FrameInv
            <4>3. store[t].rsp_cnt \in Nat /\ store[t].rsp_cnt <= MaxRsp /\ MaxRsp \in Nat
                BY <1>1, Typing DEF HistoryInv
            <4> QED
                BY <4>1, <4>2, <4>3
        <3> QED
            BY <3>1, <3>4 DEF FrameInv, Before
    <2> QED
        BY <2>1 DEF ResponsesInSequence
<1> QED
    BY <1>1, HistoryCorrect, PTL

\* On one connection the k-th response to an earlier order is written before the
\* k-th response to a later one, what the client's end of a run relies on.
THEOREM InOrder == Spec => []AnsweredInOrder
<1>1. HistoryInv => AnsweredInOrder
    BY DEF HistoryInv, OutInv
<1> QED
    BY <1>1, HistoryCorrect, PTL

-----------------------------------------------------------------------------
(* The order desk.                                                          *)

\* The initial states of the exchange are initial states of the desk.
LEMMA DeskStart == Init => Desk!DeskInit
<1> SUFFICES ASSUME Init PROVE Desk!DeskInit
    OBVIOUS
<1>1. \A t \in Ticket : store[t].ctx = NoCtx /\ FramesOf(t) = {}
    BY DEF Init, NoOrder, FramesOf
<1>2. \A c \in Conns : (ctx[c] = "open") = FALSE
    BY DEF Init
<1> QED
    BY <1>1, <1>2, FS_EmptySet DEF Desk!DeskInit, Desk!Ticket, Ticket

\* A timer call is a round of the desk, or nothing when no order is listed.
LEMMA DeskOnTimer ==
    ASSUME HistoryInv, HistoryInv', OnTimer
    PROVE  Desk!Round \/ UNCHANGED Desk!deskVars
<1>1. \A t \in Ticket : /\ Cardinality(FramesOf(t)) = store[t].rsp_cnt
                        /\ Cardinality(FramesOf(t)') = store'[t].rsp_cnt
                        /\ store'[t].ctx = store[t].ctx
    BY TimerFacts DEF HistoryInv, OutInv
<1>2. ASSUME NEW t \in Ticket PROVE Desk!Owed(t) <=> t \in order_list
    <2>1. store[t].rsp_cnt < MaxRsp <=> store[t].rsp_cnt # MaxRsp
        BY Typing DEF HistoryInv
    <2>2. CASE t \in order_list
        BY <1>1, <2>2, NoCtxAssumption
           DEF Desk!Owed, HistoryInv, ListInv, NoDanglingCtx, NoFinishedOrderListed
    <2>3. CASE t \notin order_list
        BY <1>1, <2>1, <2>3 DEF Desk!Owed, HistoryInv, FateInv
    <2> QED
        BY <2>2, <2>3
<1>3. \A t \in Ticket : store'[t].rsp_cnt = IF Desk!Owed(t) THEN store[t].rsp_cnt + 1
                                                          ELSE store[t].rsp_cnt
    BY <1>2, TimerFacts DEF HistoryInv
<1>4. ctx' = ctx /\ order_list \subseteq Ticket
    BY TimerFacts, Typing DEF HistoryInv
<1>5. CASE order_list # {}
    <2>1. \E t \in Desk!Ticket : Desk!Owed(t)
        BY <1>2, <1>4, <1>5 DEF Desk!Ticket, Ticket
    <2>2. [t \in Ticket |-> Cardinality(FramesOf(t))]' =
              [t \in Ticket |-> IF Desk!Owed(t) THEN Cardinality(FramesOf(t)) + 1
                                                ELSE Cardinality(FramesOf(t))]
        BY <1>1, <1>3
    <2> QED
        BY <1>1, <1>4, <2>1, <2>2 DEF Desk!Round, Desk!Ticket, Ticket
<1>6. CASE order_list = {}
    BY <1>1, <1>2, <1>3, <1>4, <1>6 DEF Desk!deskVars
<1> QED
    BY <1>5, <1>6

LEMMA DeskHandleMessage ==
    ASSUME HistoryInv, HistoryInv', NEW c \in Conns, NEW p \in Payload, HandleMessage(c, p)
    PROVE  \E t \in Desk!Ticket : Desk!Accept(c, t)
<1>1. PICK n \in Ticket :
          /\ n = accepted + 1
          /\ store'[n].ctx = c /\ store'[n].rsp_cnt = 0
          /\ \A t \in Ticket : t # n => store'[t] = store[t]
          /\ ctx' = ctx /\ ctx[c] = "open"
    <2>1. PICK n \in Ticket : n = accepted + 1
        BY Typing DEF HandleMessage, Ticket, HistoryInv
    <2> QED
        BY <2>1, StoredOrderFacts, Typing DEF HandleMessage, HistoryInv
<1>2. store[n].ctx = NoCtx /\ store[n].rsp_cnt = 0
    <2>1. ~(n <= accepted)
        BY <1>1, Typing DEF HistoryInv
    <2> QED
        BY <2>1 DEF HistoryInv, FateInv
<1>3. \A t \in Ticket : Cardinality(FramesOf(t)) = store[t].rsp_cnt
                        /\ Cardinality(FramesOf(t)') = store'[t].rsp_cnt
    BY DEF HistoryInv, OutInv
<1>4. [t \in Ticket |-> Cardinality(FramesOf(t))]' = [t \in Ticket |-> Cardinality(FramesOf(t))]
    BY <1>1, <1>2, <1>3
<1>5. [t \in Ticket |-> store[t].ctx]' = [[t \in Ticket |-> store[t].ctx] EXCEPT ![n] = c]
    BY <1>1
<1>6. Desk!Accept(c, n)
    BY <1>1, <1>2, <1>4, <1>5 DEF Desk!Accept
<1> QED
    BY <1>6 DEF Desk!Ticket, Ticket

LEMMA DeskOnConnect ==
    ASSUME HistoryInv, NEW c \in Conns, OnConnect(c)
    PROVE  Desk!Connected(c)
<1>1. UNCHANGED <<store, out>> /\ ctx[c] = "none" /\ ctx' = [ctx EXCEPT ![c] = "open"]
    BY DEF OnConnect
<1>2. \A t \in Ticket : store[t].ctx # c
    BY <1>1, NoCtxAssumption DEF HistoryInv, FateInv
<1>3. [t \in Ticket |-> Cardinality(FramesOf(t))]' = [t \in Ticket |-> Cardinality(FramesOf(t))]
    BY <1>1 DEF FramesOf
<1>4. [d \in Conns |-> ctx[d] = "open"]' = [[d \in Conns |-> ctx[d] = "open"] EXCEPT ![c] = TRUE]
    <2>1. \A d \in Conns : ctx'[d] = IF d = c THEN "open" ELSE ctx[d]
        BY <1>1 DEF HistoryInv, ListInv, TypeOK
    <2> QED
        BY <2>1, Zenon
<1> QED
    BY <1>1, <1>2, <1>3, <1>4 DEF Desk!Connected, Desk!Ticket, Ticket

LEMMA DeskOnClose ==
    ASSUME HistoryInv, NEW c \in Conns, OnClose(c)
    PROVE  Desk!WriteOff(c)
<1>1. UNCHANGED <<store, out>> /\ ctx[c] = "open" /\ ctx' = [ctx EXCEPT ![c] = "freed"]
    BY DEF OnClose
<1>3. [t \in Ticket |-> Cardinality(FramesOf(t))]' = [t \in Ticket |-> Cardinality(FramesOf(t))]
    BY <1>1 DEF FramesOf
<1>4. [d \in Conns |-> ctx[d] = "open"]' = [[d \in Conns |-> ctx[d] = "open"] EXCEPT ![c] = FALSE]
    <2>1. \A d \in Conns : ctx'[d] = IF d = c THEN "freed" ELSE ctx[d]
        BY <1>1 DEF HistoryInv, ListInv, TypeOK
    <2> QED
        BY <2>1, Zenon
<1> QED
    BY <1>1, <1>3, <1>4 DEF Desk!WriteOff

LEMMA DeskStep ==
    ASSUME HistoryInv, HistoryInv', [Next]_vars
    PROVE  [Desk!DeskNext]_(Desk!deskVars)
<1>1. ASSUME UNCHANGED <<ctx, store, out>> PROVE UNCHANGED Desk!deskVars
    BY <1>1 DEF Desk!deskVars, FramesOf
<1>2. CASE Tick
    BY <1>1, <1>2 DEF Tick
<1>3. CASE OnTimer
    BY <1>3, DeskOnTimer DEF Desk!DeskNext
<1>4. ASSUME NEW c \in Conns, OnConnect(c) PROVE Desk!DeskNext
    BY <1>4, DeskOnConnect DEF Desk!DeskNext
<1>5. ASSUME NEW c \in Conns, OnClose(c) PROVE Desk!DeskNext
    BY <1>5, DeskOnClose DEF Desk!DeskNext
<1>6. ASSUME NEW c \in Conns, NEW p \in Payload, HandleMessage(c, p) PROVE Desk!DeskNext
    BY <1>6, DeskHandleMessage DEF Desk!DeskNext
<1>7. CASE UNCHANGED vars
    BY <1>1, <1>7 DEF vars
<1> QED
    BY <1>2, <1>3, <1>4, <1>5, <1>6, <1>7 DEF Next

\* Every step of the exchange is a step of the order desk or none: each order is
\* accepted once and given, round by round, exactly the answers it is owed.
THEOREM ImplementsDeskSteps == Spec => Desk!DeskInit /\ [][Desk!DeskNext]_(Desk!deskVars)
BY HistoryCorrect, DeskStart, DeskStep, PTL DEF Spec

=============================================================================
