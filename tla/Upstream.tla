------------------------------ MODULE Upstream ------------------------------
(***************************************************************************)
(* The simulated exchange, example/upstream: one thread, one event loop,   *)
(* one linked list of the orders that still wait for responses.            *)
(*                                                                         *)
(* Every callback of the loop runs to its end before the next one starts,  *)
(* so an action is a whole callback.  Orders are numbered by arrival       *)
(* ("tickets"): muggle_linked_list_append adds at the tail and nothing     *)
(* else inserts, so the list is the set order_list of tickets, in the      *)
(* order of the numbers.  An order is stored with a bare pointer to the    *)
(* connection it came from; nothing retains that connection.               *)
(*                                                                         *)
(* Time is counted in milliseconds since data->last_ts and saturates at    *)
(* the timer interval.  The wall clock is assumed not to step back.        *)
(***************************************************************************)
EXTENDS Integers, Sequences, FiniteSets

CONSTANTS
    Conns,        \* the connections that may be made (each socket context once)
    NoCtx,        \* a null context pointer
    MaxOrders,    \* bound on the orders accepted in a behaviour
    MaxRsp,       \* MAX_ORDER_RSP, 3 in the code
    Interval      \* data.timer_interval_ms

ASSUME NoCtxAssumption == NoCtx \notin Conns
ASSUME BoundsAssumption ==
    /\ MaxOrders \in Nat
    /\ MaxRsp \in Nat \ {0}
    /\ Interval \in Nat

Ticket == 1..MaxOrders

Status == {"NULL", "PART_DEAL", "TOTAL_DEAL"}

\* What a request carries in the fields the exchange reads or overwrites.  A
\* client sends a template as loaded from its file, or, in a later round, a
\* template its own response handler has overwritten with a first response.
Payload == {[rsp_cnt |-> 0, order_status |-> "NULL"],
            [rsp_cnt |-> 1, order_status |-> "PART_DEAL"]}

NoOrder == [ctx |-> NoCtx, rsp_cnt |-> 0, order_status |-> "NULL"]

VARIABLES
    ctx,         \* ctx[c]: the socket context of c: not yet made, open, freed
    accepted,    \* number of orders appended so far; the last ticket given
    store,       \* store[t]: the order_store_t of ticket t
    order_list,  \* the tickets in data->order_list
    elapsed,     \* milliseconds since data->last_ts, at most Interval
    out          \* out[c]: the response frames written to c, in order

vars == <<ctx, accepted, store, order_list, elapsed, out>>

Init ==
    /\ ctx = [c \in Conns |-> "none"]
    /\ accepted = 0
    /\ store = [t \in Ticket |-> NoOrder]
    /\ order_list = {}
    /\ elapsed = 0
    /\ out = [c \in Conns |-> <<>>]

-----------------------------------------------------------------------------
(* The pieces the callbacks are made of.  A definition named Fault_... is a *)
(* seeded fault: a plausible slip in the definition that follows it, which  *)
(* the properties must notice.  Nothing uses it.                            *)

Fault_StoredOrder(c, p) ==       \* forgets rsp_cnt = 0
    [ctx |-> c, rsp_cnt |-> p.rsp_cnt, order_status |-> p.order_status]

\* handle_message: the copy of a request that goes into the list.
StoredOrder(c, p) ==
    [ctx |-> c, rsp_cnt |-> 0, order_status |-> p.order_status]

Fault_Answered(o) ==             \* compares before counting
    [ctx |-> o.ctx,
     rsp_cnt |-> o.rsp_cnt + 1,
     order_status |-> IF o.rsp_cnt = MaxRsp THEN "TOTAL_DEAL" ELSE "PART_DEAL"]

\* on_timer: one more response to a stored order.
Answered(o) ==
    [ctx |-> o.ctx,
     rsp_cnt |-> o.rsp_cnt + 1,
     order_status |-> IF o.rsp_cnt + 1 = MaxRsp THEN "TOTAL_DEAL" ELSE "PART_DEAL"]

Fault_FinishedPrefix(list, s) == \* <= for <: one response too many
    {t \in list : \A u \in list : u <= t => s[u].rsp_cnt > MaxRsp}

\* on_timer, second loop: from the head of the list up to the first order that
\* still waits for a response.
FinishedPrefix(list, s) ==
    {t \in list : \A u \in list : u <= t => s[u].rsp_cnt >= MaxRsp}

Fault_WalkOrder(S) ==            \* orders were pushed at the head
    CHOOSE w \in [1..Cardinality(S) -> S] : \A i, j \in DOMAIN w : i < j => w[i] > w[j]

\* The order in which a walk from the head of the list meets a set of tickets.
WalkOrder(S) ==
    CHOOSE w \in [1..Cardinality(S) -> S] : \A i, j \in DOMAIN w : i < j => w[i] < w[j]

Frame(t, o) == [ticket |-> t, rsp_cnt |-> o.rsp_cnt, order_status |-> o.order_status]

\* on_timer, first loop: the frames it writes to connection c.
FramesTo(c, s) ==
    LET mine == WalkOrder({t \in order_list : s[t].ctx = c})
    IN  [i \in DOMAIN mine |-> Frame(mine[i], s[mine[i]])]

Fault_OrdersOf(c) ==             \* frees the head instead of walking the list
    {t \in order_list : \A u \in order_list : t <= u}

Fault2_OrdersOf(c) ==            \* compares nothing: empties the list
    order_list

\* on_close: the orders in the list that came from c.
OrdersOf(c) == {t \in order_list : store[t].ctx = c}

-----------------------------------------------------------------------------
(* The callbacks.                                                           *)

\* on_connect: the loop has accepted a connection and made its context.
OnConnect(c) ==
    /\ ctx[c] = "none"
    /\ ctx' = [ctx EXCEPT ![c] = "open"]
    /\ UNCHANGED <<accepted, store, order_list, elapsed, out>>

\* on_message: a whole REQ_ORDER frame of c is decoded.
HandleMessage(c, p) ==
    /\ ctx[c] = "open"
    /\ accepted < MaxOrders
    /\ accepted' = accepted + 1
    /\ store' = [store EXCEPT ![accepted + 1] = StoredOrder(c, p)]
    /\ order_list' = order_list \cup {accepted + 1}
    /\ UNCHANGED <<ctx, elapsed, out>>

\* A millisecond passes.
Tick ==
    /\ elapsed < Interval
    /\ elapsed' = elapsed + 1
    /\ UNCHANGED <<ctx, accepted, store, order_list, out>>

\* on_timer, past its early return: every order in the list is answered once,
\* then the finished ones at the head of the list are freed.
OnTimer ==
    /\ elapsed >= Interval
    /\ elapsed' = 0
    /\ LET s == [t \in Ticket |-> IF t \in order_list THEN Answered(store[t])
                                                      ELSE store[t]]
       IN  /\ store' = s
           /\ order_list' = order_list \ FinishedPrefix(order_list, s)
           /\ out' = [c \in Conns |-> out[c] \o FramesTo(c, s)]
    /\ UNCHANGED <<ctx, accepted>>

\* The loop closes c: on_close drops the orders of c, then the loop gives up
\* its reference, the only one, and the context is freed (on_release).
OnClose(c) ==
    /\ ctx[c] = "open"
    /\ order_list' = order_list \ OrdersOf(c)
    /\ ctx' = [ctx EXCEPT ![c] = "freed"]
    /\ UNCHANGED <<accepted, store, elapsed, out>>

Next ==
    \/ Tick
    \/ OnTimer
    \/ \E c \in Conns :
          \/ OnConnect(c)
          \/ OnClose(c)
          \/ \E p \in Payload : HandleMessage(c, p)

\* The loop calls cb_timer again and again (with interval 0 when it runs in
\* performance mode), and time passes.  Nothing makes clients connect, send or
\* close.
Fairness == WF_vars(Tick) /\ WF_vars(OnTimer)

Spec == Init /\ [][Next]_vars /\ Fairness

-----------------------------------------------------------------------------
(* Properties.                                                              *)

TypeOK ==
    /\ ctx \in [Conns -> {"none", "open", "freed"}]
    /\ accepted \in 0..MaxOrders
    /\ store \in [Ticket -> [ctx : Conns \cup {NoCtx}, rsp_cnt : 0..MaxRsp,
                             order_status : Status]]
    /\ order_list \in SUBSET (1..accepted)
    /\ elapsed \in 0..Interval

\* No order in the list points to a freed context: on_timer writes through
\* order_store->ctx, which nothing retains, so on_close must find every order
\* of the connection, wherever it is in the list.
NoDanglingCtx ==
    \A t \in order_list :
        /\ store[t].ctx \in Conns
        /\ ctx[store[t].ctx] = "open"

\* Along the list the response counts never increase.  The removal loop of
\* on_timer relies on it: it stops at the first order that is not finished.
SortedByCount ==
    \A t, u \in order_list : t < u => store[t].rsp_cnt >= store[u].rsp_cnt

\* Between callbacks no order that has had its last response is in the list:
\* the next pass of on_timer would answer it a fourth time.
NoFinishedOrderListed == \A t \in order_list : store[t].rsp_cnt < MaxRsp

\* What a client sees of one order: responses numbered 1, 2, ... without a gap
\* or a repetition, "total deal" on the last one and only there, whatever the
\* request carried in these fields; and none on somebody else's connection.
ResponsesInSequence ==
    \A c \in Conns : \A j \in DOMAIN out[c] :
        LET f == out[c][j]
            before == {i \in 1..(j - 1) : out[c][i].ticket = f.ticket}
        IN  /\ store[f.ticket].ctx = c
            /\ f.rsp_cnt \in 1..MaxRsp
            /\ {out[c][i].rsp_cnt : i \in before} = 1..(f.rsp_cnt - 1)
            /\ f.order_status = IF f.rsp_cnt = MaxRsp THEN "TOTAL_DEAL" ELSE "PART_DEAL"

\* On one connection an earlier order is never behind a later one: its k-th
\* response is written before the k-th response of the later order.  The client
\* relies on it when it takes the last response to its last order for the end
\* of its run (client_handle.c).
AnsweredInOrder ==
    \A c \in Conns : \A j \in DOMAIN out[c] :
        \A t \in 1..(out[c][j].ticket - 1) :
            store[t].ctx = c =>
                \E i \in 1..(j - 1) :
                    /\ out[c][i].ticket = t
                    /\ out[c][i].rsp_cnt = out[c][j].rsp_cnt

\* The places of the frames of ticket t on the connection it came from.
FramesOf(t) ==
    IF store[t].ctx = NoCtx THEN {}
    ELSE {i \in DOMAIN out[store[t].ctx] : out[store[t].ctx][i].ticket = t}

\* The exchange implements the abstract order desk: a connection is alive while
\* its context is open, and an order has had as many answers as there are
\* frames of it on its connection.
Desk == INSTANCE OrderDesk WITH
            alive   <- [c \in Conns |-> ctx[c] = "open"],
            owner   <- [t \in Ticket |-> store[t].ctx],
            answers <- [t \in Ticket |-> Cardinality(FramesOf(t))]

\* The desk's promises hold of the exchange, its liveness included.
ImplementsDesk == Desk!DeskSpec

=============================================================================
