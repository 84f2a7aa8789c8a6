------------------------------- MODULE Client -------------------------------
(***************************************************************************)
(* example/client: one benchmark client from its connect to the end of its *)
(* event loop.  It logs in, sends its orders in rounds, keeps the first    *)
(* response to each of them and stops when the last order has had its last *)
(* response.                                                               *)
(*                                                                         *)
(* A server with the exchange behind it is here as the client sees it: it  *)
(* answers the login, and each order MaxRsp times in rounds, oldest order  *)
(* first, all over one stream (Upstream.tla has the exchange in detail,    *)
(* ChannelSessions.tla and Multiplex.tla the servers).  It may lose        *)
(* orders, at most MaxLost of them: both servers do when their link to the *)
(* exchange is down.  And it sends responses of other clients that use the *)
(* same user id here too, at most MaxForeign of them.                      *)
(*                                                                         *)
(* Time is abstract: a round, and the exit three seconds after the last    *)
(* response, come when they come; the loop calls no timer after it has     *)
(* been told to exit.  An order is the number of the template in           *)
(* orders.bin it was copied from, and a response count.                    *)
(***************************************************************************)
EXTENDS Integers, Sequences

CONSTANTS
    Uint32,          \* values of a uint32_t, 2^32 in the code
    total_orders,    \* orders in orders.bin
    round,           \* args.round
    order_per_round, \* args.order_per_round
    MaxRsp,          \* responses per order, 3 in the code
    MaxLost,         \* bound on the orders the server loses
    MaxForeign       \* bound on the responses to other clients' orders

\* The product that main compares with total_orders and stores in max_idx.
max_idx == (round * order_per_round) % Uint32

\* main: the client only starts with enough orders loaded.
Enough == max_idx <= total_orders

ASSUME SizesAssumption ==
    /\ Uint32 \in Nat \ {0}
    /\ total_orders \in Nat
    /\ round \in Nat
    /\ order_per_round \in Nat
    /\ MaxRsp \in Nat \ {0}
    /\ MaxLost \in Nat
    /\ MaxForeign \in Nat

Loaded == 0..(total_orders - 1)

VARIABLES
    ctx,        \* data->ctx: "null", "open", or "gone" once the loop closed it
    is_login,   \* data->is_login
    curr_idx,   \* data->curr_idx
    orders,     \* data->orders: the template each slot holds, and rsp_cnt
    finished,   \* data->finish_ts is set
    exited,     \* the event loop has been told to exit
    wire_up,    \* frames on their way to the server
    pending,    \* the orders the exchange has and has not finished
    lost,       \* orders lost by the server
    foreign,    \* responses to other clients' orders sent here
    wire_down   \* frames on their way to the client

clientVars == <<ctx, is_login, curr_idx, orders, finished, exited>>
serverVars == <<wire_up, pending, lost, foreign, wire_down>>
vars == <<ctx, is_login, curr_idx, orders, finished, exited, wire_up, pending,
          lost, foreign, wire_down>>

Init ==
    /\ ctx = "null"
    /\ is_login = FALSE
    /\ curr_idx = 0
    /\ orders = [i \in Loaded |-> [tmpl |-> i, rsp_cnt |-> 0]]
    /\ finished = FALSE
    /\ exited = ~Enough        \* main gives up before there is a loop
    /\ wire_up = <<>>
    /\ pending = <<>>
    /\ lost = 0
    /\ foreign = 0
    /\ wire_down = <<>>

-----------------------------------------------------------------------------
(* Helpers.  A definition named Fault_... is a seeded fault: a plausible    *)
(* slip in the definition that follows it.  Nothing uses it.                *)

Running == ~exited

\* on_timer: the requests of one round.  The i-th is a copy of orders[i], with
\* the running number, a uint32_t, as its coid.
RoundOf(first) ==
    [i \in 1..order_per_round |->
        [type |-> "REQ_ORDER", coid |-> (first + i - 1) % Uint32,
         tmpl |-> IF i - 1 \in Loaded THEN orders[i - 1].tmpl ELSE -1]]

Fault_Recorded(r) ==           \* every response is kept, not the first one
    [orders EXCEPT ![r.coid] = [tmpl |-> r.tmpl, rsp_cnt |-> r.rsp_cnt]]

\* handle_message: the first response overwrites the slot of its order.
Recorded(r) ==
    IF r.rsp_cnt = 1
    THEN [orders EXCEPT ![r.coid] = [tmpl |-> r.tmpl, rsp_cnt |-> 1]]
    ELSE orders

Fault_Completes(r) ==          \* any response to the last order
    r.coid = max_idx - 1

Fault2_Completes(r) ==         \* coids run from 1
    r.coid = max_idx /\ r.rsp_cnt = MaxRsp

\* handle_message: "mission completed".
Completes(r) == r.coid = max_idx - 1 /\ r.rsp_cnt = MaxRsp

\* on_timer: its first two early returns.
MayStart == ctx = "open" /\ is_login

-----------------------------------------------------------------------------
(* The client's event loop.                                                 *)

\* on_add_ctx: tcp_client_routine has connected, the login goes out.
OnAddCtx ==
    /\ Running
    /\ ctx = "null"
    /\ ctx' = "open"
    /\ wire_up' = Append(wire_up, [type |-> "REQ_LOGIN"])
    /\ UNCHANGED <<is_login, curr_idx, orders, finished, exited, pending, lost,
                   foreign, wire_down>>

Receiving(type) ==
    /\ Running
    /\ ctx = "open"
    /\ wire_down # <<>>
    /\ Head(wire_down).type = type
    /\ wire_down' = Tail(wire_down)

HandleRspLogin ==
    /\ Receiving("RSP_LOGIN")
    /\ is_login' = TRUE
    /\ UNCHANGED <<ctx, curr_idx, orders, finished, exited, wire_up, pending,
                   lost, foreign>>

HandleRspOrder ==
    /\ Receiving("RSP_ORDER")
    /\ LET r == Head(wire_down) IN
       \/ /\ r.coid >= max_idx
          /\ UNCHANGED <<orders, finished>>
       \/ /\ r.coid < max_idx
          /\ orders' = Recorded(r)
          /\ finished' = (finished \/ Completes(r))
    /\ UNCHANGED <<ctx, is_login, curr_idx, exited, wire_up, pending, lost, foreign>>

\* on_timer: a round is due.
OnTimerRound ==
    /\ Running
    /\ MayStart
    /\ curr_idx < max_idx
    /\ wire_up' = wire_up \o RoundOf(curr_idx)
    /\ curr_idx' = (curr_idx + order_per_round) % Uint32
    /\ UNCHANGED <<ctx, is_login, orders, finished, exited, pending, lost,
                   foreign, wire_down>>

\* on_timer: all is sent and more than three seconds have passed since the last
\* response.
OnTimerExit ==
    /\ Running
    /\ MayStart
    /\ curr_idx >= max_idx
    /\ finished
    /\ exited' = TRUE
    /\ UNCHANGED <<ctx, is_login, curr_idx, orders, finished, serverVars>>

\* The connection breaks: on_close and, with the loop's only reference gone,
\* on_release, which ends the loop.
OnRelease ==
    /\ Running
    /\ ctx = "open"
    /\ ctx' = "gone"
    /\ exited' = TRUE
    /\ UNCHANGED <<is_login, curr_idx, orders, finished, serverVars>>

-----------------------------------------------------------------------------
(* The server and the exchange.                                             *)

ServerLogin ==
    /\ wire_up # <<>>
    /\ Head(wire_up).type = "REQ_LOGIN"
    /\ wire_up' = Tail(wire_up)
    /\ wire_down' = Append(wire_down, [type |-> "RSP_LOGIN"])
    /\ UNCHANGED <<clientVars, pending, lost, foreign>>

ServerOrder ==
    /\ wire_up # <<>>
    /\ Head(wire_up).type = "REQ_ORDER"
    /\ wire_up' = Tail(wire_up)
    /\ pending' = Append(pending, [type |-> "RSP_ORDER", coid |-> Head(wire_up).coid,
                                   tmpl |-> Head(wire_up).tmpl, rsp_cnt |-> 0])
    /\ UNCHANGED <<clientVars, lost, foreign, wire_down>>

ServerLosesOrder ==
    /\ wire_up # <<>>
    /\ Head(wire_up).type = "REQ_ORDER"
    /\ lost < MaxLost
    /\ lost' = lost + 1
    /\ wire_up' = Tail(wire_up)
    /\ UNCHANGED <<clientVars, pending, foreign, wire_down>>

\* A round of the exchange: it answers what it has, then drops the finished
\* orders from the head up to the first that is not.
ServerRound ==
    /\ pending # <<>>
    /\ LET answers == [i \in DOMAIN pending |->
                          [pending[i] EXCEPT !.rsp_cnt = @ + 1]]
       IN  /\ wire_down' = wire_down \o answers
           /\ \E n \in 0..Len(answers) :
                 /\ \A i \in 1..n : answers[i].rsp_cnt >= MaxRsp
                 /\ n < Len(answers) => answers[n + 1].rsp_cnt < MaxRsp
                 /\ pending' = SubSeq(answers, n + 1, Len(answers))
    /\ UNCHANGED <<clientVars, wire_up, lost, foreign>>

\* Both servers write a response to every session of its user they have listed,
\* and they list a session as they answer its login.
ServerForeignRsp(coid, cnt) ==
    /\ foreign < MaxForeign
    /\ ctx # "null"
    /\ \A i \in DOMAIN wire_up : wire_up[i].type # "REQ_LOGIN"
    /\ foreign' = foreign + 1
    /\ wire_down' = Append(wire_down, [type |-> "RSP_ORDER", coid |-> coid,
                                      tmpl |-> 0, rsp_cnt |-> cnt])
    /\ UNCHANGED <<clientVars, wire_up, pending, lost>>

Next ==
    \/ OnAddCtx
    \/ HandleRspLogin
    \/ HandleRspOrder
    \/ OnTimerRound
    \/ OnTimerExit
    \/ OnRelease
    \/ ServerLogin
    \/ ServerOrder
    \/ ServerLosesOrder
    \/ ServerRound
    \/ \E coid \in 0..max_idx, cnt \in 1..MaxRsp : ServerForeignRsp(coid, cnt)

\* The connecting thread retries until it connects, the loop keeps running, the
\* server serves what it is sent.
Fairness ==
    /\ WF_vars(OnAddCtx)
    /\ WF_vars(HandleRspLogin)
    /\ WF_vars(HandleRspOrder)
    /\ WF_vars(OnTimerRound)
    /\ WF_vars(OnTimerExit)
    /\ WF_vars(ServerLogin)
    /\ WF_vars(ServerOrder)
    /\ WF_vars(ServerRound)

Spec == Init /\ [][Next]_vars /\ Fairness

-----------------------------------------------------------------------------
(* Properties.                                                              *)

Frame ==
    [type : {"REQ_LOGIN", "RSP_LOGIN"}]
    \cup [type : {"REQ_ORDER"}, coid : Nat, tmpl : Loaded]
    \cup [type : {"RSP_ORDER"}, coid : Nat, tmpl : Loaded \cup {0}, rsp_cnt : 0..MaxRsp]

\* Among the types: every request is copied from an order that was loaded, so
\* its template is in Loaded, and what the slots keep are first responses.
TypeOK ==
    /\ ctx \in {"null", "open", "gone"}
    /\ is_login \in BOOLEAN
    /\ curr_idx \in 0..(Uint32 - 1)
    /\ orders \in [Loaded -> [tmpl : Loaded, rsp_cnt : {0, 1}]]
    /\ finished \in BOOLEAN
    /\ exited \in BOOLEAN
    /\ wire_up \in Seq(Frame)
    /\ pending \in Seq(Frame)
    /\ lost \in 0..MaxLost
    /\ foreign \in 0..MaxForeign
    /\ wire_down \in Seq(Frame)

\* If the server loses nothing and no other client has the same user id, the
\* client calls its mission completed only when
\* no response is missing: it looks at the last order alone, and relies on the
\* orders before it having been answered first.
CompletedIsComplete ==
    finished /\ lost = 0 /\ foreign = 0 =>
        /\ curr_idx >= max_idx
        /\ wire_up = <<>> /\ pending = <<>> /\ wire_down = <<>>
        /\ \A i \in 0..(max_idx - 1) : orders[i].rsp_cnt = 1

\* A run whose orders are not lost comes to its end, and so does one that loses
\* its connection.  A run of no orders does not: its last response never comes.
RunEnds == TRUE ~> exited \/ lost > 0 \/ max_idx = 0

=============================================================================
