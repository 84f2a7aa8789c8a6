------------------------------ MODULE Multiplex ------------------------------
(***************************************************************************)
(* example/server_multiplex with its clients and the exchange: the way of  *)
(* an order from a session through the session's worker to the exchange,   *)
(* and of its responses back to every session of the user.                 *)
(*                                                                         *)
(* Every worker is one event loop with its own link to the exchange, its   *)
(* own table of users and its own lists of sessions; only the listener's   *)
(* loop and the connecting threads share anything with it.  A user's       *)
(* sessions all go to worker user_id % num_worker.                         *)
(*                                                                         *)
(* Abstractions.  A worker handles an order in the step in which the       *)
(* client sends it.  A worker's cb_close and its release of the context    *)
(* are one step: only the listener's own late release can come in between, *)
(* and it commutes.  The exchange is what Upstream.tla implements: orders  *)
(* of a link are answered in rounds and dropped when the link breaks.      *)
(* Client hang-ups and broken links may happen at any time; what is on a   *)
(* broken link is lost.                                                    *)
(***************************************************************************)
EXTENDS Integers, Sequences, FiniteSets, SequencesExt

CONSTANTS
    Conns,         \* the client connections that may be made
    NoConn,        \* no connection
    NumWorker,     \* args.num_worker
    NumUser,       \* entries in a worker's user_ctxs, 256 in the code
    UserIds,       \* the user ids clients use
    Strays,        \* the connections whose clients send RSP_ORDER frames
    MaxOrders,     \* bound on the orders sent
    MaxRsp,        \* responses per order, 3 in the code
    MaxBreak       \* bound on the link breaks

ASSUME NoConnAssumption == NoConn \notin Conns
ASSUME NumWorkerAssumption == NumWorker \in Nat \ {0}   \* checked by main
ASSUME UserIdsAssumption == UserIds \subseteq Nat
ASSUME StraysAssumption == Strays \subseteq Conns
ASSUME BoundsAssumption ==
    /\ NumUser \in Nat
    /\ MaxOrders \in Nat
    /\ MaxRsp \in Nat \ {0}
    /\ MaxBreak \in Nat

Workers == 0..(NumWorker - 1)
Order == 1..MaxOrders

VARIABLES
    place,     \* place[c]: "none", in the "listen" loop, "login" seen, in
               \* "handover" to the worker, with the "worker", turned away
               \* there ("rejected"), or "left"
    ref,       \* ref[c]: the reference count of the context
    ctx,       \* ctx[c]: its memory: "none", "live", "freed"
    user_id,   \* user_id[c]: user_data->user_id
    listen_closing,  \* the context the listener is between cb_close and its
                     \* release of, or NoConn
    listed,    \* the contexts in the lists of their worker's user_ctxs
    link,      \* link[w]: "starting" (the worker's thread connects, its loop
               \* does not run yet), "queued" (connected, the context waits to
               \* be added to the loop), "up" (data->upstream_ctx is set), "down"
    breaks,    \* link breaks so far
    order,     \* order[o]: what was sent: the session and the user id it names
    fate,      \* fate[o]: "unsent", "forwarded", "dropped" by the worker, or
               \* "lost" with its link
    wire_up,   \* wire_up[w]: orders on the link of w
    pending,   \* pending[w]: the orders of that link at the exchange
    answers,   \* answers[o]: responses the exchange has given to o
    wire_down, \* wire_down[w]: responses on the link of w
    got,       \* got[c]: the responses of the exchange written to c
    unasked,   \* unasked[c]: other RSP_ORDER frames written to c: the client that
               \* sent such a frame and the user id it names
    crashed    \* the process died of an access outside a table

sessionVars == <<place, ref, ctx, user_id, listen_closing, listed>>
orderVars == <<order, fate>>
linkVars == <<link, breaks>>
wireVars == <<wire_up, pending, answers, wire_down>>
vars == <<place, ref, ctx, user_id, listen_closing, listed, link, breaks, order,
          fate, wire_up, pending, answers, wire_down, got, unasked, crashed>>

Init ==
    /\ place = [c \in Conns |-> "none"]
    /\ ref = [c \in Conns |-> 0]
    /\ ctx = [c \in Conns |-> "none"]
    /\ user_id = [c \in Conns |-> 0]
    /\ listen_closing = NoConn
    /\ listed = {}
    /\ link = [w \in Workers |-> "starting"]
    /\ breaks = 0
    /\ order = <<>>
    /\ fate = [o \in Order |-> "unsent"]
    /\ wire_up = [w \in Workers |-> <<>>]
    /\ pending = [w \in Workers |-> {}]
    /\ answers = [o \in Order |-> 0]
    /\ wire_down = [w \in Workers |-> <<>>]
    /\ got = [c \in Conns |-> <<>>]
    /\ unasked = [c \in Conns |-> {}]
    /\ crashed = FALSE

-----------------------------------------------------------------------------
(* Helpers.  A definition named Fault_... is a seeded fault: a plausible    *)
(* slip in the definition that follows it.  Nothing uses it.                *)

InTable(u) == u < NumUser

\* on_listen_close: idx_worker.
WorkerOf(c) == user_id[c] % NumWorker

Released(c) == [ref EXCEPT ![c] = @ - 1]

FreedIfLast(c) == IF ref[c] = 1 THEN [ctx EXCEPT ![c] = "freed"] ELSE ctx

Fault_RefForWorker(c) ==      \* both login and hand-over take it
    [ref EXCEPT ![c] = @ + 2]

\* listen_handle_message: the reference the worker will hold.
RefForWorker(c) == [ref EXCEPT ![c] = @ + 1]

Fault_Unlisted(c) ==           \* unlinks every session of the user
    listed \ {d \in listed : user_id[d] = user_id[c]}

Fault2_Unlisted(c) ==          \* only ever looks at the head of the list
    IF listed \cap {d \in Conns : user_id[d] = user_id[c]} = {c}
    THEN listed \ {c} ELSE listed

\* on_worker_close: the lists without the node of c.
Unlisted(c) == listed \ {c}

Fault_Allowed(c, u) == TRUE    \* the order's user id is not checked

\* worker_handle_message: an order must name the user of its session.
Allowed(c, u) == u = user_id[c]

Fault_ListOf(w, u) ==          \* stops after the first session it finds
    LET l == {c \in listed : WorkerOf(c) = w /\ user_id[c] = u}
    IN  IF l = {} THEN {} ELSE {CHOOSE c \in l : TRUE}

\* The list user_ctxs[u] of worker w.
ListOf(w, u) == {c \in listed : WorkerOf(c) = w /\ user_id[c] = u}

\* These orders, oldest first: there is one such sequence.
OldestFirst(os) ==
    {s \in [1..Cardinality(os) -> os] : \A i, j \in DOMAIN s : i < j => s[i] < s[j]}

\* on_timer of the exchange: the responses of a round to them.
Answers(s) == [i \in DOMAIN s |-> [order |-> s[i], rsp_cnt |-> answers[s[i]] + 1]]

-----------------------------------------------------------------------------
(* The listener's loop.                                                     *)

OnListenConnect(c) ==
    /\ ~crashed
    /\ listen_closing = NoConn
    /\ place[c] = "none"
    /\ place' = [place EXCEPT ![c] = "listen"]
    /\ ref' = [ref EXCEPT ![c] = 1]
    /\ ctx' = [ctx EXCEPT ![c] = "live"]
    /\ UNCHANGED <<user_id, listen_closing, listed, linkVars, orderVars,
                   wireVars, got, unasked, crashed>>

\* listen_handle_message.
ListenLogin(c, u) ==
    /\ ~crashed
    /\ listen_closing = NoConn
    /\ place[c] = "listen"
    /\ place' = [place EXCEPT ![c] = "login"]
    /\ user_id' = [user_id EXCEPT ![c] = u]
    /\ ref' = RefForWorker(c)
    /\ UNCHANGED <<ctx, listen_closing, listed, linkVars, orderVars, wireVars,
                   got, unasked, crashed>>

\* on_listen_close: of a context that has logged in, or of one whose client is
\* gone.
OnListenClose(c) ==
    /\ ~crashed
    /\ listen_closing = NoConn
    /\ \/ place[c] = "login" /\ place' = [place EXCEPT ![c] = "handover"]
       \/ place[c] = "listen" /\ place' = [place EXCEPT ![c] = "left"]
    /\ listen_closing' = c
    /\ UNCHANGED <<ref, ctx, user_id, listed, linkVars, orderVars, wireVars,
                   got, unasked, crashed>>

ListenRelease(c) ==
    /\ ~crashed
    /\ listen_closing = c
    /\ ref' = Released(c)
    /\ ctx' = FreedIfLast(c)
    /\ listen_closing' = NoConn
    /\ UNCHANGED <<place, user_id, listed, linkVars, orderVars, wireVars, got,
                   unasked, crashed>>

-----------------------------------------------------------------------------
(* A worker's loop.  It runs once its first connect has succeeded.          *)

\* on_worker_add_ctx, a client: it is listed, or turned away.
OnWorkerAddClient(c) ==
    /\ ~crashed
    /\ place[c] = "handover"
    /\ link[WorkerOf(c)] # "starting"
    /\ \/ /\ InTable(user_id[c])
          /\ place' = [place EXCEPT ![c] = "worker"]
          /\ listed' = listed \cup {c}
       \/ /\ ~InTable(user_id[c])
          /\ place' = [place EXCEPT ![c] = "rejected"]
          /\ UNCHANGED listed
    /\ UNCHANGED <<ref, ctx, user_id, listen_closing, linkVars, orderVars,
                   wireVars, got, unasked, crashed>>

\* on_worker_close of a client, and the loop's release of the context.  The
\* node is looked for at user_ctxs[user_id], in the table or not.  An index
\* outside it is undefined behaviour: the process dies, or the walk over what it
\* takes for a list does not find the context.
OnWorkerCloseClient(c) ==
    /\ ~crashed
    /\ place[c] \in {"worker", "rejected"}
    /\ place' = [place EXCEPT ![c] = "left"]
    /\ listed' = Unlisted(c)
    /\ ref' = Released(c)
    /\ ctx' = FreedIfLast(c)
    /\ \/ crashed' = FALSE
       \/ ~InTable(user_id[c]) /\ crashed' = TRUE
    /\ UNCHANGED <<user_id, listen_closing, linkVars, orderVars, wireVars, got,
                   unasked>>

\* worker_handle_message, REQ_ORDER of session c that names user u: forwarded,
\* dropped with a log line (wrong user), or dropped without one (no link).
WorkerReqOrder(c, u) ==
    /\ ~crashed
    /\ place[c] = "worker"
    /\ Len(order) < MaxOrders
    /\ order' = Append(order, [by |-> c, user_id |-> u])
    /\ LET o == Len(order) + 1
           w == WorkerOf(c)
           forwarded == Allowed(c, u) /\ link[w] = "up"
       IN  /\ fate' = [fate EXCEPT ![o] = IF forwarded THEN "forwarded" ELSE "dropped"]
           /\ wire_up' = IF forwarded THEN [wire_up EXCEPT ![w] = Append(@, o)]
                                      ELSE wire_up
    /\ UNCHANGED <<sessionVars, linkVars, pending, answers, wire_down, got,
                   unasked, crashed>>

\* worker_handle_message, RSP_ORDER of the exchange: to every session in the
\* user's list.
WorkerRspOrder(w) ==
    /\ ~crashed
    /\ link[w] = "up"
    /\ wire_down[w] # <<>>
    /\ LET r == Head(wire_down[w]) IN
       got' = [c \in Conns |->
                 IF c \in ListOf(w, order[r.order].user_id)
                 THEN Append(got[c], r) ELSE got[c]]
    /\ wire_down' = [wire_down EXCEPT ![w] = Tail(@)]
    /\ UNCHANGED <<sessionVars, linkVars, orderVars, wire_up, pending, answers,
                   unasked, crashed>>

\* The same of a client: the handler does not look at where a frame comes from.
\* A client may name any user id, and user_ctxs is indexed with it: outside the
\* table that is undefined behaviour, the process dies, or what it takes for a
\* list is empty.
WorkerRspOrderOfClient(c, u) ==
    /\ ~crashed
    /\ place[c] = "worker"
    /\ \/ /\ InTable(u)
          /\ unasked' = [d \in Conns |->
                            IF d \in ListOf(WorkerOf(c), u)
                            THEN unasked[d] \cup {[by |-> c, user_id |-> u]}
                            ELSE unasked[d]]
          /\ crashed' = FALSE
       \/ /\ ~InTable(u)
          /\ crashed' \in BOOLEAN
          /\ UNCHANGED unasked
    /\ UNCHANGED <<sessionVars, linkVars, orderVars, wireVars, got>>

\* connect_upstream: a thread of the worker tries until the exchange answers, at
\* first the one that will run its loop, later one of its own.  The context is
\* given to the loop, which may have clients to add before it.
ConnectUpstream(w) ==
    /\ ~crashed
    /\ link[w] \in {"starting", "down"}
    /\ link' = [link EXCEPT ![w] = "queued"]
    /\ UNCHANGED <<sessionVars, breaks, orderVars, wireVars, got, unasked, crashed>>

\* on_worker_add_ctx, the upstream context.
OnWorkerAddUpstream(w) ==
    /\ ~crashed
    /\ link[w] = "queued"
    /\ link' = [link EXCEPT ![w] = "up"]
    /\ UNCHANGED <<sessionVars, breaks, orderVars, wireVars, got, unasked, crashed>>

\* The link breaks: on_worker_close of the upstream context; the exchange's own
\* on_close drops the orders of the link.
OnWorkerCloseUpstream(w) ==
    /\ ~crashed
    /\ link[w] = "up"
    /\ breaks < MaxBreak
    /\ link' = [link EXCEPT ![w] = "down"]
    /\ breaks' = breaks + 1
    /\ LET gone == pending[w] \cup ToSet(wire_up[w])
                   \cup {wire_down[w][i].order : i \in DOMAIN wire_down[w]}
       IN  fate' = [o \in Order |-> IF o \in gone THEN "lost" ELSE fate[o]]
    /\ wire_up' = [wire_up EXCEPT ![w] = <<>>]
    /\ wire_down' = [wire_down EXCEPT ![w] = <<>>]
    /\ pending' = [pending EXCEPT ![w] = {}]
    /\ UNCHANGED <<sessionVars, order, answers, got, unasked, crashed>>

-----------------------------------------------------------------------------
(* The exchange (example/upstream; Upstream.tla has it in detail).          *)

\* upstream_handle_message and gen_rsp_order: an order is taken in.
ExchangeTake(w) ==
    /\ ~crashed
    /\ wire_up[w] # <<>>
    /\ pending' = [pending EXCEPT ![w] = @ \cup {Head(wire_up[w])}]
    /\ wire_up' = [wire_up EXCEPT ![w] = Tail(@)]
    /\ UNCHANGED <<sessionVars, linkVars, orderVars, answers, wire_down, got,
                   unasked, crashed>>

\* on_timer: each order gets its next response, the finished ones are dropped.
ExchangeRound(w) ==
    /\ ~crashed
    /\ pending[w] # {}
    /\ \E s \in OldestFirst(pending[w]) :
          wire_down' = [wire_down EXCEPT ![w] = @ \o Answers(s)]
    /\ answers' = [o \in Order |-> IF o \in pending[w] THEN answers[o] + 1
                                                      ELSE answers[o]]
    /\ pending' = [pending EXCEPT ![w] = {o \in @ : answers[o] + 1 < MaxRsp}]
    /\ UNCHANGED <<sessionVars, linkVars, orderVars, wire_up, got, unasked,
                   crashed>>

-----------------------------------------------------------------------------
Next ==
    \/ \E c \in Conns :
          \/ OnListenConnect(c)
          \/ OnListenClose(c)
          \/ ListenRelease(c)
          \/ OnWorkerAddClient(c)
          \/ OnWorkerCloseClient(c)
          \/ \E u \in UserIds : ListenLogin(c, u) \/ WorkerReqOrder(c, u)
    \/ \E c \in Strays : \E u \in UserIds : WorkerRspOrderOfClient(c, u)
    \/ \E w \in Workers :
          \/ WorkerRspOrder(w)
          \/ ConnectUpstream(w)
          \/ OnWorkerAddUpstream(w)
          \/ OnWorkerCloseUpstream(w)
          \/ ExchangeTake(w)
          \/ ExchangeRound(w)

\* The loops and the connecting threads keep running, a loop closes what is
\* flagged for closing, and the exchange serves what it is sent.  Nothing makes
\* a client connect, log in, send or hang up, or a link break.
Fairness ==
    /\ \A c \in Conns :
          /\ WF_vars(place[c] = "login" /\ OnListenClose(c))
          /\ WF_vars(ListenRelease(c))
          /\ WF_vars(OnWorkerAddClient(c))
          /\ WF_vars(place[c] = "rejected" /\ OnWorkerCloseClient(c))
    /\ \A w \in Workers :
          /\ WF_vars(WorkerRspOrder(w))
          /\ WF_vars(ConnectUpstream(w))
          /\ WF_vars(OnWorkerAddUpstream(w))
          /\ WF_vars(ExchangeTake(w))
          /\ WF_vars(ExchangeRound(w))

Spec == Init /\ [][Next]_vars /\ Fairness

-----------------------------------------------------------------------------
(* Properties.                                                              *)

Response == [order : Order, rsp_cnt : 1..MaxRsp]

TypeOK ==
    /\ place \in [Conns -> {"none", "listen", "login", "handover", "worker",
                            "rejected", "left"}]
    /\ ref \in [Conns -> 0..2]
    /\ ctx \in [Conns -> {"none", "live", "freed"}]
    /\ user_id \in [Conns -> UserIds \cup {0}]
    /\ listen_closing \in Conns \cup {NoConn}
    /\ listed \subseteq Conns
    /\ link \in [Workers -> {"starting", "queued", "up", "down"}]
    /\ breaks \in 0..MaxBreak
    /\ order \in Seq([by : Conns, user_id : UserIds])
    /\ fate \in [Order -> {"unsent", "forwarded", "dropped", "lost"}]
    /\ wire_up \in [Workers -> Seq(Order)]
    /\ pending \in [Workers -> SUBSET Order]
    /\ answers \in [Order -> 0..MaxRsp]
    /\ wire_down \in [Workers -> Seq(Response)]
    /\ got \in [Conns -> Seq(Response)]
    /\ unasked \in [Conns -> SUBSET [by : Conns, user_id : UserIds]]
    /\ crashed \in BOOLEAN

\* A worker writes responses to every session in a list, so no context in one is
\* freed: not by the listener's late release, not by another session's close.
ListedLive == \A c \in listed : place[c] = "worker" /\ ctx[c] = "live"

\* What the exchange answers goes to sessions of the user that sent the order
\* and to nobody else, clients that send orders in another's name included.  A
\* client can have an RSP_ORDER frame of its own written to others, since the
\* handler takes it for one of the exchange: but only to sessions of the user
\* it names, and of no user of another worker.
OwnResponsesOnly ==
    \A c \in Conns :
        /\ \A i \in DOMAIN got[c] : user_id[order[got[c][i].order].by] = user_id[c]
        /\ \A r \in unasked[c] : r.user_id = user_id[c] /\ WorkerOf(r.by) = WorkerOf(c)

GotAll(c, o) ==
    Cardinality({i \in DOMAIN got[c] : got[c][i].order = o}) = MaxRsp

\* An order that was forwarded gets all its responses through to the session
\* that sent it, unless that session leaves or the link breaks.
EveryOrderAnswered ==
    \A o \in Order :
        fate[o] = "forwarded" ~>
            \/ \E c \in Conns : /\ o \in DOMAIN order /\ order[o].by = c
                                /\ place[c] = "left" \/ GotAll(c, o)
            \/ fate[o] = "lost"
            \/ crashed

\* The context of a client that has left is freed in the end, whichever loop
\* gives up its reference last.
LeftIsFreed == \A c \in Conns : place[c] = "left" ~> ctx[c] = "freed" \/ crashed

\* In terms of the gateway: a session is served while it is listed, and the
\* responses on the links are those still owed.
OnTheWay(o) ==
    {r.rsp_cnt : r \in {r \in UNION {ToSet(wire_down[w]) : w \in Workers} : r.order = o}}

TheGateway == INSTANCE Gateway WITH
    Sessions <- Conns,
    Users <- UserIds,
    NoUser <- -1,
    Orders <- Order,
    served <- [c \in Conns |-> IF c \in listed THEN user_id[c] ELSE -1],
    order <- [o \in DOMAIN order |-> order[o].user_id],
    owed <- [o \in Order |-> OnTheWay(o)]

\* The multiplexing server is a gateway: no response of the exchange is written
\* twice, out of order, or to a session other than those of the order's user,
\* and none of these sessions is left out.
ImplementsGateway == TheGateway!GatewaySpec

(* A statement the code does not keep; see the README.                      *)

\* A worker checks the user id of a login against the size of its table
\* (worker_handle.c, on_worker_add_ctx), so no id is an index outside it, neither
\* that of a session that closes nor that of a frame.
IdsChecked == ~crashed

=============================================================================
