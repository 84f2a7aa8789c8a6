--------------------------- MODULE ChannelSessions ---------------------------
(***************************************************************************)
(* The client side of example/server_channel: the life of a client         *)
(* connection from accept to free.                                         *)
(*                                                                         *)
(* Three kinds of threads handle one socket context:                       *)
(*   - the listener's event loop accepts it, reads the login and hands it  *)
(*     over to a worker (listen_handle.c);                                 *)
(*   - the worker's event loop serves it until it closes                   *)
(*     (worker_handle.c);                                                  *)
(*   - the client channel thread reads the channel client_chan, keeps the  *)
(*     list of sessions of each user and writes to them                    *)
(*     (client_chan_routine in server_context.c).                          *)
(* A reference count decides who frees the context, and one session_t      *)
(* hangs off each context.                                                 *)
(*                                                                         *)
(* A callback of a loop runs to its end before the loop does anything      *)
(* else, so a callback is an action.  The socket library closes a context  *)
(* in two steps, and other threads may run in between: it calls cb_close,  *)
(* then gives up the loop's reference; if that was the last one it calls   *)
(* cb_release and frees the context.  ref_release on a count of 0 changes  *)
(* nothing and does not report 0.                                          *)
(*                                                                         *)
(* Not modelled here: the frames' contents, orders on their way to the     *)
(* exchange, and the startup race between a worker's attaching its         *)
(* callbacks and the listener's first hand-over.                           *)
(***************************************************************************)
EXTENDS Integers, Sequences

CONSTANTS
    Conns,         \* the client connections that may be made
    NoConn,        \* no connection
    NumWorker,     \* cfg.num_worker
    NumUser,       \* entries in server_ctx.user_ctxs, 256 in the code
    UserIds,       \* the user ids clients log in with
    ChanCapacity,  \* capacity of client_chan, 2048 in the code
    MaxRspQueued   \* bound on the order responses waiting in client_chan

ASSUME NoConnAssumption == NoConn \notin Conns
ASSUME NumWorkerAssumption == NumWorker \in Nat \ {0}   \* checked by main
ASSUME SizesAssumption ==
    /\ NumUser \in Nat
    /\ ChanCapacity \in Nat
    /\ MaxRspQueued \in Nat
ASSUME UserIdsAssumption == UserIds \subseteq Nat

Workers == 0..(NumWorker - 1)

VARIABLES
    place,    \* place[c]: the loop that has c: "listen", "worker", on its way
              \* between them ("handover"), or "none" before and "left" after
    ref,      \* ref[c]: the reference count of the context
    ctx,      \* ctx[c]: the memory of the context: "none", "live", "freed"
    session,  \* session[c]: the memory of the session_t, likewise
    user_id,  \* user_id[c]: session->user_id
    is_detached,    \* is_detached[c]: session->is_detached
    flag_closed,    \* flag_closed[c]: MUGGLE_EV_CTX_FLAG_CLOSED is set
    hangup,         \* hangup[c]: the peer is gone
    listen_closing, \* the context the listener is between cb_close and its
                    \* release of, or NoConn
    worker_closing, \* the same of each worker
    client_chan,    \* the messages in the channel, oldest first
    listed,         \* the sessions in the lists of user_ctxs
    answered,       \* the connections a RSP_LOGIN was written to
    overflowed,     \* a message has been lost because the channel was full
    crashed         \* the process has died of an index outside the table

loopVars == <<listen_closing, worker_closing>>
peerVars == <<hangup, answered>>
sessionVars == <<session, user_id, is_detached>>
vars == <<place, ref, ctx, session, user_id, is_detached, flag_closed, hangup,
          listen_closing, worker_closing, client_chan, listed, answered, overflowed,
          crashed>>

Init ==
    /\ place = [c \in Conns |-> "none"]
    /\ ref = [c \in Conns |-> 0]
    /\ ctx = [c \in Conns |-> "none"]
    /\ session = [c \in Conns |-> "none"]
    /\ user_id = [c \in Conns |-> 0]
    /\ is_detached = [c \in Conns |-> FALSE]
    /\ flag_closed = [c \in Conns |-> FALSE]
    /\ hangup = [c \in Conns |-> FALSE]
    /\ listen_closing = NoConn
    /\ worker_closing = [w \in Workers |-> NoConn]
    /\ client_chan = <<>>
    /\ listed = {}
    /\ answered = {}
    /\ overflowed = FALSE
    /\ crashed = FALSE

-----------------------------------------------------------------------------
(* Helpers.  A definition named Fault_... is a seeded fault: a plausible    *)
(* slip in the definition that follows it.  Nothing uses it.                *)

Message == [type : {"ADD", "DEL"}, ctx : Conns]
           \cup [type : {"RSP_ORDER"}, user_id : UserIds]

About(c, m) == m.type # "RSP_ORDER" /\ m.ctx = c

Fault_Pushed(m) ==               \* the newest message is read first
    IF Len(client_chan) < ChanCapacity THEN <<m>> \o client_chan
                                       ELSE client_chan

\* server_context_push: what muggle_channel_write reports is ignored, so a
\* message that finds the channel full is lost.
Pushed(m) ==
    IF Len(client_chan) < ChanCapacity THEN Append(client_chan, m)
                                       ELSE client_chan

\* Whether a push now would lose its message.
Losing == Len(client_chan) >= ChanCapacity

InTable(u) == u < NumUser

\* on_listen_close: the worker a session is handed to.
WorkerOf(c) == user_id[c] % NumWorker

Fault_Released(c) == [ref EXCEPT ![c] = @ - 1]    \* no look at the count

\* muggle_socket_ctx_ref_release (external).
Released(c) == IF ref[c] = 0 THEN ref ELSE [ref EXCEPT ![c] = @ - 1]

IsLast(c) == ref[c] = 1

\* server_context_del_ctx: the lists after the session of c is taken out.
Unlinked(c) ==
    IF user_id[c] # 0 /\ InTable(user_id[c]) THEN listed \ {c} ELSE listed

\* The library's release of a loop's reference (external): it frees the
\* context when the reference was the last one.
LoopRelease(c) ==
    /\ ref' = Released(c)
    /\ ctx' = IF IsLast(c) THEN [ctx EXCEPT ![c] = "freed"] ELSE ctx

-----------------------------------------------------------------------------
(* The listener's loop.                                                     *)

ListenIdle == listen_closing = NoConn

\* on_listen_connect.
OnListenConnect(c) ==
    /\ ~crashed
    /\ ListenIdle
    /\ place[c] = "none"
    /\ place' = [place EXCEPT ![c] = "listen"]
    /\ ref' = [ref EXCEPT ![c] = 1]
    /\ ctx' = [ctx EXCEPT ![c] = "live"]
    /\ session' = [session EXCEPT ![c] = "live"]
    /\ UNCHANGED <<user_id, is_detached, flag_closed, hangup, listed, answered,
                   client_chan, loopVars, overflowed, crashed>>

Fault_RefForWorker(c) == ref     \* the worker's reference is not taken

\* listen_handle_message: the reference the worker will hold.
RefForWorker(c) == [ref EXCEPT ![c] = @ + 1]

\* listen_handle_message: the login of a client.  The context is marked closed
\* to make the listener's loop let go of it.
ListenHandleMessage(c, u) ==
    /\ ~crashed
    /\ ListenIdle
    /\ place[c] = "listen"
    /\ ~is_detached[c]           \* a client logs in once
    /\ user_id' = [user_id EXCEPT ![c] = u]
    /\ is_detached' = [is_detached EXCEPT ![c] = TRUE]
    /\ ref' = RefForWorker(c)
    /\ flag_closed' = [flag_closed EXCEPT ![c] = TRUE]
    /\ UNCHANGED <<place, ctx, session, client_chan, listed, peerVars, loopVars,
                   overflowed, crashed>>

Fault_ClearedFlags(c) == flag_closed    \* the worker finds CLOSED still set

\* on_listen_close: ctx->base.flags = 0.
ClearedFlags(c) == [flag_closed EXCEPT ![c] = FALSE]

\* on_listen_close: a logged in context goes to its worker, any other one is
\* on its way out.
OnListenClose(c) ==
    /\ ~crashed
    /\ ListenIdle
    /\ place[c] = "listen"
    /\ flag_closed[c] \/ hangup[c]
    /\ \/ /\ is_detached[c]
          /\ is_detached' = [is_detached EXCEPT ![c] = FALSE]
          /\ flag_closed' = ClearedFlags(c)
          /\ place' = [place EXCEPT ![c] = "handover"]
       \/ /\ ~is_detached[c]
          /\ place' = [place EXCEPT ![c] = "left"]
          /\ UNCHANGED <<is_detached, flag_closed>>
    /\ listen_closing' = c
    /\ UNCHANGED <<ref, ctx, session, user_id, client_chan, listed, peerVars,
                   worker_closing, overflowed, crashed>>

\* The listener's loop gives up its reference; on_listen_release frees the
\* session when it was the last one.
ListenRelease(c) ==
    /\ ~crashed
    /\ listen_closing = c
    /\ LoopRelease(c)
    /\ session' = IF IsLast(c) THEN [session EXCEPT ![c] = "freed"] ELSE session
    /\ listen_closing' = NoConn
    /\ UNCHANGED <<place, user_id, is_detached, flag_closed, client_chan, listed,
                   peerVars, worker_closing, overflowed, crashed>>

-----------------------------------------------------------------------------
(* A worker's loop.                                                         *)

WorkerIdle(c) == worker_closing[WorkerOf(c)] = NoConn

Fault_RefForChannel(c) == ref    \* the channel's reference is not taken

\* on_worker_add_ctx: the reference that goes with ADD and comes back with DEL.
RefForChannel(c) == [ref EXCEPT ![c] = @ + 1]

Fault_AddPush(c) ==              \* user 0, who is never listed, is left out
    IF user_id[c] = 0 THEN client_chan ELSE Pushed([type |-> "ADD", ctx |-> c])

AddPush(c) == Pushed([type |-> "ADD", ctx |-> c])

\* on_worker_add_ctx: the channel thread is told of a new session; a user id
\* outside the table only marks the context closed.
OnWorkerAddCtx(c) ==
    /\ ~crashed
    /\ WorkerIdle(c)
    /\ place[c] = "handover"
    /\ place' = [place EXCEPT ![c] = "worker"]
    /\ \/ /\ InTable(user_id[c])
          /\ ref' = RefForChannel(c)
          /\ client_chan' = AddPush(c)
          /\ overflowed' = (overflowed \/ Losing)
          /\ UNCHANGED flag_closed
       \/ /\ ~InTable(user_id[c])
          /\ flag_closed' = [flag_closed EXCEPT ![c] = TRUE]
          /\ UNCHANGED <<ref, client_chan, overflowed>>
    /\ UNCHANGED <<ctx, sessionVars, listed, peerVars, loopVars, crashed>>

Fault_ClosePush(c) == client_chan     \* the channel thread is not told

\* on_worker_close: DEL is pushed whether or not ADD was.
ClosePush(c) == Pushed([type |-> "DEL", ctx |-> c])

OnWorkerClose(c) ==
    /\ ~crashed
    /\ WorkerIdle(c)
    /\ place[c] = "worker"
    /\ flag_closed[c] \/ hangup[c]
    /\ place' = [place EXCEPT ![c] = "left"]
    /\ client_chan' = ClosePush(c)
    /\ overflowed' = (overflowed \/ Losing)
    /\ worker_closing' = [worker_closing EXCEPT ![WorkerOf(c)] = c]
    /\ UNCHANGED <<ref, ctx, sessionVars, flag_closed, listed, peerVars,
                   listen_closing, crashed>>

\* The worker's loop gives up its reference.  on_worker_release runs when the
\* count is 0 already, so its own ref_release never reports 0 and the session
\* is neither unlinked nor freed.
WorkerRelease(w, c) ==
    /\ ~crashed
    /\ worker_closing[w] = c
    /\ LoopRelease(c)
    /\ worker_closing' = [worker_closing EXCEPT ![w] = NoConn]
    /\ UNCHANGED <<place, sessionVars, flag_closed, client_chan, listed, peerVars,
                   listen_closing, overflowed, crashed>>

-----------------------------------------------------------------------------
(* The client channel thread and what feeds it.                             *)

\* upstream_handle_message: a response from the exchange, for one user.
UpstreamHandleMessage(u) ==
    /\ ~crashed
    /\ Len(SelectSeq(client_chan, LAMBDA m : m.type = "RSP_ORDER")) < MaxRspQueued
    /\ client_chan' = Pushed([type |-> "RSP_ORDER", user_id |-> u])
    /\ overflowed' = (overflowed \/ Losing)
    /\ UNCHANGED <<place, ref, ctx, sessionVars, flag_closed, listed, peerVars,
                   loopVars, crashed>>

Reading(type) == client_chan # <<>> /\ Head(client_chan).type = type

\* user_context_add: user 0 is never listed.
Linked(c) == IF user_id[c] = 0 THEN listed ELSE listed \cup {c}

\* client_chan_routine, ADD: list the session, answer the login.
ChanAddCtx ==
    /\ ~crashed
    /\ Reading("ADD")
    /\ listed' = Linked(Head(client_chan).ctx)
    /\ answered' = answered \cup {Head(client_chan).ctx}
    /\ client_chan' = Tail(client_chan)
    /\ UNCHANGED <<place, ref, ctx, sessionVars, flag_closed, hangup, loopVars,
                   overflowed, crashed>>

\* client_chan_routine, DEL: the last reference unlinks the session and frees
\* both (server_context_del_ctx).
ChanDelCtx ==
    /\ ~crashed
    /\ Reading("DEL")
    /\ LET c == Head(client_chan).ctx IN
       /\ ref' = Released(c)
       /\ \/ /\ IsLast(c)
             /\ ctx' = [ctx EXCEPT ![c] = "freed"]
             /\ session' = [session EXCEPT ![c] = "freed"]
             /\ listed' = Unlinked(c)
          \/ /\ ~IsLast(c)
             /\ UNCHANGED <<ctx, session, listed>>
    /\ client_chan' = Tail(client_chan)
    /\ UNCHANGED <<place, user_id, is_detached, flag_closed, peerVars, loopVars,
                   overflowed, crashed>>

\* client_chan_routine, RSP_ORDER: the response is written to every session in
\* the list of its user.  Nobody has compared the id the order names with the
\* size of the table: an index outside it is undefined behaviour, the process
\* dies, or what it takes for a list is empty.
ChanRspOrder ==
    /\ ~crashed
    /\ Reading("RSP_ORDER")
    /\ \/ crashed' = FALSE
       \/ ~InTable(Head(client_chan).user_id) /\ crashed' = TRUE
    /\ client_chan' = Tail(client_chan)
    /\ UNCHANGED <<place, ref, ctx, sessionVars, flag_closed, listed, peerVars,
                   loopVars, overflowed>>

ChanRoutine == ChanAddCtx \/ ChanDelCtx \/ ChanRspOrder

\* The sessions the next message makes the thread write to.
WriteTargets ==
    CASE Reading("ADD")       -> {Head(client_chan).ctx}
      [] Reading("RSP_ORDER") ->
            {c \in listed : user_id[c] = Head(client_chan).user_id}
      [] OTHER                -> {}

\* A client goes away, or sends what makes netmodel_decode mark it closed.
PeerHangup(c) ==
    /\ ~crashed
    /\ place[c] \in {"listen", "handover", "worker"}
    /\ ~hangup[c]
    /\ hangup' = [hangup EXCEPT ![c] = TRUE]
    /\ UNCHANGED <<place, ref, ctx, sessionVars, flag_closed, client_chan, listed,
                   answered, loopVars, overflowed, crashed>>

Next ==
    \/ ChanAddCtx
    \/ ChanDelCtx
    \/ ChanRspOrder
    \/ \E u \in UserIds : UpstreamHandleMessage(u)
    \/ \E c \in Conns :
          \/ OnListenConnect(c)
          \/ \E u \in UserIds : ListenHandleMessage(c, u)
          \/ OnListenClose(c)
          \/ ListenRelease(c)
          \/ OnWorkerAddCtx(c)
          \/ OnWorkerClose(c)
          \/ \E w \in Workers : WorkerRelease(w, c)
          \/ PeerHangup(c)

\* Each loop polls all its contexts again and again and each thread keeps
\* running; clients, their logins and the exchange owe nobody anything.
Fairness ==
    /\ WF_vars(ChanRoutine)
    /\ \A c \in Conns :
          /\ WF_vars(OnListenClose(c))
          /\ WF_vars(ListenRelease(c))
          /\ WF_vars(OnWorkerAddCtx(c))
          /\ WF_vars(OnWorkerClose(c))
          /\ \A w \in Workers : WF_vars(WorkerRelease(w, c))

Spec == Init /\ [][Next]_vars /\ Fairness

-----------------------------------------------------------------------------
(* Properties.                                                              *)

Memory == {"none", "live", "freed"}

TypeOK ==
    /\ place \in [Conns -> {"none", "listen", "handover", "worker", "left"}]
    /\ ref \in [Conns -> Nat]
    /\ ctx \in [Conns -> Memory]
    /\ session \in [Conns -> Memory]
    /\ user_id \in [Conns -> UserIds \cup {0}]
    /\ is_detached \in [Conns -> BOOLEAN]
    /\ flag_closed \in [Conns -> BOOLEAN]
    /\ hangup \in [Conns -> BOOLEAN]
    /\ listen_closing \in Conns \cup {NoConn}
    /\ worker_closing \in [Workers -> Conns \cup {NoConn}]
    /\ client_chan \in Seq(Message)
    /\ listed \subseteq Conns
    /\ answered \subseteq Conns
    /\ overflowed \in BOOLEAN
    /\ crashed \in BOOLEAN

(* Who holds a reference to a context: a thread that may still touch it.    *)
HeldByListener(c) == place[c] = "listen" \/ listen_closing = c

HeldByWorker(c) ==
    \/ is_detached[c]            \* taken on the worker's behalf at login
    \/ place[c] \in {"handover", "worker"}
    \/ \E w \in Workers : worker_closing[w] = c

HeldByChannel(c) ==
    \/ place[c] = "worker"       \* the DEL that is still to come
    \/ \E i \in DOMAIN client_chan : About(c, client_chan[i])

One(b) == IF b THEN 1 ELSE 0

Holders(c) == One(HeldByListener(c)) + One(HeldByWorker(c)) + One(HeldByChannel(c))

\* The count covers every thread that may still touch the context, messages on
\* their way included.  A user id outside the table is not covered: its DEL
\* gives back a reference nobody took.
RefCoversHolders == \A c \in Conns : InTable(user_id[c]) => ref[c] >= Holders(c)

\* No thread is left with a context or a session that has been freed: not the
\* listener between the hand-over and its own release, not the worker, and not
\* a message in the channel.
HeldIsLive ==
    \A c \in Conns :
        /\ InTable(user_id[c])
        /\ HeldByListener(c) \/ HeldByWorker(c) \/ HeldByChannel(c)
        => ctx[c] = "live" /\ session[c] = "live"

\* The channel has at most one ADD and one DEL of a connection, the ADD in
\* front: no session can be listed after the message that should remove it.
AddBeforeDel ==
    \A i, j \in DOMAIN client_chan : \A c \in Conns :
        i < j /\ About(c, client_chan[i]) /\ About(c, client_chan[j])
        => client_chan[i].type = "ADD" /\ client_chan[j].type = "DEL"

\* The server hangs up on nobody it has a table entry for: the CLOSED flag that
\* takes a context out of the listener does not follow it to the worker.
DropsNobody ==
    \A c \in Conns : place[c] = "left" /\ InTable(user_id[c]) => hangup[c]

\* As long as the channel never overflows and the process does not die, a
\* context that has left the server is freed in the end, whoever lets go of it
\* last.
EveryCtxFreed ==
    \A c \in Conns :
        place[c] = "left" /\ InTable(user_id[c])
            ~> ctx[c] = "freed" \/ overflowed \/ crashed

\* Under the same condition, a client handed to a worker gets the answer to its
\* login.
EveryLoginAnswered ==
    \A c \in Conns :
        place[c] = "handover" /\ InTable(user_id[c])
            ~> c \in answered \/ overflowed \/ crashed

(* Two statements the code does not keep; see the README.                   *)

\* server_context_del_ctx takes a client session out of the list of its user
\* before it frees it, so what the channel thread writes a response to has not
\* been freed.
WritesToLive == \A c \in WriteTargets : ctx[c] = "live"

\* Each message gives back a reference its sender took, so the context of a
\* message that waits in the channel has not been freed.
MessagesLive ==
    \A i \in DOMAIN client_chan : \A c \in Conns :
        About(c, client_chan[i]) => ctx[c] = "live"

=============================================================================
