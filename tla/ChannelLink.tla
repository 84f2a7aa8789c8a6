----------------------------- MODULE ChannelLink -----------------------------
(***************************************************************************)
(* The exchange side of example/server_channel: the one link to the        *)
(* exchange, made again each time it breaks, and the thread that writes    *)
(* the orders to it.                                                       *)
(*                                                                         *)
(*   - a connecting thread retries until the exchange answers, then gives  *)
(*     the new context to the upstream event loop (connect_upstream);      *)
(*   - the upstream event loop reads responses, and on a break starts the  *)
(*     next connecting thread (upstream_handle.c);                         *)
(*   - the upstream channel thread reads upstream_chan: ADD and DEL tell   *)
(*     it which context to write the orders to (upstream_chan_routine in   *)
(*     server_context.c).                                                  *)
(*                                                                         *)
(* A link is one socket context, numbered by the attempt that made it.     *)
(* The loop closes it in two steps, like every loop of the program (see    *)
(* ChannelSessions).                                                       *)
(***************************************************************************)
EXTENDS Integers, Sequences, FiniteSets

CONSTANTS
    MaxLink,        \* bound on the links made; the last one does not break
    ChanCapacity,   \* capacity of upstream_chan, 2048 in the code
    Order,          \* the orders clients may send
    MaxOrderQueued  \* bound on the orders waiting in the channel

ASSUME LinkBounds ==
    /\ MaxLink \in Nat \ {0}
    /\ ChanCapacity \in Nat
    /\ MaxOrderQueued \in Nat

Link == 1..MaxLink
NULL == 0           \* the null pointer; no link has this number

VARIABLES
    connecting,     \* the connecting threads at work
    made,           \* the number of links made so far
    place,          \* place[k]: "none", "added" to the loop's queue, "loop", "left"
    ref,            \* ref[k]: the reference count of the context
    ctx,            \* ctx[k]: its memory: "none", "live", "freed"
    closing,        \* the link the loop is between cb_close and its release
                    \* of, or NULL
    upstream_chan,  \* the messages in the channel, oldest first
    upstream_ctx,   \* the channel thread's upstream_ctx
    crashed,        \* the process has died of an undefined access
    overflowed      \* a message has been lost because the channel was full

vars == <<connecting, made, place, ref, ctx, closing, upstream_chan, upstream_ctx,
          crashed, overflowed>>

Init ==
    /\ connecting = 1      \* upstream_routine makes the first link itself
    /\ made = 0
    /\ place = [k \in Link |-> "none"]
    /\ ref = [k \in Link |-> 0]
    /\ ctx = [k \in Link |-> "none"]
    /\ closing = NULL
    /\ upstream_chan = <<>>
    /\ upstream_ctx = NULL
    /\ crashed = FALSE
    /\ overflowed = FALSE

-----------------------------------------------------------------------------
(* Helpers.  A definition named Fault_... is a seeded fault: a plausible    *)
(* slip in the definition that follows it.  Nothing uses it.                *)

Message == [type : {"ADD", "DEL"}, ctx : Link] \cup [type : {"REQ_ORDER"}, order : Order]

About(k, m) == m.type # "REQ_ORDER" /\ m.ctx = k

\* server_context_push: a message that finds the channel full is lost.
Pushed(m) ==
    IF Len(upstream_chan) < ChanCapacity THEN Append(upstream_chan, m)
                                         ELSE upstream_chan

\* Whether a push now would lose its message.
Losing == Len(upstream_chan) >= ChanCapacity

\* muggle_socket_ctx_ref_release (external).
Released(k) == IF ref[k] = 0 THEN ref ELSE [ref EXCEPT ![k] = @ - 1]

FreedIfLast(k) == IF ref[k] = 1 THEN [ctx EXCEPT ![k] = "freed"] ELSE ctx

Fault_RefForChannel(k) == ref \* the channel's reference is not taken

\* on_upstream_add_ctx: the reference that goes with ADD.
RefForChannel(k) == [ref EXCEPT ![k] = @ + 1]

Fault_DelPush(k) == upstream_chan     \* the channel thread is not told

\* on_upstream_close: the message that gives back the channel's reference.
DelPush(k) == Pushed([type |-> "DEL", ctx |-> k])

Fault_Reconnecting == connecting      \* no thread is started on a break

\* on_upstream_close: a new connecting thread.
Reconnecting == connecting + 1

Fault_AfterDel(k) == upstream_ctx     \* the thread keeps the old pointer

\* upstream_chan_routine, DEL: the thread forgets its link.
AfterDel(k) == NULL

-----------------------------------------------------------------------------
\* connect_upstream: an attempt succeeds; the failing ones before it change
\* nothing but the log.  The context is given to the loop.
ConnectUpstream ==
    /\ ~crashed
    /\ connecting > 0
    /\ made < MaxLink
    /\ connecting' = connecting - 1
    /\ made' = made + 1
    /\ place' = [place EXCEPT ![made + 1] = "added"]
    /\ ref' = [ref EXCEPT ![made + 1] = 1]
    /\ ctx' = [ctx EXCEPT ![made + 1] = "live"]
    /\ UNCHANGED <<closing, upstream_chan, upstream_ctx, crashed, overflowed>>

OnUpstreamAddCtx(k) ==
    /\ ~crashed
    /\ closing = NULL
    /\ place[k] = "added"
    /\ place' = [place EXCEPT ![k] = "loop"]
    /\ ref' = RefForChannel(k)
    /\ upstream_chan' = Pushed([type |-> "ADD", ctx |-> k])
    /\ overflowed' = (overflowed \/ Losing)
    /\ UNCHANGED <<connecting, made, ctx, closing, upstream_ctx, crashed>>

\* The link breaks: on_upstream_close, then the loop's release of its context.
OnUpstreamClose(k) ==
    /\ ~crashed
    /\ closing = NULL
    /\ place[k] = "loop"
    /\ made < MaxLink
    /\ place' = [place EXCEPT ![k] = "left"]
    /\ upstream_chan' = DelPush(k)
    /\ overflowed' = (overflowed \/ Losing)
    /\ connecting' = Reconnecting
    /\ closing' = k
    /\ UNCHANGED <<made, ref, ctx, upstream_ctx, crashed>>

UpstreamRelease ==
    /\ ~crashed
    /\ closing # NULL
    /\ ref' = Released(closing)
    /\ ctx' = FreedIfLast(closing)
    /\ closing' = NULL
    /\ UNCHANGED <<connecting, made, place, upstream_chan, upstream_ctx, crashed,
                   overflowed>>

\* client_handle_message (worker_handle.c): an order of a client.
ClientHandleMessage(o) ==
    /\ ~crashed
    /\ Cardinality({i \in DOMAIN upstream_chan : upstream_chan[i].type = "REQ_ORDER"})
          < MaxOrderQueued
    /\ upstream_chan' = Pushed([type |-> "REQ_ORDER", order |-> o])
    /\ overflowed' = (overflowed \/ Losing)
    /\ UNCHANGED <<connecting, made, place, ref, ctx, closing, upstream_ctx,
                   crashed>>

-----------------------------------------------------------------------------
(* The upstream channel thread.                                             *)

Reading(type) == upstream_chan # <<>> /\ Head(upstream_chan).type = type

ChanAddCtx ==
    /\ ~crashed
    /\ Reading("ADD")
    /\ upstream_ctx' = Head(upstream_chan).ctx
    /\ upstream_chan' = Tail(upstream_chan)
    /\ UNCHANGED <<connecting, made, place, ref, ctx, closing, crashed,
                   overflowed>>

ChanDelCtx ==
    /\ ~crashed
    /\ Reading("DEL")
    /\ LET k == Head(upstream_chan).ctx IN
       /\ upstream_ctx' = AfterDel(k)
       /\ ref' = Released(k)
       /\ ctx' = FreedIfLast(k)
    /\ upstream_chan' = Tail(upstream_chan)
    /\ UNCHANGED <<connecting, made, place, closing, crashed, overflowed>>

\* REQ_ORDER: the order is written to the link.  Without a link the thread logs
\* an error and writes all the same, through a null pointer: the build may
\* crash, or lose the order.
ChanReqOrder ==
    /\ ~crashed
    /\ Reading("REQ_ORDER")
    /\ upstream_chan' = Tail(upstream_chan)
    /\ \/ crashed' = FALSE
       \/ upstream_ctx = NULL /\ crashed' = TRUE
    /\ UNCHANGED <<connecting, made, place, ref, ctx, closing, upstream_ctx,
                   overflowed>>

ChanRoutine == ChanAddCtx \/ ChanDelCtx \/ ChanReqOrder

\* The process dies of another of its threads: of client_chan_routine, when it
\* indexes the table of users with an id outside it (ChannelOrders has when).
ProcessDies ==
    /\ ~crashed
    /\ crashed' = TRUE
    /\ UNCHANGED <<connecting, made, place, ref, ctx, closing, upstream_chan,
                   upstream_ctx, overflowed>>

Next ==
    \/ ConnectUpstream
    \/ \E k \in Link : OnUpstreamAddCtx(k) \/ OnUpstreamClose(k)
    \/ UpstreamRelease
    \/ \E o \in Order : ClientHandleMessage(o)
    \/ ChanAddCtx
    \/ ChanDelCtx
    \/ ChanReqOrder
    \/ ProcessDies

\* The threads keep running, and the exchange answers some attempt in the end.
\* Nothing makes a link break or a client send.
Fairness ==
    /\ WF_vars(ConnectUpstream)
    /\ \A k \in Link : WF_vars(OnUpstreamAddCtx(k))
    /\ WF_vars(UpstreamRelease)
    /\ WF_vars(ChanRoutine)

Spec == Init /\ [][Next]_vars /\ Fairness

-----------------------------------------------------------------------------
(* Properties.                                                              *)

TypeOK ==
    /\ connecting \in 0..1
    /\ made \in 0..MaxLink
    /\ place \in [Link -> {"none", "added", "loop", "left"}]
    /\ ref \in [Link -> Nat]
    /\ ctx \in [Link -> {"none", "live", "freed"}]
    /\ closing \in Link \cup {NULL}
    /\ upstream_chan \in Seq(Message)
    /\ upstream_ctx \in Link \cup {NULL}
    /\ crashed \in BOOLEAN
    /\ overflowed \in BOOLEAN

\* The links between connect and close, those still being made included.
Working == {k \in Link : place[k] \in {"added", "loop"}}

\* The server always works on exactly one link: a break starts one connecting
\* thread, and nothing else does.  None, and it would never reach the exchange
\* again; two, and responses would come twice.
OneLinkInTheWorks == connecting + Cardinality(Working) = 1

\* What the channel thread writes the orders to has not been freed, even when
\* the channel loses an ADD or a DEL.
WritesToLive == upstream_ctx # NULL => ctx[upstream_ctx] = "live"

\* As long as the channel never overflows, a thread that has read everything
\* about links writes to the link the loop reads from, and to none if there is
\* none.
PointerCaughtUp ==
    ~overflowed /\ (\A i \in DOMAIN upstream_chan : upstream_chan[i].type = "REQ_ORDER")
    => \A k \in Link : upstream_ctx = k <=> place[k] = "loop"

\* As long as the channel never overflows, the server is linked to the exchange
\* whenever it is not, or has died of an order in between.
LinkedAgain == upstream_ctx = NULL ~> upstream_ctx # NULL \/ crashed \/ overflowed

\* As long as the channel never overflows, a broken link is freed in the end.
BrokenLinkFreed ==
    \A k \in Link \ {MaxLink} : place[k] = "left" ~> ctx[k] = "freed" \/ crashed \/ overflowed

(* A statement the code does not keep; see the README.                      *)

\* An order is written only when the server is connected to the exchange.
WritesOnlyWhenConnected == Reading("REQ_ORDER") => upstream_ctx # NULL

=============================================================================
