-------------------------- MODULE ChannelLinkProofs --------------------------
(***************************************************************************)
(* The link of server_channel to the exchange, for every number of links   *)
(* and breaks and every capacity of the channel.                           *)
(*                                                                         *)
(* None of the properties is inductive.                                    *)
(*   - OneLinkInTheWorks counts places; Places says which link the one in  *)
(*     the works is: the last one made.                                    *)
(*   - WritesToLive needs the reference count of a link (RefCovers), and   *)
(*     that after the DEL of a link nothing brings it back (ChanInv).      *)
(*   - PointerCaughtUp is about a channel that has been read; CaughtUp     *)
(*     says of any channel what reading the rest of it will do.  It needs  *)
(*     the messages of several links to be in the order of the links, and  *)
(*     later than the one the thread writes to (LinksInOrder, ChanInv).    *)
(***************************************************************************)
EXTENDS ChannelLink, FiniteSetTheorems, TLAPS

IsLinkMessage(m) == m.type # "REQ_ORDER"

Places ==
    /\ \A k \in Link : place[k] = "none" <=> k > made
    /\ \A k \in Link : place[k] \in {"added", "loop"} => k = made /\ connecting = 0
    /\ connecting = 0 => made \in Link /\ place[made] \in {"added", "loop"}
    /\ closing # NULL => place[closing] = "left"

\* Messages about links wait in the channel in the order the links were made,
\* ADD before DEL.
LinksInOrder ==
    \A i, j \in DOMAIN upstream_chan :
        LET m == upstream_chan[i]  n == upstream_chan[j] IN
        i < j /\ IsLinkMessage(m) /\ IsLinkMessage(n)
        => m.ctx < n.ctx \/ (m.ctx = n.ctx /\ m.type = "ADD" /\ n.type = "DEL")

\* The thread has read nothing that is still to come.
PointerBehind ==
    upstream_ctx # NULL =>
        /\ place[upstream_ctx] \in {"loop", "left"}
        /\ \A i \in DOMAIN upstream_chan :
              LET m == upstream_chan[i] IN
              IsLinkMessage(m) => \/ m.ctx > upstream_ctx
                                  \/ m.ctx = upstream_ctx /\ m.type = "DEL"

ChanInv ==
    /\ LinksInOrder
    /\ PointerBehind
    /\ \A i \in DOMAIN upstream_chan :
          LET m == upstream_chan[i] IN
          IsLinkMessage(m) => /\ place[m.ctx] \in {"loop", "left"}
                              /\ m.type = "DEL" => place[m.ctx] = "left"

Queued(t, k) ==
    \E i \in DOMAIN upstream_chan : upstream_chan[i].type = t /\ About(k, upstream_chan[i])

(* Who may still touch the context of a link.                               *)
LoopHolds(k) == place[k] \in {"added", "loop"} \/ closing = k

ChanHolds(k) ==
    \/ place[k] = "loop"
    \/ upstream_ctx = k
    \/ Queued("ADD", k)
    \/ Queued("DEL", k)

RefCovers ==
    \A k \in Link :
        /\ LoopHolds(k) \/ ChanHolds(k) => ref[k] >= 1
        /\ LoopHolds(k) /\ ChanHolds(k) => ref[k] >= 2

MemoryInv == \A k \in Link : place[k] # "none" /\ ref[k] > 0 => ctx[k] = "live"

CaughtUp ==
    ~overflowed =>
        \A k \in Link :
            /\ place[k] = "loop" => upstream_ctx = k \/ Queued("ADD", k)
            /\ place[k] = "left" /\ (upstream_ctx = k \/ Queued("ADD", k))
                  => Queued("DEL", k)

Inv == TypeOK /\ Places /\ ChanInv /\ RefCovers /\ MemoryInv /\ CaughtUp

-----------------------------------------------------------------------------
(* Lemmas about the channel.                                                *)

\* A message about a link names it.
LEMMA MessageFacts ==
    /\ \A k \in Link, t \in {"ADD", "DEL"} : [type |-> t, ctx |-> k] \in Message
    /\ \A o \in Order : [type |-> "REQ_ORDER", order |-> o] \in Message
    /\ \A m \in Message : IsLinkMessage(m) => m.ctx \in Link /\ m.type \in {"ADD", "DEL"}
    /\ \A k \in Link : k \in Int /\ k # NULL /\ k >= 1
BY LinkBounds DEF Message, IsLinkMessage, Link, NULL

\* Pushing appends the message, or loses it.
LEMMA PushFacts ==
    ASSUME upstream_chan \in Seq(Message), NEW m \in Message
    PROVE  /\ Pushed(m) \in Seq(Message)
           /\ \A i \in DOMAIN Pushed(m) :
                 /\ i \in Nat
                 /\ \/ i \in DOMAIN upstream_chan /\ Pushed(m)[i] = upstream_chan[i]
                    \/ i = Len(upstream_chan) + 1 /\ Pushed(m)[i] = m
           /\ \A i \in DOMAIN upstream_chan :
                 i \in DOMAIN Pushed(m) /\ Pushed(m)[i] = upstream_chan[i]
           /\ ~Losing => \E i \in DOMAIN Pushed(m) : Pushed(m)[i] = m
<1>1. CASE Len(upstream_chan) < ChanCapacity
    <2>1. /\ Len(upstream_chan) + 1 \in DOMAIN Append(upstream_chan, m)
          /\ Append(upstream_chan, m)[Len(upstream_chan) + 1] = m
        OBVIOUS
    <2> QED
        BY <1>1, <2>1 DEF Pushed
<1>2. CASE ~(Len(upstream_chan) < ChanCapacity)
    BY <1>2, LinkBounds DEF Pushed, Losing
<1> QED
    BY <1>1, <1>2

\* Reading takes the first message and moves the others up by one.
LEMMA ReadFacts ==
    ASSUME upstream_chan \in Seq(Message), upstream_chan # <<>>
    PROVE  /\ Tail(upstream_chan) \in Seq(Message)
           /\ Head(upstream_chan) \in Message
           /\ Head(upstream_chan) = upstream_chan[1]
           /\ 1 \in DOMAIN upstream_chan
           /\ \A i \in DOMAIN Tail(upstream_chan) :
                 /\ i \in Nat /\ i + 1 \in DOMAIN upstream_chan /\ 1 < i + 1
                 /\ Tail(upstream_chan)[i] = upstream_chan[i + 1]
           /\ \A j \in DOMAIN upstream_chan :
                 j = 1 \/ \E i \in DOMAIN Tail(upstream_chan) :
                              Tail(upstream_chan)[i] = upstream_chan[j]
<1>1. \A j \in DOMAIN upstream_chan : j # 1 =>
          j - 1 \in DOMAIN Tail(upstream_chan)
          /\ Tail(upstream_chan)[j - 1] = upstream_chan[j]
    OBVIOUS
<1> QED
    BY <1>1

\* What is queued after a push, and after a read.
LEMMA PushQueued ==
    ASSUME upstream_chan \in Seq(Message), NEW m \in Message,
           upstream_chan' = Pushed(m), NEW t, NEW k
    PROVE  /\ Queued(t, k) => Queued(t, k)'
           /\ ~Losing /\ m.type = t /\ About(k, m) => Queued(t, k)'
           /\ Queued(t, k)' => Queued(t, k) \/ (m.type = t /\ About(k, m))
<1>1. Queued(t, k) => Queued(t, k)'
    <2> SUFFICES ASSUME NEW i \in DOMAIN upstream_chan,
                        upstream_chan[i].type = t /\ About(k, upstream_chan[i])
                 PROVE  Queued(t, k)'
        BY DEF Queued
    <2>1. i \in DOMAIN upstream_chan' /\ upstream_chan'[i] = upstream_chan[i]
        BY PushFacts
    <2> QED
        BY <2>1 DEF Queued, About
<1>2. ~Losing /\ m.type = t /\ About(k, m) => Queued(t, k)'
    <2> SUFFICES ASSUME ~Losing, m.type = t, About(k, m) PROVE Queued(t, k)'
        OBVIOUS
    <2>1. PICK i \in DOMAIN upstream_chan' : upstream_chan'[i] = m
        BY PushFacts
    <2> QED
        BY <2>1 DEF Queued, About
<1>3. Queued(t, k)' => Queued(t, k) \/ (m.type = t /\ About(k, m))
    <2> SUFFICES ASSUME NEW i \in DOMAIN upstream_chan',
                        upstream_chan'[i].type = t /\ About(k, upstream_chan'[i])
                 PROVE  Queued(t, k) \/ (m.type = t /\ About(k, m))
        BY DEF Queued, About
    <2>1. \/ i \in DOMAIN upstream_chan /\ upstream_chan'[i] = upstream_chan[i]
          \/ upstream_chan'[i] = m
        BY PushFacts
    <2> QED
        BY <2>1 DEF Queued
<1> QED
    BY <1>1, <1>2, <1>3

LEMMA ReadQueued ==
    ASSUME upstream_chan \in Seq(Message), upstream_chan # <<>>,
           upstream_chan' = Tail(upstream_chan), NEW t, NEW k
    PROVE  /\ Queued(t, k)' => Queued(t, k)
           /\ Queued(t, k) => \/ Queued(t, k)'
                              \/ Head(upstream_chan).type = t /\ About(k, Head(upstream_chan))
<1>1. Queued(t, k)' => Queued(t, k)
    <2> SUFFICES ASSUME NEW i \in DOMAIN upstream_chan',
                        upstream_chan'[i].type = t /\ About(k, upstream_chan'[i])
                 PROVE  Queued(t, k)
        BY DEF Queued, About
    <2>1. i + 1 \in DOMAIN upstream_chan /\ upstream_chan'[i] = upstream_chan[i + 1]
        BY ReadFacts
    <2> QED
        BY <2>1 DEF Queued
<1>2. ASSUME NEW j \in DOMAIN upstream_chan,
             upstream_chan[j].type = t /\ About(k, upstream_chan[j])
      PROVE  \/ Queued(t, k)'
             \/ Head(upstream_chan).type = t /\ About(k, Head(upstream_chan))
    <2>1. CASE j = 1
        BY <1>2, <2>1, ReadFacts
    <2>2. CASE j # 1
        <3>1. PICK i \in DOMAIN upstream_chan' : upstream_chan'[i] = upstream_chan[j]
            BY <2>2, ReadFacts
        <3> QED
            BY <1>2, <3>1 DEF Queued, About
    <2> QED
        BY <2>1, <2>2
<1> QED
    BY <1>1, <1>2 DEF Queued

\* A message that is pushed behind all others, about the last link, keeps the
\* messages of links in order.
LEMMA PushInOrder ==
    ASSUME TypeOK, LinksInOrder, NEW m \in Message, upstream_chan' = Pushed(m),
           IsLinkMessage(m) =>
               \A i \in DOMAIN upstream_chan :
                   LET n == upstream_chan[i] IN
                   IsLinkMessage(n) => \/ n.ctx < m.ctx
                                       \/ n.ctx = m.ctx /\ n.type = "ADD" /\ m.type = "DEL"
    PROVE  LinksInOrder'
<1> SUFFICES ASSUME NEW i \in DOMAIN upstream_chan', NEW j \in DOMAIN upstream_chan',
                    i < j, IsLinkMessage(upstream_chan'[i]), IsLinkMessage(upstream_chan'[j])
             PROVE  \/ upstream_chan'[i].ctx < upstream_chan'[j].ctx
                    \/ /\ upstream_chan'[i].ctx = upstream_chan'[j].ctx
                       /\ upstream_chan'[i].type = "ADD"
                       /\ upstream_chan'[j].type = "DEL"
    BY DEF LinksInOrder
<1>1. upstream_chan \in Seq(Message)
    BY DEF TypeOK
<1>2. i \in DOMAIN upstream_chan /\ upstream_chan'[i] = upstream_chan[i]
    BY <1>1, PushFacts
<1>3. CASE j \in DOMAIN upstream_chan /\ upstream_chan'[j] = upstream_chan[j]
    BY <1>2, <1>3 DEF LinksInOrder
<1>4. CASE upstream_chan'[j] = m
    BY <1>2, <1>4
<1> QED
    BY <1>1, <1>3, <1>4, PushFacts

\* Reading keeps them in order.
LEMMA ReadInOrder ==
    ASSUME TypeOK, LinksInOrder, upstream_chan # <<>>, upstream_chan' = Tail(upstream_chan)
    PROVE  LinksInOrder'
<1> SUFFICES ASSUME NEW i \in DOMAIN upstream_chan', NEW j \in DOMAIN upstream_chan',
                    i < j, IsLinkMessage(upstream_chan'[i]), IsLinkMessage(upstream_chan'[j])
             PROVE  \/ upstream_chan'[i].ctx < upstream_chan'[j].ctx
                    \/ /\ upstream_chan'[i].ctx = upstream_chan'[j].ctx
                       /\ upstream_chan'[i].type = "ADD"
                       /\ upstream_chan'[j].type = "DEL"
    BY DEF LinksInOrder
<1>1. upstream_chan \in Seq(Message)
    BY DEF TypeOK
<1>2. /\ i + 1 \in DOMAIN upstream_chan /\ upstream_chan'[i] = upstream_chan[i + 1]
      /\ j + 1 \in DOMAIN upstream_chan /\ upstream_chan'[j] = upstream_chan[j + 1]
      /\ i + 1 < j + 1
    BY <1>1, ReadFacts
<1> QED
    BY <1>2 DEF LinksInOrder

-----------------------------------------------------------------------------
(* The invariant holds at the start, and each action keeps it.              *)

LEMMA InitInv == Init => Inv
<1> SUFFICES ASSUME Init PROVE Inv
    OBVIOUS
<1>1. TypeOK
    <2>1. <<>> \in Seq(Message)
        OBVIOUS
    <2>2. /\ place \in [Link -> {"none", "added", "loop", "left"}]
          /\ ref \in [Link -> Nat]
          /\ ctx \in [Link -> {"none", "live", "freed"}]
        BY DEF Init
    <2>3. connecting \in 0..1 /\ made \in 0..MaxLink
        BY LinkBounds DEF Init
    <2> QED
        BY <2>1, <2>2, <2>3 DEF Init, TypeOK
<1>2. Places
    BY LinkBounds DEF Init, Places, NULL, Link
<1>3. ChanInv /\ RefCovers /\ MemoryInv /\ CaughtUp
    BY MessageFacts DEF Init, ChanInv, LinksInOrder, PointerBehind, RefCovers, LoopHolds,
                        ChanHolds, MemoryInv, CaughtUp, Queued
<1> QED
    BY <1>1, <1>2, <1>3 DEF Inv

LEMMA ConnectKeepsInv == Inv /\ ConnectUpstream => Inv'
<1> SUFFICES ASSUME Inv, ConnectUpstream PROVE Inv'
    OBVIOUS
<1> USE DEF Inv
<1> DEFINE new == made + 1
<1>1. /\ new \in Link /\ place[new] = "none" /\ connecting = 1
      /\ connecting' = 0 /\ made' = new
    BY LinkBounds DEF TypeOK, Places, ConnectUpstream, Link
<1>2. /\ place' = [place EXCEPT ![new] = "added"]
      /\ ref' = [ref EXCEPT ![new] = 1] /\ ctx' = [ctx EXCEPT ![new] = "live"]
      /\ UNCHANGED <<closing, upstream_chan, upstream_ctx, overflowed, crashed>>
    BY DEF ConnectUpstream
<1> HIDE DEF new
<1>3. TypeOK'
    BY <1>1, <1>2 DEF TypeOK, Link
<1>4. Places'
    <2>1. \A k \in Link : place'[k] = "none" <=> k > made'
        BY <1>1, <1>2, LinkBounds DEF TypeOK, Places, Link, new
    <2>2. \A k \in Link : place'[k] \in {"added", "loop"} => k = new
        BY <1>1, <1>2 DEF TypeOK, Places
    <2>3. closing' # NULL => place'[closing'] = "left"
        BY <1>1, <1>2 DEF TypeOK, Places
    <2> QED
        BY <1>1, <1>2, <2>1, <2>2, <2>3 DEF TypeOK, Places
<1>5. ~Queued("ADD", new) /\ ~Queued("DEL", new)
    BY <1>1 DEF ChanInv, Queued, About, IsLinkMessage
<1>6. upstream_ctx # new
    BY <1>1, MessageFacts DEF ChanInv, PointerBehind
<1>7. ChanInv'
    <2>1. LinksInOrder'
        BY <1>2 DEF ChanInv, LinksInOrder
    <2>2. PointerBehind'
        BY <1>1, <1>2, <1>6 DEF TypeOK, ChanInv, PointerBehind
    <2> QED
        <3>1. \A i \in DOMAIN upstream_chan :
                  IsLinkMessage(upstream_chan[i])
                  => upstream_chan[i].ctx \in Link /\ upstream_chan[i].ctx # new
            BY <1>1, MessageFacts DEF TypeOK, ChanInv
        <3> QED
            BY <1>1, <1>2, <2>1, <2>2, <3>1 DEF TypeOK, ChanInv
<1>8. \A k \in Link : /\ k # new => (LoopHolds(k)' <=> LoopHolds(k))
                      /\ ChanHolds(k)' <=> ChanHolds(k)
    BY <1>1, <1>2 DEF TypeOK, LoopHolds, ChanHolds, Queued
<1>9. ~ChanHolds(new)
    BY <1>1, <1>5, <1>6 DEF ChanHolds
<1>10. RefCovers'
    BY <1>1, <1>2, <1>8, <1>9 DEF TypeOK, RefCovers
<1>11. MemoryInv'
    BY <1>1, <1>2 DEF TypeOK, MemoryInv
<1>12. CaughtUp'
    BY <1>1, <1>2 DEF TypeOK, CaughtUp, Queued
<1> QED
    BY <1>3, <1>4, <1>7, <1>10, <1>11, <1>12

LEMMA AddKeepsInv == ASSUME NEW k \in Link PROVE Inv /\ OnUpstreamAddCtx(k) => Inv'
<1> SUFFICES ASSUME Inv, OnUpstreamAddCtx(k) PROVE Inv'
    OBVIOUS
<1> USE DEF Inv
<1> DEFINE add == [type |-> "ADD", ctx |-> k]
<1>1. /\ place[k] = "added" /\ k = made /\ closing = NULL
      /\ place' = [place EXCEPT ![k] = "loop"]
      /\ ref' = [ref EXCEPT ![k] = @ + 1]
      /\ upstream_chan' = Pushed(add)
      /\ overflowed' = (overflowed \/ Losing)
      /\ UNCHANGED <<connecting, made, ctx, closing, upstream_ctx, crashed>>
    BY DEF OnUpstreamAddCtx, RefForChannel, Places
<1>2. add \in Message /\ IsLinkMessage(add) /\ add.ctx = k /\ add.type = "ADD"
    BY MessageFacts DEF IsLinkMessage
<1> HIDE DEF add
<1>3. TypeOK'
    <2>1. upstream_chan' \in Seq(Message)
        BY <1>1, <1>2, PushFacts DEF TypeOK
    <2>2. ref' \in [Link -> Nat] /\ place' \in [Link -> {"none", "added", "loop", "left"}]
        BY <1>1 DEF TypeOK
    <2>3. overflowed' \in BOOLEAN
        BY <1>1 DEF TypeOK, Losing
    <2> QED
        BY <1>1, <2>1, <2>2, <2>3 DEF TypeOK
<1>4. Places'
    BY <1>1 DEF TypeOK, Places
<1>5. \A i \in DOMAIN upstream_chan :
          IsLinkMessage(upstream_chan[i])
          => /\ upstream_chan[i].ctx \in Link /\ upstream_chan[i].ctx # k
             /\ upstream_chan[i].ctx < k
    <2> SUFFICES ASSUME NEW i \in DOMAIN upstream_chan, IsLinkMessage(upstream_chan[i])
                 PROVE  /\ upstream_chan[i].ctx \in Link /\ upstream_chan[i].ctx # k
                        /\ upstream_chan[i].ctx < k
        OBVIOUS
    <2>1. upstream_chan[i].ctx \in Link /\ place[upstream_chan[i].ctx] \in {"loop", "left"}
        BY MessageFacts DEF TypeOK, ChanInv
    <2>2. upstream_chan[i].ctx # k
        BY <1>1, <2>1
    <2> QED
        BY <1>1, <2>1, <2>2 DEF Places, TypeOK, Link
<1>6. upstream_ctx # NULL => upstream_ctx \in Link /\ upstream_ctx < k
    <2> SUFFICES ASSUME upstream_ctx # NULL
                 PROVE  upstream_ctx \in Link /\ upstream_ctx < k
        OBVIOUS
    <2>1. upstream_ctx \in Link /\ place[upstream_ctx] \in {"loop", "left"}
        BY DEF TypeOK, ChanInv, PointerBehind
    <2> QED
        BY <1>1, <2>1 DEF Places, TypeOK, Link
<1>7. ChanInv'
    <2>1. LinksInOrder'
        BY <1>1, <1>2, <1>5, PushInOrder DEF ChanInv
    <2>2. ASSUME NEW i \in DOMAIN upstream_chan', IsLinkMessage(upstream_chan'[i])
          PROVE  /\ place'[upstream_chan'[i].ctx] \in {"loop", "left"}
                 /\ upstream_chan'[i].type = "DEL" => place'[upstream_chan'[i].ctx] = "left"
                 /\ upstream_ctx # NULL =>
                        \/ upstream_chan'[i].ctx > upstream_ctx
                        \/ upstream_chan'[i].ctx = upstream_ctx /\ upstream_chan'[i].type = "DEL"
        <3>1. CASE i \in DOMAIN upstream_chan /\ upstream_chan'[i] = upstream_chan[i]
            BY <1>1, <1>5, <2>2, <3>1 DEF TypeOK, ChanInv, PointerBehind
        <3>2. CASE upstream_chan'[i] = add
            BY <1>1, <1>2, <1>6, <3>2 DEF TypeOK, Link
        <3> QED
            BY <1>1, <1>2, <3>1, <3>2, PushFacts DEF TypeOK
    <2>3. PointerBehind'
        BY <1>1, <1>6, <2>2 DEF TypeOK, ChanInv, PointerBehind
    <2> QED
        BY <2>1, <2>2, <2>3 DEF ChanInv
<1>8. ref[k] >= 1
    BY <1>1 DEF RefCovers, LoopHolds
<1>9. \A j \in Link : j # k => /\ LoopHolds(j)' => LoopHolds(j)
                               /\ ChanHolds(j)' => ChanHolds(j)
    <2> SUFFICES ASSUME NEW j \in Link, j # k
                 PROVE  /\ LoopHolds(j)' => LoopHolds(j)
                        /\ ChanHolds(j)' => ChanHolds(j)
        OBVIOUS
    <2>1. ~About(j, add)
        BY <1>2 DEF About
    <2>2. /\ Queued("ADD", j)' => Queued("ADD", j)
          /\ Queued("DEL", j)' => Queued("DEL", j)
        BY <1>1, <1>2, <2>1, PushQueued DEF TypeOK
    <2> QED
        BY <1>1, <2>2 DEF TypeOK, LoopHolds, ChanHolds
<1>10. RefCovers'
    BY <1>1, <1>8, <1>9 DEF TypeOK, RefCovers
<1>11. MemoryInv'
    BY <1>1, <1>8 DEF TypeOK, MemoryInv
<1>12. CaughtUp'
    <2> SUFFICES ASSUME ~overflowed, ~Losing, NEW j \in Link
                 PROVE  /\ place'[j] = "loop" => upstream_ctx' = j \/ Queued("ADD", j)'
                        /\ place'[j] = "left" /\ (upstream_ctx' = j \/ Queued("ADD", j)')
                              => Queued("DEL", j)'
        BY <1>1 DEF CaughtUp
    <2>1. CASE j = k
        <3>1. Queued("ADD", j)'
            BY <1>1, <1>2, <2>1, PushQueued DEF TypeOK, About, IsLinkMessage
        <3> QED
            BY <1>1, <2>1, <3>1 DEF TypeOK
    <2>2. CASE j # k
        <3>1. /\ Queued("ADD", j)' <=> Queued("ADD", j)
              /\ Queued("DEL", j) => Queued("DEL", j)'
            BY <1>1, <1>2, <2>2, PushQueued DEF TypeOK, About
        <3> QED
            BY <1>1, <2>2, <3>1 DEF TypeOK, CaughtUp
    <2> QED
        BY <2>1, <2>2
<1> QED
    BY <1>3, <1>4, <1>7, <1>10, <1>11, <1>12

LEMMA CloseKeepsInv == ASSUME NEW k \in Link PROVE Inv /\ OnUpstreamClose(k) => Inv'
<1> SUFFICES ASSUME Inv, OnUpstreamClose(k) PROVE Inv'
    OBVIOUS
<1> USE DEF Inv
<1> DEFINE del == [type |-> "DEL", ctx |-> k]
<1>1. /\ place[k] = "loop" /\ k = made /\ made < MaxLink /\ closing = NULL
      /\ connecting = 0 /\ connecting' = 1
      /\ place' = [place EXCEPT ![k] = "left"]
      /\ upstream_chan' = Pushed(del)
      /\ overflowed' = (overflowed \/ Losing)
      /\ closing' = k
      /\ UNCHANGED <<made, ref, ctx, upstream_ctx, crashed>>
    BY DEF OnUpstreamClose, DelPush, Reconnecting, Places
<1>2. del \in Message /\ IsLinkMessage(del) /\ del.ctx = k /\ del.type = "DEL"
    BY MessageFacts DEF IsLinkMessage
<1> HIDE DEF del
<1>3. TypeOK'
    <2>1. upstream_chan' \in Seq(Message)
        BY <1>1, <1>2, PushFacts DEF TypeOK
    <2>2. overflowed' \in BOOLEAN
        BY <1>1 DEF TypeOK, Losing
    <2> QED
        BY <1>1, <2>1, <2>2 DEF TypeOK
<1>4. Places'
    BY <1>1 DEF TypeOK, Places
<1>5. \A i \in DOMAIN upstream_chan :
          LET n == upstream_chan[i] IN
          IsLinkMessage(n) => /\ n.ctx \in Link
                              /\ n.ctx < k \/ (n.ctx = k /\ n.type = "ADD")
    <2> SUFFICES ASSUME NEW i \in DOMAIN upstream_chan, IsLinkMessage(upstream_chan[i])
                 PROVE  /\ upstream_chan[i].ctx \in Link
                        /\ \/ upstream_chan[i].ctx < k
                           \/ upstream_chan[i].ctx = k /\ upstream_chan[i].type = "ADD"
        OBVIOUS
    <2>1. /\ upstream_chan[i].ctx \in Link /\ place[upstream_chan[i].ctx] \in {"loop", "left"}
          /\ upstream_chan[i].type \in {"ADD", "DEL"}
          /\ upstream_chan[i].type = "DEL" => place[upstream_chan[i].ctx] = "left"
        BY MessageFacts DEF TypeOK, ChanInv
    <2>2. upstream_chan[i].ctx <= k
        BY <1>1, <2>1 DEF Places, TypeOK, Link
    <2> QED
        BY <1>1, <2>1, <2>2 DEF Link
<1>6. upstream_ctx # NULL => upstream_ctx \in Link /\ upstream_ctx <= k
    <2> SUFFICES ASSUME upstream_ctx # NULL
                 PROVE  upstream_ctx \in Link /\ upstream_ctx <= k
        OBVIOUS
    <2>1. upstream_ctx \in Link /\ place[upstream_ctx] \in {"loop", "left"}
        BY DEF TypeOK, ChanInv, PointerBehind
    <2> QED
        BY <1>1, <2>1 DEF Places, TypeOK, Link
<1>7. ChanInv'
    <2>1. LinksInOrder'
        BY <1>1, <1>2, <1>5, PushInOrder DEF ChanInv
    <2>2. ASSUME NEW i \in DOMAIN upstream_chan', IsLinkMessage(upstream_chan'[i])
          PROVE  /\ place'[upstream_chan'[i].ctx] \in {"loop", "left"}
                 /\ upstream_chan'[i].type = "DEL" => place'[upstream_chan'[i].ctx] = "left"
                 /\ upstream_ctx # NULL =>
                        \/ upstream_chan'[i].ctx > upstream_ctx
                        \/ upstream_chan'[i].ctx = upstream_ctx /\ upstream_chan'[i].type = "DEL"
        <3>1. CASE i \in DOMAIN upstream_chan /\ upstream_chan'[i] = upstream_chan[i]
            BY <1>1, <1>5, <2>2, <3>1 DEF TypeOK, ChanInv, PointerBehind
        <3>2. CASE upstream_chan'[i] = del
            BY <1>1, <1>2, <1>6, <3>2 DEF TypeOK, Link
        <3> QED
            BY <1>1, <1>2, <3>1, <3>2, PushFacts DEF TypeOK
    <2>3. PointerBehind'
        BY <1>1, <1>6, <2>2 DEF TypeOK, ChanInv, PointerBehind
    <2> QED
        BY <2>1, <2>2, <2>3 DEF ChanInv
<1>8. ref[k] >= 2
    BY <1>1 DEF RefCovers, LoopHolds, ChanHolds
<1>9. \A j \in Link : j # k => /\ LoopHolds(j)' => LoopHolds(j)
                               /\ ChanHolds(j)' => ChanHolds(j)
    <2> SUFFICES ASSUME NEW j \in Link, j # k
                 PROVE  /\ LoopHolds(j)' => LoopHolds(j)
                        /\ ChanHolds(j)' => ChanHolds(j)
        OBVIOUS
    <2>1. ~About(j, del)
        BY <1>2 DEF About
    <2>2. /\ Queued("ADD", j)' => Queued("ADD", j)
          /\ Queued("DEL", j)' => Queued("DEL", j)
        BY <1>1, <1>2, <2>1, PushQueued DEF TypeOK
    <2> QED
        BY <1>1, <2>2 DEF TypeOK, LoopHolds, ChanHolds
<1>10. RefCovers'
    BY <1>1, <1>8, <1>9 DEF TypeOK, RefCovers
<1>11. MemoryInv'
    BY <1>1 DEF TypeOK, MemoryInv
<1>12. CaughtUp'
    <2> SUFFICES ASSUME ~overflowed, ~Losing, NEW j \in Link
                 PROVE  /\ place'[j] = "loop" => upstream_ctx' = j \/ Queued("ADD", j)'
                        /\ place'[j] = "left" /\ (upstream_ctx' = j \/ Queued("ADD", j)')
                              => Queued("DEL", j)'
        BY <1>1 DEF CaughtUp
    <2>1. CASE j = k
        <3>1. Queued("DEL", j)'
            BY <1>1, <1>2, <2>1, PushQueued DEF TypeOK, About, IsLinkMessage
        <3> QED
            BY <1>1, <2>1, <3>1 DEF TypeOK
    <2>2. CASE j # k
        <3>1. /\ Queued("ADD", j)' <=> Queued("ADD", j)
              /\ Queued("DEL", j) => Queued("DEL", j)'
            BY <1>1, <1>2, <2>2, PushQueued DEF TypeOK, About
        <3> QED
            BY <1>1, <2>2, <3>1 DEF TypeOK, CaughtUp
    <2> QED
        BY <2>1, <2>2
<1> QED
    BY <1>3, <1>4, <1>7, <1>10, <1>11, <1>12

LEMMA ReleaseKeepsInv == Inv /\ UpstreamRelease => Inv'
<1> SUFFICES ASSUME Inv, UpstreamRelease PROVE Inv'
    OBVIOUS
<1> USE DEF Inv
<1> PICK k \in Link : k = closing
    BY DEF UpstreamRelease, TypeOK
<1>1. /\ place[k] = "left" /\ closing' = NULL
      /\ ref' = Released(k) /\ ctx' = FreedIfLast(k)
      /\ UNCHANGED <<connecting, made, place, upstream_chan, upstream_ctx, crashed, overflowed>>
    BY DEF UpstreamRelease, TypeOK, Places
<1>2. ref[k] \in Nat /\ ref[k] >= 1 /\ (ChanHolds(k) => ref[k] >= 2)
    BY <1>1, MessageFacts DEF RefCovers, LoopHolds, TypeOK
<1>3. ref' = [ref EXCEPT ![k] = ref[k] - 1]
    BY <1>1, <1>2 DEF Released
<1>4. \A j \in Link : /\ j # k => ref'[j] = ref[j] /\ ctx'[j] = ctx[j]
                      /\ ChanHolds(j)' <=> ChanHolds(j)
                      /\ j # k => (LoopHolds(j)' => LoopHolds(j))
    <2>1. \A j \in Link : ChanHolds(j)' <=> ChanHolds(j)
        BY <1>1 DEF ChanHolds, Queued
    <2>2. \A j \in Link : j # k => ref'[j] = ref[j] /\ ctx'[j] = ctx[j]
        BY <1>1, <1>3 DEF FreedIfLast, TypeOK
    <2>3. \A j \in Link : LoopHolds(j)' => LoopHolds(j)
        BY <1>1, MessageFacts DEF LoopHolds
    <2> QED
        BY <2>1, <2>2, <2>3
<1>5. ~LoopHolds(k)' /\ k # NULL
    BY <1>1, MessageFacts DEF LoopHolds
<1>6. TypeOK'
    <2>1. ref' \in [Link -> Nat]
        BY <1>1, <1>2, <1>3 DEF TypeOK
    <2>2. ctx' \in [Link -> {"none", "live", "freed"}]
        BY <1>1 DEF TypeOK, FreedIfLast
    <2> QED
        BY <1>1, <2>1, <2>2 DEF TypeOK
<1>7. Places'
    BY <1>1 DEF Places
<1>8. ChanInv'
    BY <1>1 DEF ChanInv, LinksInOrder, PointerBehind
<1>9. RefCovers'
    BY <1>1, <1>2, <1>3, <1>4, <1>5 DEF TypeOK, RefCovers
<1>10. MemoryInv'
    BY <1>1, <1>2, <1>3, <1>4 DEF TypeOK, MemoryInv, FreedIfLast
<1>11. CaughtUp'
    BY <1>1 DEF CaughtUp, Queued
<1> QED
    BY <1>6, <1>7, <1>8, <1>9, <1>10, <1>11

LEMMA OrderKeepsInv == ASSUME NEW o \in Order PROVE Inv /\ ClientHandleMessage(o) => Inv'
<1> SUFFICES ASSUME Inv, ClientHandleMessage(o) PROVE Inv'
    OBVIOUS
<1> USE DEF Inv
<1> DEFINE req == [type |-> "REQ_ORDER", order |-> o]
<1>1. /\ upstream_chan' = Pushed(req)
      /\ overflowed' = (overflowed \/ Losing)
      /\ UNCHANGED <<connecting, made, place, ref, ctx, closing, upstream_ctx, crashed>>
    BY DEF ClientHandleMessage
<1>2. req \in Message /\ ~IsLinkMessage(req) /\ \A j : ~About(j, req)
    BY MessageFacts DEF IsLinkMessage, About
<1> HIDE DEF req
<1>3. TypeOK'
    <2>1. upstream_chan' \in Seq(Message)
        BY <1>1, <1>2, PushFacts DEF TypeOK
    <2>2. overflowed' \in BOOLEAN
        BY <1>1 DEF TypeOK, Losing
    <2> QED
        BY <1>1, <2>1, <2>2 DEF TypeOK
<1>4. Places'
    BY <1>1 DEF Places
<1>5. \A i \in DOMAIN upstream_chan' :
          IsLinkMessage(upstream_chan'[i])
          => i \in DOMAIN upstream_chan /\ upstream_chan'[i] = upstream_chan[i]
    BY <1>1, <1>2, PushFacts DEF TypeOK
<1>6. ChanInv'
    <2>1. LinksInOrder'
        BY <1>1, <1>2, PushInOrder DEF ChanInv
    <2>2. PointerBehind'
        BY <1>1, <1>5 DEF ChanInv, PointerBehind
    <2> QED
        BY <1>1, <1>5, <2>1, <2>2 DEF ChanInv
<1>7. \A j \in Link : /\ Queued("ADD", j)' <=> Queued("ADD", j)
                      /\ Queued("DEL", j)' <=> Queued("DEL", j)
    BY <1>1, <1>2, PushQueued DEF TypeOK
<1>8. RefCovers'
    BY <1>1, <1>7 DEF RefCovers, LoopHolds, ChanHolds
<1>9. MemoryInv'
    BY <1>1 DEF MemoryInv
<1>10. CaughtUp'
    BY <1>1, <1>7 DEF CaughtUp
<1> QED
    BY <1>3, <1>4, <1>6, <1>8, <1>9, <1>10

\* What is left behind the message that is read, about links: later links, or
\* the DEL of the one the message adds.
LEMMA ReadLater ==
    ASSUME Inv, upstream_chan # <<>>, upstream_chan' = Tail(upstream_chan),
           NEW i \in DOMAIN upstream_chan', IsLinkMessage(upstream_chan'[i])
    PROVE  /\ i + 1 \in DOMAIN upstream_chan /\ upstream_chan'[i] = upstream_chan[i + 1]
           /\ IsLinkMessage(Head(upstream_chan)) =>
                 \/ upstream_chan'[i].ctx > Head(upstream_chan).ctx
                 \/ /\ upstream_chan'[i].ctx = Head(upstream_chan).ctx
                    /\ Head(upstream_chan).type = "ADD" /\ upstream_chan'[i].type = "DEL"
<1>1. /\ i + 1 \in DOMAIN upstream_chan /\ upstream_chan'[i] = upstream_chan[i + 1]
      /\ 1 \in DOMAIN upstream_chan /\ Head(upstream_chan) = upstream_chan[1] /\ 1 < i + 1
    BY ReadFacts DEF Inv, TypeOK
<1>2. \A m \in Message : IsLinkMessage(m) => m.ctx \in Int
    BY MessageFacts
<1>3. /\ upstream_chan[i + 1] \in Message /\ upstream_chan[1] \in Message
    BY <1>1 DEF Inv, TypeOK
<1> QED
    BY <1>1, <1>2, <1>3 DEF Inv, ChanInv, LinksInOrder

\* Reading leaves ChanInv as it is as long as the pointer stays behind.
LEMMA ReadKeepsChanInv ==
    ASSUME Inv, upstream_chan # <<>>, upstream_chan' = Tail(upstream_chan),
           UNCHANGED place, PointerBehind'
    PROVE  ChanInv'
<1>1. LinksInOrder'
    BY ReadInOrder DEF Inv, ChanInv
<1> QED
    BY <1>1, ReadLater DEF Inv, ChanInv

LEMMA ChanAddKeepsInv == Inv /\ ChanAddCtx => Inv'
<1> SUFFICES ASSUME Inv, ChanAddCtx PROVE Inv'
    OBVIOUS
<1>1. /\ upstream_chan # <<>> /\ Head(upstream_chan).type = "ADD"
      /\ Head(upstream_chan) \in Message
      /\ 1 \in DOMAIN upstream_chan /\ Head(upstream_chan) = upstream_chan[1]
    BY ReadFacts DEF ChanAddCtx, Reading, Inv, TypeOK
<1>2. IsLinkMessage(Head(upstream_chan)) /\ Head(upstream_chan).ctx \in Link
    BY <1>1, MessageFacts DEF IsLinkMessage
<1> PICK k \in Link : k = Head(upstream_chan).ctx
    BY <1>2
<1>3. /\ upstream_ctx' = k /\ upstream_chan' = Tail(upstream_chan)
      /\ UNCHANGED <<connecting, made, place, ref, ctx, closing, crashed, overflowed>>
    BY DEF ChanAddCtx
<1>4. place[k] \in {"loop", "left"} /\ k <= made
    BY <1>1, <1>2 DEF Inv, ChanInv, Places, TypeOK, Link
<1>5. upstream_ctx # NULL => upstream_ctx < k
    BY <1>1, <1>2 DEF Inv, ChanInv, PointerBehind
<1>6. Queued("ADD", k)
    BY <1>1 DEF Queued, About
<1>7. TypeOK'
    <2>1. upstream_chan' \in Seq(Message)
        BY <1>1, <1>3, ReadFacts DEF Inv, TypeOK
    <2> QED
        BY <1>3, <2>1 DEF Inv, TypeOK
<1>8. Places'
    BY <1>3 DEF Inv, Places
<1>9. ChanInv'
    <2>1. PointerBehind'
        BY <1>1, <1>2, <1>3, <1>4, ReadLater DEF PointerBehind
    <2> QED
        BY <1>1, <1>3, <2>1, ReadKeepsChanInv
<1>10. \A t, j : Queued(t, j)' => Queued(t, j)
    BY <1>1, <1>3, ReadQueued DEF Inv, TypeOK
<1>11. \A j \in Link : (LoopHolds(j)' <=> LoopHolds(j)) /\ (ChanHolds(j)' => ChanHolds(j))
    BY <1>3, <1>6, <1>10 DEF LoopHolds, ChanHolds
<1>12. RefCovers'
    BY <1>3, <1>11 DEF Inv, RefCovers
<1>13. MemoryInv'
    BY <1>3 DEF Inv, MemoryInv
<1>14. CaughtUp'
    <2> SUFFICES ASSUME ~overflowed, NEW j \in Link
                 PROVE  /\ place[j] = "loop" => k = j \/ Queued("ADD", j)'
                        /\ place[j] = "left" /\ (k = j \/ Queued("ADD", j)')
                              => Queued("DEL", j)'
        BY <1>3 DEF CaughtUp
    <2>1. /\ j # k => (Queued("ADD", j) => Queued("ADD", j)')
          /\ Queued("DEL", j) => Queued("DEL", j)'
        BY <1>1, <1>3, ReadQueued DEF Inv, TypeOK, About
    <2>2. place[j] = "loop" => j = made
        BY DEF Inv, Places
    <2>3. place[j] = "loop" /\ j # k => Queued("ADD", j)
        BY <1>4, <1>5, <2>2, MessageFacts DEF Inv, CaughtUp, TypeOK, Link
    <2>4. place[j] = "left" /\ (k = j \/ Queued("ADD", j)') => Queued("DEL", j)
        BY <1>6, <1>10 DEF Inv, CaughtUp
    <2> QED
        BY <2>1, <2>3, <2>4
<1> QED
    BY <1>7, <1>8, <1>9, <1>12, <1>13, <1>14 DEF Inv

LEMMA ChanDelKeepsInv == Inv /\ ChanDelCtx => Inv'
<1> SUFFICES ASSUME Inv, ChanDelCtx PROVE Inv'
    OBVIOUS
<1>1. /\ upstream_chan # <<>> /\ Head(upstream_chan).type = "DEL"
      /\ Head(upstream_chan) \in Message
      /\ 1 \in DOMAIN upstream_chan /\ Head(upstream_chan) = upstream_chan[1]
    BY ReadFacts DEF ChanDelCtx, Reading, Inv, TypeOK
<1>2. IsLinkMessage(Head(upstream_chan)) /\ Head(upstream_chan).ctx \in Link
    BY <1>1, MessageFacts DEF IsLinkMessage
<1> PICK k \in Link : k = Head(upstream_chan).ctx
    BY <1>2
<1>3. /\ upstream_ctx' = NULL /\ upstream_chan' = Tail(upstream_chan)
      /\ ref' = Released(k) /\ ctx' = FreedIfLast(k)
      /\ UNCHANGED <<connecting, made, place, closing, crashed, overflowed>>
    BY DEF ChanDelCtx, AfterDel
<1>4. place[k] = "left" /\ k <= made
    BY <1>1, <1>2 DEF Inv, ChanInv, Places, TypeOK, Link
<1>5. upstream_ctx # NULL => upstream_ctx <= k
    BY <1>1, <1>2 DEF Inv, ChanInv, PointerBehind, TypeOK, Link
<1>6. Queued("DEL", k)
    BY <1>1 DEF Queued, About
<1>7. ~Queued("ADD", k)' /\ ~Queued("DEL", k)'
    <2> SUFFICES ASSUME NEW i \in DOMAIN upstream_chan', About(k, upstream_chan'[i])
                 PROVE  FALSE
        BY DEF Queued, About
    <2>1. IsLinkMessage(upstream_chan'[i]) /\ upstream_chan'[i].ctx = k
        BY DEF About, IsLinkMessage
    <2>2. k > k
        BY <1>1, <1>2, <1>3, <2>1, ReadLater
    <2> QED
        BY <2>2 DEF Link
<1>8. \A t, j : Queued(t, j)' => Queued(t, j)
    BY <1>1, <1>3, ReadQueued DEF Inv, TypeOK
<1>9. \A j \in Link : /\ LoopHolds(j)' <=> LoopHolds(j)
                      /\ ChanHolds(j)' => ChanHolds(j)
    BY <1>3, <1>8, MessageFacts DEF LoopHolds, ChanHolds
<1>10. ~ChanHolds(k)' /\ ChanHolds(k)
    BY <1>3, <1>4, <1>6, <1>7, MessageFacts DEF ChanHolds
<1>11. ref[k] \in Nat /\ ref[k] >= 1 /\ (LoopHolds(k) => ref[k] >= 2)
    BY <1>10 DEF Inv, RefCovers, TypeOK
<1>12. ref' = [ref EXCEPT ![k] = ref[k] - 1]
    BY <1>3, <1>11 DEF Released
<1>13. TypeOK'
    <2>1. upstream_chan' \in Seq(Message)
        BY <1>1, <1>3, ReadFacts DEF Inv, TypeOK
    <2>2. ref' \in [Link -> Nat]
        BY <1>11, <1>12 DEF Inv, TypeOK
    <2>3. ctx' \in [Link -> {"none", "live", "freed"}]
        BY <1>3 DEF Inv, TypeOK, FreedIfLast
    <2> QED
        BY <1>3, <2>1, <2>2, <2>3 DEF Inv, TypeOK
<1>14. Places'
    BY <1>3 DEF Inv, Places
<1>15. ChanInv'
    <2>1. PointerBehind'
        BY <1>3 DEF PointerBehind
    <2> QED
        BY <1>1, <1>3, <2>1, ReadKeepsChanInv
<1>16. RefCovers'
    BY <1>9, <1>10, <1>11, <1>12 DEF Inv, RefCovers, TypeOK
<1>17. MemoryInv'
    BY <1>3, <1>11, <1>12 DEF Inv, MemoryInv, TypeOK, FreedIfLast
<1>18. CaughtUp'
    <2> SUFFICES ASSUME ~overflowed, NEW j \in Link
                 PROVE  /\ place[j] = "loop" => Queued("ADD", j)'
                        /\ place[j] = "left" /\ (NULL = j \/ Queued("ADD", j)')
                              => Queued("DEL", j)'
        BY <1>3 DEF CaughtUp
    <2>1. /\ Queued("ADD", j) => Queued("ADD", j)'
          /\ j # k => (Queued("DEL", j) => Queued("DEL", j)')
        BY <1>1, <1>3, ReadQueued DEF Inv, TypeOK, About
    <2>2. place[j] = "loop" => j = made /\ j # k
        BY <1>4 DEF Inv, Places
    <2>3. place[j] = "loop" => Queued("ADD", j)
        BY <1>4, <1>5, <2>2, MessageFacts DEF Inv, CaughtUp, TypeOK, Link
    <2>4. place[j] = "left" /\ Queued("ADD", j)' => Queued("DEL", j) /\ j # k
        BY <1>7, <1>8 DEF Inv, CaughtUp
    <2> QED
        BY <2>1, <2>3, <2>4, MessageFacts
<1> QED
    BY <1>13, <1>14, <1>15, <1>16, <1>17, <1>18 DEF Inv

LEMMA ChanReqKeepsInv == Inv /\ ChanReqOrder => Inv'
<1> SUFFICES ASSUME Inv, ChanReqOrder PROVE Inv'
    OBVIOUS
<1>1. /\ upstream_chan # <<>> /\ upstream_chan' = Tail(upstream_chan)
      /\ ~IsLinkMessage(Head(upstream_chan)) /\ crashed' \in BOOLEAN
      /\ UNCHANGED <<connecting, made, place, ref, ctx, closing, upstream_ctx, overflowed>>
    BY DEF ChanReqOrder, Reading, IsLinkMessage
<1>2. TypeOK'
    <2>1. upstream_chan' \in Seq(Message)
        BY <1>1, ReadFacts DEF Inv, TypeOK
    <2> QED
        BY <1>1, <2>1 DEF Inv, TypeOK
<1>3. Places'
    BY <1>1 DEF Inv, Places
<1>4. ChanInv'
    <2>1. PointerBehind'
        BY <1>1, ReadLater DEF Inv, ChanInv, PointerBehind
    <2> QED
        BY <1>1, <2>1, ReadKeepsChanInv
<1>5. \A t, j : Queued(t, j)' <=> Queued(t, j)
    BY <1>1, ReadQueued DEF Inv, TypeOK, About, IsLinkMessage
<1>6. RefCovers'
    BY <1>1, <1>5 DEF Inv, RefCovers, LoopHolds, ChanHolds
<1>7. MemoryInv'
    BY <1>1 DEF Inv, MemoryInv
<1>8. CaughtUp'
    BY <1>1, <1>5 DEF Inv, CaughtUp
<1> QED
    BY <1>2, <1>3, <1>4, <1>6, <1>7, <1>8 DEF Inv

LEMMA DeathKeepsInv == Inv /\ ProcessDies => Inv'
BY DEF ProcessDies, Inv, TypeOK, Places, ChanInv, LinksInOrder, PointerBehind, RefCovers,
       LoopHolds, ChanHolds, Queued, MemoryInv, CaughtUp

LEMMA StutterKeepsInv == Inv /\ UNCHANGED vars => Inv'
BY DEF vars, Inv, TypeOK, Places, ChanInv, LinksInOrder, PointerBehind, RefCovers,
       LoopHolds, ChanHolds, Queued, MemoryInv, CaughtUp

\* Every step of the specification keeps the invariant.
LEMMA StepKeepsInv == Inv /\ [Next]_vars => Inv'
BY ConnectKeepsInv, AddKeepsInv, CloseKeepsInv, ReleaseKeepsInv, OrderKeepsInv,
   ChanAddKeepsInv, ChanDelKeepsInv, ChanReqKeepsInv, DeathKeepsInv,
   StutterKeepsInv DEF Next

LEMMA InvHolds == Spec => []Inv
<1>1. Init => Inv
    BY InitInv
<1>2. Inv /\ [Next]_vars => Inv'
    BY StepKeepsInv
<1> QED
    BY <1>1, <1>2, PTL DEF Spec

-----------------------------------------------------------------------------
(* What the invariant says of the properties.                               *)

LEMMA InvOneLink == Inv => OneLinkInTheWorks
<1> SUFFICES ASSUME Inv PROVE OneLinkInTheWorks
    OBVIOUS
<1>1. CASE connecting = 0
    <2>1. Working = {made}
        BY <1>1 DEF Inv, Places, Working
    <2>2. Cardinality({made}) = 1
        BY FS_Singleton
    <2> QED
        BY <1>1, <2>1, <2>2 DEF OneLinkInTheWorks
<1>2. CASE connecting = 1
    <2>1. Working = {}
        BY <1>2 DEF Inv, Places, Working
    <2>2. Cardinality({}) = 0
        BY FS_EmptySet
    <2> QED
        BY <1>2, <2>1, <2>2 DEF OneLinkInTheWorks
<1> QED
    BY <1>1, <1>2 DEF Inv, TypeOK

LEMMA InvWritesToLive == Inv => WritesToLive
<1> SUFFICES ASSUME Inv, upstream_ctx # NULL PROVE ctx[upstream_ctx] = "live"
    BY DEF WritesToLive
<1>1. upstream_ctx \in Link /\ place[upstream_ctx] \in {"loop", "left"}
    BY DEF Inv, TypeOK, ChanInv, PointerBehind
<1>2. ref[upstream_ctx] >= 1
    BY <1>1 DEF Inv, RefCovers, ChanHolds
<1> QED
    BY <1>1, <1>2 DEF Inv, TypeOK, MemoryInv

LEMMA InvPointerCaughtUp == Inv => PointerCaughtUp
<1> SUFFICES ASSUME Inv, ~overflowed,
                    \A i \in DOMAIN upstream_chan : upstream_chan[i].type = "REQ_ORDER",
                    NEW k \in Link
             PROVE  upstream_ctx = k <=> place[k] = "loop"
    BY DEF PointerCaughtUp
<1>1. ~Queued("ADD", k) /\ ~Queued("DEL", k)
    BY DEF Queued, About
<1>2. upstream_ctx = k => place[k] \in {"loop", "left"}
    BY MessageFacts DEF Inv, ChanInv, PointerBehind
<1> QED
    BY <1>1, <1>2 DEF Inv, CaughtUp

\* The variables of the link side keep their types; no link is ever made twice,
\* and no second connecting thread is started (connect_upstream,
\* on_upstream_close).
THEOREM LinkTypeCorrect == Spec => []TypeOK
<1>1. Inv => TypeOK
    BY DEF Inv
<1> QED
    BY <1>1, InvHolds, PTL

\* The server works on exactly one link, however often it breaks
\* (on_upstream_close in upstream_handle.c).
THEOREM AlwaysOneLink == Spec => []OneLinkInTheWorks
BY InvHolds, InvOneLink, PTL

\* The channel thread never writes to a freed context, whatever the capacity of
\* the channel and whatever it loses (upstream_chan_routine).
THEOREM NeverWritesToFreed == Spec => []WritesToLive
BY InvHolds, InvWritesToLive, PTL

\* As long as nothing is lost, the channel thread that has read of all links
\* writes to the one the loop reads from (upstream_chan_routine,
\* on_upstream_add_ctx, on_upstream_close).
THEOREM PointerFollowsLoop == Spec => []PointerCaughtUp
BY InvHolds, InvPointerCaughtUp, PTL

=============================================================================
