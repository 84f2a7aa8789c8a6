------------------------ MODULE ChannelSessionsProofs ------------------------
(***************************************************************************)
(* The reference counting of a client context in server_channel, for every *)
(* number of connections, workers, user ids and table entries and every    *)
(* capacity of the channel, a channel that loses messages included.        *)
(*                                                                         *)
(* RefCoversHolders is not inductive.  A release is only sound if it takes *)
(* its holder away, and that needs to know                                 *)
(*   - where a context is while a loop is closing it, and that no second   *)
(*     loop is (Progress): then the loop's release ends its hold;          *)
(*   - that a DEL in the channel is the last message about its connection, *)
(*     and that its worker has let go of it (ChanOrder): then reading it   *)
(*     ends the channel's hold.  That is AddBeforeDel and the places.      *)
(* HeldIsLive then follows from MemoryInv: memory is freed when the count  *)
(* reaches 0, and never before.                                            *)
(*                                                                         *)
(* DropsNobody needs to know why a context is marked closed (ClosedInv):   *)
(* to leave the listener, or because its worker has no table entry for it. *)
(***************************************************************************)
EXTENDS ChannelSessions, TLAPS

Progress ==
    /\ \A c \in Conns : listen_closing = c
                            => place[c] \in {"handover", "worker", "left"}
    /\ \A c \in Conns : \A w \in Workers :
          worker_closing[w] = c => place[c] = "left" /\ w = WorkerOf(c)
    /\ \A c \in Conns : is_detached[c] => place[c] = "listen"
    /\ \A c \in Conns : place[c] \in {"none", "listen"} /\ ~is_detached[c]
                            => user_id[c] = 0

ChanOrder ==
    /\ AddBeforeDel
    /\ \A c \in Conns : \A i \in DOMAIN client_chan :
          About(c, client_chan[i]) =>
              /\ place[c] \in {"worker", "left"}
              /\ client_chan[i].type = "DEL" => place[c] = "left"

MemoryInv ==
    \A c \in Conns : InTable(user_id[c]) /\ place[c] # "none" /\ ref[c] > 0
                        => ctx[c] = "live" /\ session[c] = "live"

Inv == TypeOK /\ Progress /\ ChanOrder /\ RefCoversHolders /\ MemoryInv

-----------------------------------------------------------------------------
(* Lemmas about the channel.                                                *)

\* A message about a connection is a typed message.
LEMMA MessageFacts ==
    ASSUME NEW c \in Conns, NEW t \in {"ADD", "DEL"}
    PROVE  /\ [type |-> t, ctx |-> c] \in Message
           /\ About(c, [type |-> t, ctx |-> c])
           /\ \A d \in Conns : About(d, [type |-> t, ctx |-> c]) => d = c
BY DEF Message, About

\* Pushing appends the message, or loses it.
LEMMA PushFacts ==
    ASSUME client_chan \in Seq(Message), NEW m \in Message
    PROVE  /\ Pushed(m) \in Seq(Message)
           /\ \A i \in DOMAIN Pushed(m) :
                 /\ i \in Nat
                 /\ \/ i \in DOMAIN client_chan /\ Pushed(m)[i] = client_chan[i]
                    \/ i = Len(client_chan) + 1 /\ Pushed(m)[i] = m
<1>1. CASE Len(client_chan) < ChanCapacity
    BY <1>1 DEF Pushed
<1>2. CASE ~(Len(client_chan) < ChanCapacity)
    BY <1>2 DEF Pushed
<1> QED
    BY <1>1, <1>2

\* Reading takes the first message and moves the others up by one.
LEMMA ReadFacts ==
    ASSUME client_chan \in Seq(Message), client_chan # <<>>
    PROVE  /\ Tail(client_chan) \in Seq(Message)
           /\ Head(client_chan) \in Message
           /\ Head(client_chan) = client_chan[1]
           /\ 1 \in DOMAIN client_chan
           /\ \A i \in DOMAIN Tail(client_chan) :
                 /\ i \in Nat /\ i + 1 \in DOMAIN client_chan /\ 1 < i + 1
                 /\ Tail(client_chan)[i] = client_chan[i + 1]
OBVIOUS

\* What a thread holds has a reference.
LEMMA HeldHasRef ==
    ASSUME TypeOK, RefCoversHolders, NEW c \in Conns, InTable(user_id[c]),
           HeldByListener(c) \/ HeldByWorker(c) \/ HeldByChannel(c)
    PROVE  ref[c] > 0
<1>1. Holders(c) \in Nat /\ Holders(c) >= 1
    BY DEF Holders, One
<1>2. ref[c] \in Nat /\ ref[c] >= Holders(c)
    BY DEF TypeOK, RefCoversHolders
<1> QED
    BY <1>1, <1>2

-----------------------------------------------------------------------------
(* The listener's loop.                                                     *)

\* The invariant holds initially.
LEMMA InitInv == Init => Inv
<1> SUFFICES ASSUME Init PROVE Inv
    OBVIOUS
<1>1. TypeOK
    <2>1. overflowed \in BOOLEAN /\ crashed \in BOOLEAN
        BY DEF Init
    <2> QED
        BY <2>1 DEF Init, TypeOK, Memory
<1>2. Progress
    BY NoConnAssumption DEF Init, Progress
<1>3. ChanOrder
    BY DEF Init, ChanOrder, AddBeforeDel
<1>4. RefCoversHolders
    <2> SUFFICES ASSUME NEW c \in Conns PROVE ref[c] >= Holders(c)
        BY DEF RefCoversHolders
    <2>1. ~HeldByListener(c)
        BY NoConnAssumption DEF Init, HeldByListener
    <2>2. ~HeldByWorker(c)
        BY NoConnAssumption DEF Init, HeldByWorker
    <2>3. ~HeldByChannel(c)
        BY DEF Init, HeldByChannel
    <2> QED
        BY <2>1, <2>2, <2>3 DEF Init, Holders, One
<1>5. MemoryInv
    BY DEF Init, MemoryInv
<1> QED
    BY <1>1, <1>2, <1>3, <1>4, <1>5 DEF Inv

\* Accepting a connection: the listener's hold is the one reference.
LEMMA OnListenConnectStep ==
    ASSUME Inv, NEW c \in Conns, OnListenConnect(c)
    PROVE  Inv'
<1> USE DEF OnListenConnect, loopVars
<1>1. TypeOK'
    BY DEF Inv, TypeOK, Memory
<1>2. Progress'
    BY DEF Inv, TypeOK, Progress, WorkerOf
<1>3. ChanOrder'
    BY DEF Inv, TypeOK, ChanOrder, AddBeforeDel
<1>4. RefCoversHolders'
    <2> SUFFICES ASSUME NEW d \in Conns, InTable(user_id'[d])
                 PROVE  ref'[d] >= Holders(d)'
        BY DEF RefCoversHolders
    <2>1. CASE d = c
        <3>1. ~HeldByWorker(c)' /\ ~HeldByChannel(c)'
            BY DEF Inv, TypeOK, Progress, ChanOrder, HeldByWorker, HeldByChannel
        <3> QED
            BY <2>1, <3>1 DEF Inv, TypeOK, Holders, One
    <2>2. CASE d # c
        <3>1. /\ HeldByListener(d)' <=> HeldByListener(d)
              /\ HeldByWorker(d)' <=> HeldByWorker(d)
              /\ HeldByChannel(d)' <=> HeldByChannel(d)
              /\ ref'[d] = ref[d]
            BY <2>2 DEF Inv, TypeOK, HeldByListener, HeldByWorker, HeldByChannel
        <3> QED
            BY <3>1 DEF Inv, RefCoversHolders, Holders, One
    <2> QED
        BY <2>1, <2>2
<1>5. MemoryInv'
    BY DEF Inv, TypeOK, MemoryInv
<1> QED
    BY <1>1, <1>2, <1>3, <1>4, <1>5 DEF Inv

\* A login: the worker's hold begins, with a reference of its own.
LEMMA ListenHandleMessageStep ==
    ASSUME Inv, NEW c \in Conns, NEW u \in UserIds, ListenHandleMessage(c, u)
    PROVE  Inv'
<1> USE DEF ListenHandleMessage, RefForWorker, loopVars, peerVars
<1>1. TypeOK'
    BY DEF Inv, TypeOK
<1>2. Progress'
    BY DEF Inv, TypeOK, Progress, WorkerOf
<1>3. ChanOrder'
    BY DEF Inv, ChanOrder, AddBeforeDel
<1>4. InTable(u) => InTable(user_id[c])
    BY UserIdsAssumption, SizesAssumption DEF Inv, Progress, InTable
<1>5. RefCoversHolders'
    <2> SUFFICES ASSUME NEW d \in Conns, InTable(user_id'[d])
                 PROVE  ref'[d] >= Holders(d)'
        BY DEF RefCoversHolders
    <2>1. /\ HeldByListener(d)' <=> HeldByListener(d)
          /\ HeldByChannel(d)' <=> HeldByChannel(d)
        BY DEF HeldByListener, HeldByChannel
    <2>2. CASE d = c
        <3>1. ~HeldByWorker(c)
            BY DEF Inv, Progress, HeldByWorker
        <3>2. ref[c] \in Nat /\ ref'[c] = ref[c] + 1
            BY DEF Inv, TypeOK
        <3>3. InTable(user_id[c])
            BY <1>4, <2>2 DEF Inv, TypeOK
        <3> QED
            BY <2>1, <2>2, <3>1, <3>2, <3>3 DEF Inv, RefCoversHolders, Holders, One
    <2>3. CASE d # c
        <3>1. /\ HeldByWorker(d)' <=> HeldByWorker(d)
              /\ ref'[d] = ref[d]
              /\ user_id'[d] = user_id[d]
            BY <2>3 DEF Inv, TypeOK, HeldByWorker
        <3> QED
            BY <2>1, <3>1 DEF Inv, RefCoversHolders, Holders, One
    <2> QED
        BY <2>2, <2>3
<1>6. MemoryInv'
    <2>1. InTable(user_id[c]) => ref[c] > 0
        BY HeldHasRef DEF Inv, HeldByListener
    <2> QED
        BY <1>4, <2>1 DEF Inv, TypeOK, MemoryInv
<1> QED
    BY <1>1, <1>2, <1>3, <1>5, <1>6 DEF Inv

\* The listener's loop closes a context: whichever way it goes, the listener
\* holds it until its own release, and the worker's hold is untouched.
LEMMA OnListenCloseStep ==
    ASSUME Inv, NEW c \in Conns, OnListenClose(c)
    PROVE  Inv'
<1> USE DEF OnListenClose, ListenIdle, ClearedFlags, loopVars, peerVars
<1>1. TypeOK'
    BY DEF Inv, TypeOK
<1>2. Progress'
    <2>1. place'[c] \in {"handover", "left"} /\ ~is_detached'[c]
        BY DEF Inv, TypeOK
    <2>2. \A d \in Conns : d # c => /\ place'[d] = place[d]
                                    /\ is_detached'[d] = is_detached[d]
        BY DEF Inv, TypeOK
    <2>3. \A d \in Conns : \A w \in Workers :
              worker_closing'[w] = d => d # c /\ w = WorkerOf(d)'
        BY DEF Inv, Progress, WorkerOf
    <2>4. \A d \in Conns : listen_closing' = d => d = c
        OBVIOUS
    <2> QED
        BY <2>1, <2>2, <2>3, <2>4 DEF Inv, Progress
<1>3. ChanOrder'
    BY DEF Inv, TypeOK, ChanOrder, AddBeforeDel
<1>4. RefCoversHolders'
    <2> SUFFICES ASSUME NEW d \in Conns, InTable(user_id'[d])
                 PROVE  ref'[d] >= Holders(d)'
        BY DEF RefCoversHolders
    <2>1. /\ HeldByListener(d)' => HeldByListener(d)
          /\ HeldByWorker(d)' => HeldByWorker(d)
          /\ HeldByChannel(d)' => HeldByChannel(d)
        BY DEF Inv, TypeOK, HeldByListener, HeldByWorker, HeldByChannel
    <2> QED
        BY <2>1 DEF Inv, TypeOK, RefCoversHolders, Holders, One
<1>5. MemoryInv'
    BY DEF Inv, TypeOK, MemoryInv
<1> QED
    BY <1>1, <1>2, <1>3, <1>4, <1>5 DEF Inv

\* The listener lets go: its hold ends with its reference.
LEMMA ListenReleaseStep ==
    ASSUME Inv, NEW c \in Conns, ListenRelease(c)
    PROVE  Inv'
<1> USE DEF ListenRelease, LoopRelease, Released, IsLast, loopVars, peerVars
<1>1. TypeOK'
    BY DEF Inv, TypeOK, Memory
<1>2. Progress'
    BY NoConnAssumption DEF Inv, TypeOK, Progress, WorkerOf
<1>3. ChanOrder'
    BY DEF Inv, ChanOrder, AddBeforeDel
<1>4. RefCoversHolders'
    <2> SUFFICES ASSUME NEW d \in Conns, InTable(user_id'[d])
                 PROVE  ref'[d] >= Holders(d)'
        BY DEF RefCoversHolders
    <2>1. /\ HeldByWorker(d)' <=> HeldByWorker(d)
          /\ HeldByChannel(d)' <=> HeldByChannel(d)
          /\ HeldByListener(d)' => HeldByListener(d)
        BY NoConnAssumption DEF HeldByListener, HeldByWorker, HeldByChannel
    <2>2. ref[d] \in Nat /\ ref[d] >= Holders(d)
        BY DEF Inv, TypeOK, RefCoversHolders
    <2>3. CASE d = c
        <3>1. HeldByListener(c) /\ ~HeldByListener(c)'
            BY NoConnAssumption DEF Inv, Progress, HeldByListener
        <3>2. ref'[c] = ref[c] - 1
            BY <2>2, <2>3, <3>1 DEF Inv, TypeOK, Holders, One
        <3> QED
            BY <2>1, <2>2, <2>3, <3>1, <3>2 DEF Holders, One
    <2>4. CASE d # c
        <3>1. ref'[d] = ref[d]
            BY <2>4 DEF Inv, TypeOK
        <3> QED
            BY <2>1, <2>2, <3>1 DEF Holders, One
    <2> QED
        BY <2>3, <2>4
<1>5. MemoryInv'
    BY DEF Inv, TypeOK, MemoryInv
<1> QED
    BY <1>1, <1>2, <1>3, <1>4, <1>5 DEF Inv

-----------------------------------------------------------------------------
(* A worker's loop.                                                         *)

\* The worker takes a context over: the channel's hold begins, with a reference
\* of its own, and ADD is the first message about it.
LEMMA OnWorkerAddCtxStep ==
    ASSUME Inv, NEW c \in Conns, OnWorkerAddCtx(c)
    PROVE  Inv'
<1> USE DEF OnWorkerAddCtx, AddPush, RefForChannel, sessionVars, peerVars, loopVars
<1> DEFINE add == [type |-> "ADD", ctx |-> c]
<1>1. /\ add \in Message
      /\ \A d \in Conns : About(d, add) => d = c
      /\ add.type = "ADD"
    BY MessageFacts
<1>2. /\ client_chan' \in Seq(Message)
      /\ \A i \in DOMAIN client_chan' :
            /\ i \in Nat
            /\ \/ i \in DOMAIN client_chan /\ client_chan'[i] = client_chan[i]
               \/ i = Len(client_chan) + 1 /\ client_chan'[i] = add
    <2>1. client_chan \in Seq(Message)
        BY DEF Inv, TypeOK
    <2>2. CASE client_chan' = client_chan
        BY <2>1, <2>2
    <2>3. CASE client_chan' = Pushed(add)
        BY <1>1, <2>1, <2>3, PushFacts
    <2> QED
        BY <2>2, <2>3
<1> HIDE DEF add
<1>3. \A i \in DOMAIN client_chan : ~About(c, client_chan[i])
    BY DEF Inv, ChanOrder
<1>4. /\ place'[c] = "worker"
      /\ \A d \in Conns : d # c => place'[d] = place[d]
    BY DEF Inv, TypeOK
<1>5. TypeOK'
    <2>1. ref' \in [Conns -> Nat]
        <3>1. ref \in [Conns -> Nat]
            BY DEF Inv, TypeOK
        <3>2. CASE ref' = ref
            BY <3>1, <3>2
        <3>3. CASE ref' = [ref EXCEPT ![c] = @ + 1]
            BY <3>1, <3>3
        <3> QED
            BY <3>2, <3>3
    <2>3. flag_closed' \in [Conns -> BOOLEAN]
        <3>1. flag_closed \in [Conns -> BOOLEAN]
            BY DEF Inv, TypeOK
        <3>2. CASE flag_closed' = flag_closed
            BY <3>1, <3>2
        <3>3. CASE flag_closed' = [flag_closed EXCEPT ![c] = TRUE]
            BY <3>1, <3>3
        <3> QED
            BY <3>2, <3>3
    <2>2. place' \in [Conns -> {"none", "listen", "handover", "worker", "left"}]
        BY DEF Inv, TypeOK
    <2> QED
        BY <1>2, <2>1, <2>2, <2>3 DEF Inv, TypeOK
<1>6. Progress'
    BY <1>4 DEF Inv, Progress, WorkerOf
<1>7. ChanOrder'
    <2>1. AddBeforeDel'
        <3> SUFFICES ASSUME NEW i \in DOMAIN client_chan',
                            NEW j \in DOMAIN client_chan',
                            NEW d \in Conns, i < j,
                            About(d, client_chan'[i]), About(d, client_chan'[j])
                     PROVE  /\ client_chan'[i].type = "ADD"
                            /\ client_chan'[j].type = "DEL"
            BY DEF AddBeforeDel
        <3>1. client_chan \in Seq(Message)
            BY DEF Inv, TypeOK
        <3>2. i \in DOMAIN client_chan /\ client_chan'[i] = client_chan[i]
            BY <1>2, <3>1
        <3>3. d # c
            BY <1>3, <3>2
        <3>4. j \in DOMAIN client_chan /\ client_chan'[j] = client_chan[j]
            BY <1>1, <1>2, <3>3
        <3> QED
            BY <3>2, <3>4 DEF Inv, ChanOrder, AddBeforeDel
    <2>2. ASSUME NEW d \in Conns, NEW i \in DOMAIN client_chan',
                 About(d, client_chan'[i])
          PROVE  /\ place'[d] \in {"worker", "left"}
                 /\ client_chan'[i].type = "DEL" => place'[d] = "left"
        <3>1. CASE client_chan'[i] = add
            BY <1>1, <1>4, <2>2, <3>1
        <3>2. CASE i \in DOMAIN client_chan /\ client_chan'[i] = client_chan[i]
            BY <1>3, <1>4, <2>2, <3>2 DEF Inv, ChanOrder
        <3> QED
            BY <1>2, <3>1, <3>2
    <2> QED
        BY <2>1, <2>2 DEF ChanOrder
<1>8. RefCoversHolders'
    <2> SUFFICES ASSUME NEW d \in Conns, InTable(user_id'[d])
                 PROVE  ref'[d] >= Holders(d)'
        BY DEF RefCoversHolders
    <2>1. ref[d] \in Nat /\ ref[d] >= Holders(d)
        BY DEF Inv, TypeOK, RefCoversHolders
    <2>2. /\ HeldByListener(d)' => HeldByListener(d)
          /\ HeldByWorker(d)' => HeldByWorker(d)
        BY <1>4 DEF HeldByListener, HeldByWorker
    <2>3. CASE d = c
        <3>1. ~HeldByChannel(c)
            BY <1>3 DEF HeldByChannel
        <3>2. ref'[c] = ref[c] + 1
            BY <2>3 DEF Inv, TypeOK, InTable
        <3> QED
            BY <2>1, <2>2, <2>3, <3>1, <3>2 DEF Holders, One
    <2>4. CASE d # c
        <3>1. HeldByChannel(d)' => HeldByChannel(d)
            BY <1>1, <1>2, <1>4, <2>4 DEF HeldByChannel
        <3>2. ref'[d] = ref[d]
            BY <2>4 DEF Inv, TypeOK
        <3> QED
            BY <2>1, <2>2, <3>1, <3>2 DEF Holders, One
    <2> QED
        BY <2>3, <2>4
<1>9. MemoryInv'
    <2>1. InTable(user_id[c]) => ref[c] > 0
        BY HeldHasRef DEF Inv, HeldByWorker
    <2> QED
        BY <1>4, <2>1 DEF Inv, TypeOK, MemoryInv
<1> QED
    BY <1>5, <1>6, <1>7, <1>8, <1>9 DEF Inv

\* The worker closes a context: DEL, if it is not lost, is behind every message
\* about it, and the worker holds the context until its own release.
LEMMA OnWorkerCloseStep ==
    ASSUME Inv, NEW c \in Conns, OnWorkerClose(c)
    PROVE  Inv'
<1> USE DEF OnWorkerClose, ClosePush, sessionVars, peerVars, loopVars
<1> DEFINE del == [type |-> "DEL", ctx |-> c]
<1>1. /\ del \in Message
      /\ \A d \in Conns : About(d, del) => d = c
      /\ del.type = "DEL"
    BY MessageFacts
<1>2. /\ client_chan' \in Seq(Message)
      /\ \A i \in DOMAIN client_chan' :
            /\ i \in Nat
            /\ \/ i \in DOMAIN client_chan /\ client_chan'[i] = client_chan[i]
               \/ i = Len(client_chan) + 1 /\ client_chan'[i] = del
    BY <1>1, PushFacts DEF Inv, TypeOK
<1> HIDE DEF del
<1>3. \A i \in DOMAIN client_chan :
          About(c, client_chan[i]) => client_chan[i].type = "ADD"
    <2> SUFFICES ASSUME NEW i \in DOMAIN client_chan, About(c, client_chan[i])
                 PROVE  client_chan[i].type = "ADD"
        OBVIOUS
    <2>1. client_chan[i].type # "DEL"
        BY DEF Inv, ChanOrder
    <2>2. client_chan[i] \in Message /\ client_chan[i].type # "RSP_ORDER"
        BY DEF Inv, TypeOK, About
    <2> QED
        BY <2>1, <2>2 DEF Message
<1>4. /\ place'[c] = "left"
      /\ \A d \in Conns : d # c => place'[d] = place[d]
    BY DEF Inv, TypeOK
<1>5. TypeOK'
    BY <1>2 DEF Inv, TypeOK
<1>6. Progress'
    <2>1. \A d \in Conns : \A w \in Workers :
              worker_closing'[w] = d =>
                  \/ d = c /\ w = WorkerOf(d)
                  \/ d # c /\ worker_closing[w] = d
        BY DEF Inv, TypeOK, Progress
    <2>2. \A d \in Conns : \A w \in Workers :
              worker_closing'[w] = d => place'[d] = "left" /\ w = WorkerOf(d)'
        BY <1>4, <2>1 DEF Inv, Progress, WorkerOf
    <2> QED
        BY <1>4, <2>2 DEF Inv, Progress
<1>7. ChanOrder'
    <2>1. AddBeforeDel'
        <3> SUFFICES ASSUME NEW i \in DOMAIN client_chan',
                            NEW j \in DOMAIN client_chan',
                            NEW d \in Conns, i < j,
                            About(d, client_chan'[i]), About(d, client_chan'[j])
                     PROVE  /\ client_chan'[i].type = "ADD"
                            /\ client_chan'[j].type = "DEL"
            BY DEF AddBeforeDel
        <3>1. client_chan \in Seq(Message)
            BY DEF Inv, TypeOK
        <3>2. i \in DOMAIN client_chan /\ client_chan'[i] = client_chan[i]
            BY <1>2, <3>1
        <3>3. CASE client_chan'[j] = del
            BY <1>1, <1>3, <3>2, <3>3
        <3>4. CASE j \in DOMAIN client_chan /\ client_chan'[j] = client_chan[j]
            BY <3>2, <3>4 DEF Inv, ChanOrder, AddBeforeDel
        <3> QED
            BY <1>2, <3>3, <3>4
    <2>2. ASSUME NEW d \in Conns, NEW i \in DOMAIN client_chan',
                 About(d, client_chan'[i])
          PROVE  /\ place'[d] \in {"worker", "left"}
                 /\ client_chan'[i].type = "DEL" => place'[d] = "left"
        <3>1. CASE client_chan'[i] = del
            BY <1>1, <1>4, <2>2, <3>1
        <3>2. CASE i \in DOMAIN client_chan /\ client_chan'[i] = client_chan[i]
            BY <1>4, <2>2, <3>2 DEF Inv, ChanOrder
        <3> QED
            BY <1>2, <3>1, <3>2
    <2> QED
        BY <2>1, <2>2 DEF ChanOrder
<1>8. RefCoversHolders'
    <2> SUFFICES ASSUME NEW d \in Conns, InTable(user_id'[d])
                 PROVE  ref'[d] >= Holders(d)'
        BY DEF RefCoversHolders
    <2>1. ref'[d] = ref[d] /\ ref[d] \in Nat /\ ref[d] >= Holders(d)
        BY DEF Inv, TypeOK, RefCoversHolders
    <2>2. HeldByListener(d)' => HeldByListener(d)
        BY <1>4 DEF HeldByListener
    <2>3. HeldByWorker(d)' => HeldByWorker(d)
        <3>1. CASE d = c
            BY <3>1 DEF HeldByWorker
        <3>2. CASE d # c
            BY <1>4, <3>2 DEF Inv, TypeOK, HeldByWorker
        <3> QED
            BY <3>1, <3>2
    <2>4. HeldByChannel(d)' => HeldByChannel(d)
        <3>1. CASE d = c
            BY <3>1 DEF HeldByChannel
        <3>2. CASE d # c
            BY <1>1, <1>2, <1>4, <3>2 DEF HeldByChannel
        <3> QED
            BY <3>1, <3>2
    <2> QED
        BY <2>1, <2>2, <2>3, <2>4 DEF Holders, One
<1>9. MemoryInv'
    BY <1>4 DEF Inv, MemoryInv
<1> QED
    BY <1>5, <1>6, <1>7, <1>8, <1>9 DEF Inv

\* The worker lets go: its hold ends with its reference.
LEMMA WorkerReleaseStep ==
    ASSUME Inv, NEW c \in Conns, NEW w \in Workers, WorkerRelease(w, c)
    PROVE  Inv'
<1> USE DEF WorkerRelease, LoopRelease, Released, IsLast, sessionVars, peerVars
<1>1. TypeOK'
    BY DEF Inv, TypeOK, Memory
<1>2. Progress'
    BY NoConnAssumption DEF Inv, TypeOK, Progress, WorkerOf
<1>3. ChanOrder'
    BY DEF Inv, ChanOrder, AddBeforeDel
<1>4. RefCoversHolders'
    <2> SUFFICES ASSUME NEW d \in Conns, InTable(user_id'[d])
                 PROVE  ref'[d] >= Holders(d)'
        BY DEF RefCoversHolders
    <2>1. /\ HeldByListener(d)' <=> HeldByListener(d)
          /\ HeldByChannel(d)' <=> HeldByChannel(d)
        BY DEF HeldByListener, HeldByChannel
    <2>2. HeldByWorker(d)' => HeldByWorker(d)
        BY NoConnAssumption DEF Inv, TypeOK, HeldByWorker
    <2>3. ref[d] \in Nat /\ ref[d] >= Holders(d)
        BY DEF Inv, TypeOK, RefCoversHolders
    <2>4. CASE d = c
        <3>1. HeldByWorker(c)
            BY DEF HeldByWorker
        <3>2. ~HeldByWorker(c)'
            BY NoConnAssumption DEF Inv, TypeOK, Progress, HeldByWorker
        <3>3. ref'[c] = ref[c] - 1
            BY <2>3, <2>4, <3>1 DEF Inv, TypeOK, Holders, One
        <3> QED
            BY <2>1, <2>3, <2>4, <3>1, <3>2, <3>3 DEF Holders, One
    <2>5. CASE d # c
        <3>1. ref'[d] = ref[d]
            BY <2>5 DEF Inv, TypeOK
        <3> QED
            BY <2>1, <2>2, <2>3, <3>1 DEF Holders, One
    <2> QED
        BY <2>4, <2>5
<1>5. MemoryInv'
    BY DEF Inv, TypeOK, MemoryInv
<1> QED
    BY <1>1, <1>2, <1>3, <1>4, <1>5 DEF Inv

-----------------------------------------------------------------------------
(* The channel thread.                                                      *)

\* Reading any message keeps the order of the others.
LEMMA TailKeepsOrder ==
    ASSUME TypeOK, ChanOrder, client_chan # <<>>,
           client_chan' = Tail(client_chan), place' = place
    PROVE  /\ ChanOrder'
           /\ \A c \in Conns : HeldByChannel(c)' => HeldByChannel(c)
<1>1. /\ client_chan' \in Seq(Message)
      /\ \A i \in DOMAIN client_chan' :
            /\ i \in Nat /\ i + 1 \in DOMAIN client_chan
            /\ client_chan'[i] = client_chan[i + 1]
    BY ReadFacts DEF TypeOK
<1>2. AddBeforeDel'
    <2> SUFFICES ASSUME NEW i \in DOMAIN client_chan',
                        NEW j \in DOMAIN client_chan',
                        NEW d \in Conns, i < j,
                        About(d, client_chan'[i]), About(d, client_chan'[j])
                 PROVE  /\ client_chan'[i].type = "ADD"
                        /\ client_chan'[j].type = "DEL"
        BY DEF AddBeforeDel
    <2>1. i + 1 < j + 1
        BY <1>1
    <2> QED
        BY <1>1, <2>1 DEF ChanOrder, AddBeforeDel
<1>3. ChanOrder'
    BY <1>1, <1>2 DEF ChanOrder
<1>4. \A c \in Conns : HeldByChannel(c)' => HeldByChannel(c)
    BY <1>1 DEF HeldByChannel
<1> QED
    BY <1>3, <1>4

\* ADD: listing a session and answering it touches no reference.
LEMMA ChanAddCtxStep ==
    ASSUME Inv, ChanAddCtx
    PROVE  Inv'
<1> USE DEF ChanAddCtx, Reading, sessionVars, loopVars
<1>1. /\ Tail(client_chan) \in Seq(Message)
      /\ Head(client_chan) \in Message
    BY ReadFacts DEF Inv, TypeOK
<1>2. Head(client_chan).ctx \in Conns
    BY <1>1 DEF Message
<1>3. TypeOK'
    BY <1>1, <1>2 DEF Inv, TypeOK, Linked
<1>4. Progress'
    BY DEF Inv, Progress, WorkerOf
<1>5. ChanOrder' /\ \A c \in Conns : HeldByChannel(c)' => HeldByChannel(c)
    BY TailKeepsOrder DEF Inv
<1>6. RefCoversHolders'
    <2>1. \A c \in Conns : /\ HeldByListener(c)' <=> HeldByListener(c)
                           /\ HeldByWorker(c)' <=> HeldByWorker(c)
        BY DEF HeldByListener, HeldByWorker
    <2> QED
        BY <1>5, <2>1 DEF Inv, TypeOK, RefCoversHolders, Holders, One
<1>7. MemoryInv'
    BY DEF Inv, MemoryInv
<1> QED
    BY <1>3, <1>4, <1>5, <1>6, <1>7 DEF Inv

\* DEL: it is the last message about its connection, whose worker has let go of
\* it, so the channel's hold ends with the reference it gives back.
LEMMA ChanDelCtxStep ==
    ASSUME Inv, ChanDelCtx
    PROVE  Inv'
<1> USE DEF ChanDelCtx, Reading, peerVars, loopVars
<1>1. /\ Tail(client_chan) \in Seq(Message)
      /\ Head(client_chan) \in Message
      /\ Head(client_chan) = client_chan[1]
      /\ 1 \in DOMAIN client_chan
      /\ \A i \in DOMAIN Tail(client_chan) :
            /\ i \in Nat /\ i + 1 \in DOMAIN client_chan /\ 1 < i + 1
            /\ Tail(client_chan)[i] = client_chan[i + 1]
    BY ReadFacts DEF Inv, TypeOK
<1>1a. PICK c \in Conns : c = Head(client_chan).ctx
    BY <1>1 DEF Message
<1>2. About(c, client_chan[1]) /\ client_chan[1].type = "DEL"
    BY <1>1a, <1>1 DEF Message, About
<1>3. place[c] = "left"
    BY <1>1, <1>2 DEF Inv, ChanOrder
<1>4. ~HeldByChannel(c)'
    <2>1. \A i \in DOMAIN client_chan' : ~About(c, client_chan'[i])
        BY <1>1, <1>2 DEF Inv, ChanOrder, AddBeforeDel
    <2> QED
        BY <1>3, <2>1 DEF HeldByChannel
<1>5. HeldByChannel(c)
    BY <1>1, <1>2 DEF HeldByChannel
<1>6. ref' = IF ref[c] = 0 THEN ref ELSE [ref EXCEPT ![c] = @ - 1]
    BY <1>1a DEF Released
<1>7. \/ /\ ref[c] = 1
         /\ ctx' = [ctx EXCEPT ![c] = "freed"]
         /\ session' = [session EXCEPT ![c] = "freed"]
      \/ /\ ref[c] # 1
         /\ ctx' = ctx
         /\ session' = session
    BY <1>1a DEF IsLast
<1>8. TypeOK'
    <2>1. ref' \in [Conns -> Nat]
        BY <1>2, <1>6 DEF Inv, TypeOK
    <2>2. ctx' \in [Conns -> Memory] /\ session' \in [Conns -> Memory]
        BY <1>2, <1>7 DEF Inv, TypeOK, Memory
    <2>3. listed' \subseteq Conns
        BY DEF Inv, TypeOK, Unlinked
    <2> QED
        BY <1>1, <2>1, <2>2, <2>3 DEF Inv, TypeOK
<1>9. Progress'
    BY DEF Inv, Progress, WorkerOf
<1>10. ChanOrder' /\ \A d \in Conns : HeldByChannel(d)' => HeldByChannel(d)
    BY TailKeepsOrder DEF Inv
<1>11. RefCoversHolders'
    <2> SUFFICES ASSUME NEW d \in Conns, InTable(user_id'[d])
                 PROVE  ref'[d] >= Holders(d)'
        BY DEF RefCoversHolders
    <2>1. /\ HeldByListener(d)' <=> HeldByListener(d)
          /\ HeldByWorker(d)' <=> HeldByWorker(d)
        BY DEF HeldByListener, HeldByWorker
    <2>2. ref[d] \in Nat /\ ref[d] >= Holders(d)
        BY DEF Inv, TypeOK, RefCoversHolders
    <2>3. CASE d = c
        <3>1. ref[c] > 0
            BY <1>2, <1>5, <2>3, HeldHasRef DEF Inv
        <3>2. ref'[c] = ref[c] - 1
            BY <1>2, <1>6, <2>2, <2>3, <3>1 DEF Inv, TypeOK
        <3> QED
            BY <1>4, <1>5, <2>1, <2>2, <2>3, <3>2 DEF Holders, One
    <2>4. CASE d # c
        <3>1. ref'[d] = ref[d]
            BY <1>2, <1>6, <2>4 DEF Inv, TypeOK
        <3> QED
            BY <1>10, <2>1, <2>2, <3>1 DEF Holders, One
    <2> QED
        BY <2>3, <2>4
<1>12. MemoryInv'
    <2> SUFFICES ASSUME NEW d \in Conns, InTable(user_id[d]), place[d] # "none",
                        ref'[d] > 0
                 PROVE  ctx'[d] = "live" /\ session'[d] = "live"
        BY DEF MemoryInv
    <2>1. CASE d = c
        <3>1. ref[c] # 1 /\ ref[c] > 0
            BY <1>2, <1>6, <2>1 DEF Inv, TypeOK
        <3> QED
            BY <1>7, <2>1, <3>1 DEF Inv, MemoryInv
    <2>2. CASE d # c
        <3>1. ref'[d] = ref[d] /\ ctx'[d] = ctx[d] /\ session'[d] = session[d]
            BY <1>2, <1>6, <1>7, <2>2 DEF Inv, TypeOK
        <3> QED
            BY <3>1 DEF Inv, MemoryInv
    <2> QED
        BY <2>1, <2>2
<1> QED
    BY <1>8, <1>9, <1>10, <1>11, <1>12 DEF Inv

\* RSP_ORDER: reading a response touches no reference.
LEMMA ChanRspOrderStep ==
    ASSUME Inv, ChanRspOrder
    PROVE  Inv'
<1> USE DEF ChanRspOrder, Reading, sessionVars, peerVars, loopVars
<1>1. TypeOK'
    BY ReadFacts DEF Inv, TypeOK
<1>2. Progress'
    BY DEF Inv, Progress, WorkerOf
<1>3. ChanOrder' /\ \A c \in Conns : HeldByChannel(c)' => HeldByChannel(c)
    BY TailKeepsOrder DEF Inv
<1>4. RefCoversHolders'
    <2>1. \A c \in Conns : /\ HeldByListener(c)' <=> HeldByListener(c)
                           /\ HeldByWorker(c)' <=> HeldByWorker(c)
        BY DEF HeldByListener, HeldByWorker
    <2> QED
        BY <1>3, <2>1 DEF Inv, TypeOK, RefCoversHolders, Holders, One
<1>5. MemoryInv'
    BY DEF Inv, MemoryInv
<1> QED
    BY <1>1, <1>2, <1>3, <1>4, <1>5 DEF Inv

\* A response on its way to the channel thread is about no connection.
LEMMA UpstreamHandleMessageStep ==
    ASSUME Inv, NEW u \in UserIds, UpstreamHandleMessage(u)
    PROVE  Inv'
<1> USE DEF UpstreamHandleMessage, sessionVars, peerVars, loopVars
<1> DEFINE rsp == [type |-> "RSP_ORDER", user_id |-> u]
<1>1. rsp \in Message /\ \A c \in Conns : ~About(c, rsp)
    BY DEF Message, About
<1>2. /\ client_chan' \in Seq(Message)
      /\ \A i \in DOMAIN client_chan' :
            /\ i \in Nat
            /\ \/ i \in DOMAIN client_chan /\ client_chan'[i] = client_chan[i]
               \/ i = Len(client_chan) + 1 /\ client_chan'[i] = rsp
    BY <1>1, PushFacts DEF Inv, TypeOK
<1> HIDE DEF rsp
<1>3. \A c \in Conns : \A i \in DOMAIN client_chan' :
          About(c, client_chan'[i]) =>
              i \in DOMAIN client_chan /\ client_chan'[i] = client_chan[i]
    BY <1>1, <1>2
<1>4. TypeOK'
    BY <1>2 DEF Inv, TypeOK
<1>5. Progress'
    BY DEF Inv, Progress, WorkerOf
<1>6. ChanOrder'
    BY <1>3 DEF Inv, ChanOrder, AddBeforeDel
<1>7. RefCoversHolders'
    <2>1. \A c \in Conns : /\ HeldByListener(c)' <=> HeldByListener(c)
                           /\ HeldByWorker(c)' <=> HeldByWorker(c)
        BY DEF HeldByListener, HeldByWorker
    <2>2. \A c \in Conns : HeldByChannel(c)' => HeldByChannel(c)
        BY <1>3 DEF HeldByChannel
    <2> QED
        BY <2>1, <2>2 DEF Inv, TypeOK, RefCoversHolders, Holders, One
<1>8. MemoryInv'
    BY DEF Inv, MemoryInv
<1> QED
    BY <1>4, <1>5, <1>6, <1>7, <1>8 DEF Inv

\* What depends on neither hangup, listed, answered nor flag_closed is kept by
\* a step that changes nothing else.
LEMMA PeerHangupStep ==
    ASSUME Inv, NEW c \in Conns, PeerHangup(c)
    PROVE  Inv'
<1> USE DEF PeerHangup, sessionVars, loopVars
<1>1. TypeOK'
    BY DEF Inv, TypeOK
<1>2. Progress' /\ ChanOrder' /\ MemoryInv'
    BY DEF Inv, Progress, WorkerOf, ChanOrder, AddBeforeDel, MemoryInv
<1>3. RefCoversHolders'
    BY DEF Inv, RefCoversHolders, Holders, HeldByListener, HeldByWorker, HeldByChannel
<1> QED
    BY <1>1, <1>2, <1>3 DEF Inv

-----------------------------------------------------------------------------
(* The theorems.                                                            *)

\* The invariant holds in every reachable state.
THEOREM InvHolds == Spec => []Inv
<1>1. Init => Inv
    BY InitInv
<1>2. Inv /\ [Next]_vars => Inv'
    <2> SUFFICES ASSUME Inv, [Next]_vars PROVE Inv'
        OBVIOUS
    <2>1. CASE ChanAddCtx
        BY <2>1, ChanAddCtxStep
    <2>2. CASE ChanDelCtx
        BY <2>2, ChanDelCtxStep
    <2>3. CASE ChanRspOrder
        BY <2>3, ChanRspOrderStep
    <2>4. ASSUME NEW u \in UserIds, UpstreamHandleMessage(u) PROVE Inv'
        BY <2>4, UpstreamHandleMessageStep
    <2>5. ASSUME NEW c \in Conns, OnListenConnect(c) PROVE Inv'
        BY <2>5, OnListenConnectStep
    <2>6. ASSUME NEW c \in Conns, NEW u \in UserIds, ListenHandleMessage(c, u)
          PROVE  Inv'
        BY <2>6, ListenHandleMessageStep
    <2>7. ASSUME NEW c \in Conns, OnListenClose(c) PROVE Inv'
        BY <2>7, OnListenCloseStep
    <2>8. ASSUME NEW c \in Conns, ListenRelease(c) PROVE Inv'
        BY <2>8, ListenReleaseStep
    <2>9. ASSUME NEW c \in Conns, OnWorkerAddCtx(c) PROVE Inv'
        BY <2>9, OnWorkerAddCtxStep
    <2>10. ASSUME NEW c \in Conns, OnWorkerClose(c) PROVE Inv'
        BY <2>10, OnWorkerCloseStep
    <2>11. ASSUME NEW c \in Conns, NEW w \in Workers, WorkerRelease(w, c)
           PROVE  Inv'
        BY <2>11, WorkerReleaseStep
    <2>12. ASSUME NEW c \in Conns, PeerHangup(c) PROVE Inv'
        BY <2>12, PeerHangupStep
    <2>13. CASE UNCHANGED vars
        <3> USE <2>13 DEF vars
        <3>1. TypeOK' /\ Progress' /\ ChanOrder' /\ MemoryInv'
            BY DEF Inv, TypeOK, Progress, WorkerOf, ChanOrder, AddBeforeDel,
                   MemoryInv
        <3>2. RefCoversHolders'
            BY DEF Inv, RefCoversHolders, Holders, HeldByListener, HeldByWorker,
                   HeldByChannel
        <3> QED
            BY <3>1, <3>2 DEF Inv
    <2> QED
        BY <2>1, <2>2, <2>3, <2>4, <2>5, <2>6, <2>7, <2>8, <2>9, <2>10, <2>11,
           <2>12, <2>13 DEF Next
<1> QED
    BY <1>1, <1>2, PTL DEF Spec

\* Every variable keeps its type.
THEOREM TypeCorrect == Spec => []TypeOK
BY InvHolds, PTL DEF Inv

\* The reference count covers every thread that may still touch the context.
THEOREM RefCorrect == Spec => []RefCoversHolders
BY InvHolds, PTL DEF Inv

\* ADD is in front of DEL, and there is one of each at most.
THEOREM ChannelOrdered == Spec => []AddBeforeDel
<1>1. Inv => AddBeforeDel
    BY DEF Inv, ChanOrder
<1> QED
    BY <1>1, InvHolds, PTL

\* No thread is left with a context or a session that has been freed.
THEOREM NoUseAfterFree == Spec => []HeldIsLive
<1>1. Inv => HeldIsLive
    <2> SUFFICES ASSUME Inv, NEW c \in Conns, InTable(user_id[c]),
                        HeldByListener(c) \/ HeldByWorker(c) \/ HeldByChannel(c)
                 PROVE  ctx[c] = "live" /\ session[c] = "live"
        BY DEF HeldIsLive
    <2>1. ref[c] > 0
        BY HeldHasRef DEF Inv
    <2>2. place[c] # "none"
        BY DEF Inv, Progress, ChanOrder, HeldByListener, HeldByWorker, HeldByChannel
    <2> QED
        BY <2>1, <2>2 DEF Inv, MemoryInv
<1> QED
    BY <1>1, InvHolds, PTL

-----------------------------------------------------------------------------
(* Whom the server hangs up on.                                             *)

\* A context is marked closed to leave the listener, or by a worker that has no
\* table entry for its user.
ClosedInv ==
    \A c \in Conns : flag_closed[c] =>
        \/ place[c] = "listen" /\ is_detached[c]
        \/ place[c] \in {"worker", "left"} /\ ~InTable(user_id[c])

DropInv == ClosedInv /\ DropsNobody

\* What DropInv is about, for a connection the step does not touch.
LEMMA DropUntouched ==
    ASSUME DropInv, NEW c \in Conns,
           flag_closed'[c] = flag_closed[c], place'[c] = place[c],
           is_detached'[c] = is_detached[c], user_id'[c] = user_id[c],
           hangup[c] => hangup'[c]
    PROVE  /\ flag_closed'[c] =>
                 \/ place'[c] = "listen" /\ is_detached'[c]
                 \/ place'[c] \in {"worker", "left"} /\ ~InTable(user_id'[c])
           /\ place'[c] = "left" /\ InTable(user_id'[c]) => hangup'[c]
BY DEF DropInv, ClosedInv, DropsNobody

LEMMA DropStep ==
    ASSUME TypeOK, DropInv, [Next]_vars
    PROVE  DropInv'
<1> SUFFICES ASSUME NEW d \in Conns
             PROVE  /\ flag_closed'[d] =>
                          \/ place'[d] = "listen" /\ is_detached'[d]
                          \/ place'[d] \in {"worker", "left"} /\ ~InTable(user_id'[d])
                    /\ place'[d] = "left" /\ InTable(user_id'[d]) => hangup'[d]
    BY DEF DropInv, ClosedInv, DropsNobody, InTable
<1> USE DEF peerVars, sessionVars, loopVars
<1>1. CASE UNCHANGED <<flag_closed, place, is_detached, user_id, hangup>>
    BY <1>1, DropUntouched
<1>2. CASE ChanAddCtx \/ ChanDelCtx \/ ChanRspOrder
    BY <1>1, <1>2 DEF ChanAddCtx, ChanDelCtx, ChanRspOrder
<1>3. ASSUME NEW u \in UserIds, UpstreamHandleMessage(u)
      PROVE  UNCHANGED <<flag_closed, place, is_detached, user_id, hangup>>
    BY <1>3 DEF UpstreamHandleMessage
<1>4. ASSUME NEW c \in Conns, OnListenConnect(c)
      PROVE  /\ place[c] = "none" /\ place' = [place EXCEPT ![c] = "listen"]
             /\ UNCHANGED <<flag_closed, is_detached, user_id, hangup>>
    BY <1>4 DEF OnListenConnect
<1>5. ASSUME NEW c \in Conns, NEW u \in UserIds, ListenHandleMessage(c, u)
      PROVE  /\ place[c] = "listen" /\ UNCHANGED <<place, hangup>>
             /\ user_id' = [user_id EXCEPT ![c] = u]
             /\ is_detached' = [is_detached EXCEPT ![c] = TRUE]
             /\ flag_closed' = [flag_closed EXCEPT ![c] = TRUE]
    BY <1>5 DEF ListenHandleMessage
<1>6. ASSUME NEW c \in Conns, OnListenClose(c)
      PROVE  /\ place[c] = "listen" /\ UNCHANGED <<user_id, hangup>>
             /\ flag_closed[c] \/ hangup[c]
             /\ \/ /\ is_detached' = [is_detached EXCEPT ![c] = FALSE]
                   /\ flag_closed' = [flag_closed EXCEPT ![c] = FALSE]
                   /\ place' = [place EXCEPT ![c] = "handover"]
                \/ /\ ~is_detached[c] /\ UNCHANGED <<is_detached, flag_closed>>
                   /\ place' = [place EXCEPT ![c] = "left"]
    BY <1>6 DEF OnListenClose, ClearedFlags
<1>7. ASSUME NEW c \in Conns, ListenRelease(c)
      PROVE  UNCHANGED <<flag_closed, place, is_detached, user_id, hangup>>
    BY <1>7 DEF ListenRelease
<1>8. ASSUME NEW c \in Conns, OnWorkerAddCtx(c)
      PROVE  /\ place[c] = "handover" /\ UNCHANGED <<is_detached, user_id, hangup>>
             /\ place' = [place EXCEPT ![c] = "worker"]
             /\ \/ InTable(user_id[c]) /\ UNCHANGED flag_closed
                \/ ~InTable(user_id[c]) /\ flag_closed' = [flag_closed EXCEPT ![c] = TRUE]
    BY <1>8 DEF OnWorkerAddCtx
<1>9. ASSUME NEW c \in Conns, OnWorkerClose(c)
      PROVE  /\ place[c] = "worker" /\ UNCHANGED <<flag_closed, is_detached, user_id, hangup>>
             /\ flag_closed[c] \/ hangup[c]
             /\ place' = [place EXCEPT ![c] = "left"]
    BY <1>9 DEF OnWorkerClose
<1>10. ASSUME NEW c \in Conns, NEW w \in Workers, WorkerRelease(w, c)
       PROVE  UNCHANGED <<flag_closed, place, is_detached, user_id, hangup>>
    BY <1>10 DEF WorkerRelease
<1>11. ASSUME NEW c \in Conns, PeerHangup(c)
       PROVE  /\ UNCHANGED <<flag_closed, place, is_detached, user_id>>
              /\ hangup' = [hangup EXCEPT ![c] = TRUE]
    BY <1>11 DEF PeerHangup
<1>12. CASE UNCHANGED vars
    BY <1>1, <1>12 DEF vars
<1>13. ASSUME NEW c \in Conns,
              \/ OnListenConnect(c) \/ OnListenClose(c) \/ OnWorkerAddCtx(c)
              \/ OnWorkerClose(c) \/ PeerHangup(c)
              \/ \E u \in UserIds : ListenHandleMessage(c, u),
              c # d
       PROVE  /\ flag_closed'[d] = flag_closed[d] /\ place'[d] = place[d]
              /\ is_detached'[d] = is_detached[d] /\ user_id'[d] = user_id[d]
              /\ hangup'[d] = hangup[d]
    BY <1>4, <1>5, <1>6, <1>8, <1>9, <1>11, <1>13 DEF TypeOK
<1>14. CASE OnListenConnect(d)
    BY <1>4, <1>14 DEF TypeOK, DropInv, ClosedInv
<1>15. CASE \E u \in UserIds : ListenHandleMessage(d, u)
    BY <1>5, <1>15 DEF TypeOK
<1>16. CASE OnListenClose(d)
    BY <1>6, <1>16 DEF TypeOK, DropInv, ClosedInv
<1>17. CASE OnWorkerAddCtx(d)
    BY <1>8, <1>17 DEF TypeOK, DropInv, ClosedInv
<1>18. CASE OnWorkerClose(d)
    BY <1>9, <1>18 DEF TypeOK, DropInv, ClosedInv
<1>19. CASE PeerHangup(d)
    BY <1>11, <1>19, DropUntouched DEF TypeOK
<1>20. ASSUME NEW c \in Conns, c # d,
              \/ OnListenConnect(c) \/ OnListenClose(c) \/ OnWorkerAddCtx(c)
              \/ OnWorkerClose(c) \/ PeerHangup(c)
              \/ \E u \in UserIds : ListenHandleMessage(c, u)
       PROVE  /\ flag_closed'[d] =>
                    \/ place'[d] = "listen" /\ is_detached'[d]
                    \/ place'[d] \in {"worker", "left"} /\ ~InTable(user_id'[d])
              /\ place'[d] = "left" /\ InTable(user_id'[d]) => hangup'[d]
    BY <1>13, <1>20, DropUntouched
<1> QED
    BY <1>1, <1>2, <1>3, <1>7, <1>10, <1>12, <1>14, <1>15, <1>16, <1>17, <1>18,
       <1>19, <1>20 DEF Next

\* The server hangs up on nobody it has a table entry for: the CLOSED flag that
\* takes a context out of the listener does not follow it to the worker
\* (on_listen_close, on_worker_add_ctx).
THEOREM HangsUpOnNobody == Spec => []DropsNobody
<1>1. Init => DropInv
    BY DEF Init, DropInv, ClosedInv, DropsNobody
<1>2. Inv /\ DropInv /\ [Next]_vars => DropInv'
    BY DropStep DEF Inv
<1>3. DropInv => DropsNobody
    BY DEF DropInv
<1> QED
    BY <1>1, <1>2, <1>3, InvHolds, PTL DEF Spec

=============================================================================
