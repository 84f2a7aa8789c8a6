---------------------------- MODULE ClientProofs ----------------------------
(***************************************************************************)
(* The client, for every number of rounds, orders and responses, under the *)
(* one hypothesis NoWrap.                                                  *)
(*                                                                         *)
(*   - TypeInv: rounds are sent whole, so a round that is due fits in the  *)
(*     loaded orders; what the exchange has not finished is sorted by      *)
(*     responses, so dropping a finished prefix leaves no finished order.  *)
(*   - RunInv, while nothing is lost and no foreign response has come: the *)
(*     orders are cut in three by their numbers, those on their way up,    *)
(*     those the exchange has, and those it has done with.  The first      *)
(*     response of an order it has answered is kept or on its way, and the *)
(*     last response of the last order is the last frame of all.           *)
(*                                                                         *)
(* CompletedIsComplete is not inductive without all of these: the client   *)
(* looks at the last order alone.                                          *)
(***************************************************************************)
EXTENDS Client, SequenceTheorems, TLAPS

\* The product of the arguments fits its counter.  Beyond it main compares the
\* remainder with the orders it has loaded, and a round reads past them.
NoWrap == round * order_per_round < Uint32

-----------------------------------------------------------------------------
(* The invariant.                                                           *)

Responses == [type : {"RSP_ORDER"}, coid : Nat, tmpl : Loaded \cup {0}, rsp_cnt : 0..MaxRsp]

\* Rounds are sent whole.
RoundsInv == \E k \in 0..round : curr_idx = k * order_per_round

\* What the exchange has not finished, and the first come was answered most.
PendingInv ==
    /\ pending \in Seq(Responses)
    /\ \A i \in DOMAIN pending : pending[i].rsp_cnt < MaxRsp
    /\ \A i, j \in DOMAIN pending : i < j => pending[i].rsp_cnt >= pending[j].rsp_cnt

\* A client without enough orders never connects; before it has connected there
\* is nothing on the way.
ConnectInv ==
    /\ ~Enough => exited /\ ctx = "null"
    /\ ctx = "null" => ~is_login /\ wire_up = <<>> /\ pending = <<>> /\ wire_down = <<>>

TypeInv == TypeOK /\ RoundsInv /\ PendingInv /\ ConnectInv

\* No order was lost and no response is another client's.
Clean == lost = 0 /\ foreign = 0

\* Until the login is answered it is the only frame there is.
LoginInv ==
    ~is_login =>
        /\ curr_idx = 0 /\ pending = <<>> /\ ~finished
        /\ Len(wire_up) + Len(wire_down) <= 1
        /\ \A i \in DOMAIN wire_up : wire_up[i].type = "REQ_LOGIN"
        /\ \A i \in DOMAIN wire_down : wire_down[i].type = "RSP_LOGIN"

\* The orders below Taken have reached the exchange, those below Done have all
\* their responses on the way.
Taken == curr_idx - Len(wire_up)
Done == Taken - Len(pending)

\* The orders are numbered in the order they are sent in.
NumberInv ==
    /\ Done >= 0
    /\ \A i \in DOMAIN wire_up :
          wire_up[i].type = "REQ_ORDER" /\ wire_up[i].coid = Taken + i - 1
    /\ \A i \in DOMAIN pending : pending[i].coid = Done + i - 1
    /\ \A i \in DOMAIN wire_down :
          wire_down[i].type = "RSP_ORDER" /\ wire_down[i].coid < Taken

\* The first response of an order that has had one is kept or on its way.
Answered(o) ==
    o < Done \/ \E i \in DOMAIN pending : pending[i].coid = o /\ pending[i].rsp_cnt >= 1
KeptInv ==
    \A o \in 0..(max_idx - 1) : Answered(o) =>
        \/ orders[o].rsp_cnt = 1
        \/ \E i \in DOMAIN wire_down : wire_down[i].coid = o /\ wire_down[i].rsp_cnt = 1

\* The last response of the last order is the last frame of all.
LastInv ==
    /\ \A i \in DOMAIN wire_down :
          wire_down[i].coid = max_idx - 1 /\ wire_down[i].rsp_cnt = MaxRsp =>
              i = Len(wire_down) /\ Done = max_idx
    /\ finished => Done = max_idx /\ wire_down = <<>>

RunInv ==
    Clean => /\ LoginInv
             /\ is_login => NumberInv /\ KeptInv /\ LastInv

IInv == TypeInv /\ RunInv


-----------------------------------------------------------------------------
(* Sequences and numbers.                                                   *)

LEMMA AppendFacts ==
    ASSUME NEW S, NEW s \in Seq(S), NEW e \in S
    PROVE  /\ Append(s, e) \in Seq(S)
           /\ Len(s) \in Nat /\ Len(Append(s, e)) = Len(s) + 1
           /\ DOMAIN s = 1..Len(s) /\ DOMAIN Append(s, e) = 1..(Len(s) + 1)
           /\ \A i \in 1..Len(s) : Append(s, e)[i] = s[i]
           /\ Append(s, e)[Len(s) + 1] = e
BY AppendProperties, LenProperties

LEMMA TailFacts ==
    ASSUME NEW S, NEW s \in Seq(S), s # <<>>
    PROVE  /\ Tail(s) \in Seq(S)
           /\ Len(s) \in Nat \ {0} /\ Len(Tail(s)) = Len(s) - 1
           /\ DOMAIN s = 1..Len(s) /\ DOMAIN Tail(s) = 1..(Len(s) - 1)
           /\ \A i \in 1..(Len(s) - 1) : Tail(s)[i] = s[i + 1]
           /\ Head(s) = s[1] /\ Head(s) \in S /\ s[1] \in S
BY HeadTailProperties, LenProperties, EmptySeq, ElementOfSeq

LEMMA ConcatFacts ==
    ASSUME NEW S, NEW s \in Seq(S), NEW t \in Seq(S)
    PROVE  /\ s \o t \in Seq(S)
           /\ Len(s) \in Nat /\ Len(t) \in Nat /\ Len(s \o t) = Len(s) + Len(t)
           /\ DOMAIN s = 1..Len(s) /\ DOMAIN t = 1..Len(t)
           /\ DOMAIN (s \o t) = 1..(Len(s) + Len(t))
           /\ \A i \in 1..Len(s) : (s \o t)[i] = s[i]
           /\ \A i \in 1..Len(t) : (s \o t)[Len(s) + i] = t[i]
<1>1. /\ s \o t \in Seq(S)
      /\ Len(s) \in Nat /\ Len(t) \in Nat /\ Len(s \o t) = Len(s) + Len(t)
      /\ DOMAIN s = 1..Len(s) /\ DOMAIN t = 1..Len(t)
      /\ DOMAIN (s \o t) = 1..Len(s \o t)
    BY ConcatProperties, LenProperties
<1>2. \A i \in 1..(Len(s) + Len(t)) :
          (s \o t)[i] = IF i <= Len(s) THEN s[i] ELSE t[i - Len(s)]
    BY <1>1, ConcatProperties
<1>3. \A i \in 1..Len(t) : (s \o t)[Len(s) + i] = t[i]
    <2> TAKE i \in 1..Len(t)
    <2>1. Len(s) + i \in 1..(Len(s) + Len(t)) /\ ~(Len(s) + i <= Len(s)) /\ Len(s) + i - Len(s) = i
        BY <1>1
    <2> QED
        BY <1>2, <2>1
<1>4. \A i \in 1..Len(s) : (s \o t)[i] = s[i]
    BY <1>1, <1>2
<1> QED
    BY <1>1, <1>3, <1>4

\* What is left of a sequence when its first n elements are dropped.
LEMMA DropFacts ==
    ASSUME NEW S, NEW s \in Seq(S), NEW n \in Nat, n <= Len(s)
    PROVE  LET t == SubSeq(s, n + 1, Len(s)) IN
           /\ t \in Seq(S)
           /\ Len(s) \in Nat /\ Len(t) = Len(s) - n
           /\ DOMAIN s = 1..Len(s) /\ DOMAIN t = 1..(Len(s) - n)
           /\ \A i \in 1..(Len(s) - n) : t[i] = s[i + n]
<1>1. Len(s) \in Nat /\ DOMAIN s = 1..Len(s)
    BY LenProperties
<1>2. \A i \in (n + 1)..Len(s) : s[i] \in S
    BY <1>1, ElementOfSeq
<1> DEFINE t == SubSeq(s, n + 1, Len(s))
<1>3. /\ t \in Seq(S)
      /\ Len(t) = IF n + 1 <= Len(s) THEN Len(s) - (n + 1) + 1 ELSE 0
      /\ \A i \in 1..(Len(s) - (n + 1) + 1) : t[i] = s[(n + 1) + i - 1]
    BY <1>1, <1>2, SubSeqProperties
<1> HIDE DEF t
<1>4. Len(t) = Len(s) - n
    <2>1. Len(t) = IF n + 1 <= Len(s) THEN Len(s) - (n + 1) + 1 ELSE 0
        BY <1>3
    <2>2. PICK L \in Nat : L = Len(s)
        BY <1>1
    <2>3. n <= L
        BY <2>2
    <2>4. Len(t) = IF n + 1 <= L THEN L - (n + 1) + 1 ELSE 0
        BY <2>1, <2>2
    <2>5. Len(t) = L - n
        BY <2>3, <2>4
    <2> QED
        BY <2>2, <2>5
<1>5. \A i \in 1..(Len(s) - n) : t[i] = s[i + n]
    <2> TAKE i \in 1..(Len(s) - n)
    <2>1. i \in 1..(Len(s) - (n + 1) + 1) /\ (n + 1) + i - 1 = i + n
        BY <1>1
    <2> QED
        BY <1>3, <2>1
<1>6. DOMAIN t = 1..Len(t)
    BY <1>3, LenProperties
<1> QED
    BY <1>1, <1>3, <1>4, <1>5, <1>6 DEF t

LEMMA Products ==
    ASSUME NEW a \in Nat, NEW b \in Nat, NEW c \in Nat
    PROVE  /\ a * c \in Nat
           /\ (a + 1) * c = a * c + c
           /\ a <= b => a * c <= b * c
BY SMT

LEMMA MaxIdx ==
    ASSUME NoWrap
    PROVE  max_idx = round * order_per_round /\ max_idx \in Nat /\ max_idx < Uint32
<1>1. round * order_per_round \in Nat
    BY SizesAssumption, Products
<1> QED
    BY <1>1, SizesAssumption DEF NoWrap, max_idx

-----------------------------------------------------------------------------
(* The types.                                                               *)

\* A response read off a wire has a response's fields.
LEMMA FrameFacts ==
    ASSUME NEW f \in Frame
    PROVE  /\ f.type = "RSP_ORDER" => f \in Responses
           /\ f.type = "REQ_ORDER" => f.coid \in Nat /\ f.tmpl \in Loaded
BY DEF Frame, Responses

LEMMA ResponseFacts ==
    /\ Responses \subseteq Frame
    /\ Seq(Responses) \subseteq Seq(Frame)
    /\ \A r \in Responses : /\ r.type = "RSP_ORDER" /\ r.coid \in Nat
                            /\ r.tmpl \in Loaded \cup {0}
                            /\ r.rsp_cnt \in Nat /\ r.rsp_cnt <= MaxRsp
<1>1. Responses \subseteq Frame
    BY DEF Frame, Responses
<1>2. \A r \in Responses : /\ r.type = "RSP_ORDER" /\ r.coid \in Nat
                           /\ r.tmpl \in Loaded \cup {0}
                           /\ r.rsp_cnt \in Nat /\ r.rsp_cnt <= MaxRsp
    BY SizesAssumption DEF Responses
<1> QED
    BY <1>1, <1>2, SeqMonotonic

\* A round that is due fits in the loaded orders and in the counter.
LEMMA RoundFacts ==
    ASSUME NoWrap, TypeInv, ctx = "open", curr_idx < max_idx
    PROVE  /\ curr_idx \in Nat /\ order_per_round \in 1..total_orders
           /\ curr_idx + order_per_round <= max_idx
           /\ (curr_idx + order_per_round) % Uint32 = curr_idx + order_per_round
           /\ \E k \in 0..round : curr_idx + order_per_round = k * order_per_round
<1>1. max_idx = round * order_per_round /\ max_idx \in Nat /\ max_idx < Uint32
    BY MaxIdx
<1>2. PICK k \in 0..round : curr_idx = k * order_per_round
    BY DEF TypeInv, RoundsInv
<1>3. k \in Nat /\ round \in Nat /\ order_per_round \in Nat /\ k <= round
      /\ total_orders \in Nat /\ Uint32 \in Nat
    BY SizesAssumption
<1>4. k + 1 <= round
    <2>1. k # round
        BY <1>1, <1>2
    <2> QED
        BY <1>3, <2>1
<1>5. curr_idx \in Nat /\ (k + 1) * order_per_round = curr_idx + order_per_round
    BY <1>2, <1>3, Products
<1>6. curr_idx + order_per_round <= max_idx
    <2>1. k + 1 \in Nat
        BY <1>3
    <2>2. (k + 1) * order_per_round <= round * order_per_round
        BY <1>3, <1>4, <2>1, Products
    <2> QED
        BY <1>1, <1>5, <2>2
<1>7. max_idx <= total_orders
    BY DEF TypeInv, ConnectInv, Enough
<1>8. order_per_round # 0
    <2>1. order_per_round = 0 => round * order_per_round = 0
        BY <1>3
    <2> QED
        BY <1>1, <1>5, <2>1
<1>9. (curr_idx + order_per_round) % Uint32 = curr_idx + order_per_round
    BY <1>1, <1>3, <1>5, <1>6
<1>10. order_per_round \in 1..total_orders
    BY <1>1, <1>3, <1>5, <1>6, <1>7, <1>8
<1>11. k + 1 \in 0..round
    BY <1>3, <1>4
<1> QED
    BY <1>5, <1>6, <1>9, <1>10, <1>11

LEMMA RoundOfFacts ==
    ASSUME NoWrap, TypeInv, ctx = "open", curr_idx < max_idx
    PROVE  /\ RoundOf(curr_idx) \in Seq(Frame)
           /\ Len(RoundOf(curr_idx)) = order_per_round
           /\ \A i \in 1..order_per_round :
                 /\ RoundOf(curr_idx)[i].type = "REQ_ORDER"
                 /\ RoundOf(curr_idx)[i].coid = curr_idx + i - 1
<1>1. curr_idx \in Nat /\ order_per_round \in 1..total_orders
    BY RoundFacts
<1>2. total_orders \in Nat
    BY SizesAssumption
<1> DEFINE R == [i \in 1..order_per_round |->
                    [type |-> "REQ_ORDER", coid |-> curr_idx + i - 1,
                     tmpl |-> orders[i - 1].tmpl]]
<1>3. RoundOf(curr_idx) = R
    <2>1. \A i \in 1..order_per_round : i - 1 \in Loaded
        BY <1>1, <1>2 DEF Loaded
    <2>2. PICK m \in Nat : m = max_idx /\ m < Uint32
        BY MaxIdx, SizesAssumption
    <2>3. curr_idx + order_per_round <= max_idx
        BY RoundFacts
    <2>4. ASSUME NEW i \in 1..order_per_round
          PROVE  (curr_idx + i - 1) % Uint32 = curr_idx + i - 1
        <3>1. curr_idx + i - 1 \in Nat /\ curr_idx + i - 1 < Uint32
            BY <1>1, <2>2, <2>3, SizesAssumption
        <3> QED
            BY <3>1, SizesAssumption
    <2> QED
        BY <2>1, <2>4 DEF RoundOf
<1>4. ASSUME NEW i \in 1..order_per_round
      PROVE  [type |-> "REQ_ORDER", coid |-> curr_idx + i - 1, tmpl |-> orders[i - 1].tmpl] \in Frame
    <2>1. i - 1 \in Loaded
        BY <1>1, <1>2 DEF Loaded
    <2>2. orders[i - 1].tmpl \in Loaded
        BY <2>1 DEF TypeInv, TypeOK
    <2>3. curr_idx + i - 1 \in Nat
        BY <1>1
    <2> QED
        BY <2>2, <2>3 DEF Frame
<1>5. R \in Seq(Frame)
    BY <1>1, <1>4, IsASeq
<1>6. Len(R) = order_per_round
    BY <1>1, <1>5, LenProperties
<1>7. \A i \in 1..order_per_round : R[i].type = "REQ_ORDER" /\ R[i].coid = curr_idx + i - 1
    OBVIOUS
<1> HIDE DEF R
<1> QED
    BY <1>3, <1>5, <1>6, <1>7

\* The exchange's round: every order answered once more, the finished ones gone.
LEMMA ServerRoundFacts ==
    ASSUME TypeInv, ServerRound
    PROVE  \E answers \in Seq(Responses), n \in Nat :
              /\ Len(answers) = Len(pending) /\ n <= Len(pending)
              /\ \A i \in 1..Len(pending) : /\ answers[i].coid = pending[i].coid
                                            /\ answers[i].rsp_cnt = pending[i].rsp_cnt + 1
              /\ \A i, j \in 1..Len(pending) :
                    i <= j => answers[i].rsp_cnt >= answers[j].rsp_cnt
              /\ \A i \in 1..n : answers[i].rsp_cnt >= MaxRsp
              /\ n < Len(pending) => answers[n + 1].rsp_cnt < MaxRsp
              /\ wire_down' = wire_down \o answers
              /\ pending' = SubSeq(answers, n + 1, Len(answers))
<1> DEFINE answers == [i \in DOMAIN pending |-> [pending[i] EXCEPT !.rsp_cnt = @ + 1]]
<1>1. Len(pending) \in Nat /\ DOMAIN pending = 1..Len(pending)
    BY LenProperties DEF TypeInv, PendingInv
<1>2. ASSUME NEW i \in 1..Len(pending)
      PROVE  /\ [pending[i] EXCEPT !.rsp_cnt = @ + 1] \in Responses
             /\ [pending[i] EXCEPT !.rsp_cnt = @ + 1].coid = pending[i].coid
             /\ [pending[i] EXCEPT !.rsp_cnt = @ + 1].rsp_cnt = pending[i].rsp_cnt + 1
    <2>1. pending[i] \in Responses /\ pending[i].rsp_cnt < MaxRsp
        BY <1>1, ElementOfSeq DEF TypeInv, PendingInv
    <2>2. pending[i].rsp_cnt + 1 \in 0..MaxRsp
        BY <2>1, ResponseFacts, SizesAssumption
    <2> QED
        BY <2>1, <2>2 DEF Responses
<1>3. answers \in Seq(Responses)
    BY <1>1, <1>2, IsASeq
<1>4. Len(answers) = Len(pending)
    BY <1>1, <1>3, LenProperties
<1>5. \A i \in 1..Len(pending) : /\ answers[i].coid = pending[i].coid
                                 /\ answers[i].rsp_cnt = pending[i].rsp_cnt + 1
    BY <1>1, <1>2
<1>6. \A i \in 1..Len(pending) : pending[i].rsp_cnt \in Nat
    BY <1>1, ElementOfSeq, ResponseFacts DEF TypeInv, PendingInv
<1>7. ASSUME NEW i \in 1..Len(pending), NEW j \in 1..Len(pending), i <= j
      PROVE  answers[i].rsp_cnt >= answers[j].rsp_cnt
    <2>1. i < j => pending[i].rsp_cnt >= pending[j].rsp_cnt
        BY <1>1 DEF TypeInv, PendingInv
    <2>2. pending[i].rsp_cnt \in Nat /\ pending[j].rsp_cnt \in Nat
        BY <1>6
    <2>3. i = j \/ i < j
        BY <1>1, <1>7
    <2>4. pending[i].rsp_cnt >= pending[j].rsp_cnt
        BY <2>1, <2>2, <2>3
    <2>5. /\ answers[i].rsp_cnt = pending[i].rsp_cnt + 1
          /\ answers[j].rsp_cnt = pending[j].rsp_cnt + 1
        BY <1>5
    <2> QED
        BY <2>2, <2>4, <2>5
<1>8. \E n \in 0..Len(answers) :
         /\ \A i \in 1..n : answers[i].rsp_cnt >= MaxRsp
         /\ n < Len(answers) => answers[n + 1].rsp_cnt < MaxRsp
         /\ pending' = SubSeq(answers, n + 1, Len(answers))
    BY Zenon DEF ServerRound
<1>9. wire_down' = wire_down \o answers
    BY Zenon DEF ServerRound
<1> HIDE DEF answers
<1>10. PICK n \in 0..Len(answers) :
          /\ \A i \in 1..n : answers[i].rsp_cnt >= MaxRsp
          /\ n < Len(answers) => answers[n + 1].rsp_cnt < MaxRsp
          /\ pending' = SubSeq(answers, n + 1, Len(answers))
    BY <1>8
<1>11. n \in Nat /\ n <= Len(pending)
    BY <1>1, <1>4
<1> QED
    BY <1>3, <1>4, <1>5, <1>7, <1>9, <1>10, <1>11

LEMMA TypeInit == NoWrap /\ Init => TypeInv
<1> SUFFICES ASSUME NoWrap, Init PROVE TypeInv
    OBVIOUS
<1>1. TypeOK
    <2>1. \A i \in Loaded : [tmpl |-> i, rsp_cnt |-> 0] \in [tmpl : Loaded, rsp_cnt : {0, 1}]
        OBVIOUS
    <2>2. 0 \in 0..(Uint32 - 1) /\ 0 \in 0..MaxLost /\ 0 \in 0..MaxForeign
        BY SizesAssumption
    <2>3. <<>> \in Seq(Frame)
        BY EmptySeq
    <2> QED
        BY <2>1, <2>2, <2>3 DEF Init, TypeOK
<1>2. RoundsInv
    <2>1. 0 \in 0..round /\ 0 = 0 * order_per_round
        BY SizesAssumption
    <2> QED
        BY <2>1 DEF Init, RoundsInv
<1>3. PendingInv
    BY EmptySeq DEF Init, PendingInv
<1>4. ConnectInv
    BY DEF Init, ConnectInv
<1> QED
    BY <1>1, <1>2, <1>3, <1>4 DEF TypeInv

LEMMA TypeOnAddCtx ==
    ASSUME TypeInv, OnAddCtx
    PROVE  TypeInv'
<1>1. wire_up' \in Seq(Frame)
    <2>1. [type |-> "REQ_LOGIN"] \in Frame
        BY DEF Frame
    <2> QED
        BY <2>1, AppendFacts DEF OnAddCtx, TypeInv, TypeOK
<1>2. TypeOK'
    BY <1>1 DEF OnAddCtx, TypeInv, TypeOK
<1>3. ConnectInv'
    BY DEF OnAddCtx, Running, TypeInv, ConnectInv
<1> QED
    BY <1>2, <1>3 DEF OnAddCtx, TypeInv, RoundsInv, PendingInv

LEMMA TypeHandleRspLogin ==
    ASSUME TypeInv, HandleRspLogin
    PROVE  TypeInv'
<1>1. wire_down' \in Seq(Frame)
    BY TailFacts DEF HandleRspLogin, Receiving, TypeInv, TypeOK
<1>2. TypeOK'
    BY <1>1 DEF HandleRspLogin, TypeInv, TypeOK
<1>3. ConnectInv'
    BY DEF HandleRspLogin, Receiving, Running, TypeInv, ConnectInv
<1> QED
    BY <1>2, <1>3 DEF HandleRspLogin, TypeInv, RoundsInv, PendingInv

\* The slots are those of the loaded orders.
LEMMA SlotFacts ==
    ASSUME NoWrap, TypeInv, ctx = "open", NEW o \in Nat, o < max_idx
    PROVE  o \in Loaded /\ 0 \in Loaded
<1>1. max_idx \in Nat /\ max_idx <= total_orders /\ total_orders \in Nat
    BY MaxIdx, SizesAssumption DEF TypeInv, ConnectInv, Enough
<1> QED
    BY <1>1 DEF Loaded

LEMMA RecordedFacts ==
    ASSUME NoWrap, TypeInv, ctx = "open", NEW r \in Responses, r.coid < max_idx
    PROVE  /\ Recorded(r) \in [Loaded -> [tmpl : Loaded, rsp_cnt : {0, 1}]]
           /\ \A o \in Loaded : Recorded(r)[o].rsp_cnt =
                 IF o = r.coid /\ r.rsp_cnt = 1 THEN 1 ELSE orders[o].rsp_cnt
<1>1. r.coid \in Loaded /\ r.tmpl \in Loaded
    BY ResponseFacts, SlotFacts
<1>2. [tmpl |-> r.tmpl, rsp_cnt |-> 1] \in [tmpl : Loaded, rsp_cnt : {0, 1}]
    BY <1>1
<1>3. orders \in [Loaded -> [tmpl : Loaded, rsp_cnt : {0, 1}]]
    BY DEF TypeInv, TypeOK
<1>4. CASE r.rsp_cnt = 1
    <2>1. Recorded(r) = [orders EXCEPT ![r.coid] = [tmpl |-> r.tmpl, rsp_cnt |-> 1]]
        BY <1>4 DEF Recorded
    <2> QED
        BY <1>1, <1>2, <1>3, <1>4, <2>1
<1>5. CASE r.rsp_cnt # 1
    BY <1>3, <1>5 DEF Recorded
<1> QED
    BY <1>4, <1>5

LEMMA HandleRspOrderFacts ==
    ASSUME NoWrap, TypeInv, HandleRspOrder
    PROVE  /\ ctx = "open" /\ wire_down # <<>> /\ wire_down' = Tail(wire_down)
           /\ wire_down[1] \in Responses /\ Head(wire_down) = wire_down[1]
           /\ \/ /\ wire_down[1].coid >= max_idx
                 /\ UNCHANGED <<orders, finished>>
              \/ /\ wire_down[1].coid < max_idx
                 /\ orders' = Recorded(wire_down[1])
                 /\ finished' = (finished \/ Completes(wire_down[1]))
<1>1. ctx = "open" /\ wire_down # <<>> /\ wire_down' = Tail(wire_down)
    BY DEF HandleRspOrder, Receiving
<1>2. Head(wire_down) = wire_down[1] /\ wire_down[1] \in Frame
    BY <1>1, TailFacts DEF TypeInv, TypeOK
<1>3. wire_down[1] \in Responses
    BY <1>2, FrameFacts DEF HandleRspOrder, Receiving
<1> QED
    BY <1>1, <1>2, <1>3 DEF HandleRspOrder

LEMMA TypeHandleRspOrder ==
    ASSUME NoWrap, TypeInv, HandleRspOrder
    PROVE  TypeInv'
<1>1. wire_down' \in Seq(Frame)
    BY TailFacts DEF HandleRspOrder, Receiving, TypeInv, TypeOK
<1>2. orders' \in [Loaded -> [tmpl : Loaded, rsp_cnt : {0, 1}]]
    <2>1. orders \in [Loaded -> [tmpl : Loaded, rsp_cnt : {0, 1}]]
        BY DEF TypeInv, TypeOK
    <2>2. PICK r \in Responses : r = wire_down[1]
        BY HandleRspOrderFacts
    <2>3. CASE orders' = orders
        BY <2>1, <2>3
    <2>4. CASE r.coid < max_idx /\ orders' = Recorded(r)
        BY <2>4, HandleRspOrderFacts, RecordedFacts
    <2> QED
        BY <2>2, <2>3, <2>4, HandleRspOrderFacts
<1>3. finished' \in BOOLEAN
    <2>1. finished \in BOOLEAN
        BY DEF TypeInv, TypeOK
    <2>2. finished' = finished \/ finished' = (finished \/ Completes(wire_down[1]))
        BY HandleRspOrderFacts
    <2> QED
        BY <2>1, <2>2, Zenon
<1>4. TypeOK'
    BY <1>1, <1>2, <1>3 DEF HandleRspOrder, TypeInv, TypeOK
<1>5. ConnectInv'
    BY DEF HandleRspOrder, Receiving, Running, TypeInv, ConnectInv
<1> QED
    BY <1>4, <1>5 DEF HandleRspOrder, TypeInv, RoundsInv, PendingInv

LEMMA TypeOnTimerRound ==
    ASSUME NoWrap, TypeInv, OnTimerRound
    PROVE  TypeInv'
<1>1. ctx = "open" /\ curr_idx < max_idx
    BY DEF OnTimerRound, MayStart
<1>2. wire_up' \in Seq(Frame)
    <2>1. RoundOf(curr_idx) \in Seq(Frame)
        BY <1>1, RoundOfFacts
    <2> QED
        BY <2>1, ConcatFacts DEF OnTimerRound, TypeInv, TypeOK
<1>3. curr_idx' = curr_idx + order_per_round
    BY <1>1, RoundFacts DEF OnTimerRound
<1>4. curr_idx' \in 0..(Uint32 - 1)
    <2>1. curr_idx + order_per_round <= max_idx /\ curr_idx \in Nat /\ order_per_round \in Nat
        BY <1>1, RoundFacts, SizesAssumption
    <2>2. max_idx < Uint32 /\ max_idx \in Nat /\ Uint32 \in Nat
        BY MaxIdx, SizesAssumption
    <2> QED
        BY <1>3, <2>1, <2>2
<1>5. TypeOK'
    BY <1>2, <1>4 DEF OnTimerRound, TypeInv, TypeOK
<1>6. RoundsInv'
    BY <1>1, <1>3, RoundFacts DEF RoundsInv
<1>7. ConnectInv'
    BY <1>1 DEF OnTimerRound, Running, TypeInv, ConnectInv
<1> QED
    BY <1>5, <1>6, <1>7 DEF OnTimerRound, TypeInv, PendingInv

LEMMA TypeExits ==
    ASSUME TypeInv, OnTimerExit \/ OnRelease
    PROVE  TypeInv'
<1>1. TypeOK'
    BY DEF OnTimerExit, OnRelease, serverVars, TypeInv, TypeOK
<1>2. ConnectInv'
    BY DEF OnTimerExit, OnRelease, MayStart, Running, serverVars, TypeInv, ConnectInv
<1> QED
    BY <1>1, <1>2 DEF OnTimerExit, OnRelease, serverVars, TypeInv, RoundsInv, PendingInv

LEMMA TypeServerLogin ==
    ASSUME TypeInv, ServerLogin
    PROVE  TypeInv'
<1>1. wire_up' \in Seq(Frame) /\ wire_down' \in Seq(Frame)
    <2>1. [type |-> "RSP_LOGIN"] \in Frame
        BY DEF Frame
    <2> QED
        BY <2>1, AppendFacts, TailFacts DEF ServerLogin, TypeInv, TypeOK
<1>2. TypeOK'
    BY <1>1 DEF ServerLogin, clientVars, TypeInv, TypeOK
<1>3. ConnectInv'
    BY DEF ServerLogin, clientVars, TypeInv, ConnectInv
<1> QED
    BY <1>2, <1>3 DEF ServerLogin, clientVars, TypeInv, RoundsInv, PendingInv

LEMMA ServerOrderFacts ==
    ASSUME TypeInv, ServerOrder
    PROVE  LET r == [type |-> "RSP_ORDER", coid |-> wire_up[1].coid,
                     tmpl |-> wire_up[1].tmpl, rsp_cnt |-> 0] IN
           /\ wire_up # <<>> /\ wire_up[1].coid \in Nat
           /\ wire_up' = Tail(wire_up)
           /\ r \in Responses
           /\ pending' = Append(pending, r)
<1>1. wire_up # <<>> /\ Head(wire_up) = wire_up[1] /\ wire_up[1] \in Frame
    BY TailFacts DEF ServerOrder, TypeInv, TypeOK
<1>2. wire_up[1].coid \in Nat /\ wire_up[1].tmpl \in Loaded
    BY <1>1, FrameFacts DEF ServerOrder
<1>3. 0 \in 0..MaxRsp
    BY SizesAssumption
<1> QED
    BY <1>1, <1>2, <1>3 DEF ServerOrder, Responses

LEMMA TypeServerOrder ==
    ASSUME TypeInv, ServerOrder
    PROVE  TypeInv'
<1> DEFINE r == [type |-> "RSP_ORDER", coid |-> wire_up[1].coid,
                 tmpl |-> wire_up[1].tmpl, rsp_cnt |-> 0]
<1>1. /\ wire_up # <<>> /\ wire_up' = Tail(wire_up)
      /\ r \in Responses /\ r.rsp_cnt = 0 /\ pending' = Append(pending, r)
    BY ServerOrderFacts
<1> HIDE DEF r
<1>2. wire_up' \in Seq(Frame)
    BY <1>1, TailFacts DEF TypeInv, TypeOK
<1>3. /\ pending \in Seq(Responses) /\ pending' \in Seq(Responses)
      /\ Len(pending) \in Nat
      /\ DOMAIN pending = 1..Len(pending) /\ DOMAIN pending' = 1..(Len(pending) + 1)
      /\ \A i \in 1..Len(pending) : pending'[i] = pending[i]
      /\ pending'[Len(pending) + 1] = r
    BY <1>1, AppendFacts DEF TypeInv, PendingInv
<1>4. \A i \in DOMAIN pending : pending[i].rsp_cnt \in Nat /\ pending[i].rsp_cnt < MaxRsp
    BY <1>3, ElementOfSeq, ResponseFacts DEF TypeInv, PendingInv
<1>5. PendingInv'
    <2>1. ASSUME NEW i \in 1..(Len(pending) + 1)
          PROVE  pending'[i].rsp_cnt < MaxRsp /\ pending'[i].rsp_cnt \in Nat
        <3>1. CASE i = Len(pending) + 1
            BY <1>1, <1>3, <3>1, SizesAssumption
        <3>2. CASE i # Len(pending) + 1
            <4>1. i \in 1..Len(pending)
                BY <1>3, <3>2
            <4> QED
                BY <1>3, <1>4, <4>1
        <3> QED
            BY <3>1, <3>2
    <2>2. ASSUME NEW i \in 1..(Len(pending) + 1), NEW j \in 1..(Len(pending) + 1), i < j
          PROVE  pending'[i].rsp_cnt >= pending'[j].rsp_cnt
        <3>1. i \in 1..Len(pending)
            BY <1>3, <2>2
        <3>2. CASE j = Len(pending) + 1
            <4>1. pending'[j].rsp_cnt = 0
                BY <1>1, <1>3, <3>2
            <4>2. pending'[i].rsp_cnt \in Nat
                BY <2>1
            <4> QED
                BY <4>1, <4>2
        <3>3. CASE j # Len(pending) + 1
            <4>1. j \in 1..Len(pending)
                BY <1>3, <3>3
            <4>2. pending[i].rsp_cnt >= pending[j].rsp_cnt
                BY <1>3, <2>2, <3>1, <4>1 DEF TypeInv, PendingInv
            <4> QED
                BY <1>3, <3>1, <4>1, <4>2
        <3> QED
            BY <3>2, <3>3
    <2> QED
        BY <1>3, <2>1, <2>2 DEF PendingInv
<1>6. TypeOK'
    BY <1>2, <1>3, ResponseFacts DEF ServerOrder, clientVars, TypeInv, TypeOK
<1>7. ConnectInv'
    BY DEF ServerOrder, clientVars, TypeInv, ConnectInv
<1> QED
    BY <1>5, <1>6, <1>7 DEF ServerOrder, clientVars, TypeInv, RoundsInv

LEMMA TypeServerLosesOrder ==
    ASSUME TypeInv, ServerLosesOrder
    PROVE  TypeInv'
<1>1. wire_up' \in Seq(Frame)
    BY TailFacts DEF ServerLosesOrder, TypeInv, TypeOK
<1>2. lost' \in 0..MaxLost
    BY SizesAssumption DEF ServerLosesOrder, TypeInv, TypeOK
<1>3. TypeOK'
    BY <1>1, <1>2 DEF ServerLosesOrder, clientVars, TypeInv, TypeOK
<1>4. ConnectInv'
    BY DEF ServerLosesOrder, clientVars, TypeInv, ConnectInv
<1> QED
    BY <1>3, <1>4 DEF ServerLosesOrder, clientVars, TypeInv, RoundsInv, PendingInv

LEMMA TypeServerForeignRsp ==
    ASSUME NoWrap, TypeInv, NEW coid \in 0..max_idx, NEW cnt \in 1..MaxRsp,
           ServerForeignRsp(coid, cnt)
    PROVE  TypeInv'
<1>1. wire_down' \in Seq(Frame)
    <2>1. coid \in Nat /\ cnt \in 0..MaxRsp
        BY MaxIdx, SizesAssumption
    <2>2. [type |-> "RSP_ORDER", coid |-> coid, tmpl |-> 0, rsp_cnt |-> cnt] \in Frame
        BY <2>1 DEF Frame
    <2> QED
        BY <2>2, AppendFacts DEF ServerForeignRsp, TypeInv, TypeOK
<1>2. foreign' \in 0..MaxForeign
    BY SizesAssumption DEF ServerForeignRsp, TypeInv, TypeOK
<1>3. TypeOK'
    BY <1>1, <1>2 DEF ServerForeignRsp, clientVars, TypeInv, TypeOK
<1>4. ConnectInv'
    BY DEF ServerForeignRsp, clientVars, TypeInv, ConnectInv
<1> QED
    BY <1>3, <1>4 DEF ServerForeignRsp, clientVars, TypeInv, RoundsInv, PendingInv

LEMMA TypeServerRound ==
    ASSUME TypeInv, ServerRound
    PROVE  TypeInv'
<1>1. PICK answers \in Seq(Responses), n \in Nat :
         /\ Len(answers) = Len(pending) /\ n <= Len(pending)
         /\ \A i \in 1..Len(pending) : /\ answers[i].coid = pending[i].coid
                                       /\ answers[i].rsp_cnt = pending[i].rsp_cnt + 1
         /\ \A i, j \in 1..Len(pending) :
               i <= j => answers[i].rsp_cnt >= answers[j].rsp_cnt
         /\ \A i \in 1..n : answers[i].rsp_cnt >= MaxRsp
         /\ n < Len(pending) => answers[n + 1].rsp_cnt < MaxRsp
         /\ wire_down' = wire_down \o answers
         /\ pending' = SubSeq(answers, n + 1, Len(answers))
    BY ServerRoundFacts
<1>2. Len(pending) \in Nat /\ DOMAIN pending = 1..Len(pending) /\ n \in Nat /\ n <= Len(pending)
    BY <1>1, LenProperties DEF TypeInv, PendingInv
<1>3. /\ pending' \in Seq(Responses) /\ DOMAIN pending' = 1..(Len(pending) - n)
      /\ \A i \in 1..(Len(pending) - n) : pending'[i] = answers[i + n]
    BY <1>1, <1>2, DropFacts
<1>4. wire_down' \in Seq(Frame)
    <2>1. answers \in Seq(Frame)
        BY ResponseFacts
    <2> QED
        BY <1>1, <2>1, ConcatFacts DEF TypeInv, TypeOK
<1>5. \A i \in 1..Len(pending) : pending[i].rsp_cnt \in Nat
    BY <1>2, ElementOfSeq, ResponseFacts DEF TypeInv, PendingInv
<1>7. ASSUME NEW i \in 1..(Len(pending) - n)
      PROVE  pending'[i].rsp_cnt < MaxRsp
    <2>1. i + n \in 1..Len(pending) /\ n + 1 \in 1..Len(pending) /\ n + 1 <= i + n /\ n < Len(pending)
        BY <1>2
    <2>2. answers[n + 1].rsp_cnt >= answers[i + n].rsp_cnt /\ answers[n + 1].rsp_cnt < MaxRsp
        BY <1>1, <2>1
    <2>3. /\ answers[n + 1].rsp_cnt \in Nat /\ answers[i + n].rsp_cnt \in Nat
        <3>1. \A k \in 1..Len(pending) : answers[k].rsp_cnt \in Nat
            <4> TAKE k \in 1..Len(pending)
            <4>1. answers[k].rsp_cnt = pending[k].rsp_cnt + 1
                BY <1>1
            <4>2. pending[k].rsp_cnt \in Nat
                BY <1>5
            <4> QED
                BY <4>1, <4>2
        <3> QED
            BY <2>1, <3>1
    <2>4. answers[i + n].rsp_cnt < MaxRsp
        BY <2>2, <2>3, SizesAssumption
    <2> QED
        BY <1>3, <2>4
<1>8. ASSUME NEW i \in 1..(Len(pending) - n), NEW j \in 1..(Len(pending) - n), i < j
      PROVE  pending'[i].rsp_cnt >= pending'[j].rsp_cnt
    <2>1. i + n \in 1..Len(pending) /\ j + n \in 1..Len(pending) /\ i + n <= j + n
        BY <1>2, <1>8
    <2> QED
        BY <1>1, <1>3, <2>1
<1>9. PendingInv'
    BY <1>3, <1>7, <1>8 DEF PendingInv
<1>10. TypeOK'
    BY <1>3, <1>4, ResponseFacts DEF ServerRound, clientVars, TypeInv, TypeOK
<1>11. ConnectInv'
    BY DEF ServerRound, clientVars, TypeInv, ConnectInv
<1> QED
    BY <1>9, <1>10, <1>11 DEF ServerRound, clientVars, TypeInv, RoundsInv

LEMMA TypeStep == NoWrap /\ TypeInv /\ [Next]_vars => TypeInv'
<1> SUFFICES ASSUME NoWrap, TypeInv, [Next]_vars PROVE TypeInv'
    OBVIOUS
<1>1. CASE UNCHANGED vars
    BY <1>1 DEF vars, TypeInv, TypeOK, RoundsInv, PendingInv, ConnectInv
<1>2. CASE Next
    BY <1>2, TypeOnAddCtx, TypeHandleRspLogin, TypeHandleRspOrder, TypeOnTimerRound,
       TypeExits, TypeServerLogin, TypeServerOrder, TypeServerLosesOrder,
       TypeServerRound, TypeServerForeignRsp DEF Next
<1> QED
    BY <1>1, <1>2

\* A run whose product of arguments fits its counter copies its requests from
\* loaded orders only, answers no order more often than the exchange does, and
\* its counters keep to their sizes.
THEOREM TypeCorrect ==
    ASSUME NoWrap
    PROVE  Spec => []TypeOK
<1>1. Init => TypeInv
    BY TypeInit
<1>2. TypeInv /\ [Next]_vars => TypeInv'
    BY TypeStep
<1>3. TypeInv => TypeOK
    BY DEF TypeInv
<1> QED
    BY <1>1, <1>2, <1>3, PTL DEF Spec

-----------------------------------------------------------------------------
(* What is on the way while nothing is lost.                                *)

LEMMA Counts ==
    ASSUME NoWrap, TypeInv
    PROVE  /\ max_idx \in Nat /\ curr_idx \in Nat /\ curr_idx <= max_idx
           /\ wire_up \in Seq(Frame) /\ pending \in Seq(Responses) /\ wire_down \in Seq(Frame)
           /\ Len(wire_up) \in Nat /\ Len(pending) \in Nat /\ Len(wire_down) \in Nat
           /\ DOMAIN wire_up = 1..Len(wire_up)
           /\ DOMAIN pending = 1..Len(pending)
           /\ DOMAIN wire_down = 1..Len(wire_down)
           /\ \A i \in 1..Len(pending) : pending[i].coid \in Nat /\ pending[i].rsp_cnt \in Nat
           /\ Taken = curr_idx - Len(wire_up) /\ Taken \in Int
           /\ Done = Taken - Len(pending) /\ Done \in Int
<1>1. PICK k \in 0..round : curr_idx = k * order_per_round
    BY DEF TypeInv, RoundsInv
<1>2. max_idx \in Nat /\ curr_idx \in Nat /\ curr_idx <= max_idx
    <2>1. k \in Nat /\ round \in Nat /\ order_per_round \in Nat /\ k <= round
        BY SizesAssumption
    <2> QED
        BY <1>1, <2>1, MaxIdx, Products
<1>3. wire_up \in Seq(Frame) /\ pending \in Seq(Responses) /\ wire_down \in Seq(Frame)
    BY DEF TypeInv, TypeOK, PendingInv
<1>4. /\ Len(wire_up) \in Nat /\ Len(pending) \in Nat /\ Len(wire_down) \in Nat
      /\ DOMAIN wire_up = 1..Len(wire_up)
      /\ DOMAIN pending = 1..Len(pending)
      /\ DOMAIN wire_down = 1..Len(wire_down)
    BY <1>3, LenProperties
<1>5. \A i \in 1..Len(pending) : pending[i].coid \in Nat /\ pending[i].rsp_cnt \in Nat
    BY <1>3, <1>4, ElementOfSeq, ResponseFacts
<1>6. /\ Taken = curr_idx - Len(wire_up) /\ Taken \in Int
      /\ Done = Taken - Len(pending) /\ Done \in Int
    BY <1>2, <1>4 DEF Taken, Done
<1> QED
    BY <1>2, <1>3, <1>4, <1>5, <1>6

LEMMA RunInit == Init => RunInv
<1> SUFFICES ASSUME Init PROVE RunInv
    OBVIOUS
<1>1. DOMAIN <<>> = {} /\ Len(<<>>) = 0
    BY EmptySeq, LenProperties
<1> QED
    BY <1>1 DEF Init, RunInv, LoginInv

LEMMA RunQuiet ==
    ASSUME RunInv, UNCHANGED <<is_login, curr_idx, orders, finished, wire_up, pending,
                               lost, foreign, wire_down>>
    PROVE  RunInv'
BY DEF RunInv, Clean, LoginInv, NumberInv, KeptInv, LastInv, Answered, Taken, Done

LEMMA RunOnAddCtx ==
    ASSUME TypeInv, RunInv, OnAddCtx
    PROVE  RunInv'
<1>1. ~is_login /\ wire_up = <<>> /\ wire_down = <<>>
    BY DEF OnAddCtx, TypeInv, ConnectInv
<1> DEFINE e == [type |-> "REQ_LOGIN"]
<1>2. e \in Frame /\ e.type = "REQ_LOGIN"
    BY DEF Frame
<1> HIDE DEF e
<1>3. wire_up' = Append(wire_up, e)
    BY DEF OnAddCtx, e
<1>4. wire_up \in Seq(Frame) /\ Len(wire_up) = 0 /\ Len(wire_down) = 0
    BY <1>1, EmptySeq
<1>5. Len(wire_up') = 1 /\ DOMAIN wire_up' = 1..1 /\ wire_up'[1] = e
    BY <1>2, <1>3, <1>4, AppendFacts
<1>6. \A i \in DOMAIN wire_up' : wire_up'[i].type = "REQ_LOGIN"
    BY <1>2, <1>5
<1>7. wire_down' = wire_down /\ DOMAIN wire_down = {}
    BY <1>1 DEF OnAddCtx
<1> QED
    BY <1>1, <1>4, <1>5, <1>6, <1>7 DEF OnAddCtx, RunInv, Clean, LoginInv

LEMMA RunHandleRspLogin ==
    ASSUME NoWrap, TypeInv, RunInv, HandleRspLogin
    PROVE  RunInv'
<1> SUFFICES ASSUME Clean'
             PROVE  NumberInv' /\ KeptInv' /\ LastInv'
    BY DEF HandleRspLogin, RunInv, LoginInv
<1>1. Clean
    BY DEF HandleRspLogin, Clean
<1>2. /\ wire_down # <<>> /\ wire_down' = Tail(wire_down)
      /\ wire_down[1].type = "RSP_LOGIN"
      /\ Len(wire_down) \in Nat \ {0} /\ Len(wire_down') = Len(wire_down) - 1
      /\ 1 \in DOMAIN wire_down
    BY TailFacts DEF HandleRspLogin, Receiving, TypeInv, TypeOK
<1>3. ~is_login
    BY <1>1, <1>2 DEF RunInv, NumberInv
<1>4. /\ curr_idx = 0 /\ pending = <<>> /\ ~finished
      /\ Len(wire_up) + Len(wire_down) <= 1
    BY <1>1, <1>3 DEF RunInv, LoginInv
<1>5. Len(wire_up) = 0 /\ Len(wire_down') = 0
    BY <1>2, <1>4, Counts
<1>6. wire_up = <<>> /\ wire_down' = <<>>
    BY <1>2, <1>5, EmptySeq, TailFacts, Counts
<1>7. wire_up' = <<>> /\ pending' = <<>> /\ curr_idx' = 0 /\ ~finished'
    BY <1>4, <1>6 DEF HandleRspLogin
<1>8. Taken' = 0 /\ Done' = 0
    <2>1. Len(wire_up') = 0 /\ Len(pending') = 0 /\ curr_idx' = 0
        BY <1>7, EmptySeq
    <2>2. Taken' = curr_idx' - Len(wire_up') /\ Done' = Taken' - Len(pending')
        BY DEF Taken, Done
    <2> QED
        BY <2>1, <2>2
<1>9. DOMAIN <<>> = {}
    OBVIOUS
<1>10. NumberInv'
    BY <1>6, <1>7, <1>8, <1>9 DEF NumberInv
<1>11. KeptInv'
    <2>1. \A o \in 0..(max_idx - 1) : ~(o < 0)
        BY MaxIdx
    <2> QED
        BY <1>7, <1>8, <1>9, <2>1 DEF KeptInv, Answered
<1>12. LastInv'
    BY <1>6, <1>7, <1>9 DEF LastInv
<1> QED
    BY <1>10, <1>11, <1>12

LEMMA RunHandleRspOrder ==
    ASSUME NoWrap, TypeInv, RunInv, HandleRspOrder
    PROVE  RunInv'
<1> SUFFICES ASSUME Clean'
             PROVE  is_login' /\ NumberInv' /\ KeptInv' /\ LastInv'
    BY DEF RunInv, LoginInv
<1>1. Clean
    BY DEF HandleRspOrder, Clean
<1>2. PICK r \in Responses :
         /\ r = wire_down[1] /\ ctx = "open" /\ wire_down # <<>>
         /\ wire_down' = Tail(wire_down)
         /\ \/ r.coid >= max_idx /\ orders' = orders /\ finished' = finished
            \/ /\ r.coid < max_idx /\ orders' = Recorded(r)
               /\ finished' = (finished \/ Completes(r))
    BY HandleRspOrderFacts
<1>3. /\ UNCHANGED <<is_login, curr_idx, wire_up, pending>>
      /\ Taken' = Taken /\ Done' = Done
    BY DEF HandleRspOrder, Taken, Done
<1>4. /\ Len(wire_down) \in Nat \ {0} /\ Len(wire_down') = Len(wire_down) - 1
      /\ DOMAIN wire_down = 1..Len(wire_down)
      /\ DOMAIN wire_down' = 1..(Len(wire_down) - 1)
      /\ \A i \in 1..(Len(wire_down) - 1) : wire_down'[i] = wire_down[i + 1]
    BY <1>2, TailFacts, Counts
<1>5. \A i \in DOMAIN wire_down' : i + 1 \in DOMAIN wire_down /\ wire_down'[i] = wire_down[i + 1]
    BY <1>4
<1>6. is_login
    <2>1. 1 \in DOMAIN wire_down /\ wire_down[1].type = "RSP_ORDER"
        BY <1>2, <1>4, ResponseFacts
    <2> QED
        BY <1>1, <2>1 DEF RunInv, LoginInv
<1>7. NumberInv /\ KeptInv /\ LastInv
    BY <1>1, <1>6 DEF RunInv
<1>8. NumberInv'
    BY <1>3, <1>5, <1>7 DEF NumberInv
<1>9. KeptInv'
    <2> SUFFICES ASSUME NEW o \in 0..(max_idx - 1), Answered(o)
                 PROVE  \/ orders'[o].rsp_cnt = 1
                        \/ \E i \in DOMAIN wire_down' :
                              wire_down'[i].coid = o /\ wire_down'[i].rsp_cnt = 1
        BY <1>3 DEF KeptInv, Answered
    <2>1. /\ o \in Loaded
          /\ \A p \in Loaded : orders'[p].rsp_cnt =
                IF r.coid < max_idx /\ p = r.coid /\ r.rsp_cnt = 1 THEN 1 ELSE orders[p].rsp_cnt
        <3>1. o \in Nat /\ o < max_idx
            BY MaxIdx
        <3>2. CASE r.coid >= max_idx /\ orders' = orders
            <4>1. ~(r.coid < max_idx)
                BY <3>2, MaxIdx, ResponseFacts
            <4> QED
                BY <1>2, <3>1, <3>2, <4>1, SlotFacts
        <3>3. CASE r.coid < max_idx /\ orders' = Recorded(r)
            BY <1>2, <3>1, <3>3, SlotFacts, RecordedFacts
        <3> QED
            BY <1>2, <3>2, <3>3
    <2>2. CASE orders[o].rsp_cnt = 1
        BY <2>1, <2>2
    <2>3. CASE orders[o].rsp_cnt # 1
        <3>1. PICK i \in DOMAIN wire_down : wire_down[i].coid = o /\ wire_down[i].rsp_cnt = 1
            BY <1>7, <2>3 DEF KeptInv
        <3>2. CASE i = 1
            <4>1. r.coid = o /\ r.rsp_cnt = 1 /\ o < max_idx
                BY <1>2, <3>1, <3>2, MaxIdx
            <4> QED
                BY <2>1, <4>1
        <3>3. CASE i # 1
            <4>1. i - 1 \in DOMAIN wire_down' /\ wire_down'[i - 1] = wire_down[i]
                <5>1. i - 1 \in 1..(Len(wire_down) - 1) /\ (i - 1) + 1 = i
                    BY <1>4, <3>3
                <5> QED
                    BY <1>4, <5>1
            <4> QED
                BY <3>1, <4>1
        <3> QED
            BY <3>2, <3>3
    <2> QED
        BY <2>2, <2>3
<1>10. LastInv'
    <2>1. ASSUME NEW i \in DOMAIN wire_down', wire_down'[i].coid = max_idx - 1,
                 wire_down'[i].rsp_cnt = MaxRsp
          PROVE  i = Len(wire_down') /\ Done' = max_idx
        <3>1. i + 1 = Len(wire_down) /\ Done = max_idx
            BY <1>5, <1>7, <2>1 DEF LastInv
        <3> QED
            BY <1>3, <1>4, <2>1, <3>1
    <2>2. ~finished
        BY <1>2, <1>7 DEF LastInv
    <2>3. ASSUME finished' PROVE Done' = max_idx /\ wire_down' = <<>>
        <3>1. r.coid = max_idx - 1 /\ r.rsp_cnt = MaxRsp
            BY <1>2, <2>2, <2>3 DEF Completes
        <3>2. 1 = Len(wire_down) /\ Done = max_idx
            BY <1>2, <1>4, <1>7, <3>1 DEF LastInv
        <3>3. wire_down' \in Seq(Frame) /\ Len(wire_down') = 0
            BY <1>2, <1>4, <3>2, TailFacts, Counts
        <3> QED
            BY <1>3, <3>2, <3>3, EmptySeq
    <2> QED
        BY <2>1, <2>3 DEF LastInv
<1> QED
    BY <1>3, <1>6, <1>8, <1>9, <1>10

LEMMA RunOnTimerRound ==
    ASSUME NoWrap, TypeInv, RunInv, OnTimerRound
    PROVE  RunInv'
<1> SUFFICES ASSUME Clean'
             PROVE  is_login' /\ NumberInv' /\ KeptInv' /\ LastInv'
    BY DEF RunInv, LoginInv
<1>1. Clean
    BY DEF OnTimerRound, Clean
<1>2. /\ is_login /\ ctx = "open" /\ curr_idx < max_idx
      /\ UNCHANGED <<is_login, orders, finished, pending, wire_down>>
    BY DEF OnTimerRound, MayStart
<1>3. PICK R \in Seq(Frame) :
         /\ wire_up' = wire_up \o R /\ Len(R) = order_per_round
         /\ \A i \in 1..order_per_round : /\ R[i].type = "REQ_ORDER"
                                          /\ R[i].coid = curr_idx + i - 1
    BY <1>2, RoundOfFacts DEF OnTimerRound
<1>4. order_per_round \in Nat /\ curr_idx' = curr_idx + order_per_round
    BY <1>2, RoundFacts, SizesAssumption DEF OnTimerRound
<1>5. /\ Len(wire_up') = Len(wire_up) + order_per_round
      /\ DOMAIN wire_up' = 1..(Len(wire_up) + order_per_round)
      /\ \A i \in 1..Len(wire_up) : wire_up'[i] = wire_up[i]
      /\ \A i \in 1..order_per_round : wire_up'[Len(wire_up) + i] = R[i]
    BY <1>3, ConcatFacts, Counts
<1>6. Taken' = Taken /\ Done' = Done
    <2>1. Taken' = Taken
        BY <1>4, <1>5, Counts DEF Taken
    <2> QED
        BY <1>2, <2>1 DEF Done
<1>7. NumberInv /\ KeptInv /\ LastInv
    BY <1>1, <1>2 DEF RunInv
<1>8. NumberInv'
    <2>1. ASSUME NEW i \in DOMAIN wire_up'
          PROVE  wire_up'[i].type = "REQ_ORDER" /\ wire_up'[i].coid = Taken + i - 1
        <3>1. CASE i \in 1..Len(wire_up)
            BY <1>5, <1>7, <3>1, Counts DEF NumberInv
        <3>2. CASE i \notin 1..Len(wire_up)
            <4>1. PICK k \in 1..order_per_round : i = Len(wire_up) + k
                <5>1. i - Len(wire_up) \in 1..order_per_round /\ i = Len(wire_up) + (i - Len(wire_up))
                    BY <1>4, <1>5, <2>1, <3>2, Counts
                <5> QED
                    BY <5>1
            <4>2. wire_up'[i].type = "REQ_ORDER" /\ wire_up'[i].coid = curr_idx + k - 1
                BY <1>3, <1>5, <4>1
            <4>3. Taken + i - 1 = curr_idx + k - 1
                BY <1>4, <4>1, Counts
            <4> QED
                BY <4>2, <4>3
        <3> QED
            BY <3>1, <3>2
    <2> QED
        BY <1>2, <1>6, <1>7, <2>1 DEF NumberInv
<1>9. KeptInv'
    BY <1>2, <1>6, <1>7 DEF KeptInv, Answered
<1>10. LastInv'
    BY <1>2, <1>6, <1>7 DEF LastInv
<1> QED
    BY <1>2, <1>8, <1>9, <1>10

LEMMA RunServerLogin ==
    ASSUME NoWrap, TypeInv, RunInv, ServerLogin
    PROVE  RunInv'
<1> SUFFICES ASSUME Clean'
             PROVE  ~is_login' /\ LoginInv'
    BY DEF RunInv
<1>1. Clean
    BY DEF ServerLogin, clientVars, Clean
<1> DEFINE e == [type |-> "RSP_LOGIN"]
<1>2. e \in Frame /\ e.type = "RSP_LOGIN"
    BY DEF Frame
<1> HIDE DEF e
<1>3. wire_up # <<>> /\ wire_up' = Tail(wire_up) /\ wire_down' = Append(wire_down, e)
    BY DEF ServerLogin, e
<1>4. /\ wire_up[1].type = "REQ_LOGIN" /\ 1 \in DOMAIN wire_up
      /\ Len(wire_up) \in Nat \ {0} /\ Len(wire_up') = Len(wire_up) - 1
      /\ DOMAIN wire_up' = 1..(Len(wire_up) - 1)
    BY <1>3, TailFacts, Counts DEF ServerLogin
<1>5. ~is_login
    BY <1>1, <1>4 DEF RunInv, NumberInv
<1>6. LoginInv
    BY <1>1 DEF RunInv
<1>7. /\ Len(wire_down') = Len(wire_down) + 1
      /\ DOMAIN wire_down' = 1..(Len(wire_down) + 1)
      /\ wire_down'[Len(wire_down) + 1] = e
    BY <1>2, <1>3, AppendFacts, Counts
<1>8. Len(wire_up) = 1 /\ Len(wire_down) = 0
    BY <1>4, <1>5, <1>6, Counts DEF LoginInv
<1>9. DOMAIN wire_up' = {} /\ Len(wire_up') = 0 /\ Len(wire_down') = 1
    BY <1>4, <1>7, <1>8
<1>10. \A i \in DOMAIN wire_down' : wire_down'[i].type = "RSP_LOGIN"
    <2>1. \A i \in DOMAIN wire_down' : i = Len(wire_down) + 1
        BY <1>7, <1>8
    <2> QED
        BY <1>2, <1>7, <2>1
<1> QED
    BY <1>5, <1>6, <1>9, <1>10 DEF ServerLogin, clientVars, LoginInv

LEMMA RunServerOrder ==
    ASSUME NoWrap, TypeInv, RunInv, ServerOrder
    PROVE  RunInv'
<1> SUFFICES ASSUME Clean'
             PROVE  is_login' /\ NumberInv' /\ KeptInv' /\ LastInv'
    BY DEF RunInv, LoginInv
<1>1. Clean
    BY DEF ServerOrder, clientVars, Clean
<1>2. UNCHANGED <<is_login, curr_idx, orders, finished, wire_down>>
    BY DEF ServerOrder, clientVars
<1>3. PICK r \in Responses :
         /\ r.coid = wire_up[1].coid /\ r.rsp_cnt = 0
         /\ wire_up # <<>> /\ wire_up' = Tail(wire_up) /\ pending' = Append(pending, r)
    BY ServerOrderFacts
<1>4. /\ wire_up[1].type = "REQ_ORDER" /\ 1 \in DOMAIN wire_up
      /\ Len(wire_up) \in Nat \ {0} /\ Len(wire_up') = Len(wire_up) - 1
      /\ DOMAIN wire_up = 1..Len(wire_up) /\ DOMAIN wire_up' = 1..(Len(wire_up) - 1)
      /\ \A i \in 1..(Len(wire_up) - 1) : wire_up'[i] = wire_up[i + 1]
    BY <1>3, TailFacts, Counts DEF ServerOrder
<1>5. is_login
    BY <1>1, <1>4 DEF RunInv, LoginInv
<1>6. NumberInv /\ KeptInv /\ LastInv
    BY <1>1, <1>5 DEF RunInv
<1>7. /\ Len(pending') = Len(pending) + 1
      /\ DOMAIN pending' = 1..(Len(pending) + 1)
      /\ \A i \in 1..Len(pending) : pending'[i] = pending[i]
      /\ pending'[Len(pending) + 1] = r
    BY <1>3, AppendFacts, Counts
<1>8. Taken' = Taken + 1 /\ Done' = Done
    <2>1. Taken' = Taken + 1
        BY <1>2, <1>4, Counts DEF Taken
    <2>2. Done' = Taken' - Len(pending')
        BY DEF Done
    <2> QED
        BY <1>7, <2>1, <2>2, Counts
<1>9. r.coid = Taken
    <2>1. wire_up[1].coid = Taken + 1 - 1
        BY <1>4, <1>6 DEF NumberInv
    <2> QED
        BY <1>3, <2>1, Counts
<1>10. NumberInv'
    <2>1. ASSUME NEW i \in DOMAIN wire_up'
          PROVE  wire_up'[i].type = "REQ_ORDER" /\ wire_up'[i].coid = Taken' + i - 1
        <3>0. i \in Nat /\ i \in 1..(Len(wire_up) - 1)
            BY <1>4, <2>1
        <3>1. i + 1 \in DOMAIN wire_up /\ wire_up'[i] = wire_up[i + 1]
            BY <1>4, <3>0
        <3>2. wire_up[i + 1].type = "REQ_ORDER" /\ wire_up[i + 1].coid = Taken + (i + 1) - 1
            BY <1>6, <3>1 DEF NumberInv
        <3>3. Taken + (i + 1) - 1 = Taken' + i - 1
            BY <1>8, <3>0, Counts
        <3> QED
            BY <3>1, <3>2, <3>3
    <2>2. ASSUME NEW i \in DOMAIN pending'
          PROVE  pending'[i].coid = Done' + i - 1
        <3>1. CASE i = Len(pending) + 1
            <4>1. Taken = Done + i - 1
                BY <3>1, Counts
            <4> QED
                BY <1>7, <1>8, <1>9, <3>1, <4>1
        <3>2. CASE i # Len(pending) + 1
            <4>1. i \in 1..Len(pending)
                BY <1>7, <2>2, <3>2, Counts
            <4>2. pending[i].coid = Done + i - 1
                BY <1>6, <4>1, Counts DEF NumberInv
            <4> QED
                BY <1>7, <1>8, <4>1, <4>2
        <3> QED
            BY <3>1, <3>2
    <2>3. ASSUME NEW i \in DOMAIN wire_down
          PROVE  wire_down[i].type = "RSP_ORDER" /\ wire_down[i].coid < Taken'
        <3>1. wire_down[i].type = "RSP_ORDER" /\ wire_down[i].coid < Taken
            BY <1>6 DEF NumberInv
        <3>2. wire_down[i].coid \in Nat
            <4>1. wire_down[i] \in Frame
                BY ElementOfSeq, Counts
            <4> QED
                BY <3>1, <4>1, FrameFacts, ResponseFacts
        <3> QED
            BY <1>8, <3>1, <3>2, Counts
    <2> QED
        BY <1>2, <1>6, <1>8, <2>1, <2>2, <2>3 DEF NumberInv
<1>11. KeptInv'
    <2>1. ASSUME NEW o, Answered(o)'
          PROVE  Answered(o)
        <3>1. CASE o < Done'
            BY <1>8, <3>1 DEF Answered
        <3>2. CASE \E i \in DOMAIN pending' : pending'[i].coid = o /\ pending'[i].rsp_cnt >= 1
            <4>1. PICK i \in DOMAIN pending' : pending'[i].coid = o /\ pending'[i].rsp_cnt >= 1
                BY <3>2
            <4>2. i # Len(pending) + 1
                BY <1>3, <1>7, <4>1
            <4>3. i \in 1..Len(pending)
                BY <1>7, <4>2, Counts
            <4> QED
                BY <1>7, <4>1, <4>3, Counts DEF Answered
        <3> QED
            BY <2>1, <3>1, <3>2 DEF Answered
    <2> QED
        BY <1>2, <1>6, <2>1 DEF KeptInv
<1>12. LastInv'
    BY <1>2, <1>6, <1>8 DEF LastInv
<1> QED
    BY <1>2, <1>5, <1>10, <1>11, <1>12

LEMMA RunServerRound ==
    ASSUME NoWrap, TypeInv, RunInv, ServerRound
    PROVE  RunInv'
<1> SUFFICES ASSUME Clean'
             PROVE  is_login' /\ NumberInv' /\ KeptInv' /\ LastInv'
    BY DEF RunInv, LoginInv
<1>1. Clean
    BY DEF ServerRound, clientVars, Clean
<1>2. UNCHANGED <<is_login, curr_idx, orders, finished, wire_up>>
    BY DEF ServerRound, clientVars
<1>3. PICK answers \in Seq(Responses), n \in Nat :
         /\ Len(answers) = Len(pending) /\ n <= Len(pending)
         /\ \A i \in 1..Len(pending) : /\ answers[i].coid = pending[i].coid
                                       /\ answers[i].rsp_cnt = pending[i].rsp_cnt + 1
         /\ \A i, j \in 1..Len(pending) :
               i <= j => answers[i].rsp_cnt >= answers[j].rsp_cnt
         /\ \A i \in 1..n : answers[i].rsp_cnt >= MaxRsp
         /\ n < Len(pending) => answers[n + 1].rsp_cnt < MaxRsp
         /\ wire_down' = wire_down \o answers
         /\ pending' = SubSeq(answers, n + 1, Len(answers))
    BY ServerRoundFacts
<1>4. PICK L \in Nat : L = Len(pending)
    BY Counts
<1>5. PICK D \in Nat : D = Len(wire_down)
    BY Counts
<1>6. n \in Nat /\ n <= L /\ L >= 1 /\ is_login
    <2>1. pending # <<>>
        BY DEF ServerRound
    <2>2. is_login
        BY <1>1, <2>1 DEF RunInv, LoginInv
    <2>3. L # 0
        BY <1>4, <2>1, Counts, EmptySeq
    <2> QED
        BY <1>3, <1>4, <2>2, <2>3
<1>7. NumberInv /\ KeptInv /\ LastInv
    BY <1>1, <1>6 DEF RunInv
<1>8. /\ Len(pending') = L - n /\ DOMAIN pending' = 1..(L - n)
      /\ \A i \in 1..(L - n) : pending'[i] = answers[i + n]
    BY <1>3, <1>4, <1>6, DropFacts
<1>9. /\ Len(wire_down') = D + L /\ DOMAIN wire_down' = 1..(D + L)
      /\ DOMAIN wire_down = 1..D
      /\ \A i \in 1..D : wire_down'[i] = wire_down[i]
      /\ \A k \in 1..L : wire_down'[D + k] = answers[k]
    <2>1. answers \in Seq(Frame)
        BY ResponseFacts
    <2>2. wire_down \in Seq(Frame)
        BY Counts
    <2>3. Len(answers) = L
        BY <1>3, <1>4
    <2>4. wire_down' = wire_down \o answers
        BY <1>3
    <2>5. /\ Len(wire_down') = Len(wire_down) + Len(answers)
          /\ DOMAIN wire_down' = 1..(Len(wire_down) + Len(answers))
          /\ DOMAIN wire_down = 1..Len(wire_down)
          /\ \A i \in 1..Len(wire_down) : wire_down'[i] = wire_down[i]
          /\ \A k \in 1..Len(answers) : wire_down'[Len(wire_down) + k] = answers[k]
        BY <2>1, <2>2, <2>4, ConcatFacts
    <2> QED
        BY <1>5, <2>3, <2>5
<1>t. PICK T \in Int : T = Taken
    BY Counts
<1>q. PICK Q \in Int : Q = Done
    BY Counts
<1>10. Taken' = T /\ Done' = Q + n /\ Q + L = T
    <2>1. Taken' = T
        BY <1>2, <1>t DEF Taken
    <2>2. Done' = Taken' - Len(pending')
        BY DEF Done
    <2>3. Q = T - L
        BY <1>4, <1>t, <1>q, Counts
    <2>4. Done' = T - (L - n)
        BY <1>8, <2>1, <2>2
    <2> QED
        BY <2>1, <2>3, <2>4
<1>11. \A k \in 1..L : /\ answers[k].type = "RSP_ORDER" /\ answers[k].coid = Q + k - 1
                       /\ pending[k].coid = Q + k - 1
                       /\ pending[k].rsp_cnt \in Nat
                       /\ answers[k].rsp_cnt = pending[k].rsp_cnt + 1
    <2> TAKE k \in 1..L
    <2>1. answers[k] \in Responses
        BY <1>3, <1>4, LenProperties, ElementOfSeq
    <2>2. pending[k].coid = Q + k - 1
        BY <1>4, <1>7, <1>q, Counts DEF NumberInv
    <2>3. pending[k].rsp_cnt \in Nat
        BY <1>4, Counts
    <2> QED
        BY <1>3, <1>4, <2>1, <2>2, <2>3, ResponseFacts
\* A frame is one there was or one of the round.
<1>12. ASSUME NEW i \in DOMAIN wire_down', i \notin 1..D
       PROVE  \E k \in 1..L : i = D + k
    <2>1. i - D \in 1..L /\ i = D + (i - D)
        BY <1>9, <1>12
    <2> QED
        BY <2>1
<1>13. NumberInv'
    <2>1. Done' >= 0
        BY <1>7, <1>10, <1>q DEF NumberInv
    <2>2. ASSUME NEW i \in DOMAIN pending'
          PROVE  pending'[i].coid = Done' + i - 1
        <3>1. i \in Nat /\ i + n \in 1..L /\ pending'[i] = answers[i + n]
            BY <1>6, <1>8, <2>2
        <3>2. answers[i + n].coid = Q + (i + n) - 1
            BY <1>11, <3>1
        <3> QED
            BY <1>10, <3>1, <3>2
    <2>3. ASSUME NEW i \in DOMAIN wire_down'
          PROVE  wire_down'[i].type = "RSP_ORDER" /\ wire_down'[i].coid < T
        <3>1. CASE i \in 1..D
            BY <1>7, <1>9, <1>t, <3>1 DEF NumberInv
        <3>2. CASE i \notin 1..D
            <4>1. PICK k \in 1..L : i = D + k
                BY <1>12, <3>2
            <4>2. wire_down'[i] = answers[k]
                BY <1>9, <4>1
            <4>3. answers[k].type = "RSP_ORDER" /\ answers[k].coid = Q + k - 1
                BY <1>11
            <4>4. Q + k - 1 < T
                BY <1>10
            <4> QED
                BY <4>2, <4>3, <4>4
        <3> QED
            BY <3>1, <3>2
    <2> QED
        BY <1>2, <1>7, <1>10, <1>t, <2>1, <2>2, <2>3 DEF NumberInv
<1>14. KeptInv'
    <2> SUFFICES ASSUME NEW o \in 0..(max_idx - 1), Answered(o)'
                 PROVE  \/ orders[o].rsp_cnt = 1
                        \/ \E i \in DOMAIN wire_down' :
                              wire_down'[i].coid = o /\ wire_down'[i].rsp_cnt = 1
        BY <1>2 DEF KeptInv
    <2>1. ASSUME Answered(o)
          PROVE  \/ orders[o].rsp_cnt = 1
                 \/ \E i \in DOMAIN wire_down' :
                       wire_down'[i].coid = o /\ wire_down'[i].rsp_cnt = 1
        <3>1. \/ orders[o].rsp_cnt = 1
              \/ \E i \in 1..D : wire_down[i].coid = o /\ wire_down[i].rsp_cnt = 1
            BY <1>7, <1>9, <2>1 DEF KeptInv
        <3>2. \A i \in 1..D : i \in DOMAIN wire_down'
            BY <1>9
        <3> QED
            BY <1>9, <3>1, <3>2
    <2>2. ASSUME NEW k \in 1..L, o = Q + k - 1, ~Answered(o)
          PROVE  \E i \in DOMAIN wire_down' :
                       wire_down'[i].coid = o /\ wire_down'[i].rsp_cnt = 1
        <3>1. ~(pending[k].rsp_cnt >= 1)
            BY <1>4, <1>11, <2>2, Counts DEF Answered
        <3>2. answers[k].coid = o /\ answers[k].rsp_cnt = 1
            BY <1>11, <2>2, <3>1
        <3>3. D + k \in DOMAIN wire_down' /\ wire_down'[D + k] = answers[k]
            BY <1>9
        <3> QED
            BY <3>2, <3>3
    <2>3. \/ Answered(o)
          \/ \E k \in 1..L : o = Q + k - 1
        <3>1. o \in Int
            BY Counts
        <3>2. CASE o < Done'
            <4>1. o < Q \/ o - Q + 1 \in 1..L
                BY <1>6, <1>10, <3>1, <3>2
            <4>2. o = Q + (o - Q + 1) - 1
                BY <3>1
            <4> QED
                BY <1>q, <4>1, <4>2 DEF Answered
        <3>3. CASE \E i \in DOMAIN pending' : pending'[i].coid = o
            <4>1. PICK i \in 1..(L - n) : pending'[i].coid = o
                BY <1>8, <3>3
            <4>2. i + n \in 1..L /\ pending'[i] = answers[i + n]
                BY <1>6, <1>8
            <4>3. answers[i + n].coid = Q + (i + n) - 1
                BY <1>11, <4>2
            <4> QED
                BY <4>1, <4>2, <4>3
        <3> QED
            BY <3>2, <3>3 DEF Answered
    <2> QED
        BY <2>1, <2>2, <2>3
<1>15. Q < max_idx /\ T <= max_idx
    <2>1. T <= curr_idx /\ curr_idx <= max_idx /\ curr_idx \in Nat /\ max_idx \in Nat
        BY <1>t, Counts
    <2> QED
        BY <1>6, <1>10, <2>1
<1>16. LastInv'
    <2>1. ASSUME NEW i \in DOMAIN wire_down', wire_down'[i].coid = max_idx - 1,
                 wire_down'[i].rsp_cnt = MaxRsp
          PROVE  i = Len(wire_down') /\ Done' = max_idx
        <3>1. i \notin 1..D
            BY <1>7, <1>9, <1>15, <1>q, <2>1 DEF LastInv
        <3>2. PICK k \in 1..L : i = D + k
            BY <1>12, <3>1
        <3>3. answers[k].coid = max_idx - 1 /\ answers[k].rsp_cnt = MaxRsp
            BY <1>9, <2>1, <3>2
        <3>4. Q + k - 1 = max_idx - 1
            BY <1>11, <3>3
        <3>5. k = L /\ Q + L = max_idx
            BY <1>10, <1>15, <3>4, MaxIdx
        <3>6. n = L
            <4>1. ASSUME n < L PROVE FALSE
                <5>1. n + 1 \in 1..L /\ n + 1 <= L /\ L \in 1..L
                    BY <1>6, <4>1
                <5>2. answers[n + 1].rsp_cnt >= answers[L].rsp_cnt
                    BY <1>3, <1>4, <5>1
                <5>3. answers[n + 1].rsp_cnt < MaxRsp
                    BY <1>3, <1>4, <4>1
                <5>4. answers[n + 1].rsp_cnt \in Nat
                    <6>1. \A j \in 1..L : answers[j].rsp_cnt \in Nat
                        <7> TAKE j \in 1..L
                        <7> QED
                            BY <1>11
                    <6> QED
                        BY <5>1, <6>1
                <5> QED
                    BY <3>3, <3>5, <5>2, <5>3, <5>4, SizesAssumption
            <4> QED
                BY <1>6, <4>1
        <3> QED
            BY <1>9, <1>10, <3>2, <3>5, <3>6
    <2>2. ~finished'
        BY <1>2, <1>7, <1>15, <1>q DEF LastInv
    <2> QED
        BY <2>1, <2>2 DEF LastInv
<1> QED
    BY <1>2, <1>6, <1>13, <1>14, <1>16

\* An order lost or a foreign response sent: the client's guess is off.
LEMMA RunUnclean ==
    ASSUME NoWrap, TypeInv,
           ServerLosesOrder \/ \E coid \in 0..max_idx, cnt \in 1..MaxRsp : ServerForeignRsp(coid, cnt)
    PROVE  RunInv'
<1>1. lost \in Nat /\ foreign \in Nat
    BY SizesAssumption DEF TypeInv, TypeOK
<1>2. lost' = lost + 1 \/ foreign' = foreign + 1
    BY DEF ServerLosesOrder, ServerForeignRsp
<1>3. ~Clean'
    BY <1>1, <1>2 DEF Clean
<1> QED
    BY <1>3 DEF RunInv

LEMMA RunStep == NoWrap /\ TypeInv /\ RunInv /\ [Next]_vars => RunInv'
<1> SUFFICES ASSUME NoWrap, TypeInv, RunInv, [Next]_vars PROVE RunInv'
    OBVIOUS
<1>1. CASE UNCHANGED vars
    BY <1>1, RunQuiet DEF vars
<1>2. CASE OnTimerExit \/ OnRelease
    BY <1>2, RunQuiet DEF OnTimerExit, OnRelease, serverVars
<1>3. CASE OnAddCtx \/ HandleRspLogin \/ HandleRspOrder \/ OnTimerRound
    BY <1>3, RunOnAddCtx, RunHandleRspLogin, RunHandleRspOrder, RunOnTimerRound
<1>4. CASE ServerLogin \/ ServerOrder \/ ServerRound
    BY <1>4, RunServerLogin, RunServerOrder, RunServerRound
<1>5. CASE ServerLosesOrder \/ \E coid \in 0..max_idx, cnt \in 1..MaxRsp : ServerForeignRsp(coid, cnt)
    BY <1>5, RunUnclean
<1> QED
    BY <1>1, <1>2, <1>3, <1>4, <1>5 DEF Next

LEMMA IInvComplete == NoWrap /\ IInv => CompletedIsComplete
<1> SUFFICES ASSUME NoWrap, IInv, finished, lost = 0, foreign = 0
             PROVE  /\ curr_idx >= max_idx
                    /\ wire_up = <<>> /\ pending = <<>> /\ wire_down = <<>>
                    /\ \A i \in 0..(max_idx - 1) : orders[i].rsp_cnt = 1
    BY DEF CompletedIsComplete
<1>1. TypeInv /\ NumberInv /\ KeptInv /\ LastInv
    BY DEF IInv, RunInv, Clean, LoginInv
<1>2. Done = max_idx /\ wire_down = <<>>
    BY <1>1 DEF LastInv
<1>3. curr_idx = max_idx /\ Len(wire_up) = 0 /\ Len(pending) = 0
    BY <1>1, <1>2, Counts
<1>4. wire_up = <<>> /\ pending = <<>>
    BY <1>1, <1>3, Counts, EmptySeq
<1>5. \A i \in 0..(max_idx - 1) : orders[i].rsp_cnt = 1
    <2>1. \A i \in 0..(max_idx - 1) : i < Done
        BY <1>1, <1>2, Counts
    <2> QED
        BY <1>1, <1>2, <2>1 DEF KeptInv, Answered
<1> QED
    BY <1>1, <1>2, <1>3, <1>4, <1>5, Counts

\* If nothing is lost and no other client has its user id, a client that has seen
\* the last response of its last order has seen a response to each of them, and
\* nothing is left on the way.
THEOREM CompletionCorrect ==
    ASSUME NoWrap
    PROVE  Spec => []CompletedIsComplete
<1>1. Init => IInv
    BY TypeInit, RunInit DEF IInv
<1>2. IInv /\ [Next]_vars => IInv'
    BY TypeStep, RunStep DEF IInv
<1>3. IInv => CompletedIsComplete
    BY IInvComplete
<1> QED
    BY <1>1, <1>2, <1>3, PTL DEF Spec

=============================================================================
