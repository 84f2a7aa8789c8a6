----------------------------- MODULE OrderDesk -----------------------------
(***************************************************************************)
(* What the simulated exchange of example/upstream promises to the program *)
(* connected to it, without its list, its timer or its frames:             *)
(*                                                                         *)
(*   - an order that arrives on a live connection is accepted once;        *)
(*   - answers are given in rounds: a round gives one more answer to every *)
(*     accepted order that is still owed one, and to no other;             *)
(*   - an order is owed MaxRsp answers, as long as the connection it came  *)
(*     from is live; the end of the connection writes its orders off.      *)
(*                                                                         *)
(* Upstream.tla is shown to implement this module.                         *)
(***************************************************************************)
EXTENDS Integers

CONSTANTS Conns, MaxOrders, MaxRsp, NoCtx

Ticket == 1..MaxOrders

VARIABLES
    alive,    \* alive[c]: connection c is established
    owner,    \* owner[t]: the connection order t came from
    answers   \* answers[t]: how many answers order t has been given

deskVars == <<alive, owner, answers>>

DeskInit ==
    /\ alive = [c \in Conns |-> FALSE]
    /\ owner = [t \in Ticket |-> NoCtx]
    /\ answers = [t \in Ticket |-> 0]

Owed(t) ==
    /\ owner[t] # NoCtx
    /\ alive[owner[t]]
    /\ answers[t] < MaxRsp

Connected(c) ==
    /\ ~alive[c]
    /\ \A t \in Ticket : owner[t] # c
    /\ alive' = [alive EXCEPT ![c] = TRUE]
    /\ UNCHANGED <<owner, answers>>

Accept(c, t) ==
    /\ alive[c]
    /\ owner[t] = NoCtx
    /\ owner' = [owner EXCEPT ![t] = c]
    /\ UNCHANGED <<alive, answers>>

Round ==
    /\ \E t \in Ticket : Owed(t)
    /\ answers' = [t \in Ticket |-> IF Owed(t) THEN answers[t] + 1
                                               ELSE answers[t]]
    /\ UNCHANGED <<alive, owner>>

WriteOff(c) ==
    /\ alive[c]
    /\ alive' = [alive EXCEPT ![c] = FALSE]
    /\ UNCHANGED <<owner, answers>>

DeskNext ==
    \/ Round
    \/ \E c \in Conns :
          \/ Connected(c)
          \/ WriteOff(c)
          \/ \E t \in Ticket : Accept(c, t)

DeskSpec == DeskInit /\ [][DeskNext]_deskVars /\ WF_deskVars(Round)

=============================================================================
