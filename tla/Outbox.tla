------------------------------- MODULE Outbox -------------------------------
(***************************************************************************)
(* What the message queue of one thread promises the operator, whatever    *)
(* the gateway and the clock do.  The operator writes messages 1..N in     *)
(* order.  Each one waits, goes out, and is then either kept by the        *)
(* gateway or handed back to the composer; it is never sent twice.         *)
(***************************************************************************)
EXTENDS Integers

CONSTANT N   \* how many messages the operator writes

Message == 1..N

VARIABLES
  place,     \* where the browser holds each message
  takes      \* how often the gateway has taken each, as (part of) a turn

ovars == <<place, takes>>

Place == {"composer", "waiting", "outbound", "settled", "gone"}

OutboxInit ==
  /\ place = [m \in Message |-> "composer"]
  /\ takes = [m \in Message |-> 0]

(* Messages move along together.  "gone" covers a message the operator     *)
(* withdrew from the queue and one a resumed queue dropped.                *)
Along == [composer |-> {"waiting", "outbound", "gone"},
          waiting  |-> {"outbound", "gone"},
          outbound |-> {"settled"},
          settled  |-> {},
          gone     |-> {}]

Move ==
  /\ place' \in [Message -> Place]
  /\ \A m \in Message : place'[m] = place[m] \/ place'[m] \in Along[place[m]]
  /\ UNCHANGED takes

(* The gateway takes a message once, and only one that is out.             *)
Accept ==
  \E taken \in SUBSET Message :
    /\ taken # {}
    /\ \A m \in taken : place[m] = "outbound" /\ takes[m] = 0
    /\ takes' = [m \in Message |-> IF m \in taken THEN 1 ELSE takes[m]]
    /\ UNCHANGED place

OutboxNext == Move \/ Accept

OutboxSpec == OutboxInit /\ [][OutboxNext]_ovars
=============================================================================
