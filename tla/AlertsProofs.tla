---------------------------- MODULE AlertsProofs ----------------------------
(* An alert is raised once, and none is held for delivered that was not       *)
(* raised: proofs for any tabs, alerts and number of failures; and the lease  *)
(* that elects who raises it lets one tab act.                               *)
EXTENDS Alerts, DeliveryLeader, TLAPS

(* What the proofs need of the types.                                        *)
Types ==
  /\ up \subseteq opened /\ opened \subseteq Tab
  /\ knows \in [Tab -> [Alert -> Knows]]
  /\ pending \in [Tab -> SUBSET Alert] /\ settling \in [Tab -> BOOLEAN]
  /\ \A t \in Tab : settling[t] => t \in up
  /\ mail \in [Tab \X Tab -> Seq(Message)]
  /\ shown \in [Alert -> Nat]

(* The messages of `q` announce `a`.                                         *)
Told(q, a) == \E n \in DOMAIN q : a \in q[n].done

(* A tab that was not opened yet has heard of nothing, and an event happens   *)
(* once.                                                                     *)
HeardWhileUp ==
  /\ \A t \in Tab \ opened : \A a \in Alert : knows[t][a] = "none"
  /\ \A a \in Alert : shown[a] > 0 => \E t \in Tab : knows[t][a] # "none"

(* Whoever still holds a raised alert for live is about to be told.          *)
RaisedIsTold ==
  \A a \in Alert : shown[a] > 0 =>
    \A t \in up :
      /\ knows[t][a] # "due"
      /\ knows[t][a] = "live" => \E s \in Tab : Told(mail[<<s, t>>], a)

Inv == Types /\ HeardWhileUp /\ RaisedIsTold /\ RaisedOnce

(* A message put at the end of a queue announces what it announces, and what  *)
(* stood in the queue still is announced.                                     *)
LEMMA AppendTells ==
  ASSUME NEW q \in Seq(Message), NEW m \in Message
  PROVE  /\ Append(q, m) \in Seq(Message)
         /\ \A a : Told(Append(q, m), a) <=> Told(q, a) \/ a \in m.done
  <1>1. Append(q, m) \in Seq(Message) /\ DOMAIN Append(q, m) = 1..Len(q) + 1
    OBVIOUS
  <1>2. /\ \A n \in DOMAIN q : Append(q, m)[n] = q[n]
        /\ Append(q, m)[Len(q) + 1] = m
    OBVIOUS
  <1>3. DOMAIN Append(q, m) = DOMAIN q \cup {Len(q) + 1}
    BY <1>1
  <1>. QED BY <1>1, <1>2, <1>3 DEF Told

(* Taking the first message loses only what that message announces.           *)
LEMMA TailTells ==
  ASSUME NEW q \in Seq(Message), q # <<>>
  PROVE  /\ Head(q) \in Message /\ Tail(q) \in Seq(Message)
         /\ \A a : Told(q, a) <=> Told(Tail(q), a) \/ a \in Head(q).done
  <1>1. Head(q) \in Message /\ Tail(q) \in Seq(Message) /\ Head(q) = q[1]
    OBVIOUS
  <1>2. \A n \in DOMAIN Tail(q) : n + 1 \in DOMAIN q /\ Tail(q)[n] = q[n + 1]
    OBVIOUS
  <1>3. \A n \in DOMAIN q : n = 1 \/ (n - 1 \in DOMAIN Tail(q) /\ Tail(q)[n - 1] = q[n])
    OBVIOUS
  <1>4. 1 \in DOMAIN q
    OBVIOUS
  <1>. QED BY <1>1, <1>2, <1>3, <1>4 DEF Told

(* An empty queue announces nothing.                                          *)
LEMMA EmptyTells == \A a : ~Told(<<>>, a)
  BY DEF Told

(* What is sent reaches every other tab that is up.                          *)
LEMMA SentTells ==
  ASSUME Types, NEW s \in Tab, NEW m \in Message
  PROVE  /\ Sent(s, m) \in [Tab \X Tab -> Seq(Message)]
         /\ \A r, t \in Tab, a \in Alert :
              Told(Sent(s, m)[<<r, t>>], a) <=>
                Told(mail[<<r, t>>], a) \/ (r = s /\ t # s /\ t \in up /\ a \in m.done)
  <1>1. \A p \in Tab \X Tab : mail[p] \in Seq(Message)
    BY DEF Types
  <1>2. \A p \in Tab \X Tab : Append(mail[p], m) \in Seq(Message)
    BY <1>1, AppendTells
  <1>3. \A r, t \in Tab :
          Sent(s, m)[<<r, t>>] = IF r = s /\ t # s /\ t \in up
                             THEN Append(mail[<<r, t>>], m) ELSE mail[<<r, t>>]
    BY DEF Sent
  <1>. QED BY <1>1, <1>2, <1>3, AppendTells DEF Sent

(* What a tab schedules is typed, and only a tab that is up settles.         *)
LEMMA ScheduleTypes ==
  ASSUME Types, NEW t \in up, NEW queued, NEW known \in [Alert -> Knows], NEW infront,
         NEW leaders, Schedule(t, queued, known, infront, leaders)
  PROVE  /\ knows' \in [Tab -> [Alert -> Knows]]
         /\ pending' \in [Tab -> SUBSET Alert] /\ settling' \in [Tab -> BOOLEAN]
         /\ \A s \in Tab : settling'[s] => s \in up
         /\ knows'[t] = known /\ \A s \in Tab \ {t} : knows'[s] = knows[s]
<1>1. t \in Tab
  BY DEF Types
<1>2. \A q : q \cap Eligible(t, known, infront) \in SUBSET Alert
  BY DEF Eligible
<1>3. /\ knows' = [knows EXCEPT ![t] = known]
      /\ pending' = [pending EXCEPT ![t] = queued \cap Eligible(t, known, infront)]
      /\ \E b \in BOOLEAN : settling' = [settling EXCEPT ![t] = b]
  BY <1>1 DEF Schedule, Types
<1>4. pending' \in [Tab -> SUBSET Alert]
  BY <1>2, <1>3 DEF Types
<1>. QED BY <1>1, <1>3, <1>4 DEF Types

(* markBrowserDelivered changes what is live among the named alerts, and      *)
(* nothing else.                                                              *)
LEMMA DeliveredTypes ==
  ASSUME NEW known \in [Alert -> Knows], NEW done
  PROVE  /\ Delivered(known, done) \in [Alert -> Knows]
         /\ \A a \in Alert :
              IF a \in done /\ known[a] = "live" THEN Delivered(known, done)[a] = "delivered"
              ELSE Delivered(known, done)[a] = known[a]
  BY DEF Delivered, Knows

(* Every step keeps the types.                                                *)
LEMMA TypesInductive == Types /\ [Next]_vars => Types'
<1>. SUFFICES ASSUME Types, [Next]_vars PROVE Types'
  OBVIOUS
<1>1. ASSUME NEW t \in Tab, Open(t) PROVE Types'
  BY <1>1 DEF Open, Types, tabVars
<1>2. ASSUME NEW t \in Tab, Close(t) PROVE Types'
  <2>1. mail' \in [Tab \X Tab -> Seq(Message)]
    BY <1>2 DEF Close, Types
  <2>. QED BY <1>2, <2>1 DEF Close, Forget, Types
<1>3. ASSUME NEW t \in Tab, Refresh(t) PROVE Types'
  <2>1. knows[t] \in [Alert -> Knows] /\ t \in up
    BY <1>3 DEF Refresh, Types
  <2>. QED BY <1>3, <2>1, ScheduleTypes DEF Refresh, Types
<1>4. ASSUME NEW t \in Tab, Settle(t) PROVE Types'
  <2>1. PICK raised \in SUBSET Alert :
          /\ shown' = [a \in Alert |-> IF a \in raised THEN shown[a] + 1 ELSE shown[a]]
          /\ knows' = [knows EXCEPT ![t] = Delivered(@, raised)]
          /\ mail' = Announced(t, raised)
          /\ pending' = [pending EXCEPT ![t] = (@ \ raised) \cap Eligible(t, knows'[t], front)]
    BY <1>4 DEF Settle, Marked, Eligible
  <2>2. shown' \in [Alert -> Nat]
    BY <2>1 DEF Types
  <2>3. knows' \in [Tab -> [Alert -> Knows]]
    BY <2>1, DeliveredTypes DEF Types
  <2>4. [live |-> {}, done |-> raised] \in Message
    BY DEF Message
  <2>5. mail' \in [Tab \X Tab -> Seq(Message)]
    <3>1. Sent(t, [live |-> {}, done |-> raised]) \in [Tab \X Tab -> Seq(Message)]
      BY <2>4, SentTells
    <3>. QED BY <2>1, <3>1 DEF Announced, Types
  <2>6. pending' \in [Tab -> SUBSET Alert]
    BY <2>1 DEF Types
  <2>. QED BY <1>4, <2>2, <2>3, <2>5, <2>6 DEF Settle, Types
<1>5. ASSUME NEW t \in Tab, Gain(t) PROVE Types'
  <2>1. knows[t] \in [Alert -> Knows] /\ t \in up
    BY <1>5 DEF Gain, Types
  <2>. QED BY <1>5, <2>1, ScheduleTypes DEF Gain, OnLeader, Types
<1>6. ASSUME NEW t \in Tab, Lose(t) PROVE Types'
  BY <1>6 DEF Lose, Types, tabVars
<1>7. ASSUME NEW t \in Tab, NEW a \in Alert, Arrive(t, a) PROVE Types'
  <2>1. PICK what \in {"live", "over"} :
          Schedule(t, pending[t] \cup {a}, [knows[t] EXCEPT ![a] = what], front, held)
    BY <1>7 DEF Arrive
  <2>2. [knows[t] EXCEPT ![a] = what] \in [Alert -> Knows] /\ t \in up
    BY <1>7 DEF Arrive, Types, Knows
  <2>3. [live |-> {a}, done |-> {}] \in Message
    BY DEF Message
  <2>4. mail' \in [Tab \X Tab -> Seq(Message)]
    BY <1>7, <2>3, SentTells DEF Arrive
  <2>. QED BY <1>7, <2>1, <2>2, <2>4, ScheduleTypes DEF Arrive, Types
<1>8. ASSUME NEW t \in Tab, NEW a \in Alert, See(t, a) PROVE Types'
  <2>1. [knows[t] EXCEPT ![a] = "over"] \in [Alert -> Knows] /\ t \in up
    BY <1>8 DEF See, Types, Knows
  <2>. QED BY <1>8, <2>1, ScheduleTypes DEF See, Types
<1>9. ASSUME NEW a \in Alert, Happen(a) PROVE Types'
  <2>1. knows' \in [Tab -> [Alert -> Knows]]
    BY <1>9 DEF Happen, Types, Knows
  <2>. QED BY <1>9, <2>1 DEF Happen, Types
<1>10. ASSUME NEW s \in Tab, NEW t \in Tab, Receive(s, t) PROVE Types'
  <2>1. mail[<<s, t>>] \in Seq(Message) /\ mail[<<s, t>>] # <<>> /\ t \in up
        /\ knows[t] \in [Alert -> Knows]
    BY <1>10 DEF Receive, Types
  <2>2. Delivered(knows[t], Head(mail[<<s, t>>]).done) \in [Alert -> Knows]
    BY <2>1, DeliveredTypes
  <2>3. mail' \in [Tab \X Tab -> Seq(Message)]
    BY <1>10, <2>1, TailTells DEF Receive, Types
  <2>. QED BY <1>10, <2>1, <2>2, <2>3, ScheduleTypes DEF Receive, Types
<1>11. CASE UNCHANGED vars
  BY <1>11 DEF vars, Types
<1>. QED BY <1>1, <1>2, <1>3, <1>4, <1>5, <1>6, <1>7, <1>8, <1>9, <1>10, <1>11
            DEF Next

(* A tab hears of an event only while it is up, and what it heard stays.     *)
LEMMA HeardInductive == Types /\ HeardWhileUp /\ [Next]_vars => HeardWhileUp'
<1>. SUFFICES ASSUME Types, HeardWhileUp, [Next]_vars PROVE HeardWhileUp'
  OBVIOUS
<1>same. ASSUME opened \subseteq opened', shown' = shown,
                \A t \in Tab, a \in Alert :
                  /\ t \notin opened => knows'[t][a] = knows[t][a]
                  /\ knows[t][a] # "none" => knows'[t][a] # "none"
         PROVE  HeardWhileUp'
  BY <1>same DEF HeardWhileUp
<1>up. ASSUME NEW t \in up, NEW known \in [Alert -> Knows], NEW queued, NEW infront,
              NEW leaders, Schedule(t, queued, known, infront, leaders),
              \A a \in Alert : knows[t][a] # "none" => known[a] # "none",
              opened' = opened, shown' = shown
       PROVE  HeardWhileUp'
  <2>1. t \in opened /\ t \in Tab
    BY DEF Types
  <2>2. knows'[t] = known /\ \A s \in Tab \ {t} : knows'[s] = knows[s]
    BY <1>up, ScheduleTypes
  <2>. QED BY <1>same, <1>up, <2>1, <2>2
<1>1. ASSUME NEW t \in Tab, Open(t) \/ Close(t) \/ Lose(t) PROVE HeardWhileUp'
  BY <1>1, <1>same DEF Open, Close, Lose, tabVars
<1>2. ASSUME NEW t \in Tab, Refresh(t) \/ Gain(t) PROVE HeardWhileUp'
  <2>1. knows[t] \in [Alert -> Knows] /\ t \in up /\ opened' = opened /\ shown' = shown
    BY <1>2 DEF Refresh, Gain, Types
  <2>. QED BY <1>2, <1>up, <2>1 DEF Refresh, Gain, OnLeader
<1>3. ASSUME NEW t \in Tab, NEW a \in Alert, Arrive(t, a) \/ See(t, a) PROVE HeardWhileUp'
  <2>1. PICK what, queued :
          /\ what \in {"live", "over"}
          /\ Schedule(t, queued, [knows[t] EXCEPT ![a] = what], front, held)
    BY <1>3 DEF Arrive, See
  <2>2. /\ [knows[t] EXCEPT ![a] = what] \in [Alert -> Knows] /\ t \in up
        /\ opened' = opened /\ shown' = shown
        /\ \A b \in Alert : knows[t][b] # "none" => [knows[t] EXCEPT ![a] = what][b] # "none"
    BY <1>3, <2>1 DEF Arrive, See, Types, Knows
  <2>. QED BY <1>up, <2>1, <2>2
<1>4. ASSUME NEW a \in Alert, Happen(a) PROVE HeardWhileUp'
  <2>1. \A t \in Tab, b \in Alert :
          knows'[t][b] = IF b = a THEN IF t \in up THEN "due" ELSE "none" ELSE knows[t][b]
    BY <1>4 DEF Happen, Types
  <2>. QED BY <1>4, <1>same, <2>1 DEF Happen, Types, HeardWhileUp
<1>5. ASSUME NEW s \in Tab, NEW t \in Tab, Receive(s, t) PROVE HeardWhileUp'
  <2>1. /\ mail[<<s, t>>] \in Seq(Message) /\ t \in up
        /\ knows[t] \in [Alert -> Knows] /\ opened' = opened /\ shown' = shown
    BY <1>5 DEF Receive, Types
  <2>2. PICK done, queued, leaders :
          Schedule(t, queued, Delivered(knows[t], done), front, leaders)
    BY <1>5 DEF Receive
  <2>. QED BY <1>up, <2>1, <2>2, DeliveredTypes
<1>6. ASSUME NEW t \in Tab, Settle(t) PROVE HeardWhileUp'
  <2>1. PICK raised \in SUBSET Alert :
          /\ \A a \in raised : knows[t][a] = "live"
          /\ shown' = [a \in Alert |-> IF a \in raised THEN shown[a] + 1 ELSE shown[a]]
          /\ knows' = [knows EXCEPT ![t] = Delivered(@, raised)]
    BY <1>6 DEF Settle, Marked, Eligible
  <2>2. \A u \in Tab, a \in Alert :
          IF u = t /\ a \in raised THEN knows'[u][a] = "delivered"
          ELSE knows'[u][a] = knows[u][a]
    BY <2>1, DeliveredTypes DEF Types
  <2>3. t \in opened /\ opened' = opened
    BY <1>6 DEF Settle, Types
  <2>4. \A a \in Alert : shown'[a] > 0 => shown[a] > 0 \/ a \in raised
    BY <2>1 DEF Types
  <2>. QED BY <2>2, <2>3, <2>4 DEF HeardWhileUp
<1>7. CASE UNCHANGED vars
  BY <1>7 DEF vars, HeardWhileUp
<1>. QED BY <1>1, <1>2, <1>3, <1>4, <1>5, <1>6, <1>7 DEF Next

(* A step that raises nothing: for whoever is up nothing changes of what was  *)
(* raised, or it is over for them.                                           *)
LEMMA NothingRaised ==
  ASSUME Inv, shown' = shown, up' \subseteq Tab,
         \A t \in up', a \in Alert : shown[a] > 0 =>
           \/ /\ t \in up /\ knows'[t][a] = knows[t][a]
              /\ \A s \in Tab : Told(mail[<<s, t>>], a) => Told(mail'[<<s, t>>], a)
           \/ knows'[t][a] \notin {"due", "live"}
  PROVE  RaisedIsTold' /\ RaisedOnce'
<1>1. RaisedOnce'
  BY DEF Inv, RaisedOnce
<1>2. RaisedIsTold'
  BY DEF Inv, RaisedIsTold
<1>. QED BY <1>1, <1>2

(* The tab that raises has no message left to read, and nobody who is up is  *)
(* still to hear of the event: each other one that is up will be told.       *)
LEMMA SettleRaisesOnce ==
  ASSUME Inv, {"events", "messages"} \subseteq Timely, NEW t \in Tab, Settle(t)
  PROVE  RaisedIsTold' /\ RaisedOnce'
<1>1. PICK raised \in SUBSET Alert :
        /\ raised \subseteq pending[t]
        /\ \A a \in raised : knows[t][a] = "live"
        /\ shown' = [a \in Alert |-> IF a \in raised THEN shown[a] + 1 ELSE shown[a]]
        /\ knows' = [knows EXCEPT ![t] = Delivered(@, raised)]
        /\ mail' = Announced(t, raised)
  BY DEF Settle, Marked, Eligible
<1>2. /\ t \in up /\ up' = up /\ up \subseteq Tab
      /\ \A s \in Tab : mail[<<s, t>>] = <<>>
      /\ \A s \in up, a \in raised : knows[s][a] # "due"
  BY <1>1 DEF Settle, InTime, Inv, Types
<1>3. \A a \in raised : shown[a] = 0
  <2>1. \A s \in Tab, a \in Alert : ~Told(mail[<<s, t>>], a)
    BY <1>2, EmptyTells
  <2>2. \A a \in raised : ~(shown[a] > 0)
    BY <1>1, <1>2, <2>1 DEF Inv, RaisedIsTold
  <2>. QED BY <2>2 DEF Inv, Types
<1>4. RaisedOnce'
  BY <1>1, <1>3 DEF Inv, Types, RaisedOnce
<1>5. \A u \in Tab, a \in Alert :
        IF u = t /\ a \in raised THEN knows'[u][a] = "delivered"
        ELSE knows'[u][a] = knows[u][a]
  BY <1>1, DeliveredTypes DEF Inv, Types
<1>6. \A s, u \in Tab, a \in Alert :
        Told(mail'[<<s, u>>], a) <=>
          Told(mail[<<s, u>>], a) \/ (s = t /\ u # t /\ u \in up /\ a \in raised)
  <2>1. CASE raised = {}
    BY <1>1, <2>1 DEF Announced
  <2>2. CASE raised # {}
    <3>. DEFINE m == [live |-> {}, done |-> raised]
    <3>1. m \in Message /\ m.done = raised
      BY DEF Message
    <3>2. mail' = Sent(t, m)
      BY <1>1, <2>2 DEF Announced
    <3>. HIDE DEF m
    <3>. QED BY <3>1, <3>2, SentTells DEF Inv
  <2>. QED BY <2>1, <2>2
<1>7. ASSUME NEW a \in Alert, shown'[a] > 0, NEW u \in up
      PROVE  /\ knows'[u][a] # "due"
             /\ knows'[u][a] = "live" => \E s \in Tab : Told(mail'[<<s, u>>], a)
  <2>1. CASE a \in raised
    BY <1>2, <1>5, <1>6, <2>1
  <2>2. CASE a \notin raised
    <3>1. shown[a] > 0 /\ knows'[u][a] = knows[u][a] /\ u \in Tab
      BY <1>1, <1>2, <1>5, <1>7, <2>2
    <3>. QED BY <1>6, <1>7, <3>1 DEF Inv, RaisedIsTold
  <2>. QED BY <2>1, <2>2
<1>. QED BY <1>2, <1>4, <1>7 DEF RaisedIsTold

(* When events and messages outrun the settlement timer, every step keeps     *)
(* that a raised alert is told to whoever holds it for live, and so that it   *)
(* is raised once.                                                            *)
LEMMA RaisedInductive ==
  ASSUME Inv, {"events", "messages"} \subseteq Timely, [Next]_vars
  PROVE  RaisedIsTold' /\ RaisedOnce'
<1>. USE DEF Inv
<1>up. up \subseteq Tab
  BY DEF Types
<1>1. ASSUME NEW t \in Tab, Open(t) PROVE RaisedIsTold' /\ RaisedOnce'
  BY <1>1, <1>up, NothingRaised DEF Open, tabVars, HeardWhileUp
<1>2. ASSUME NEW t \in Tab, Close(t) PROVE RaisedIsTold' /\ RaisedOnce'
  <2>1. \A s \in Tab, u \in up' : mail'[<<s, u>>] = mail[<<s, u>>]
    BY <1>2, <1>up DEF Close
  <2>. QED BY <1>2, <1>up, <2>1, NothingRaised DEF Close
<1>3. ASSUME NEW t \in Tab, Refresh(t) \/ Gain(t) PROVE RaisedIsTold' /\ RaisedOnce'
  <2>1. knows' = knows /\ UNCHANGED <<up, mail, shown>>
    BY <1>3, ScheduleTypes DEF Refresh, Gain, OnLeader, Types, Schedule
  <2>. QED BY <1>up, <2>1, NothingRaised
<1>4. ASSUME NEW t \in Tab, Lose(t) PROVE RaisedIsTold' /\ RaisedOnce'
  BY <1>4, <1>up, NothingRaised DEF Lose, tabVars
<1>5. ASSUME NEW t \in Tab, NEW b \in Alert, Arrive(t, b) PROVE RaisedIsTold' /\ RaisedOnce'
  <2>1. t \in up /\ ~(shown[b] > 0) /\ UNCHANGED <<up, shown>>
    BY <1>5 DEF Arrive, RaisedIsTold
  <2>2. \A u \in Tab, a \in Alert : a # b => knows'[u][a] = knows[u][a]
    BY <1>5 DEF Arrive, Schedule, Types
  <2>3. [live |-> {b}, done |-> {}] \in Message
    BY DEF Message
  <2>4. \A s, u \in Tab, a \in Alert : Told(mail[<<s, u>>], a) => Told(mail'[<<s, u>>], a)
    BY <1>5, <2>3, SentTells DEF Arrive
  <2>. QED BY <1>up, <2>1, <2>2, <2>4, NothingRaised
<1>6. ASSUME NEW t \in Tab, NEW b \in Alert, See(t, b) PROVE RaisedIsTold' /\ RaisedOnce'
  <2>1. \A u \in Tab, a \in Alert :
          knows'[u][a] = IF u = t /\ a = b THEN "over" ELSE knows[u][a]
    BY <1>6 DEF See, Schedule, Types
  <2>. QED BY <1>6, <1>up, <2>1, NothingRaised DEF See
<1>7. ASSUME NEW b \in Alert, Happen(b) PROVE RaisedIsTold' /\ RaisedOnce'
  <2>1. ~(shown[b] > 0)
    BY <1>7 DEF Happen, HeardWhileUp
  <2>2. \A u \in Tab, a \in Alert : a # b => knows'[u][a] = knows[u][a]
    BY <1>7 DEF Happen, Types
  <2>. QED BY <1>7, <1>up, <2>1, <2>2, NothingRaised DEF Happen
<1>8. ASSUME NEW s \in Tab, NEW t \in Tab, Receive(s, t) PROVE RaisedIsTold' /\ RaisedOnce'
  <2>. DEFINE m == Head(mail[<<s, t>>])
  <2>1. /\ mail[<<s, t>>] \in Seq(Message) /\ mail[<<s, t>>] # <<>>
        /\ knows[t] \in [Alert -> Knows] /\ UNCHANGED <<up, shown>> /\ t \in up
    BY <1>8 DEF Receive, Types
  <2>2. /\ knows' = [knows EXCEPT ![t] = Delivered(knows[t], m.done)]
        /\ mail' = [mail EXCEPT ![<<s, t>>] = Tail(@)]
    BY <1>8 DEF Receive, Schedule
  <2>. HIDE DEF m
  <2>3. \A u \in Tab, a \in Alert :
          IF u = t /\ a \in m.done /\ knows[t][a] = "live" THEN knows'[u][a] = "delivered"
          ELSE knows'[u][a] = knows[u][a]
    <3>1. knows'[t] = Delivered(knows[t], m.done) /\ \A u \in Tab \ {t} : knows'[u] = knows[u]
      BY <2>2 DEF Types
    <3>. QED BY <2>1, <3>1, DeliveredTypes
  <2>4. \A r, u \in Tab, a \in Alert :
          Told(mail[<<r, u>>], a) =>
            Told(mail'[<<r, u>>], a) \/ (u = t /\ a \in m.done)
    <3>1. \A a \in Alert : Told(mail[<<s, t>>], a) <=> Told(Tail(mail[<<s, t>>]), a) \/ a \in m.done
      BY <2>1, TailTells DEF m
    <3>2. mail'[<<s, t>>] = Tail(mail[<<s, t>>])
      BY <2>2 DEF Types
    <3>3. \A r, u \in Tab : <<r, u>> # <<s, t>> => mail'[<<r, u>>] = mail[<<r, u>>]
      BY <2>2 DEF Types
    <3>. QED BY <3>1, <3>2, <3>3
  <2>5. ASSUME NEW u \in up, NEW a \in Alert, shown[a] > 0
        PROVE  \/ /\ knows'[u][a] = knows[u][a]
                  /\ \A r \in Tab : Told(mail[<<r, u>>], a) => Told(mail'[<<r, u>>], a)
               \/ knows'[u][a] \notin {"due", "live"}
    <3>1. knows[u][a] # "due" /\ u \in Tab
      BY <1>up, <2>5 DEF RaisedIsTold
    <3>. QED BY <2>3, <2>4, <3>1
  <2>. QED BY <1>up, <2>1, <2>5, NothingRaised
<1>9. ASSUME NEW t \in Tab, Settle(t) PROVE RaisedIsTold' /\ RaisedOnce'
  BY <1>9, SettleRaisesOnce
<1>10. CASE UNCHANGED vars
  BY <1>10, <1>up, NothingRaised DEF vars
<1>. QED BY <1>1, <1>2, <1>3, <1>4, <1>5, <1>6, <1>7, <1>8, <1>9, <1>10 DEF Next

(* What the invariants say holds with no tab open and nothing raised.         *)
LEMMA InitTyped == Init => Types /\ HeardWhileUp /\ RaisedIsTold /\ RaisedOnce
  BY DEF Init, Types, HeardWhileUp, RaisedIsTold, RaisedOnce, Knows

(* An alert is raised once, by whichever tab leads, as long as events and     *)
(* messages come before the settlement timers end.                           *)
THEOREM NeverTwice ==
  ASSUME {"events", "messages"} \subseteq Timely
  PROVE  Spec => []RaisedOnce
<1>1. Init => Inv
  BY InitTyped DEF Inv
<1>2. Inv /\ [Next]_vars => Inv'
  BY TypesInductive, HeardInductive, RaisedInductive DEF Inv
<1>3. Inv => RaisedOnce
  BY DEF Inv
<1>. QED BY <1>1, <1>2, <1>3, PTL DEF Spec

(* Nobody holds an alert for delivered, or is told so, but after it was       *)
(* raised: what is left of it once a step has shown what it raised.          *)
LEMMA DeliveredKept ==
  ASSUME Types, DeliveredWasShown,
         \A a \in Alert : shown[a] > 0 => shown'[a] > 0,
         \A t \in Tab, a \in Alert :
           knows'[t][a] = "delivered" =>
             \/ knows[t][a] = "delivered" \/ shown'[a] > 0
             \/ \E s \in Tab : Told(mail[<<s, t>>], a),
         \A s, t \in Tab, a \in Alert :
           Told(mail'[<<s, t>>], a) => Told(mail[<<s, t>>], a) \/ shown'[a] > 0
  PROVE  DeliveredWasShown'
<1>1. \A a \in Alert :
        \/ shown[a] > 0
        \/ /\ \A t \in Tab : knows[t][a] # "delivered"
           /\ \A s, t \in Tab : ~Told(mail[<<s, t>>], a)
  BY DEF DeliveredWasShown, Told
<1>2. \A a \in Alert :
        \/ shown'[a] > 0
        \/ /\ \A t \in Tab : knows'[t][a] # "delivered"
           /\ \A s, t \in Tab : ~Told(mail'[<<s, t>>], a)
  BY <1>1
<1>. QED BY <1>2 DEF DeliveredWasShown, Told

(* Every step keeps that an alert marked or announced as delivered was shown. *)
LEMMA DeliveredInductive ==
  Types /\ DeliveredWasShown /\ [Next]_vars => DeliveredWasShown'
<1>. SUFFICES ASSUME Types, DeliveredWasShown, [Next]_vars
              PROVE  DeliveredWasShown'
  OBVIOUS
<1>1. ASSUME NEW t \in Tab, Open(t) \/ Lose(t) PROVE DeliveredWasShown'
  BY <1>1, DeliveredKept DEF Open, Lose, tabVars
<1>2. ASSUME NEW t \in Tab, Close(t) PROVE DeliveredWasShown'
  <2>1. \A r, u \in Tab, a \in Alert : Told(mail'[<<r, u>>], a) => Told(mail[<<r, u>>], a)
    <3>1. \A r, u \in Tab :
            mail'[<<r, u>>] = IF u = t THEN <<>> ELSE mail[<<r, u>>]
      BY <1>2 DEF Close
    <3>. QED BY <3>1, EmptyTells
  <2>. QED BY <1>2, <2>1, DeliveredKept DEF Close
<1>3. ASSUME NEW t \in Tab, Refresh(t) \/ Gain(t) PROVE DeliveredWasShown'
  <2>1. knows' = knows /\ UNCHANGED <<mail, shown>>
    BY <1>3 DEF Refresh, Gain, OnLeader, Types, Schedule
  <2>. QED BY <2>1, DeliveredKept
<1>4. ASSUME NEW t \in Tab, NEW b \in Alert, Arrive(t, b) PROVE DeliveredWasShown'
  <2>1. \A u \in Tab, a \in Alert : knows'[u][a] = "delivered" => knows[u][a] = "delivered"
    BY <1>4 DEF Arrive, Schedule, Types
  <2>. DEFINE m == [live |-> {b}, done |-> {}]
  <2>2. m \in Message /\ m.done = {}
    BY DEF Message
  <2>3. mail' = Sent(t, m) /\ shown' = shown
    BY <1>4 DEF Arrive
  <2>. HIDE DEF m
  <2>4. \A r, u \in Tab, a \in Alert : Told(mail'[<<r, u>>], a) => Told(mail[<<r, u>>], a)
    BY <2>2, <2>3, SentTells
  <2>. QED BY <2>1, <2>3, <2>4, DeliveredKept
<1>5. ASSUME NEW t \in Tab, NEW b \in Alert, See(t, b) PROVE DeliveredWasShown'
  <2>1. \A u \in Tab, a \in Alert : knows'[u][a] = "delivered" => knows[u][a] = "delivered"
    BY <1>5 DEF See, Schedule, Types
  <2>. QED BY <1>5, <2>1, DeliveredKept DEF See
<1>6. ASSUME NEW b \in Alert, Happen(b) PROVE DeliveredWasShown'
  <2>1. \A u \in Tab, a \in Alert : knows'[u][a] = "delivered" => knows[u][a] = "delivered"
    BY <1>6 DEF Happen, Types
  <2>. QED BY <1>6, <2>1, DeliveredKept DEF Happen
<1>7. ASSUME NEW s \in Tab, NEW t \in Tab, Receive(s, t) PROVE DeliveredWasShown'
  <2>. DEFINE m == Head(mail[<<s, t>>])
  <2>1. /\ mail[<<s, t>>] \in Seq(Message) /\ mail[<<s, t>>] # <<>>
        /\ knows[t] \in [Alert -> Knows] /\ shown' = shown
    BY <1>7 DEF Receive, Types
  <2>2. /\ knows' = [knows EXCEPT ![t] = Delivered(knows[t], m.done)]
        /\ mail' = [mail EXCEPT ![<<s, t>>] = Tail(@)]
    BY <1>7 DEF Receive, Schedule
  <2>3. \A a \in Alert : a \in m.done => Told(mail[<<s, t>>], a)
    BY <2>1, TailTells
  <2>. HIDE DEF m
  <2>4. \A u \in Tab, a \in Alert :
          knows'[u][a] = "delivered" => knows[u][a] = "delivered" \/ (u = t /\ a \in m.done)
    <3>1. knows'[t] = Delivered(knows[t], m.done) /\ \A u \in Tab \ {t} : knows'[u] = knows[u]
      BY <2>2 DEF Types
    <3>. QED BY <2>1, <3>1, DeliveredTypes
  <2>5. \A r, u \in Tab, a \in Alert : Told(mail'[<<r, u>>], a) => Told(mail[<<r, u>>], a)
    BY <2>1, <2>2, TailTells DEF Types
  <2>. QED BY <2>1, <2>3, <2>4, <2>5, DeliveredKept
<1>8. ASSUME NEW t \in Tab, Settle(t) PROVE DeliveredWasShown'
  <2>1. PICK raised \in SUBSET Alert :
          /\ shown' = [a \in Alert |-> IF a \in raised THEN shown[a] + 1 ELSE shown[a]]
          /\ knows' = [knows EXCEPT ![t] = Delivered(@, raised)]
          /\ mail' = Announced(t, raised)
    BY <1>8 DEF Settle, Marked, Eligible
  <2>2. \A a \in Alert : (shown[a] > 0 \/ a \in raised) => shown'[a] > 0
    BY <2>1 DEF Types
  <2>3. \A u \in Tab, a \in Alert :
          knows'[u][a] = "delivered" => knows[u][a] = "delivered" \/ a \in raised
    <3>1. /\ knows'[t] = Delivered(knows[t], raised) /\ knows[t] \in [Alert -> Knows]
          /\ \A u \in Tab \ {t} : knows'[u] = knows[u]
      BY <2>1 DEF Types
    <3>. QED BY <3>1, DeliveredTypes
  <2>4. \A r, u \in Tab, a \in Alert :
          Told(mail'[<<r, u>>], a) => Told(mail[<<r, u>>], a) \/ a \in raised
    <3>. DEFINE m == [live |-> {}, done |-> raised]
    <3>1. m \in Message /\ m.done = raised
      BY DEF Message
    <3>2. mail' = mail \/ mail' = Sent(t, m)
      BY <2>1 DEF Announced
    <3>. HIDE DEF m
    <3>. QED BY <3>1, <3>2, SentTells
  <2>. QED BY <2>2, <2>3, <2>4, DeliveredKept
<1>9. CASE UNCHANGED vars
  BY <1>9, DeliveredKept DEF vars
<1>. QED BY <1>1, <1>2, <1>3, <1>4, <1>5, <1>6, <1>7, <1>8, <1>9 DEF Next

(* A notification the browser refused is never taken for a delivered one, by  *)
(* any tab, whatever comes in whatever order.                                *)
THEOREM DeliveredMeansShown == Spec => []DeliveredWasShown
<1>1. Init => Types /\ DeliveredWasShown
  BY InitTyped DEF Init, DeliveredWasShown
<1>. QED BY <1>1, TypesInductive, DeliveredInductive, PTL DEF Spec

-----------------------------------------------------------------------------
(* Who leads: the lease of DeliveryLeader, for every number of tabs, every    *)
(* length of a lease and every choice of the tabs the browser throttles.      *)

(* A look at the lease keeps the types of what it changes.                 *)
LEMMA LookTypes ==
  ASSUME LeaseTypeOK, NEW i \in Id, Look(i)
  PROVE  /\ missed' \in [Id -> 0..1]
         /\ doing' \in [Id -> Doing]
         /\ leads' \in [Id -> BOOLEAN]
         /\ UNCHANGED <<lease, acting, refusals>>
<1>1. missed' \in [Id -> 0..1]
  BY DEF LeaseTypeOK, Look
<1>2. doing' \in [Id -> Doing]
  <2>1. doing' = [doing EXCEPT ![i] = doing'[i]] /\ doing'[i] \in Doing
    BY DEF LeaseTypeOK, Look, Doing
  <2>. QED BY <2>1 DEF LeaseTypeOK
<1>3. leads' \in [Id -> BOOLEAN]
  BY DEF LeaseTypeOK, Look
<1>. QED BY <1>1, <1>2, <1>3 DEF Look

(* Every variable keeps its type.                                          *)
THEOREM LeaseTypeCorrect == LeaseSpec => []LeaseTypeOK
<1>1. LeaseInit => LeaseTypeOK
  BY LeaderAssumption DEF LeaseInit, LeaseTypeOK, NoLease, Life, Doing
<1>2. LeaseTypeOK /\ [LeaseNext]_leaseVars => LeaseTypeOK'
  <2>. SUFFICES ASSUME LeaseTypeOK, [LeaseNext]_leaseVars PROVE LeaseTypeOK'
    OBVIOUS
  <2>. USE LeaderAssumption
  <2>1. ASSUME NEW i \in Id, Start(i) PROVE LeaseTypeOK'
    BY <2>1, LookTypes DEF Start, LeaseTypeOK, Life
  <2>2. ASSUME NEW i \in Id, Tick(i) PROVE LeaseTypeOK'
    BY <2>2, LookTypes DEF Tick, LeaseTypeOK
  <2>3. ASSUME NEW i \in Id, Write(i) PROVE LeaseTypeOK'
    BY <2>3 DEF Write, LeaseTypeOK, Own, Settles, Doing
  <2>4. ASSUME NEW i \in Id, Ask(i) PROVE LeaseTypeOK'
    BY <2>4 DEF Ask, LeaseTypeOK, Doing
  <2>5. ASSUME NEW i \in Id, Keep(i) PROVE LeaseTypeOK'
    BY <2>5 DEF Keep, LeaseTypeOK, Own, Doing
  <2>6. ASSUME NEW i \in Id, Acted(i) PROVE LeaseTypeOK'
    BY <2>6 DEF Acted, LeaseTypeOK
  <2>7. ASSUME NEW i \in Id, Blocked(i) PROVE LeaseTypeOK'
    <3>1. leads' \in [Id -> BOOLEAN]
      BY <2>7, Zenon DEF Blocked, LeaseTypeOK
    <3>2. doing' \in [Id -> Doing] /\ missed' \in [Id -> 0..1]
      BY <2>7 DEF Blocked, LeaseTypeOK, Doing
    <3>3. refusals' \in 0..MaxRefusals
      BY <2>7 DEF Blocked, LeaseTypeOK
    <3>. QED BY <2>7, <3>1, <3>2, <3>3 DEF Blocked, LeaseTypeOK
  <2>8. ASSUME NEW i \in Id, Stop(i) PROVE LeaseTypeOK'
    BY <2>8 DEF Stop, LeaseTypeOK, Doing, Life
  <2>9. ASSUME NEW i \in Id, Yield(i) PROVE LeaseTypeOK'
    BY <2>9 DEF Yield, LeaseTypeOK, NoLease, Doing
  <2>10. ASSUME NEW i \in Id, Crash(i) PROVE LeaseTypeOK'
    BY <2>10 DEF Crash, LeaseTypeOK, Doing, Life
  <2>11. CASE Beat
    BY <2>11 DEF Beat, LeaseTypeOK
  <2>12. CASE UNCHANGED leaseVars
    BY <2>12 DEF leaseVars, LeaseTypeOK
  <2>. QED BY <2>1, <2>2, <2>3, <2>4, <2>5, <2>6, <2>7, <2>8, <2>9, <2>10,
              <2>11, <2>12 DEF LeaseNext
<1>. QED BY <1>1, <1>2, PTL DEF LeaseSpec
-----------------------------------------------------------------------------
(* A tab that leads, or that may go on to without another look: it acts,   *)
(* it found the lease to be its own, or it would on looking again.         *)
Strong(i) ==
  \/ acting[i]
  \/ doing[i] \in {"renew", "keep"}
  \/ lease.id = i /\ (leads[i] \/ missed[i] > 0)

OneStrong == \A i, j \in Id : Strong(i) /\ Strong(j) => i = j

(* Who claims a lease leads nothing yet and looked in this heartbeat.      *)
ClaimsAreWeak == \A i \in Id : doing[i] = "claim" => ~leads[i] /\ missed[i] = 0

(* Who has not started has not written.                                    *)
NewIsAbsent == \A i \in Id : life[i] = "new" => lease.id # i /\ doing[i] = "rest"

SettleInv == LeaseTypeOK /\ OneStrong /\ ClaimsAreWeak /\ NewIsAbsent

(* No step makes a tab strong while another stays so.                      *)
LEMMA StaysOneStrong ==
  ASSUME SettleInv, [LeaseNext]_leaseVars
  PROVE  OneStrong'
<1>. USE DEF SettleInv, LeaseTypeOK
<1>1. SUFFICES ASSUME NEW k \in Id, Strong(k)', ~Strong(k)
               PROVE  \A j \in Id : Strong(j)' => j = k
  BY DEF OneStrong
<1>2. ASSUME NEW i \in Id, Start(i) PROVE FALSE
  BY <1>1, <1>2 DEF Start, Look, Strong, NewIsAbsent
<1>3. ASSUME NEW i \in Id, Tick(i) PROVE FALSE
  BY <1>1, <1>3 DEF Tick, Look, Strong, Free
<1>4. ASSUME NEW i \in Id, Write(i) PROVE FALSE
  BY <1>1, <1>4 DEF Write, Strong, Own, Settles, ClaimsAreWeak
<1>5. ASSUME NEW i \in Id, Ask(i) PROVE FALSE
  BY <1>1, <1>5 DEF Ask, Strong, Fenced
<1>6. ASSUME NEW i \in Id, Keep(i) PROVE FALSE
  BY <1>1, <1>6 DEF Keep, Strong, Own
<1>7. ASSUME NEW i \in Id, Acted(i) PROVE FALSE
  BY <1>1, <1>7 DEF Acted, Strong
<1>8. ASSUME NEW i \in Id, Blocked(i) PROVE FALSE
  BY <1>1, <1>8 DEF Blocked, Strong
<1>9. ASSUME NEW i \in Id, Stop(i) PROVE FALSE
  BY <1>1, <1>9 DEF Stop, Strong
<1>10. ASSUME NEW i \in Id, Yield(i) PROVE FALSE
  BY <1>1, <1>10, LeaderAssumption DEF Yield, Strong, NoLease
<1>11. ASSUME NEW i \in Id, Crash(i) PROVE FALSE
  BY <1>1, <1>11 DEF Crash, Strong
<1>12. CASE Beat
  <2>1. \A j \in Id : doing'[j] = "rest" /\ ~acting'[j]
    BY <1>12 DEF Beat, Free
  <2>2. \A j \in Id : Strong(j)' => lease'.id = j
    BY <2>1 DEF Strong
  <2>. QED BY <1>1, <2>2
<1>13. CASE UNCHANGED leaseVars
  BY <1>1, <1>13 DEF leaseVars, Strong
<1>. QED BY <1>2, <1>3, <1>4, <1>5, <1>6, <1>7, <1>8, <1>9, <1>10, <1>11,
            <1>12, <1>13 DEF LeaseNext

(* The settling of a lease is an inductive invariant.                      *)
LEMMA SettleInductive == SettleInv /\ [LeaseNext]_leaseVars /\ LeaseTypeOK' => SettleInv'
<1>. SUFFICES ASSUME SettleInv, [LeaseNext]_leaseVars, LeaseTypeOK' PROVE SettleInv'
  OBVIOUS
<1>1. OneStrong'
  BY StaysOneStrong
<1>2. ClaimsAreWeak' /\ NewIsAbsent'
  <2>. USE LeaderAssumption
       DEF SettleInv, LeaseTypeOK, ClaimsAreWeak, NewIsAbsent
  <2>1. ASSUME NEW i \in Id, Start(i) \/ Tick(i)
        PROVE  ClaimsAreWeak' /\ NewIsAbsent'
    BY <2>1 DEF Start, Tick, Look
  <2>2. ASSUME NEW i \in Id, Write(i) \/ Keep(i)
        PROVE  ClaimsAreWeak' /\ NewIsAbsent'
    BY <2>2 DEF Write, Keep, Own, Settles
  <2>3. ASSUME NEW i \in Id, Ask(i) \/ Acted(i)
        PROVE  ClaimsAreWeak' /\ NewIsAbsent'
    BY <2>3 DEF Ask, Acted, Free
  <2>4. ASSUME NEW i \in Id, Blocked(i)
        PROVE  ClaimsAreWeak' /\ NewIsAbsent'
    BY <2>4 DEF Blocked
  <2>5. ASSUME NEW i \in Id, Stop(i) \/ Yield(i) \/ Crash(i)
        PROVE  ClaimsAreWeak' /\ NewIsAbsent'
    BY <2>5 DEF Stop, Yield, Crash, NoLease
  <2>6. CASE Beat
    BY <2>6 DEF Beat, Free
  <2>7. CASE UNCHANGED leaseVars
    BY <2>7 DEF leaseVars
  <2>. QED BY <2>1, <2>2, <2>3, <2>4, <2>5, <2>6, <2>7 DEF LeaseNext
<1>. QED BY <1>1, <1>2 DEF SettleInv

(* It holds at first, when no tab has the lease or has asked for it.          *)
LEMMA SettleInit == LeaseInit => SettleInv
<1>. SUFFICES ASSUME LeaseInit PROVE SettleInv
  OBVIOUS
<1>1. LeaseTypeOK
  BY LeaderAssumption DEF LeaseInit, LeaseTypeOK, NoLease, Life, Doing
<1>2. OneStrong
  BY LeaderAssumption DEF LeaseInit, OneStrong, Strong
<1>3. ClaimsAreWeak /\ NewIsAbsent
  BY LeaderAssumption DEF LeaseInit, ClaimsAreWeak, NewIsAbsent, NoLease
<1>. QED BY <1>1, <1>2, <1>3 DEF SettleInv

(* No two tabs deliver at once, whatever the interleaving of their reads   *)
(* and writes of the lease and however long a throttled tab sleeps.        *)
THEOREM OneTabActs == LeaseSpec => []OneActs
<1>1. SettleInv => OneActs
  BY DEF SettleInv, OneStrong, Strong, OneActs
<1>. QED BY <1>1, SettleInit, SettleInductive, LeaseTypeCorrect, PTL DEF LeaseSpec
-----------------------------------------------------------------------------
Holders == {i \in Id : Fenced(i)}

(* Holders change by one tab's loss or gain, never both at once.           *)
LEMMA HoldersStep ==
  ASSUME SettleInv, [LeaseNext]_leaseVars
  PROVE  \/ Holders' = {}
         \/ Holders' \subseteq Holders
         \/ \E i \in Id : Holders \subseteq {i} /\ Holders' \subseteq {i}
<1>. USE DEF SettleInv, LeaseTypeOK, Holders, Fenced
<1>1. ASSUME NEW i \in Id, Start(i) PROVE Holders' \subseteq Holders
  BY <1>1 DEF Start, Look
<1>2. ASSUME NEW i \in Id, Tick(i) PROVE Holders' \subseteq Holders
  BY <1>2 DEF Tick, Look
<1>3. ASSUME NEW i \in Id, Write(i)
      PROVE  Holders' = {} \/ (Holders \subseteq {i} /\ Holders' \subseteq {i})
  <2>1. Holders' \subseteq {i}
    BY <1>3 DEF Write, Own
  <2>2. CASE doing[i] = "renew"
    BY <2>1, <2>2 DEF OneStrong, Strong
  <2>3. CASE doing[i] = "claim"
    BY <1>3, <2>1, <2>3 DEF Write, Settles, ClaimsAreWeak
  <2>. QED BY <1>3, <2>2, <2>3 DEF Write
<1>4. ASSUME NEW i \in Id, Keep(i)
      PROVE  Holders \subseteq {i} /\ Holders' \subseteq {i}
  <2>1. Holders' \subseteq {i}
    BY <1>4 DEF Keep, Own
  <2>. QED BY <1>4, <2>1 DEF Keep, OneStrong, Strong
<1>5. ASSUME NEW i \in Id, Ask(i) \/ Acted(i) PROVE Holders' \subseteq Holders
  BY <1>5 DEF Ask, Acted
<1>6. ASSUME NEW i \in Id, Blocked(i) PROVE Holders' \subseteq Holders
  BY <1>6 DEF Blocked
<1>7. ASSUME NEW i \in Id, Stop(i) \/ Crash(i) PROVE Holders' \subseteq Holders
  BY <1>7 DEF Stop, Crash
<1>8. ASSUME NEW i \in Id, Yield(i) PROVE Holders' = {}
  BY <1>8, LeaderAssumption DEF Yield, NoLease
<1>9. CASE Beat
  BY <1>9 DEF Beat
<1>10. CASE UNCHANGED leaseVars
  BY <1>10 DEF leaseVars
<1>. QED BY <1>1, <1>2, <1>3, <1>4, <1>5, <1>6, <1>7, <1>8, <1>9, <1>10 DEF LeaseNext

(* The lease implements a leadership of one tab at a time.                 *)
THEOREM LeaseImplementsLeadership == LeaseSpec => HoldsOneByOne
<1>1. LeaseInit => Elected!Init
  BY DEF LeaseInit, Elected!Init, Fenced
<1>2. SettleInv /\ [LeaseNext]_leaseVars => [Elected!Next]_Holders
  <2>. SUFFICES ASSUME SettleInv, [LeaseNext]_leaseVars, Holders' # Holders
                PROVE  Elected!Next
    BY DEF Elected!Next
  <2>1. \A i, j \in Holders : i = j
    BY DEF SettleInv, LeaseTypeOK, OneStrong, Strong, Holders, Fenced
  <2>2. CASE Holders' = {}
    BY <2>2 DEF Elected!Next, Elected!Lose, Holders
  <2>3. CASE Holders' \subseteq Holders
    <3>1. Holders' = {}
      BY <2>1, <2>3
    <3>. QED BY <3>1, <2>2
  <2>4. CASE Holders' # {} /\ \E i \in Id : Holders \subseteq {i} /\ Holders' \subseteq {i}
    <3>1. PICK i \in Id : Holders \subseteq {i} /\ Holders' \subseteq {i}
      BY <2>4
    <3>2. Holders = {} /\ Holders' = {i}
      BY <2>4, <3>1
    <3>. QED BY <3>2 DEF Elected!Next, Elected!Gain, Holders
  <2>. QED BY <2>2, <2>3, <2>4, HoldersStep
<1>. QED BY <1>1, <1>2, SettleInit, SettleInductive, LeaseTypeCorrect, PTL
     DEF LeaseSpec, HoldsOneByOne, Elected!Spec, Holders
=============================================================================
