------------------------------- MODULE Alerts -------------------------------
(***************************************************************************)
(* OS alerts across the tabs of one browser (browser-coordinator.ts).      *)
(* Every tab hears of an event for itself and keeps its own record of it;  *)
(* every background tab queues the alert, the leader raises it when its    *)
(* settlement timer ends, and its announcement makes the others drop it,   *)
(* so that whoever leads next does not repeat it.                          *)
(*                                                                         *)
(* Who leads is Leadership, which DeliveryLeader implements.  Permission   *)
(* is granted, preferences are at their defaults and Web Push is off.  A   *)
(* message without an alert is left out: it makes its reader drop what the *)
(* reader's next step drops anyway.                                        *)
(***************************************************************************)
EXTENDS Naturals, FiniteSets, Sequences

CONSTANTS
  Tab, Alert,
  Timely,       \* what outruns a settlement timer: "events", "messages"
  MaxFaults     \* bounds loses and failures together

ASSUME AlertsAssumption ==
  /\ IsFiniteSet(Tab) /\ Timely \subseteq {"events", "messages"}
  /\ MaxFaults \in Nat

Knows == {"none", "due", "live", "delivered", "over"}
Message == [live : SUBSET Alert, done : SUBSET Alert]

VARIABLES
  up,         \* the tabs that run, of those opened so far
  opened,
  held,       \* the leader, as a set
  front,      \* the tab in the foreground, as a set
  knows,      \* what a tab's store holds of an event, and whether it is on its way
  pending,    \* #pending
  settling,   \* #settling
  mail,       \* messages between two tabs
  shown,      \* how often an alert was raised
  loses,      \* times a tab that is up lost the leadership
  failures    \* notifications the browser refused to show

tabVars == <<knows, pending, settling, mail, shown>>
vars == <<up, opened, held, front, knows, pending, settling, mail, shown,
          loses, failures>>

Init ==
  /\ up = {} /\ opened = {} /\ held = {} /\ front = {}
  /\ knows = [t \in Tab |-> [a \in Alert |-> "none"]]
  /\ pending = [t \in Tab |-> {}]
  /\ settling = [t \in Tab |-> FALSE]
  /\ mail = [p \in Tab \X Tab |-> <<>>]
  /\ shown = [a \in Alert |-> 0]
  /\ loses = 0 /\ failures = 0

Leader == INSTANCE Leadership WITH Id <- Tab
-----------------------------------------------------------------------------
(* getActivityPolicy: what a background tab knows live, and nobody raised  *)
(* or read.                                                                *)
Eligible(t, known, infront) == {a \in Alert : known[a] = "live" /\ t \notin infront}

Sent(s, message) ==
  [p \in Tab \X Tab |->
     IF p[1] = s /\ p[2] # s /\ p[2] \in up THEN Append(mail[p], message) ELSE mail[p]]

(* #scheduleDelivery, after what the tab queued.                           *)
Schedule(t, queued, known, infront, leaders) ==
  LET left == queued \cap Eligible(t, known, infront) IN
  /\ knows' = [knows EXCEPT ![t] = known]
  /\ pending' = [pending EXCEPT ![t] = left]
  /\ settling' = [settling EXCEPT ![t] = settling[t] \/ (left # {} /\ t \in leaders)]

Forget(t) ==
  /\ pending' = [pending EXCEPT ![t] = {}]
  /\ settling' = [settling EXCEPT ![t] = FALSE]

Open(t) ==
  /\ t \notin opened
  /\ opened' = opened \cup {t} /\ up' = up \cup {t}
  /\ UNCHANGED <<held, front, tabVars, loses, failures>>

(* stop, or the death of the tab: its leadership ends when the browser     *)
(* frees the lock or the lease runs out.                                   *)
Close(t) ==
  /\ t \in up
  /\ up' = up \ {t} /\ front' = front \ {t}
  /\ Forget(t)
  /\ mail' = [p \in Tab \X Tab |-> IF p[2] = t THEN <<>> ELSE mail[p]]
  /\ UNCHANGED <<opened, held, knows, shown, loses, failures>>

(* An event is on its way to every tab that is up.                         *)
Happen(a) ==
  /\ up # {} /\ \A t \in Tab : knows[t][a] = "none"
  /\ knows' = [t \in Tab |-> [knows[t] EXCEPT ![a] = IF t \in up THEN "due" ELSE "none"]]
  /\ UNCHANGED <<up, opened, held, front, pending, settling, mail, shown, loses, failures>>

(* A tab ingests an event and publishes the arrival; one sent again after  *)
(* a reconnect, or read already, is listed and never alerted.              *)
Arrive(t, a) ==
  /\ t \in up /\ knows[t][a] = "due"
  /\ \E what \in {"live", "over"} :
       Schedule(t, pending[t] \cup {a}, [knows[t] EXCEPT ![a] = what], front, held)
  /\ mail' = Sent(t, [live |-> {a}, done |-> {}])
  /\ UNCHANGED <<up, opened, held, front, shown, loses, failures>>

(* The operator reads the Session, or answers the request, of what was not *)
(* delivered: what was is no more eligible than before.                    *)
See(t, a) ==
  /\ t \in up /\ knows[t][a] = "live"
  /\ Schedule(t, pending[t], [knows[t] EXCEPT ![a] = "over"], front, held)
  /\ UNCHANGED <<up, opened, held, front, mail, shown, loses, failures>>

(* refresh, on focus, blur and every change of the Sessions.               *)
Refresh(t) ==
  /\ t \in up
  /\ front' \in {front, front \ {t}, {t}}
  /\ Schedule(t, pending[t], knows[t], front', held)
  /\ UNCHANGED <<up, opened, held, mail, shown, loses, failures>>

(* markBrowserDelivered                                                    *)
Delivered(known, done) ==
  [a \in Alert |-> IF a \in done /\ known[a] = "live" THEN "delivered" ELSE known[a]]

Receive(s, t) ==
  /\ t \in up /\ mail[<<s, t>>] # <<>>
  /\ LET m == Head(mail[<<s, t>>]) IN
     Schedule(t, pending[t] \cup m.live, Delivered(knows[t], m.done), front,
              IF m.live = {} THEN {} ELSE held)
  /\ mail' = [mail EXCEPT ![<<s, t>>] = Tail(@)]
  /\ UNCHANGED <<up, opened, held, front, shown, loses, failures>>

(* What a settled tab raises, of what it tries; the browser may refuse.    *)
AnnouncedNone(t, raised) == mail
Announced(t, raised) ==
  IF raised = {} THEN mail ELSE Sent(t, [live |-> {}, done |-> raised])
MarkedTried(tried, raised) == tried
Marked(tried, raised) == raised

InTime(t) ==
  /\ "messages" \in Timely => \A s \in Tab : mail[<<s, t>>] = <<>>
  /\ "events" \in Timely => \A s \in up, a \in pending[t] : knows[s][a] # "due"

(* The settlement timer ends: the tab delivers what is still eligible.     *)
Settle(t) ==
  /\ settling[t] /\ InTime(t)
  /\ LET tried == IF t \in held
                  THEN pending[t] \cap Eligible(t, knows[t], front) ELSE {} IN
     \E raised \in SUBSET tried :
       /\ failures' = failures + Cardinality(tried \ raised)
       /\ loses + failures' <= MaxFaults
       /\ shown' = [a \in Alert |-> IF a \in raised THEN shown[a] + 1 ELSE shown[a]]
       /\ knows' = [knows EXCEPT ![t] = Delivered(@, Marked(tried, raised))]
       /\ mail' = Announced(t, Marked(tried, raised))
       /\ pending' = [pending EXCEPT ![t] = (@ \ raised) \cap Eligible(t, knows'[t], front)]
  /\ settling' = [settling EXCEPT ![t] = FALSE]
  /\ UNCHANGED <<up, opened, held, front, loses>>

(* Who gains the leadership schedules what it holds.                       *)
OnLeaderIdle(t) == UNCHANGED <<knows, pending, settling>>
OnLeader(t) == Schedule(t, pending[t], knows[t], front, {t})

Gain(t) ==
  /\ Leader!Gain /\ t \in up /\ held' = {t}
  /\ OnLeader(t)
  /\ UNCHANGED <<up, opened, front, mail, shown, loses, failures>>

Lose(t) ==
  /\ Leader!Lose /\ t \in held
  /\ IF t \in up THEN loses + failures < MaxFaults /\ loses' = loses + 1 ELSE UNCHANGED loses
  /\ UNCHANGED <<up, opened, front, tabVars, failures>>
-----------------------------------------------------------------------------
Next ==
  \/ \E t \in Tab : \/ Open(t) \/ Close(t) \/ Refresh(t) \/ Settle(t)
                    \/ Gain(t) \/ Lose(t)
  \/ \E t \in Tab, a \in Alert : Arrive(t, a) \/ See(t, a)
  \/ \E a \in Alert : Happen(a)
  \/ \E s, t \in Tab : Receive(s, t)

Spec == Init /\ [][Next]_vars

(* What the network, the browser and the timers owe: none stays due for    *)
(* ever.  Between two acts of the operator only finitely many are.         *)
Owed ==
  \/ \E t \in Tab, a \in Alert : Arrive(t, a)
  \/ \E s, t \in Tab : Receive(s, t)
  \/ \E t \in Tab : Settle(t) \/ Gain(t)
  \/ \E t \in Tab \ up : Lose(t)

Fairness == WF_vars(Owed)

FairSpec == Spec /\ Fairness
-----------------------------------------------------------------------------
(* Every variable keeps its type, and a tab that ended holds nothing back. *)
TypeOK ==
  /\ up \subseteq opened /\ opened \subseteq Tab
  /\ held \subseteq Tab /\ front \subseteq up
  /\ knows \in [Tab -> [Alert -> Knows]]
  /\ pending \in [Tab -> SUBSET Alert] /\ settling \in [Tab -> BOOLEAN]
  /\ \A t \in Tab \ up : pending[t] = {} /\ ~settling[t]
  /\ mail \in [Tab \X Tab -> Seq(Message)]
  /\ shown \in [Alert -> 0..Cardinality(Tab)]
  /\ loses \in Nat /\ failures \in Nat /\ loses + failures <= MaxFaults

(* An alert a tab announced is never raised again, whoever leads next      *)
(* (browser-coordinator.ts:439).                                           *)
RaisedOnce == \A a \in Alert : shown[a] <= 1

(* No tab holds an alert for delivered, or tells another so, that was not  *)
(* raised: a notification the browser refused stays to be tried again.     *)
DeliveredWasShown ==
  \A a \in Alert :
    \/ shown[a] > 0
    \/ /\ \A t \in Tab : knows[t][a] # "delivered"
       /\ \A p \in Tab \X Tab : \A n \in DOMAIN mail[p] : a \notin mail[p][n].done

(* An alert a tab queued is raised, though leaders close or change before  *)
(* it is, unless the browser refuses it or the leader has no reason to     *)
(* raise it: it was read there, or the leader is in front.                 *)
AlertComes ==
  \A a \in Alert :
    (\E t \in up : a \in pending[t])
      ~> (\/ shown[a] > 0 \/ failures > 0
          \/ \A t \in up : a \notin pending[t]
          \/ \E t \in held \cap up : a \notin pending[t] /\ knows[t][a] # "due")
=============================================================================
