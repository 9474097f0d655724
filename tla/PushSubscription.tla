-------------------------- MODULE PushSubscription --------------------------
(* The device's Web Push subscription (push-subscription.ts) under its alert   *)
(* settings. Every tab has a manager of its own over the one subscription the  *)
(* browser has and the endpoints the gateway keeps; a manager's syncs run one  *)
(* after the other, each step below up to its next await. While active(), a   *)
(* tab raises no alert of its own.                                           *)
EXTENDS AlertSettings

CONSTANTS
  MaxEndpoints,   \* what the browser hands out (a bound)
  MaxEvents       \* clicks, failed calls, reloads, what the browser does (a bound)

ASSUME PushAssumption ==
  /\ MaxEndpoints \in Nat /\ MaxEvents \in Nat
  /\ None \notin Nat /\ None \notin BOOLEAN

VARIABLES
  sub,        \* the browser's subscription: its endpoint
  made,       \* endpoints handed out
  kept,       \* what the gateway keeps of an endpoint: its categories
  tabs,       \* per tab: the manager's variables and its sync
  faults,
  lost        \* history: endpoints a failure, or Unsubscribed, made their tab forget

push == <<sub, made, kept, tabs, faults, lost>>
vars == <<settings, push>>

Endpoints == 1..MaxEndpoints
Steps == {"idle", "reading", "unsubscribing", "unsubscribed", "retiring", "retiringGone",
          "subscribing", "putting", "retiringOld"}
\* ready: described, registered; own: `subscription`; held, body: heldEndpoint, heldBody
\* on, of: the settings of this sync; live, old: its endpoints
Fresh == [ready |-> "none", own |-> None, held |-> None, body |-> None, refused |-> FALSE,
          at |-> "idle", on |-> FALSE, of |-> None, live |-> None, old |-> None]

Init ==
  /\ InitSettings
  /\ sub = None /\ made = 0 /\ kept = [e \in Endpoints |-> None]
  /\ tabs = [t \in Tab |-> Fresh] /\ faults = 0 /\ lost = {}

Set(t, m) == tabs' = [tabs EXCEPT ![t] = m]
Registered(e) == kept[e] # None
Active(t) == tabs[t].own # None /\ tabs[t].held = tabs[t].own
Done(m) == [m EXCEPT !.at = "idle", !.on = FALSE, !.of = None, !.live = None, !.old = None]
Released(m) == [m EXCEPT !.held = None, !.body = None]

-----------------------------------------------------------------------------
(* prepare: the deployment is described, then the worker registered, unless    *)
(* the permission was refused when the page was loaded.                       *)
Describe(t) ==
  /\ tabs[t].ready = "none" /\ Set(t, [tabs[t] EXCEPT !.ready = "described"])
  /\ UNCHANGED <<settings, sub, made, kept, faults, lost>>
Register(t) ==
  /\ tabs[t].ready = "described"
  /\ Set(t, [tabs[t] EXCEPT !.ready = "registered"]) /\ Calls(t)
  /\ UNCHANGED <<stored, prefs, mail, perm, seen, prompt, clicks, offIn, sub, made, kept,
                 faults, lost>>

(* The browser has one subscription: it gives the one there is, or a new one.  *)
Subscribes == IF sub = None THEN made + 1 ELSE sub
CanSubscribe == sub # None \/ made < MaxEndpoints
Subscribed == sub' = Subscribes /\ made' = IF sub = None THEN made + 1 ELSE made

(* subscribeFromGesture: what it is granted is the tab's, even if a later       *)
(* gesture took its generation.                                              *)
AnswerPrompt(t, gesture, answer) ==
  /\ Answer(t, gesture, answer)
  /\ IF gesture = "subscribe" /\ answer = "granted"
     THEN CanSubscribe /\ Subscribed /\ Set(t, [tabs[t] EXCEPT !.own = Subscribes])
     ELSE UNCHANGED <<sub, made, tabs>>
  /\ UNCHANGED <<kept, faults, lost>>

-----------------------------------------------------------------------------
(* sync *)

Start(t) ==
  /\ changed[t] /\ tabs[t].at = "idle" /\ tabs[t].ready # "none"
  /\ changed' = [changed EXCEPT ![t] = FALSE]
  /\ Set(t, [tabs[t] EXCEPT !.at = "reading", !.of = prefs[t].category,
                            !.on = prefs[t].enabled /\ seen[t] = "granted"])
  /\ UNCHANGED <<stored, prefs, mail, perm, seen, prompt, clicks, offIn, sub, made, kept,
                 faults, lost>>

PutsEndpoint(m) == m.held # m.live
Puts(m) == m.body # m.of \/ m.held # m.live
ReplacedByNone(m) == None
ReplacedByItself(m) == IF m.held # m.live THEN m.live ELSE None
Replaced(m) == IF m.held # m.live THEN m.held ELSE None
\* What a sync does once it has a live endpoint.
Registering(m) ==
  IF Puts(m) THEN [m EXCEPT !.at = "putting", !.old = Replaced(m)] ELSE Done(m)

Read(t) ==
  LET m == [tabs[t] EXCEPT !.own = sub, !.live = sub] IN
  /\ tabs[t].at = "reading"
  /\ Set(t, CASE m.on /\ sub # None -> Registering(m)
              [] m.on /\ sub = None /\ m.held = None -> [m EXCEPT !.at = "subscribing"]
              [] m.on /\ sub = None /\ m.held # None ->
                   [Released(m) EXCEPT !.at = "retiringGone", !.old = m.held]
              [] ~m.on /\ sub # None -> [m EXCEPT !.at = "unsubscribing"]
              [] ~m.on /\ sub = None /\ m.held = None -> Done(m)
              [] ~m.on /\ sub = None /\ m.held # None ->
                   [Released(m) EXCEPT !.at = "retiring", !.old = m.held])
  /\ UNCHANGED <<settings, sub, made, kept, faults, lost>>

Unsubscribe(t) ==
  /\ tabs[t].at = "unsubscribing"
  /\ sub' = IF sub = tabs[t].live THEN None ELSE sub
  /\ Set(t, [tabs[t] EXCEPT !.at = "unsubscribed"])
  /\ UNCHANGED <<settings, made, kept, faults, lost>>
(* An endpoint held from before the browser replaced it is forgotten here.     *)
Unsubscribed(t) ==
  LET m == tabs[t] IN
  /\ m.at = "unsubscribed"
  /\ Set(t, [Released(m) EXCEPT !.at = "retiring", !.own = None, !.old = m.live])
  /\ lost' = lost \cup ({m.held} \ {None, m.live})
  /\ UNCHANGED <<settings, sub, made, kept, faults>>

(* The gateway is asked to drop an endpoint.                                  *)
Retire(t) ==
  LET m == tabs[t] IN
  /\ m.at \in {"retiring", "retiringGone", "retiringOld"}
  /\ kept' = [kept EXCEPT ![m.old] = None]
  /\ Set(t, IF m.at = "retiringGone" THEN [m EXCEPT !.at = "subscribing", !.old = None]
            ELSE Done(m))
  /\ UNCHANGED <<settings, sub, made, faults, lost>>

(* subscribeHere *)
Subscribe(t) ==
  LET m == tabs[t] IN
  /\ m.at = "subscribing"
  /\ IF m.ready = "registered" /\ perm = "granted" /\ ~m.refused
     THEN /\ CanSubscribe /\ Subscribed
          /\ Set(t, Registering([m EXCEPT !.own = Subscribes, !.live = Subscribes]))
     ELSE Set(t, [Done(m) EXCEPT !.refused = TRUE]) /\ UNCHANGED <<sub, made>>
  /\ UNCHANGED <<settings, kept, faults, lost>>

Put(t) ==
  LET m == tabs[t] IN
  /\ m.at = "putting" /\ kept' = [kept EXCEPT ![m.live] = m.of]
  /\ LET next == [m EXCEPT !.held = m.live, !.body = m.of] IN
     Set(t, IF m.old = None THEN Done(next) ELSE [next EXCEPT !.at = "retiringOld"])
  /\ UNCHANGED <<settings, sub, made, faults, lost>>

-----------------------------------------------------------------------------
(* Faults and time. *)

Fault == clicks + faults < MaxEvents /\ faults' = faults + 1
Forgets(m) == ({m.held, m.old} \cup IF m.at = "putting" THEN {m.live} ELSE {}) \ {None}

(* A call of the sync fails, before or after it took effect.                  *)
Fail(t) ==
  LET m == tabs[t] IN
  /\ m.at \notin {"idle", "subscribing", "unsubscribed"} /\ Fault
  /\ Set(t, Done(Released(m))) /\ lost' = lost \cup Forgets(m)
  /\ \/ UNCHANGED kept
     \/ m.at = "putting" /\ kept' = [kept EXCEPT ![m.live] = m.of]
     \/ /\ m.at \in {"retiring", "retiringGone", "retiringOld"}
        /\ kept' = [kept EXCEPT ![m.old] = None]
  /\ UNCHANGED <<settings, sub, made>>
(* The browser refuses to subscribe, and is left alone for a while.            *)
Refuse(t) ==
  /\ tabs[t].at = "subscribing" /\ Fault
  /\ Set(t, [Done(tabs[t]) EXCEPT !.refused = TRUE])
  /\ UNCHANGED <<settings, sub, made, kept, lost>>
(* The minute or the day is over, and something arrives.                       *)
Later(t) ==
  /\ Fault /\ Publish(t)
  /\ Set(t, [tabs[t] EXCEPT !.refused = FALSE, !.body = None])
  /\ UNCHANGED <<sub, made, kept, lost>>
(* The browser replaces the endpoint; nobody is told.                         *)
Rotate ==
  /\ sub # None /\ made < MaxEndpoints /\ Fault
  /\ sub' = made + 1 /\ made' = made + 1
  /\ UNCHANGED <<settings, kept, tabs, lost>>
(* The browser drops the subscription, by itself or with the permission.       *)
Drop ==
  /\ sub # None /\ Fault /\ sub' = None /\ perm' \in {perm, "denied"}
  /\ UNCHANGED <<stored, prefs, mail, seen, prompt, changed, clicks, offIn,
                 made, kept, tabs, lost>>
(* The page is loaded again, whatever it had under way.                       *)
Reload(t) ==
  /\ Fault /\ Restart(t) /\ Set(t, Fresh) /\ lost' = lost \cup Forgets(tabs[t])
  /\ UNCHANGED <<sub, made, kept>>

-----------------------------------------------------------------------------
Settle(t) == \/ clicks + faults < MaxEvents /\ Click(t, tabs[t].ready = "registered")
             \/ Hear(t)
             \/ ~changed[t] /\ Publish(t)
Sync(t) == Start(t) \/ Read(t) \/ Unsubscribe(t) \/ Unsubscribed(t) \/ Retire(t)
             \/ Subscribe(t) \/ Put(t)
Prepare(t) == Describe(t) \/ Register(t)
Faults(t) == Fail(t) \/ Refuse(t) \/ Later(t) \/ Reload(t)
Next ==
  \/ \E t \in Tab : Settle(t) /\ UNCHANGED push
  \/ \E t \in Tab, gesture \in Gesture, answer \in Permission : AnswerPrompt(t, gesture, answer)
  \/ \E t \in Tab : Prepare(t) \/ Sync(t) \/ Faults(t)
  \/ Rotate \/ Drop
Spec == Init /\ [][Next]_vars

-----------------------------------------------------------------------------
(* Properties.                                                               *)

Maybe(S) == S \cup {None}
Manager(n) ==
  [ready : {"none", "described", "registered"}, refused : BOOLEAN, at : Steps,
   on : BOOLEAN, of : Maybe(BOOLEAN), body : Maybe(BOOLEAN),
   own : Maybe(1..n), held : Maybe(1..n), live : Maybe(1..n), old : Maybe(1..n)]
PushTypeOK ==
  /\ made \in 0..MaxEndpoints /\ sub \in Maybe(1..made)
  /\ kept \in [Endpoints -> Maybe(BOOLEAN)] /\ lost \subseteq Endpoints
  /\ tabs \in [Tab -> Manager(made)] /\ faults \in 0..MaxEvents
TypeOK == SettingsTypeOK /\ PushTypeOK

Rest == Agreed /\ \A t \in Tab : ~changed[t] /\ tabs[t].at = "idle" /\ tabs[t].ready = "registered"

Refused == \E t \in Tab : tabs[t].refused

PushedTo == sub # None /\ Registered(sub)

(* A tab that leaves its alerts to push is on a device that is pushed to: the   *)
(* gateway keeps the endpoint the browser has, whatever other tabs retire. One  *)
(* exception: the browser replaced or dropped the endpoint, or another tab gave *)
(* it up, and this tab has not synced since. It is silent meanwhile; when all   *)
(* have come to rest and nothing failed there is no exception.                 *)
Outdated(t) == tabs[t].own # sub
Troubled == faults > 0 \/ Refused
SilentIsPushed ==
  \A t \in Tab : Active(t) => PushedTo \/ (Outdated(t) /\ (Rest => Troubled))

(* At rest the gateway keeps no endpoint but those a tab will retire and those  *)
(* one forgot: over a failure, or the one it held when the browser had put      *)
(* another in its place and it gave that up.                                   *)
NothingLeftBehind ==
  Rest => \A e \in Endpoints :
            Registered(e) => e \in lost \/ \E t \in Tab : tabs[t].held = e

(* At rest the settings of all tabs are those stored. Switched on, and as long  *)
(* as nothing failed, the gateway pushes to the browser's endpoint with them,  *)
(* every tab registered one, and a tab that registered this one leaves its      *)
(* alerts to it; switched off, nobody is silent.                               *)
SettingsArePushed ==
  Rest => /\ \A t \in Tab : prefs[t] = stored
          /\ stored.enabled /\ perm = "granted" /\ faults = 0 /\ ~Refused =>
               /\ sub # None /\ kept[sub] = stored.category
               /\ \A t \in Tab : tabs[t].held # None
               /\ \E t \in Tab : Active(t) /\ tabs[t].own = sub
          /\ ~stored.enabled => \A t \in Tab : ~Active(t)

(* The operator switched alerts off and has not asked for them since: what      *)
(* brings them back is either a tab that has not heard of it yet and writes its *)
(* whole copy over it with another setting, or the browser granting a prompt    *)
(* another tab had open. No prompt of the tab it was said in does, and no tab   *)
(* that has heard.                                                           *)
BroughtBack == offIn # None /\ offIn' # None /\ ~stored.enabled /\ stored'.enabled
Unaware(t) == SetCategory(t) /\ mail[t] /\ prefs[t].enabled
LateGrant(t) ==
  t # offIn /\ prompt[t].own # "none" /\ prompt'[t].own = "none" /\ perm' = "granted"
OptOutStands == [][BroughtBack => \E t \in Tab : Unaware(t) \/ LateGrant(t)]_vars
=============================================================================
