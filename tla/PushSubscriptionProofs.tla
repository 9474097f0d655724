----------------------- MODULE PushSubscriptionProofs -----------------------
(* What PushSubscription keeps for every number of tabs, clicks, endpoints and *)
(* faults: its types, that a silent tab's device is pushed to, that no endpoint *)
(* is left behind, what alone undoes an opt-out, and that at rest every tab and *)
(* the gateway have the stored settings.                                      *)
EXTENDS PushSubscription, TLAPS

-----------------------------------------------------------------------------
(* The settings.                                                             *)

(* What a step does to the settings, whatever it does to the subscription.    *)
Turns(t) == \/ \E ready \in BOOLEAN : Click(t, ready)
            \/ Hear(t) \/ Publish(t) \/ Restart(t)
            \/ \E gesture \in Gesture, answer \in Permission : Answer(t, gesture, answer)
Others == <<stored, prefs, mail, seen, prompt, clicks, offIn>>
Takes(t) == \E b \in BOOLEAN :
              changed' = [changed EXCEPT ![t] = b] /\ UNCHANGED <<Others, perm>>
PermFalls == perm' \in {perm, "denied"} /\ UNCHANGED <<Others, changed>>
SettingsStep ==
  (\E t \in Tab : Turns(t) \/ Takes(t)) \/ PermFalls \/ UNCHANGED settings

(* Every step of the whole is one of these to the settings.                   *)
LEMMA SettingsSteps == [Next]_vars => SettingsStep
<1> SUFFICES ASSUME [Next]_vars PROVE SettingsStep
  OBVIOUS
<1>1. CASE UNCHANGED vars
  BY <1>1 DEF vars, SettingsStep
<1>2. ASSUME NEW t \in Tab, Settle(t) PROVE SettingsStep
  <2>1. CASE Click(t, tabs[t].ready = "registered")
    <3>1. (tabs[t].ready = "registered") \in BOOLEAN
      OBVIOUS
    <3>2. Turns(t)
      BY <2>1, <3>1 DEF Turns
    <3> QED BY <3>2 DEF SettingsStep
  <2> QED BY <1>2, <2>1 DEF Settle, SettingsStep, Turns
<1>3. CASE \E t \in Tab, gesture \in Gesture, answer \in Permission :
             AnswerPrompt(t, gesture, answer)
  BY <1>3 DEF AnswerPrompt, SettingsStep, Turns
<1>4. ASSUME NEW t \in Tab, Prepare(t) \/ Sync(t) \/ Faults(t)
      PROVE SettingsStep
  <2>1. CASE Register(t)
    BY <2>1 DEF Register, SettingsStep, Takes, Calls, Others
  <2>2. CASE Start(t)
    BY <2>2 DEF Start, SettingsStep, Takes, Others
  <2>3. CASE Later(t)
    BY <2>3 DEF Later, SettingsStep, Turns
  <2>4. CASE Reload(t)
    BY <2>4 DEF Reload, SettingsStep, Turns
  <2>5. CASE Describe(t) \/ Read(t) \/ Unsubscribe(t) \/ Unsubscribed(t) \/ Retire(t)
               \/ Subscribe(t) \/ Put(t) \/ Fail(t) \/ Refuse(t)
    BY <2>5 DEF Describe, Read, Unsubscribe, Unsubscribed, Retire, Subscribe, Put, Fail,
                Refuse, SettingsStep
  <2> QED BY <1>4, <2>1, <2>2, <2>3, <2>4, <2>5 DEF Prepare, Sync, Faults
<1>5. CASE Rotate \/ Drop
  BY <1>5 DEF Rotate, Drop, SettingsStep, PermFalls, Others, settings
<1> QED BY <1>1, <1>2, <1>3, <1>4, <1>5 DEF Next

(* A tab's own change is a change of preferences.                             *)
LEMMA Published ==
  ASSUME SettingsTypeOK, NEW t \in Tab, NEW p \in Preferences, PublishOwn(t, p)
  PROVE  stored' \in Preferences /\ prefs' \in [Tab -> Preferences]
           /\ mail' \in [Tab -> BOOLEAN]
BY DEF SettingsTypeOK, PublishOwn

(* A change of one preference is one of the preferences.                     *)
LEMMA Changes ==
  ASSUME NEW p \in Preferences, NEW b \in BOOLEAN
  PROVE  [p EXCEPT !.enabled = b] \in Preferences
           /\ [p EXCEPT !.category = b] \in Preferences
BY DEF Preferences

(* The prompts the actions write are of their type.                          *)
LEMMA PromptChanges ==
  ASSUME SettingsTypeOK, NEW t \in Tab
  PROVE  /\ NextGeneration(t) \in Prompt /\ NoPrompt \in Prompt
         /\ \A gesture \in Gesture :
              /\ [waits |-> prompt[t].waits \cup {gesture}, own |-> gesture] \in Prompt
              /\ Answered(t, gesture) \in Prompt
<1>1. prompt[t].waits \in SUBSET Gesture /\ prompt[t].own \in Gesture \cup {"none"}
  BY DEF SettingsTypeOK, Prompt
<1>2. prompt[t] \in Prompt
  BY DEF SettingsTypeOK
<1>3. NextGeneration(t) \in Prompt
  BY <1>2 DEF NextGeneration, Prompt
<1>4. NoPrompt \in Prompt
  BY DEF NoPrompt, Prompt
<1>5. ASSUME NEW gesture \in Gesture
      PROVE  /\ [waits |-> prompt[t].waits \cup {gesture}, own |-> gesture] \in Prompt
             /\ Answered(t, gesture) \in Prompt
  BY <1>1, <1>5 DEF Answered, Prompt
<1> QED BY <1>3, <1>4, <1>5

(* Whichever gesture a tab makes leaves prompts.                             *)
LEMMA Asked ==
  ASSUME SettingsTypeOK, NEW t \in Tab, NEW gesture \in Gesture, Asks(t, gesture)
  PROVE  prompt' \in [Tab -> Prompt]
<1>1. [waits |-> prompt[t].waits \cup {gesture}, own |-> gesture] \in Prompt
  BY PromptChanges
<1> QED BY <1>1 DEF Asks, SettingsTypeOK

(* The settings keep their types.                                            *)
LEMMA SettingsTypes == SettingsTypeOK /\ SettingsStep => SettingsTypeOK'
<1> SUFFICES ASSUME SettingsTypeOK, SettingsStep PROVE SettingsTypeOK'
  OBVIOUS
<1> USE SettingsAssumption
<1>0. ASSUME NEW t \in Tab, NEW p, PublishOwn(t, p), p \in Preferences
      PROVE  stored' \in Preferences /\ prefs' \in [Tab -> Preferences]
               /\ mail' \in [Tab -> BOOLEAN]
  BY <1>0, Published
<1>a. ASSUME NEW t \in Tab, PublishNothing
      PROVE  stored' \in Preferences /\ prefs' \in [Tab -> Preferences]
               /\ mail' \in [Tab -> BOOLEAN]
  BY <1>a DEF PublishNothing, SettingsTypeOK
<1>1. ASSUME NEW t \in Tab, NEW ready \in BOOLEAN, Click(t, ready) PROVE SettingsTypeOK'
  <2>0. prefs[t] \in Preferences /\ prefs[t].category \in BOOLEAN
    BY DEF SettingsTypeOK, Preferences
  <2>p. NextGeneration(t) \in Prompt
    BY PromptChanges
  <2>1. CASE OptOut(t)
    <3>1. [prefs[t] EXCEPT !.enabled = FALSE] \in Preferences
      BY <2>0, Changes
    <3>2. stored' \in Preferences /\ prefs' \in [Tab -> Preferences]
            /\ mail' \in [Tab -> BOOLEAN]
      BY <2>1, <3>1, <1>0 DEF OptOut
    <3>3. perm' \in Permission /\ seen' \in [Tab -> Permission]
            /\ changed' \in [Tab -> BOOLEAN] /\ clicks' \in 0..MaxClicks
      BY <2>1 DEF OptOut, Clicks, Calls, Sees, SettingsTypeOK
    <3>4. prompt' \in [Tab -> Prompt] /\ offIn' \in Tab \cup {None}
      BY <2>1, <2>p DEF OptOut, SettingsTypeOK
    <3> QED BY <3>2, <3>3, <3>4 DEF SettingsTypeOK
  <2>2. CASE OptIn(t)
    <3>1. [prefs[t] EXCEPT !.enabled = perm = "granted"] \in Preferences
      BY <2>0, Changes, (perm = "granted") \in BOOLEAN
    <3>2. stored' \in Preferences /\ prefs' \in [Tab -> Preferences]
            /\ mail' \in [Tab -> BOOLEAN]
      BY <2>2, <3>1, <1>0, <1>a DEF OptIn
    <3>3. perm' \in Permission /\ seen' \in [Tab -> Permission]
            /\ changed' \in [Tab -> BOOLEAN] /\ clicks' \in 0..MaxClicks
      BY <2>2 DEF OptIn, Clicks, Calls, Sees, SettingsTypeOK
    <3>4. prompt' \in [Tab -> Prompt] /\ offIn' \in Tab \cup {None}
      BY <2>2, <2>p, Asked DEF OptIn, Gesture, SettingsTypeOK
    <3> QED BY <3>2, <3>3, <3>4 DEF SettingsTypeOK
  <2>3. CASE AcceptAsk(t, ready)
    <3>1. prompt' \in [Tab -> Prompt] /\ offIn' \in Tab \cup {None}
      BY <2>3, Asked DEF AcceptAsk, Gesture, SettingsTypeOK
    <3>2. clicks' \in 0..MaxClicks
      BY <2>3 DEF AcceptAsk, Clicks, SettingsTypeOK
    <3> QED BY <2>3, <3>1, <3>2 DEF AcceptAsk, PublishNothing, SettingsTypeOK
  <2>4. CASE SetCategory(t)
    <3>1. [prefs[t] EXCEPT !.category = ~prefs[t].category] \in Preferences
      BY <2>0, Changes, (~prefs[t].category) \in BOOLEAN
    <3>2. stored' \in Preferences /\ prefs' \in [Tab -> Preferences]
            /\ mail' \in [Tab -> BOOLEAN]
      BY <2>4, <3>1, <1>0 DEF SetCategory
    <3>3. changed' \in [Tab -> BOOLEAN] /\ clicks' \in 0..MaxClicks
      BY <2>4 DEF SetCategory, Clicks, Calls, SettingsTypeOK
    <3> QED BY <2>4, <3>2, <3>3 DEF SetCategory, SettingsTypeOK
  <2> QED BY <1>1, <2>1, <2>2, <2>3, <2>4 DEF Click
<1>2. ASSUME NEW t \in Tab, Hear(t) \/ Publish(t) \/ Restart(t) PROVE SettingsTypeOK'
  <2>1. NoPrompt \in Prompt
    BY PromptChanges
  <2>2. CASE Receive(t)
    BY <2>2 DEF Receive, Calls, SettingsTypeOK
  <2>3. CASE Recheck(t)
    BY <2>3 DEF Recheck, Calls, Sees, SettingsTypeOK
  <2>4. CASE Publish(t)
    BY <2>4 DEF Publish, Calls, SettingsTypeOK
  <2>5. CASE Restart(t)
    BY <2>1, <2>5 DEF Restart, Calls, Sees, SettingsTypeOK
  <2> QED BY <1>2, <2>2, <2>3, <2>4, <2>5 DEF Hear
<1>3. ASSUME NEW t \in Tab, NEW gesture \in Gesture, NEW answer \in Permission,
             Answer(t, gesture, answer)
      PROVE SettingsTypeOK'
  <2>1. prefs[t] \in Preferences
    BY DEF SettingsTypeOK
  <2>2. [prefs[t] EXCEPT !.enabled = answer = "granted"] \in Preferences
    BY <2>1, Changes, (answer = "granted") \in BOOLEAN
  <2>3. stored' \in Preferences /\ prefs' \in [Tab -> Preferences] /\ mail' \in [Tab -> BOOLEAN]
    BY <1>3, <2>2, <1>0, <1>a DEF Answer
  <2>4. prompt' \in [Tab -> Prompt]
    <3>1. Answered(t, gesture) \in Prompt
      BY PromptChanges
    <3>2. prompt' = [prompt EXCEPT ![t] = Answered(t, gesture)]
      BY <1>3 DEF Answer
    <3> QED BY <3>1, <3>2 DEF SettingsTypeOK
  <2>5. perm' \in Permission /\ clicks' \in 0..MaxClicks /\ offIn' \in Tab \cup {None}
    BY <1>3 DEF Answer, SettingsTypeOK
  <2>6. seen' \in [Tab -> Permission] /\ changed' \in [Tab -> BOOLEAN]
    BY <1>3 DEF Answer, Calls, Sees, SettingsTypeOK
  <2> QED BY <2>3, <2>4, <2>5, <2>6 DEF SettingsTypeOK
<1>4. ASSUME NEW t \in Tab, Takes(t) PROVE SettingsTypeOK'
  BY <1>4 DEF Takes, Others, SettingsTypeOK
<1>5. CASE PermFalls \/ UNCHANGED settings
  BY <1>5 DEF PermFalls, Others, settings, SettingsTypeOK, Permission
<1> QED BY <1>1, <1>2, <1>3, <1>4, <1>5 DEF SettingsStep, Turns

(* What the settings of the tabs keep: an opt-out that stands has no prompt of  *)
(* its tab to revoke it, and a tab without mail has what is stored.             *)
OptInv == offIn # None => prompt[offIn].own = "none"
MailInv == \A t \in Tab : ~mail[t] => prefs[t] = stored

(* An opt-out that stands has no prompt of its tab to revoke it.             *)
LEMMA OptSteps == SettingsTypeOK /\ OptInv /\ SettingsStep => OptInv'
<1> SUFFICES ASSUME SettingsTypeOK, OptInv, SettingsStep, offIn' # None
             PROVE  prompt'[offIn'].own = "none"
  BY DEF OptInv
<1>0. \A t \in Tab : prompt[t] \in Prompt
  BY DEF SettingsTypeOK
<1>1. ASSUME NEW t \in Tab, OptOut(t) PROVE prompt'[offIn'].own = "none"
  <2>1. NextGeneration(t).own = "none"
    BY <1>0 DEF NextGeneration, Prompt
  <2> QED BY <1>1, <2>1 DEF OptOut, SettingsTypeOK
<1>2. ASSUME NEW t \in Tab, NEW ready \in BOOLEAN, OptIn(t) \/ AcceptAsk(t, ready)
      PROVE  FALSE
  BY <1>2 DEF OptIn, AcceptAsk
<1>3. CASE offIn' = offIn /\ UNCHANGED prompt
  BY <1>3 DEF OptInv
<1>4. ASSUME NEW t \in Tab, SetCategory(t) \/ Hear(t) \/ Publish(t) \/ Takes(t)
      PROVE  offIn' = offIn /\ UNCHANGED prompt
  BY <1>4 DEF SetCategory, Hear, Receive, Recheck, Publish, Takes, Others
<1>5. ASSUME NEW t \in Tab, Restart(t) PROVE prompt'[offIn'].own = "none"
  <2>1. offIn' = offIn /\ offIn \in Tab /\ prompt' = [prompt EXCEPT ![t] = NoPrompt]
    BY <1>5 DEF Restart, SettingsTypeOK
  <2> QED BY <2>1 DEF NoPrompt, OptInv, SettingsTypeOK
<1>6. ASSUME NEW t \in Tab, NEW gesture \in Gesture, NEW answer \in Permission,
             Answer(t, gesture, answer)
      PROVE  prompt'[offIn'].own = "none"
  <2>1. /\ offIn' = offIn /\ offIn \in Tab
        /\ prompt' = [prompt EXCEPT ![t] = Answered(t, gesture)]
    BY <1>6 DEF Answer, SettingsTypeOK
  <2>2. prompt[t].own = "none" => Answered(t, gesture).own = "none"
    BY DEF Answered
  <2> QED BY <2>1, <2>2 DEF OptInv, SettingsTypeOK
<1>7. CASE PermFalls \/ UNCHANGED settings
  BY <1>3, <1>7 DEF PermFalls, Others, settings
<1> QED BY <1>1, <1>2, <1>3, <1>4, <1>5, <1>6, <1>7 DEF SettingsStep, Turns, Click

(* A tab with no news on its way has the stored preferences.                 *)
LEMMA MailSteps == SettingsTypeOK /\ MailInv /\ SettingsStep => MailInv'
<1> SUFFICES ASSUME SettingsTypeOK, MailInv, SettingsStep PROVE MailInv'
  OBVIOUS
<1>1. ASSUME NEW t \in Tab, NEW ready \in BOOLEAN, Click(t, ready) PROVE MailInv'
  <2>1. ASSUME NEW p, PublishOwn(t, p) PROVE MailInv'
    BY <2>1 DEF PublishOwn, MailInv, SettingsTypeOK
  <2>2. ASSUME PublishNothing PROVE MailInv'
    BY <2>2 DEF PublishNothing, MailInv
  <2> QED BY <1>1, <2>1, <2>2 DEF Click, OptOut, OptIn, AcceptAsk, SetCategory
<1>2. ASSUME NEW t \in Tab, Hear(t) \/ Publish(t) \/ Restart(t) PROVE MailInv'
  BY <1>2 DEF Hear, Receive, Recheck, Publish, Restart, MailInv, SettingsTypeOK
<1>3. ASSUME NEW t \in Tab, NEW gesture \in Gesture, NEW answer \in Permission,
             Answer(t, gesture, answer) PROVE MailInv'
  BY <1>3 DEF Answer, PublishOwn, PublishNothing, MailInv, SettingsTypeOK
<1>4. ASSUME NEW t \in Tab, Takes(t) PROVE MailInv'
  BY <1>4 DEF Takes, Others, MailInv
<1>5. CASE PermFalls \/ UNCHANGED settings
  BY <1>5 DEF PermFalls, Others, settings, MailInv
<1> QED BY <1>1, <1>2, <1>3, <1>4, <1>5 DEF SettingsStep, Turns

-----------------------------------------------------------------------------
(* The managers.                                                             *)

(* Later steps hand out more endpoints, and a manager keeps its type.          *)
LEMMA Grows ==
  ASSUME NEW n \in Nat, NEW k \in Nat, n <= k, NEW m \in Manager(n)
  PROVE  m \in Manager(k)
BY DEF Manager, Maybe

(* A step of one tab's manager leaves every manager of its type.             *)
LEMMA OneTab ==
  ASSUME NEW n \in Nat, NEW k \in Nat, n <= k, tabs \in [Tab -> Manager(n)],
         NEW t \in Tab, NEW m \in Manager(k), Set(t, m)
  PROVE  tabs' \in [Tab -> Manager(k)]
<1>1. \A u \in Tab : tabs[u] \in Manager(k)
  BY Grows
<1> QED BY <1>1 DEF Set

(* The changes of a manager that keep its type.                               *)
LEMMA Moves ==
  ASSUME NEW n \in Nat, NEW m \in Manager(n), NEW at \in Steps
  PROVE  [m EXCEPT !.at = at] \in Manager(n)
BY DEF Manager

(* A sync that ends leaves a manager,                                        *)
LEMMA Ends ==
  ASSUME NEW n \in Nat, NEW m \in Manager(n)
  PROVE  Done(m) \in Manager(n)
BY DEF Manager, Maybe, Done, Steps

(* and so does one that let go of its endpoint,                              *)
LEMMA Releases ==
  ASSUME NEW n \in Nat, NEW m \in Manager(n)
  PROVE  Released(m) \in Manager(n)
BY DEF Manager, Maybe, Released

(* one that took an endpoint or gave it up,                                  *)
LEMMA Places ==
  ASSUME NEW n \in Nat, NEW m \in Manager(n), NEW e \in Maybe(1..n), NEW at \in Steps
  PROVE  /\ [m EXCEPT !.at = at, !.old = e] \in Manager(n)
         /\ [m EXCEPT !.own = e] \in Manager(n)
         /\ [m EXCEPT !.own = e, !.live = e] \in Manager(n)
         /\ [m EXCEPT !.at = at, !.own = None, !.old = e] \in Manager(n)
BY DEF Manager, Maybe

(* one the browser refused,                                                  *)
LEMMA Refusals ==
  ASSUME NEW n \in Nat, NEW m \in Manager(n), NEW b \in BOOLEAN
  PROVE  [m EXCEPT !.refused = b] \in Manager(n)
BY DEF Manager

(* and one that registers what it holds.                                     *)
LEMMA Registers ==
  ASSUME NEW n \in Nat, NEW m \in Manager(n)
  PROVE  Registering(m) \in Manager(n)
<1>1. Replaced(m) \in Maybe(1..n)
  BY DEF Manager, Maybe, Replaced
<1>2. [m EXCEPT !.at = "putting", !.old = Replaced(m)] \in Manager(n)
  BY <1>1, Places DEF Steps
<1> QED BY <1>2, Ends DEF Registering

(* What a manager's fields are.                                              *)
LEMMA FieldTypes ==
  ASSUME NEW n \in Nat, NEW m \in Manager(n)
  PROVE  /\ m.own \in Maybe(1..n) /\ m.held \in Maybe(1..n)
         /\ m.live \in Maybe(1..n) /\ m.old \in Maybe(1..n)
         /\ m.of \in Maybe(BOOLEAN) /\ m.body \in Maybe(BOOLEAN)
         /\ m.on \in BOOLEAN /\ m.refused \in BOOLEAN /\ m.at \in Steps
BY DEF Manager

(* The endpoint the browser gives is one it had handed out, or the next.       *)
LEMMA Handed ==
  ASSUME PushTypeOK, CanSubscribe, Subscribed
  PROVE  /\ made' \in 0..MaxEndpoints /\ made <= made' /\ made \in Nat /\ made' \in Nat
         /\ Subscribes \in 1..made' /\ sub' = Subscribes
         /\ \/ sub = None /\ made' = made + 1
            \/ sub # None /\ made' = made
<1>1. MaxEndpoints \in Nat /\ made \in Nat /\ made <= MaxEndpoints
  BY PushAssumption DEF PushTypeOK
<1>2. CASE sub = None
  BY <1>1, <1>2 DEF CanSubscribe, Subscribed, Subscribes
<1>3. CASE sub # None
  <2>1. sub \in 1..made
    BY <1>3 DEF PushTypeOK, Maybe
  <2> QED BY <1>1, <1>3, <2>1 DEF CanSubscribe, Subscribed, Subscribes
<1> QED BY <1>2, <1>3

-----------------------------------------------------------------------------
(* The types, step by step.                                                   *)
LEMMA TypeInit == Init => TypeOK
<1> SUFFICES ASSUME Init PROVE TypeOK
  OBVIOUS
<1>1. SettingsTypeOK
  BY SettingsAssumption DEF Init, InitSettings, SettingsTypeOK, Preferences, Permission,
     NoPrompt, Prompt
<1>2. Fresh \in Manager(0)
  BY DEF Fresh, Manager, Maybe, Steps
<1>3. PushTypeOK
  BY <1>2, PushAssumption DEF Init, PushTypeOK, Maybe, Endpoints
<1> QED BY <1>1, <1>3 DEF TypeOK

(* Every step keeps the types of what the managers share.                    *)
LEMMA TypeSteps == PushTypeOK /\ SettingsTypeOK /\ [Next]_vars => PushTypeOK'
<1> SUFFICES ASSUME PushTypeOK, SettingsTypeOK, [Next]_vars PROVE PushTypeOK'
  OBVIOUS
<1> USE PushAssumption
<1>0. made \in Nat /\ tabs \in [Tab -> Manager(made)] /\ made <= made
        /\ \A t \in Tab : tabs[t] \in Manager(made)
  BY DEF PushTypeOK
<1>f. ASSUME Fault PROVE faults' \in 0..MaxEvents
  BY <1>f, SettingsAssumption DEF Fault, PushTypeOK, SettingsTypeOK
\* A step that moves one tab on and leaves the endpoints as they are.
<1>m. ASSUME NEW t \in Tab, NEW m \in Manager(made), Set(t, m), UNCHANGED made
      PROVE  tabs' \in [Tab -> Manager(made')]
  BY <1>m, <1>0, OneTab
<1>1. CASE UNCHANGED push
  BY <1>1 DEF push, PushTypeOK
<1>2. ASSUME NEW t \in Tab, NEW gesture \in Gesture, NEW answer \in Permission,
             AnswerPrompt(t, gesture, answer)
      PROVE  PushTypeOK'
  <2>1. CASE UNCHANGED <<sub, made, tabs>>
    BY <1>2, <2>1 DEF AnswerPrompt, PushTypeOK
  <2>2. CASE CanSubscribe /\ Subscribed /\ Set(t, [tabs[t] EXCEPT !.own = Subscribes])
    <3>1. /\ made' \in 0..MaxEndpoints /\ made <= made' /\ made' \in Nat
          /\ Subscribes \in 1..made' /\ sub' = Subscribes
      BY <2>2, Handed
    <3>2. tabs[t] \in Manager(made')
      BY <1>0, <3>1, Grows
    <3>3. [tabs[t] EXCEPT !.own = Subscribes] \in Manager(made')
      BY <3>1, <3>2, Places DEF Maybe, Steps
    <3>4. tabs' \in [Tab -> Manager(made')]
      BY <1>0, <2>2, <3>1, <3>3, OneTab
    <3> QED BY <1>2, <3>1, <3>4 DEF AnswerPrompt, PushTypeOK, Maybe
  <2> QED BY <1>2, <2>1, <2>2 DEF AnswerPrompt
<1>3. ASSUME NEW t \in Tab, Prepare(t) PROVE PushTypeOK'
  <2>1. /\ [tabs[t] EXCEPT !.ready = "described"] \in Manager(made)
        /\ [tabs[t] EXCEPT !.ready = "registered"] \in Manager(made)
    BY <1>0 DEF Manager
  <2> QED BY <1>3, <1>m, <2>1 DEF Prepare, Describe, Register, PushTypeOK
<1>4. ASSUME NEW t \in Tab, Sync(t) PROVE PushTypeOK'
  <2> DEFINE m == tabs[t]
  <2>0. m \in Manager(made)
    BY <1>0
  <2>1. CASE Start(t)
    <3>1. prefs[t].category \in BOOLEAN /\ (prefs[t].enabled /\ seen[t] = "granted") \in BOOLEAN
      BY DEF SettingsTypeOK, Preferences
    <3>2. [tabs[t] EXCEPT !.at = "reading", !.of = prefs[t].category,
              !.on = prefs[t].enabled /\ seen[t] = "granted"] \in Manager(made)
      BY <2>0, <3>1 DEF Manager, Maybe, Steps
    <3> QED BY <2>1, <3>2, <1>m DEF Start, PushTypeOK
  <2>2. CASE Read(t)
    <3> DEFINE r == [m EXCEPT !.own = sub, !.live = sub]
    <3>1. r \in Manager(made) /\ sub \in Maybe(1..made)
      BY <2>0, <1>0, Places DEF PushTypeOK, Steps
    <3>2. Registering(r) \in Manager(made) /\ Done(r) \in Manager(made)
      BY <3>1, <1>0, Registers, Ends
    <3>3. [r EXCEPT !.at = "subscribing"] \in Manager(made)
            /\ [r EXCEPT !.at = "unsubscribing"] \in Manager(made)
      BY <3>1, <1>0, Moves DEF Steps
    <3>4. r.held \in Maybe(1..made) /\ Released(r) \in Manager(made)
      BY <3>1, <1>0, FieldTypes, Releases
    <3>5. /\ [Released(r) EXCEPT !.at = "retiringGone", !.old = r.held] \in Manager(made)
          /\ [Released(r) EXCEPT !.at = "retiring", !.old = r.held] \in Manager(made)
      BY <3>4, <1>0, Places DEF Steps
    <3> HIDE DEF r
    <3>6. r.on \in BOOLEAN
      BY <3>1, <1>0, FieldTypes
    <3>7. tabs' \in [Tab -> Manager(made')]
      BY <2>2, <3>2, <3>3, <3>5, <3>6, <1>m DEF Read, r
    <3> QED BY <2>2, <3>7 DEF Read, PushTypeOK
  <2>3. CASE Unsubscribe(t)
    <3>1. [tabs[t] EXCEPT !.at = "unsubscribed"] \in Manager(made)
      BY <2>0, <1>0, Moves DEF Steps
    <3> QED BY <2>3, <3>1, <1>m DEF Unsubscribe, PushTypeOK, Maybe
  <2>4. CASE Unsubscribed(t)
    <3>1. m.live \in Maybe(1..made) /\ m.held \in Maybe(1..made) /\ Released(m) \in Manager(made)
      BY <2>0, <1>0, FieldTypes, Releases
    <3>2. [Released(m) EXCEPT !.at = "retiring", !.own = None, !.old = m.live] \in Manager(made)
      BY <3>1, <1>0, Places DEF Steps
    <3>3. {m.held} \ {None, m.live} \subseteq Endpoints
      BY <3>1, <1>0 DEF Maybe, Endpoints, PushTypeOK
    <3> QED BY <2>4, <3>2, <3>3, <1>m DEF Unsubscribed, PushTypeOK
  <2>5. CASE Retire(t)
    <3>1. /\ [m EXCEPT !.at = "subscribing", !.old = None] \in Manager(made)
          /\ Done(m) \in Manager(made)
      BY <2>0, <1>0, Places, Ends DEF Steps, Maybe
    <3> QED BY <2>5, <3>1, <1>m DEF Retire, PushTypeOK, Maybe
  <2>6. CASE Subscribe(t)
    <3>1. CASE /\ CanSubscribe /\ Subscribed
               /\ Set(t, Registering([m EXCEPT !.own = Subscribes, !.live = Subscribes]))
      <4>1. /\ made' \in 0..MaxEndpoints /\ made <= made' /\ made' \in Nat
            /\ Subscribes \in 1..made' /\ sub' = Subscribes
        BY <3>1, Handed
      <4>2. m \in Manager(made')
        BY <2>0, <1>0, <4>1, Grows
      <4>3. [m EXCEPT !.own = Subscribes, !.live = Subscribes] \in Manager(made')
        BY <4>1, <4>2, Places DEF Maybe, Steps
      <4>4. Registering([m EXCEPT !.own = Subscribes, !.live = Subscribes]) \in Manager(made')
        BY <4>1, <4>3, Registers
      <4>5. tabs' \in [Tab -> Manager(made')]
        BY <1>0, <3>1, <4>1, <4>4, OneTab
      <4> QED BY <2>6, <4>1, <4>5 DEF Subscribe, PushTypeOK, Maybe
    <3>2. CASE Set(t, [Done(m) EXCEPT !.refused = TRUE]) /\ UNCHANGED <<sub, made>>
      <4>1. [Done(m) EXCEPT !.refused = TRUE] \in Manager(made)
        BY <2>0, <1>0, Ends, Refusals
      <4> QED BY <2>6, <3>2, <4>1, <1>m DEF Subscribe, PushTypeOK
    <3> QED BY <2>6, <3>1, <3>2 DEF Subscribe
  <2>7. CASE Put(t)
    <3> DEFINE p == [m EXCEPT !.held = m.live, !.body = m.of]
    <3>1. p \in Manager(made) /\ m.of \in Maybe(BOOLEAN)
      BY <2>0, <1>0 DEF Manager
    <3>2. Done(p) \in Manager(made) /\ [p EXCEPT !.at = "retiringOld"] \in Manager(made)
      BY <3>1, <1>0, Ends, Moves DEF Steps
    <3> HIDE DEF p
    <3>3. tabs' \in [Tab -> Manager(made')]
      BY <2>7, <3>2, <1>m DEF Put, p
    <3> QED BY <2>7, <3>1, <3>3 DEF Put, PushTypeOK
  <2> QED BY <1>4, <2>1, <2>2, <2>3, <2>4, <2>5, <2>6, <2>7 DEF Sync
<1>5. ASSUME NEW t \in Tab, Faults(t) PROVE PushTypeOK'
  <2> DEFINE m == tabs[t]
  <2>0. /\ m \in Manager(made) /\ Done(m) \in Manager(made)
        /\ Done(Released(m)) \in Manager(made) /\ m.of \in Maybe(BOOLEAN)
    BY <1>0, Ends, Releases, FieldTypes
  <2>1. Forgets(m) \subseteq Endpoints
    BY <2>0, <1>0, FieldTypes DEF Forgets, Maybe, Endpoints, PushTypeOK
  <2>2. CASE Fail(t)
    <3>1. kept' \in [Endpoints -> Maybe(BOOLEAN)]
      BY <2>0, <2>2 DEF Fail, PushTypeOK, Maybe
    <3> QED BY <2>0, <2>1, <2>2, <3>1, <1>f, <1>m DEF Fail, PushTypeOK
  <2>3. CASE Refuse(t)
    <3>1. [Done(m) EXCEPT !.refused = TRUE] \in Manager(made)
      BY <2>0, <1>0, Refusals
    <3> QED BY <2>3, <3>1, <1>f, <1>m DEF Refuse, PushTypeOK
  <2>4. CASE Later(t)
    <3>1. [m EXCEPT !.refused = FALSE, !.body = None] \in Manager(made)
      BY <2>0 DEF Manager, Maybe
    <3> QED BY <2>4, <3>1, <1>f, <1>m DEF Later, PushTypeOK
  <2>5. CASE Reload(t)
    <3>1. Fresh \in Manager(made)
      BY DEF Fresh, Manager, Maybe, Steps
    <3> QED BY <2>1, <2>5, <3>1, <1>f, <1>m DEF Reload, PushTypeOK
  <2> QED BY <1>5, <2>2, <2>3, <2>4, <2>5 DEF Faults
<1>6. CASE Rotate
  <2>1. made' \in 0..MaxEndpoints /\ made <= made' /\ made' \in Nat /\ sub' \in 1..made'
    BY <1>0, <1>6 DEF Rotate, PushTypeOK
  <2>2. tabs' \in [Tab -> Manager(made')]
    BY <1>0, <1>6, <2>1, Grows DEF Rotate
  <2> QED BY <1>6, <2>1, <2>2, <1>f DEF Rotate, PushTypeOK, Maybe
<1>7. CASE Drop
  BY <1>7, <1>f DEF Drop, PushTypeOK, Maybe
<1> QED BY <1>1, <1>2, <1>3, <1>4, <1>5, <1>6, <1>7 DEF Next, vars, push

-----------------------------------------------------------------------------
(* The invariants of the managers.                                            *)

Retiring == {"retiring", "retiringGone", "retiringOld"}

(* What a manager's sync relies on after an await, with s the browser's         *)
(* endpoint: what it is about to retire is not that one.                       *)
AtStep(m, s) ==
  /\ m.at \in {"unsubscribing", "unsubscribed", "putting"} => m.live # None
  /\ m.at \in Retiring => m.old # None /\ m.old # s
  /\ m.at = "unsubscribed" => m.live # s
  /\ m.at = "putting" => m.old = Replaced(m) /\ (m.old # None => m.old # s)
  /\ m.at # "idle" => m.of # None
  /\ m.at \in {"unsubscribing", "unsubscribed", "retiring"} => ~m.on
  /\ m.at \in {"retiringGone", "subscribing", "putting", "retiringOld"} => m.on
  /\ m.at \in {"retiring", "retiringGone", "subscribing"} => m.held = None
  /\ m.at \in {"unsubscribing", "unsubscribed"} =>
       m.held = None \/ m.held = m.live \/ m.held # s
StepInv == \A t \in Tab : AtStep(tabs[t], sub)

(* What a tab registered and the browser has, the gateway keeps.               *)
HeldInv == \A t \in Tab : tabs[t].held # None /\ tabs[t].held = sub => Registered(sub)

(* What the gateway keeps, a tab holds or is about to retire.                  *)
Answers(m, e) == m.held = e \/ (m.at \in Retiring /\ m.old = e)
KeptInv ==
  \A e \in Endpoints : Registered(e) => e \in lost \/ \E t \in Tab : Answers(tabs[t], e)

(* A browser's new endpoint is none it had handed out.                         *)
LEMMA SubSteps ==
  PushTypeOK /\ [Next]_vars => \/ sub' = sub
                               \/ sub' = None
                               \/ sub' = made + 1 /\ sub' \in Nat
<1> SUFFICES ASSUME PushTypeOK, [Next]_vars
             PROVE  sub' = sub \/ sub' = None \/ (sub' = made + 1 /\ sub' \in Nat)
  OBVIOUS
<1>0. made + 1 \in Nat
  BY PushAssumption DEF PushTypeOK
<1>1. CASE UNCHANGED push
  BY <1>1 DEF push
<1>2. ASSUME NEW t \in Tab, NEW gesture \in Gesture, NEW answer \in Permission,
             AnswerPrompt(t, gesture, answer)
      PROVE  sub' = sub \/ sub' = made + 1
  BY <1>2 DEF AnswerPrompt, Subscribed, Subscribes
<1>3. ASSUME NEW t \in Tab, Prepare(t) \/ Sync(t) \/ Faults(t)
      PROVE  sub' = sub \/ sub' = None \/ sub' = made + 1
  BY <1>3 DEF Prepare, Describe, Register, Sync, Start, Read, Unsubscribe, Unsubscribed,
     Retire, Subscribe, Subscribed, Subscribes, Put, Faults, Fail, Refuse, Later, Reload
<1>4. CASE Rotate \/ Drop
  BY <1>0, <1>4 DEF Rotate, Drop
<1> QED BY <1>0, <1>1, <1>2, <1>3, <1>4 DEF Next, vars, push

(* An endpoint that is not the browser's never is again.                       *)
LEMMA DeadStays ==
  ASSUME PushTypeOK, [Next]_vars, NEW e \in 1..made
  PROVE  (e # sub => e # sub') /\ (e = sub' => sub' = sub)
<1>1. made \in Nat /\ e \in Nat /\ e <= made /\ e # None
  BY PushAssumption DEF PushTypeOK
<1> QED BY <1>1, SubSteps

(* What a sync relies on stands however the browser's endpoint changes.      *)
LEMMA StepStands ==
  ASSUME PushTypeOK, [Next]_vars, NEW m \in Manager(made), AtStep(m, sub)
  PROVE  AtStep(m, sub')
<1>1. m.live \in Maybe(1..made) /\ m.old \in Maybe(1..made) /\ m.held \in Maybe(1..made)
  BY FieldTypes DEF PushTypeOK
<1>2. m.live # None /\ m.live # sub => m.live # sub'
  BY <1>1, DeadStays DEF Maybe
<1>3. m.old # None /\ m.old # sub => m.old # sub'
  BY <1>1, DeadStays DEF Maybe
<1>4. m.held # None /\ m.held # sub => m.held # sub'
  BY <1>1, DeadStays DEF Maybe
<1> QED BY <1>2, <1>3, <1>4 DEF AtStep, Retiring

(* Every step keeps what each sync relies on after an await.                 *)
LEMMA StepSteps == PushTypeOK /\ SettingsTypeOK /\ StepInv /\ [Next]_vars => StepInv'
<1> SUFFICES ASSUME PushTypeOK, SettingsTypeOK, StepInv, [Next]_vars PROVE StepInv'
  OBVIOUS
<1>0. made \in Nat /\ \A t \in Tab : tabs[t] \in Manager(made) /\ AtStep(tabs[t], sub)
  BY DEF PushTypeOK, StepInv
<1>s. \A t \in Tab : AtStep(tabs[t], sub')
  BY <1>0, StepStands
<1>u. CASE UNCHANGED tabs
  BY <1>s, <1>u DEF StepInv
<1>o. ASSUME NEW t \in Tab, NEW m, Set(t, m), AtStep(m, sub') PROVE StepInv'
  BY <1>s, <1>o DEF Set, StepInv, PushTypeOK
<1>1. ASSUME NEW t \in Tab, NEW gesture \in Gesture, NEW answer \in Permission,
             AnswerPrompt(t, gesture, answer)
      PROVE  StepInv'
  <2>1. ASSUME NEW e PROVE AtStep([tabs[t] EXCEPT !.own = e], sub')
    BY <1>0, <1>s DEF AtStep, Manager, Replaced
  <2> QED BY <1>1, <2>1, <1>u, <1>o DEF AnswerPrompt
<1>2. ASSUME NEW t \in Tab, Prepare(t) PROVE StepInv'
  <2>1. ASSUME NEW r PROVE AtStep([tabs[t] EXCEPT !.ready = r], sub')
    BY <1>0, <1>s DEF AtStep, Manager, Replaced
  <2> QED BY <1>2, <2>1, <1>o DEF Prepare, Describe, Register
<1>3. ASSUME NEW t \in Tab, Sync(t) PROVE StepInv'
  <2> DEFINE m == tabs[t]
  <2>0. m \in Manager(made) /\ AtStep(m, sub) /\ AtStep(m, sub')
    BY <1>0, <1>s
  <2>t. /\ m.own \in Maybe(1..made) /\ m.held \in Maybe(1..made)
        /\ m.live \in Maybe(1..made) /\ m.old \in Maybe(1..made)
        /\ m.of \in Maybe(BOOLEAN) /\ m.on \in BOOLEAN
    BY <1>0, FieldTypes
  <2>d. ASSUME NEW x \in Manager(made) PROVE AtStep(Done(x), sub')
    BY <2>d DEF AtStep, Done, Manager, Retiring
  <2>1. CASE Start(t)
    <3>1. prefs[t].category # None
      BY PushAssumption DEF SettingsTypeOK, Preferences
    <3>2. AtStep([tabs[t] EXCEPT !.at = "reading", !.of = prefs[t].category,
              !.on = prefs[t].enabled /\ seen[t] = "granted"], sub')
      BY <2>0, <3>1 DEF AtStep, Manager, Retiring
    <3> QED BY <2>1, <3>2, <1>o DEF Start
  <2>2. CASE Read(t)
    <3> DEFINE r == [m EXCEPT !.own = sub, !.live = sub]
    <3>1. r \in Manager(made) /\ m.at = "reading" /\ m.of # None /\ sub' = sub
            /\ r.held = m.held /\ r.live = sub /\ r.of = m.of /\ r.on = m.on
      BY <2>0, <2>2 DEF Read, AtStep, Manager, PushTypeOK
    <3>2. CASE m.on /\ sub # None
      <4>1. AtStep([r EXCEPT !.at = "putting", !.old = Replaced(r)], sub)
        BY <3>1, <3>2 DEF AtStep, Manager, Replaced, Retiring
      <4> QED BY <2>2, <3>1, <3>2, <4>1, <2>d, <1>o DEF Read, Registering
    <3>3. CASE m.on /\ sub = None /\ m.held = None
      <4>1. AtStep([r EXCEPT !.at = "subscribing"], sub)
        BY <3>1, <3>3 DEF AtStep, Manager, Retiring
      <4> QED BY <2>2, <3>1, <3>3, <4>1, <1>o DEF Read
    <3>4. CASE m.on /\ sub = None /\ m.held # None
      <4>1. AtStep([Released(r) EXCEPT !.at = "retiringGone", !.old = r.held], sub)
        BY <3>1, <3>4 DEF AtStep, Manager, Retiring, Released
      <4> QED BY <2>2, <3>1, <3>4, <4>1, <1>o DEF Read
    <3>5. CASE ~m.on /\ sub # None
      <4>1. AtStep([r EXCEPT !.at = "unsubscribing"], sub)
        BY <3>1, <3>5 DEF AtStep, Manager, Retiring
      <4> QED BY <2>2, <3>1, <3>5, <4>1, <1>o DEF Read
    <3>6. CASE ~m.on /\ sub = None /\ m.held = None
      BY <2>2, <3>1, <3>6, <2>d, <1>o DEF Read
    <3>7. CASE ~m.on /\ sub = None /\ m.held # None
      <4>1. AtStep([Released(r) EXCEPT !.at = "retiring", !.old = r.held], sub)
        BY <3>1, <3>7 DEF AtStep, Manager, Retiring, Released
      <4> QED BY <2>2, <3>1, <3>7, <4>1, <1>o DEF Read
    <3> QED BY <2>t, <3>2, <3>3, <3>4, <3>5, <3>6, <3>7
  <2>3. CASE Unsubscribe(t)
    <3>1. sub' # m.live
      BY <2>0, <2>3 DEF Unsubscribe, AtStep
    <3>2. AtStep([tabs[t] EXCEPT !.at = "unsubscribed"], sub')
      BY <2>0, <2>3, <3>1 DEF Unsubscribe, AtStep, Manager, Retiring
    <3> QED BY <2>3, <3>2, <1>o DEF Unsubscribe
  <2>4. CASE Unsubscribed(t)
    <3>1. AtStep([Released(m) EXCEPT !.at = "retiring", !.own = None, !.old = m.live], sub')
      BY <2>0, <2>4 DEF Unsubscribed, AtStep, Manager, Retiring, Released
    <3> QED BY <2>4, <3>1, <1>o DEF Unsubscribed
  <2>5. CASE Retire(t)
    <3>1. m.at = "retiringGone" => AtStep([m EXCEPT !.at = "subscribing", !.old = None], sub')
      BY <2>0 DEF AtStep, Manager, Retiring
    <3> QED BY <2>0, <2>5, <3>1, <2>d, <1>o DEF Retire
  <2>6. CASE Subscribe(t)
    <3>1. CASE CanSubscribe /\ Subscribed
               /\ Set(t, Registering([m EXCEPT !.own = Subscribes, !.live = Subscribes]))
      <4> DEFINE r == [m EXCEPT !.own = Subscribes, !.live = Subscribes]
      <4>1. Subscribes \in Nat /\ sub' = Subscribes /\ made' \in Nat /\ r \in Manager(made')
        <5>1. /\ made' \in 0..MaxEndpoints /\ made <= made' /\ made' \in Nat
              /\ Subscribes \in 1..made' /\ sub' = Subscribes
          BY <3>1, Handed
        <5>2. m \in Manager(made')
          BY <2>0, <1>0, <5>1, Grows
        <5>3. r \in Manager(made')
          BY <5>1, <5>2, Places DEF Maybe, Steps
        <5> QED BY <5>1, <5>3
      <4>2. r.held = None /\ r.live = Subscribes /\ r.of = m.of /\ r.on = m.on
              /\ m.on /\ m.of # None
        BY <2>0, <2>6 DEF Subscribe, AtStep, Manager
      <4>3. Subscribes # None
        BY <4>1, PushAssumption
      <4> HIDE DEF r
      <4>4. AtStep([r EXCEPT !.at = "putting", !.old = Replaced(r)], sub')
        BY <4>1, <4>2, <4>3 DEF AtStep, Manager, Replaced, Retiring
      <4>5. Puts(r)
        BY <4>2, <4>3 DEF Puts
      <4> QED BY <3>1, <4>4, <4>5, <1>o DEF Registering, r
    <3>2. CASE Set(t, [Done(m) EXCEPT !.refused = TRUE])
      <4>1. AtStep([Done(m) EXCEPT !.refused = TRUE], sub')
        BY <2>0 DEF AtStep, Done, Manager, Retiring
      <4> QED BY <3>2, <4>1, <1>o
    <3> QED BY <2>6, <3>1, <3>2 DEF Subscribe
  <2>7. CASE Put(t)
    <3> DEFINE p == [m EXCEPT !.held = m.live, !.body = m.of]
    <3>1. p \in Manager(made) /\ p.of = m.of /\ p.on = m.on /\ p.old = m.old
      BY <2>0 DEF Manager
    <3>2. m.old # None => AtStep([p EXCEPT !.at = "retiringOld"], sub')
      BY <2>0, <2>7, <3>1 DEF Put, AtStep, Manager, Retiring
    <3> HIDE DEF p
    <3> QED BY <2>7, <3>1, <3>2, <2>d, <1>o DEF Put, p
  <2> QED BY <1>3, <2>1, <2>2, <2>3, <2>4, <2>5, <2>6, <2>7 DEF Sync
<1>4. ASSUME NEW t \in Tab, Faults(t) PROVE StepInv'
  <2> DEFINE m == tabs[t]
  <2>0. m \in Manager(made) /\ AtStep(m, sub')
    BY <1>0, <1>s
  <2>1. AtStep(Done(Released(m)), sub') /\ AtStep([Done(m) EXCEPT !.refused = TRUE], sub')
          /\ AtStep([m EXCEPT !.refused = FALSE, !.body = None], sub') /\ AtStep(Fresh, sub')
    BY <2>0 DEF AtStep, Done, Released, Fresh, Manager, Retiring, Replaced
  <2> QED BY <1>4, <2>1, <1>o DEF Faults, Fail, Refuse, Later, Reload
<1> QED BY <1>u, <1>1, <1>2, <1>3, <1>4 DEF Next, vars, push, Rotate, Drop

(* An endpoint the gateway lets go of is not the browser's.                    *)
LEMMA KeptSteps ==
  ASSUME PushTypeOK, SettingsTypeOK, StepInv, [Next]_vars,
         NEW e \in Endpoints, Registered(e), e = sub
  PROVE  kept'[e] # None
<1>0. \A t \in Tab : AtStep(tabs[t], sub)
  BY DEF StepInv
<1>1. CASE UNCHANGED kept
  BY <1>1 DEF Registered
<1>2. ASSUME NEW t \in Tab, tabs[t].at \in Retiring, kept' = [kept EXCEPT ![tabs[t].old] = None]
      PROVE  kept'[e] # None
  BY <1>0, <1>2 DEF AtStep, Registered, PushTypeOK
<1>3. ASSUME NEW t \in Tab, tabs[t].at = "putting",
             kept' = [kept EXCEPT ![tabs[t].live] = tabs[t].of]
      PROVE  kept'[e] # None
  BY <1>0, <1>3 DEF AtStep, Registered, PushTypeOK
<1>4. ASSUME NEW t \in Tab, Prepare(t) \/ Sync(t) \/ Faults(t)
      PROVE  kept'[e] # None
  <2>1. CASE Retire(t)
    BY <2>1, <1>2 DEF Retire, Retiring
  <2>2. CASE Put(t)
    BY <2>2, <1>3 DEF Put
  <2>3. CASE Fail(t)
    BY <2>3, <1>1, <1>2, <1>3 DEF Fail, Retiring
  <2> QED BY <1>1, <1>4, <2>1, <2>2, <2>3 DEF Prepare, Describe, Register, Sync, Start, Read,
            Unsubscribe, Unsubscribed, Subscribe, Faults, Refuse, Later, Reload
<1> QED BY <1>1, <1>4 DEF Next, vars, push, AnswerPrompt, Rotate, Drop

(* A tab holds what it held, or nothing, or what it has just registered.        *)
LEMMA HeldSteps ==
  ASSUME PushTypeOK, [Next]_vars, NEW t \in Tab
  PROVE  \/ tabs'[t].held = tabs[t].held
         \/ tabs'[t].held = None
         \/ Put(t) /\ tabs'[t].held = tabs[t].live /\ UNCHANGED sub
                   /\ kept' = [kept EXCEPT ![tabs[t].live] = tabs[t].of]
<1> DEFINE Goal == \/ tabs'[t].held = tabs[t].held
                   \/ tabs'[t].held = None
                   \/ Put(t) /\ tabs'[t].held = tabs[t].live /\ UNCHANGED sub
                             /\ kept' = [kept EXCEPT ![tabs[t].live] = tabs[t].of]
<1>0. \A u \in Tab : tabs[u] \in Manager(made)
  BY DEF PushTypeOK
<1>u. CASE UNCHANGED tabs
  BY <1>u
<1>o. ASSUME NEW u \in Tab, NEW m, Set(u, m),
             m.held = tabs[u].held \/ m.held = None \/ u # t
      PROVE  Goal
  BY <1>o DEF Set, PushTypeOK
<1>d. ASSUME NEW x \in Manager(made)
      PROVE  Done(x).held = x.held /\ Released(x).held = None /\ Registering(x).held = x.held
  BY <1>d DEF Done, Released, Registering, Manager
<1>1. ASSUME NEW u \in Tab, NEW gesture \in Gesture, NEW answer \in Permission,
             AnswerPrompt(u, gesture, answer)
      PROVE  Goal
  <2>1. [tabs[u] EXCEPT !.own = Subscribes].held = tabs[u].held
    BY <1>0 DEF Manager
  <2> QED BY <1>1, <2>1, <1>u, <1>o DEF AnswerPrompt
<1>2. ASSUME NEW u \in Tab, Prepare(u) PROVE Goal
  <2>1. ASSUME NEW x PROVE [tabs[u] EXCEPT !.ready = x].held = tabs[u].held
    BY <1>0 DEF Manager
  <2> QED BY <1>2, <2>1, <1>o DEF Prepare, Describe, Register
<1>3. ASSUME NEW u \in Tab, Sync(u) PROVE Goal
  <2> DEFINE m == tabs[u]
  <2>0. m \in Manager(made)
    BY <1>0
  <2>1. CASE Start(u)
    <3>1. [m EXCEPT !.at = "reading", !.of = prefs[u].category,
              !.on = prefs[u].enabled /\ seen[u] = "granted"].held = m.held
      BY <2>0 DEF Manager
    <3> QED BY <2>1, <3>1, <1>o DEF Start
  <2>2. CASE Read(u)
    <3> DEFINE r == [m EXCEPT !.own = sub, !.live = sub]
    <3>1. r \in Manager(made) /\ r.held = m.held /\ m.on \in BOOLEAN
      BY <2>0 DEF Manager, PushTypeOK
    <3>2. /\ Registering(r).held = m.held /\ Done(r).held = m.held
          /\ [r EXCEPT !.at = "subscribing"].held = m.held
          /\ [r EXCEPT !.at = "unsubscribing"].held = m.held
          /\ [Released(r) EXCEPT !.at = "retiringGone", !.old = r.held].held = None
          /\ [Released(r) EXCEPT !.at = "retiring", !.old = r.held].held = None
      BY <3>1, <1>d DEF Manager, Released
    <3> HIDE DEF r
    <3> QED BY <2>2, <3>1, <3>2, <1>o DEF Read, r
  <2>3. CASE Unsubscribe(u)
    <3>1. [m EXCEPT !.at = "unsubscribed"].held = m.held
      BY <2>0 DEF Manager
    <3> QED BY <2>3, <3>1, <1>o DEF Unsubscribe
  <2>4. CASE Unsubscribed(u)
    <3>1. [Released(m) EXCEPT !.at = "retiring", !.own = None, !.old = m.live].held = None
      BY <2>0 DEF Manager, Released
    <3> QED BY <2>4, <3>1, <1>o DEF Unsubscribed
  <2>5. CASE Retire(u)
    <3>1. [m EXCEPT !.at = "subscribing", !.old = None].held = m.held /\ Done(m).held = m.held
      BY <2>0, <1>d DEF Manager
    <3> QED BY <2>5, <3>1, <1>o DEF Retire
  <2>6. CASE Subscribe(u)
    <3>1. Registering([m EXCEPT !.own = Subscribes, !.live = Subscribes]).held = m.held
            /\ [Done(m) EXCEPT !.refused = TRUE].held = m.held
      BY <2>0 DEF Manager, Registering, Done
    <3> QED BY <2>6, <3>1, <1>o DEF Subscribe
  <2>7. CASE Put(u)
    <3> DEFINE p == [m EXCEPT !.held = m.live, !.body = m.of]
    <3>1. Done(p).held = m.live /\ [p EXCEPT !.at = "retiringOld"].held = m.live
      BY <2>0 DEF Manager, Done
    <3> HIDE DEF p
    <3>2. CASE u = t
      BY <2>7, <3>1, <3>2 DEF Put, Set, PushTypeOK, p
    <3>3. CASE u # t
      BY <2>7, <3>3 DEF Put, Set, PushTypeOK
    <3> QED BY <3>2, <3>3
  <2> QED BY <1>3, <2>1, <2>2, <2>3, <2>4, <2>5, <2>6, <2>7 DEF Sync
<1>4. ASSUME NEW u \in Tab, Faults(u) PROVE Goal
  <2> DEFINE m == tabs[u]
  <2>1. /\ Done(Released(m)).held = None /\ [Done(m) EXCEPT !.refused = TRUE].held = m.held
        /\ [m EXCEPT !.refused = FALSE, !.body = None].held = m.held /\ Fresh.held = None
    BY <1>0 DEF Done, Released, Fresh, Manager
  <2> QED BY <1>4, <2>1, <1>o DEF Faults, Fail, Refuse, Later, Reload
<1> QED BY <1>u, <1>1, <1>2, <1>3, <1>4 DEF Next, vars, push, Rotate, Drop

(* What a tab registered and the browser has, the gateway goes on keeping.   *)
LEMMA HeldInvSteps ==
  PushTypeOK /\ SettingsTypeOK /\ StepInv /\ HeldInv /\ [Next]_vars => HeldInv'
<1> SUFFICES ASSUME PushTypeOK, SettingsTypeOK, StepInv, HeldInv, [Next]_vars,
                    NEW t \in Tab, tabs'[t].held # None, tabs'[t].held = sub'
             PROVE  kept'[sub'] # None
  BY DEF HeldInv, Registered
<1>0. tabs[t] \in Manager(made) /\ made \in Nat /\ made <= MaxEndpoints /\ MaxEndpoints \in Nat
  BY PushAssumption DEF PushTypeOK
<1>1. CASE tabs'[t].held = tabs[t].held
  <2>1. tabs[t].held \in 1..made
    BY <1>0, <1>1, FieldTypes DEF Maybe
  <2>2. sub' = sub
    BY <1>1, <2>1, DeadStays
  <2>3. tabs[t].held = sub /\ tabs[t].held # None
    BY <1>1, <2>2
  <2>4. Registered(sub)
    BY <2>3 DEF HeldInv
  <2>5. sub \in Endpoints
    BY <1>0, <2>1, <2>3 DEF Endpoints
  <2> QED BY <2>2, <2>4, <2>5, KeptSteps
<1>2. CASE /\ Put(t) /\ tabs'[t].held = tabs[t].live /\ UNCHANGED sub
           /\ kept' = [kept EXCEPT ![tabs[t].live] = tabs[t].of]
  <2>1. tabs[t].live # None /\ tabs[t].of # None
    BY <1>2 DEF StepInv, AtStep, Put
  <2>2. tabs[t].live \in Endpoints
    BY <1>0, <2>1, FieldTypes DEF Maybe, Endpoints
  <2> QED BY <1>2, <2>1, <2>2 DEF PushTypeOK
<1> QED BY <1>1, <1>2, HeldSteps

(* The gateway keeps an endpoint only as long as a tab answers for it.       *)
LEMMA KeptInvSteps ==
  PushTypeOK /\ SettingsTypeOK /\ StepInv /\ KeptInv /\ [Next]_vars => KeptInv'
<1> SUFFICES ASSUME PushTypeOK, SettingsTypeOK, StepInv, KeptInv, [Next]_vars PROVE KeptInv'
  OBVIOUS
<1>0. \A t \in Tab : tabs[t] \in Manager(made) /\ AtStep(tabs[t], sub)
  BY DEF PushTypeOK, StepInv
<1>u. CASE UNCHANGED <<kept, tabs, lost>>
  BY <1>u DEF KeptInv, Registered
\* A tab goes on, and answers for what it did or forgets it by a failure.
<1>o. ASSUME NEW t \in Tab, NEW m, Set(t, m), lost \subseteq lost',
             \A e \in Endpoints :
               kept'[e] # None =>
                 \/ Registered(e) /\ (Answers(tabs[t], e) => Answers(m, e) \/ e \in lost')
                 \/ Answers(m, e) \/ e \in lost'
      PROVE  KeptInv'
  <2> SUFFICES ASSUME NEW e \in Endpoints, kept'[e] # None, e \notin lost'
               PROVE  \E u \in Tab : Answers(tabs'[u], e)
    BY DEF KeptInv, Registered, Answers
  <2>1. tabs'[t] = m /\ \A u \in Tab \ {t} : tabs'[u] = tabs[u]
    BY <1>o DEF Set, PushTypeOK
  <2>2. CASE Answers(m, e)
    BY <2>1, <2>2
  <2>3. CASE ~Answers(m, e)
    <3>1. Registered(e) /\ ~Answers(tabs[t], e)
      BY <1>o, <2>3
    <3>2. PICK u \in Tab : Answers(tabs[u], e)
      BY <1>o, <3>1 DEF KeptInv
    <3> QED BY <2>1, <3>1, <3>2
  <2> QED BY <2>2, <2>3
<1>d. ASSUME NEW t \in Tab, NEW m, Set(t, m), UNCHANGED <<kept, lost>>,
             m.held = tabs[t].held, tabs[t].at \notin Retiring
      PROVE  KeptInv'
  BY <1>d, <1>o DEF Answers, Registered
<1>1. ASSUME NEW t \in Tab, NEW gesture \in Gesture, NEW answer \in Permission,
             AnswerPrompt(t, gesture, answer)
      PROVE  KeptInv'
  <2>1. ASSUME NEW x, NEW e
        PROVE  Answers(tabs[t], e) => Answers([tabs[t] EXCEPT !.own = x], e)
    BY <1>0 DEF Answers, Manager
  <2>2. CASE UNCHANGED tabs
    BY <1>1, <2>2, <1>u DEF AnswerPrompt
  <2>3. CASE Set(t, [tabs[t] EXCEPT !.own = Subscribes])
    BY <1>1, <2>1, <2>3, <1>o DEF AnswerPrompt, Registered
  <2> QED BY <1>1, <2>2, <2>3 DEF AnswerPrompt
<1>2. ASSUME NEW t \in Tab, Prepare(t) PROVE KeptInv'
  <2>1. ASSUME NEW x, NEW e
        PROVE  Answers(tabs[t], e) => Answers([tabs[t] EXCEPT !.ready = x], e)
    BY <1>0 DEF Answers, Manager
  <2> QED BY <1>2, <2>1, <1>o DEF Prepare, Describe, Register, Registered
<1>3. ASSUME NEW t \in Tab, Sync(t) PROVE KeptInv'
  <2> DEFINE m == tabs[t]
  <2>0. m \in Manager(made) /\ AtStep(m, sub)
    BY <1>0
  <2>1. CASE Start(t)
    <3>1. [m EXCEPT !.at = "reading", !.of = prefs[t].category,
              !.on = prefs[t].enabled /\ seen[t] = "granted"].held = m.held
      BY <2>0 DEF Manager
    <3> QED BY <2>1, <3>1, <1>d DEF Start, Retiring
  <2>2. CASE Read(t)
    <3> DEFINE r == [m EXCEPT !.own = sub, !.live = sub]
    <3>1. r \in Manager(made) /\ r.held = m.held /\ m.on \in BOOLEAN
      BY <2>0 DEF Manager, PushTypeOK
    <3>2. /\ Registering(r).held = m.held /\ Done(r).held = m.held
          /\ [r EXCEPT !.at = "subscribing"].held = m.held
          /\ [r EXCEPT !.at = "unsubscribing"].held = m.held
      BY <3>1 DEF Manager, Registering, Done
    <3>3. ASSUME NEW at \in Retiring, NEW e, Answers(m, e)
          PROVE  Answers([Released(r) EXCEPT !.at = at, !.old = r.held], e)
      BY <2>2, <3>1, <3>3 DEF Read, Answers, Retiring, Released, Manager
    <3> HIDE DEF r
    <3>4. CASE Set(t, [Released(r) EXCEPT !.at = "retiringGone", !.old = r.held])
      BY <2>2, <3>3, <3>4, <1>o DEF Read, Retiring, Registered
    <3>5. CASE Set(t, [Released(r) EXCEPT !.at = "retiring", !.old = r.held])
      BY <2>2, <3>3, <3>5, <1>o DEF Read, Retiring, Registered
    <3>6. CASE \/ Set(t, Registering(r)) \/ Set(t, Done(r))
               \/ Set(t, [r EXCEPT !.at = "subscribing"])
               \/ Set(t, [r EXCEPT !.at = "unsubscribing"])
      BY <2>2, <3>2, <3>6, <1>d DEF Read, Retiring
    <3>7. r.held = m.held /\ (m.on \/ ~m.on)
      BY <3>1
    <3> QED BY <2>2, <3>4, <3>5, <3>6, <3>7 DEF Read, r
  <2>3. CASE Unsubscribe(t)
    <3>1. [m EXCEPT !.at = "unsubscribed"].held = m.held
      BY <2>0 DEF Manager
    <3> QED BY <2>3, <3>1, <1>d DEF Unsubscribe, Retiring
  <2>4. CASE Unsubscribed(t)
    <3> DEFINE p == [Released(m) EXCEPT !.at = "retiring", !.own = None, !.old = m.live]
    <3>1. p.at = "retiring" /\ p.old = m.live
      BY <2>0 DEF Manager, Released
    <3>2. lost' = lost \cup ({m.held} \ {None, m.live}) /\ Set(t, p) /\ UNCHANGED kept
            /\ m.at = "unsubscribed"
      BY <2>4 DEF Unsubscribed
    <3>3. \A e \in Endpoints : e # None
      BY PushAssumption DEF Endpoints
    <3> HIDE DEF p
    <3>4. \A e \in Endpoints : Answers(m, e) => Answers(p, e) \/ e \in lost'
      BY <3>1, <3>2, <3>3 DEF Answers, Retiring
    <3> QED BY <3>2, <3>4, <1>o DEF Registered
  <2>5. CASE Retire(t)
    <3>1. [m EXCEPT !.at = "subscribing", !.old = None].held = m.held /\ Done(m).held = m.held
      BY <2>0 DEF Manager, Done
    <3>2. PICK x : Set(t, x) /\ x.held = m.held
      BY <2>5, <3>1 DEF Retire
    <3>3. \A e \in Endpoints : kept'[e] # None => Registered(e) /\ e # m.old
      BY <2>5 DEF Retire, PushTypeOK, Registered
    <3> QED BY <2>5, <3>2, <3>3, <1>o DEF Retire, Answers
  <2>6. CASE Subscribe(t)
    <3>1. Registering([m EXCEPT !.own = Subscribes, !.live = Subscribes]).held = m.held
            /\ [Done(m) EXCEPT !.refused = TRUE].held = m.held
      BY <2>0 DEF Manager, Registering, Done
    <3> QED BY <2>6, <3>1, <1>d DEF Subscribe, Retiring
  <2>7. CASE Put(t)
    <3> DEFINE p == [m EXCEPT !.held = m.live, !.body = m.of]
    <3>1. Done(p).held = m.live /\ [p EXCEPT !.at = "retiringOld"].held = m.live
            /\ [p EXCEPT !.at = "retiringOld"].old = m.old
            /\ [p EXCEPT !.at = "retiringOld"].at = "retiringOld"
      BY <2>0 DEF Manager, Done
    <3>2. m.at = "putting" /\ (m.held # m.live => m.old = m.held)
            /\ kept' = [kept EXCEPT ![m.live] = m.of] /\ UNCHANGED lost
      BY <2>0, <2>7 DEF Put, AtStep, Replaced
    <3>3. \A e \in Endpoints : kept'[e] # None => e = m.live \/ Registered(e)
      BY <3>2 DEF PushTypeOK, Registered
    <3>4. \A e \in Endpoints : e # None
      BY PushAssumption DEF Endpoints
    <3> HIDE DEF p
    <3>5. CASE m.old = None /\ Set(t, Done(p))
      <4>1. \A e \in Endpoints : Answers(m, e) => e = m.live
        BY <3>2, <3>4, <3>5 DEF Answers, Retiring
      <4>2. \A e : e = m.live => Answers(Done(p), e)
        BY <3>1 DEF Answers
      <4> QED BY <3>2, <3>3, <3>5, <4>1, <4>2, <1>o
    <3>6. CASE Set(t, [p EXCEPT !.at = "retiringOld"])
      <4>1. \A e \in Endpoints : Answers(m, e) => e = m.live \/ e = m.old
        BY <3>2 DEF Answers, Retiring
      <4>2. \A e : e = m.live \/ e = m.old => Answers([p EXCEPT !.at = "retiringOld"], e)
        BY <3>1 DEF Answers, Retiring
      <4> QED BY <3>2, <3>3, <3>6, <4>1, <4>2, <1>o
    <3> QED BY <2>7, <3>5, <3>6 DEF Put, p
  <2> QED BY <1>3, <2>1, <2>2, <2>3, <2>4, <2>5, <2>6, <2>7 DEF Sync
<1>4. ASSUME NEW t \in Tab, Faults(t) PROVE KeptInv'
  <2> DEFINE m == tabs[t]
  <2>0. m \in Manager(made) /\ AtStep(m, sub) /\ \A e \in Endpoints : e # None
    BY <1>0, PushAssumption DEF Endpoints
  <2>1. \A e \in Endpoints : Answers(m, e) => e \in Forgets(m)
    BY <2>0 DEF Answers, Forgets
  <2>2. CASE Fail(t)
    <3>1. \A e \in Endpoints : kept'[e] # None => Registered(e) \/ e \in Forgets(m)
      <4>1. CASE UNCHANGED kept
        BY <4>1 DEF Registered
      <4>2. CASE m.at = "putting" /\ kept' = [kept EXCEPT ![m.live] = m.of]
        BY <2>0, <4>2 DEF Registered, Forgets, PushTypeOK
      <4>3. CASE kept' = [kept EXCEPT ![m.old] = None]
        BY <4>3 DEF Registered, PushTypeOK
      <4> QED BY <2>2, <4>1, <4>2, <4>3 DEF Fail
    <3>2. Set(t, Done(Released(m))) /\ lost' = lost \cup Forgets(m)
      BY <2>2 DEF Fail
    <3> QED BY <2>1, <3>1, <3>2, <1>o
  <2>3. CASE Refuse(t)
    <3>1. [Done(m) EXCEPT !.refused = TRUE].held = m.held
      BY <2>0 DEF Manager, Done
    <3> QED BY <2>3, <3>1, <1>d DEF Refuse, Retiring
  <2>4. CASE Later(t)
    <3>1. \A e : Answers(m, e) => Answers([m EXCEPT !.refused = FALSE, !.body = None], e)
      BY <2>0 DEF Answers, Manager
    <3> QED BY <2>4, <3>1, <1>o DEF Later, Registered
  <2>5. CASE Reload(t)
    BY <2>1, <2>5, <1>o DEF Reload, Registered
  <2> QED BY <1>4, <2>2, <2>3, <2>4, <2>5 DEF Faults
<1> QED BY <1>u, <1>1, <1>2, <1>3, <1>4 DEF Next, vars, push, Rotate, Drop

-----------------------------------------------------------------------------
(* The settings a sync works with, and what it leaves.                        *)

Wanted(t) == prefs[t].enabled /\ seen[t] = "granted"

(* Unless something is still to follow, a manager works with the tab's settings *)
(* or, idle, has done what they say.                                          *)
InSync(m, wanted, category) ==
  /\ m.at # "idle" => (m.on <=> wanted) /\ m.of = category
  /\ m.at = "idle" /\ ~wanted => m.held = None
  /\ m.at \in {"idle", "retiringOld"} /\ wanted /\ ~m.refused /\ faults = 0 =>
       m.held # None /\ m.body = category
SyncInv == \A t \in Tab : ~changed[t] => InSync(tabs[t], Wanted(t), prefs[t].category)

(* Settings change only where onChange follows.                                *)
LEMMA WantedSteps ==
  ASSUME SettingsTypeOK, SettingsStep, NEW t \in Tab, ~changed'[t]
  PROVE  prefs'[t] = prefs[t] /\ seen'[t] = seen[t]
<1> DEFINE Same == prefs'[t] = prefs[t] /\ seen'[t] = seen[t]
<1>1. ASSUME NEW u \in Tab, Calls(u) PROVE u # t
  BY <1>1 DEF Calls, SettingsTypeOK
<1>2. ASSUME NEW u \in Tab, u # t, NEW p, PublishOwn(u, p) PROVE prefs'[t] = prefs[t]
  BY <1>2 DEF PublishOwn, SettingsTypeOK
<1>3. ASSUME NEW u \in Tab, u # t, NEW p, Sees(u, p) PROVE seen'[t] = seen[t]
  BY <1>3 DEF Sees, SettingsTypeOK
<1>4. ASSUME NEW u \in Tab, NEW ready \in BOOLEAN, Click(u, ready) PROVE Same
  BY <1>1, <1>2, <1>3, <1>4 DEF Click, OptOut, OptIn, AcceptAsk, SetCategory, PublishNothing
<1>5. ASSUME NEW u \in Tab, Hear(u) \/ Publish(u) \/ Restart(u) PROVE Same
  <2>1. CASE Receive(u) \/ Publish(u) \/ Restart(u)
    <3>1. u # t /\ prefs' = [prefs EXCEPT ![u] = stored]
      BY <1>1, <2>1 DEF Receive, Publish, Restart
    <3>2. prefs'[t] = prefs[t]
      BY <3>1 DEF SettingsTypeOK
    <3> QED BY <1>3, <2>1, <3>1, <3>2 DEF Receive, Publish, Restart
  <2>2. CASE Recheck(u)
    BY <1>1, <1>3, <2>2 DEF Recheck
  <2> QED BY <1>5, <2>1, <2>2 DEF Hear
<1>6. ASSUME NEW u \in Tab, NEW gesture \in Gesture, NEW answer \in Permission,
             Answer(u, gesture, answer) PROVE Same
  BY <1>1, <1>2, <1>3, <1>6 DEF Answer, PublishNothing
<1>7. ASSUME NEW u \in Tab, Takes(u) PROVE Same
  BY <1>7 DEF Takes, Others
<1>8. CASE PermFalls \/ UNCHANGED settings
  BY <1>8 DEF PermFalls, Others, settings
<1> QED BY <1>4, <1>5, <1>6, <1>7, <1>8 DEF SettingsStep, Turns

(* What was to follow has followed only where a sync starts.                   *)
LEMMA ChangedSteps ==
  ASSUME SettingsTypeOK, [Next]_vars, NEW t \in Tab, changed[t], ~changed'[t]
  PROVE  Start(t)
<1>1. ASSUME NEW u \in Tab, Calls(u) PROVE FALSE
  BY <1>1 DEF Calls, SettingsTypeOK
<1>2. ~(UNCHANGED changed)
  OBVIOUS
<1>3. ASSUME NEW u \in Tab, Settle(u) PROVE FALSE
  BY <1>1, <1>2, <1>3 DEF Settle, Click, OptOut, OptIn, AcceptAsk, SetCategory, Hear,
     Receive, Recheck, Publish
<1>4. ASSUME NEW u \in Tab, NEW gesture \in Gesture, NEW answer \in Permission,
             AnswerPrompt(u, gesture, answer) PROVE FALSE
  BY <1>1, <1>2, <1>4 DEF AnswerPrompt, Answer
<1>5. ASSUME NEW u \in Tab, Prepare(u) \/ Sync(u) \/ Faults(u) PROVE Start(t)
  <2>1. CASE Start(u)
    BY <2>1 DEF Start, SettingsTypeOK
  <2> QED BY <1>1, <1>2, <1>5, <2>1 DEF Prepare, Describe, Register, Sync, Read, Unsubscribe,
            Unsubscribed, Retire, Subscribe, Put, Faults, Fail, Refuse, Later, Publish,
            Reload, Restart, settings
<1> QED BY <1>2, <1>3, <1>4, <1>5 DEF Next, vars, settings, Rotate, Drop

(* A tab with nothing to catch up on did what its settings ask for.          *)
LEMMA SyncSteps ==
  PushTypeOK /\ SettingsTypeOK /\ StepInv /\ SyncInv /\ [Next]_vars => SyncInv'
<1> SUFFICES ASSUME PushTypeOK, SettingsTypeOK, StepInv, SyncInv, [Next]_vars,
                    NEW t \in Tab, ~changed'[t]
             PROVE  InSync(tabs[t], Wanted(t), prefs[t].category)'
  BY DEF SyncInv
<1> DEFINE m == tabs[t]
           w == Wanted(t)
           c == prefs[t].category
           Goal == InSync(tabs[t], Wanted(t), prefs[t].category)'
<1>0. m \in Manager(made) /\ AtStep(m, sub) /\ faults \in Nat
  BY DEF PushTypeOK, StepInv
<1>1. UNCHANGED <<prefs[t], seen[t], Wanted(t), prefs[t].category>>
  BY SettingsSteps, WantedSteps DEF Wanted
<1>2. changed[t] => Start(t)
  BY ChangedSteps
<1>3. ~changed[t] => InSync(m, w, c)
  BY DEF SyncInv
<1>f. ASSUME Fault PROVE faults' # 0
  BY <1>0, <1>f DEF Fault
\* Its fields are what they were, or the sync ended, having done nothing or failed.
<1>u. ASSUME ~changed[t], UNCHANGED faults,
             \/ tabs'[t] = tabs[t]
             \/ \E x : tabs'[t] = [tabs[t] EXCEPT !.own = x]
             \/ \E x : tabs'[t] = [tabs[t] EXCEPT !.ready = x]
      PROVE  Goal
  <2>1. tabs'[t].at = m.at /\ tabs'[t].on = m.on /\ tabs'[t].of = m.of
          /\ tabs'[t].held = m.held /\ tabs'[t].body = m.body /\ tabs'[t].refused = m.refused
    BY <1>0, <1>u DEF Manager
  <2> QED BY <1>1, <1>3, <1>u, <2>1 DEF InSync
<1>v. ASSUME ~changed[t], faults' # 0, tabs'[t] = tabs[t] PROVE Goal
  BY <1>1, <1>3, <1>v DEF InSync
<1>4. ASSUME NEW u \in Tab, u # t, NEW x, Set(u, x) PROVE tabs'[t] = tabs[t]
  BY <1>4 DEF Set, PushTypeOK
<1>5. ASSUME NEW x, Set(t, x) PROVE tabs'[t] = x
  BY <1>5 DEF Set, PushTypeOK
<1>6. ASSUME Start(t) PROVE Goal
  <2>1. tabs'[t] = [m EXCEPT !.at = "reading", !.of = prefs[t].category,
              !.on = prefs[t].enabled /\ seen[t] = "granted"]
    BY <1>5, <1>6 DEF Start
  <2>2. tabs'[t].at = "reading" /\ tabs'[t].of = c /\ (tabs'[t].on <=> w)
    BY <1>0, <2>1 DEF Manager, Wanted
  <2> QED BY <1>1, <2>2 DEF InSync
<1>7. CASE changed[t]
  BY <1>2, <1>6, <1>7
<1>8. CASE ~changed[t]
  <2>0. InSync(m, w, c)
    BY <1>3, <1>8
  <2>u. CASE UNCHANGED push
    BY <1>8, <1>u, <2>u DEF push
  <2>1. ASSUME NEW u \in Tab, NEW gesture \in Gesture, NEW answer \in Permission,
             AnswerPrompt(u, gesture, answer) PROVE Goal
    <3>1. CASE UNCHANGED tabs
      BY <1>8, <1>u, <2>1, <3>1 DEF AnswerPrompt
    <3>2. CASE Set(u, [tabs[u] EXCEPT !.own = Subscribes])
      BY <1>8, <1>u, <1>4, <1>5, <2>1, <3>2 DEF AnswerPrompt
    <3> QED BY <2>1, <3>1, <3>2 DEF AnswerPrompt
  <2>2. ASSUME NEW u \in Tab, Prepare(u) PROVE Goal
    BY <1>8, <1>u, <1>4, <1>5, <2>2 DEF Prepare, Describe, Register
  <2>3. ASSUME NEW u \in Tab, u # t, Sync(u) PROVE Goal
    BY <1>8, <1>u, <1>4, <2>3 DEF Sync, Start, Read, Unsubscribe, Unsubscribed, Retire,
       Subscribe, Put
  <2>4. ASSUME NEW u \in Tab, u # t, Faults(u) PROVE Goal
    BY <1>8, <1>v, <1>4, <1>f, <2>4 DEF Faults, Fail, Refuse, Later, Reload
  <2>5. CASE Rotate \/ Drop
    BY <1>8, <1>v, <1>f, <2>5 DEF Rotate, Drop
  <2>6. ASSUME Sync(t) PROVE Goal
    <3>1. CASE Read(t)
      <4> DEFINE r == [m EXCEPT !.own = sub, !.live = sub]
      <4>1. r \in Manager(made) /\ r.held = m.held /\ r.on = m.on /\ r.of = m.of
              /\ r.body = m.body /\ r.refused = m.refused /\ r.live = sub /\ m.on \in BOOLEAN
        BY <1>0 DEF Manager, PushTypeOK
      <4>2. m.at = "reading" /\ (m.on <=> w) /\ m.of = c /\ UNCHANGED faults
        BY <2>0, <3>1 DEF Read, InSync
      <4> HIDE DEF r
      <4>3. CASE m.on /\ sub # None
        <5>1. tabs'[t] = Registering(r)
          BY <1>5, <3>1, <4>1, <4>3 DEF Read, r
        <5>2. CASE Puts(r)
          <6>1. tabs'[t].at = "putting" /\ tabs'[t].on = m.on /\ tabs'[t].of = c
            BY <4>1, <4>2, <5>1, <5>2 DEF Registering, Manager
          <6> QED BY <1>1, <4>2, <6>1 DEF InSync
        <5>3. CASE ~Puts(r)
          <6>1. tabs'[t].at = "idle" /\ tabs'[t].held = m.held /\ tabs'[t].body = m.body
            BY <4>1, <5>1, <5>3 DEF Registering, Done, Manager
          <6>2. m.held # None /\ m.body = c
            BY <4>1, <4>2, <4>3, <5>3 DEF Puts
          <6> QED BY <1>1, <4>2, <4>3, <6>1, <6>2 DEF InSync
        <5> QED BY <5>2, <5>3
      <4>4. CASE ~m.on /\ sub = None /\ m.held = None
        <5>1. tabs'[t] = Done(r)
          BY <1>5, <3>1, <4>1, <4>4 DEF Read, r
        <5>2. tabs'[t].at = "idle" /\ tabs'[t].held = None
          BY <4>1, <4>4, <5>1 DEF Done, Manager
        <5> QED BY <1>1, <4>2, <4>4, <5>2 DEF InSync
      <4>5. CASE ~(m.on /\ sub # None) /\ ~(~m.on /\ sub = None /\ m.held = None)
        <5>1. \/ tabs'[t] = [r EXCEPT !.at = "subscribing"]
              \/ tabs'[t] = [Released(r) EXCEPT !.at = "retiringGone", !.old = r.held]
              \/ tabs'[t] = [r EXCEPT !.at = "unsubscribing"]
              \/ tabs'[t] = [Released(r) EXCEPT !.at = "retiring", !.old = r.held]
          BY <1>5, <3>1, <4>1, <4>5 DEF Read, r
        <5>2. tabs'[t].at \in {"subscribing", "retiringGone", "unsubscribing", "retiring"}
                /\ tabs'[t].on = m.on /\ tabs'[t].of = m.of
          BY <4>1, <5>1 DEF Released, Manager
        <5> QED BY <1>1, <4>2, <5>2 DEF InSync
      <4> QED BY <4>3, <4>4, <4>5
    <3>2. CASE Unsubscribe(t) \/ Unsubscribed(t)
      <4>1. \/ tabs'[t] = [m EXCEPT !.at = "unsubscribed"]
            \/ tabs'[t] = [Released(m) EXCEPT !.at = "retiring", !.own = None, !.old = m.live]
        BY <1>5, <3>2 DEF Unsubscribe, Unsubscribed
      <4>2. tabs'[t].at \in {"unsubscribed", "retiring"} /\ tabs'[t].on = m.on
              /\ tabs'[t].of = m.of
        BY <1>0, <4>1 DEF Released, Manager
      <4>3. m.at # "idle"
        BY <3>2 DEF Unsubscribe, Unsubscribed
      <4> QED BY <1>1, <2>0, <4>2, <4>3 DEF InSync
    <3>3. CASE Retire(t)
      <4>1. CASE m.at = "retiringGone"
        <5>1. tabs'[t] = [m EXCEPT !.at = "subscribing", !.old = None]
          BY <1>5, <3>3, <4>1 DEF Retire
        <5>2. tabs'[t].at = "subscribing" /\ tabs'[t].on = m.on /\ tabs'[t].of = m.of
          BY <1>0, <5>1 DEF Manager
        <5> QED BY <1>1, <2>0, <4>1, <5>2 DEF InSync
      <4>2. CASE m.at # "retiringGone"
        <5>1. tabs'[t] = Done(m) /\ m.at \in {"retiring", "retiringOld"}
          BY <1>5, <3>3, <4>2 DEF Retire
        <5>2. tabs'[t].at = "idle" /\ tabs'[t].held = m.held /\ tabs'[t].body = m.body
                /\ tabs'[t].refused = m.refused /\ UNCHANGED faults
          BY <1>0, <3>3, <5>1 DEF Done, Manager, Retire
        <5>3. CASE m.at = "retiring"
          BY <1>0, <1>1, <2>0, <5>2, <5>3 DEF InSync, AtStep
        <5>4. CASE m.at = "retiringOld"
          BY <1>0, <1>1, <2>0, <5>2, <5>4 DEF InSync, AtStep
        <5> QED BY <5>1, <5>3, <5>4
      <4> QED BY <4>1, <4>2
    <3>4. CASE Subscribe(t)
      <4>0. m.held = None /\ m.on /\ m.on = w /\ m.of = c /\ UNCHANGED faults
        BY <1>0, <2>0, <3>4 DEF Subscribe, InSync, AtStep, Wanted, Manager, SettingsTypeOK,
           Preferences
      <4>1. CASE CanSubscribe /\ Subscribed
                 /\ Set(t, Registering([m EXCEPT !.own = Subscribes, !.live = Subscribes]))
        <5>1. Subscribes # None
          BY <4>1, Handed, PushAssumption
        <5>2. tabs'[t] = Registering([m EXCEPT !.own = Subscribes, !.live = Subscribes])
          BY <1>5, <4>1
        <5>3. tabs'[t].at = "putting" /\ tabs'[t].on = m.on /\ tabs'[t].of = m.of
          BY <1>0, <4>0, <5>1, <5>2 DEF Registering, Puts, Manager
        <5> QED BY <1>1, <4>0, <5>3 DEF InSync
      <4>2. CASE Set(t, [Done(m) EXCEPT !.refused = TRUE])
        <5>1. tabs'[t].at = "idle" /\ tabs'[t].refused
          BY <1>0, <1>5, <4>2 DEF Done, Manager
        <5> QED BY <1>1, <4>0, <5>1 DEF InSync
      <4> QED BY <3>4, <4>1, <4>2 DEF Subscribe
    <3>5. CASE Put(t)
      <4> DEFINE p == [m EXCEPT !.held = m.live, !.body = m.of]
      <4>1. tabs'[t] = Done(p) \/ tabs'[t] = [p EXCEPT !.at = "retiringOld"]
        BY <1>5, <3>5 DEF Put
      <4>2. tabs'[t].held = m.live /\ tabs'[t].body = m.of
              /\ (tabs'[t].at = "idle" \/ (tabs'[t].at = "retiringOld" /\ tabs'[t].on = m.on
                                             /\ tabs'[t].of = m.of))
        BY <1>0, <4>1 DEF Done, Manager
      <4>3. m.live # None /\ m.on /\ (m.on <=> w) /\ m.of = c
        BY <1>0, <2>0, <3>5 DEF Put, InSync, AtStep
      <4> QED BY <1>1, <4>2, <4>3 DEF InSync
    <3> QED BY <1>6, <2>6, <3>1, <3>2, <3>3, <3>4, <3>5 DEF Sync
  <2>7. ASSUME Faults(t) PROVE Goal
    <3>1. ~(Later(t) \/ Reload(t))
      BY DEF Later, Publish, Reload, Restart, Calls, SettingsTypeOK
    <3>2. CASE Fail(t)
      <4>1. tabs'[t].at = "idle" /\ tabs'[t].held = None /\ faults' # 0
        BY <1>0, <1>5, <1>f, <3>2 DEF Fail, Done, Released, Manager
      <4> QED BY <4>1 DEF InSync
    <3>3. CASE Refuse(t)
      <4>1. tabs'[t].at = "idle" /\ tabs'[t].held = m.held /\ faults' # 0
        BY <1>0, <1>5, <1>f, <3>3 DEF Refuse, Done, Manager
      <4>2. m.held = None
        BY <1>0, <3>3 DEF Refuse, AtStep
      <4> QED BY <4>1, <4>2 DEF InSync
    <3> QED BY <2>7, <3>1, <3>2, <3>3 DEF Faults
  <2>8. ASSUME NEW u \in Tab, Sync(u) \/ Faults(u) PROVE Goal
    BY <2>3, <2>4, <2>6, <2>7, <2>8
  <2> QED BY <2>u, <2>1, <2>2, <2>5, <2>8 DEF Next, vars
<1> QED BY <1>7, <1>8

-----------------------------------------------------------------------------
(* Somebody sees to the browser's endpoint.                                   *)

(* A tab that will look at the endpoint again, and one that holds it.           *)
Behind(t) == changed[t] \/ ~Wanted(t) \/ tabs[t].at \in {"reading", "subscribing", "retiringGone"}
Holds(t) ==
  /\ sub # None /\ tabs[t].own = sub
  /\ tabs[t].held = sub \/ (tabs[t].at = "putting" /\ tabs[t].live = sub)
HolderInv == faults = 0 => \E t \in Tab : tabs[t].refused \/ Behind(t) \/ Holds(t)

(* What the gateway keeps of the browser's endpoint is what a tab that holds it *)
(* registered last.                                                           *)
BodyInv ==
  /\ \A e \in Endpoints : Registered(e) => e <= made
  /\ faults = 0 /\ sub # None /\ Registered(sub) =>
       \E t \in Tab : tabs[t].held = sub /\ tabs[t].body = kept[sub]

(* A new endpoint is only given where there was none, as long as nothing fails. *)
LEMMA CalmSub ==
  ASSUME PushTypeOK, [Next]_vars, faults' = 0, sub # None, sub' # sub
  PROVE  \E u \in Tab : Unsubscribe(u) /\ tabs[u].live = sub
<1>0. faults \in Nat
  BY DEF PushTypeOK
<1>1. ~Fault
  BY <1>0 DEF Fault
<1>2. ASSUME NEW t \in Tab, NEW gesture \in Gesture, NEW answer \in Permission,
             AnswerPrompt(t, gesture, answer) PROVE FALSE
  BY <1>2 DEF AnswerPrompt, Subscribed, Subscribes
<1>3. ASSUME NEW t \in Tab, Prepare(t) \/ Sync(t)
      PROVE  \E u \in Tab : Unsubscribe(u) /\ tabs[u].live = sub
  <2>1. CASE Unsubscribe(t)
    BY <2>1 DEF Unsubscribe
  <2> QED BY <1>3, <2>1 DEF Prepare, Describe, Register, Sync, Start, Read, Unsubscribed, Retire,
            Subscribe, Subscribed, Subscribes, Put
<1>4. ASSUME NEW t \in Tab, Faults(t) PROVE FALSE
  BY <1>1, <1>4 DEF Faults, Fail, Refuse, Later, Reload
<1> QED BY <1>1, <1>2, <1>3, <1>4 DEF Next, vars, push, Rotate, Drop

(* What a tab that holds the browser's endpoint does of it while nothing fails: *)
(* it leaves it alone, or registers it again.                                  *)
LEMMA StillHeld ==
  ASSUME PushTypeOK, StepInv, [Next]_vars, faults' = 0, sub # None, sub' = sub,
         NEW t \in Tab, tabs[t].held = sub
  PROVE  /\ tabs'[t].held = sub
         /\ tabs'[t].body = tabs[t].body \/ (Put(t) /\ tabs[t].live = sub)
<1> DEFINE m == tabs[t]
           Kept == tabs'[t].held = sub /\ tabs'[t].body = tabs[t].body
<1>0. m \in Manager(made) /\ AtStep(m, sub) /\ faults \in Nat
  BY DEF PushTypeOK, StepInv
<1>1. ~Fault
  BY <1>0 DEF Fault
<1>4. ASSUME NEW u \in Tab, u # t, NEW x, Set(u, x) PROVE tabs'[t] = tabs[t]
  BY <1>4 DEF Set, PushTypeOK
<1>5. ASSUME NEW x, Set(t, x) PROVE tabs'[t] = x
  BY <1>5 DEF Set, PushTypeOK
<1>6. CASE UNCHANGED tabs
  BY <1>6
<1>7. ASSUME NEW u \in Tab, NEW gesture \in Gesture, NEW answer \in Permission,
             AnswerPrompt(u, gesture, answer) PROVE Kept
  <2>1. [m EXCEPT !.own = Subscribes].held = m.held /\ [m EXCEPT !.own = Subscribes].body = m.body
    BY <1>0 DEF Manager
  <2> QED BY <1>4, <1>5, <1>6, <1>7, <2>1 DEF AnswerPrompt
<1>8. ASSUME NEW u \in Tab, Prepare(u) PROVE Kept
  <2>1. ASSUME NEW x
        PROVE  [m EXCEPT !.ready = x].held = m.held /\ [m EXCEPT !.ready = x].body = m.body
    BY <1>0 DEF Manager
  <2>2. CASE u = t
    <3>1. \/ tabs'[t] = [m EXCEPT !.ready = "described"]
          \/ tabs'[t] = [m EXCEPT !.ready = "registered"]
      BY <1>5, <1>8, <2>2 DEF Prepare, Describe, Register
    <3> QED BY <2>1, <3>1
  <2>3. CASE u # t
    BY <1>4, <1>8, <2>3 DEF Prepare, Describe, Register
  <2> QED BY <2>2, <2>3
<1>9. ASSUME NEW u \in Tab, u # t, Sync(u) PROVE Kept
  BY <1>4, <1>9 DEF Sync, Start, Read, Unsubscribe, Unsubscribed, Retire, Subscribe, Put
<1>10. ASSUME Sync(t) PROVE Kept \/ (tabs'[t].held = sub /\ Put(t) /\ tabs[t].live = sub)
  <2>1. CASE Start(t)
    <3>1. tabs'[t] = [m EXCEPT !.at = "reading", !.of = prefs[t].category,
              !.on = prefs[t].enabled /\ seen[t] = "granted"]
      BY <1>5, <2>1 DEF Start
    <3> QED BY <1>0, <3>1 DEF Manager
  <2>2. CASE Read(t)
    <3> DEFINE r == [m EXCEPT !.own = sub, !.live = sub]
    <3>1. r \in Manager(made) /\ r.held = m.held /\ r.body = m.body /\ m.on \in BOOLEAN
      BY <1>0 DEF Manager, PushTypeOK
    <3> HIDE DEF r
    <3>2. tabs'[t] = Registering(r) \/ tabs'[t] = [r EXCEPT !.at = "unsubscribing"]
      BY <1>5, <2>2, <3>1 DEF Read, r
    <3> QED BY <3>1, <3>2 DEF Manager, Registering, Done
  <2>3. CASE Unsubscribe(t)
    <3>1. tabs'[t] = [m EXCEPT !.at = "unsubscribed"]
      BY <1>5, <2>3 DEF Unsubscribe
    <3> QED BY <1>0, <3>1 DEF Manager
  <2>4. CASE Unsubscribed(t)
    BY <1>0, <2>4 DEF Unsubscribed, AtStep
  <2>5. CASE Retire(t)
    <3>1. tabs'[t] = [m EXCEPT !.at = "subscribing", !.old = None] \/ tabs'[t] = Done(m)
      BY <1>5, <2>5 DEF Retire
    <3> QED BY <1>0, <3>1 DEF Manager, Done
  <2>6. CASE Subscribe(t)
    BY <1>0, <2>6 DEF Subscribe, AtStep
  <2>7. CASE Put(t)
    <3> DEFINE p == [m EXCEPT !.held = m.live, !.body = m.of]
    <3>1. m.live = sub
      BY <1>0, <2>7 DEF Put, AtStep, Replaced
    <3>2. tabs'[t] = Done(p) \/ tabs'[t] = [p EXCEPT !.at = "retiringOld"]
      BY <1>5, <2>7 DEF Put
    <3>3. tabs'[t].held = m.live
      BY <1>0, <3>2 DEF Done, Manager
    <3> QED BY <2>7, <3>1, <3>3
  <2> QED BY <1>10, <2>1, <2>2, <2>3, <2>4, <2>5, <2>6, <2>7 DEF Sync
<1>11. ASSUME NEW u \in Tab, Faults(u) PROVE FALSE
  BY <1>1, <1>11 DEF Faults, Fail, Refuse, Later, Reload
<1> QED BY <1>1, <1>6, <1>7, <1>8, <1>9, <1>10, <1>11 DEF Next, vars, push, Rotate, Drop

(* What the gateway keeps is what a tab that holds the endpoint put last.    *)
LEMMA BodySteps ==
  PushTypeOK /\ SettingsTypeOK /\ StepInv /\ BodyInv /\ [Next]_vars => BodyInv'
<1> SUFFICES ASSUME PushTypeOK, SettingsTypeOK, StepInv, BodyInv, [Next]_vars PROVE BodyInv'
  OBVIOUS
<1>0. /\ \A t \in Tab : tabs[t] \in Manager(made) /\ AtStep(tabs[t], sub)
      /\ made \in Nat /\ made' \in Nat /\ faults \in Nat /\ kept \in [Endpoints -> Maybe(BOOLEAN)]
      /\ \A e \in Endpoints : e \in Nat
      /\ sub \in Maybe(1..made) /\ sub' \in Maybe(1..made') /\ made' <= MaxEndpoints
  BY TypeSteps, PushAssumption DEF PushTypeOK, StepInv, Endpoints
\* What becomes of the gateway's endpoints.
<1>1. \/ UNCHANGED kept
      \/ \E t \in Tab : tabs[t].at \in Retiring /\ kept' = [kept EXCEPT ![tabs[t].old] = None]
      \/ \E t \in Tab : /\ tabs[t].at = "putting"
                        /\ kept' = [kept EXCEPT ![tabs[t].live] = tabs[t].of]
                        /\ Put(t) \/ Fail(t)
  <2>1. ASSUME NEW t \in Tab, Prepare(t) \/ Sync(t) \/ Faults(t)
        PROVE  \/ UNCHANGED kept
               \/ tabs[t].at \in Retiring /\ kept' = [kept EXCEPT ![tabs[t].old] = None]
               \/ /\ tabs[t].at = "putting"
                  /\ kept' = [kept EXCEPT ![tabs[t].live] = tabs[t].of]
                  /\ Put(t) \/ Fail(t)
    <3>1. CASE Retire(t)
      BY <3>1 DEF Retire, Retiring
    <3>2. CASE Put(t)
      BY <3>2 DEF Put
    <3>3. CASE Fail(t)
      BY <3>3 DEF Fail, Retiring
    <3> QED BY <2>1, <3>1, <3>2, <3>3 DEF Prepare, Describe, Register, Sync, Start, Read,
              Unsubscribe, Unsubscribed, Subscribe, Faults, Refuse, Later, Reload
  <2> QED BY <2>1 DEF Next, vars, push, AnswerPrompt, Rotate, Drop
<1>2. made <= made'
  <2>1. ASSUME CanSubscribe, Subscribed PROVE made <= made'
    BY <2>1, Handed
  <2>2. ASSUME NEW t \in Tab, Prepare(t) \/ Sync(t) \/ Faults(t) PROVE made <= made'
    BY <1>0, <2>1, <2>2 DEF Prepare, Describe, Register, Sync, Start, Read, Unsubscribe,
       Unsubscribed, Retire, Subscribe, Put, Faults, Fail, Refuse, Later, Reload
  <2>3. ASSUME NEW t \in Tab, NEW gesture \in Gesture, NEW answer \in Permission,
             AnswerPrompt(t, gesture, answer)
        PROVE  made <= made'
    BY <1>0, <2>1, <2>3 DEF AnswerPrompt
  <2>4. CASE UNCHANGED push \/ Rotate \/ Drop
    BY <1>0, <2>4 DEF push, Rotate, Drop
  <2> QED BY <2>2, <2>3, <2>4 DEF Next, vars, push
<1>3. \A e \in Endpoints : kept'[e] # None => e <= made
  <2> SUFFICES ASSUME NEW e \in Endpoints, kept'[e] # None PROVE e <= made
    OBVIOUS
  <2>1. CASE kept[e] # None
    BY <2>1 DEF BodyInv, Registered
  <2>2. CASE kept[e] = None
    <3>1. PICK t \in Tab : tabs[t].at = "putting" /\ kept' = [kept EXCEPT ![tabs[t].live] = tabs[t].of]
      BY <1>0, <1>1, <2>2
    <3>2. e = tabs[t].live
      BY <1>0, <2>2, <3>1
    <3>3. tabs[t].live \in Maybe(1..made) /\ tabs[t].live # None
      BY <1>0, <3>1, FieldTypes DEF AtStep
    <3> QED BY <1>0, <3>2, <3>3 DEF Maybe
  <2> QED BY <2>1, <2>2
<1>4. ASSUME faults' = 0, sub' # None, kept'[sub'] # None
      PROVE  \E t \in Tab : tabs'[t].held = sub' /\ tabs'[t].body = kept'[sub']
  <2>1. sub' = sub
    <3>1. sub' \in Endpoints
      BY <1>0, <1>4, PushAssumption DEF Maybe, Endpoints
    <3>2. sub' <= made
      BY <1>3, <1>4, <3>1
    <3> QED BY <1>0, <1>4, <3>2, SubSteps
  <2>2. sub \in Endpoints /\ sub # None /\ faults = 0
    <3>1. sub \in Endpoints
      BY <1>0, <1>4, <2>1, PushAssumption DEF Maybe, Endpoints
    <3>2. ASSUME Fault PROVE FALSE
      BY <1>0, <1>4, <3>2 DEF Fault
    <3>3. faults' = faults
      BY <3>2 DEF Next, vars, push, AnswerPrompt, Prepare, Describe, Register, Sync, Start, Read,
         Unsubscribe, Unsubscribed, Retire, Subscribe, Put, Faults, Fail, Refuse, Later,
         Reload, Rotate, Drop
    <3> QED BY <1>4, <2>1, <3>1, <3>3
  <2>3. ASSUME Fault PROVE FALSE
    BY <1>0, <1>4, <2>3 DEF Fault
  <2>4. ASSUME NEW t \in Tab, Put(t), tabs[t].live = sub
        PROVE  tabs'[t].held = sub /\ tabs'[t].body = kept'[sub]
    <3> DEFINE m == tabs[t]
               p == [m EXCEPT !.held = m.live, !.body = m.of]
    <3>1. tabs'[t] = Done(p) \/ tabs'[t] = [p EXCEPT !.at = "retiringOld"]
      BY <2>4 DEF Put, Set, PushTypeOK
    <3>2. tabs'[t].held = m.live /\ tabs'[t].body = m.of
      BY <1>0, <3>1 DEF Done, Manager
    <3>3. kept'[sub] = m.of
      BY <1>0, <2>2, <2>4 DEF Put
    <3> QED BY <2>4, <3>2, <3>3
  <2>5. CASE \E t \in Tab : Put(t) /\ tabs[t].live = sub
    BY <2>1, <2>4, <2>5
  <2>6. CASE ~\E t \in Tab : Put(t) /\ tabs[t].live = sub
    <3>1. kept'[sub] = kept[sub]
      <4>1. ASSUME NEW t \in Tab, tabs[t].at \in Retiring, kept' = [kept EXCEPT ![tabs[t].old] = None]
            PROVE  kept'[sub] = kept[sub]
        BY <1>0, <2>2, <4>1 DEF AtStep
      <4>2. ASSUME NEW t \in Tab, kept' = [kept EXCEPT ![tabs[t].live] = tabs[t].of],
                   Put(t) \/ Fail(t)
            PROVE  kept'[sub] = kept[sub]
        BY <1>0, <2>2, <2>3, <2>6, <4>2 DEF Fail
      <4> QED BY <1>1, <4>1, <4>2
    <3>2. PICK t \in Tab : tabs[t].held = sub /\ tabs[t].body = kept[sub]
      BY <1>4, <2>1, <2>2, <3>1 DEF BodyInv, Registered
    <3> QED BY <1>4, <2>1, <2>2, <2>6, <3>1, <3>2, StillHeld
  <2> QED BY <2>5, <2>6
<1>5. \A e \in Endpoints : kept'[e] # None => e <= made'
  BY <1>0, <1>2, <1>3
<1> QED BY <1>4, <1>5 DEF BodyInv, Registered

(* A holder that has the settings to hold it for goes on holding it.            *)
LEMMA HolderGoesOn ==
  ASSUME PushTypeOK, SettingsTypeOK, StepInv, SyncInv, [Next]_vars, faults' = 0,
         NEW t \in Tab, ~changed[t], ~changed'[t], Wanted(t), Holds(t), sub' = sub
  PROVE  (tabs[t].refused \/ Behind(t) \/ Holds(t))'
<1> DEFINE m == tabs[t]
           Goal == (tabs[t].refused \/ Behind(t) \/ Holds(t))'
<1>a. InSync(m, Wanted(t), prefs[t].category)
  BY DEF SyncInv
<1>b. /\ sub # None /\ m.own = sub
      /\ m.held = sub \/ (m.at = "putting" /\ m.live = sub)
  BY DEF Holds
<1>c. m \in Manager(made) /\ AtStep(m, sub) /\ faults \in Nat
  BY DEF PushTypeOK, StepInv
<1>0. /\ m \in Manager(made) /\ AtStep(m, sub) /\ faults \in Nat
      /\ InSync(m, Wanted(t), prefs[t].category)
      /\ sub # None /\ m.own = sub
      /\ m.held = sub \/ (m.at = "putting" /\ m.live = sub)
  BY <1>a, <1>b, <1>c
<1>1. ~Fault
  BY <1>0 DEF Fault
<1>4. ASSUME NEW u \in Tab, u # t, NEW x, Set(u, x) PROVE tabs'[t] = tabs[t]
  BY <1>4 DEF Set, PushTypeOK
<1>5. ASSUME NEW x, Set(t, x) PROVE tabs'[t] = x
  BY <1>5 DEF Set, PushTypeOK
<1>6. ASSUME tabs'[t] = tabs[t] PROVE Goal
  BY <1>0, <1>6 DEF Holds
<1>7. ASSUME NEW u \in Tab, NEW gesture \in Gesture, NEW answer \in Permission,
             AnswerPrompt(u, gesture, answer) PROVE Goal
  <2>1. CASE Set(u, [tabs[u] EXCEPT !.own = Subscribes]) /\ u = t /\ Subscribed
    <3>1. tabs'[t] = [m EXCEPT !.own = sub]
      BY <1>0, <1>5, <2>1 DEF Subscribes
    <3>2. tabs'[t].own = sub /\ tabs'[t].held = m.held /\ tabs'[t].live = m.live
            /\ tabs'[t].at = m.at
      BY <1>0, <3>1 DEF Manager
    <3> QED BY <1>0, <3>2 DEF Holds
  <2> QED BY <1>4, <1>6, <1>7, <2>1 DEF AnswerPrompt
<1>8. ASSUME NEW u \in Tab, Prepare(u) PROVE Goal
  <2>1. CASE u = t
    <3>1. \/ tabs'[t] = [m EXCEPT !.ready = "described"]
          \/ tabs'[t] = [m EXCEPT !.ready = "registered"]
      BY <1>5, <1>8, <2>1 DEF Prepare, Describe, Register
    <3>2. tabs'[t].own = m.own /\ tabs'[t].held = m.held /\ tabs'[t].live = m.live
            /\ tabs'[t].at = m.at
      BY <1>0, <3>1 DEF Manager
    <3> QED BY <1>0, <3>2 DEF Holds
  <2>2. CASE u # t
    BY <1>4, <1>6, <1>8, <2>2 DEF Prepare, Describe, Register
  <2> QED BY <2>1, <2>2
<1>9. ASSUME NEW u \in Tab, u # t, Sync(u) PROVE Goal
  BY <1>4, <1>6, <1>9 DEF Sync, Start, Read, Unsubscribe, Unsubscribed, Retire, Subscribe, Put
<1>10. ASSUME Sync(t) PROVE Goal
  <2>1. CASE Start(t)
    BY <2>1 DEF Start
  <2>2. CASE Read(t)
    <3> DEFINE r == [m EXCEPT !.own = sub, !.live = sub]
    <3>1. r \in Manager(made) /\ r.held = m.held /\ r.own = sub /\ r.live = sub
      BY <1>0 DEF Manager, PushTypeOK
    <3>2. m.on
      BY <1>0, <2>2 DEF Read, InSync
    <3> HIDE DEF r
    <3>3. tabs'[t] = Registering(r)
      BY <1>0, <1>5, <2>2, <3>1, <3>2 DEF Read, r
    <3>4. CASE Puts(r)
      <4>1. tabs'[t].own = sub /\ tabs'[t].at = "putting" /\ tabs'[t].live = sub
        BY <3>1, <3>3, <3>4 DEF Registering, Manager
      <4> QED BY <1>0, <4>1 DEF Holds
    <3>5. CASE ~Puts(r)
      <4>1. tabs'[t].own = sub /\ tabs'[t].held = sub
        BY <3>1, <3>3, <3>5 DEF Registering, Puts, Done, Manager
      <4> QED BY <1>0, <4>1 DEF Holds
    <3> QED BY <3>4, <3>5
  <2>3. CASE Unsubscribe(t) \/ Unsubscribed(t)
    BY <1>0, <2>3 DEF Unsubscribe, Unsubscribed, AtStep, InSync
  <2>4. CASE Retire(t)
    <3>1. CASE m.at = "retiringGone"
      <4>1. tabs'[t] = [m EXCEPT !.at = "subscribing", !.old = None]
        BY <1>5, <2>4, <3>1 DEF Retire
      <4>2. tabs'[t].at = "subscribing"
        BY <1>0, <4>1 DEF Manager
      <4> QED BY <4>2 DEF Behind
    <3>2. CASE m.at # "retiringGone"
      <4>1. tabs'[t] = Done(m)
        BY <1>5, <2>4, <3>2 DEF Retire
      <4>2. tabs'[t].own = m.own /\ tabs'[t].held = m.held
        BY <1>0, <4>1 DEF Done, Manager
      <4>3. m.held = sub
        BY <1>0, <2>4 DEF Retire
      <4> QED BY <1>0, <4>2, <4>3 DEF Holds
    <3> QED BY <3>1, <3>2
  <2>5. CASE Subscribe(t)
    BY <1>0, <2>5 DEF Subscribe, AtStep
  <2>6. CASE Put(t)
    <3> DEFINE p == [m EXCEPT !.held = m.live, !.body = m.of]
    <3>1. m.live = sub
      BY <1>0, <2>6 DEF Put, AtStep, Replaced
    <3>2. tabs'[t] = Done(p) \/ tabs'[t] = [p EXCEPT !.at = "retiringOld"]
      BY <1>5, <2>6 DEF Put
    <3>3. tabs'[t].held = m.live /\ tabs'[t].own = m.own
      BY <1>0, <3>2 DEF Done, Manager
    <3> QED BY <1>0, <3>1, <3>3 DEF Holds
  <2> QED BY <1>10, <2>1, <2>2, <2>3, <2>4, <2>5, <2>6 DEF Sync
<1>11. ASSUME NEW u \in Tab, Faults(u) PROVE FALSE
  BY <1>1, <1>11 DEF Faults, Fail, Refuse, Later, Reload
<1> QED BY <1>1, <1>6, <1>7, <1>8, <1>9, <1>10, <1>11 DEF Next, vars, push, Rotate, Drop

(* A tab that is about to look at the endpoint does, and then holds it.         *)
LEMMA BehindGoesOn ==
  ASSUME PushTypeOK, SettingsTypeOK, StepInv, SyncInv, [Next]_vars, faults' = 0,
         NEW t \in Tab, ~changed[t], ~changed'[t], Wanted(t),
         tabs[t].at \in {"reading", "subscribing", "retiringGone"}
  PROVE  (tabs[t].refused \/ Behind(t) \/ Holds(t))'
<1> DEFINE m == tabs[t]
           Goal == (tabs[t].refused \/ Behind(t) \/ Holds(t))'
<1>a. InSync(m, Wanted(t), prefs[t].category)
  BY DEF SyncInv
<1>0. /\ m \in Manager(made) /\ AtStep(m, sub) /\ faults \in Nat
      /\ InSync(m, Wanted(t), prefs[t].category)
  <2>1. m \in Manager(made) /\ AtStep(m, sub) /\ faults \in Nat
    BY DEF PushTypeOK, StepInv
  <2> QED BY <1>a, <2>1
<1>1. ~Fault
  BY <1>0 DEF Fault
<1>4. ASSUME NEW u \in Tab, u # t, NEW x, Set(u, x) PROVE tabs'[t] = tabs[t]
  BY <1>4 DEF Set, PushTypeOK
<1>5. ASSUME NEW x, Set(t, x) PROVE tabs'[t] = x
  BY <1>5 DEF Set, PushTypeOK
<1>6. ASSUME tabs'[t].at = m.at PROVE Goal
  BY <1>6 DEF Behind
<1>7. ASSUME NEW u \in Tab, NEW gesture \in Gesture, NEW answer \in Permission,
             AnswerPrompt(u, gesture, answer) PROVE Goal
  <2>1. [m EXCEPT !.own = Subscribes].at = m.at
    BY <1>0 DEF Manager
  <2> QED BY <1>4, <1>5, <1>6, <1>7, <2>1 DEF AnswerPrompt
<1>8. ASSUME NEW u \in Tab, Prepare(u) PROVE Goal
  <2>1. CASE u = t
    <3>1. \/ tabs'[t] = [m EXCEPT !.ready = "described"]
          \/ tabs'[t] = [m EXCEPT !.ready = "registered"]
      BY <1>5, <1>8, <2>1 DEF Prepare, Describe, Register
    <3>2. tabs'[t].at = m.at
      BY <1>0, <3>1 DEF Manager
    <3> QED BY <1>6, <3>2
  <2>2. CASE u # t
    BY <1>4, <1>6, <1>8, <2>2 DEF Prepare, Describe, Register
  <2> QED BY <2>1, <2>2
<1>9. ASSUME NEW u \in Tab, u # t, Sync(u) PROVE Goal
  BY <1>4, <1>6, <1>9 DEF Sync, Start, Read, Unsubscribe, Unsubscribed, Retire, Subscribe, Put
<1>10. ASSUME Sync(t) PROVE Goal
  <2>1. CASE Read(t)
    <3> DEFINE r == [m EXCEPT !.own = sub, !.live = sub]
    <3>1. r \in Manager(made) /\ r.held = m.held /\ r.own = sub /\ r.live = sub
      BY <1>0 DEF Manager, PushTypeOK
    <3>2. m.on /\ UNCHANGED sub
      BY <1>0, <2>1 DEF Read, InSync
    <3> HIDE DEF r
    <3>3. CASE sub # None
      <4>1. tabs'[t] = Registering(r)
        BY <1>5, <2>1, <3>1, <3>2, <3>3 DEF Read, r
      <4>2. CASE Puts(r)
        <5>1. tabs'[t].own = sub /\ tabs'[t].at = "putting" /\ tabs'[t].live = sub
          BY <3>1, <4>1, <4>2 DEF Registering, Manager
        <5> QED BY <3>2, <3>3, <5>1 DEF Holds
      <4>3. CASE ~Puts(r)
        <5>1. tabs'[t].own = sub /\ tabs'[t].held = sub
          BY <3>1, <4>1, <4>3 DEF Registering, Puts, Done, Manager
        <5> QED BY <3>2, <3>3, <5>1 DEF Holds
      <4> QED BY <4>2, <4>3
    <3>4. CASE sub = None
      <4>1. \/ tabs'[t] = [r EXCEPT !.at = "subscribing"]
            \/ tabs'[t] = [Released(r) EXCEPT !.at = "retiringGone", !.old = r.held]
        BY <1>5, <2>1, <3>1, <3>2, <3>4 DEF Read, r
      <4>2. tabs'[t].at \in {"subscribing", "retiringGone"}
        BY <3>1, <4>1 DEF Released, Manager
      <4> QED BY <4>2 DEF Behind
    <3> QED BY <3>3, <3>4
  <2>2. CASE Retire(t)
    <3>1. tabs'[t] = [m EXCEPT !.at = "subscribing", !.old = None]
      BY <1>5, <2>2 DEF Retire
    <3>2. tabs'[t].at = "subscribing"
      BY <1>0, <3>1 DEF Manager
    <3> QED BY <3>2 DEF Behind
  <2>3. CASE Subscribe(t)
    <3>1. CASE CanSubscribe /\ Subscribed
               /\ Set(t, Registering([m EXCEPT !.own = Subscribes, !.live = Subscribes]))
      <4>1. Subscribes # None /\ sub' = Subscribes
        BY <3>1, Handed, PushAssumption
      <4>2. tabs'[t] = Registering([m EXCEPT !.own = Subscribes, !.live = Subscribes])
        BY <1>5, <3>1
      <4>3. tabs'[t].at = "putting" /\ tabs'[t].own = Subscribes /\ tabs'[t].live = Subscribes
        BY <1>0, <2>3, <4>1, <4>2 DEF Subscribe, AtStep, Registering, Puts, Manager
      <4> QED BY <4>1, <4>3 DEF Holds
    <3>2. CASE Set(t, [Done(m) EXCEPT !.refused = TRUE])
      <4>1. tabs'[t].refused
        BY <1>0, <1>5, <3>2 DEF Done, Manager
      <4> QED BY <4>1
    <3> QED BY <2>3, <3>1, <3>2 DEF Subscribe
  <2> QED BY <1>10, <2>1, <2>2, <2>3 DEF Sync, Start, Unsubscribe, Unsubscribed, Put
<1>11. ASSUME NEW u \in Tab, Faults(u) PROVE FALSE
  BY <1>1, <1>11 DEF Faults, Fail, Refuse, Later, Reload
<1> QED BY <1>1, <1>6, <1>7, <1>8, <1>9, <1>10, <1>11 DEF Next, vars, push, Rotate, Drop

(* A browser that refused a tab is not asked again unless something fails.      *)
LEMMA StaysRefused ==
  ASSUME PushTypeOK, StepInv, [Next]_vars, faults' = 0, NEW t \in Tab, tabs[t].refused
  PROVE  tabs'[t].refused
<1> DEFINE m == tabs[t]
<1>0. \A u \in Tab : tabs[u] \in Manager(made)
  BY DEF PushTypeOK
<1>1. ~Fault
  BY DEF Fault, PushTypeOK
<1>4. ASSUME NEW u \in Tab, NEW x, Set(u, x), u = t => x.refused PROVE tabs'[t].refused
  BY <1>4 DEF Set, PushTypeOK
<1>6. CASE UNCHANGED tabs
  BY <1>6
<1>7. ASSUME NEW u \in Tab, NEW gesture \in Gesture, NEW answer \in Permission,
             AnswerPrompt(u, gesture, answer)
      PROVE  tabs'[t].refused
  <2>1. [m EXCEPT !.own = Subscribes].refused
    BY <1>0 DEF Manager
  <2> QED BY <1>4, <1>6, <1>7, <2>1 DEF AnswerPrompt
<1>8. ASSUME NEW u \in Tab, Prepare(u) PROVE tabs'[t].refused
  <2>1. [m EXCEPT !.ready = "described"].refused /\ [m EXCEPT !.ready = "registered"].refused
    BY <1>0 DEF Manager
  <2> QED BY <1>4, <1>8, <2>1 DEF Prepare, Describe, Register
<1>9. ASSUME NEW u \in Tab, Sync(u) PROVE tabs'[t].refused
  <2> DEFINE r == [m EXCEPT !.own = sub, !.live = sub]
             p == [m EXCEPT !.held = m.live, !.body = m.of]
  <2>1. r \in Manager(made) /\ r.refused /\ m.on \in BOOLEAN
    BY <1>0 DEF Manager, PushTypeOK
  <2>2. /\ Registering(r).refused /\ Done(r).refused
        /\ [r EXCEPT !.at = "subscribing"].refused /\ [r EXCEPT !.at = "unsubscribing"].refused
        /\ [Released(r) EXCEPT !.at = "retiringGone", !.old = r.held].refused
        /\ [Released(r) EXCEPT !.at = "retiring", !.old = r.held].refused
    BY <2>1 DEF Registering, Done, Released, Manager
  <2>3. CASE Read(u)
    BY <1>4, <2>1, <2>2, <2>3 DEF Read
  <2>4. Done(p).refused /\ [p EXCEPT !.at = "retiringOld"].refused
    BY <1>0 DEF Done, Manager
  <2>5. CASE Put(u)
    BY <1>4, <2>4, <2>5 DEF Put
  <2>6. /\ [m EXCEPT !.at = "reading", !.of = prefs[t].category,
              !.on = prefs[t].enabled /\ seen[t] = "granted"].refused
        /\ [m EXCEPT !.at = "unsubscribed"].refused
        /\ [Released(m) EXCEPT !.at = "retiring", !.own = None, !.old = m.live].refused
        /\ [m EXCEPT !.at = "subscribing", !.old = None].refused /\ Done(m).refused
    BY <1>0 DEF Released, Done, Manager
  <2>7. CASE Start(u) \/ Unsubscribe(u) \/ Unsubscribed(u) \/ Retire(u)
    BY <1>4, <2>6, <2>7 DEF Start, Unsubscribe, Unsubscribed, Retire
  <2>8. [Done(m) EXCEPT !.refused = TRUE].refused
    BY <1>0 DEF Done, Manager
  <2>9. CASE Subscribe(u)
    BY <1>4, <2>8, <2>9 DEF Subscribe
  <2> QED BY <1>9, <2>3, <2>5, <2>7, <2>9 DEF Sync
<1>10. ASSUME NEW u \in Tab, Faults(u) PROVE FALSE
  BY <1>1, <1>10 DEF Faults, Fail, Refuse, Later, Reload
<1> QED BY <1>1, <1>6, <1>7, <1>8, <1>9, <1>10 DEF Next, vars, push, Rotate, Drop

(* While nothing fails a tab holds the endpoint, will look, or was refused.  *)
LEMMA HolderSteps ==
  PushTypeOK /\ SettingsTypeOK /\ StepInv /\ SyncInv /\ HolderInv /\ [Next]_vars => HolderInv'
<1> SUFFICES ASSUME PushTypeOK, SettingsTypeOK, StepInv, SyncInv, HolderInv, [Next]_vars,
                    faults' = 0
             PROVE  \E t \in Tab : (tabs[t].refused \/ Behind(t) \/ Holds(t))'
  BY DEF HolderInv
<1>0. ~Fault
  BY DEF Fault, PushTypeOK
<1>1. faults = 0
  BY <1>0 DEF Next, vars, push, AnswerPrompt, Prepare, Describe, Register, Sync, Start, Read,
     Unsubscribe, Unsubscribed, Retire, Subscribe, Put, Faults, Fail, Refuse, Later, Reload,
     Rotate, Drop
<1>2. PICK t \in Tab : tabs[t].refused \/ Behind(t) \/ Holds(t)
  BY <1>1 DEF HolderInv
<1>3. SettingsStep
  BY SettingsSteps
<1>4. CASE changed'[t]
  BY <1>4 DEF Behind
<1>5. CASE ~changed'[t]
  <2>1. prefs'[t] = prefs[t] /\ seen'[t] = seen[t]
    BY <1>3, <1>5, WantedSteps
  <2>2. CASE ~Wanted(t)
    BY <2>1, <2>2 DEF Wanted, Behind
  <2>3. CASE changed[t]
    <3>1. Start(t)
      BY <1>5, <2>3, ChangedSteps
    <3>2. tabs'[t] = [tabs[t] EXCEPT !.at = "reading", !.of = prefs[t].category,
              !.on = prefs[t].enabled /\ seen[t] = "granted"]
      BY <3>1 DEF Start, Set, PushTypeOK
    <3>3. tabs'[t].at = "reading"
      BY <3>2 DEF PushTypeOK, Manager
    <3> QED BY <3>3 DEF Behind
  <2>4. CASE tabs[t].refused
    BY <2>4, StaysRefused
  <2>5. CASE ~changed[t] /\ Wanted(t) /\ tabs[t].at \in {"reading", "subscribing", "retiringGone"}
    BY <1>5, <2>5, BehindGoesOn
  <2>6. CASE ~changed[t] /\ Wanted(t) /\ Holds(t) /\ sub' = sub
    BY <1>5, <2>6, HolderGoesOn
  <2>7. CASE Holds(t) /\ sub' # sub
    <3>1. PICK u \in Tab : Unsubscribe(u) /\ tabs[u].live = sub
      BY <2>7, CalmSub DEF Holds
    <3>2. UNCHANGED <<changed, prefs, seen>> /\ ~tabs[u].on
      BY <3>1 DEF Unsubscribe, settings, StepInv, AtStep
    <3>3. changed[u] \/ ~Wanted(u)
      BY <3>1, <3>2 DEF SyncInv, InSync, Unsubscribe
    <3> QED BY <3>2, <3>3 DEF Behind, Wanted
  <2> QED BY <1>2, <2>2, <2>3, <2>4, <2>5, <2>6, <2>7 DEF Behind
<1> QED BY <1>4, <1>5

-----------------------------------------------------------------------------
(* All of it, which is inductive.                                             *)
Inv == /\ TypeOK /\ StepInv /\ HeldInv /\ KeptInv /\ BodyInv
       /\ OptInv /\ MailInv /\ SyncInv /\ HolderInv

(* The invariant holds at the start,                                         *)
LEMMA InvInit == Init => Inv
<1> SUFFICES ASSUME Init PROVE Inv
  OBVIOUS
<1>1. TypeOK
  BY TypeInit
<1>2. /\ tabs = [t \in Tab |-> Fresh] /\ sub = None /\ made = 0
      /\ kept = [e \in Endpoints |-> None] /\ changed = [t \in Tab |-> TRUE]
      /\ prefs = [t \in Tab |-> stored] /\ offIn = None
  BY DEF Init, InitSettings
<1>3. \A t \in Tab : tabs[t].at = "idle" /\ tabs[t].held = None
  BY <1>2 DEF Fresh
<1>4. StepInv
  BY <1>3 DEF StepInv, AtStep, Retiring
<1>5. HeldInv /\ KeptInv /\ BodyInv
  BY <1>2, <1>3 DEF HeldInv, KeptInv, BodyInv, Registered
<1>6. OptInv /\ MailInv
  BY <1>2 DEF OptInv, MailInv
<1>7. SyncInv /\ HolderInv
  BY <1>2, SettingsAssumption DEF SyncInv, HolderInv, Behind
<1> QED BY <1>1, <1>4, <1>5, <1>6, <1>7 DEF Inv

(* every step keeps it,                                                      *)
LEMMA InvSteps == Inv /\ [Next]_vars => Inv'
<1> SUFFICES ASSUME Inv, [Next]_vars PROVE Inv'
  OBVIOUS
<1>1. SettingsStep /\ SettingsTypeOK /\ PushTypeOK
  BY SettingsSteps DEF Inv, TypeOK
<1>2. TypeOK'
  BY <1>1, SettingsTypes, TypeSteps DEF TypeOK
<1>3. StepInv' /\ HeldInv' /\ KeptInv' /\ BodyInv'
  BY <1>1, StepSteps, HeldInvSteps, KeptInvSteps, BodySteps DEF Inv
<1>4. OptInv' /\ MailInv'
  BY <1>1, OptSteps, MailSteps DEF Inv
<1>5. SyncInv' /\ HolderInv'
  BY <1>1, SyncSteps, HolderSteps DEF Inv
<1> QED BY <1>2, <1>3, <1>4, <1>5 DEF Inv

(* and it always holds.                                                      *)
LEMMA Always == Spec => []Inv
<1> QED BY InvInit, InvSteps, PTL DEF Spec

(* Every variable keeps its type: no endpoint is named that the browser had not *)
(* handed out.                                                                *)
THEOREM TypeCorrect == Spec => []TypeOK
<1>1. Inv => TypeOK
  BY DEF Inv
<1> QED BY <1>1, Always, PTL

(* No endpoint stays at the gateway that no tab holds, but those one forgot      *)
(* (push-subscription.ts:220, 231, 253).                                       *)
THEOREM NothingStays == Spec => []NothingLeftBehind
<1>1. Inv => NothingLeftBehind
  <2> SUFFICES ASSUME Inv, Rest, NEW e \in Endpoints, Registered(e), e \notin lost
               PROVE  \E t \in Tab : tabs[t].held = e
    BY DEF NothingLeftBehind
  <2>1. PICK t \in Tab : Answers(tabs[t], e)
    BY DEF Inv, KeptInv
  <2>2. tabs[t].at = "idle"
    BY DEF Rest
  <2> QED BY <2>1, <2>2 DEF Answers, Retiring
<1> QED BY <1>1, Always, PTL

(* What brings alerts back after an opt-out is a tab that has not heard of it,    *)
(* writing its whole copy, or a prompt another tab had open                      *)
(* (browser-coordinator.ts:177, 188, 233, 285).                                  *)
THEOREM TheOptOutStands == Spec => OptOutStands
<1> DEFINE Named == \E t \in Tab : Unaware(t) \/ LateGrant(t)
<1>1. ASSUME Inv, [Next]_vars, BroughtBack PROVE Named
  <2>0. SettingsTypeOK /\ SettingsStep /\ OptInv /\ MailInv
    BY <1>1, SettingsSteps DEF Inv, TypeOK
  <2>1. /\ stored' # stored
        /\ offIn # None /\ offIn' # None /\ ~stored.enabled /\ stored'.enabled
    BY <1>1 DEF BroughtBack
  <2>2. ASSUME NEW t \in Tab, OptOut(t) PROVE FALSE
    <3>1. stored' = [prefs[t] EXCEPT !.enabled = FALSE] /\ prefs[t] \in Preferences
      BY <2>0, <2>2 DEF OptOut, PublishOwn, SettingsTypeOK
    <3> QED BY <2>1, <3>1 DEF Preferences
  <2>3. ASSUME NEW t \in Tab, NEW ready \in BOOLEAN, OptIn(t) \/ AcceptAsk(t, ready)
        PROVE  FALSE
    BY <2>1, <2>3 DEF OptIn, AcceptAsk
  <2>4. ASSUME NEW t \in Tab, SetCategory(t) PROVE Named
    <3>1. stored' = [prefs[t] EXCEPT !.category = ~prefs[t].category] /\ prefs[t] \in Preferences
      BY <2>0, <2>4 DEF SetCategory, PublishOwn, SettingsTypeOK
    <3>2. prefs[t].enabled
      BY <2>1, <3>1 DEF Preferences
    <3>3. mail[t]
      BY <2>1, <2>0, <3>2 DEF MailInv
    <3> QED BY <2>4, <3>2, <3>3 DEF Unaware
  <2>5. ASSUME NEW t \in Tab, NEW gesture \in Gesture, NEW answer \in Permission,
               Answer(t, gesture, answer)
        PROVE  Named
    <3>1. prompt[t].own = gesture
      BY <2>1, <2>5 DEF Answer, PublishNothing
    <3>2. /\ stored' = [prefs[t] EXCEPT !.enabled = answer = "granted"]
          /\ prefs[t] \in Preferences /\ perm' = answer
      BY <2>0, <2>5, <3>1 DEF Answer, PublishOwn, SettingsTypeOK
    <3>3. perm' = "granted"
      BY <2>1, <3>2 DEF Preferences
    <3>4. prompt[t].own # "none"
      BY <3>1 DEF Gesture
    <3>5. t # offIn
      BY <2>1, <2>0, <3>4 DEF OptInv
    <3>6. prompt'[t].own = "none"
      BY <2>0, <2>5, <3>1 DEF Answer, Answered, SettingsTypeOK
    <3> QED BY <3>3, <3>4, <3>5, <3>6 DEF LateGrant
  <2>6. ASSUME NEW t \in Tab, Hear(t) \/ Publish(t) \/ Restart(t) \/ Takes(t) PROVE FALSE
    BY <2>1, <2>6 DEF Hear, Receive, Recheck, Publish, Restart, Takes, Others
  <2>7. CASE PermFalls \/ UNCHANGED settings
    BY <2>1, <2>7 DEF PermFalls, Others, settings
  <2> QED BY <2>0, <2>2, <2>3, <2>4, <2>5, <2>6, <2>7 DEF SettingsStep, Turns, Click
<1>2. Inv /\ [Next]_vars => [BroughtBack => Named]_vars
  BY <1>1
<1> QED BY <1>2, Always, PTL DEF Spec, OptOutStands

(* At rest all tabs and the gateway have the stored settings.                 *)
LEMMA AtRest == Inv => SettingsArePushed
<1> SUFFICES ASSUME Inv, Rest PROVE SettingsArePushed
  BY DEF SettingsArePushed
<1>0. /\ \A t \in Tab : ~mail[t] /\ seen[t] = perm /\ ~changed[t] /\ tabs[t].at = "idle"
      /\ PushTypeOK /\ SettingsTypeOK
  BY DEF Rest, Agreed, Inv, TypeOK
<1>1. \A t \in Tab : prefs[t] = stored
  BY <1>0 DEF Inv, MailInv
<1>2. ASSUME NEW t \in Tab, ~stored.enabled PROVE ~Active(t)
  <2>1. tabs[t].held = None
    BY <1>0, <1>1, <1>2 DEF Inv, SyncInv, InSync, Wanted
  <2> QED BY <2>1 DEF Active
<1>3. ASSUME stored.enabled, perm = "granted", faults = 0, ~Refused
      PROVE  /\ sub # None /\ kept[sub] = stored.category
             /\ \A t \in Tab : tabs[t].held # None
             /\ \E t \in Tab : Active(t) /\ tabs[t].own = sub
  <2>1. \A t \in Tab : Wanted(t) /\ ~tabs[t].refused
    BY <1>0, <1>1, <1>3 DEF Wanted, Refused
  <2>2. \A t \in Tab : tabs[t].held # None /\ tabs[t].body = stored.category
    BY <1>0, <1>1, <1>3, <2>1 DEF Inv, SyncInv, InSync
  <2>3. PICK t \in Tab : Holds(t)
    BY <1>0, <1>3, <2>1 DEF Inv, HolderInv, Behind
  <2>4. sub # None /\ tabs[t].own = sub /\ tabs[t].held = sub
    BY <1>0, <2>3 DEF Holds
  <2>5. Registered(sub)
    BY <2>4 DEF Inv, HeldInv
  <2>6. PICK u \in Tab : tabs[u].held = sub /\ tabs[u].body = kept[sub]
    BY <1>3, <2>4, <2>5 DEF Inv, BodyInv
  <2> QED BY <2>2, <2>4, <2>6 DEF Active
<1> QED BY <1>1, <1>2, <1>3 DEF SettingsArePushed

(* A tab that leaves its alerts to push is on a device that is pushed to, whatever *)
(* the other tabs and the browser do and whichever calls fail, but for the tab    *)
(* that has not synced since the browser's endpoint was replaced, dropped or      *)
(* given up; at rest with nothing failed without exception                       *)
(* (push-subscription.ts:173).                                                  *)
THEOREM TheSilentArePushed == Spec => []SilentIsPushed
<1>1. Inv => SilentIsPushed
  <2> SUFFICES ASSUME Inv, NEW t \in Tab, Active(t), ~PushedTo
               PROVE  Outdated(t) /\ (Rest => Troubled)
    BY DEF SilentIsPushed
  <2>1. tabs[t].own # None /\ tabs[t].held = tabs[t].own
    BY DEF Active
  <2>2. tabs[t].own # sub
    BY <2>1 DEF Inv, HeldInv, PushedTo
  <2>3. ASSUME Rest, ~Troubled PROVE FALSE
    <3>1. /\ prefs[t] = stored
          /\ ~stored.enabled => ~Active(t)
          /\ stored.enabled /\ perm = "granted" /\ faults = 0 /\ ~Refused =>
               sub # None /\ kept[sub] = stored.category
      BY <2>3, AtRest DEF SettingsArePushed
    <3>2. ~changed[t] /\ tabs[t].at = "idle" /\ seen[t] = perm
      BY <2>3 DEF Rest, Agreed
    <3>3. Wanted(t)
      BY <2>1, <3>2 DEF Inv, SyncInv, InSync
    <3>4. stored.enabled /\ perm = "granted"
      BY <3>1, <3>2, <3>3 DEF Wanted
    <3>5. /\ faults \in Nat /\ stored.category \in BOOLEAN
      BY PushAssumption DEF Inv, TypeOK, PushTypeOK, SettingsTypeOK, Preferences
    <3>6. faults = 0 /\ ~Refused
      BY <2>3, <3>5 DEF Troubled
    <3>7. sub # None /\ kept[sub] = stored.category
      BY <3>1, <3>4, <3>6
    <3> QED BY <3>5, <3>7, PushAssumption DEF PushedTo, Registered
  <2> QED BY <2>2, <2>3 DEF Outdated
<1> QED BY <1>1, Always, PTL

(* At rest all tabs and the gateway have the stored settings, and with alerts    *)
(* on and nothing failed the browser's endpoint is registered with them and a    *)
(* tab relies on it.                                                          *)
THEOREM TheSettingsArePushed == Spec => []SettingsArePushed
<1> QED BY AtRest, Always, PTL
=============================================================================
