---------------------------- MODULE AlertSettings ----------------------------
(* The OS alert settings of one device (browser-coordinator.ts): each tab has  *)
(* its copy, the browser's storage has the one a new tab starts from, and a    *)
(* tab that changes its own writes it there whole and tells the others, which  *)
(* read the storage once they hear of it. Enabling may wait for the browser's  *)
(* permission prompt. The read and the write of #save are one step.           *)
EXTENDS Naturals

CONSTANTS
  Tab, None,
  MaxClicks     \* what the operator asks for (a bound)

ASSUME SettingsAssumption == None \notin Tab /\ Tab # {} /\ MaxClicks \in Nat

VARIABLES
  stored,     \* the preferences in localStorage
  prefs,      \* #preferences
  mail,       \* a message about them is on its way to the tab
  perm,       \* Notification.permission
  seen,       \* #permission
  prompt,     \* the tab's gestures the browser has not answered, and whose #generation is
  changed,    \* onChange was called and what follows it has not run
  clicks,
  offIn       \* history: the tab the operator switched alerts off in, until asking again

settings == <<stored, prefs, mail, perm, seen, prompt, changed, clicks, offIn>>

\* One category stands for the three and the sound.
Preferences == [enabled : BOOLEAN, category : BOOLEAN]
Permission == {"default", "granted", "denied"}
\* A gesture asks for the permission, or subscribes, which asks for it too.
Gesture == {"permission", "subscribe"}
NoPrompt == [waits |-> {}, own |-> "none"]

InitSettings ==
  /\ stored = [enabled |-> TRUE, category |-> TRUE] /\ prefs = [t \in Tab |-> stored]
  /\ mail = [t \in Tab |-> FALSE]
  /\ perm \in {"default", "granted"} /\ seen = [t \in Tab |-> perm]
  /\ prompt = [t \in Tab |-> NoPrompt] /\ changed = [t \in Tab |-> TRUE]
  /\ clicks = 0 /\ offIn = None

-----------------------------------------------------------------------------
Calls(t) == changed' = [changed EXCEPT ![t] = TRUE]
Sees(t, p) == seen' = [seen EXCEPT ![t] = p]

(* publish and #save for a change of the tab's own.                           *)
PublishOwn(t, p) ==
  /\ prefs' = [prefs EXCEPT ![t] = p] /\ stored' = p
  /\ mail' = [u \in Tab |-> mail[u] \/ u # t]
PublishNothing == UNCHANGED <<prefs, stored, mail>>

Clicks == clicks < MaxClicks /\ clicks' = clicks + 1

GenerationKept(t) == prompt[t]
NextGeneration(t) == [prompt[t] EXCEPT !.own = "none"]
(* A gesture over others that still wait: those are answered too, but no       *)
(* longer the tab's own. Two alike get the one answer.                        *)
Asks(t, gesture) ==
  prompt' = [prompt EXCEPT ![t] = [waits |-> prompt[t].waits \cup {gesture}, own |-> gesture]]

(* setEnabled(false), declineAsk *)
OptOut(t) ==
  /\ Clicks /\ offIn' = t /\ Calls(t) /\ Sees(t, perm)
  /\ prompt' = [prompt EXCEPT ![t] = NextGeneration(t)]
  /\ PublishOwn(t, [prefs[t] EXCEPT !.enabled = FALSE])
  /\ UNCHANGED perm
(* setEnabled(true), up to the browser's answer *)
OptIn(t) ==
  /\ Clicks /\ offIn' = None /\ Calls(t) /\ Sees(t, perm) /\ UNCHANGED perm
  /\ IF perm = "default"
     THEN Asks(t, "permission") /\ PublishNothing
     ELSE /\ prompt' = [prompt EXCEPT ![t] = NextGeneration(t)]
          /\ PublishOwn(t, [prefs[t] EXCEPT !.enabled = perm = "granted"])
(* acceptAsk, where shouldOfferAsk has the tab ask; it subscribes if it can      *)
AcceptAsk(t, ready) ==
  /\ seen[t] = "default" /\ prefs[t].enabled
  /\ Clicks /\ offIn' = None
  /\ Asks(t, IF ready THEN "subscribe" ELSE "permission")
  /\ PublishNothing /\ UNCHANGED <<perm, seen, changed>>
(* setCategory, setSound *)
SetCategory(t) ==
  /\ Clicks /\ Calls(t)
  /\ PublishOwn(t, [prefs[t] EXCEPT !.category = ~prefs[t].category])
  /\ UNCHANGED <<perm, seen, prompt, offIn>>

Answered(t, gesture) ==
  [waits |-> prompt[t].waits \ {gesture},
   own   |-> IF prompt[t].own = gesture THEN "none" ELSE prompt[t].own]
(* The prompt is answered, or put away; a prompt that another tab's answer     *)
(* came before answers the same.                                             *)
Answer(t, gesture, answer) ==
  /\ gesture \in prompt[t].waits /\ (perm # "default" => answer = perm)
  /\ perm' = answer /\ prompt' = [prompt EXCEPT ![t] = Answered(t, gesture)]
  /\ IF prompt[t].own = gesture
     THEN /\ Sees(t, answer) /\ Calls(t)
          /\ PublishOwn(t, [prefs[t] EXCEPT !.enabled = answer = "granted"])
     ELSE UNCHANGED <<seen, changed>> /\ PublishNothing
  /\ UNCHANGED <<clicks, offIn>>

-----------------------------------------------------------------------------
(* #receive *)
Receive(t) ==
  /\ mail[t] /\ mail' = [mail EXCEPT ![t] = FALSE]
  /\ prefs' = [prefs EXCEPT ![t] = stored] /\ Calls(t)
  /\ UNCHANGED <<stored, perm, seen, prompt, clicks, offIn>>
(* recheckPermission, on focus or as the browser reports a change *)
Recheck(t) ==
  /\ seen[t] # perm /\ Sees(t, perm) /\ Calls(t)
  /\ UNCHANGED <<stored, prefs, mail, perm, prompt, clicks, offIn>>
(* publish without a change of the tab's own: an arrival, a refresh *)
Publish(t) ==
  /\ prefs' = [prefs EXCEPT ![t] = stored] /\ Calls(t)
  /\ UNCHANGED <<stored, mail, perm, seen, prompt, clicks, offIn>>
(* stop, and start in the tab that was loaded again *)
Restart(t) ==
  /\ prefs' = [prefs EXCEPT ![t] = stored] /\ mail' = [mail EXCEPT ![t] = FALSE]
  /\ Sees(t, perm) /\ prompt' = [prompt EXCEPT ![t] = NoPrompt] /\ Calls(t)
  /\ UNCHANGED <<stored, perm, clicks, offIn>>

Click(t, ready) == OptOut(t) \/ OptIn(t) \/ AcceptAsk(t, ready) \/ SetCategory(t)
Hear(t) == Receive(t) \/ Recheck(t)

Prompt == [waits : SUBSET Gesture, own : Gesture \cup {"none"}]
SettingsTypeOK ==
  /\ stored \in Preferences /\ prefs \in [Tab -> Preferences]
  /\ mail \in [Tab -> BOOLEAN] /\ changed \in [Tab -> BOOLEAN]
  /\ perm \in Permission /\ seen \in [Tab -> Permission]
  /\ prompt \in [Tab -> Prompt] /\ clicks \in 0..MaxClicks /\ offIn \in Tab \cup {None}
Agreed == \A t \in Tab : ~mail[t] /\ prompt[t].waits = {} /\ seen[t] = perm
=============================================================================
