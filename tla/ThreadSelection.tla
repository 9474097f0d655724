--------------------------- MODULE ThreadSelection ---------------------------
(* Which thread the workspace shows: `use-workspace-navigation.ts` over the    *)
(* thread list of the library. Switches of thread are asked for while others   *)
(* are out and land in any order; a local draft belongs to an Agent only       *)
(* through the registry of `aos-drafts.ts`. A step runs until it waits.        *)
EXTENDS Naturals, Sequences, SequencesExt

CONSTANTS
  Sessions,        \* the Agent's
  Interviews,      \* the creator's own
  Agent, Creator,  \* the Agent the roster starts with, and the Agent creator
  None,
  MaxAsks,    \* what the operator asks for (a bound)
  MaxFails    \* switches and drafts that fail (a bound)

ASSUME SelectionAssumption ==
  /\ Sessions \cap Interviews = {} /\ Agent # Creator
  /\ \A t \in Sessions \cup Interviews \cup {None} : t \notin Nat
  /\ None \notin Sessions \cup Interviews \cup {Agent, Creator}
  /\ MaxAsks \in Nat /\ MaxFails \in Nat

Agents == {Agent, Creator}
Ids == 1..MaxAsks + 1          \* operations under way at once
Slots == 1..MaxAsks + 1        \* local threads

VARIABLES
  main,       \* the library's main thread: a Session or a local thread
  slot,       \* its next local thread; the ones before it became Sessions
  making,     \* the Agent a Session is being made for out of `slot`
  madeFor,    \* the Agents of the Sessions made
  registry,   \* AosDraftRegistry
  chain,      \* drafts being made, one after the other
  want,       \* desiredThread
  pending,    \* pendingSelection
  draft,      \* localDraftOperation, -Agent, -Id and -RemoteId
  preferred,  \* the selected Agent
  last,       \* lastSelected
  ops,        \* the calls under way
  asks, fails,
  asked,      \* history: what was asked for last, and the calls then under way
  kicked      \* history: the threads an interview was started in

library == <<main, slot, making, madeFor>>
refs == <<want, pending, draft>>
vars == <<library, registry, chain, refs, preferred, last, ops, asks, fails, asked, kicked>>

NoDraft == [op |-> None, agent |-> None, id |-> None, remote |-> None]
Idle == [kind |-> "idle", at |-> "done", target |-> None, agent |-> None]
Made == 1..slot - 1
Known == Sessions \cup Interviews \cup Made
Owner(t) == IF t \in Made THEN madeFor[t] ELSE IF t \in Interviews THEN Creator ELSE Agent
Of(a) == {t \in Known : Owner(t) = a}
Busy == {i \in Ids : ops[i] # Idle}
Free == CHOOSE i \in Ids : i \notin Busy \/ Busy = Ids

Init ==
  /\ main \in Sessions \cup Interviews /\ slot = 1 /\ making = None
  /\ madeFor = [k \in Slots |-> None] /\ registry = [k \in Slots |-> None]
  /\ chain = <<>> /\ want = main /\ pending = None /\ draft = NoDraft
  /\ preferred = Owner(main) /\ last = [a \in Agents |-> IF a = Owner(main) THEN main ELSE None]
  /\ ops = [i \in Ids |-> Idle] /\ asks = 0 /\ fails = 0
  /\ asked = [thread |-> main, agent |-> Owner(main), beside |-> {}]
  /\ kicked = {}

-----------------------------------------------------------------------------
(* selectRuntimeThread and switchToNewThread, up to their first wait.         *)

Select(i, t) ==
  /\ draft' = NoDraft /\ pending' = i /\ want' = t
  /\ ops' = [ops EXCEPT ![i] = [kind |-> "select", at |-> "switch", target |-> t, agent |-> None]]
  /\ UNCHANGED chain
NewDraft(i, a, kind) ==
  /\ draft' = [NoDraft EXCEPT !.op = i, !.agent = a] /\ want' = None
  /\ ops' = [ops EXCEPT ![i] = [kind |-> kind, at |-> "queued", target |-> None, agent |-> a]]
  /\ chain' = Append(chain, i)
  /\ UNCHANGED pending

(* What the operator asks for: a Session (openSession, a route), a draft of an *)
(* Agent (createSession, selectAgent), or the interview of a new Agent.       *)
Asks(thread, agent) ==
  /\ asks < MaxAsks /\ asks' = asks + 1 /\ Busy # Ids
  /\ asked' = [thread |-> thread, agent |-> agent, beside |-> {<<i, ops[i].kind, ops[i].at>> : i \in Busy}]
  /\ preferred' = agent
  /\ UNCHANGED <<library, registry, fails, kicked>>
OpenSession(t) ==
  Asks(t, Owner(t)) /\ Select(Free, t) /\ last' = [last EXCEPT ![Owner(t)] = t]
CreateSession(a) ==
  Asks(None, a) /\ NewDraft(Free, a, "draft") /\ last' = [last EXCEPT ![a] = None]
OpenAgentBuilder ==
  Asks(None, Creator) /\ NewDraft(Free, Creator, "interview") /\ UNCHANGED last

-----------------------------------------------------------------------------
(* The selection that waited goes on.                                        *)

SupersededByNone(i) == None
SupersededBy(i) == IF want # ops[i].target THEN want ELSE None
Settled(i) == IF pending = i THEN None ELSE pending

Switched(i) ==
  /\ ops[i].kind = "select" /\ main' = ops[i].target
  /\ LET newer == IF ops[i].at = "switch" THEN SupersededBy(i) ELSE None IN
     IF newer # None
     THEN /\ ops' = [ops EXCEPT ![i].at = "again", ![i].target = newer]
          /\ UNCHANGED pending
     ELSE /\ ops' = [ops EXCEPT ![i] = Idle]
          /\ pending' = Settled(i)
  /\ UNCHANGED <<slot, making, madeFor, registry, chain, want, draft, preferred, last,
                 asks, fails, asked, kicked>>
SwitchFails(i) ==
  /\ ops[i].kind = "select" /\ fails < MaxFails /\ fails' = fails + 1
  /\ ops' = [ops EXCEPT ![i] = Idle] /\ pending' = Settled(i)
  /\ UNCHANGED <<library, registry, chain, want, draft, preferred, last, asks, asked, kicked>>

-----------------------------------------------------------------------------
(* createAosSessionDraft: a new local thread, its reset, its record. The       *)
(* library waits for a Session that is being made out of the last one.        *)

FirstInAny(i) == TRUE
FirstIn(i) == Head(chain) = i
IsDraft(i) == ops[i].kind \in {"draft", "interview"} /\ FirstIn(i)

DraftSwitched(i) ==
  /\ IsDraft(i) /\ ops[i].at = "queued" /\ making = None
  /\ main' = slot /\ ops' = [ops EXCEPT ![i].at = "reset", ![i].target = slot]
  /\ UNCHANGED <<slot, making, madeFor, registry, chain, refs, preferred, last,
                 asks, fails, asked, kicked>>

(* publishDraft, and for an interview the check before its kickoff is sent.    *)
StillWanted(i) == draft.op = i /\ draft.agent = ops[i].agent /\ main = ops[i].target
Published(i) == IF StillWanted(i) THEN [draft EXCEPT !.id = ops[i].target] ELSE draft
MayKickoff(d) == d.id # None /\ d.agent = Creator

DraftReady(i) ==
  /\ IsDraft(i) /\ ops[i].at = "reset"
  /\ registry' = [registry EXCEPT ![ops[i].target] = ops[i].agent]
  /\ chain' = Tail(chain)
  /\ draft' = Published(i)
  /\ IF ops[i].kind = "interview" /\ ~MayKickoff(draft')
     THEN ops' = [ops EXCEPT ![i].kind = "bounced"]
     ELSE ops' = [ops EXCEPT ![i] = Idle]
  /\ IF ops[i].kind = "interview" /\ MayKickoff(draft')
     THEN /\ kicked' = kicked \cup {main}
          /\ making' = IF main = slot THEN registry'[main] ELSE making
     ELSE UNCHANGED <<kicked, making>>
  /\ UNCHANGED <<main, slot, madeFor, want, pending, preferred, last, asks, fails, asked>>
AfterFailure(i) == Tail(chain)
DraftFails(i) ==
  /\ IsDraft(i) /\ fails < MaxFails /\ fails' = fails + 1
  /\ chain' = AfterFailure(i) /\ ops' = [ops EXCEPT ![i] = Idle]
  /\ draft' = IF draft.op = i THEN NoDraft ELSE draft
  /\ UNCHANGED <<library, registry, want, pending, preferred, last, asks, asked, kicked>>

(* resolveSessionSelection: the Session last selected, or else any; None where *)
(* the tab strip was left empty.                                             *)
Candidates(a) == IF last[a] \in Of(a) THEN {last[a]} ELSE Of(a) \cup {None}

(* An interview that lost its draft selects the default Agent.               *)
Bounce(i) ==
  /\ ops[i].kind = "bounced" /\ preferred' = Agent
  /\ \E t \in Candidates(Agent) : IF t = None THEN NewDraft(i, Agent, "draft") ELSE Select(i, t)
  /\ UNCHANGED <<library, registry, last, asks, fails, asked, kicked>>

(* The shown draft's first message makes it a Session of its Agent.           *)
ShowsDraft == draft.id # None /\ draft.agent = preferred /\ main = draft.id
Send ==
  /\ ShowsDraft /\ main = slot /\ making = None /\ slot < MaxAsks + 1
  /\ making' = registry[main]
  /\ UNCHANGED <<main, slot, madeFor, registry, chain, refs, preferred, last, ops,
                 asks, fails, asked, kicked>>
Initialize ==
  /\ making # None /\ slot < MaxAsks + 1
  /\ madeFor' = [madeFor EXCEPT ![slot] = making]
  /\ slot' = slot + 1 /\ making' = None
  /\ UNCHANGED <<main, registry, chain, refs, preferred, last, ops, asks, fails, asked, kicked>>

-----------------------------------------------------------------------------
(* The effects: a draft that became a Session, one whose Session is listed,   *)
(* and the repair of a selection that is not the selected Agent's.            *)

PromotionDue ==
  draft.agent # None /\ main \in Made /\ main = draft.id /\ draft.remote # main
Promoted ==
  /\ PromotionDue
  /\ draft' = [draft EXCEPT !.remote = main, !.op = None]
  /\ preferred' = draft.agent /\ last' = [last EXCEPT ![draft.agent] = main]
  /\ UNCHANGED <<library, registry, chain, want, pending, ops, asks, fails, asked, kicked>>
OwnershipDue ==
  /\ draft.id # None /\ main \in Made /\ main = draft.id /\ Owner(main) = preferred
  /\ draft.remote = main
Owned ==
  /\ OwnershipDue
  /\ draft' = NoDraft
  /\ UNCHANGED <<library, registry, chain, want, pending, preferred, last, ops,
                 asks, fails, asked, kicked>>

MayRepairADraft == pending = None
MayRepair == draft.agent = None /\ pending = None
Strayed == ~(main \in Known /\ Owner(main) = preferred)
Repairs(t) == IF t = None THEN main \in Known ELSE TRUE
RepairDue == MayRepair /\ Strayed /\ \E t \in Candidates(preferred) : Repairs(t)
Repair(i) ==
  /\ RepairDue /\ Busy # Ids
  /\ \E t \in Candidates(preferred) :
       /\ Repairs(t)
       /\ IF t = None THEN NewDraft(i, preferred, "draft") ELSE Select(i, t)
  /\ UNCHANGED <<library, registry, preferred, last, asks, fails, asked, kicked>>
ShownIsNew == MayRepair /\ ~Strayed /\ last[preferred] # main
DraftIsNew == draft.agent # None /\ main \notin Known /\ last[draft.agent] # None
Remember ==
  /\ \/ ShownIsNew /\ last' = [last EXCEPT ![preferred] = main]
     \/ DraftIsNew /\ last' = [last EXCEPT ![draft.agent] = None]
  /\ UNCHANGED <<library, registry, chain, refs, preferred, ops, asks, fails, asked, kicked>>

-----------------------------------------------------------------------------
Asking == (\E t \in Known : OpenSession(t)) \/ (\E a \in Agents : CreateSession(a))
            \/ OpenAgentBuilder
Goes(i) == Switched(i) \/ DraftSwitched(i) \/ DraftReady(i) \/ Bounce(i)
Repairing == Repair(Free) \/ Remember \/ Promoted \/ Owned
Next == \/ Asking \/ Send \/ Initialize \/ Repairing
        \/ \E i \in Ids : Goes(i) \/ SwitchFails(i) \/ DraftFails(i)
Spec == Init /\ [][Next]_vars
\* A repair is an effect that runs once for what it reads: after a failure it
\* may run again, on Retry or with some other change, but need not.
FairSpec == /\ Spec /\ WF_vars(Initialize) /\ WF_vars(Remember \/ Promoted \/ Owned)
            /\ WF_vars(fails = 0 /\ Repair(Free))
            /\ \A i \in Ids : WF_vars(Goes(i))

-----------------------------------------------------------------------------
(* Properties.                                                               *)

Thread == Sessions \cup Interviews \cup Slots
(* The types; each draft under way waits its turn once, and the selection that  *)
(* holds repairs back is under way.                                          *)
TypeOK ==
  /\ main \in Thread /\ slot \in Slots /\ want \in Thread \cup {None}
  /\ making \in Agents \cup {None} /\ pending \in Ids \cup {None}
  /\ madeFor \in [Slots -> Agents \cup {None}] /\ registry \in [Slots -> Agents \cup {None}]
  /\ draft \in [op : Ids \cup {None}, agent : Agents \cup {None}, id : Slots \cup {None},
                remote : Slots \cup {None}]
  /\ preferred \in Agents /\ last \in [Agents -> Known \cup {None}]
  /\ \A k \in Made : madeFor[k] # None
  /\ pending # None => ops[pending].kind = "select"
  /\ IsInjective(chain)
  /\ Range(chain) = {i \in Ids : ops[i].kind \in {"draft", "interview"}}

(* Nothing is under way and no effect has anything to do.                      *)
Rest == /\ Busy = {} /\ making = None
        /\ ~(RepairDue \/ ShownIsNew \/ DraftIsNew \/ PromotionDue \/ OwnershipDue)

(* At rest the Session asked for last is the one shown, in whatever order the   *)
(* switches landed, unless when it was asked for two calls were under way, or a *)
(* selection on its second switch, or an interview.                           *)
LatestWins ==
  Rest /\ fails = 0 /\ asked.thread # None =>
    \/ main = asked.thread
    \/ \E call, other \in asked.beside : call # other
    \/ \E call \in asked.beside : call[2] \in {"interview", "bounced"} \/ call[3] = "again"

(* At rest the draft asked for last is shown as its Agent's, or the Session it  *)
(* became, unless a selection or an interview was under way when it was asked.  *)
DraftIsShown ==
  Rest /\ fails = 0 /\ asked.thread = None =>
    \/ ShowsDraft /\ draft.agent = asked.agent
    \/ main \in Made /\ Owner(main) = asked.agent
    \/ \E call \in asked.beside : call[2] # "draft"

(* What is written in the draft on screen goes to the Agent it is shown for,    *)
(* although every draft may be the same local thread; and an interview is     *)
(* only ever started in a draft of the creator's.                             *)
DraftIsItsAgents ==
  /\ ShowsDraft /\ main = slot => registry[main] = draft.agent
  /\ \A t \in kicked : t \in Slots /\ registry[t] = Creator

(* Once the operator asks for nothing more the navigation comes to rest: every  *)
(* call has ended and the shown Session is the selected Agent's, or a draft is  *)
(* kept. If something failed, that may be left to a Retry, and nothing else is. *)
OnlyARepairIsLeft ==
  /\ Busy = {} /\ making = None /\ fails > 0 /\ RepairDue
  /\ ~(ShownIsNew \/ DraftIsNew \/ PromotionDue \/ OwnershipDue)
=============================================================================
