------------------------ MODULE ThreadSelectionProofs ------------------------
(* What ThreadSelection promises of the shown thread, for every set of threads *)
(* and every number of requests.                                              *)
EXTENDS ThreadSelection, TLAPS

-----------------------------------------------------------------------------
(* The types, and what every call under way looks like.                       *)

Drafting(i) == ops[i].kind \in {"draft", "interview"}
Selecting(i) == ops[i].kind = "select"

SelectCall(o) ==
  /\ o.kind = "select" /\ o.at \in {"switch", "again"} /\ o.target \in Known /\ o.agent = None
DraftCall(o) ==
  /\ o.kind \in {"draft", "interview"} /\ o.agent \in Agents
  /\ \/ o.at = "queued" /\ o.target = None
     \/ o.at = "reset" /\ o.target \in Slots
  /\ o.kind = "interview" => o.agent = Creator
BouncedCall(o) == o.kind = "bounced" /\ o.at = "reset"
Call == [kind : {"idle", "select", "draft", "interview", "bounced"},
         at : {"done", "switch", "again", "queued", "reset"},
         target : Thread \cup {None}, agent : Agents \cup {None}]

ValuesOK ==
  /\ slot \in Slots /\ making \in Agents \cup {None}
  /\ main \in Known \cup {slot} /\ want \in Known \cup {None}
  /\ pending \in Ids \cup {None}
  /\ madeFor \in [Slots -> Agents \cup {None}] /\ registry \in [Slots -> Agents \cup {None}]
  /\ draft \in [op : Ids \cup {None}, agent : Agents \cup {None}, id : Slots \cup {None},
                remote : Slots \cup {None}]
  /\ preferred \in Agents /\ last \in [Agents -> Known \cup {None}]
  /\ \A k \in Made : madeFor[k] \in Agents
  /\ fails \in Nat /\ asks \in Nat
CallsOK ==
  /\ ops \in [Ids -> Call]
  /\ \A i \in Ids : \/ ops[i] = Idle
                    \/ SelectCall(ops[i]) \/ DraftCall(ops[i]) \/ BouncedCall(ops[i])
  /\ pending # None => Selecting(pending)
ChainOK ==
  /\ chain \in Seq(Ids)
  /\ \A m, n \in 1..Len(chain) : chain[m] = chain[n] => m = n
  /\ \A i \in Ids : Drafting(i) <=> \E n \in 1..Len(chain) : chain[n] = i

(* The drafts: only the one made first has a thread, the next local one, which *)
(* no Session is made of meanwhile; the one that is wanted is the last of them, *)
(* and has no thread to show before every other is made.                      *)
DraftsInv ==
  /\ draft.op # None /\ Drafting(draft.op) => draft.op = chain[Len(chain)]
  /\ chain # <<>> => draft.id = None
  /\ \A i \in Ids : Drafting(i) /\ ops[i].at = "reset"
                      => chain[1] = i /\ making = None /\ ops[i].target = slot
  /\ draft.id # None => registry[draft.id] = draft.agent /\ draft.agent # None
  /\ \A t \in kicked : t \in Slots /\ registry[t] = Creator
                         /\ (t < slot \/ (t = slot /\ making # None))

IInv == ValuesOK /\ CallsOK /\ ChainOK /\ DraftsInv

-----------------------------------------------------------------------------
(* What is left to land that could show another thread than t.                 *)
Stray(i, t) == \/ Selecting(i) /\ ops[i].target # t
               \/ Drafting(i) /\ ops[i].at = "queued"
Fits == main \in Known /\ Owner(main) = preferred

(* The Session asked for last is wanted, one call at most may still show       *)
(* another, and what it leaves behind is found to be repaired.                 *)
FewBeside ==
  /\ \A call, other \in asked.beside : call = other
  /\ \A call \in asked.beside : call[2] \notin {"interview", "bounced"} /\ call[3] # "again"
Wanted(t) ==
  /\ t \in Known /\ draft = NoDraft /\ want = t /\ preferred = Owner(t)
  /\ \A i \in Ids : ops[i].kind \in {"idle", "select", "draft"}
                      /\ (Selecting(i) /\ ops[i].at = "again" => ops[i].target = t)
  /\ \A i, j \in Ids : Stray(i, t) /\ Stray(j, t) => i = j
Kept(t) == last[preferred] = t \/ (Fits /\ \A i \in Ids : ~Stray(i, t))
Lands(t) ==
  \/ pending # None
  \/ main = t
  \/ /\ \A i \in Ids : ~Stray(i, t)
     /\ (\E i \in Ids : Selecting(i)) \/ (main = slot /\ making = None)
WinsInv == fails = 0 /\ asked.thread # None /\ FewBeside =>
  Wanted(asked.thread) /\ Kept(asked.thread) /\ Lands(asked.thread)

(* The draft asked for last is still to be made, or shown, or a Session.       *)
OnlyDrafts == \A call \in asked.beside : call[2] = "draft"
ToBeMade(a) ==
  /\ draft.op # None /\ Drafting(draft.op) /\ draft.agent = a /\ ops[draft.op].agent = a
  /\ draft.id = None /\ draft.remote = None
  /\ \A i \in Ids : ops[i].kind = "interview" => i = draft.op
  /\ ops[draft.op].at = "reset" => main = slot /\ making = None
MadeFor(a) ==
  /\ draft.id = main /\ draft.agent = a /\ main \in Slots /\ registry[main] = a
  /\ \/ main = slot /\ making \in {None, a}
     \/ main \in Made /\ madeFor[main] = a
Became(a) == draft = NoDraft /\ main \in Made /\ madeFor[main] = a
ShownInv == fails = 0 /\ asked.thread = None /\ OnlyDrafts =>
  /\ pending = None /\ preferred = asked.agent
  /\ \A i \in Ids : ops[i] = Idle \/ Drafting(i)
  /\ \/ ToBeMade(asked.agent)
     \/ chain = <<>> /\ (MadeFor(asked.agent) \/ Became(asked.agent))

-----------------------------------------------------------------------------
(* What the threads and the calls are.                                        *)

(* A Session of the Agent, an interview or None is never a local thread.       *)
LEMMA Threads ==
  /\ None \notin Slots /\ None \notin Ids /\ None \notin Agents
  /\ None \notin Sessions \cup Interviews
  /\ \A t \in Sessions \cup Interviews : t \notin Slots
  /\ Sessions \cap Interviews = {} /\ Agent # Creator
  /\ MaxAsks \in Nat
<1>1. Slots \subseteq Nat /\ Ids \subseteq Nat
  BY SelectionAssumption DEF Slots, Ids
<1> QED BY <1>1, SelectionAssumption DEF Agents

(* A thread that is known is no local one under way, and belongs to an Agent.   *)
LEMMA KnownThreads ==
  ASSUME ValuesOK
  PROVE  /\ slot \notin Known /\ None \notin Known /\ Made \subseteq Slots
         /\ \A t \in Known : Owner(t) \in Agents
         /\ Known \subseteq Thread /\ slot \in Thread
<1>1. Made \subseteq Slots /\ slot \notin Made
  BY SelectionAssumption DEF ValuesOK, Made, Slots
<1>2. slot \in Slots
  BY DEF ValuesOK
<1>3. slot \notin Known /\ None \notin Known
  BY <1>1, <1>2, Threads DEF Known
<1>4. ASSUME NEW t \in Known PROVE Owner(t) \in Agents
  <2>1. CASE t \in Made
    BY <2>1 DEF Owner, ValuesOK
  <2>2. CASE t \notin Made
    BY <2>2 DEF Owner, Agents
  <2> QED BY <2>1, <2>2
<1> QED BY <1>1, <1>2, <1>3, <1>4 DEF Thread, Known

(* A call that starts takes the place of none.                                 *)
LEMMA FreeIsIdle ==
  ASSUME Busy # Ids
  PROVE  Free \in Ids /\ ops[Free] = Idle
<1>1. \E i \in Ids : i \notin Busy
  BY DEF Busy
<1>2. Free \in Ids /\ (Free \notin Busy \/ Busy = Ids)
  BY <1>1 DEF Free
<1> QED BY <1>2 DEF Busy

(* One call changes.                                                          *)
LEMMA OneCall ==
  ASSUME ops \in [Ids -> Call], NEW i \in Ids, NEW o \in Call, ops' = [ops EXCEPT ![i] = o]
  PROVE  /\ ops' \in [Ids -> Call] /\ ops'[i] = o
         /\ \A j \in Ids : j # i => ops'[j] = ops[j]
OBVIOUS

(* A draft is appended to the ones under way, or the first is taken off.        *)
LEMMA ChainGrows ==
  ASSUME ChainOK, NEW i \in Ids, ~Drafting(i), chain' = Append(chain, i), Drafting(i)',
         \A j \in Ids : j # i => ops'[j] = ops[j]
  PROVE  ChainOK' /\ chain'[Len(chain')] = i /\ chain' # <<>>
<1>1. /\ chain \in Seq(Ids) /\ chain' \in Seq(Ids) /\ Len(chain') = Len(chain) + 1
      /\ chain'[Len(chain) + 1] = i /\ \A n \in 1..Len(chain) : chain'[n] = chain[n]
  BY DEF ChainOK
<1>2. \A n \in 1..Len(chain) : chain[n] # i
  BY DEF ChainOK
<1>3. \A m, n \in 1..Len(chain') : chain'[m] = chain'[n] => m = n
  BY <1>1, <1>2 DEF ChainOK
<1>4. ASSUME NEW j \in Ids PROVE Drafting(j)' <=> \E n \in 1..Len(chain') : chain'[n] = j
  <2>1. CASE j = i
    <3>1. Len(chain') \in 1..Len(chain')
      BY <1>1
    <3> QED BY <2>1, <3>1, <1>1
  <2>2. CASE j # i
    <3>1. Drafting(j)' <=> \E n \in 1..Len(chain) : chain[n] = j
      BY <2>2 DEF ChainOK, Drafting
    <3> QED BY <3>1, <2>2, <1>1
  <2> QED BY <2>1, <2>2
<1>5. chain' # <<>>
  BY <1>1
<1> QED BY <1>1, <1>3, <1>4, <1>5 DEF ChainOK

(* The chain of drafts stays one when its first is done.                     *)
LEMMA ChainShrinks ==
  ASSUME ChainOK, NEW i \in Ids, Drafting(i), Head(chain) = i, chain' = Tail(chain),
         ~Drafting(i)', \A j \in Ids : j # i => ops'[j] = ops[j]
  PROVE  /\ ChainOK' /\ chain[1] = i /\ chain # <<>>
         /\ chain' # <<>> => chain'[Len(chain')] = chain[Len(chain)] /\ chain[Len(chain)] # i
         /\ i = chain[Len(chain)] => chain' = <<>>
<1>0. Len(chain) \in Nat \ {0} /\ chain \in Seq(Ids) /\ chain # <<>>
  BY DEF ChainOK
<1>1. /\ chain[1] = i /\ chain' \in Seq(Ids) /\ Len(chain') = Len(chain) - 1
      /\ \A n \in 1..Len(chain') : chain'[n] = chain[n + 1]
  BY <1>0
<1>2. \A m, n \in 1..Len(chain') : chain'[m] = chain'[n] => m = n
  BY <1>0, <1>1 DEF ChainOK
<1>3. \A n \in 1..Len(chain) : chain[n] = i => n = 1
  BY <1>0, <1>1 DEF ChainOK
<1>4. ASSUME NEW j \in Ids PROVE Drafting(j)' <=> \E n \in 1..Len(chain') : chain'[n] = j
  <2>1. CASE j = i
    BY <2>1, <1>0, <1>1, <1>3
  <2>2. CASE j # i
    <3>1. Drafting(j)' <=> \E n \in 1..Len(chain) : chain[n] = j
      BY <2>2 DEF ChainOK, Drafting
    <3>2. ASSUME NEW n \in 1..Len(chain), chain[n] = j
          PROVE  \E m \in 1..Len(chain') : chain'[m] = j
      <4>1. n - 1 \in 1..Len(chain')
        BY <3>2, <2>2, <1>0, <1>1
      <4>2. chain'[n - 1] = chain[(n - 1) + 1]
        BY <4>1, <1>1
      <4>3. (n - 1) + 1 = n
        BY <1>0
      <4> QED BY <4>1, <4>2, <4>3, <3>2
    <3>3. ASSUME NEW m \in 1..Len(chain'), chain'[m] = j
          PROVE  \E n \in 1..Len(chain) : chain[n] = j
      <4>1. m + 1 \in 1..Len(chain)
        BY <1>0, <1>1
      <4> QED BY <4>1, <3>3, <1>1
    <3> QED BY <3>1, <3>2, <3>3
  <2> QED BY <2>1, <2>2
<1>5. chain' # <<>> => chain'[Len(chain')] = chain[Len(chain)] /\ chain[Len(chain)] # i
  <2>1. ASSUME chain' # <<>>
        PROVE  Len(chain') \in 1..Len(chain') /\ Len(chain) \in 1..Len(chain) /\ Len(chain) # 1
    BY <2>1, <1>0, <1>1
  <2> QED BY <2>1, <1>0, <1>1, <1>3
<1>6. i = chain[Len(chain)] => chain' = <<>>
  BY <1>0, <1>1, <1>3
<1> QED BY <1>0, <1>1, <1>2, <1>4, <1>5, <1>6 DEF ChainOK

(* The chain of drafts stays one over steps that leave its drafts alone.     *)
LEMMA ChainStays ==
  ASSUME ChainOK, chain' = chain, \A j \in Ids : Drafting(j)' <=> Drafting(j)
  PROVE  ChainOK'
BY DEF ChainOK

-----------------------------------------------------------------------------
(* selectRuntimeThread and switchToNewThread, whoever calls them.              *)

LEMMA SelectKeeps ==
  ASSUME IInv, NEW i \in Ids, ops[i] = Idle \/ BouncedCall(ops[i]), NEW t \in Known, Select(i, t),
         UNCHANGED <<library, registry, fails, kicked>>,
         preferred' \in Agents, last' \in [Agents -> Known \cup {None}], asks' \in Nat
  PROVE  IInv'
<1> DEFINE o == [kind |-> "select", at |-> "switch", target |-> t, agent |-> None]
<1>1. o \in Call /\ ops' = [ops EXCEPT ![i] = o]
  BY KnownThreads DEF Call, Select, IInv
<1>2. /\ ops' \in [Ids -> Call] /\ ops'[i] = o
      /\ \A j \in Ids : j # i => ops'[j] = ops[j]
  BY <1>1, OneCall DEF IInv, CallsOK
<1>3. Known' = Known /\ Made' = Made
  BY DEF Known, Made, library
<1>4. ValuesOK'
  BY <1>3, Threads DEF IInv, ValuesOK, Select, NoDraft, library
<1>5. CallsOK'
  BY <1>2, <1>3 DEF IInv, CallsOK, SelectCall, DraftCall, BouncedCall, Select, Selecting
<1>6. \A j \in Ids : Drafting(j)' <=> Drafting(j)
  BY <1>2 DEF Drafting, Idle, BouncedCall
<1>7. ChainOK'
  BY <1>6, ChainStays DEF IInv, Select
<1>8. DraftsInv'
  BY <1>2, <1>6, Threads DEF IInv, DraftsInv, Drafting, Select, NoDraft, library
<1> QED BY <1>4, <1>5, <1>7, <1>8 DEF IInv

(* Making a draft keeps the inductive invariant.                             *)
LEMMA NewDraftKeeps ==
  ASSUME IInv, NEW i \in Ids, ops[i] = Idle \/ BouncedCall(ops[i]), NEW a \in Agents,
         NEW kind \in {"draft", "interview"}, kind = "interview" => a = Creator,
         NewDraft(i, a, kind),
         UNCHANGED <<library, registry, fails, kicked>>,
         preferred' \in Agents, last' \in [Agents -> Known \cup {None}], asks' \in Nat
  PROVE  IInv' /\ Drafting(i)'
<1> DEFINE o == [kind |-> kind, at |-> "queued", target |-> None, agent |-> a]
<1>1. o \in Call /\ ops' = [ops EXCEPT ![i] = o]
  BY DEF Call, NewDraft
<1>2. /\ ops' \in [Ids -> Call] /\ ops'[i] = o
      /\ \A j \in Ids : j # i => ops'[j] = ops[j]
  BY <1>1, OneCall DEF IInv, CallsOK
<1>3. Known' = Known /\ Made' = Made
  BY DEF Known, Made, library
<1>4. ValuesOK'
  BY <1>3, Threads DEF IInv, ValuesOK, NewDraft, NoDraft, library
<1>5. CallsOK'
  <2>1. pending' # None => pending' # i
    BY DEF IInv, CallsOK, Selecting, NewDraft, Idle, BouncedCall
  <2>2. pending' # None => Selecting(pending)'
    BY <2>1, <1>2 DEF IInv, CallsOK, ValuesOK, Selecting, NewDraft
  <2> QED BY <1>2, <1>3, <2>2 DEF IInv, CallsOK, SelectCall, DraftCall, BouncedCall
<1>6. ~Drafting(i) /\ Drafting(i)'
  BY <1>2 DEF Drafting, Idle, BouncedCall
<1>7. ChainOK' /\ chain'[Len(chain')] = i
  BY <1>2, <1>6, ChainGrows DEF IInv, NewDraft
<1>8. DraftsInv'
  <2>1. draft'.op = i /\ draft'.id = None
    BY DEF NewDraft, NoDraft
  <2>2. ASSUME NEW j \in Ids, Drafting(j)', ops'[j].at = "reset"
        PROVE  chain'[1] = j /\ making' = None /\ ops'[j].target = slot'
    <3>1. j # i /\ Drafting(j) /\ ops[j].at = "reset" /\ ops'[j] = ops[j]
      BY <2>2, <1>2 DEF Drafting
    <3>2. chain[1] = j /\ making = None /\ ops[j].target = slot
      BY <3>1 DEF IInv, DraftsInv
    <3>3. chain \in Seq(Ids) /\ Len(chain) >= 1
      BY <3>1 DEF IInv, ChainOK
    <3>4. chain'[1] = chain[1]
      BY <3>3 DEF NewDraft
    <3> QED BY <3>1, <3>2, <3>4 DEF library
  <2> QED BY <2>1, <2>2, <1>7 DEF IInv, DraftsInv, library
<1> QED BY <1>4, <1>5, <1>6, <1>7, <1>8 DEF IInv

-----------------------------------------------------------------------------
(* Every other step.                                                          *)

(* A selection that lands, or that fails: it is over, or it goes on to what is  *)
(* wanted by then.                                                           *)
LEMMA SwitchedKeeps ==
  ASSUME IInv, NEW i \in Ids, Switched(i) \/ SwitchFails(i)
  PROVE  IInv'
<1> DEFINE o == [kind |-> "select", at |-> "again", target |-> want, agent |-> None]
<1>1. Selecting(i) /\ SelectCall(ops[i]) /\ ops[i] # Idle /\ ops[i].target \in Known
  BY DEF Switched, SwitchFails, Selecting, IInv, CallsOK, DraftCall, BouncedCall, Idle, SelectCall
<1>2. \/ /\ ops'[i] = Idle /\ pending' = Settled(i)
      \/ /\ ops'[i] = o /\ want \in Known /\ pending' = pending
  <2>0. ops \in [Ids -> Call] /\ want \in Known \cup {None}
    BY DEF IInv, CallsOK, ValuesOK
  <2>1. CASE ops' = [ops EXCEPT ![i] = Idle] /\ pending' = Settled(i)
    BY <2>1, <2>0
  <2>2. CASE /\ Switched(i) /\ ops[i].at = "switch" /\ SupersededBy(i) # None
             /\ ops' = [ops EXCEPT ![i].at = "again", ![i].target = SupersededBy(i)] /\ pending' = pending
    <3>1. SupersededBy(i) = want /\ want \in Known
      BY <2>2, <2>0 DEF SupersededBy
    <3>2. ops[i] \in Call /\ ops[i].kind = "select" /\ ops[i].agent = None
      BY <1>1, <2>0 DEF SelectCall
    <3>3. ops'[i] = [ops[i] EXCEPT !.at = "again", !.target = want]
      BY <2>2, <3>1, <2>0
    <3>4. /\ ops'[i].kind = "select" /\ ops'[i].at = "again" /\ ops'[i].target = want
          /\ ops'[i].agent = None /\ ops'[i] \in Call
      BY <3>1, <3>2, <3>3, KnownThreads DEF Call, IInv
    <3>5. ops'[i] = o
      BY <3>4 DEF Call
    <3> QED BY <2>2, <3>1, <3>5
  <2> QED BY <2>1, <2>2 DEF Switched, SwitchFails
<1>3. ops' \in [Ids -> Call] /\ \A j \in Ids : j # i => ops'[j] = ops[j]
  <2>1. ops' = [ops EXCEPT ![i] = ops'[i]]
    BY DEF Switched, SwitchFails, IInv, CallsOK
  <2>2. Idle \in Call /\ (want \in Known => o \in Call)
    BY KnownThreads DEF Call, Idle, IInv
  <2>3. ops'[i] \in Call
    BY <1>2, <2>2
  <2> QED BY <2>1, <2>3 DEF IInv, CallsOK
<1>4. /\ Known' = Known /\ Made' = Made /\ main' \in Known \cup {slot}
      /\ UNCHANGED <<slot, making, madeFor, registry, chain, want, draft, preferred, last, asks, kicked>>
      /\ fails' \in Nat
  BY <1>1 DEF Known, Made, Switched, SwitchFails, library, IInv, ValuesOK
<1>5. ValuesOK'
  BY <1>2, <1>4 DEF IInv, ValuesOK, Settled
<1>6. CallsOK'
  <2>1. pending' # None => Selecting(pending)'
    BY <1>2, <1>3, <1>4, Threads DEF IInv, CallsOK, ValuesOK, Selecting, Settled
  <2>2. ASSUME NEW j \in Ids
        PROVE  (\/ ops[j] = Idle \/ SelectCall(ops[j]) \/ DraftCall(ops[j]) \/ BouncedCall(ops[j]))'
    <3>1. CASE j = i
      BY <3>1, <1>2, <1>4 DEF SelectCall
    <3>2. CASE j # i
      BY <3>2, <1>3, <1>4 DEF SelectCall, DraftCall, BouncedCall, IInv, CallsOK
    <3> QED BY <3>1, <3>2
  <2> QED BY <2>1, <2>2, <1>3 DEF CallsOK
<1>7. \A j \in Ids : Drafting(j)' <=> Drafting(j)
  BY <1>1, <1>2, <1>3 DEF Drafting, Selecting, Idle
<1>8. ChainOK'
  BY <1>4, <1>7, ChainStays DEF IInv
<1>9. DraftsInv'
  <2>1. ASSUME NEW j \in Ids, Drafting(j)' PROVE Drafting(j) /\ ops'[j] = ops[j]
    BY <2>1, <1>1, <1>3, <1>7 DEF Drafting, Selecting
  <2>2. draft.op # None => draft.op \in Ids
    BY DEF IInv, ValuesOK
  <2> QED BY <2>1, <2>2, <1>4 DEF IInv, DraftsInv
<1> QED BY <1>5, <1>6, <1>8, <1>9 DEF IInv

(* The first draft under way.                                                 *)
LEMMA FirstDraft ==
  ASSUME IInv, NEW i \in Ids, IsDraft(i)
  PROVE  /\ Drafting(i) /\ DraftCall(ops[i]) /\ ops[i] # Idle /\ chain # <<>>
         /\ Head(chain) = i /\ chain[1] = i /\ draft.id = None /\ ops[i] \in Call
<1>1. Drafting(i) /\ Head(chain) = i
  BY DEF IsDraft, Drafting, FirstIn
<1>2. DraftCall(ops[i]) /\ ops[i] # Idle /\ ops[i] \in Call
  BY <1>1 DEF IInv, CallsOK, Drafting, Idle, SelectCall, BouncedCall
<1>3. chain # <<>> /\ chain[1] = i
  BY <1>1 DEF IInv, ChainOK
<1> QED BY <1>1, <1>2, <1>3 DEF IInv, DraftsInv

(* A draft's switch that lands keeps the inductive invariant.                *)
LEMMA DraftSwitchedKeeps ==
  ASSUME IInv, NEW i \in Ids, DraftSwitched(i)
  PROVE  IInv' /\ Drafting(i)' /\ ops'[i] = [ops[i] EXCEPT !.at = "reset", !.target = slot]
               /\ \A j \in Ids : j # i => ops'[j] = ops[j]
<1> DEFINE o == [ops[i] EXCEPT !.at = "reset", !.target = slot]
<1>1. /\ Drafting(i) /\ DraftCall(ops[i]) /\ chain[1] = i /\ ops[i].at = "queued" /\ making = None
      /\ ops[i] \in Call /\ slot \in Slots /\ slot \in Thread
  BY FirstDraft, KnownThreads DEF DraftSwitched, IInv, ValuesOK
<1>2. o \in Call /\ o.kind = ops[i].kind /\ o.agent = ops[i].agent /\ o.at = "reset" /\ o.target = slot
  BY <1>1 DEF Call
<1>3. ops' = [ops EXCEPT ![i] = o]
  BY DEF DraftSwitched
<1>4. /\ ops' \in [Ids -> Call] /\ ops'[i] = o
      /\ \A j \in Ids : j # i => ops'[j] = ops[j]
  BY <1>2, <1>3, OneCall DEF IInv, CallsOK
<1>5. /\ Known' = Known /\ Made' = Made /\ main' = slot
      /\ UNCHANGED <<slot, making, madeFor, registry, chain, refs, preferred, last, fails, asks, kicked>>
  BY DEF Known, Made, DraftSwitched
<1>6. ValuesOK'
  BY <1>5 DEF IInv, ValuesOK, refs
<1>7. \A j \in Ids : (Drafting(j)' <=> Drafting(j)) /\ (Selecting(j)' <=> Selecting(j))
  BY <1>2, <1>4 DEF Drafting, Selecting
<1>8. CallsOK'
  <2>1. DraftCall(ops'[i])
    BY <1>1, <1>2, <1>4 DEF DraftCall
  <2>2. ASSUME NEW j \in Ids
        PROVE  (\/ ops[j] = Idle \/ SelectCall(ops[j]) \/ DraftCall(ops[j]) \/ BouncedCall(ops[j]))'
    <3>1. CASE j = i
      BY <2>1, <3>1, <1>5 DEF DraftCall
    <3>2. CASE j # i
      BY <3>2, <1>4, <1>5 DEF SelectCall, DraftCall, BouncedCall, IInv, CallsOK
    <3> QED BY <3>1, <3>2
  <2>3. pending' # None => Selecting(pending)'
    BY <1>5, <1>7 DEF refs, IInv, CallsOK, ValuesOK
  <2> QED BY <2>2, <2>3, <1>4 DEF CallsOK
<1>9. ChainOK'
  BY <1>5, <1>7, ChainStays DEF IInv
<1>10. DraftsInv'
  <2>1. ASSUME NEW j \in Ids, Drafting(j)', ops'[j].at = "reset"
        PROVE  chain'[1] = j /\ making' = None /\ ops'[j].target = slot'
    <3>1. CASE j = i
      BY <3>1, <1>1, <1>2, <1>4, <1>5
    <3>2. CASE j # i
      BY <3>2, <2>1, <1>4, <1>5, <1>7 DEF IInv, DraftsInv
    <3> QED BY <3>1, <3>2
  <2>2. draft'.op # None /\ Drafting(draft.op)' => draft'.op = chain'[Len(chain')]
    BY <1>5, <1>7 DEF refs, IInv, DraftsInv, ValuesOK
  <2> QED BY <2>1, <2>2, <1>5 DEF IInv, DraftsInv, refs
<1> QED BY <1>4, <1>6, <1>7, <1>8, <1>9, <1>10, <1>1 DEF IInv

(* A draft that is made: its record and, when it is still wanted, its thread;   *)
(* an interview is started in it, and its Session is then being made.           *)
LEMMA ReadyIs ==
  ASSUME IInv, NEW i \in Ids, DraftReady(i)
  PROVE  /\ Drafting(i) /\ DraftCall(ops[i]) /\ Head(chain) = i /\ chain[1] = i /\ chain # <<>>
         /\ making = None /\ ops[i].target = slot /\ draft.id = None
         /\ registry' = [registry EXCEPT ![slot] = ops[i].agent]
         /\ \/ draft' = draft
            \/ /\ draft.op = i /\ draft.agent = ops[i].agent /\ main = slot
               /\ draft' = [draft EXCEPT !.id = slot]
         /\ \/ ops'[i] = Idle
            \/ ops'[i].kind = "bounced" /\ ops'[i].at = "reset" /\ ops[i].kind = "interview"
         /\ ops' \in [Ids -> Call] /\ \A j \in Ids : j # i => ops'[j] = ops[j]
         /\ \/ kicked' = kicked /\ making' = making
            \/ /\ kicked' = kicked \cup {slot} /\ making' = Creator /\ main = slot
               /\ ops[i].agent = Creator /\ draft'.id = slot
<1>1. /\ Drafting(i) /\ DraftCall(ops[i]) /\ Head(chain) = i /\ chain[1] = i /\ chain # <<>>
      /\ draft.id = None /\ ops[i] \in Call /\ ops[i].at = "reset"
  BY FirstDraft DEF DraftReady
<1>2. making = None /\ ops[i].target = slot
  BY <1>1 DEF IInv, DraftsInv
<1>3. registry' = [registry EXCEPT ![slot] = ops[i].agent]
  BY <1>2 DEF DraftReady
<1>4. \/ draft' = draft
      \/ /\ draft.op = i /\ draft.agent = ops[i].agent /\ main = slot
         /\ draft' = [draft EXCEPT !.id = slot]
  BY <1>2 DEF DraftReady, Published, StillWanted
<1>5. /\ \/ ops'[i] = Idle
         \/ ops'[i].kind = "bounced" /\ ops'[i].at = "reset" /\ ops[i].kind = "interview"
      /\ ops' \in [Ids -> Call] /\ \A j \in Ids : j # i => ops'[j] = ops[j]
  <2>1. CASE ops' = [ops EXCEPT ![i] = Idle]
    <3>1. Idle \in Call
      BY DEF Call, Idle
    <3> QED BY <2>1, <3>1, OneCall DEF IInv, CallsOK
  <2>2. CASE ops' = [ops EXCEPT ![i].kind = "bounced"] /\ ops[i].kind = "interview"
    <3> DEFINE o == [ops[i] EXCEPT !.kind = "bounced"]
    <3>1. o \in Call /\ o.kind = "bounced" /\ o.at = "reset"
      BY <1>1 DEF Call
    <3>2. ops' = [ops EXCEPT ![i] = o]
      BY <2>2
    <3> QED BY <2>2, <3>1, <3>2, OneCall DEF IInv, CallsOK
  <2> QED BY <2>1, <2>2 DEF DraftReady
<1>6. \/ kicked' = kicked /\ making' = making
      \/ /\ kicked' = kicked \cup {slot} /\ making' = Creator /\ main = slot
         /\ ops[i].agent = Creator /\ draft'.id = slot
  <2>1. CASE ops[i].kind = "interview" /\ MayKickoff(draft')
    <3>1. draft'.id # None
      BY <2>1 DEF MayKickoff
    <3>2. main = slot /\ draft' = [draft EXCEPT !.id = slot] /\ draft.op = i
      BY <1>1, <1>4, <3>1
    <3>3. draft'.id = slot /\ ops[i].agent = Creator
      BY <3>2, <2>1, <1>1 DEF DraftCall, IInv, ValuesOK
    <3>4. registry'[slot] = Creator
      BY <1>3, <3>3 DEF IInv, ValuesOK
    <3> QED BY <2>1, <3>2, <3>3, <3>4 DEF DraftReady
  <2>2. CASE ~(ops[i].kind = "interview" /\ MayKickoff(draft'))
    BY <2>2 DEF DraftReady
  <2> QED BY <2>1, <2>2
<1> QED BY <1>1, <1>2, <1>3, <1>4, <1>5, <1>6

(* A draft that is ready keeps the inductive invariant.                      *)
LEMMA DraftReadyKeeps ==
  ASSUME IInv, NEW i \in Ids, DraftReady(i)
  PROVE  IInv' /\ ~Drafting(i)'
<1>1. /\ Drafting(i) /\ DraftCall(ops[i]) /\ Head(chain) = i /\ chain[1] = i /\ chain # <<>>
      /\ making = None /\ ops[i].target = slot /\ draft.id = None
      /\ registry' = [registry EXCEPT ![slot] = ops[i].agent]
  BY ReadyIs
<1>2. \/ draft' = draft
      \/ /\ draft.op = i /\ draft.agent = ops[i].agent /\ main = slot
         /\ draft' = [draft EXCEPT !.id = slot]
  BY ReadyIs
<1>3. \/ ops'[i] = Idle
      \/ ops'[i].kind = "bounced" /\ ops'[i].at = "reset" /\ ops[i].kind = "interview"
  BY ReadyIs
<1>4. ops' \in [Ids -> Call] /\ \A j \in Ids : j # i => ops'[j] = ops[j]
  BY ReadyIs
<1>5. \/ kicked' = kicked /\ making' = making
      \/ /\ kicked' = kicked \cup {slot} /\ making' = Creator /\ main = slot
         /\ ops[i].agent = Creator /\ draft'.id = slot
  BY ReadyIs
<1>6. /\ UNCHANGED <<main, slot, madeFor, want, pending, preferred, last, asks, fails>>
      /\ chain' = Tail(chain) /\ Known' = Known /\ Made' = Made
  BY DEF DraftReady, Known, Made
<1>7. slot \in Slots /\ ops[i].agent \in Agents
  BY <1>1 DEF IInv, ValuesOK, DraftCall
<1>8. ValuesOK'
  <2>1. making' \in Agents \cup {None}
    BY <1>5, <1>1 DEF Agents
  <2>2. registry' \in [Slots -> Agents \cup {None}]
    BY <1>1, <1>7 DEF IInv, ValuesOK
  <2>3. draft' \in [op : Ids \cup {None}, agent : Agents \cup {None}, id : Slots \cup {None},
                    remote : Slots \cup {None}]
    BY <1>2, <1>7 DEF IInv, ValuesOK
  <2> QED BY <2>1, <2>2, <2>3, <1>6 DEF IInv, ValuesOK
<1>9. CallsOK'
  <2>1. pending' # None => Selecting(pending)'
    BY <1>1, <1>4, <1>6 DEF IInv, CallsOK, ValuesOK, Selecting, Drafting
  <2>2. ASSUME NEW j \in Ids
        PROVE  (\/ ops[j] = Idle \/ SelectCall(ops[j]) \/ DraftCall(ops[j]) \/ BouncedCall(ops[j]))'
    BY <1>3, <1>4, <1>6 DEF SelectCall, DraftCall, BouncedCall, IInv, CallsOK
  <2> QED BY <2>1, <2>2, <1>4 DEF CallsOK
<1>10. ~Drafting(i)'
  BY <1>3 DEF Drafting, Idle
<1>11. /\ ChainOK'
       /\ chain' # <<>> => chain'[Len(chain')] = chain[Len(chain)] /\ chain[Len(chain)] # i
       /\ i = chain[Len(chain)] => chain' = <<>>
  BY <1>1, <1>4, <1>6, <1>10, ChainShrinks DEF IInv
<1>12. DraftsInv'
  <2>1. draft'.op # None /\ Drafting(draft.op)' => draft'.op = chain'[Len(chain')]
    <3>1. draft'.op = draft.op /\ draft.op \in Ids \cup {None}
      BY <1>2 DEF IInv, ValuesOK
    <3>2. ASSUME draft.op # None, Drafting(draft.op)' PROVE draft.op = chain'[Len(chain')]
      <4>1. draft.op # i /\ Drafting(draft.op) /\ draft.op \in Ids
        BY <3>1, <3>2, <1>4, <1>10 DEF Drafting
      <4>2. draft.op = chain[Len(chain)]
        BY <3>2, <4>1 DEF IInv, DraftsInv
      <4>3. chain' # <<>>
        BY <1>11, <4>1, <3>1, <3>2 DEF ChainOK, Drafting
      <4> QED BY <4>2, <4>3, <1>11
    <3>3. Drafting(draft.op)' => ops'[draft'.op].kind \in {"draft", "interview"}
      BY DEF Drafting
    <3> QED BY <3>1, <3>2, <3>3 DEF Drafting
  <2>2. draft'.id # None => draft.op = i /\ draft'.id = slot /\ draft'.agent = ops[i].agent
    BY <1>1, <1>2 DEF IInv, ValuesOK
  <2>3. chain' # <<>> => draft'.id = None
    <3>1. draft.op = i => draft.op = chain[Len(chain)]
      BY <1>1, Threads DEF IInv, DraftsInv
    <3> QED BY <3>1, <2>2, <1>11
  <2>4. ASSUME NEW j \in Ids, Drafting(j)', ops'[j].at = "reset"
        PROVE  chain'[1] = j /\ making' = None /\ ops'[j].target = slot'
    <3>1. j # i /\ Drafting(j) /\ ops[j].at = "reset"
      BY <2>4, <1>10, <1>4 DEF Drafting
    <3> QED BY <3>1, <1>1 DEF IInv, DraftsInv
  <2>5. draft'.id # None => registry'[draft'.id] = draft'.agent /\ draft'.agent # None
    BY <2>2, <1>1, <1>7, Threads DEF IInv, ValuesOK
  <2>6. ASSUME NEW t \in kicked'
        PROVE  t \in Slots /\ registry'[t] = Creator /\ (t < slot' \/ (t = slot' /\ making' # None))
    <3>1. CASE t \in kicked
      <4>1. t \in Slots /\ registry[t] = Creator /\ t < slot
        BY <3>1, <1>1 DEF IInv, DraftsInv
      <4>2. t # slot
        BY <4>1, <1>7 DEF Slots
      <4> QED BY <4>1, <4>2, <1>1, <1>6 DEF IInv, ValuesOK
    <3>2. CASE t \notin kicked
      <4>1. t = slot /\ making' = Creator /\ ops[i].agent = Creator
        BY <3>2, <1>5
      <4>2. registry'[t] = Creator
        BY <4>1, <1>1, <1>7 DEF IInv, ValuesOK
      <4> QED BY <4>1, <4>2, <1>6, <1>7, Threads
    <3> QED BY <3>1, <3>2
  <2> QED BY <2>1, <2>3, <2>4, <2>5, <2>6 DEF DraftsInv
<1> QED BY <1>8, <1>9, <1>10, <1>11, <1>12 DEF IInv

(* A draft that fails keeps the inductive invariant.                         *)
LEMMA DraftFailsKeeps ==
  ASSUME IInv, NEW i \in Ids, DraftFails(i)
  PROVE  IInv'
<1>1. Drafting(i) /\ Head(chain) = i /\ chain[1] = i /\ chain # <<>> /\ draft.id = None
  BY FirstDraft DEF DraftFails
<1>2. ops' \in [Ids -> Call] /\ ops'[i] = Idle /\ \A j \in Ids : j # i => ops'[j] = ops[j]
  <2>1. Idle \in Call
    BY DEF Call, Idle
  <2> QED BY <2>1, OneCall DEF DraftFails, IInv, CallsOK
<1>3. /\ UNCHANGED <<main, slot, making, madeFor, registry, want, pending, preferred, last, asks, kicked>>
      /\ chain' = Tail(chain) /\ Known' = Known /\ Made' = Made
      /\ fails' \in Nat /\ draft' = IF draft.op = i THEN NoDraft ELSE draft
  BY DEF DraftFails, AfterFailure, Known, Made, library, IInv, ValuesOK
<1>4. ValuesOK'
  <2>1. draft' \in [op : Ids \cup {None}, agent : Agents \cup {None}, id : Slots \cup {None},
                    remote : Slots \cup {None}]
    BY <1>3 DEF IInv, ValuesOK, NoDraft
  <2> QED BY <2>1, <1>3 DEF IInv, ValuesOK
<1>5. CallsOK'
  <2>1. pending' # None => Selecting(pending)'
    BY <1>1, <1>2, <1>3 DEF IInv, CallsOK, ValuesOK, Selecting, Drafting
  <2>2. ASSUME NEW j \in Ids
        PROVE  (\/ ops[j] = Idle \/ SelectCall(ops[j]) \/ DraftCall(ops[j]) \/ BouncedCall(ops[j]))'
    BY <1>2, <1>3 DEF SelectCall, DraftCall, BouncedCall, IInv, CallsOK
  <2> QED BY <2>1, <2>2, <1>2 DEF CallsOK
<1>6. ~Drafting(i)'
  BY <1>2 DEF Drafting, Idle
<1>7. /\ ChainOK'
      /\ chain' # <<>> => chain'[Len(chain')] = chain[Len(chain)] /\ chain[Len(chain)] # i
  BY <1>1, <1>2, <1>3, <1>6, ChainShrinks DEF IInv
<1>8. DraftsInv'
  <2>1. ASSUME draft'.op # None, Drafting(draft.op)' PROVE draft'.op = chain'[Len(chain')]
    <3>1. draft' = draft /\ draft.op # i /\ draft.op \in Ids
      BY <1>3, <2>1 DEF NoDraft, IInv, ValuesOK
    <3>2. Drafting(draft.op)
      BY <3>1, <2>1, <1>2 DEF Drafting
    <3>3. draft.op = chain[Len(chain)]
      BY <3>1, <3>2, Threads DEF IInv, DraftsInv
    <3>4. chain' # <<>>
      BY <1>7, <2>1, <3>1 DEF ChainOK
    <3> QED BY <3>1, <3>3, <3>4, <1>7
  <2>2. draft'.id = None
    BY <1>1, <1>3 DEF NoDraft
  <2>3. ASSUME NEW j \in Ids, Drafting(j)', ops'[j].at = "reset"
        PROVE  chain'[1] = j /\ making' = None /\ ops'[j].target = slot'
    <3>1. j # i /\ Drafting(j) /\ ops[j].at = "reset"
      BY <2>3, <1>6, <1>2 DEF Drafting
    <3> QED BY <3>1, <1>1 DEF IInv, DraftsInv
  <2> QED BY <2>1, <2>2, <2>3, <1>3 DEF IInv, DraftsInv
<1> QED BY <1>4, <1>5, <1>7, <1>8 DEF IInv

(* Sending keeps the inductive invariant.                                    *)
LEMMA SendKeeps ==
  ASSUME IInv, Send
  PROVE  IInv'
<1>1. /\ UNCHANGED <<main, slot, madeFor, registry, chain, refs, preferred, last, ops, asks, fails, kicked>>
      /\ Known' = Known /\ Made' = Made /\ making' = registry[main]
      /\ main = slot /\ draft.id = main /\ draft.id # None
  BY DEF Send, ShowsDraft, Known, Made
<1>2. making' \in Agents /\ chain = <<>>
  BY <1>1 DEF IInv, ValuesOK, DraftsInv
<1>3. ValuesOK'
  BY <1>1, <1>2 DEF IInv, ValuesOK, refs
<1>4. CallsOK' /\ ChainOK'
  BY <1>1 DEF IInv, CallsOK, SelectCall, DraftCall, BouncedCall, ChainOK, Drafting, Selecting, refs
<1>5. \A j \in Ids : ~Drafting(j)
  BY <1>2 DEF IInv, ChainOK
<1>6. DraftsInv'
  <2>1. \A j \in Ids : ~Drafting(j)'
    BY <1>1, <1>5 DEF Drafting
  <2>2. \A t \in kicked : t \in Slots /\ registry[t] = Creator /\ (t < slot \/ t = slot)
    BY DEF IInv, DraftsInv
  <2>3. making' # None
    BY <1>2, Threads
  <2>4. draft.op # None => draft.op \in Ids
    BY DEF IInv, ValuesOK
  <2> QED BY <1>1, <1>5, <2>1, <2>2, <2>3, <2>4 DEF IInv, DraftsInv, refs, Drafting
<1> QED BY <1>3, <1>4, <1>6 DEF IInv

(* A Session was made of the next local thread.                                *)
LEMMA InitializeIs ==
  ASSUME ValuesOK, Initialize
  PROVE  /\ slot' = slot + 1 /\ slot' \in Slots /\ making \in Agents /\ making' = None
         /\ Made' = Made \cup {slot} /\ Known' = Known \cup {slot} /\ madeFor'[slot] = making
         /\ madeFor' \in [Slots -> Agents \cup {None}]
         /\ \A k \in Made : madeFor'[k] = madeFor[k]
         /\ \A t \in Known : Owner(t)' = Owner(t)
         /\ UNCHANGED <<main, registry, chain, refs, preferred, last, ops, asks, fails, asked, kicked>>
<1>1. slot' = slot + 1 /\ slot \in 1..MaxAsks + 1 /\ slot < MaxAsks + 1 /\ MaxAsks \in Nat
  BY Threads DEF Initialize, ValuesOK, Slots
<1>2. slot' \in Slots /\ Made' = Made \cup {slot} /\ slot \notin Made /\ slot \in Slots
  BY <1>1 DEF Slots, Made
<1>3. making \in Agents /\ making' = None /\ madeFor'[slot] = making
      /\ madeFor' \in [Slots -> Agents \cup {None}]
      /\ \A k \in Made : madeFor'[k] = madeFor[k]
  BY <1>2 DEF Initialize, ValuesOK, Made, Slots
<1>4. Known' = Known \cup {slot}
  BY <1>2 DEF Known
<1>5. ASSUME NEW t \in Known PROVE Owner(t)' = Owner(t)
  <2>1. t \in Made \/ t \notin Made'
    BY <1>2, KnownThreads
  <2> QED BY <2>1, <1>2, <1>3 DEF Owner
<1> QED BY <1>1, <1>2, <1>3, <1>4, <1>5 DEF Initialize

(* A draft that becomes a thread keeps the inductive invariant.              *)
LEMMA InitializeKeeps ==
  ASSUME IInv, Initialize
  PROVE  IInv'
<1>1. /\ slot' = slot + 1 /\ slot' \in Slots /\ making \in Agents /\ making' = None
      /\ Made' = Made \cup {slot} /\ Known' = Known \cup {slot} /\ madeFor'[slot] = making
      /\ madeFor' \in [Slots -> Agents \cup {None}]
      /\ \A k \in Made : madeFor'[k] = madeFor[k]
      /\ UNCHANGED <<main, registry, chain, refs, preferred, last, ops, asks, fails, kicked>>
  BY InitializeIs DEF IInv
<1>2. ValuesOK'
  BY <1>1 DEF IInv, ValuesOK, refs
<1>3. CallsOK' /\ ChainOK'
  BY <1>1 DEF IInv, CallsOK, SelectCall, DraftCall, BouncedCall, ChainOK, Drafting, Selecting, refs
<1>4. ASSUME NEW j \in Ids, Drafting(j), ops[j].at = "reset" PROVE FALSE
  BY <1>1, <1>4, Threads DEF IInv, DraftsInv
<1>5. \A t \in kicked : t \in Slots /\ registry[t] = Creator /\ t < slot'
  <2>1. \A t \in kicked : t \in Slots /\ registry[t] = Creator /\ (t < slot \/ t = slot)
    BY DEF IInv, DraftsInv
  <2> QED BY <2>1, <1>1 DEF IInv, ValuesOK, Slots
<1>6. draft.op # None => draft.op \in Ids
  BY DEF IInv, ValuesOK
<1>7. \A j \in Ids : Drafting(j)' <=> Drafting(j)
  BY <1>1 DEF Drafting
<1>8. DraftsInv'
  <2>1. draft'.op # None /\ Drafting(draft.op)' => draft'.op = chain'[Len(chain')]
    BY <1>1, <1>6, <1>7 DEF IInv, DraftsInv, refs, Drafting
  <2> QED BY <2>1, <1>1, <1>4, <1>5, <1>7 DEF IInv, DraftsInv, refs
<1> QED BY <1>2, <1>3, <1>8 DEF IInv

(* The effects: the call a draft came of is forgotten, or the draft is.         *)
LEMMA PromotedKeeps ==
  ASSUME IInv, Promoted \/ Owned \/ Remember
  PROVE  IInv'
<1>1. /\ UNCHANGED <<library, registry, chain, want, pending, ops, asks, fails, kicked>>
      /\ Known' = Known /\ Made' = Made
  BY DEF Promoted, Owned, Remember, library, refs, Known, Made
<1>2. \/ draft' = [draft EXCEPT !.remote = main, !.op = None] /\ main \in Slots
      \/ draft' = NoDraft
      \/ draft' = draft
  BY KnownThreads DEF Promoted, PromotionDue, Owned, Remember, refs, IInv
<1>3. preferred' \in Agents /\ last' \in [Agents -> Known \cup {None}]
  <2>1. CASE Promoted
    <3>1. draft.agent \in Agents /\ main \in Known
      BY <2>1 DEF Promoted, PromotionDue, IInv, ValuesOK, Known
    <3> QED BY <2>1, <3>1 DEF Promoted, IInv, ValuesOK
  <2>2. CASE Owned
    BY <2>2 DEF Owned, IInv, ValuesOK
  <2>3. CASE Remember
    <3>1. ShownIsNew => main \in Known
      BY DEF ShownIsNew, Strayed
    <3> QED BY <2>3, <3>1 DEF Remember, IInv, ValuesOK
  <2> QED BY <2>1, <2>2, <2>3
<1>4. /\ draft' \in [op : Ids \cup {None}, agent : Agents \cup {None}, id : Slots \cup {None},
                     remote : Slots \cup {None}]
      /\ draft'.op # None => draft'.op = draft.op
      /\ draft'.id # None => draft'.id = draft.id /\ draft'.agent = draft.agent
  <2>1. draft \in [op : Ids \cup {None}, agent : Agents \cup {None}, id : Slots \cup {None},
                   remote : Slots \cup {None}]
    BY DEF IInv, ValuesOK
  <2>2. CASE draft' = [draft EXCEPT !.remote = main, !.op = None] /\ main \in Slots
    <3>1. /\ draft'.op = None /\ draft'.agent = draft.agent
          /\ draft'.id = draft.id /\ draft'.remote = main
      BY <2>1, <2>2
    <3>2. draft' = [op |-> None, agent |-> draft.agent, id |-> draft.id, remote |-> main]
      BY <2>1, <2>2
    <3> QED BY <2>1, <2>2, <3>1, <3>2
  <2>3. CASE draft' = NoDraft
    BY <2>3 DEF NoDraft
  <2>4. CASE draft' = draft
    BY <2>1, <2>4
  <2> QED BY <1>2, <2>2, <2>3, <2>4
<1>5. ValuesOK'
  BY <1>1, <1>3, <1>4 DEF IInv, ValuesOK, library
<1>6. CallsOK' /\ ChainOK'
  BY <1>1 DEF IInv, CallsOK, SelectCall, DraftCall, BouncedCall, ChainOK, Drafting, Selecting
<1>7. DraftsInv'
  <2>1. draft'.op # None /\ Drafting(draft.op)' => draft'.op = chain'[Len(chain')]
    BY <1>1, <1>4 DEF IInv, DraftsInv, Drafting
  <2>2. \A j \in Ids : Drafting(j)' <=> Drafting(j)
    BY <1>1 DEF Drafting
  <2> QED BY <2>1, <2>2, <1>1, <1>4 DEF IInv, DraftsInv, library
<1> QED BY <1>5, <1>6, <1>7 DEF IInv

(* What resolveSessionSelection finds is a known thread.                       *)
LEMMA CandidatesAreKnown ==
  ASSUME NEW a \in Agents, NEW t \in Candidates(a)
  PROVE  t \in Known \cup {None} /\ (t # None => Owner(t) = a)
BY DEF Candidates, Of

(* Asking for a thread keeps the inductive invariant.                        *)
LEMMA AskKeeps ==
  ASSUME IInv, Asking
  PROVE  IInv'
<1>1. /\ UNCHANGED <<library, registry, fails, kicked>> /\ asks' \in Nat /\ Busy # Ids
      /\ Free \in Ids /\ ops[Free] = Idle
  BY FreeIsIdle DEF Asking, OpenSession, CreateSession, OpenAgentBuilder, Asks, IInv, ValuesOK
<1>2. ASSUME NEW t \in Known, OpenSession(t) PROVE IInv'
  <2>1. Owner(t) \in Agents
    BY KnownThreads DEF IInv
  <2>2. preferred' \in Agents /\ last' \in [Agents -> Known \cup {None}] /\ Select(Free, t)
    BY <1>2, <2>1 DEF OpenSession, Asks, IInv, ValuesOK
  <2> QED BY <2>2, <1>1, SelectKeeps
<1>3. ASSUME NEW a \in Agents, CreateSession(a) PROVE IInv'
  <2>1. preferred' \in Agents /\ last' \in [Agents -> Known \cup {None}] /\ NewDraft(Free, a, "draft")
    BY <1>3 DEF CreateSession, Asks, IInv, ValuesOK
  <2> QED BY <2>1, <1>1, NewDraftKeeps
<1>4. ASSUME OpenAgentBuilder PROVE IInv'
  <2>1. Creator \in Agents
    BY DEF Agents
  <2>2. preferred' \in Agents /\ last' \in [Agents -> Known \cup {None}]
    BY <1>4, <2>1 DEF OpenAgentBuilder, Asks, IInv, ValuesOK
  <2> QED BY <2>1, <2>2, <1>1, <1>4, NewDraftKeeps DEF OpenAgentBuilder
<1> QED BY <1>2, <1>3, <1>4 DEF Asking

(* A repair keeps the inductive invariant.                                   *)
LEMMA RepairKeeps ==
  ASSUME IInv, NEW i \in Ids, ops[i] = Idle, Repair(i)
  PROVE  IInv'
<1>1. /\ UNCHANGED <<library, registry, fails, kicked>> /\ asks' \in Nat
      /\ preferred' \in Agents /\ last' \in [Agents -> Known \cup {None}] /\ preferred \in Agents
  BY DEF Repair, IInv, ValuesOK
<1>2. PICK t \in Candidates(preferred) :
         IF t = None THEN NewDraft(i, preferred, "draft") ELSE Select(i, t)
  BY DEF Repair
<1>3. CASE t = None
  BY <1>1, <1>2, <1>3, NewDraftKeeps
<1>4. CASE t # None
  <2>1. t \in Known
    BY <1>1, <1>4, CandidatesAreKnown
  <2> QED BY <1>1, <1>2, <1>4, <2>1, SelectKeeps
<1> QED BY <1>3, <1>4

(* A bounce keeps the inductive invariant.                                   *)
LEMMA BounceKeeps ==
  ASSUME IInv, NEW i \in Ids, Bounce(i)
  PROVE  IInv'
<1>1. /\ UNCHANGED <<library, registry, fails, kicked>> /\ asks' \in Nat /\ Agent \in Agents
      /\ preferred' \in Agents /\ last' \in [Agents -> Known \cup {None}]
  BY DEF Bounce, IInv, ValuesOK, Agents
<1>2. BouncedCall(ops[i])
  BY DEF Bounce, IInv, CallsOK, SelectCall, DraftCall, Idle
<1>3. PICK t \in Candidates(Agent) :
         IF t = None THEN NewDraft(i, Agent, "draft") ELSE Select(i, t)
  BY DEF Bounce
<1>4. CASE t = None
  BY <1>1, <1>2, <1>3, <1>4, NewDraftKeeps
<1>5. CASE t # None
  <2>1. t \in Known
    BY <1>1, <1>5, CandidatesAreKnown
  <2> QED BY <1>1, <1>2, <1>3, <1>5, <2>1, SelectKeeps
<1> QED BY <1>4, <1>5

(* The inductive invariant holds at first.                                   *)
LEMMA InitIInv ==
  ASSUME Init
  PROVE  IInv
<1>1. /\ main \in Known /\ Made = {} /\ slot \in Slots /\ 1 \in Slots
      /\ main \notin Made /\ main # None
  <2>1. Made = {} /\ 1 \in Slots /\ slot = 1
    BY Threads DEF Init, Made, Slots
  <2> QED BY <2>1, Threads DEF Init, Known
<1>2. Owner(main) \in Agents
  BY <1>1 DEF Owner, Agents
<1>3. ValuesOK
  BY <1>1, <1>2 DEF Init, ValuesOK, NoDraft
<1>4. ops \in [Ids -> Call] /\ \A i \in Ids : ops[i] = Idle
  <2>1. Idle \in Call
    BY DEF Call, Idle
  <2> QED BY <2>1 DEF Init
<1>5. CallsOK
  BY <1>4 DEF CallsOK, Init
<1>6. \A i \in Ids : ~Drafting(i)
  BY <1>4 DEF Drafting, Idle
<1>7. ChainOK
  BY <1>6 DEF ChainOK, Init
<1>8. DraftsInv
  BY <1>6 DEF DraftsInv, Init, NoDraft
<1> QED BY <1>3, <1>5, <1>7, <1>8 DEF IInv

(* Every step keeps the inductive invariant.                                 *)
LEMMA NextKeepsIInv ==
  ASSUME IInv, [Next]_vars
  PROVE  IInv'
<1>1. CASE Asking
  BY <1>1, AskKeeps
<1>2. CASE Send
  BY <1>2, SendKeeps
<1>3. CASE Initialize
  BY <1>3, InitializeKeeps
<1>4. CASE Repairing
  <2>1. Repair(Free) => Free \in Ids /\ ops[Free] = Idle
    BY FreeIsIdle DEF Repair
  <2> QED BY <1>4, <2>1, RepairKeeps, PromotedKeeps DEF Repairing
<1>5. ASSUME NEW i \in Ids, Goes(i) \/ SwitchFails(i) \/ DraftFails(i) PROVE IInv'
  BY <1>5, SwitchedKeeps, DraftSwitchedKeeps, DraftReadyKeeps, DraftFailsKeeps, BounceKeeps DEF Goes
<1>6. CASE UNCHANGED vars
  BY <1>6 DEF vars, library, refs, IInv, ValuesOK, CallsOK, ChainOK, DraftsInv, Known, Made,
              SelectCall, DraftCall, BouncedCall, Drafting, Selecting
<1> QED BY <1>1, <1>2, <1>3, <1>4, <1>5, <1>6 DEF Next

(* The invariant holds of every behaviour.                                     *)
LEMMA IInvHolds == Spec => []IInv
<1>1. Init => IInv
  BY InitIInv
<1>2. IInv /\ [Next]_vars => IInv'
  BY NextKeepsIInv
<1> QED BY <1>1, <1>2, PTL DEF Spec

-----------------------------------------------------------------------------
(* The threads, the calls and the drafts of use-workspace-navigation.ts and     *)
(* aos-drafts.ts keep their types, each draft waits in line once, and what      *)
(* holds repairs back is a selection under way.                                *)
THEOREM TypeCorrect == Spec => []TypeOK
<1>1. IInv => TypeOK
  <2> SUFFICES ASSUME IInv PROVE TypeOK
    OBVIOUS
  <2>1. main \in Thread /\ want \in Thread \cup {None}
    BY KnownThreads DEF IInv, ValuesOK
  <2>2. \A k \in Made : madeFor[k] # None
    BY Threads DEF IInv, ValuesOK
  <2>3. IsInjective(chain)
    BY DEF IInv, ChainOK, IsInjective
  <2>4. Range(chain) = {i \in Ids : ops[i].kind \in {"draft", "interview"}}
    <3>1. Range(chain) = {chain[n] : n \in 1..Len(chain)} /\ \A n \in 1..Len(chain) : chain[n] \in Ids
      BY DEF IInv, ChainOK, Range
    <3> QED BY <3>1 DEF IInv, ChainOK, Drafting
  <2>5. pending # None => ops[pending].kind = "select"
    BY DEF IInv, CallsOK, Selecting
  <2> QED BY <2>1, <2>2, <2>3, <2>4, <2>5 DEF TypeOK, IInv, ValuesOK
<1> QED BY <1>1, IInvHolds, PTL

(* What is written in the draft on screen goes to the Agent it is shown for,    *)
(* although every draft may be the same local thread, and an interview is only  *)
(* ever started in a draft of the creator's: createAosSessionDraft makes them   *)
(* one after the other, and publishDraft shows the last only.                  *)
THEOREM DraftsAreTheirAgents == Spec => []DraftIsItsAgents
<1>1. IInv => DraftIsItsAgents
  BY DEF IInv, DraftsInv, DraftIsItsAgents, ShowsDraft
<1> QED BY <1>1, IInvHolds, PTL

-----------------------------------------------------------------------------
(* The Session asked for last.                                                *)

Wins(t) == Wanted(t) /\ Kept(t) /\ Lands(t)

(* A selection that landed.                                                   *)
LEMMA SwitchedIs ==
  ASSUME IInv, NEW i \in Ids, Switched(i)
  PROVE  /\ Selecting(i) /\ SelectCall(ops[i]) /\ main' = ops[i].target /\ main' \in Known
         /\ \A j \in Ids : j # i => ops'[j] = ops[j]
         /\ UNCHANGED <<slot, making, madeFor, chain, want, draft, preferred, last, fails, asked, registry>>
         /\ \/ /\ ops'[i] = Idle /\ pending' = Settled(i)
               /\ ops[i].at = "again" \/ want = ops[i].target \/ want = None
            \/ /\ ops'[i].kind = "select" /\ ops'[i].at = "again" /\ ops'[i].target = want
               /\ want # None /\ want # ops[i].target /\ ops[i].at = "switch" /\ pending' = pending
<1>1. /\ Selecting(i) /\ SelectCall(ops[i]) /\ main' = ops[i].target
      /\ ops \in [Ids -> Call] /\ ops[i] \in Call
      /\ UNCHANGED <<slot, making, madeFor, chain, want, draft, preferred, last, fails, asked, registry>>
  BY DEF Switched, Selecting, IInv, CallsOK, DraftCall, BouncedCall, Idle, SelectCall
<1>2. main' \in Known
  BY <1>1 DEF SelectCall
<1>3. CASE /\ ops' = [ops EXCEPT ![i] = Idle] /\ pending' = Settled(i)
           /\ ops[i].at = "switch" => SupersededBy(i) = None
  <2>1. ops[i].at = "again" \/ want = ops[i].target \/ want = None
    BY <1>1, <1>3 DEF SelectCall, SupersededBy
  <2> QED BY <1>1, <1>2, <1>3, <2>1
<1>4. CASE /\ ops[i].at = "switch" /\ SupersededBy(i) # None /\ pending' = pending
           /\ ops' = [ops EXCEPT ![i].at = "again", ![i].target = SupersededBy(i)]
  <2>1. SupersededBy(i) = want /\ want # ops[i].target /\ want # None
    BY <1>4 DEF SupersededBy
  <2>2. /\ ops'[i].kind = "select" /\ ops'[i].at = "again" /\ ops'[i].target = want
        /\ \A j \in Ids : j # i => ops'[j] = ops[j]
    BY <1>1, <1>4, <2>1 DEF SelectCall, Call
  <2> QED BY <1>1, <1>2, <1>4, <2>1, <2>2
<1> QED BY <1>3, <1>4 DEF Switched

(* What no Session is made of meanwhile keeps its owner.                       *)
LEMMA SameOwners ==
  ASSUME slot' = slot, madeFor' = madeFor
  PROVE  Known' = Known /\ Made' = Made /\ \A t : Owner(t)' = Owner(t)
BY DEF Known, Made, Owner

(* A switch that lands leaves the latest choice the winner.                  *)
LEMMA SwitchedWins ==
  ASSUME IInv, NEW t, Wins(t), NEW i \in Ids, Switched(i)
  PROVE  Wins(t)'
<1>1. /\ Selecting(i) /\ SelectCall(ops[i]) /\ main' = ops[i].target /\ main' \in Known
      /\ \A j \in Ids : j # i => ops'[j] = ops[j]
      /\ UNCHANGED <<slot, making, madeFor, want, draft, preferred, last>>
  BY SwitchedIs
<1>2. Known' = Known /\ \A u : Owner(u)' = Owner(u)
  BY <1>1, SameOwners
<1>3. t \in Known /\ t # None /\ draft = NoDraft /\ want = t /\ preferred = Owner(t)
  BY KnownThreads DEF Wins, Wanted, IInv
<1>4. \/ ops'[i] = Idle /\ pending' = Settled(i) /\ main' = t
      \/ /\ ops'[i].kind = "select" /\ ops'[i].at = "again" /\ ops'[i].target = t
         /\ t # ops[i].target
  BY SwitchedIs, <1>3, <1>1 DEF Wins, Wanted
<1>5. ~Stray(i, t)' /\ \A j \in Ids : Stray(j, t)' => Stray(j, t)
  BY <1>1, <1>4 DEF Stray, Selecting, Drafting, Idle
<1>6. Wanted(t)'
  <2>1. \A j \in Ids : ops'[j].kind \in {"idle", "select", "draft"}
                         /\ (Selecting(j)' /\ ops'[j].at = "again" => ops'[j].target = t)
    BY <1>1, <1>4 DEF Wins, Wanted, Idle, Selecting
  <2>2. \A j, k \in Ids : Stray(j, t)' /\ Stray(k, t)' => j = k
    BY <1>5 DEF Wins, Wanted
  <2> QED BY <2>1, <2>2, <1>1, <1>2, <1>3 DEF Wanted
<1>7. CASE main' = t
  <2>1. Fits'
    BY <1>7, <1>1, <1>2, <1>3 DEF Fits
  <2>2. Kept(t)'
    BY <2>1, <1>1, <1>5 DEF Wins, Kept
  <2> QED BY <1>6, <1>7, <2>2 DEF Wins, Lands
<1>8. CASE /\ ops'[i].kind = "select" /\ ops'[i].at = "again" /\ ops'[i].target = t
           /\ t # ops[i].target
  <2>1. Stray(i, t)
    BY <1>1, <1>8 DEF Stray
  <2>2. \A j \in Ids : ~Stray(j, t)'
    BY <2>1, <1>5 DEF Wins, Wanted
  <2>3. Selecting(i)'
    BY <1>8 DEF Selecting
  <2>4. Kept(t)'
    BY <2>1, <1>1 DEF Wins, Kept
  <2> QED BY <1>6, <2>2, <2>3, <2>4 DEF Wins, Lands
<1> QED BY <1>4, <1>7, <1>8

(* So does a draft's switch that lands.                                      *)
LEMMA DraftSwitchedWins ==
  ASSUME IInv, NEW t, Wins(t), NEW i \in Ids, DraftSwitched(i)
  PROVE  Wins(t)'
<1>1. /\ ops'[i] = [ops[i] EXCEPT !.at = "reset", !.target = slot]
      /\ \A j \in Ids : j # i => ops'[j] = ops[j]
  BY DraftSwitchedKeeps
<1>2. Drafting(i) /\ ops[i].at = "queued" /\ ops[i] \in Call /\ making = None
  BY FirstDraft DEF DraftSwitched
<1>3. /\ main' = slot
      /\ UNCHANGED <<slot, making, madeFor, want, pending, draft, preferred, last>>
  BY DEF DraftSwitched, refs
<1>4. Known' = Known /\ \A u : Owner(u)' = Owner(u)
  BY <1>3, SameOwners
<1>5. ops'[i].kind = ops[i].kind /\ ops'[i].at = "reset"
  BY <1>1, <1>2 DEF Call
<1>6. Stray(i, t) /\ ~Stray(i, t)' /\ \A j \in Ids : j # i => (Stray(j, t)' <=> Stray(j, t))
  BY <1>1, <1>2, <1>5 DEF Stray, Drafting, Selecting
<1>7. \A j \in Ids : ~Stray(j, t)'
  BY <1>6 DEF Wins, Wanted
<1>8. Wanted(t)'
  <2>1. \A j \in Ids : ops'[j].kind \in {"idle", "select", "draft"}
                         /\ (Selecting(j)' /\ ops'[j].at = "again" => ops'[j].target = t)
    BY <1>1, <1>5 DEF Wins, Wanted, Selecting
  <2> QED BY <2>1, <1>3, <1>4, <1>7 DEF Wins, Wanted
<1>9. Kept(t)'
  BY <1>3, <1>6 DEF Wins, Kept
<1> QED BY <1>2, <1>3, <1>7, <1>8, <1>9 DEF Wins, Lands

(* So does a draft that is ready.                                            *)
LEMMA DraftReadyWins ==
  ASSUME IInv, NEW t, Wins(t), NEW i \in Ids, DraftReady(i)
  PROVE  Wins(t)'
<1>1. draft.op = None /\ i # None /\ Drafting(i) /\ ops[i].kind # "interview" /\ draft.id = None
  BY ReadyIs, Threads DEF Wins, Wanted, NoDraft
<1>2. draft' = draft /\ ops'[i] = Idle /\ \A j \in Ids : j # i => ops'[j] = ops[j]
  BY <1>1, ReadyIs
<1>3. making' = making
  <2>1. slot # None
    BY Threads DEF IInv, ValuesOK
  <2> QED BY <2>1, <1>1, <1>2, ReadyIs
<1>4. UNCHANGED <<main, slot, madeFor, want, pending, preferred, last>>
  BY DEF DraftReady
<1>5. Known' = Known /\ \A u : Owner(u)' = Owner(u)
  BY <1>4, SameOwners
<1>6. \A j \in Ids : (Stray(j, t)' => Stray(j, t)) /\ (Selecting(j)' <=> Selecting(j))
  BY <1>1, <1>2 DEF Stray, Selecting, Drafting, Idle
<1>7. Wanted(t)'
  <2>1. \A j \in Ids : ops'[j].kind \in {"idle", "select", "draft"}
                         /\ (Selecting(j)' /\ ops'[j].at = "again" => ops'[j].target = t)
    BY <1>2 DEF Wins, Wanted, Selecting, Idle
  <2>2. \A j, k \in Ids : Stray(j, t)' /\ Stray(k, t)' => j = k
    BY <1>6 DEF Wins, Wanted
  <2> QED BY <2>1, <2>2, <1>2, <1>4, <1>5 DEF Wins, Wanted
<1>8. Kept(t)' /\ Lands(t)'
  BY <1>3, <1>4, <1>5, <1>6 DEF Wins, Kept, Lands, Fits
<1> QED BY <1>7, <1>8 DEF Wins

(* So does a repair.                                                         *)
LEMMA RepairWins ==
  ASSUME IInv, NEW t, Wins(t), NEW i \in Ids, ops[i] = Idle, Repair(i)
  PROVE  Wins(t)'
<1>1. t \in Known /\ t # None /\ preferred = Owner(t) /\ ~Fits
  BY KnownThreads DEF Repair, RepairDue, Strayed, Fits, Wins, Wanted, IInv
<1>2. Candidates(preferred) = {t}
  BY <1>1 DEF Wins, Kept, Candidates, Of
<1>3. Select(i, t) /\ UNCHANGED <<library, preferred, last>>
  BY <1>1, <1>2 DEF Repair
<1>4. ops'[i] = [kind |-> "select", at |-> "switch", target |-> t, agent |-> None]
  BY <1>3 DEF Select, IInv, CallsOK
<1>5. \A j \in Ids : j # i => ops'[j] = ops[j]
  BY <1>3 DEF Select, IInv, CallsOK
<1>6. Known' = Known /\ \A u : Owner(u)' = Owner(u)
  BY <1>3, SameOwners DEF library
<1>7. \A j \in Ids : Stray(j, t)' => Stray(j, t)
  BY <1>4, <1>5 DEF Stray, Selecting, Drafting
<1>8. Wanted(t)'
  <2>1. \A j \in Ids : ops'[j].kind \in {"idle", "select", "draft"}
                         /\ (Selecting(j)' /\ ops'[j].at = "again" => ops'[j].target = t)
    BY <1>4, <1>5 DEF Wins, Wanted, Selecting
  <2>2. \A j, k \in Ids : Stray(j, t)' /\ Stray(k, t)' => j = k
    BY <1>7 DEF Wins, Wanted
  <2> QED BY <2>1, <2>2, <1>1, <1>3, <1>6 DEF Wanted, Select
<1>9. last'[preferred'] = t
  BY <1>1, <1>3 DEF Wins, Kept
<1>10. pending' # None
  BY <1>3, Threads DEF Select
<1> QED BY <1>8, <1>9, <1>10 DEF Wins, Kept, Lands

(* So does a draft that becomes a thread.                                    *)
LEMMA InitializeWins ==
  ASSUME IInv, NEW t, Wins(t), Initialize
  PROVE  Wins(t)'
<1>1. /\ Known' = Known \cup {slot} /\ \A u \in Known : Owner(u)' = Owner(u)
      /\ UNCHANGED <<main, refs, preferred, last, ops>> /\ making # None
  BY InitializeIs DEF IInv, Initialize
<1>2. \A j \in Ids : (Stray(j, t)' <=> Stray(j, t)) /\ (Selecting(j)' <=> Selecting(j))
  BY <1>1 DEF Stray, Selecting, Drafting
<1>3. Wanted(t)'
  BY <1>1, <1>2 DEF Wins, Wanted, refs, Selecting
<1>4. Kept(t)' /\ Lands(t)'
  BY <1>1, <1>2 DEF Wins, Kept, Lands, Fits, refs
<1> QED BY <1>3, <1>4 DEF Wins

(* So do sending, and remembering what is shown.                             *)
LEMMA RememberWins ==
  ASSUME IInv, NEW t, Wins(t), Remember \/ Promoted \/ Owned \/ Send
  PROVE  Wins(t)'
<1>1. draft.agent = None /\ draft.id = None
  BY DEF Wins, Wanted, NoDraft
<1>2. /\ ShownIsNew /\ last' = [last EXCEPT ![preferred] = main]
      /\ UNCHANGED <<library, refs, preferred, ops>>
  BY <1>1 DEF Remember, DraftIsNew, Promoted, PromotionDue, Owned, OwnershipDue, Send, ShowsDraft
<1>3. Known' = Known /\ \A u : Owner(u)' = Owner(u)
  BY <1>2, SameOwners DEF library
<1>4. \A j \in Ids : (Stray(j, t)' <=> Stray(j, t)) /\ (Selecting(j)' <=> Selecting(j))
  BY <1>2 DEF Stray, Selecting, Drafting
<1>5. Wanted(t)'
  BY <1>2, <1>3, <1>4 DEF Wins, Wanted, refs, Selecting
<1>6. Lands(t)'
  BY <1>2, <1>3, <1>4 DEF Wins, Lands, refs, library
<1>7. Fits /\ pending = None
  BY <1>2 DEF ShownIsNew, MayRepair, Strayed, Fits
<1>8. last'[preferred'] = main
  BY <1>2 DEF IInv, ValuesOK
<1>9. Fits'
  BY <1>2, <1>3, <1>7 DEF Fits, library
<1>10. main = t \/ \A j \in Ids : ~Stray(j, t)
  BY <1>7 DEF Wins, Lands
<1>11. Kept(t)'
  BY <1>4, <1>8, <1>9, <1>10 DEF Kept
<1> QED BY <1>5, <1>6, <1>11 DEF Wins

(* A Session is asked for while at most one call is under way.                 *)
LEMMA OpenSessionWins ==
  ASSUME IInv, NEW t \in Known, OpenSession(t), FewBeside'
  PROVE  Wins(t)'
<1>1. /\ Free \in Ids /\ ops[Free] = Idle /\ Select(Free, t) /\ UNCHANGED library
      /\ preferred' = Owner(t) /\ last' = [last EXCEPT ![Owner(t)] = t]
      /\ asked'.beside = {<<i, ops[i].kind, ops[i].at>> : i \in Busy}
  BY FreeIsIdle DEF OpenSession, Asks
<1>2. t # None /\ Owner(t) \in Agents
  BY KnownThreads DEF IInv
<1>3. /\ ops'[Free] = [kind |-> "select", at |-> "switch", target |-> t, agent |-> None]
      /\ \A j \in Ids : j # Free => ops'[j] = ops[j]
  BY <1>1 DEF Select, IInv, CallsOK
<1>4. Known' = Known /\ \A u : Owner(u)' = Owner(u)
  BY <1>1, SameOwners DEF library
<1>5. ASSUME NEW i \in Busy
      PROVE  /\ ops[i].kind \notin {"interview", "bounced"} /\ ops[i].at # "again"
             /\ \A j \in Busy : i = j
  <2>1. <<i, ops[i].kind, ops[i].at>> \in asked'.beside
    BY <1>1
  <2>2. \A j \in Busy : <<i, ops[i].kind, ops[i].at>> = <<j, ops[j].kind, ops[j].at>>
    BY <1>1 DEF FewBeside
  <2> QED BY <2>1, <2>2 DEF FewBeside
<1>6. \A j \in Ids : ops[j].kind \in {"idle", "select", "draft"} /\ ops[j].at # "again"
  BY <1>5 DEF Busy, Idle, IInv, CallsOK, SelectCall, DraftCall, BouncedCall
<1>7. Wanted(t)'
  <2>1. \A j \in Ids : ops'[j].kind \in {"idle", "select", "draft"} /\ ops'[j].at # "again"
    BY <1>3, <1>6
  <2>2. \A j \in Ids : Stray(j, t)' => j \in Busy
    BY <1>3 DEF Stray, Selecting, Drafting, Busy, Idle
  <2>3. \A j, k \in Ids : Stray(j, t)' /\ Stray(k, t)' => j = k
    BY <2>2, <1>5
  <2> QED BY <1>1, <1>4, <2>1, <2>3 DEF Wanted, Select
<1>8. last'[preferred'] = t
  BY <1>1, <1>2 DEF IInv, ValuesOK
<1>9. pending' # None
  BY <1>1, Threads DEF Select
<1> QED BY <1>7, <1>8, <1>9 DEF Wins, Kept, Lands

(* Every step leaves the latest choice the winner.                           *)
LEMMA NextKeepsWins ==
  ASSUME IInv, WinsInv, [Next]_vars
  PROVE  WinsInv'
<1> SUFFICES ASSUME fails' = 0, asked'.thread # None, FewBeside'
             PROVE  Wins(asked.thread)'
  BY DEF WinsInv, Wins
<1>1. PICK t : t = asked'.thread
  OBVIOUS
<1>2. SUFFICES Wins(t)'
  BY <1>1 DEF Wins, Wanted, Kept, Lands, Stray
<1>3. CASE Asking
  <2>1. \A u : Asks(u, Owner(u)) => asked'.thread = u
    BY DEF Asks
  <2>2. asked'.thread # None => \E u \in Known : OpenSession(u) /\ asked'.thread = u
    BY <1>3, <2>1 DEF Asking, OpenSession, CreateSession, OpenAgentBuilder, Asks
  <2> QED BY <2>2, <1>1, OpenSessionWins
<1>4. CASE ~Asking /\ asked' = asked /\ fails = 0
  <2>1. Wins(t)
    BY <1>1, <1>4 DEF WinsInv, Wins, FewBeside
  <2>2. CASE \E i \in Ids : Goes(i)
    <3>1. PICK i \in Ids : Goes(i)
      BY <2>2
    <3>2. ~Bounce(i)
      BY <2>1 DEF Bounce, Wins, Wanted
    <3> QED BY <3>1, <3>2, <2>1, SwitchedWins, DraftSwitchedWins, DraftReadyWins DEF Goes
  <2>3. CASE Repairing
    <3>1. Repair(Free) => Free \in Ids /\ ops[Free] = Idle
      BY FreeIsIdle DEF Repair
    <3> QED BY <2>1, <2>3, <3>1, RepairWins, RememberWins DEF Repairing
  <2>4. CASE Initialize \/ Send
    BY <2>1, <2>4, InitializeWins, RememberWins
  <2>5. CASE UNCHANGED vars
    BY <2>1, <2>5 DEF vars, library, refs, Wins, Wanted, Kept, Lands, Stray, Fits, Selecting, Drafting,
                      Known, Made, Owner
  <2>6. \A i \in Ids : ~SwitchFails(i) /\ ~DraftFails(i)
    BY <1>4 DEF SwitchFails, DraftFails
  <2> QED BY <1>4, <2>2, <2>3, <2>4, <2>5, <2>6 DEF Next
<1>5. Asking \/ (asked' = asked /\ fails = 0)
  <2>1. fails \in Nat
    BY DEF IInv, ValuesOK
  <2>2. fails' = fails \/ fails' = fails + 1
    BY DEF Next, vars, Asking, OpenSession, CreateSession, OpenAgentBuilder, Asks, Send, Initialize,
           Repairing, Repair, Remember, Promoted, Owned, Goes, Switched, DraftSwitched, DraftReady, Bounce,
           SwitchFails, DraftFails
  <2>3. Asking \/ asked' = asked
    BY DEF Next, vars, Send, Initialize,
           Repairing, Repair, Remember, Promoted, Owned, Goes, Switched, DraftSwitched, DraftReady, Bounce,
           SwitchFails, DraftFails
  <2> QED BY <2>1, <2>2, <2>3
<1> QED BY <1>3, <1>4, <1>5

(* The latest choice wins at first.                                          *)
LEMMA InitWins ==
  ASSUME Init
  PROVE  WinsInv
<1>1. IInv /\ \A i \in Ids : ops[i] = Idle
  BY InitIInv DEF Init
<1>2. main \in Known /\ draft = NoDraft /\ want = main /\ preferred = Owner(main) /\ asked.thread = main
  <2>1. Made = {} /\ main \in Known
    BY DEF Init, Made, Known
  <2> QED BY <2>1 DEF Init
<1>3. \A i \in Ids : ~Stray(i, main)
  BY <1>1 DEF Stray, Selecting, Drafting, Idle
<1>4. Wanted(main) /\ Kept(main) /\ Lands(main)
  BY <1>1, <1>2, <1>3 DEF Wanted, Kept, Lands, Fits, Idle, Selecting
<1> QED BY <1>2, <1>4 DEF WinsInv

(* The last selection asked for is the one shown once all have landed, in       *)
(* whatever order they do: selectRuntimeThread looks again at what is wanted    *)
(* after its own switch, and the repair of the selection finds what is left.    *)
THEOREM LatestSelectionWins == Spec => []LatestWins
<1>1. Init => WinsInv
  BY InitWins
<1>2. IInv /\ WinsInv /\ [Next]_vars => WinsInv'
  BY NextKeepsWins
<1>3. IInv /\ WinsInv => LatestWins
  <2> SUFFICES ASSUME IInv, WinsInv, Rest, fails = 0, asked.thread # None, FewBeside
               PROVE  main = asked.thread
    BY DEF LatestWins, FewBeside
  <2>1. Wanted(asked.thread) /\ Kept(asked.thread) /\ Lands(asked.thread)
    BY DEF WinsInv
  <2>2. \A i \in Ids : ops[i] = Idle
    BY DEF Rest, Busy
  <2>3. pending = None /\ \A i \in Ids : ~Selecting(i)
    BY <2>2 DEF IInv, CallsOK, ValuesOK, Selecting, Idle
  <2>4. CASE main = slot
    <3>1. main \notin Known /\ asked.thread \in Known /\ asked.thread # None
      BY <2>1, <2>4, KnownThreads DEF IInv, Wanted
    <3>2. last[preferred] = asked.thread /\ preferred = Owner(asked.thread)
      BY <2>1, <3>1 DEF Kept, Fits, Wanted
    <3>3. Candidates(preferred) = {asked.thread}
      BY <3>1, <3>2 DEF Candidates, Of
    <3>4. RepairDue
      BY <2>1, <2>3, <3>1, <3>3 DEF RepairDue, MayRepair, Strayed, Repairs, Wanted, NoDraft
    <3> QED BY <3>4 DEF Rest
  <2> QED BY <2>1, <2>3, <2>4 DEF Lands
<1> QED BY <1>1, <1>2, <1>3, IInvHolds, PTL DEF Spec

-----------------------------------------------------------------------------
(* The draft asked for last.                                                  *)

Shows(a) ==
  /\ pending = None /\ preferred = a
  /\ \A i \in Ids : ops[i] = Idle \/ Drafting(i)
  /\ \/ ToBeMade(a)
     \/ chain = <<>> /\ (MadeFor(a) \/ Became(a))

(* While a draft is under way the one asked for last still is.                 *)
LEMMA StillToBeMade ==
  ASSUME IInv, NEW a, Shows(a), NEW i \in Ids, Drafting(i)
  PROVE  ToBeMade(a) /\ draft.op \in Ids
<1>1. chain # <<>>
  BY DEF IInv, ChainOK
<1>2. ToBeMade(a)
  BY <1>1 DEF Shows
<1> QED BY <1>2 DEF ToBeMade, IInv, ValuesOK

(* A draft's switch that lands shows the draft.                              *)
LEMMA DraftSwitchedShows ==
  ASSUME IInv, NEW a, Shows(a), NEW i \in Ids, DraftSwitched(i)
  PROVE  Shows(a)'
<1>1. Drafting(i) /\ ops[i].at = "queued" /\ ops[i] \in Call /\ making = None
  BY FirstDraft DEF DraftSwitched
<1>2. /\ ops'[i] = [ops[i] EXCEPT !.at = "reset", !.target = slot]
      /\ \A j \in Ids : j # i => ops'[j] = ops[j]
  BY DraftSwitchedKeeps
<1>3. ops'[i].kind = ops[i].kind /\ ops'[i].at = "reset" /\ ops'[i].agent = ops[i].agent
  BY <1>1, <1>2 DEF Call
<1>4. /\ main' = slot
      /\ UNCHANGED <<slot, making, madeFor, registry, chain, pending, draft, preferred>>
  BY DEF DraftSwitched, refs
<1>5. ToBeMade(a) /\ draft.op \in Ids
  BY <1>1, StillToBeMade
<1>6. \A j \in Ids : /\ ops'[j].kind = ops[j].kind /\ ops'[j].agent = ops[j].agent
                     /\ Drafting(j)' <=> Drafting(j)
                     /\ ops[j] = Idle => ops'[j] = Idle
  <2>1. ops[i] # Idle /\ (Drafting(i)' <=> Drafting(i))
    BY <1>1, <1>3 DEF Drafting, Idle
  <2>2. \A j \in Ids : j # i => (Drafting(j)' <=> Drafting(j))
    BY <1>2 DEF Drafting
  <2> QED BY <2>1, <2>2, <1>2, <1>3
<1>7. ToBeMade(a)'
  <2>1. Drafting(draft.op)'
    BY <1>4, <1>5, <1>6 DEF ToBeMade, Drafting
  <2> QED BY <2>1, <1>1, <1>4, <1>5, <1>6 DEF ToBeMade
<1>8. \A j \in Ids : ops'[j] = Idle \/ Drafting(j)'
  BY <1>6 DEF Shows
<1> QED BY <1>4, <1>7, <1>8 DEF Shows

(* A draft that is ready is shown.                                           *)
LEMMA DraftReadyShows ==
  ASSUME IInv, NEW a, Shows(a), NEW i \in Ids, DraftReady(i)
  PROVE  Shows(a)'
<1>1. /\ Drafting(i) /\ DraftCall(ops[i]) /\ chain[1] = i /\ making = None /\ ops[i].target = slot
      /\ ops[i].at = "reset" /\ registry' = [registry EXCEPT ![slot] = ops[i].agent]
  BY ReadyIs DEF DraftReady
<1>2. \A j \in Ids : j # i => ops'[j] = ops[j]
  BY ReadyIs
<1>3. /\ UNCHANGED <<main, slot, madeFor, pending, preferred>>
      /\ chain' = Tail(chain)
  BY DEF DraftReady
<1>4. ToBeMade(a) /\ draft.op \in Ids /\ slot \in Slots /\ slot # None /\ a \in Agents
  BY <1>1, StillToBeMade, Threads DEF IInv, ValuesOK, Shows
<1>5. CASE draft.op = i
  <2>1. main = slot /\ draft.agent = a /\ ops[i].agent = a
    BY <1>1, <1>4, <1>5 DEF ToBeMade
  <2>2. draft' = [draft EXCEPT !.id = slot]
    BY <2>1, <1>1, <1>5 DEF DraftReady, Published, StillWanted
  <2>3. draft'.id = slot /\ draft'.agent = a
    BY <2>1, <2>2 DEF IInv, ValuesOK
  <2>4. ops[i].kind = "interview" => MayKickoff(draft')
    BY <2>1, <2>3, <1>1, <1>4 DEF MayKickoff, DraftCall
  <2>5. ops'[i] = Idle
    BY <2>4 DEF DraftReady, IInv, CallsOK
  <2>6. registry'[slot] = a
    BY <1>1, <1>4, <2>1 DEF IInv, ValuesOK
  <2>7. making' \in {None, a}
    BY <2>1, <2>6, <1>1 DEF DraftReady
  <2>8. chain' = <<>>
    <3>1. i = chain[Len(chain)]
      BY <1>1, <1>5, Threads DEF IInv, DraftsInv
    <3>2. Head(chain) = i
      BY ReadyIs
    <3>3. ~Drafting(i)'
      BY <2>5 DEF Drafting, Idle
    <3> QED BY <3>1, <3>2, <3>3, <1>1, <1>2, <1>3, ChainShrinks DEF IInv
  <2>9. MadeFor(a)'
    BY <2>1, <2>3, <2>6, <2>7, <1>3, <1>4 DEF MadeFor
  <2>10. \A j \in Ids : ops'[j] = Idle \/ Drafting(j)'
    BY <2>5, <1>2 DEF Shows, Drafting
  <2> QED BY <2>8, <2>9, <2>10, <1>3 DEF Shows
<1>6. CASE draft.op # i
  <2>1. ops[i].kind = "draft" /\ draft.id = None
    BY <1>1, <1>4, <1>6 DEF ToBeMade, Drafting
  <2>2. draft' = draft /\ ops'[i] = Idle
    BY <2>1, <1>6, ReadyIs
  <2>3. making' = making
    BY <2>1, <2>2, <1>4, ReadyIs
  <2>4. Drafting(draft.op)'
    BY <2>2, <1>2, <1>4, <1>6 DEF ToBeMade, Drafting
  <2>5. \A j \in Ids : ops'[j].kind = "interview" => ops[j].kind = "interview"
    BY <2>2, <1>2 DEF Idle
  <2>6. ToBeMade(a)'
    BY <2>2, <2>3, <2>4, <2>5, <1>2, <1>3, <1>4, <1>6 DEF ToBeMade
  <2>7. \A j \in Ids : ops'[j] = Idle \/ Drafting(j)'
    BY <2>2, <1>2 DEF Shows, Drafting
  <2> QED BY <2>6, <2>7, <1>3 DEF Shows
<1> QED BY <1>5, <1>6

(* A draft is asked for while only drafts are under way.                       *)
LEMMA NewDraftShows ==
  ASSUME IInv, NEW a \in Agents, NEW kind \in {"draft", "interview"}, kind = "interview" => a = Creator,
         Asks(None, a), NewDraft(Free, a, kind), last' \in [Agents -> Known \cup {None}], OnlyDrafts'
  PROVE  Shows(a)'
<1>1. /\ Free \in Ids /\ ops[Free] = Idle /\ preferred' = a
      /\ asked'.beside = {<<i, ops[i].kind, ops[i].at>> : i \in Busy}
  BY FreeIsIdle DEF Asks
<1>2. /\ ops'[Free] = [kind |-> kind, at |-> "queued", target |-> None, agent |-> a]
      /\ \A j \in Ids : j # Free => ops'[j] = ops[j]
  BY <1>1 DEF NewDraft, IInv, CallsOK
<1>3. \A i \in Busy : ops[i].kind = "draft"
  <2>1. ASSUME NEW i \in Busy PROVE ops[i].kind = "draft"
    <3>1. <<i, ops[i].kind, ops[i].at>> \in asked'.beside
      BY <1>1
    <3> QED BY <3>1 DEF OnlyDrafts
  <2> QED BY <2>1
<1>4. pending' = None
  <2>1. ASSUME pending # None PROVE FALSE
    <3>1. pending \in Busy /\ ops[pending].kind = "select"
      BY <2>1 DEF IInv, CallsOK, ValuesOK, Selecting, Busy, Idle
    <3> QED BY <3>1, <1>3
  <2> QED BY <2>1 DEF NewDraft
<1>5. draft'.op = Free /\ draft'.agent = a /\ draft'.id = None /\ draft'.remote = None
  BY DEF NewDraft, NoDraft
<1>6. \A j \in Ids : (ops'[j] = Idle \/ Drafting(j)') /\ (ops'[j].kind = "interview" => j = Free)
  BY <1>2, <1>3 DEF Busy, Drafting, Idle
<1>7. Drafting(draft.op)'
  BY <1>2, <1>5 DEF Drafting
<1>8. ToBeMade(a)'
  BY <1>1, <1>2, <1>5, <1>6, <1>7, Threads DEF ToBeMade
<1> QED BY <1>1, <1>4, <1>6, <1>8 DEF Shows

(* A draft that becomes a thread keeps what is shown.                        *)
LEMMA InitializeShows ==
  ASSUME IInv, NEW a, Shows(a), Initialize
  PROVE  Shows(a)'
<1>1. /\ slot \in Slots /\ making \in Agents /\ making # None /\ making' = None
      /\ Made' = Made \cup {slot} /\ madeFor'[slot] = making
      /\ \A k \in Made : madeFor'[k] = madeFor[k]
      /\ UNCHANGED <<main, registry, chain, refs, preferred, ops>>
  BY InitializeIs, Threads DEF IInv, ValuesOK
<1>2. ToBeMade(a) => ToBeMade(a)'
  <2>1. draft.op \in Ids \cup {None}
    BY DEF IInv, ValuesOK
  <2>2. Drafting(draft.op)' <=> Drafting(draft.op)
    BY <1>1 DEF refs, Drafting
  <2> QED BY <1>1, <2>2 DEF ToBeMade, refs
<1>3. MadeFor(a) => MadeFor(a)'
  BY <1>1 DEF MadeFor, refs
<1>4. Became(a) => Became(a)'
  BY <1>1 DEF Became, refs
<1>5. \A j \in Ids : ops'[j] = Idle \/ Drafting(j)'
  BY <1>1 DEF Shows, Drafting
<1> QED BY <1>1, <1>2, <1>3, <1>4, <1>5 DEF Shows, refs

(* Sending and remembering keep the draft shown.                             *)
LEMMA EffectShows ==
  ASSUME IInv, NEW a, Shows(a), Send \/ Promoted \/ Owned \/ Remember
  PROVE  Shows(a)'
<1>1. /\ UNCHANGED <<main, slot, madeFor, registry, chain, pending, ops>>
      /\ Made' = Made
  BY DEF Send, Promoted, Owned, Remember, library, refs, Made
<1>2. \A j \in Ids : ops'[j] = Idle \/ Drafting(j)'
  BY <1>1 DEF Shows, Drafting
<1>3. main # None /\ slot \notin Made
  BY KnownThreads, Threads DEF IInv, ValuesOK, Known
<1>4. CASE Send
  <2>1. draft.id # None /\ making' = registry[main] /\ UNCHANGED <<draft, preferred>>
    BY <1>4 DEF Send, ShowsDraft, refs
  <2>2. chain = <<>> /\ MadeFor(a)
    BY <2>1 DEF Shows, ToBeMade, Became, NoDraft
  <2>3. MadeFor(a)'
    BY <2>1, <2>2, <1>1 DEF MadeFor
  <2> QED BY <1>1, <1>2, <2>1, <2>2, <2>3 DEF Shows
<1>5. CASE Promoted
  <2>1. /\ main = draft.id /\ preferred' = draft.agent /\ making' = making
        /\ draft' = [draft EXCEPT !.remote = main, !.op = None]
    BY <1>5 DEF Promoted, PromotionDue, library
  <2>2. chain = <<>> /\ MadeFor(a)
    BY <2>1, <1>3 DEF Shows, ToBeMade, Became, NoDraft
  <2>3. draft'.id = draft.id /\ draft'.agent = draft.agent
    BY <2>1 DEF IInv, ValuesOK
  <2>4. MadeFor(a)'
    BY <2>1, <2>2, <2>3, <1>1 DEF MadeFor
  <2> QED BY <1>1, <1>2, <2>1, <2>2, <2>4 DEF Shows, MadeFor
<1>6. CASE Owned
  <2>1. draft.id # None /\ main \in Made /\ draft' = NoDraft /\ UNCHANGED <<making, preferred>>
    BY <1>6 DEF Owned, OwnershipDue, library
  <2>2. chain = <<>> /\ MadeFor(a)
    BY <2>1 DEF Shows, ToBeMade, Became, NoDraft
  <2>3. Became(a)'
    BY <2>1, <2>2, <1>1, <1>3 DEF MadeFor, Became
  <2> QED BY <1>1, <1>2, <2>1, <2>2, <2>3 DEF Shows
<1>7. CASE Remember
  <2>1. UNCHANGED <<draft, making, preferred>>
    BY <1>7 DEF Remember, library, refs
  <2>2. Drafting(draft.op)' <=> Drafting(draft.op)
    BY <2>1, <1>1 DEF Drafting
  <2> QED BY <2>1, <2>2, <1>1, <1>2 DEF Shows, ToBeMade, MadeFor, Became
<1> QED BY <1>4, <1>5, <1>6, <1>7

(* The repair stays off.                                                      *)
LEMMA NoRepairOfADraft ==
  ASSUME IInv, NEW a, Shows(a)
  PROVE  ~RepairDue
<1>1. a \in Agents /\ a # None
  BY Threads DEF Shows, IInv, ValuesOK
<1>2. ASSUME draft.agent = None PROVE main \in Known /\ Owner(main) = preferred
  <2>1. Became(a)
    BY <1>1, <1>2 DEF Shows, ToBeMade, MadeFor
  <2> QED BY <2>1 DEF Became, Known, Owner, Shows
<1> QED BY <1>2 DEF RepairDue, MayRepair, Strayed

(* Every step keeps the draft shown, or its repair due.                      *)
LEMMA NextKeepsShown ==
  ASSUME IInv, ShownInv, [Next]_vars
  PROVE  ShownInv'
<1> SUFFICES ASSUME fails' = 0, asked'.thread = None, OnlyDrafts'
             PROVE  Shows(asked.agent)'
  BY DEF ShownInv, Shows
<1>1. PICK a : a = asked'.agent
  OBVIOUS
<1>2. SUFFICES Shows(a)'
  BY <1>1 DEF Shows, ToBeMade, MadeFor, Became
<1>3. CASE Asking
  <2>1. \A u, b : Asks(u, b) => asked'.thread = u /\ asked'.agent = b
    BY DEF Asks
  <2>2. ASSUME NEW u \in Known, OpenSession(u) PROVE FALSE
    BY <2>1, <2>2, KnownThreads DEF OpenSession, IInv
  <2>3. ASSUME NEW b \in Agents, CreateSession(b) PROVE Shows(a)'
    <3>1. b = a
      BY <1>1, <2>1, <2>3 DEF CreateSession
    <3>2. last' \in [Agents -> Known \cup {None}]
      BY <2>3 DEF CreateSession, IInv, ValuesOK
    <3>3. Asks(None, a) /\ NewDraft(Free, a, "draft") /\ a \in Agents
      BY <2>3, <3>1 DEF CreateSession
    <3> QED BY <3>2, <3>3, NewDraftShows
  <2>4. ASSUME OpenAgentBuilder PROVE Shows(a)'
    <3>1. a = Creator /\ a \in Agents
      BY <1>1, <2>1, <2>4 DEF OpenAgentBuilder, Agents
    <3>2. last' \in [Agents -> Known \cup {None}]
      BY <2>4 DEF OpenAgentBuilder, IInv, ValuesOK
    <3>3. Asks(None, a) /\ NewDraft(Free, a, "interview")
      BY <2>4, <3>1 DEF OpenAgentBuilder
    <3> QED BY <3>1, <3>2, <3>3, NewDraftShows
  <2> QED BY <1>3, <2>2, <2>3, <2>4 DEF Asking
<1>4. CASE ~Asking /\ asked' = asked /\ fails = 0
  <2>1. Shows(a)
    BY <1>1, <1>4 DEF ShownInv, Shows, OnlyDrafts
  <2>2. CASE \E i \in Ids : Goes(i)
    <3>1. PICK i \in Ids : Goes(i)
      BY <2>2
    <3>2. ~Bounce(i) /\ ~Switched(i)
      BY <2>1 DEF Bounce, Switched, Shows, Idle, Drafting
    <3> QED BY <3>1, <3>2, <2>1, DraftSwitchedShows, DraftReadyShows DEF Goes
  <2>3. CASE Repairing
    <3>1. ~Repair(Free)
      BY <2>1, NoRepairOfADraft DEF Repair
    <3> QED BY <2>1, <2>3, <3>1, EffectShows DEF Repairing
  <2>4. CASE Initialize \/ Send
    BY <2>1, <2>4, InitializeShows, EffectShows
  <2>5. CASE UNCHANGED vars
    BY <2>1, <2>5 DEF vars, library, refs, Shows, ToBeMade, MadeFor, Became, Drafting, Made
  <2>6. \A i \in Ids : ~SwitchFails(i) /\ ~DraftFails(i)
    BY <1>4 DEF SwitchFails, DraftFails
  <2> QED BY <1>4, <2>2, <2>3, <2>4, <2>5, <2>6 DEF Next
<1>5. Asking \/ (asked' = asked /\ fails = 0)
  <2>1. fails \in Nat
    BY DEF IInv, ValuesOK
  <2>2. fails' = fails \/ fails' = fails + 1
    BY DEF Next, vars, Asking, OpenSession, CreateSession, OpenAgentBuilder, Asks, Send, Initialize,
           Repairing, Repair, Remember, Promoted, Owned, Goes, Switched, DraftSwitched, DraftReady, Bounce,
           SwitchFails, DraftFails
  <2>3. Asking \/ asked' = asked
    BY DEF Next, vars, Send, Initialize,
           Repairing, Repair, Remember, Promoted, Owned, Goes, Switched, DraftSwitched, DraftReady, Bounce,
           SwitchFails, DraftFails
  <2> QED BY <2>1, <2>2, <2>3
<1> QED BY <1>3, <1>4, <1>5

(* The draft asked for last is shown as its Agent's, or is a Session of it, once *)
(* all is at rest, when only drafts were under way: switchToNewThread keeps the  *)
(* last one wanted, publishDraft shows it and the repair leaves it alone.        *)
THEOREM LatestDraftIsShown == Spec => []DraftIsShown
<1>1. Init => ShownInv
  <2>1. Init => main # None
    BY Threads DEF Init
  <2> QED BY <2>1 DEF Init, ShownInv
<1>2. IInv /\ ShownInv /\ [Next]_vars => ShownInv'
  BY NextKeepsShown
<1>3. IInv /\ ShownInv => DraftIsShown
  <2> SUFFICES ASSUME IInv, ShownInv, Rest, fails = 0, asked.thread = None, OnlyDrafts
               PROVE  \/ ShowsDraft /\ draft.agent = asked.agent
                      \/ main \in Made /\ Owner(main) = asked.agent
    BY DEF DraftIsShown, OnlyDrafts
  <2>1. Shows(asked.agent)
    BY DEF ShownInv, Shows
  <2>2. \A i \in Ids : ~Drafting(i)
    BY DEF Rest, Busy, Drafting, Idle
  <2>3. MadeFor(asked.agent) \/ Became(asked.agent)
    BY <2>1, <2>2 DEF Shows, ToBeMade, IInv, ValuesOK
  <2>4. main # None
    BY KnownThreads, Threads DEF IInv, ValuesOK
  <2> QED BY <2>1, <2>3, <2>4 DEF Shows, MadeFor, Became, ShowsDraft, Owner
<1> QED BY <1>1, <1>2, <1>3, IInvHolds, PTL DEF Spec
=============================================================================
