---------------------------- MODULE TurnProjection ---------------------------
(* How `session-projector.ts` groups a Session's messages into turns and      *)
(* which status each shows, in two views of one Session: `live` watched it    *)
(* from the start, `view` joins, drops and rejoins, each time rebuilt from a   *)
(* replay. A replay is one step: the thread tells nobody before it settles.   *)
EXTENDS Naturals, Sequences, FiniteSetsExt

CONSTANTS MaxTurns, MaxReplies, \* turns, and replies of one turn
          MaxAsides,            \* notices, compactions and refusals
          ShownFirst            \* no replay finds a run that wrote nothing yet

ASSUME TurnAssumption ==
  MaxTurns \in Nat /\ MaxReplies \in Nat /\ MaxAsides \in Nat /\ ShownFirst \in BOOLEAN

VARIABLES
  turns,      \* external: the Session's turns, in order
  live, view, \* the two projections
  linked,     \* `view` receives updates
  asides

vars == <<turns, live, view, linked, asides>>

None == <<>>
User(t) == <<"user", t, 0>>
Reply(t, k) == <<"reply", t, k>>
Host(t) == <<"host", t, 0>>          \* requestHostId of the run's turn
Refused == Host(0)                   \* and of a failure with no reply to read on
Divider(t) == <<"divider", t, 0>>    \* requestHostId of a compaction
Notice == <<"notice", 0, 0>>
Text == <<"text", 0, 0>>
Stored(id) == id[1] = "reply"

Initial == [msgs |-> <<>>, exec |-> "idle", run |-> 0, reported |-> FALSE,
            active |-> None, streamed |-> 0]

-----------------------------------------------------------------------------
(* Messages.                                                                 *)

Has(p, id) == \E i \in DOMAIN p.msgs : p.msgs[i].id = id
Active(p) == IF p.active # None /\ Has(p, p.active) THEN p.active ELSE None
Last(msgs) == msgs[Len(msgs)]
LastReply(p) ==
  LET replies == {i \in DOMAIN p.msgs : p.msgs[i].role = "reply"} IN
  IF replies = {} THEN None ELSE p.msgs[Max(replies)].id
RoleBefore(msgs, id) ==
  LET at == {i \in DOMAIN msgs : msgs[i].id = id}
      before == IF at = {} THEN Len(msgs) ELSE (CHOOSE i \in at : TRUE) - 1 IN
  IF before = 0 THEN "none" ELSE msgs[before].role
Each(p, Change(_)) == [p EXCEPT !.msgs = [i \in DOMAIN @ |-> Change(@[i])]]

WithStatus(p, id, status) ==
  Each(p, LAMBDA m : IF m.id = id THEN [m EXCEPT !.status = status] ELSE m)

(* The host a fresh reply takes over: the run's own, while nothing was written *)
(* into it, or outside a run the compaction the transcript ends on.           *)
IsHost(id) == id[1] \in {"host", "divider"}
EmptyHost(p) ==
  LET Held(id, hosted) ==
        IF IsHost(id) /\ \E i \in DOMAIN p.msgs :
             p.msgs[i].id = id /\ \A part \in p.msgs[i].parts : part[1] \in hosted
        THEN id ELSE None IN
  IF p.active # None THEN Held(p.active, {"divider", "notice"})
  ELSE IF p.exec = "running" \/ p.msgs = <<>> THEN None
  ELSE Held(Last(p.msgs).id, {"divider"})

UnpromptedNever(p, prior, msgs, id) == FALSE
Unprompted(p, prior, msgs, id) == prior = None /\ RoleBefore(msgs, id) = "reply"

(* A patch adds parts, opens a turn or sets a status. *)
NoPatch == [parts |-> {}, opens |-> FALSE, status |-> "same"]
Patched(m, patch) ==
  [m EXCEPT !.parts = @ \cup patch.parts, !.opens = @ \/ patch.opens,
            !.status = IF patch.status = "same" THEN @ ELSE patch.status]

(* onMessage: a fresh reply takes over an empty host (`named`); a running run  *)
(* moves on from the turn it had open (`prior`) to a reply it creates, which is *)
(* born running; then the message is created or patched.                     *)
Renamed(p, host, id) ==
  IF host = None THEN p
  ELSE Each(p, LAMBDA m : IF m.id = host THEN [m EXCEPT !.id = id] ELSE m)
MovedOn(p, prior) == IF prior = None THEN p ELSE WithStatus(p, prior, "complete")
Opening(m, opened, unprompted) ==
  IF opened THEN [m EXCEPT !.status = "running", !.opens = @ \/ unprompted] ELSE m
Created(p, id, role) ==
  IF Has(p, id) THEN p
  ELSE [p EXCEPT !.msgs = Append(@, [id |-> id, role |-> role, status |-> "none",
                                     opens |-> FALSE, parts |-> {}])]
Placed(p, named, prior, opened, id, role, patch) ==
  Each(Created(MovedOn(named, prior), id, role), LAMBDA m :
    IF m.id = id
    THEN Patched(Opening(m, opened, Unprompted(p, prior, named.msgs, id)), patch) ELSE m)
Activated(p, id, opens) == IF opens THEN [p EXCEPT !.active = id] ELSE p

OnMessage(p, id, role, patch) ==
  LET fresh == role = "reply" /\ ~Has(p, id)
      opened == fresh /\ p.exec = "running"
      host == IF fresh THEN EmptyHost(p) ELSE None
      Messages(named) ==
        Placed(p, named, IF opened THEN Active(named) ELSE None, opened, id, role, patch)
  IN Activated(Messages(Renamed(p, host, id)), id, opened \/ (host # None /\ host = p.active))

Put(p, id, part) == OnMessage(p, id, "reply", [NoPatch EXCEPT !.parts = {part}])

-----------------------------------------------------------------------------
(* States of the run. An update names its turn; `dated` is the moment a live  *)
(* run carries and a resumed one may lack.                                   *)

Ongoing(p) == p.exec \in {"running", "waiting"}
Reported(p, t) == p.exec = "running" /\ p.run = t /\ p.reported

(* answered: the turn that waited is live again.                             *)
Answered(p) ==
  LET id == Active(p) IN
  Each(p, LAMBDA m : IF m.id = id /\ m.status = "waiting"
                     THEN [m EXCEPT !.status = "running"] ELSE m)

(* resumed and announced: the transcript ends on this run's turn.            *)
Reopens(p) == p.msgs # <<>> /\ Last(p.msgs).role = "reply"
Reopen(p) ==
  IF ~Reopens(p) THEN p
  ELSE [WithStatus(p, Last(p.msgs).id, "running") EXCEPT !.active = Last(p.msgs).id]

AnnouncedNever(p, t) == FALSE
AnnouncedAlways(p, t) == TRUE
Announced(p, t) == p.streamed = t
ApplyRunning(p, t, dated) ==
  LET running == [p EXCEPT !.exec = "running", !.run = t, !.reported = Reported(p, t)] IN
  IF p.exec = "waiting" THEN Answered(running)
  ELSE IF ~dated THEN IF Ongoing(p) \/ Active(p) # None THEN running ELSE Reopen(running)
  ELSE IF Announced(p, t) THEN Reopen(running) ELSE running

(* A failure of a run that goes on until it is stopped.                      *)
ApplyRunningFailure(p, t) ==
  LET id == IF Active(p) = None THEN Host(t) ELSE Active(p)
      failing == [p EXCEPT !.exec = "running", !.run = t, !.reported = TRUE] IN
  [OnMessage(failing, id, "reply", [NoPatch EXCEPT !.status = "failed"])
     EXCEPT !.active = id]

(* A wait: asked by the run this view watches, or replayed.                  *)
WaitHost(p, t) ==
  IF Active(p) # None THEN Active(p)
  ELSE IF p.exec # "running" /\ LastReply(p) # None THEN LastReply(p) ELSE Host(t)
ApplyWait(p, t) ==
  LET id == WaitHost(p, t)
      blocked == [p EXCEPT !.exec = "waiting", !.run = t, !.reported = FALSE] IN
  [OnMessage(blocked, id, "reply", [NoPatch EXCEPT !.status = "waiting"])
     EXCEPT !.active = id]

(* The run settles, and with it the turn it has open.                        *)
SettledAsTold(p, t, how) == how
SettledAs(p, t, how) == IF Reported(p, t) THEN "failed" ELSE how
ApplyIdle(p, t, how) ==
  LET status == SettledAs(p, t, how) IN
  [WithStatus(p, Active(p), status)
     EXCEPT !.exec = IF status = "failed" THEN "failed" ELSE "idle",
            !.run = t, !.reported = FALSE, !.active = None]

(* resumeWait: the last request was answered here or elsewhere.              *)
ResumeWait(p) ==
  IF p.exec = "waiting" THEN Answered([p EXCEPT !.exec = "running"]) ELSE p

(* applyCompaction: in its place in the run's turn, or on a host of its own.  *)
HasPart(p, t) == \E i \in DOMAIN p.msgs : Divider(t) \in p.msgs[i].parts
ApplyCompaction(p, t) ==
  IF HasPart(p, t) THEN p
  ELSE Put(p, IF Active(p) # None THEN Active(p)
              ELSE IF p.exec = "running" THEN Host(t)
              ELSE IF Reopens(p) THEN Last(p.msgs).id ELSE Divider(t), Divider(t))
ApplyNotice(p) ==
  Put(p, IF p.exec = "running" THEN (IF Active(p) # None THEN Active(p) ELSE Host(p.run))
         ELSE IF LastReply(p) # None THEN LastReply(p) ELSE Notice, Notice)

-----------------------------------------------------------------------------
(* Updates, and settleKind: a state forgets the turn that streamed, anything  *)
(* else of a turn no run is known for notes it.                              *)

Update(kind, t) == [kind |-> kind, turn |-> t, id |-> None, opens |-> FALSE, from |-> t]
Said(id, opens, from) ==
  [kind |-> "said", turn |-> id[2], id |-> id, opens |-> opens, from |-> from]

States == {"running", "restated", "failing", "waiting", "complete", "stopped", "failed"}
Kind(p, u) ==
  CASE u.kind = "asked" -> OnMessage(p, User(u.turn), "user", NoPatch)
    [] u.kind = "said" -> OnMessage(p, u.id, "reply",
                              [NoPatch EXCEPT !.parts = {Text}, !.opens = u.opens])
    [] u.kind = "compaction" -> ApplyCompaction(p, u.turn)
    [] u.kind = "notice" -> ApplyNotice(p)
    [] u.kind = "answered" -> ResumeWait(p)
    [] u.kind = "running" -> ApplyRunning(p, u.turn, TRUE)
    [] u.kind = "restated" -> ApplyRunning(p, u.turn, FALSE)
    [] u.kind = "failing" -> ApplyRunningFailure(p, u.turn)
    [] u.kind = "waiting" -> ApplyWait(p, u.turn)
    [] OTHER -> ApplyIdle(p, u.turn, u.kind)
Noted(p, next, u) ==
  IF u.kind \in States THEN [next EXCEPT !.streamed = 0]
  ELSE IF next.msgs = p.msgs \/ Ongoing(next) \/ u.from = 0 THEN next
  ELSE [next EXCEPT !.streamed = u.from]
Apply(p, u) == Noted(p, Kind(p, u), u)

(* clearTranscript: the Session's own state stays.                           *)
Cleared(p) == [p EXCEPT !.msgs = <<>>, !.active = None]

(* failLatestTurn: a refusal, or a run that failed before it wrote, reads on the *)
(* latest reply ("laid": an error not its own) unless that one waits.         *)
ReadsOn(p) == IF LastReply(p) = None THEN Refused ELSE LastReply(p)
FailLatest(p) ==
  IF \E i \in DOMAIN p.msgs : p.msgs[i].id = ReadsOn(p) /\ p.msgs[i].status = "waiting"
  THEN p ELSE OnMessage(p, ReadsOn(p), "reply", [NoPatch EXCEPT !.status = "laid"])

(* failedWithoutReply: what a thread that hears an update makes of it.        *)
FailedWithoutReply(p, next) == Ongoing(p) /\ Active(p) = None /\ next.exec = "failed"
Heard(p, u) ==
  LET next == Apply(p, u) IN
  IF FailedWithoutReply(p, next) THEN FailLatest(next) ELSE next

-----------------------------------------------------------------------------
(* The Session, external. `compacted` is how many replies came before.       *)

Turn == [own : BOOLEAN, phase : {"asked", "running", "waiting", "ended"},
         how : {"complete", "stopped", "failed"}, wrote : 0..MaxReplies,
         compacted : 0..MaxReplies + 1, reported : BOOLEAN]
NoCompaction == MaxReplies + 1
NewTurn(own, phase) == [own |-> own, phase |-> phase, how |-> "complete", wrote |-> 0,
                        compacted |-> NoCompaction, reported |-> FALSE]

(* What a turn left in the provider's history, `from` naming the turn its     *)
(* updates carry (0 for history's own): its replies, and the compaction after  *)
(* as many as came before it. The reply that opens a turn nobody prompted says *)
(* so in a replay.                                                            *)
Compacted(p, t, k, from) ==
  IF turns[t].compacted = k THEN Apply(p, [Update("compaction", t) EXCEPT !.from = from]) ELSE p
Content(p, t, from) ==
  LET after[k \in 0..turns[t].wrote] ==
        Compacted(IF k = 0 THEN p
                  ELSE Apply(after[k - 1], Said(Reply(t, k), turns[t].own /\ k = 1, from)),
                  t, k, from)
  IN after[turns[t].wrote]
Prompt(p, t) == IF turns[t].own THEN p ELSE Apply(p, [Update("asked", t) EXCEPT !.from = 0])
UnderWay(t) == turns[t].phase \in {"running", "waiting"}

(* Stored messages without run states, then what the run under way streamed.  *)
Plain(p, t) == Content(Prompt(p, t), t, IF UnderWay(t) THEN t ELSE 0)
(* Or every turn bracketed by its states, the one under way closed as well.   *)
Bracketed(p, t) ==
  IF turns[t].phase = "asked" \/ (UnderWay(t) /\ turns[t].wrote = 0) THEN Prompt(p, t)
  ELSE Apply(Content(Apply(Prompt(p, t), Update("running", t)), t, 0),
             Update(IF UnderWay(t) THEN "complete" ELSE turns[t].how, t))
(* Either ends with the state the Session is in.                             *)
Restated(p, dated) ==
  LET t == Len(turns)
      settled == {i \in 1..t : turns[i].phase = "ended"} IN
  IF t > 0 /\ turns[t].phase = "waiting" THEN Apply(p, Update("waiting", t))
  ELSE IF t > 0 /\ turns[t].phase = "running"
       THEN Apply(p, Update(IF turns[t].reported THEN "failing"
                            ELSE IF dated THEN "running" ELSE "restated", t))
  ELSE IF settled = {} THEN p
  ELSE Apply(p, Update(turns[Max(settled)].how, Max(settled)))
Replayed(p, bracketed) ==
  LET after[t \in 0..Len(turns)] ==
        IF t = 0 THEN p
        ELSE IF bracketed THEN Bracketed(after[t - 1], t) ELSE Plain(after[t - 1], t)
  IN Restated(after[Len(turns)], ~bracketed)

-----------------------------------------------------------------------------
Init ==
  /\ turns = <<>> /\ live = Initial /\ view = Initial /\ linked = TRUE /\ asides = 0

Tell(u) ==
  /\ live' = Heard(live, u)
  /\ view' = IF linked THEN Heard(view, u) ELSE view
  /\ UNCHANGED linked

Latest == turns[Len(turns)]
AtRest == turns # <<>> => Latest.phase = "ended"
Now(phase) == turns # <<>> /\ Latest.phase = phase
Under == turns # <<>> /\ UnderWay(Len(turns))
Change(turn) == turns' = [turns EXCEPT ![Len(turns)] = turn]

Ask ==
  /\ AtRest /\ Len(turns) < MaxTurns
  /\ turns' = Append(turns, NewTurn(FALSE, "asked"))
  /\ Tell(Update("asked", Len(turns) + 1)) /\ UNCHANGED asides
Begin ==
  /\ \/ Now("asked") /\ Change([Latest EXCEPT !.phase = "running"])
     \/ AtRest /\ Len(turns) < MaxTurns /\ turns' = Append(turns, NewTurn(TRUE, "running"))
  /\ Tell(Update("running", Len(turns'))) /\ UNCHANGED asides
Write ==
  /\ Now("running") /\ ~Latest.reported /\ Latest.wrote < MaxReplies
  /\ Change([Latest EXCEPT !.wrote = @ + 1])
  /\ Tell(Said(Reply(Len(turns), Latest.wrote + 1), FALSE, Len(turns)))
  /\ UNCHANGED asides
Compact ==
  /\ Now("running") /\ ~Latest.reported /\ Latest.compacted = NoCompaction
  /\ asides < MaxAsides /\ asides' = asides + 1
  /\ Change([Latest EXCEPT !.compacted = Latest.wrote])
  /\ Tell(Update("compaction", Len(turns)))
Notify ==
  /\ asides < MaxAsides /\ asides' = asides + 1
  /\ Tell([Update("notice", Len(turns)) EXCEPT !.from = 0]) /\ UNCHANGED turns
(* A run nobody prompted asks only once it wrote (see README, Findings).       *)
Wait ==
  /\ Now("running") /\ ~Latest.reported
  /\ Latest.own => Latest.wrote > 0
  /\ Change([Latest EXCEPT !.phase = "waiting"])
  /\ Tell(Update("waiting", Len(turns))) /\ UNCHANGED asides
Resume ==
  /\ Now("waiting") /\ Change([Latest EXCEPT !.phase = "running"])
  /\ Tell([Update("answered", Len(turns)) EXCEPT !.from = 0]) /\ UNCHANGED asides
Restate ==
  /\ Now("running") /\ ~Latest.reported
  /\ Tell(Update("running", Len(turns))) /\ UNCHANGED <<turns, asides>>
Report ==
  /\ Now("running") /\ ~Latest.reported
  /\ Change([Latest EXCEPT !.reported = TRUE, !.how = "failed"])
  /\ Tell(Update("failing", Len(turns))) /\ UNCHANGED asides
End ==
  /\ Under
  /\ \E how \in IF Latest.reported THEN {"stopped"} ELSE {"complete", "stopped", "failed"} :
       /\ Change([Latest EXCEPT !.phase = "ended",
                                !.how = IF Latest.reported THEN "failed" ELSE how])
       /\ Tell(Update(how, Len(turns)))
  /\ UNCHANGED asides

(* Nobody reads the view that is gone, so what a replay clears goes at once.  *)
Drop ==
  /\ linked /\ linked' = FALSE /\ view' = Cleared(view)
  /\ UNCHANGED <<turns, live, asides>>

(* No replay finds a run that has written nothing yet, nor does a view whose  *)
(* run was under way return to a run that wrote nothing or waits no longer.   *)
Shown ==
  /\ Under => Latest.wrote > 0
  /\ Ongoing(view) => \A t \in DOMAIN turns : turns[t].phase # "asked" => turns[t].wrote > 0
  /\ view.exec = "waiting" => ~Now("running")
Rejoin ==
  /\ ~linked /\ linked' = TRUE /\ (ShownFirst => Shown)
  /\ \E from \in {Initial, view}, bracketed \in BOOLEAN :
       view' = Replayed(from, bracketed)
  /\ UNCHANGED <<turns, live, asides>>

(* refuse: the prompt of one of the threads is not taken; the same once more   *)
(* after the reload (Drop and Rejoin) of a run that failed before it wrote.    *)
Refuse ==
  /\ asides < MaxAsides /\ asides' = asides + 1
  /\ \/ live' = FailLatest(live) /\ UNCHANGED view
     \/ linked /\ view' = FailLatest(view) /\ UNCHANGED live
  /\ UNCHANGED <<turns, linked>>

Next == Ask \/ Begin \/ Write \/ Compact \/ Notify \/ Wait \/ Resume \/ Restate
          \/ Report \/ End \/ Drop \/ Rejoin \/ Refuse
Spec == Init /\ [][Next]_vars

-----------------------------------------------------------------------------
(* Properties.                                                               *)

Statuses == {"none", "running", "waiting", "complete", "stopped", "failed", "laid"}
Projection(p) ==
  /\ p.exec \in {"idle", "running", "waiting", "failed"} /\ p.reported \in BOOLEAN
  /\ p.run \in 0..MaxTurns /\ p.streamed \in 0..MaxTurns
  /\ \A i \in DOMAIN p.msgs : /\ p.msgs[i].role \in {"user", "reply"}
                              /\ p.msgs[i].status \in Statuses
                              /\ p.msgs[i].opens \in BOOLEAN
  /\ \A i, j \in DOMAIN p.msgs : p.msgs[i].id = p.msgs[j].id => i = j
  /\ p.active = None \/ Has(p, p.active)

(* The types, that no view shows a message twice, and that the turn a run has  *)
(* open is one the view shows.                                               *)
TypeOK ==
  /\ turns \in Seq(Turn) /\ Len(turns) <= MaxTurns /\ linked \in BOOLEAN
  /\ asides \in 0..MaxAsides /\ Projection(live) /\ Projection(view)

(* turnsOf: each prompt alone, the replies between two prompts as one turn, save *)
(* that a message which opens a turn of its own starts one. A turn is its first *)
(* and its last message; merged: it reads as the last.                        *)
Starts(p, i) ==
  p.msgs[i].role = "user" \/ i = 1 \/ p.msgs[i].opens \/ p.msgs[i - 1].role = "user"
TurnsOf(p) ==
  {turn \in (DOMAIN p.msgs) \X (DOMAIN p.msgs) :
     /\ turn[1] <= turn[2] /\ Starts(p, turn[1])
     /\ \A k \in turn[1] + 1..turn[2] : ~Starts(p, k)
     /\ turn[2] < Len(p.msgs) => Starts(p, turn[2] + 1)}
IdsOf(p, turn) == {p.msgs[k].id : k \in turn[1]..turn[2]}
StoredOf(p, turn) == {id \in IdsOf(p, turn) : Stored(id)}
Reads(p, turn) == p.msgs[turn[2]].status

(* A turn reads running or waiting only while the run does, and it is that run's *)
(* own: a run that starts never re-opens the finished turn behind it.         *)
OpenFor(p) == \A turn \in TurnsOf(p) :
  Reads(p, turn) \in {"running", "waiting"} =>
    /\ Ongoing(p) /\ Active(p) \in IdsOf(p, turn)
    /\ \A id \in StoredOf(p, turn) : id[2] = p.run
OnlyTheRunIsOpen == OpenFor(live) /\ (linked => OpenFor(view))

(* The Session and the turn of a run that wrote read as under way (waiting, or   *)
(* failed once it said so) in both views, however the view joined it. Except for *)
(* "laid": a prompt refused while it runs lays its failure on that turn.      *)
RunReads(p) ==
  Under /\ Latest.wrote > 0 =>
    /\ p.run = Len(turns) /\ Ongoing(p)
    /\ \E turn \in TurnsOf(p) :
         /\ {Reply(Len(turns), Latest.wrote), Host(Len(turns))} \cap IdsOf(p, turn) # {}
         /\ Reads(p, turn) \in {"laid", IF Latest.reported THEN "failed" ELSE Latest.phase}
RunReadsOpen == RunReads(live) /\ (linked => RunReads(view))

(* A turn reads as it ended, a failure it reported first outliving the stop; in a *)
(* view rebuilt from history never as another turn's end. Except for "laid": a   *)
(* refused prompt, and a later run that failed before it wrote, lay their error  *)
(* on the latest reply (failLatestTurn), and so on a turn that ended well.     *)
TurnKeepsItsEnd ==
  \A t \in DOMAIN turns : turns[t].phase = "ended" /\ turns[t].wrote > 0 =>
    /\ \A turn \in TurnsOf(live) :
         Reply(t, turns[t].wrote) \in IdsOf(live, turn) =>
           Reads(live, turn) \in {"laid", turns[t].how}
    /\ linked => \A turn \in TurnsOf(view) :
         Reply(t, turns[t].wrote) \in IdsOf(view, turn) =>
           Reads(view, turn) \in {"none", "complete", "laid", turns[t].how}

(* A view rebuilt from a replay groups the same messages into the same turns as  *)
(* the one that watched them come.                                           *)
Split(p) == {StoredOf(p, turn) : turn \in TurnsOf(p)} \ {{}}
GroupsAgree == linked => Split(live) = Split(view)
=============================================================================
