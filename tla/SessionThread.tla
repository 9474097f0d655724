--------------------------- MODULE SessionThread ---------------------------
(***************************************************************************)
(* The transcript one mounted thread shows of its Session:                 *)
(* createAcpController in use-acp-runtime.ts over the projector's row      *)
(* operations in session-projector.ts.  A thread binds the Session, which  *)
(* replays it from the start; sends prompts, some of which rewind it; and  *)
(* reads older pages ahead of what the replay brought.                     *)
(*                                                                         *)
(* The connection and the gateway behind it are external: an ordered       *)
(* stream of updates, replies that race it, and a link that drops.  A turn *)
(* is a number; its prompt is a user row and what it answered a reply row, *)
(* which only counts the parts projected into it.                          *)
(***************************************************************************)
EXTENDS Integers, SequencesExt

CONSTANTS
  History,     \* turns the Session holds when the thread opens
  PageSize,    \* turns in the newest page and in an older one
  MaxPrompts,  \* prompts the operator sends
  MaxParts,    \* parts a reply streams
  MaxLoads,    \* older pages the reader asks for
  MaxBreaks,   \* times the link drops or the thread unmounts
  MayGo,       \* whether the provider may lose the Session
  InOrder      \* whether a prompt's echo, its reply and its run come in order

ASSUME ThreadAssumption ==
  /\ {History, MaxPrompts, MaxLoads, MaxBreaks} \subseteq Nat
  /\ {PageSize, MaxParts} \subseteq Nat \ {0}
  /\ {MayGo, InOrder} \subseteq BOOLEAN

Turn   == 1..(History + MaxPrompts)
Prompt == 1..MaxPrompts
Load   == 1..MaxLoads

User(n)  == <<"user", n>>
Reply(n) == <<"reply", n>>
Local(p) == <<"local", p>>      \* a prompt the provider has not echoed
Host     == <<"host", 0>>       \* the turn a failure reads on when none does
None     == <<"none", 0>>

RowId  == {"user", "reply"} \X Turn \cup {"local"} \X Prompt \cup {Host}
Row    == [id : RowId, parts : Nat]
Status == {"idle", "running", "failed"}
Thread == [rows : Seq(Row), exec : Status, active : RowId \cup {None}]

VARIABLES
  bound,         \* the thread is subscribed to its Session
  thread,        \* `state`, as far as rows and the run go
  shown,         \* the state the listeners were last told of
  sent,          \* the prompt `sent` holds, or 0
  replacing,     \* the rows the replay under way still has to drop
  replay,        \* what that replay's start captured
  cursor, stale, \* where older history stands; a rewind moved it
  olderLoading, olderFailed,
  load, loads,   \* the page reads, and the latest
  seenGone,      \* the Session was reported gone to this binding
  asks, riders,  \* callers of connection.replay: not joined yet, joined
  prompts,       \* the prompts and how far their replies have got
  returned,      \* prompts handed back to the composer
  store,         \* the turns the provider holds
  undo,          \* the turns it brings back if the live turn is not kept
  live, running, \* the turn under way, 0 for none, and whether it runs
  settled,       \* how the last turn ended
  turns, epoch,  \* turns begun; rewinds, which move the store's positions
  wire,          \* updates on their way to the browser
  joined,        \* the link carries this Session's updates
  gone,          \* the provider lost the Session
  unkept,        \* prompts whose failed turn the provider did not keep
  breaks,        \* drops and unmounts so far
  revived        \* own rows of prompts that a failed replay brought back

paging   == <<cursor, stale, olderLoading, olderFailed, load, loads>>
provider == <<store, undo, live, running, settled, turns, epoch, gone, unkept>>
vars     == <<bound, thread, shown, sent, replacing, replay, paging, seenGone,
              asks, riders, prompts, returned, provider, wire, joined, breaks,
              revived>>

NoCursor  == [older |-> 0, epoch |-> -1]
Empty     == [rows |-> <<>>, exec |-> "idle", active |-> None]
NoReplace == [on |-> FALSE, ids |-> {}]
NoReplay  == [on |-> FALSE, owned |-> FALSE, rewound |-> FALSE, prior |-> Empty]
NoLoad    == [phase |-> "none", fresh |-> FALSE, from |-> NoCursor, page |-> <<>>]
Waiter(kind, n) == [kind |-> kind, n |-> n, owned |-> TRUE]
Ev(kind, n) == [kind |-> kind, n |-> n, epoch |-> 0]

Init ==
  /\ bound = FALSE /\ thread = Empty /\ shown = Empty /\ sent = 0
  /\ replacing = NoReplace /\ replay = NoReplay
  /\ cursor = NoCursor /\ stale = FALSE
  /\ olderLoading = FALSE /\ olderFailed = FALSE
  /\ load = [l \in Load |-> NoLoad] /\ loads = 0
  /\ seenGone = FALSE /\ asks = {} /\ riders = {}
  /\ prompts = [p \in Prompt |-> [phase |-> "none", turn |-> 0, from |-> 0]]
  /\ returned = {}
  /\ store = [n \in 1..History |-> [id |-> n, parts |-> 1]] /\ undo = store
  /\ live = 0 /\ running = FALSE /\ settled = "idle"
  /\ turns = History /\ epoch = 0
  /\ wire = <<>> /\ joined = FALSE /\ gone = FALSE
  /\ unkept = {}
  /\ breaks = 0 /\ revived = {}
-----------------------------------------------------------------------------
(* The projector's row operations.                                         *)

Ids(t)     == {t.rows[i].id : i \in DOMAIN t.rows}
LiveRow(t) == IF t.active \in Ids(t) THEN t.active ELSE None
IsReply(r) == r.id[1] \in {"reply", "host"}

(* onMessage for a reply: a row of that id grows; an empty host is taken   *)
(* over; a fresh row a run writes becomes the one the run's state settles. *)
TakesHost(t) ==
  /\ Host \in Ids(t)
  /\ \/ t.active = Host
     \/ t.active = None /\ t.exec # "running" /\ Last(t.rows).id = Host

Grow(t, id, k) ==
  IF id \in Ids(t)
  THEN [t EXCEPT !.rows = [i \in DOMAIN t.rows |->
          IF t.rows[i].id = id THEN [id |-> id, parts |-> t.rows[i].parts + k]
          ELSE t.rows[i]]]
  ELSE [rows   |-> IF TakesHost(t)
                   THEN [i \in DOMAIN t.rows |->
                           IF t.rows[i].id = Host THEN [id |-> id, parts |-> k]
                           ELSE t.rows[i]]
                   ELSE Append(t.rows, [id |-> id, parts |-> k]),
        exec   |-> t.exec,
        active |-> IF t.exec = "running" \/ (TakesHost(t) /\ t.active = Host)
                   THEN id ELSE t.active]

(* onMessage for a prompt: its row is replaced whole.                      *)
Echo(t, id) ==
  IF id \in Ids(t) THEN t
  ELSE [t EXCEPT !.rows = Append(t.rows, [id |-> id, parts |-> 1])]

(* A run restated without a moment of its own reopens the reply the        *)
(* transcript ends on.                                                     *)
Resumed(t) ==
  [rows |-> t.rows, exec |-> "running",
   active |-> IF /\ t.exec # "running" /\ LiveRow(t) = None
                 /\ t.rows # <<>> /\ IsReply(Last(t.rows))
              THEN Last(t.rows).id ELSE t.active]

Idle(t, status) == [rows |-> t.rows, exec |-> status, active |-> None]

Applied(t, e) ==
  CASE e.kind = "user"     -> Echo(t, User(e.n))
    [] e.kind = "part"     -> Grow(t, Reply(e.n), 1)
    [] e.kind = "running"  -> [t EXCEPT !.exec = "running"]
    [] e.kind = "restated" -> Resumed(t)
    [] e.kind \in {"idle", "failed"} -> Idle(t, e.kind)

(* replacedTurns: every row but a prompt the provider has not echoed.      *)
Replaced(t) == {id \in Ids(t) : id[1] # "local"}

(* The rows of these ids, in order.                                        *)
Only(rows, ids) ==
  LET kept[i \in 0..Len(rows)] ==
        IF i = 0 THEN <<>>
        ELSE IF rows[i].id \in ids THEN Append(kept[i - 1], rows[i]) ELSE kept[i - 1]
  IN kept[Len(rows)]

Without(t, ids) == [t EXCEPT !.rows = Only(t.rows, RowId \ ids)]

(* clearTranscript                                                         *)
Cleared(t, ids) ==
  IF Ids(t) \cap ids = {} THEN t
  ELSE [Without(t, ids) EXCEPT !.active = None]

(* failLatestTurn and failSession                                          *)
FailLatest(t) ==
  IF \E i \in DOMAIN t.rows : IsReply(t.rows[i]) THEN t ELSE Grow(t, Host, 0)

FailSession(t) ==
  IF LiveRow(t) = None THEN FailLatest(Idle(t, "failed")) ELSE Idle(t, "failed")

(* rewound: the rows before the replaced turn, and the prompt just echoed. *)
Rewound(t, from, p) ==
  IF from = 0 \/ User(from) \notin Ids(t) THEN t
  ELSE LET at == CHOOSE i \in DOMAIN t.rows : t.rows[i].id = User(from)
       IN [t EXCEPT !.rows = SubSeq(t.rows, 1, at - 1)
             \o Only(SubSeq(t.rows, at, Len(t.rows)), {Local(p)})]

(* renameMessage: the echo may have come first.                            *)
RenamedAlways(t, p, n) ==
  [t EXCEPT !.rows = [i \in DOMAIN t.rows |->
     IF t.rows[i].id = Local(p) THEN [id |-> User(n), parts |-> 1]
     ELSE t.rows[i]]]
Renamed(t, p, n) ==
  IF User(n) \in Ids(t) THEN Without(t, {Local(p)})
  ELSE [t EXCEPT !.rows = [i \in DOMAIN t.rows |->
          IF t.rows[i].id = Local(p) THEN [id |-> User(n), parts |-> 1]
          ELSE t.rows[i]]]

TurnRows(s) ==
  <<[id |-> User(s.id), parts |-> 1]>>
    \o IF s.parts = 0 THEN <<>> ELSE <<[id |-> Reply(s.id), parts |-> s.parts]>>
RowsOf(ss) == FlattenSeq([i \in DOMAIN ss |-> TurnRows(ss[i])])

(* prependMessages: a turn the thread already holds keeps its copy.        *)
Prepended(t, page) ==
  [t EXCEPT !.rows = Only(RowsOf(page), RowId \ Ids(t)) \o t.rows]

(* failedWithoutReply                                                      *)
FailedUnanswered(before, after, e) ==
  /\ e.kind = "failed" /\ before.exec = "running" /\ LiveRow(before) = None
-----------------------------------------------------------------------------
(* Telling: while a replay is under way the reader keeps what was shown.   *)

Commit(t) == thread' = t /\ shown' = IF replay.on THEN shown ELSE t

(* A page belongs to the transcript it was asked for.                      *)
Aged == [l \in Load |-> [load[l] EXCEPT !.fresh = FALSE]]

(* ---- binding ---------------------------------------------------------- *)

Bind ==
  /\ ~bound
  /\ bound' = TRUE
  /\ load' = Aged /\ cursor' = NoCursor
  /\ stale' = FALSE /\ olderLoading' = FALSE /\ olderFailed' = FALSE
  /\ seenGone' = FALSE
  /\ asks' = asks \cup {Waiter("bind", 0)}
  /\ UNCHANGED <<thread, shown, sent, replacing, replay, loads, riders,
                 prompts, returned, provider, wire, joined, breaks, revived>>

Left(ws) == {[w EXCEPT !.owned = FALSE] : w \in ws}

Unbind ==
  /\ bound /\ breaks < MaxBreaks
  /\ breaks' = breaks + 1
  /\ bound' = FALSE
  /\ asks' = Left(asks) /\ riders' = Left(riders)
  /\ replay' = [replay EXCEPT !.owned = FALSE]
  /\ UNCHANGED <<thread, shown, sent, replacing, paging, seenGone, prompts,
                 returned, provider, wire, joined, revived>>

(* No replay is under way: the connection runs one at a time.              *)
Quiet ==
  /\ riders = {} /\ ~replay.on
  /\ \A i \in DOMAIN wire : wire[i].kind \notin {"end", "cut"}

(* ---- a replay --------------------------------------------------------- *)

(* The connection announces a replay: what is shown now is replaced once   *)
(* the replay's first update lands.                                        *)
Announce ==
  /\ wire # <<>> /\ Head(wire).kind = "announce"
  /\ wire' = Tail(wire)
  /\ IF bound
     THEN /\ replacing' = [on |-> TRUE, ids |-> Replaced(thread)]
          /\ replay' = [on |-> TRUE, owned |-> TRUE, rewound |-> FALSE,
                        prior |-> thread]
          /\ load' = Aged
     ELSE UNCHANGED <<replacing, replay, load>>
  /\ UNCHANGED <<bound, thread, shown, sent, cursor, stale, olderLoading,
                 olderFailed, loads, seenGone, asks, riders, prompts,
                 returned, provider, joined, breaks, revived>>

(* What a settled replay leaves: one that carried nothing drops the rows   *)
(* only if it succeeded, and one that failed partway is discarded.         *)
PutsBackThePrior(replayed) ==
  IF replacing.on
  THEN IF replayed THEN Cleared(thread, replacing.ids) ELSE thread
  ELSE IF replayed \/ ~replay.owned THEN thread ELSE replay.prior
Outcome(replayed) ==
  IF replacing.on
  THEN IF replayed THEN Cleared(thread, replacing.ids) ELSE thread
  ELSE IF replayed \/ ~replay.owned THEN thread
       ELSE IF seenGone THEN FailSession(replay.prior) ELSE replay.prior

(* A failed run's reload: the message goes back to the composer if the     *)
(* provider did not keep it.                                               *)
LostAny(ws, t) == {w.n : w \in {v \in ws : v.kind = "fail" /\ v.owned}}
Lost(ws, t) == {w.n : w \in {v \in ws : v.kind = "fail" /\ v.owned /\ v.n # 0
                               /\ User(prompts[v.n].turn) \notin Ids(t)}}
Failing(ws) == \E w \in ws : w.kind = "fail" /\ w.owned

(* A load that is still the latest ends the reader's wait.                 *)
ReleasesFresh(l) == l = loads /\ load[l].fresh
Releases(l) == l = loads

(* loadOlder once its cursor is known to be good.                          *)
Reads(c, isStale) == bound /\ ~isStale /\ c.older > 0
Read(c) == [phase |-> "reading", fresh |-> TRUE, from |-> c, page |-> <<>>]

ReplayEnd ==
  /\ wire # <<>> /\ Head(wire).kind = "end"
  /\ wire' = Tail(wire)
  /\ LET end   == Head(wire)
         c     == IF bound /\ replay.on
                  THEN [older |-> end.n, epoch |-> end.epoch] ELSE cursor
         st    == stale /\ ~(bound /\ replay.on /\ ~replay.rewound)
         after == IF replay.on THEN Outcome(TRUE) ELSE thread
         told  == IF Failing(riders) THEN FailLatest(after) ELSE after
         mine  == {w.n : w \in {v \in riders : v.kind = "load"}}
     IN
     /\ cursor' = c /\ stale' = st
     /\ thread' = told /\ shown' = told
     /\ returned' = returned \cup Lost(riders, after)
     /\ load' = [l \in Load |->
          IF l \notin mine
          THEN IF replay.on THEN [load[l] EXCEPT !.fresh = FALSE] ELSE load[l]
          ELSE IF Reads(c, st) THEN Read(c) ELSE NoLoad]
     /\ olderLoading' =
          (olderLoading /\ ~\E l \in mine : Releases(l) /\ ~Reads(c, st))
  /\ replacing' = IF replay.on THEN NoReplace ELSE replacing
  /\ replay' = NoReplay
  /\ riders' = {}
  /\ UNCHANGED <<bound, sent, olderFailed, loads, seenGone, asks, prompts,
                 provider, joined, breaks, revived>>

(* A replay that fails: the connection asks again for its callers.         *)
ReplayFails ==
  /\ asks' = asks \cup riders /\ riders' = {}
  /\ replacing' = IF replay.on THEN NoReplace ELSE replacing
  /\ replay' = NoReplay
  /\ thread' = IF replay.on THEN Outcome(FALSE) ELSE thread
  /\ shown' = thread'
  /\ revived' = revived \cup
       ({Local(p) : p \in Prompt} \cap (Ids(thread') \ Ids(thread)))

(* The link drops: an accepted prompt's reply, or a page, may be lost.     *)
Drop ==
  /\ joined /\ breaks < MaxBreaks
  /\ breaks' = breaks + 1
  /\ joined' = FALSE /\ wire' = <<>>
  /\ ReplayFails
  /\ \E ls \in SUBSET {l \in Load : load[l].phase \in {"reading", "served"}} :
       load' = [l \in Load |->
         [load[l] EXCEPT !.fresh = load[l].fresh /\ ~replay.on,
                         !.phase = IF l \in ls THEN "failed" ELSE load[l].phase]]
  /\ \E ps \in SUBSET {p \in Prompt : prompts[p].phase = "accepted"} :
       prompts' = [p \in Prompt |->
         [prompts[p] EXCEPT !.phase = IF p \in ps THEN "lost" ELSE prompts[p].phase]]
  /\ UNCHANGED <<bound, sent, cursor, stale, olderLoading, olderFailed, loads,
                 seenGone, returned, provider>>

(* The gateway ends a replay of a Session its provider has just lost.      *)
Cut ==
  /\ wire # <<>> /\ Head(wire).kind = "cut"
  /\ wire' = Tail(wire)
  /\ ReplayFails
  /\ load' = IF replay.on THEN Aged ELSE load
  /\ UNCHANGED <<bound, sent, cursor, stale, olderLoading, olderFailed, loads,
                 seenGone, prompts, returned, provider, joined, breaks>>

(* The provider no longer holds the Session: every replay is refused.      *)
Refuse ==
  /\ gone /\ asks # {} /\ Quiet
  /\ asks' = {}
  /\ LET failed == {w \in asks : w.kind = "load"} IN
     /\ olderFailed' = (olderFailed \/ \E w \in failed : w.owned)
     /\ load' = [l \in Load |->
          IF \E w \in failed : w.n = l THEN NoLoad
          ELSE [load[l] EXCEPT !.fresh = load[l].fresh /\ ~bound]]
     /\ olderLoading' = (olderLoading /\ ~\E w \in failed : Releases(w.n))
  /\ Commit(IF Failing(asks) THEN FailLatest(thread) ELSE thread)
  /\ UNCHANGED <<bound, sent, replacing, replay, cursor, stale, loads,
                 seenGone, riders, prompts, returned, provider, wire, joined,
                 breaks, revived>>

(* ---- updates ---------------------------------------------------------- *)

LatestPrompt(t) ==
  LET users == Only(t.rows, {"user"} \X Turn \cup {"local"} \X Prompt)
  IN IF users = <<>> THEN None ELSE Last(users).id

(* failUnanswered: the failure reads where a refusal does and the Session  *)
(* reloads; the message is handed back if it was the latest sent here.     *)
FailsUnanswered(t) ==
  /\ Commit(FailLatest(t))
  /\ sent' = 0
  /\ asks' = asks \cup {Waiter("fail",
       IF sent # 0 /\ User(prompts[sent].turn) = LatestPrompt(t)
       THEN sent ELSE 0)}

Updates == {"user", "part", "running", "restated", "idle", "failed"}

Update ==
  /\ wire # <<>> /\ Head(wire).kind \in Updates
  /\ wire' = Tail(wire)
  /\ LET e    == Head(wire)
         base == IF replacing.on THEN Cleared(thread, replacing.ids) ELSE thread
         next == Applied(base, e)
     IN IF ~bound
        THEN UNCHANGED <<thread, shown, sent, replacing, asks>>
        ELSE /\ replacing' = NoReplace
             /\ IF ~replay.on /\ FailedUnanswered(thread, next, e)
                THEN FailsUnanswered(next)
                ELSE Commit(next) /\ UNCHANGED <<sent, asks>>
  /\ UNCHANGED <<bound, replay, paging, seenGone, riders, prompts, returned,
                 provider, joined, breaks, revived>>

ReportGone ==
  /\ wire # <<>> /\ Head(wire).kind = "gone"
  /\ wire' = Tail(wire)
  /\ IF bound THEN seenGone' = TRUE /\ Commit(FailSession(thread))
     ELSE UNCHANGED <<seenGone, thread, shown>>
  /\ UNCHANGED <<bound, sent, replacing, replay, paging, asks, riders,
                 prompts, returned, provider, joined, breaks, revived>>

(* ---- prompts ---------------------------------------------------------- *)

(* send: `from` is the turn an edit or a retry replaces, 0 for none.       *)
Send(p, from) ==
  /\ bound /\ prompts[p].phase = "none"
  /\ \A q \in Prompt : q < p => prompts[q].phase # "none"
  /\ from = 0 \/ User(from) \in Ids(shown)
  /\ sent' = 0
  /\ prompts' = [prompts EXCEPT ![p] = [phase |-> "sent", turn |-> 0, from |-> from]]
  /\ Commit(Echo(thread, Local(p)))
  /\ UNCHANGED <<bound, replacing, replay, paging, seenGone, asks, riders,
                 returned, provider, wire, joined, breaks, revived>>

(* "kept": accepted; "back": refused; "doubt": an error hid an acceptance. *)
Over == {"none", "kept", "back", "doubt"}
Ends(p, phase) == prompts' = [prompts EXCEPT ![p].phase = phase]

(* The prompt's reply: only an accepted turn replaces anything.            *)
Accepted(p) ==
  LET from == prompts[p].from IN
  /\ prompts[p].phase = "accepted"
  /\ InOrder => \A i \in DOMAIN wire : wire[i] # Ev("user", prompts[p].turn)
  /\ Ends(p, "kept")
  /\ Commit(Renamed(Rewound(thread, from, p), p, prompts[p].turn))
  /\ sent' = p
  /\ IF from = 0 THEN UNCHANGED <<stale, load, replay>>
     ELSE /\ stale' = TRUE /\ load' = Aged
          /\ replay' = [replay EXCEPT !.rewound = replay.on]
  /\ UNCHANGED <<bound, replacing, cursor, olderLoading, olderFailed, loads,
                 seenGone, asks, riders, returned, provider, wire, joined,
                 breaks, revived>>

(* A refusal takes the prompt's row back out, and the message goes back to *)
(* the composer.                                                           *)
Refused(p) ==
  /\ prompts[p].phase \in {"refused", "lost"}
  /\ Ends(p, IF prompts[p].phase = "lost" THEN "doubt" ELSE "back")
  /\ Commit(FailLatest(Without(thread, {Local(p)})))
  /\ returned' = returned \cup {p}
  /\ UNCHANGED <<bound, sent, replacing, replay, paging, seenGone, asks,
                 riders, provider, wire, joined, breaks, revived>>

(* ---- older history ---------------------------------------------------- *)

LoadOlder ==
  /\ bound /\ ~olderLoading /\ ~replay.on /\ cursor.older > 0
  /\ loads < MaxLoads
  /\ loads' = loads + 1
  /\ olderLoading' = TRUE /\ olderFailed' = FALSE
  /\ IF stale
     THEN /\ asks' = asks \cup {Waiter("load", loads')}
          /\ load' = [load EXCEPT ![loads'] = [NoLoad EXCEPT !.phase = "rebuild"]]
     ELSE /\ load' = [load EXCEPT ![loads'] = Read(cursor)]
          /\ UNCHANGED asks
  /\ UNCHANGED <<bound, thread, shown, sent, replacing, replay, cursor, stale,
                 seenGone, riders, prompts, returned, provider, wire, joined,
                 breaks, revived>>

(* A page that lands under another transcript is dropped.                  *)
LandsAnyway(l) == TRUE
Lands(l) == load[l].fresh

Land(l) ==
  /\ load[l].phase \in {"served", "failed"}
  /\ load' = [load EXCEPT ![l] = NoLoad]
  /\ IF load[l].phase = "served" /\ Lands(l)
     THEN /\ cursor' = load[l].from
          /\ Commit(Prepended(thread, load[l].page))
          /\ UNCHANGED olderFailed
     ELSE /\ olderFailed' = (olderFailed \/ (load[l].phase = "failed" /\ Lands(l)))
          /\ UNCHANGED <<cursor, thread, shown>>
  /\ olderLoading' = (olderLoading /\ ~Releases(l))
  /\ UNCHANGED <<bound, sent, replacing, replay, stale, loads, seenGone, asks,
                 riders, prompts, returned, provider, wire, joined, breaks,
                 revived>>
-----------------------------------------------------------------------------
(* The gateway and its provider.                                           *)

Emit(es) == wire' = IF joined THEN wire \o es ELSE wire

browser == <<bound, thread, shown, sent, replacing, replay, seenGone, returned>>

(* A join replays the newest page, restates the run, and goes live.        *)
Stored(s) ==
  <<Ev("user", s.id)>>
    \o IF s.parts = 0 THEN <<>>
       ELSE <<Ev("running", s.id)>> \o [i \in 1..s.parts |-> Ev("part", s.id)]
              \o <<Ev("idle", s.id)>>

Join ==
  /\ ~gone /\ Quiet
  /\ asks # {} \/ (bound /\ ~joined)
  /\ riders' = asks /\ asks' = {}
  /\ joined' = TRUE
  /\ LET older == IF Len(store) > PageSize THEN Len(store) - PageSize ELSE 0
         page  == SubSeq(store, older + 1, Len(store))
     IN wire' = wire \o <<Ev("announce", 0)>>
                  \o FlattenSeq([i \in DOMAIN page |-> Stored(page[i])])
                  \o <<Ev(IF running THEN "restated" ELSE settled, live)>>
                  \o <<[kind |-> "end", n |-> older, epoch |-> epoch]>>
  /\ UNCHANGED <<browser, paging, prompts, provider, breaks, revived>>

Take(p) ==
  LET from == prompts[p].from
      at   == IF from = 0 THEN Len(store) + 1
              ELSE CHOOSE i \in DOMAIN store : store[i].id = from
  IN
  /\ live = 0
  /\ from = 0 \/ \E i \in DOMAIN store : store[i].id = from
  /\ turns' = turns + 1 /\ live' = turns'
  /\ store' = Append(SubSeq(store, 1, at - 1), [id |-> turns', parts |-> 0])
  /\ undo' = store
  /\ epoch' = IF from = 0 THEN epoch ELSE epoch + 1
  /\ prompts' = [prompts EXCEPT ![p].phase = "accepted", ![p].turn = turns']
  /\ Emit(<<Ev("user", turns')>>)

Answer(p) ==
  /\ prompts[p].phase = "sent"
  /\ \/ ~gone /\ Take(p)
     \/ /\ prompts' = [prompts EXCEPT ![p].phase = "refused"]
        /\ UNCHANGED <<store, undo, live, turns, epoch, wire>>
  /\ UNCHANGED <<browser, paging, asks, riders, running, settled, gone, unkept, joined,
                 breaks, revived>>

Run ==
  /\ live # 0 /\ ~running
  /\ InOrder => \A p \in Prompt : prompts[p].phase # "accepted"
  /\ running' = TRUE
  /\ Emit(<<Ev("running", live)>>)
  /\ UNCHANGED <<browser, paging, asks, riders, prompts, store, undo, live,
                 settled, turns, epoch, gone, unkept, joined, breaks, revived>>

Written == store[Len(store)].parts

Part ==
  /\ running /\ Written < MaxParts
  /\ store' = [store EXCEPT ![Len(store)].parts = Written + 1]
  /\ Emit(<<Ev("part", live)>>)
  /\ UNCHANGED <<browser, paging, asks, riders, prompts, undo, live, running,
                 settled, turns, epoch, gone, unkept, joined, breaks, revived>>

(* A run that failed before it wrote anything may leave nothing behind,    *)
(* its prompt and the rewind it carried included.                          *)
Finish(status, kept) ==
  /\ running
  /\ kept \/ (status = "failed" /\ Written = 0)
  /\ live' = 0 /\ running' = FALSE /\ settled' = status
  /\ store' = IF kept THEN store ELSE undo
  /\ epoch' = IF kept THEN epoch ELSE epoch + 1
  /\ unkept' = IF kept THEN unkept
               ELSE unkept \cup {p \in Prompt : prompts[p].turn = live}
  /\ Emit(<<Ev(status, live)>>)
  /\ UNCHANGED <<browser, paging, asks, riders, prompts, undo, turns, gone,
                 joined, breaks, revived>>

(* A page from a cursor the store has moved under may hold anything.       *)
Serve(l) ==
  /\ load[l].phase = "reading"
  /\ \E c \in 0..Len(store) :
       /\ load[l].from.epoch = epoch => c = load[l].from.older
       /\ LET older == IF c > PageSize THEN c - PageSize ELSE 0 IN
          load' = [load EXCEPT ![l] =
            [phase |-> "served", fresh |-> load[l].fresh,
             from |-> [older |-> older, epoch |-> epoch],
             page |-> SubSeq(store, older + 1, c)]]
  /\ ~gone
  /\ UNCHANGED <<browser, cursor, stale, olderLoading, olderFailed, loads, asks,
                 riders, prompts, provider, wire, joined, breaks, revived>>

Deny(l) ==
  /\ load[l].phase = "reading"
  /\ load' = [load EXCEPT ![l].phase = "failed"]
  /\ UNCHANGED <<browser, cursor, stale, olderLoading, olderFailed, loads, asks,
                 riders, prompts, provider, wire, joined, breaks, revived>>

Vanish ==
  /\ MayGo /\ ~gone
  /\ gone' = TRUE /\ live' = 0 /\ running' = FALSE
  /\ \E k \in 0..Len(wire) :
       wire' = IF ~joined THEN wire
               ELSE SubSeq(wire, 1, k)
                      \o (IF Quiet THEN <<Ev("gone", 0)>>
                          ELSE <<Ev("gone", 0), Ev("cut", 0)>>)
  /\ UNCHANGED <<browser, paging, asks, riders, prompts, store, undo, settled,
                 turns, epoch, unkept, joined, breaks, revived>>
-----------------------------------------------------------------------------
Next ==
  \/ Bind \/ Unbind
  \/ Announce \/ ReplayEnd \/ Drop \/ Cut \/ Refuse
  \/ Update \/ ReportGone
  \/ \E p \in Prompt, from \in {0} \cup Turn : Send(p, from)
  \/ \E p \in Prompt : Accepted(p) \/ Refused(p) \/ Answer(p)
  \/ LoadOlder
  \/ \E l \in Load : Land(l) \/ Serve(l) \/ Deny(l)
  \/ Join \/ Run \/ Part \/ Vanish
  \/ \E status \in {"idle", "failed"}, kept \in BOOLEAN : Finish(status, kept)

Spec == Init /\ [][Next]_vars

(* The wire delivers, the connection rejoins while it is wanted, and what  *)
(* is asked is answered.  Nothing obliges the operator or a turn.          *)
Fairness ==
  /\ WF_vars(Announce \/ ReplayEnd \/ Cut \/ Update \/ ReportGone)
  /\ WF_vars(Join) /\ WF_vars(Refuse)
  /\ \A l \in Load : WF_vars(Land(l)) /\ WF_vars(Serve(l) \/ Deny(l))

FairSpec == Spec /\ Fairness
-----------------------------------------------------------------------------
Held   == [id : Turn, parts : Nat]
Cursor == [older : Nat, epoch : Int]

Event ==
  [kind : {"user", "part", "running"}, n : Turn, epoch : {0}]
    \cup [kind : {"restated", "idle", "failed"}, n : {0} \cup Turn, epoch : {0}]
    \cup [kind : {"announce", "gone", "cut"}, n : {0}, epoch : {0}]
    \cup [kind : {"end"}, n : Nat, epoch : Nat]

Waiters ==
  [kind : {"bind"}, n : {0}, owned : BOOLEAN]
    \cup [kind : {"fail"}, n : {0} \cup Prompt, owned : BOOLEAN]
    \cup [kind : {"load"}, n : Load, owned : BOOLEAN]

ProviderTypes ==
  /\ store \in Seq(Held) /\ undo \in Seq(Held)
  /\ live \in {0} \cup Turn /\ running \in BOOLEAN /\ gone \in BOOLEAN
  /\ settled \in {"idle", "failed"}
  /\ turns \in {0} \cup Turn /\ epoch \in Nat /\ unkept \subseteq Prompt
  /\ prompts \in [Prompt -> [phase : Over \cup {"sent", "accepted", "refused", "lost"},
                             turn : {0} \cup Turn, from : {0} \cup Turn]]

PagingTypes ==
  /\ cursor \in Cursor /\ {stale, olderLoading, olderFailed} \subseteq BOOLEAN
  /\ loads \in 0..MaxLoads
  /\ load \in [Load -> [phase : {"none", "rebuild", "reading", "served", "failed"},
                        fresh : BOOLEAN, from : Cursor, page : Seq(Held)]]

CallerTypes ==
  /\ asks \subseteq Waiters /\ riders \subseteq Waiters
  /\ sent \in {0} \cup Prompt /\ returned \subseteq Prompt

RowTypes ==
  /\ thread \in Thread /\ shown \in Thread
  /\ replacing \in [on : BOOLEAN, ids : SUBSET RowId]
  /\ replay \in [on : BOOLEAN, owned : BOOLEAN, rewound : BOOLEAN, prior : Thread]

TypeOK ==
  /\ {bound, seenGone, joined} \subseteq BOOLEAN /\ breaks \in 0..MaxBreaks
  /\ wire \in Seq(Event) /\ revived \subseteq RowId
  /\ ProviderTypes /\ PagingTypes /\ CallerTypes /\ RowTypes

(* Nothing is on its way: the thread is bound and joined, and no replay,   *)
(* update or prompt's reply is outstanding.                                *)
AtRest ==
  /\ bound /\ joined /\ ~gone
  /\ asks = {} /\ riders = {} /\ wire = <<>>
  /\ \A p \in Prompt : prompts[p].phase \in Over

RowsOnce ==
  \A i, j \in DOMAIN thread.rows :
    thread.rows[i].id = thread.rows[j].id => i = j

(* No row is ever there twice. At rest no reply lacks a part or holds one  *)
(* twice, and the thread shows exactly the provider's turns from the one   *)
(* the cursor stands before: none skipped, out of place or left over. The  *)
(* exceptions: until the next replay a rewind leaves the cursor stale; a   *)
(* failure that found no reply to read on leaves a turn of its own; and a  *)
(* replay that failed partway brings back, and nothing then takes out, the *)
(* own row of a prompt answered meanwhile (`revived`).                     *)
NothingSkipped ==
  /\ RowsOnce
  /\ AtRest =>
       \A i \in DOMAIN store, j \in DOMAIN shown.rows :
         shown.rows[j].id = Reply(store[i].id)
           => shown.rows[j].parts = store[i].parts
  /\ AtRest /\ ~stale /\ Host \notin Ids(shown) =>
       Only(shown.rows, RowId \ revived)
         = RowsOf(SubSeq(store, cursor.older + 1, Len(store)))

(* A message handed back is one the provider does not hold as well, unless *)
(* an error hid its acceptance or a later prompt was taken. (The reload    *)
(* reads the newest page only, and cannot tell a turn the later one pushed *)
(* out of it, or is replacing for the moment, from a turn never kept.)     *)
NotBoth ==
  \A p \in returned, i \in DOMAIN store :
    store[i].id = prompts[p].turn =>
      \/ prompts[p].phase = "doubt"
      \/ \E q \in Prompt : prompts[q].turn > prompts[p].turn

(* Once the Session is reported gone nothing runs in it again, nor reads   *)
(* as running once the replay is over, whatever one cut short puts back.   *)
GoneEndsTheRun ==
  seenGone => /\ thread.exec # "running"
              /\ replay.on \/ shown.exec # "running"

(* An older page asked for comes, fails or is dropped; the reader is never *)
(* left waiting.                                                           *)
LoadEnds == olderLoading ~> ~olderLoading
-----------------------------------------------------------------------------
(* What the source says and the code does not keep.                        *)

(* "A message sent here that the provider never kept goes back to the      *)
(* composer, so the operator's words outlive the turn that lost them."     *)
UnkeptWordsReturn == AtRest => unkept \subseteq returned

(* "One read at a time"                                                    *)
OneRead ==
  \A k, l \in Load :
    load[k].phase # "none" /\ load[l].phase # "none" => k = l
=============================================================================
