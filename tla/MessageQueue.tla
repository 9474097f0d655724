---------------------------- MODULE MessageQueue ----------------------------
(***************************************************************************)
(* The queue that holds an operator's sends while a turn owns the Session: *)
(* createQueue in acp-message-queue.ts, over Assistant UI's message queue  *)
(* and the harness gateway, which are both external.                       *)
(*                                                                         *)
(* Messages are the numbers 1..N in the order they are enqueued.  A run is *)
(* one call of the queue's `run`: the head message with everything that    *)
(* waited behind it, sent as one prompt and retried while the gateway is   *)
(* busy.  A run is named by its head.                                      *)
(***************************************************************************)
EXTENDS Integers, Sequences, FiniteSets

CONSTANTS
  N,           \* messages the operator enqueues
  MaxExtras    \* steered rows and turns of other clients, together (a bound)

ASSUME QueueAssumption ==
  /\ N \in Nat \ {0}
  /\ MaxExtras \in Nat

Message == 1..N
Turn    == Nat    \* 0 is no turn: an undefined turnId

VARIABLES
  typed,      \* messages enqueued so far
  waiting,    \* the library's items
  libBusy,    \* the library waits for notifyIdle
  parked,     \* the library was cancelled: it dispatches nothing until a send
  swallow,    \* an interrupted turn's idle may still be discounted
  steers,     \* rows steered so far
  busy,       \* createQueue's `busy`
  dispatch,   \* createQueue's `dispatch`, with the run it belongs to
  run,        \* the runs, by head message
  exec,       \* the execution the controller shows
  turn,       \* the turn the gateway holds the Session for
  stage,      \* how far that turn has got
  turns,      \* turns the gateway has begun
  foreign,    \* turns another client has begun
  events,     \* state updates on their way to the browser
  takes,      \* how often the gateway took each message
  returned,   \* messages handed back to the composer by a refusal
  withdrawn,  \* messages the operator took out of the queue
  dropped     \* messages removed from the queue and sent nowhere

lib     == <<libBusy, parked, swallow, steers>>
gateway == <<turn, stage, turns, foreign, takes>>
fates   == <<returned, withdrawn, dropped>>
vars    == <<typed, waiting, lib, busy, dispatch, run, exec, gateway,
             events, fates>>

NoDispatch == [head |-> 0, before |-> 0, ran |-> FALSE, accepted |-> FALSE]
Dispatch   == [head : 0..N, before : Turn, ran : BOOLEAN, accepted : BOOLEAN]

Status    == {"running", "idle"}
Execution == [status : Status, turnId : Turn]

(* "requested": the prompt is on its way; "taken", "lost", "busy" and      *)
(* "refused": the gateway has answered and the answer is on its way, where *)
(* "lost" is a turn the gateway began for a caller that saw only an error. *)
Phase == {"none", "backoff", "requested", "taken", "lost", "busy",
          "refused", "done"}
Run   == [batch : SUBSET Message, phase : Phase, holdBusy : BOOLEAN]
NoRun == [batch |-> {}, phase |-> "none", holdBusy |-> FALSE]

Outbound(h) == run[h].phase \notin {"none", "done"}

Init ==
  /\ typed = 0 /\ waiting = {}
  /\ libBusy = FALSE /\ parked = FALSE /\ swallow = FALSE /\ steers = 0
  /\ busy = FALSE /\ dispatch = NoDispatch
  /\ run = [m \in Message |-> NoRun]
  /\ exec = [status |-> "idle", turnId |-> 0]
  /\ turn = 0 /\ stage = "none" /\ turns = 0 /\ foreign = 0
  /\ events = <<>>
  /\ takes = [m \in Message |-> 0]
  /\ returned = {} /\ withdrawn = {} /\ dropped = {}
-----------------------------------------------------------------------------
(* The adapter's own decisions.                                            *)

SettlesUnaccepted(d, nowBusy, x) ==
  /\ d.head # 0 /\ ~nowBusy
  /\ d.ran \/ x.turnId # d.before
SettlesOnlyRan(d, nowBusy, x) == d.head # 0 /\ d.accepted /\ ~nowBusy /\ d.ran

(* settle(): the accepted send's turn has come and gone.                   *)
Settles(d, nowBusy, x) ==
  /\ d.head # 0 /\ d.accepted /\ ~nowBusy
  /\ d.ran \/ x.turnId # d.before

(* A refusal that is sent again rather than shown.                         *)
RetriesAnything(r) == r.phase \in {"busy", "refused", "lost"} /\ r.holdBusy
Retries(r) == r.phase = "busy" /\ r.holdBusy

Sent(h, x) == [head |-> h, before |-> x.turnId, ran |-> FALSE,
               accepted |-> FALSE]

(* run(head): what waits goes out with the head.  It is sent at once       *)
(* unless a turn owns the Session, which the backoff waits out.            *)
Launch(runs, h, batch, d, nowBusy, x) ==
  /\ run' = [runs EXCEPT ![h] =
               [batch    |-> batch,
                phase    |-> IF nowBusy THEN "backoff" ELSE "requested",
                holdBusy |-> TRUE]]
  /\ dispatch' = IF nowBusy THEN d ELSE Sent(h, x)
  /\ libBusy' = TRUE

Heads == {m \in waiting : \A o \in waiting : m <= o}

(* takeWaiting(): what is left in the queue once a run has taken `batch`.  *)
LeavesTheRest(batch) == waiting \ Heads
LeftBy(batch) == waiting \ batch

(* queue.notifyIdle(): the library sends what waits, unless it is parked.  *)
(* Whether it discounts the idle of a turn it interrupted is not ours to   *)
(* say, so both are possible.                                              *)
NotifyIdle(runs, d, x) ==
  \/ /\ swallow
     /\ swallow' = FALSE
     /\ run' = runs /\ dispatch' = d
     /\ UNCHANGED <<waiting, libBusy>>
  \/ /\ parked \/ waiting = {}
     /\ swallow' = FALSE /\ libBusy' = FALSE
     /\ run' = runs /\ dispatch' = d
     /\ UNCHANGED waiting
  \/ /\ ~parked /\ waiting # {}
     /\ swallow' = FALSE
     /\ \E h \in Heads : Launch(runs, h, waiting, d, FALSE, x)
     /\ waiting' = LeftBy(waiting)
-----------------------------------------------------------------------------
(* The operator.                                                           *)

(* adapter.enqueue.  An idle library sends at once.  A parked one sends    *)
(* what already waited, and takeWaiting, which only knows the messages     *)
(* `remember` has recorded, removes the new one without sending it.        *)
Enqueue ==
  LET m == typed + 1 IN
  /\ typed < N
  /\ typed' = m
  /\ parked' = FALSE
  /\ \/ /\ libBusy
        /\ waiting' = waiting \cup {m}
        /\ UNCHANGED <<run, dispatch, libBusy, dropped>>
     \/ /\ ~libBusy /\ waiting = {}
        /\ Launch(run, m, {m}, dispatch, busy, exec)
        /\ UNCHANGED <<waiting, dropped>>
     \/ /\ ~libBusy /\ waiting # {}
        /\ \E h \in Heads : Launch(run, h, waiting, dispatch, busy, exec)
        /\ waiting' = LeftBy(waiting)
        /\ dropped' = dropped \cup {m}
  /\ UNCHANGED <<swallow, steers, busy, exec, gateway, events, returned,
                 withdrawn>>

(* takeAll and clear empty the queue; remove takes one row out of it.      *)
Withdraw(S) ==
  /\ S # {} /\ S \subseteq waiting
  /\ S = waiting \/ Cardinality(S) = 1
  /\ waiting' = waiting \ S
  /\ withdrawn' = withdrawn \cup S
  /\ UNCHANGED <<typed, lib, busy, dispatch, run, exec, gateway, events,
                 returned, dropped>>

(* Stop: only a running turn's Stop reaches the library.                   *)
Stop ==
  /\ busy
  /\ parked' = TRUE
  /\ UNCHANGED <<typed, waiting, libBusy, swallow, steers, busy, dispatch,
                 run, exec, gateway, events, fates>>

(* "Stop and send now": the library cancels the live turn and runs the row *)
(* at once, ahead of the rest.                                             *)
Steer(m) ==
  /\ m \in waiting /\ busy /\ ~parked
  /\ steers + foreign < MaxExtras
  /\ steers' = steers + 1
  /\ swallow' = TRUE
  /\ Launch(run, m, waiting, dispatch, busy, exec)
  /\ waiting' = LeftBy(waiting)
  /\ UNCHANGED <<typed, parked, busy, exec, gateway, events, fates>>
-----------------------------------------------------------------------------
(* The adapter's callbacks.                                                *)

(* A turn owns the Session: the library is held, and a dispatched send has *)
(* seen a turn run.                                                        *)
Owned(x) ==
  /\ x.status = "running"
  /\ libBusy' = (libBusy \/ ~busy)
  /\ dispatch' = [dispatch EXCEPT !.ran = dispatch.head # 0]
  /\ UNCHANGED <<waiting, swallow, run>>

(* The dispatched send's turn is over.                                     *)
Settled(x) ==
  /\ x.status # "running" /\ Settles(dispatch, FALSE, x)
  /\ NotifyIdle(run, NoDispatch, x)

(* A turn this queue did not send is over.                                 *)
Unowned(x) ==
  /\ x.status # "running" /\ dispatch.head = 0 /\ busy
  /\ NotifyIdle(run, NoDispatch, x)

(* Idle still, or a send that waits for more.                              *)
Quiet(x) ==
  /\ x.status # "running"
  /\ IF dispatch.head = 0 THEN ~busy ELSE ~Settles(dispatch, FALSE, x)
  /\ UNCHANGED <<waiting, libBusy, swallow, run, dispatch>>

(* The controller tells its listeners of the execution it shows.  A replay *)
(* holds the telling, so one call may stand for several updates.           *)
Observe(k) ==
  LET x == events[k] IN
  /\ events' = SubSeq(events, k + 1, Len(events))
  /\ exec' = x
  /\ busy' = (x.status = "running")
  /\ Owned(x) \/ Settled(x) \/ Unowned(x) \/ Quiet(x)
  /\ UNCHANGED <<typed, parked, steers, gateway, fates>>

Done(h) == [run EXCEPT ![h].phase = "done"]

(* The prompt resolved.                                                    *)
Resolved(h) ==
  LET d == IF dispatch.head = h THEN [dispatch EXCEPT !.accepted = TRUE]
           ELSE dispatch
  IN
  /\ run[h].phase = "taken"
  /\ \/ /\ Settles(d, busy, exec)
        /\ NotifyIdle(Done(h), NoDispatch, exec)
     \/ /\ ~Settles(d, busy, exec)
        /\ run' = Done(h) /\ dispatch' = d
        /\ UNCHANGED <<waiting, libBusy, swallow>>
  /\ UNCHANGED <<typed, parked, steers, busy, exec, gateway, events, fates>>

(* The prompt was refused: it is sent again, or the message goes back to   *)
(* the composer and the queue is released.                                 *)
Rejected(h) ==
  /\ run[h].phase \in {"busy", "refused", "lost"}
  /\ \/ /\ Retries(run[h])
        /\ run' = [run EXCEPT ![h].phase = "backoff"]
        /\ UNCHANGED <<waiting, libBusy, swallow, dispatch, returned>>
     \/ /\ ~Retries(run[h])
        /\ returned' = returned \cup run[h].batch
        /\ IF busy
           THEN /\ run' = Done(h) /\ dispatch' = NoDispatch
                /\ UNCHANGED <<waiting, libBusy, swallow>>
           ELSE NotifyIdle(Done(h), NoDispatch, exec)
  /\ UNCHANGED <<typed, parked, steers, busy, exec, gateway, events,
                 withdrawn, dropped>>

(* The backoff fires while no turn is shown; past the retry window the     *)
(* send no longer holds a busy refusal.                                    *)
Due(h) == run[h].phase = "backoff" /\ ~busy

Retry(h, holdBusy) ==
  /\ Due(h)
  /\ run' = [run EXCEPT ![h] = [batch |-> run[h].batch, phase |-> "requested",
                                holdBusy |-> holdBusy]]
  /\ dispatch' = Sent(h, exec)
  /\ UNCHANGED <<typed, waiting, lib, busy, exec, gateway, events, fates>>
-----------------------------------------------------------------------------
(* The gateway: one turn at a time, accepted before it reports running,    *)
(* reported over before the Session is released.                           *)

Begin ==
  /\ turn = 0
  /\ turns' = turns + 1 /\ turn' = turns + 1 /\ stage' = "accepted"

Answer(h) ==
  /\ run[h].phase = "requested"
  /\ \/ /\ Begin
        /\ takes' = [m \in Message |-> IF m \in run[h].batch THEN takes[m] + 1
                                                          ELSE takes[m]]
        /\ \E reply \in {"taken", "lost"} :
             run' = [run EXCEPT ![h].phase = reply]
     \/ /\ turn # 0
        /\ run' = [run EXCEPT ![h].phase = "busy"]
        /\ UNCHANGED <<turn, stage, turns, takes>>
     \/ /\ run' = [run EXCEPT ![h].phase = "refused"]
        /\ UNCHANGED <<turn, stage, turns, takes>>
  /\ UNCHANGED <<typed, waiting, lib, busy, dispatch, exec, foreign, events,
                 fates>>

Foreign ==
  /\ steers + foreign < MaxExtras
  /\ Begin
  /\ foreign' = foreign + 1
  /\ UNCHANGED <<typed, waiting, lib, busy, dispatch, run, exec, takes,
                 events, fates>>

Start ==
  /\ stage = "accepted"
  /\ stage' = "running"
  /\ events' = Append(events, [status |-> "running", turnId |-> turn])
  /\ UNCHANGED <<typed, waiting, lib, busy, dispatch, run, exec, turn, turns,
                 foreign, takes, fates>>

(* A turn may also fail before it runs.                                    *)
End ==
  /\ stage \in {"accepted", "running"}
  /\ stage' = "ended"
  /\ events' = Append(events, [status |-> "idle", turnId |-> turn])
  /\ UNCHANGED <<typed, waiting, lib, busy, dispatch, run, exec, turn, turns,
                 foreign, takes, fates>>

Release ==
  /\ stage = "ended"
  /\ stage' = "none" /\ turn' = 0
  /\ UNCHANGED <<typed, waiting, lib, busy, dispatch, run, exec, turns,
                 foreign, takes, events, fates>>
-----------------------------------------------------------------------------
Next ==
  \/ Enqueue \/ Stop
  \/ \E S \in SUBSET Message : Withdraw(S)
  \/ \E m \in Message : Steer(m)
  \/ \E k \in 1..Len(events) : Observe(k)
  \/ \E h \in Message : Resolved(h) \/ Rejected(h) \/ Answer(h)
  \/ \E h \in Message, holdBusy \in BOOLEAN : Retry(h, holdBusy)
  \/ Foreign \/ Start \/ End \/ Release

Spec == Init /\ [][Next]_vars

(* Timers fire, replies and updates arrive, and the gateway answers, ends  *)
(* and releases turns.  Nothing obliges the operator.                      *)
Fairness ==
  /\ WF_vars(\E k \in 1..Len(events) : Observe(k))
  /\ \A h \in Message :
       /\ WF_vars(Resolved(h)) /\ WF_vars(Rejected(h)) /\ WF_vars(Answer(h))
       /\ WF_vars(\E holdBusy \in BOOLEAN : Retry(h, holdBusy))
  /\ WF_vars(End) /\ WF_vars(Release)

FairSpec == Spec /\ Fairness
-----------------------------------------------------------------------------
QueueTypes ==
  /\ typed \in 0..N /\ waiting \subseteq Message
  /\ libBusy \in BOOLEAN /\ parked \in BOOLEAN /\ swallow \in BOOLEAN
  /\ steers \in 0..MaxExtras
  /\ busy \in BOOLEAN /\ dispatch \in Dispatch
  /\ run \in [Message -> Run]
  /\ exec \in Execution

GatewayTypes ==
  /\ turn \in Turn /\ turns \in Turn /\ foreign \in 0..MaxExtras
  /\ stage \in {"none", "accepted", "running", "ended"}
  /\ takes \in [Message -> Nat]

FateTypes ==
  /\ returned \subseteq Message
  /\ withdrawn \subseteq Message /\ dropped \subseteq Message

TypeOK ==
  QueueTypes /\ GatewayTypes /\ FateTypes /\ events \in Seq(Execution)

Started(h) == run[h].phase # "none"
InRun(m)   == \E h \in Message : Started(h) /\ m \in run[h].batch

(* A message the operator enqueued is in exactly one place: it waits, one  *)
(* run carries it, the operator took it back, or a resumed queue dropped   *)
(* it.  acp-message-queue.ts combines and moves messages between the       *)
(* library's rows, `queued` and the runs in four places.                   *)
OnePlace ==
  /\ \A m \in Message :
       m <= typed <=> m \in waiting \cup withdrawn \cup dropped \/ InRun(m)
  /\ waiting \cap withdrawn = {} /\ waiting \cap dropped = {}
  /\ withdrawn \cap dropped = {}
  /\ \A m \in waiting \cup withdrawn \cup dropped : ~InRun(m)
  /\ \A g, h \in Message :
       Started(g) /\ Started(h) /\ g # h => run[g].batch \cap run[h].batch = {}

(* While nothing was steered, one send at a time is out: the queue holds   *)
(* the next one until the last was accepted and its turn settled.          *)
OneInFlight ==
  steers = 0 =>
    \A g, h \in Message : Outbound(g) /\ Outbound(h) => g = h

(* While nothing was steered, no message overtakes an earlier one: once    *)
(* the gateway has a message, none before it is still waiting or going out.*)
NoOvertaking ==
  steers = 0 =>
    \A m, o \in Message :
      takes[m] > 0 /\ o < m =>
        /\ o \notin waiting
        /\ \A h \in Message :
             Outbound(h) /\ o \in run[h].batch => m \in run[h].batch

(* A shown turn always holds the library, so that a run started from it    *)
(* never finds the Session owned.                                          *)
BusyHoldsLibrary == busy => libBusy

(* Why one send at a time is out: `dispatch` names the run that is out and  *)
(* has not been accepted, and the library waits for it.                    *)
DispatchHolds ==
  steers = 0 =>
    \A h \in Message :
      Outbound(h) => libBusy /\ dispatch.head = h /\ ~dispatch.accepted

(* The head of a run travels in its own batch.                             *)
HeadInBatch == \A h \in Message : Started(h) => h \in run[h].batch

(* "Every send carries all that waits, combined into one message."         *)
EverySendCarriesAllThatWaits == dropped = {}

(* Every message that waits leaves the queue, unless a Stop parked it, or a *)
(* steer interrupted a turn, whose idle is the library's to make up for.    *)
QueueDrains ==
  \A m \in Message : m \in waiting ~> (m \notin waiting \/ parked \/ steers > 0)

(* The queue keeps the promise of the outbox.                              *)
place == [m \in Message |->
  IF m > typed THEN "composer"
  ELSE IF m \in waiting THEN "waiting"
  ELSE IF m \in withdrawn \cup dropped THEN "gone"
  ELSE IF \E h \in Message : Outbound(h) /\ m \in run[h].batch THEN "outbound"
  ELSE "settled"]

Outbox == INSTANCE Outbox
KeepsOutbox == Outbox!OutboxSpec
=============================================================================
