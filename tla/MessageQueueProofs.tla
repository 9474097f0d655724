------------------------- MODULE MessageQueueProofs -------------------------
(***************************************************************************)
(* Proofs about the message queue, for every number of messages, of turns  *)
(* of other clients and of steered rows.                                   *)
(***************************************************************************)
EXTENDS MessageQueue, TLAPS

(* The queue's variables keep their types through a call of the queue's    *)
(* `run`.                                                                  *)
LEMMA LaunchTypes ==
  ASSUME NEW runs \in [Message -> Run], NEW h \in Message,
         NEW batch \in SUBSET Message, NEW d \in Dispatch,
         NEW nowBusy \in BOOLEAN, NEW x \in Execution,
         Launch(runs, h, batch, d, nowBusy, x)
  PROVE  /\ run' \in [Message -> Run]
         /\ dispatch' \in Dispatch
         /\ libBusy' = TRUE
<1>1. run' \in [Message -> Run]
  BY DEF Launch, Run, Phase
<1>2. dispatch' \in Dispatch
  BY QueueAssumption DEF Launch, Sent, Dispatch, Execution, Turn, Message
<1>. QED BY <1>1, <1>2 DEF Launch

(* They also keep them through the library's notifyIdle.                   *)
LEMMA NotifyIdleTypes ==
  ASSUME TypeOK, NEW runs \in [Message -> Run], NEW d \in Dispatch,
         NEW x \in Execution, NotifyIdle(runs, d, x)
  PROVE  /\ run' \in [Message -> Run]
         /\ dispatch' \in Dispatch
         /\ libBusy' \in BOOLEAN /\ swallow' \in BOOLEAN
         /\ waiting' \subseteq Message
<1>1. CASE swallow /\ swallow' = FALSE /\ run' = runs /\ dispatch' = d
            /\ UNCHANGED <<waiting, libBusy>>
  BY <1>1 DEF TypeOK, QueueTypes
<1>2. CASE /\ parked \/ waiting = {}
           /\ swallow' = FALSE /\ libBusy' = FALSE
           /\ run' = runs /\ dispatch' = d
           /\ UNCHANGED waiting
  BY <1>2 DEF TypeOK, QueueTypes
<1>3. CASE /\ swallow' = FALSE
           /\ \E h \in Heads : Launch(runs, h, waiting, d, FALSE, x)
           /\ waiting' = LeftBy(waiting)
  <2>1. PICK h \in Message : Launch(runs, h, waiting, d, FALSE, x)
    BY <1>3 DEF Heads, TypeOK, QueueTypes
  <2>2. run' \in [Message -> Run] /\ dispatch' \in Dispatch /\ libBusy' = TRUE
    BY <2>1, LaunchTypes DEF TypeOK, QueueTypes
  <2>. QED BY <1>3, <2>2 DEF LeftBy, TypeOK, QueueTypes
<1>. QED BY <1>1, <1>2, <1>3 DEF NotifyIdle

(* Every variable of the queue keeps its type.                             *)
THEOREM TypeCorrect == Spec => []TypeOK
<1>1. Init => TypeOK
  <2>1. NoRun \in Run
    BY DEF NoRun, Run, Phase
  <2>2. NoDispatch \in Dispatch
    BY QueueAssumption DEF NoDispatch, Dispatch, Turn
  <2>3. [status |-> "idle", turnId |-> 0] \in Execution
    BY DEF Execution, Status, Turn
  <2>4. <<>> \in Seq(Execution)
    OBVIOUS
  <2>. SUFFICES ASSUME Init PROVE TypeOK
    OBVIOUS
  <2>5. run \in [Message -> Run]
    BY <2>1 DEF Init
  <2>6. /\ typed \in 0..N /\ steers \in 0..MaxExtras /\ foreign \in 0..MaxExtras
        /\ turn \in Turn /\ turns \in Turn
    BY QueueAssumption DEF Init, Turn
  <2>7. /\ libBusy \in BOOLEAN /\ parked \in BOOLEAN /\ swallow \in BOOLEAN
        /\ busy \in BOOLEAN
    BY DEF Init
  <2>. QED BY <2>2, <2>3, <2>4, <2>5, <2>6, <2>7
           DEF Init, TypeOK, QueueTypes, GatewayTypes, FateTypes
<1>2. TypeOK /\ [Next]_vars => TypeOK'
  <2>. SUFFICES ASSUME TypeOK, [Next]_vars PROVE TypeOK'
    OBVIOUS
  <2>. USE QueueAssumption
  <2>gw. UNCHANGED gateway => GatewayTypes'
    BY DEF TypeOK, GatewayTypes, gateway
  <2>none. NoDispatch \in Dispatch
    BY DEF NoDispatch, Dispatch, Turn
  <2>done. ASSUME NEW h \in Message PROVE Done(h) \in [Message -> Run]
    BY DEF Done, TypeOK, QueueTypes, FateTypes, Run, Phase
  <2>1. CASE Enqueue
    <3>1. typed' \in 0..N /\ typed + 1 \in Message
      BY <2>1 DEF Enqueue, TypeOK, QueueTypes, FateTypes, Message
    <3>2. CASE libBusy
      BY <2>gw, <2>1, <3>1, <3>2
            DEF Enqueue, TypeOK, QueueTypes, FateTypes, lib, fates
    <3>3. CASE ~libBusy /\ waiting = {}
      <4>1. Launch(run, typed + 1, {typed + 1}, dispatch, busy, exec)
        BY <2>1, <3>3 DEF Enqueue
      <4>2. run' \in [Message -> Run] /\ dispatch' \in Dispatch /\ libBusy' = TRUE
        BY <4>1, <3>1, LaunchTypes DEF TypeOK, QueueTypes, FateTypes
      <4>. QED BY <2>gw, <2>1, <3>1, <3>3, <4>2
            DEF Enqueue, TypeOK, QueueTypes, FateTypes, lib, fates
    <3>4. CASE ~libBusy /\ waiting # {}
      <4>1. PICK h \in Message : Launch(run, h, waiting, dispatch, busy, exec)
        BY <2>1, <3>4 DEF Enqueue, Heads, TypeOK, QueueTypes, FateTypes
      <4>2. run' \in [Message -> Run] /\ dispatch' \in Dispatch /\ libBusy' = TRUE
        BY <4>1, LaunchTypes DEF TypeOK, QueueTypes, FateTypes
      <4>. QED BY <2>gw, <2>1, <3>1, <3>4, <4>2
               DEF Enqueue, TypeOK, QueueTypes, FateTypes, lib, fates, LeftBy
    <3>. QED BY <3>2, <3>3, <3>4 DEF TypeOK, QueueTypes, FateTypes
  <2>2. CASE Stop
    BY <2>gw, <2>2 DEF Stop, TypeOK, QueueTypes, FateTypes, fates
  <2>3. ASSUME NEW S \in SUBSET Message, Withdraw(S) PROVE TypeOK'
    BY <2>gw, <2>3 DEF Withdraw, TypeOK, QueueTypes, FateTypes, lib
  <2>4. ASSUME NEW m \in Message, Steer(m) PROVE TypeOK'
    <3>1. Launch(run, m, waiting, dispatch, busy, exec)
      BY <2>4 DEF Steer
    <3>2. run' \in [Message -> Run] /\ dispatch' \in Dispatch /\ libBusy' = TRUE
      BY <3>1, LaunchTypes DEF TypeOK, QueueTypes, FateTypes
    <3>3. steers' \in 0..MaxExtras
      BY <2>4 DEF Steer, TypeOK, QueueTypes, GatewayTypes
    <3>. QED BY <2>gw, <2>4, <3>2, <3>3
          DEF Steer, TypeOK, QueueTypes, FateTypes, fates, LeftBy
  <2>5. ASSUME NEW k \in 1..Len(events), Observe(k) PROVE TypeOK'
    <3>1. events[k] \in Execution
      BY DEF TypeOK, QueueTypes, FateTypes
    <3>2. events' \in Seq(Execution)
      <4>1. events' = SubSeq(events, k + 1, Len(events))
        BY <2>5 DEF Observe
      <4>2. \A i \in (k + 1)..Len(events) : events[i] \in Execution
        BY DEF TypeOK, QueueTypes, FateTypes
      <4>3. \A i \in 1..(Len(events) - k) : events[i + k] \in Execution
        BY <4>2 DEF TypeOK, QueueTypes, FateTypes
      <4>. QED BY <4>1, <4>3 DEF TypeOK, QueueTypes, FateTypes
    <3>3. exec' \in Execution /\ busy' \in BOOLEAN
      BY <2>5, <3>1 DEF Observe
    <3>4. CASE Owned(events[k])
      <4>1. dispatch' \in Dispatch
        BY <3>4 DEF Owned, TypeOK, QueueTypes, Dispatch
      <4>. QED BY <2>gw, <2>5, <3>2, <3>3, <3>4, <4>1
            DEF Observe, Owned, TypeOK, QueueTypes, FateTypes, fates
    <3>5. CASE NotifyIdle(run, NoDispatch, events[k])
      <4>1. /\ run' \in [Message -> Run] /\ dispatch' \in Dispatch
            /\ libBusy' \in BOOLEAN /\ swallow' \in BOOLEAN
            /\ waiting' \subseteq Message
        BY <3>1, <3>5, <2>none, NotifyIdleTypes DEF TypeOK, QueueTypes
      <4>. QED BY <2>gw, <2>5, <3>2, <3>3, <4>1
            DEF Observe, TypeOK, QueueTypes, FateTypes, fates
    <3>6. CASE Quiet(events[k])
      BY <2>gw, <2>5, <3>2, <3>3, <3>6
      DEF Observe, Quiet, TypeOK, QueueTypes, FateTypes, fates
    <3>. QED BY <2>5, <3>4, <3>5, <3>6 DEF Observe, Settled, Unowned
  <2>6. ASSUME NEW h \in Message, Resolved(h) PROVE TypeOK'
    <3>1. CASE NotifyIdle(Done(h), NoDispatch, exec)
      <4>1. /\ run' \in [Message -> Run] /\ dispatch' \in Dispatch
            /\ libBusy' \in BOOLEAN /\ swallow' \in BOOLEAN
            /\ waiting' \subseteq Message
        BY <3>1, <2>none, <2>done, NotifyIdleTypes
              DEF TypeOK, QueueTypes, FateTypes
      <4>. QED BY <2>gw, <2>6, <4>1
            DEF Resolved, TypeOK, QueueTypes, FateTypes, fates
    <3>2. CASE /\ run' = Done(h)
               /\ dispatch' = IF dispatch.head = h
                              THEN [dispatch EXCEPT !.accepted = TRUE]
                              ELSE dispatch
               /\ UNCHANGED <<waiting, libBusy, swallow>>
      <4>1. dispatch' \in Dispatch
        BY <3>2 DEF TypeOK, QueueTypes, FateTypes, Dispatch
      <4>. QED BY <2>gw, <2>6, <2>done, <3>2, <4>1
            DEF Resolved, TypeOK, QueueTypes, FateTypes, fates
    <3>. QED BY <2>6, <3>1, <3>2 DEF Resolved
  <2>7. ASSUME NEW h \in Message, Rejected(h) PROVE TypeOK'
    <3>0. run[h].batch \subseteq Message
      BY DEF TypeOK, QueueTypes, FateTypes, Run
    <3>1. CASE NotifyIdle(Done(h), NoDispatch, exec)
      <4>1. /\ run' \in [Message -> Run] /\ dispatch' \in Dispatch
            /\ libBusy' \in BOOLEAN /\ swallow' \in BOOLEAN
            /\ waiting' \subseteq Message
        BY <3>1, <2>none, <2>done, NotifyIdleTypes
              DEF TypeOK, QueueTypes, FateTypes
      <4>2. returned' \subseteq Message
        BY <2>7, <3>0 DEF Rejected, TypeOK, QueueTypes, FateTypes
      <4>. QED BY <2>gw, <2>7, <4>1, <4>2
            DEF Rejected, TypeOK, QueueTypes, FateTypes
    <3>2. CASE /\ run' = Done(h) /\ dispatch' = NoDispatch
               /\ returned' = returned \cup run[h].batch
               /\ UNCHANGED <<waiting, libBusy, swallow>>
      BY <2>gw, <2>7, <2>none, <2>done, <3>0, <3>2
            DEF Rejected, TypeOK, QueueTypes, FateTypes
    <3>3. CASE /\ run' = [run EXCEPT ![h].phase = "backoff"]
               /\ UNCHANGED <<waiting, libBusy, swallow, dispatch, returned>>
      <4>1. run' \in [Message -> Run]
        BY <3>3 DEF TypeOK, QueueTypes, FateTypes, Run, Phase
      <4>. QED BY <2>gw, <2>7, <3>3, <4>1
            DEF Rejected, TypeOK, QueueTypes, FateTypes
    <3>. QED BY <2>7, <3>1, <3>2, <3>3 DEF Rejected
  <2>8. ASSUME NEW h \in Message, Answer(h) PROVE TypeOK'
    <3>1. run' \in [Message -> Run]
      BY <2>8 DEF Answer, TypeOK, QueueTypes, FateTypes, Run, Phase
    <3>2. /\ turn' \in Turn /\ turns' \in Turn
          /\ stage' \in {"none", "accepted", "running", "ended"}
          /\ takes' \in [Message -> Nat]
      BY <2>8 DEF Answer, Begin, TypeOK, GatewayTypes, Turn
    <3>. QED BY <2>8, <3>1, <3>2
          DEF Answer, TypeOK, GatewayTypes, QueueTypes, FateTypes, lib, fates
  <2>9. ASSUME NEW h \in Message, NEW holdBusy \in BOOLEAN, Retry(h, holdBusy)
        PROVE TypeOK'
    <3>1. run' \in [Message -> Run]
      BY <2>9 DEF Retry, TypeOK, QueueTypes, FateTypes, Run, Phase
    <3>2. dispatch' \in Dispatch
      BY <2>9
            DEF Retry, Sent, TypeOK, QueueTypes, FateTypes, Dispatch, Execution, Turn, Message
    <3>. QED BY <2>gw, <2>9, <3>1, <3>2
          DEF Retry, TypeOK, QueueTypes, FateTypes, lib, fates
  <2>10. CASE Foreign
    BY <2>10
          DEF Foreign, Begin, TypeOK, GatewayTypes, QueueTypes, FateTypes, Turn, lib, fates
  <2>11. CASE Start
    <3>1. [status |-> "running", turnId |-> turn] \in Execution
      BY DEF TypeOK, GatewayTypes, Execution, Status
    <3>. QED BY <2>11, <3>1
          DEF Start, TypeOK, GatewayTypes, QueueTypes, FateTypes, lib, fates
  <2>12. CASE End
    <3>1. [status |-> "idle", turnId |-> turn] \in Execution
      BY DEF TypeOK, GatewayTypes, Execution, Status
    <3>. QED BY <2>12, <3>1
          DEF End, TypeOK, GatewayTypes, QueueTypes, FateTypes, lib, fates
  <2>13. CASE Release
    BY <2>13
          DEF Release, TypeOK, GatewayTypes, QueueTypes, FateTypes, Turn, lib, fates
  <2>14. CASE UNCHANGED vars
    BY <2>gw, <2>14 DEF vars, TypeOK, QueueTypes, FateTypes, lib, fates
  <2>. QED BY <2>1, <2>2, <2>3, <2>4, <2>5, <2>6, <2>7, <2>8, <2>9, <2>10,
              <2>11, <2>12, <2>13, <2>14 DEF Next
<1>. QED BY <1>1, <1>2, PTL DEF Spec

(* Nothing is out when the library is told the Session is idle, so the run *)
(* it then starts is the only one out, and the dispatch names it.          *)
LEMMA NotifyIdleHolds ==
  ASSUME TypeOK, NEW runs \in [Message -> Run], NEW x,
         \A h \in Message : runs[h].phase \in {"none", "done"},
         NotifyIdle(runs, NoDispatch, x)
  PROVE  \A h \in Message : Outbound(h)' =>
           libBusy' /\ dispatch'.head = h /\ ~dispatch'.accepted
<1>1. CASE run' = runs
  BY <1>1 DEF Outbound
<1>2. CASE \E g \in Heads : Launch(runs, g, waiting, NoDispatch, FALSE, x)
  <2>1. PICK g \in Message : Launch(runs, g, waiting, NoDispatch, FALSE, x)
    BY <1>2 DEF Heads, TypeOK, QueueTypes
  <2>2. libBusy' /\ dispatch'.head = g /\ ~dispatch'.accepted
    BY <2>1 DEF Launch, Sent
  <2>3. \A h \in Message : h # g => run'[h] = runs[h]
    BY <2>1 DEF Launch
  <2>. QED BY <2>2, <2>3 DEF Outbound
<1>. QED BY <1>1, <1>2 DEF NotifyIdle

InFlightInv == TypeOK /\ BusyHoldsLibrary /\ DispatchHolds

(* The queue waits for the library exactly while a shown turn or its own   *)
(* send is out, and its dispatch names that send.                          *)
LEMMA InFlightInductive == InFlightInv /\ TypeOK' /\ [Next]_vars => InFlightInv'
<1>. SUFFICES ASSUME InFlightInv, TypeOK', [Next]_vars
     PROVE  BusyHoldsLibrary' /\ DispatchHolds'
  BY DEF InFlightInv
<1>. USE DEF InFlightInv
<1>types. /\ run \in [Message -> Run] /\ dispatch \in Dispatch
          /\ steers \in 0..MaxExtras /\ busy \in BOOLEAN /\ libBusy \in BOOLEAN
          /\ typed \in 0..N
  BY DEF TypeOK, QueueTypes
<1>same. ASSUME UNCHANGED <<run, dispatch, libBusy, busy, steers>>
         PROVE  BusyHoldsLibrary' /\ DispatchHolds'
  BY <1>same DEF BusyHoldsLibrary, DispatchHolds, Outbound
<1>rest. ASSUME NEW h \in Message, steers = 0, Outbound(h)
         PROVE  /\ libBusy /\ dispatch.head = h /\ ~dispatch.accepted
                /\ \A g \in Message \ {h} : run[g].phase \in {"none", "done"}
  BY <1>rest DEF DispatchHolds, Outbound
<1>done. ASSUME NEW h \in Message
         PROVE  /\ Done(h) \in [Message -> Run]
                /\ Done(h)[h].phase = "done"
                /\ \A g \in Message \ {h} : Done(h)[g] = run[g]
  BY <1>types DEF Done, Run, Phase
<1>1. CASE Enqueue
  <2>1. CASE libBusy
    BY <1>1, <1>same, <2>1 DEF Enqueue, lib
  <2>2. CASE ~libBusy
    <3>1. PICK h \in Message, batch \in SUBSET Message :
            Launch(run, h, batch, dispatch, busy, exec)
      BY <1>1, <2>2 DEF Enqueue, Heads, TypeOK, QueueTypes, Message
    <3>2. ~busy /\ busy' = busy /\ steers' = steers
      BY <1>1, <2>2 DEF Enqueue, BusyHoldsLibrary
    <3>3. libBusy' /\ dispatch'.head = h /\ ~dispatch'.accepted
      BY <3>1, <3>2 DEF Launch, Sent
    <3>4. \A g \in Message \ {h} : run'[g] = run[g]
      BY <1>types, <3>1 DEF Launch
    <3>5. ASSUME steers = 0, NEW g \in Message \ {h} PROVE ~Outbound(g)'
      BY <2>2, <3>4, <3>5 DEF DispatchHolds, Outbound
    <3>. QED BY <3>2, <3>3, <3>5 DEF BusyHoldsLibrary, DispatchHolds
  <2>. QED BY <2>1, <2>2
<1>2. CASE Stop
  BY <1>2, <1>same DEF Stop
<1>3. CASE \E S \in SUBSET Message : Withdraw(S)
  BY <1>3, <1>same DEF Withdraw, lib
<1>4. ASSUME NEW m \in Message, Steer(m)
      PROVE  BusyHoldsLibrary' /\ DispatchHolds'
  <2>1. steers' # 0
    BY <1>4, <1>types DEF Steer
  <2>2. libBusy'
    BY <1>4 DEF Steer, Launch
  <2>. QED BY <2>1, <2>2 DEF BusyHoldsLibrary, DispatchHolds
<1>idle. ASSUME NEW runs \in [Message -> Run], NEW x,
                steers = 0 => \A h \in Message : runs[h].phase \in {"none", "done"},
                NotifyIdle(runs, NoDispatch, x), ~busy', steers' = steers
         PROVE  BusyHoldsLibrary' /\ DispatchHolds'
  BY <1>idle, NotifyIdleHolds DEF BusyHoldsLibrary, DispatchHolds
<1>5. ASSUME NEW k \in 1..Len(events), Observe(k)
      PROVE  BusyHoldsLibrary' /\ DispatchHolds'
  <2>0. steers' = steers /\ busy' = (events[k].status = "running")
    BY <1>5 DEF Observe
  <2>1. CASE Owned(events[k])
    <3>1. libBusy' /\ run' = run
      BY <2>1 DEF Owned, BusyHoldsLibrary
    <3>2. dispatch'.head = dispatch.head /\ dispatch'.accepted = dispatch.accepted
      BY <2>1, <1>types DEF Owned, Dispatch
    <3>. QED BY <2>0, <3>1, <3>2 DEF BusyHoldsLibrary, DispatchHolds, Outbound
  <2>2. CASE Settled(events[k]) \/ Unowned(events[k])
    <3>1. dispatch.head = 0 \/ dispatch.accepted
      BY <2>2 DEF Settled, Unowned, Settles
    <3>2. steers = 0 => \A h \in Message : run[h].phase \in {"none", "done"}
      BY <3>1 DEF DispatchHolds, Outbound, Message
    <3>. QED BY <1>idle, <1>types, <2>0, <2>2, <3>2 DEF Settled, Unowned
  <2>3. CASE Quiet(events[k])
    BY <2>0, <2>3 DEF Quiet, BusyHoldsLibrary, DispatchHolds, Outbound
  <2>. QED BY <1>5, <2>1, <2>2, <2>3 DEF Observe
<1>6. ASSUME NEW h \in Message, Resolved(h)
      PROVE  BusyHoldsLibrary' /\ DispatchHolds'
  <2>0. busy' = busy /\ steers' = steers /\ Outbound(h)
    BY <1>6 DEF Resolved, Outbound
  <2>1. steers = 0 => \A g \in Message : Done(h)[g].phase \in {"none", "done"}
    BY <1>done, <1>rest, <2>0
  <2>2. CASE NotifyIdle(Done(h), NoDispatch, exec) /\ ~busy
    BY <1>done, <1>idle, <2>0, <2>1, <2>2
  <2>3. CASE run' = Done(h) /\ UNCHANGED libBusy
    BY <2>0, <2>1, <2>3 DEF BusyHoldsLibrary, DispatchHolds, Outbound
  <2>. QED BY <1>6, <2>2, <2>3 DEF Resolved, Settles
<1>7. ASSUME NEW h \in Message, Rejected(h)
      PROVE  BusyHoldsLibrary' /\ DispatchHolds'
  <2>0. busy' = busy /\ steers' = steers /\ Outbound(h)
    BY <1>7 DEF Rejected, Outbound
  <2>1. steers = 0 => \A g \in Message : Done(h)[g].phase \in {"none", "done"}
    BY <1>done, <1>rest, <2>0
  <2>2. CASE NotifyIdle(Done(h), NoDispatch, exec) /\ ~busy
    BY <1>done, <1>idle, <2>0, <2>1, <2>2
  <2>3. CASE run' = Done(h) /\ UNCHANGED libBusy
    BY <2>0, <2>1, <2>3 DEF BusyHoldsLibrary, DispatchHolds, Outbound
  <2>4. CASE /\ run' = [run EXCEPT ![h].phase = "backoff"]
             /\ UNCHANGED <<libBusy, dispatch>>
    <3>1. \A g \in Message : Outbound(g)' => Outbound(g)
      BY <1>types, <2>0, <2>4 DEF Outbound
    <3>. QED BY <2>0, <2>4, <3>1 DEF BusyHoldsLibrary, DispatchHolds
  <2>. QED BY <1>7, <2>2, <2>3, <2>4 DEF Rejected
<1>8. ASSUME NEW h \in Message, Answer(h)
      PROVE  BusyHoldsLibrary' /\ DispatchHolds'
  <2>1. UNCHANGED <<dispatch, libBusy, busy, steers>>
    BY <1>8 DEF Answer, lib
  <2>2. \A g \in Message : Outbound(g)' => Outbound(g)
    BY <1>8, <1>types DEF Answer, Outbound
  <2>. QED BY <2>1, <2>2 DEF BusyHoldsLibrary, DispatchHolds
<1>9. ASSUME NEW h \in Message, NEW holdBusy \in BOOLEAN, Retry(h, holdBusy)
      PROVE  BusyHoldsLibrary' /\ DispatchHolds'
  <2>1. UNCHANGED <<libBusy, busy, steers>> /\ Outbound(h)
    BY <1>9 DEF Retry, Due, lib, Outbound
  <2>2. dispatch'.head = h /\ ~dispatch'.accepted
    BY <1>9 DEF Retry, Sent
  <2>3. \A g \in Message \ {h} : run'[g] = run[g]
    BY <1>9, <1>types DEF Retry
  <2>4. steers = 0 => libBusy /\ \A g \in Message \ {h} : ~Outbound(g)'
    BY <1>rest, <2>1, <2>3 DEF Outbound
  <2>. QED BY <2>1, <2>2, <2>4 DEF BusyHoldsLibrary, DispatchHolds
<1>10. CASE Foreign \/ Start \/ End \/ Release
  BY <1>10, <1>same DEF Foreign, Start, End, Release, lib
<1>11. CASE UNCHANGED vars
  BY <1>11, <1>same DEF vars, lib
<1>. QED BY <1>1, <1>2, <1>3, <1>4, <1>5, <1>6, <1>7, <1>8, <1>9, <1>10, <1>11
     DEF Next

(* While no row was steered, at most one send is out: the queue holds the  *)
(* next one until the last was accepted and its turn settled.              *)
THEOREM SingleFlight == Spec => []OneInFlight
<1>1. Init => BusyHoldsLibrary /\ DispatchHolds
  BY DEF Init, BusyHoldsLibrary, DispatchHolds, Outbound, NoRun
<1>2. BusyHoldsLibrary /\ DispatchHolds /\ TypeOK /\ TypeOK' /\ [Next]_vars
      => BusyHoldsLibrary' /\ DispatchHolds'
  BY InFlightInductive DEF InFlightInv
<1>3. DispatchHolds => OneInFlight
  BY DEF DispatchHolds, OneInFlight
<1>. QED BY <1>1, <1>2, <1>3, TypeCorrect, PTL DEF Spec
-----------------------------------------------------------------------------
(* No message is lost track of or carried twice, and the queue keeps the   *)
(* promise of Outbox.                                                      *)

PlaceInv == TypeOK /\ OnePlace /\ HeadInBatch

(* The gateway has taken what the run carries, or will not hear of it.     *)
Answered == {"taken", "lost", "done"}

(* The same runs have started, with the same batches, and none has gone    *)
(* back: what is over stays over, and what was answered stays so.          *)
SameBatches(runs) ==
  \A h \in Message :
    /\ runs[h].phase # "none" <=> Started(h)
    /\ Started(h) => runs[h].batch = run[h].batch
    /\ run[h].phase = "done" => runs[h].phase = "done"
    /\ run[h].phase \in Answered => runs[h].phase \in Answered

(* A message some run carries that is not over.                            *)
Carried(m) == \E h \in Message : Outbound(h) /\ m \in run[h].batch

(* The gateway has only taken what an answered run carries.                *)
TakenIsAnswered ==
  \A m \in Message :
    takes[m] # 0 => \E h \in Message : /\ run[h].phase \in Answered
                                       /\ m \in run[h].batch

(* What a step that the gateway does not take a message in may do: none    *)
(* goes back, and none goes out that is not carried.                       *)
MovesAlong ==
  /\ \A m \in Message : m <= typed => m <= typed'
  /\ withdrawn \cup dropped \subseteq withdrawn' \cup dropped'
  /\ \A m \in Message : InRun(m) => InRun(m)'
  /\ \A m \in waiting' : m \in waiting \/ ~(m <= typed)
  /\ \A m \in Message : InRun(m) /\ Carried(m)' => Carried(m)
  /\ \A m \in Message : InRun(m)' => InRun(m) \/ Carried(m)'

(* What waits is newer than what was ever sent and, while no row was       *)
(* steered, what is out is newer than what was sent before it.             *)
NewestLast ==
  /\ \A o \in waiting, m \in Message : InRun(m) => m < o
  /\ steers = 0 =>
       \A g, h \in Message :
         Outbound(h) /\ Started(g) /\ g # h =>
           \A a \in run[g].batch, b \in run[h].batch : a < b

StillNewestLast ==
  NewestLast /\ OneInFlight' /\ (steers' = 0 => steers = 0) => NewestLast'

StillAnswered == TakenIsAnswered /\ takes' = takes => TakenIsAnswered'

Onward ==
  OnePlace' /\ HeadInBatch' /\ MovesAlong /\ StillAnswered /\ StillNewestLast

(* A run that only changes how far it got moves no message.                *)
LEMMA SamePlaces ==
  ASSUME PlaceInv, SameBatches(run'), UNCHANGED <<typed, waiting, withdrawn, dropped>>
  PROVE  Onward
<1>1. \A h \in Message : Started(h)' <=> Started(h)
  BY DEF SameBatches, Started
<1>2. \A h \in Message : Started(h) => run'[h].batch = run[h].batch
  BY DEF SameBatches
<1>3. \A m \in Message : InRun(m)' <=> InRun(m)
  BY <1>1, <1>2 DEF InRun
<1>4. waiting \cup withdrawn \cup dropped \subseteq Message
  BY DEF PlaceInv, TypeOK, QueueTypes, FateTypes
<1>5. HeadInBatch'
  BY <1>1, <1>2 DEF PlaceInv, HeadInBatch
<1>6. \A g, h \in Message :
        Started(g)' /\ Started(h)' /\ g # h
          => run'[g].batch \cap run'[h].batch = {}
  BY <1>1, <1>2 DEF PlaceInv, OnePlace
<1>7. OnePlace'
  BY <1>3, <1>4, <1>6 DEF PlaceInv, OnePlace
<1>8. \A m \in Message : InRun(m) /\ Carried(m)' => Carried(m)
  BY <1>1, <1>2 DEF SameBatches, Carried, Outbound, Started
<1>9. MovesAlong
  BY <1>3, <1>8 DEF MovesAlong
<1>10. StillAnswered
  BY <1>2 DEF StillAnswered, TakenIsAnswered, SameBatches, Started, Answered
<1>11. \A h \in Message : Outbound(h)' => Outbound(h)
  BY DEF SameBatches, Outbound, Started
<1>12. StillNewestLast
  BY <1>1, <1>2, <1>3, <1>4, <1>11 DEF StillNewestLast, NewestLast, Outbound, Started
<1>. QED BY <1>5, <1>7, <1>9, <1>10, <1>12 DEF Onward

(* A run that starts takes what waited, and a message it does not take     *)
(* although it is new is dropped.                                          *)
LEMMA LaunchKeepsPlaces ==
  ASSUME PlaceInv,
         NEW runs \in [Message -> Run], SameBatches(runs),
         NEW fresh \in SUBSET Message,
         \A m \in Message : m \in fresh => ~(m <= typed),
         \A m \in Message : m <= typed' <=> (m <= typed \/ m \in fresh),
         NEW h \in Message, NEW batch \in SUBSET Message,
         h \in batch, batch \subseteq waiting \cup fresh,
         NEW d, NEW nowBusy, NEW x, Launch(runs, h, batch, d, nowBusy, x),
         waiting \subseteq batch, waiting' = {},
         withdrawn' = withdrawn, dropped' = dropped \cup (fresh \ batch)
  PROVE  Onward
<1>1. ~Started(h)
  BY DEF PlaceInv, OnePlace, HeadInBatch, InRun
<1>2. /\ run'[h].batch = batch /\ run'[h].phase # "none"
      /\ \A g \in Message \ {h} : run'[g] = runs[g]
  BY DEF Launch
<1>3. \A g \in Message : Started(g)' <=> (Started(g) \/ g = h)
  BY <1>2 DEF SameBatches, Started
<1>4. \A g \in Message : Started(g) => run'[g].batch = run[g].batch
  BY <1>1, <1>2 DEF SameBatches
<1>5. \A m \in Message : InRun(m)' <=> (InRun(m) \/ m \in batch)
  BY <1>2, <1>3, <1>4 DEF InRun
<1>6. \A m \in batch : ~InRun(m)
  BY DEF PlaceInv, OnePlace
<1>7. HeadInBatch'
  BY <1>2, <1>3, <1>4 DEF PlaceInv, HeadInBatch
<1>8. \A m \in Message :
        m \in fresh => m \notin waiting \cup withdrawn \cup dropped /\ ~InRun(m)
  BY DEF PlaceInv, OnePlace
<1>9. /\ waiting \subseteq Message /\ withdrawn \subseteq Message
      /\ dropped \subseteq Message
  BY DEF PlaceInv, TypeOK, QueueTypes, FateTypes
<1>10. \A m \in Message :
         m <= typed' <=> m \in waiting' \cup withdrawn' \cup dropped' \/ InRun(m)'
  BY <1>5 DEF PlaceInv, OnePlace
<1>11. /\ waiting' \cap withdrawn' = {} /\ waiting' \cap dropped' = {}
       /\ withdrawn' \cap dropped' = {}
  BY <1>8 DEF PlaceInv, OnePlace
<1>12. \A m \in waiting' \cup withdrawn' \cup dropped' : ~InRun(m)'
  BY <1>5, <1>8, <1>9 DEF PlaceInv, OnePlace
<1>13. \A g, k \in Message :
         Started(g)' /\ Started(k)' /\ g # k
           => run'[g].batch \cap run'[k].batch = {}
  <2>. SUFFICES ASSUME NEW g \in Message, NEW k \in Message,
                       Started(g)', Started(k)', g # k
                PROVE  run'[g].batch \cap run'[k].batch = {}
    OBVIOUS
  <2>0. run[g].batch \subseteq Message /\ run[k].batch \subseteq Message
    BY DEF PlaceInv, TypeOK, QueueTypes, Run
  <2>1. CASE g # h /\ k # h
    BY <1>3, <1>4, <2>1 DEF PlaceInv, OnePlace
  <2>2. CASE g = h
    BY <1>2, <1>3, <1>4, <1>6, <2>0, <2>2 DEF InRun
  <2>3. CASE k = h
    BY <1>2, <1>3, <1>4, <1>6, <2>0, <2>3 DEF InRun
  <2>. QED BY <2>1, <2>2, <2>3
<1>14. \A m \in batch : Carried(m)'
  BY DEF Launch, Carried, Outbound
<1>15. \A m \in Message : InRun(m) /\ Carried(m)' => Carried(m)
  <2>. SUFFICES ASSUME NEW m \in Message, InRun(m), Carried(m)'
                PROVE  Carried(m)
    OBVIOUS
  <2>1. PICK g \in Message : Outbound(g)' /\ m \in run'[g].batch
    BY DEF Carried
  <2>2. g # h
    BY <1>2, <1>6, <2>1
  <2>3. runs[g].phase \notin {"none", "done"} /\ m \in runs[g].batch
    BY <1>2, <2>1, <2>2 DEF Outbound
  <2>. QED BY <2>3 DEF SameBatches, Carried, Outbound, Started
<1>16. MovesAlong
  BY <1>5, <1>14, <1>15 DEF MovesAlong
<1>17. StillAnswered
  <2>. SUFFICES ASSUME TakenIsAnswered, takes' = takes,
                       NEW m \in Message, takes[m] # 0
                PROVE  \E g \in Message : /\ run'[g].phase \in Answered
                                          /\ m \in run'[g].batch
    BY DEF StillAnswered, TakenIsAnswered
  <2>1. PICK g \in Message : run[g].phase \in Answered /\ m \in run[g].batch
    BY DEF TakenIsAnswered
  <2>2. Started(g) /\ g # h
    BY <1>1, <2>1 DEF Started, Answered
  <2>. QED BY <1>2, <2>1, <2>2 DEF SameBatches
<1>18. StillNewestLast
  <2>. SUFFICES ASSUME NewestLast, OneInFlight', steers' = 0,
                       NEW g \in Message, NEW k \in Message,
                       Outbound(k)', Started(g)', g # k,
                       NEW a \in run'[g].batch, NEW b \in run'[k].batch
                PROVE  a < b
    BY DEF StillNewestLast, NewestLast
  <2>1. Outbound(h)'
    BY DEF Launch, Outbound
  <2>2. k = h
    BY <2>1 DEF OneInFlight
  <2>3. Started(g) /\ a \in run[g].batch /\ b \in batch
    BY <1>2, <1>3, <1>4, <2>2
  <2>4. a \in Message /\ InRun(a)
    BY <2>3 DEF InRun, PlaceInv, TypeOK, QueueTypes, Run
  <2>5. CASE b \in waiting
    BY <2>4, <2>5 DEF NewestLast
  <2>6. CASE b \in fresh
    <3>1. a <= typed /\ ~(b <= typed)
      BY <2>4, <2>6 DEF PlaceInv, OnePlace
    <3>2. typed \in Int
      BY QueueAssumption DEF PlaceInv, TypeOK, QueueTypes
    <3>3. a \in Int /\ b \in Int
      BY <2>4, <2>6 DEF Message
    <3>. QED BY <3>1, <3>2, <3>3
  <2>. QED BY <2>3, <2>5, <2>6
<1>. QED BY <1>7, <1>10, <1>11, <1>12, <1>13, <1>16, <1>17, <1>18
     DEF OnePlace, Onward

(* All that waits goes out, and nothing is new.                            *)
LEMMA LaunchAllKeepsPlaces ==
  ASSUME PlaceInv,
         NEW runs \in [Message -> Run], SameBatches(runs),
         NEW h \in waiting, NEW d, NEW nowBusy, NEW x,
         Launch(runs, h, waiting, d, nowBusy, x), waiting' = {},
         UNCHANGED <<typed, withdrawn, dropped>>
  PROVE  Onward
<1>1. waiting \in SUBSET Message /\ h \in Message
  BY DEF PlaceInv, TypeOK, QueueTypes
<1>2. DEFINE fresh == {}
<1>3. /\ fresh \in SUBSET Message
      /\ \A m \in Message : m \in fresh => ~(m <= typed)
      /\ \A m \in Message : m <= typed' <=> (m <= typed \/ m \in fresh)
      /\ waiting \subseteq waiting \cup fresh
      /\ waiting \subseteq waiting
      /\ withdrawn' = withdrawn /\ dropped' = dropped \cup (fresh \ waiting)
  OBVIOUS
<1>. HIDE DEF fresh
<1>. QED BY <1>1, <1>3, LaunchKeepsPlaces

(* The library's notifyIdle starts the run of what waits, or none.         *)
LEMMA NotifyIdleKeepsPlaces ==
  ASSUME PlaceInv, NEW runs \in [Message -> Run], SameBatches(runs),
         NEW d, NEW x, NotifyIdle(runs, d, x),
         UNCHANGED <<typed, withdrawn, dropped>>
  PROVE  Onward
<1>1. CASE run' = runs /\ UNCHANGED waiting
  BY <1>1, SamePlaces
<1>2. CASE (\E h \in Heads : Launch(runs, h, waiting, d, FALSE, x))
            /\ waiting' = LeftBy(waiting)
  <2>1. PICK h \in waiting : Launch(runs, h, waiting, d, FALSE, x)
    BY <1>2 DEF Heads
  <2>. QED BY <1>2, <2>1, LaunchAllKeepsPlaces DEF LeftBy
<1>. QED BY <1>1, <1>2 DEF NotifyIdle

(* Every step keeps each message in one place and moves it only onward.       *)
LEMMA StepsGoOnward == PlaceInv /\ TypeOK' /\ [Next]_vars => Onward
<1>. SUFFICES ASSUME PlaceInv, TypeOK', [Next]_vars
              PROVE  Onward
  OBVIOUS
<1>types. /\ run \in [Message -> Run] /\ typed \in 0..N
          /\ waiting \subseteq Message
  BY DEF PlaceInv, TypeOK, QueueTypes
<1>same. ASSUME UNCHANGED <<typed, waiting, withdrawn, dropped, run>>
         PROVE  Onward
  BY <1>same, SamePlaces DEF SameBatches, Started
<1>done. ASSUME NEW h \in Message, Outbound(h)
         PROVE  Done(h) \in [Message -> Run] /\ SameBatches(Done(h))
  BY <1>done, <1>types DEF Done, Run, Phase, SameBatches, Started, Outbound, Answered
<1>1. CASE Enqueue
  <2>0. /\ typed + 1 \in Message /\ typed' = typed + 1
        /\ withdrawn' = withdrawn
        /\ \A m \in Message : m <= typed' <=> (m <= typed \/ m = typed + 1)
        /\ ~(typed + 1 <= typed)
    BY <1>1, <1>types, QueueAssumption DEF Enqueue, Message
  <2>1. CASE libBusy
    <3>1. /\ waiting' = waiting \cup {typed + 1}
          /\ UNCHANGED <<run, withdrawn, dropped>>
      BY <1>1, <2>1 DEF Enqueue
    <3>2. typed + 1 \notin waiting \cup withdrawn \cup dropped
          /\ ~InRun(typed + 1)
      BY <2>0 DEF PlaceInv, OnePlace
    <3>3. \A m \in Message : InRun(m)' <=> InRun(m)
      BY <3>1 DEF InRun, Started
    <3>4. \A h \in Message :
            /\ Started(h)' <=> Started(h)
            /\ run'[h].batch = run[h].batch
      BY <3>1 DEF Started
    <3>5. waiting \cup withdrawn \cup dropped \subseteq Message
      BY DEF PlaceInv, TypeOK, QueueTypes, FateTypes
    <3>6. HeadInBatch'
      BY <3>4 DEF PlaceInv, HeadInBatch
    <3>7. \A g, h \in Message :
            Started(g)' /\ Started(h)' /\ g # h
              => run'[g].batch \cap run'[h].batch = {}
      BY <3>4 DEF PlaceInv, OnePlace
    <3>8. \A m \in Message :
            m <= typed' <=> m \in waiting' \cup withdrawn' \cup dropped' \/ InRun(m)'
      BY <2>0, <3>1, <3>3 DEF PlaceInv, OnePlace
    <3>9. /\ waiting' \cap withdrawn' = {} /\ waiting' \cap dropped' = {}
          /\ withdrawn' \cap dropped' = {}
          /\ \A m \in waiting' \cup withdrawn' \cup dropped' : ~InRun(m)'
      BY <2>0, <3>1, <3>2, <3>3, <3>5 DEF PlaceInv, OnePlace
    <3>10. MovesAlong /\ StillAnswered
      BY <2>0, <3>1, <3>3, <3>4
         DEF MovesAlong, Carried, Outbound, StillAnswered, TakenIsAnswered
    <3>11. StillNewestLast
      <4>1. \A m \in Message : InRun(m) => m < typed + 1
        BY <1>types DEF PlaceInv, OnePlace, Message
      <4>. QED BY <3>1, <3>3, <3>4, <4>1 DEF StillNewestLast, NewestLast, Outbound
    <3>. QED BY <3>6, <3>7, <3>8, <3>9, <3>10, <3>11 DEF OnePlace, Onward
  <2>2. CASE ~libBusy /\ waiting = {}
    <3>1. /\ Launch(run, typed + 1, {typed + 1}, dispatch, busy, exec)
          /\ UNCHANGED <<waiting, dropped>>
      BY <1>1, <2>2 DEF Enqueue
    <3>. QED BY <1>types, <2>0, <2>2, <3>1, LaunchKeepsPlaces DEF SameBatches, Started
  <2>3. CASE ~libBusy /\ waiting # {}
    <3>1. PICK h \in waiting : Launch(run, h, waiting, dispatch, busy, exec)
      BY <1>1, <2>3 DEF Enqueue, Heads
    <3>2. waiting' = {} /\ dropped' = dropped \cup {typed + 1}
      BY <1>1, <2>3 DEF Enqueue, LeftBy
    <3>3. typed + 1 \notin waiting
      BY <2>0 DEF PlaceInv, OnePlace
    <3>4. SameBatches(run)
      BY DEF SameBatches, Started
    <3>5. /\ dropped' = dropped \cup ({typed + 1} \ waiting)
          /\ waiting \subseteq waiting /\ h \in Message /\ waiting \subseteq waiting \cup {typed + 1}
      BY <1>types, <3>2, <3>3
    <3>. QED BY <1>types, <2>0, <3>1, <3>2, <3>4, <3>5, LaunchKeepsPlaces
  <2>. QED BY <2>1, <2>2, <2>3
<1>2. CASE \E S \in SUBSET Message : Withdraw(S)
  <2>1. PICK S \in SUBSET Message : Withdraw(S)
    BY <1>2
  <2>2. /\ S \subseteq waiting /\ waiting' = waiting \ S
        /\ withdrawn' = withdrawn \cup S /\ UNCHANGED <<typed, dropped, run>>
    BY <2>1 DEF Withdraw, fates
  <2>3. \A m \in Message : InRun(m)' <=> InRun(m)
    BY <2>2 DEF InRun, Started
  <2>4. \A h \in Message : Started(h)' <=> Started(h)
    BY <2>2 DEF Started
  <2>5. waiting \cup withdrawn \cup dropped \subseteq Message
    BY DEF PlaceInv, TypeOK, QueueTypes, FateTypes
  <2>6. OnePlace' /\ HeadInBatch'
    BY <2>2, <2>3, <2>4, <2>5 DEF PlaceInv, OnePlace, HeadInBatch
  <2>7. MovesAlong /\ StillAnswered
    BY <2>2, <2>3
       DEF MovesAlong, Carried, Outbound, StillAnswered, TakenIsAnswered
  <2>8. StillNewestLast
    BY <2>2, <2>3, <2>4 DEF StillNewestLast, NewestLast, Outbound
  <2>. QED BY <2>6, <2>7, <2>8 DEF Onward
<1>3. ASSUME NEW m \in Message, Steer(m) PROVE Onward
  <2>1. /\ m \in waiting /\ Launch(run, m, waiting, dispatch, busy, exec)
        /\ waiting' = {} /\ UNCHANGED <<typed, withdrawn, dropped>>
    BY <1>3 DEF Steer, LeftBy, fates
  <2>2. SameBatches(run)
    BY DEF SameBatches, Started
  <2>. QED BY <1>types, <2>1, <2>2, LaunchAllKeepsPlaces
<1>4. ASSUME NEW k \in 1..Len(events), Observe(k)
      PROVE  Onward
  <2>1. UNCHANGED <<typed, withdrawn, dropped>>
    BY <1>4 DEF Observe, fates
  <2>2. CASE NotifyIdle(run, NoDispatch, events[k])
    BY <1>types, <2>1, <2>2, NotifyIdleKeepsPlaces DEF SameBatches, Started
  <2>3. CASE UNCHANGED <<waiting, run>>
    BY <1>same, <2>1, <2>3
  <2>. QED BY <1>4, <2>2, <2>3 DEF Observe, Owned, Settled, Unowned, Quiet
<1>5. ASSUME NEW h \in Message, Resolved(h) \/ Rejected(h)
      PROVE  Onward
  <2>1. UNCHANGED <<typed, withdrawn, dropped>> /\ Outbound(h)
    BY <1>5 DEF Resolved, Rejected, Outbound, fates
  <2>2. CASE NotifyIdle(Done(h), NoDispatch, exec)
    BY <1>done, <2>1, <2>2, NotifyIdleKeepsPlaces
  <2>3. CASE run' = Done(h) /\ UNCHANGED waiting
    BY <1>done, <2>1, <2>3, SamePlaces
  <2>4. CASE /\ Retries(run[h])
             /\ run' = [run EXCEPT ![h].phase = "backoff"] /\ UNCHANGED waiting
    <3>1. SameBatches(run')
      BY <1>types, <2>1, <2>4 DEF SameBatches, Started, Outbound, Run, Answered, Retries
    <3>. QED BY <2>1, <2>4, <3>1, SamePlaces
  <2>. QED BY <1>5, <2>2, <2>3, <2>4 DEF Resolved, Rejected
<1>6. ASSUME NEW h \in Message,
             Answer(h) \/ \E holdBusy \in BOOLEAN : Retry(h, holdBusy)
      PROVE  Onward
  <2>1. UNCHANGED <<typed, waiting, withdrawn, dropped>> /\ Outbound(h)
    BY <1>6 DEF Answer, Retry, Due, Outbound, fates
  <2>2. /\ run'[h].phase # "none" /\ run'[h].batch = run[h].batch
        /\ \A g \in Message \ {h} : run'[g] = run[g]
    BY <1>6, <1>types DEF Answer, Retry, Run
  <2>3. run[h].phase \notin Answered
    BY <1>6 DEF Answer, Retry, Due, Answered
  <2>4. SameBatches(run')
    BY <2>1, <2>2, <2>3 DEF SameBatches, Started, Outbound, Answered
  <2>. QED BY <2>1, <2>4, SamePlaces
<1>7. CASE Stop \/ Foreign \/ Start \/ End \/ Release \/ UNCHANGED vars
  BY <1>7, <1>same DEF Stop, Foreign, Start, End, Release, vars, fates
<1>. QED BY <1>1, <1>2, <1>3, <1>4, <1>5, <1>6, <1>7 DEF Next

(* An answer may be the gateway's taking the run.                          *)
LEMMA AnsweredInductive ==
  ASSUME PlaceInv, TakenIsAnswered, StillAnswered, [Next]_vars
  PROVE  TakenIsAnswered'
<1>1. CASE takes' = takes
  BY <1>1 DEF StillAnswered
<1>2. CASE takes' # takes
  <2>1. PICK h \in Message : Answer(h)
    BY <1>2 DEF Next, Enqueue, Stop, Withdraw, Steer, Observe, Resolved,
                Rejected, Retry, Foreign, Start, End, Release, gateway, vars
  <2>2. /\ \A m \in Message : takes'[m] # takes[m] => m \in run[h].batch
        /\ run[h].phase = "requested"
        /\ run'[h].phase \in {"taken", "lost"} /\ run'[h].batch = run[h].batch
        /\ \A g \in Message \ {h} : run'[g] = run[g]
    BY <1>2, <2>1 DEF Answer, PlaceInv, TypeOK, QueueTypes, GatewayTypes, Run
  <2>. QED BY <2>2 DEF TakenIsAnswered, Answered
<1>. QED BY <1>1, <1>2

(* A message the operator wrote is in exactly one place: it waits, one run *)
(* carries it, the operator took it back, or a resumed queue dropped it.   *)
THEOREM NothingLostOrDoubled == Spec => []OnePlace
<1>1. Init => OnePlace /\ HeadInBatch
  <2>. SUFFICES ASSUME Init PROVE OnePlace /\ HeadInBatch
    OBVIOUS
  <2>1. \A h \in Message : ~Started(h)
    BY DEF Init, NoRun, Started
  <2>. QED BY <2>1 DEF Init, OnePlace, HeadInBatch, InRun, Message
<1>2. OnePlace /\ HeadInBatch /\ TypeOK /\ TypeOK' /\ [Next]_vars
      => OnePlace' /\ HeadInBatch'
  BY StepsGoOnward DEF PlaceInv, Onward
<1>. QED BY <1>1, <1>2, TypeCorrect, PTL DEF Spec

(* While no row was steered, no message overtakes an earlier one: once the *)
(* gateway has a message, none before it still waits or is going out.      *)
THEOREM InTurn == Spec => []NoOvertaking
<1>1. Init => OnePlace /\ HeadInBatch /\ TakenIsAnswered /\ NewestLast
  <2>. SUFFICES ASSUME Init
                PROVE  OnePlace /\ HeadInBatch /\ TakenIsAnswered /\ NewestLast
    OBVIOUS
  <2>1. \A h \in Message : ~Started(h)
    BY DEF Init, NoRun, Started
  <2>. QED BY <2>1 DEF Init, OnePlace, HeadInBatch, InRun, TakenIsAnswered,
                       NewestLast, Message
<1>2. /\ OnePlace /\ HeadInBatch /\ TakenIsAnswered /\ NewestLast
      /\ TypeOK /\ TypeOK' /\ OneInFlight' /\ [Next]_vars
      => OnePlace' /\ HeadInBatch' /\ TakenIsAnswered' /\ NewestLast'
  <2>. SUFFICES ASSUME PlaceInv, TakenIsAnswered, NewestLast, TypeOK', OneInFlight',
                       [Next]_vars
                PROVE  Onward /\ TakenIsAnswered' /\ (steers' = 0 => steers = 0)
    BY DEF PlaceInv, Onward, StillNewestLast
  <2>1. Onward
    BY StepsGoOnward
  <2>2. TakenIsAnswered'
    BY <2>1, AnsweredInductive DEF Onward, PlaceInv
  <2>3. steers' = steers \/ steers' = steers + 1
    BY DEF Next, Enqueue, Stop, Withdraw, Steer, Observe, Resolved, Rejected,
           Answer, Retry, Foreign, Start, End, Release, lib, vars
  <2>4. steers \in Nat
    BY QueueAssumption DEF PlaceInv, TypeOK, QueueTypes
  <2>. QED BY <2>1, <2>2, <2>3, <2>4
<1>3. OnePlace /\ TakenIsAnswered /\ NewestLast /\ TypeOK => NoOvertaking
  <2>. SUFFICES ASSUME OnePlace, TypeOK, TakenIsAnswered, NewestLast, steers = 0,
                       NEW m \in Message, NEW o \in Message, takes[m] > 0, o < m
                PROVE  /\ o \notin waiting
                       /\ \A h \in Message :
                            Outbound(h) /\ o \in run[h].batch => m \in run[h].batch
    BY DEF NoOvertaking
  <2>1. PICK g \in Message : run[g].phase \in Answered /\ m \in run[g].batch
    BY DEF TakenIsAnswered, TypeOK, GatewayTypes
  <2>2. Started(g) /\ InRun(m)
    BY <2>1 DEF Answered, Started, InRun
  <2>3. o \notin waiting
    BY <2>2 DEF NewestLast, Message
  <2>4. ASSUME NEW h \in Message, Outbound(h), o \in run[h].batch
        PROVE  m \in run[h].batch
    BY <2>1, <2>2, <2>4 DEF NewestLast, Message
  <2>. QED BY <2>3, <2>4
<1>. QED BY <1>1, <1>2, <1>3, TypeCorrect, SingleFlight, PTL DEF Spec
-----------------------------------------------------------------------------
(* Where the outbox sees each message.                                     *)
PlacesAre ==
  \A m \in Message :
    /\ place[m] = "composer" <=> ~(m <= typed)
    /\ place[m] = "waiting" <=> m \in waiting
    /\ place[m] = "gone" <=> m \in withdrawn \cup dropped
    /\ place[m] = "outbound" <=> Carried(m)
    /\ place[m] = "settled" <=> InRun(m) /\ ~Carried(m)
    /\ place[m] \in Outbox!Place

(* A message a run carries is neither waiting nor gone, and one that was   *)
(* not written is nowhere.                                                 *)
LEMMA PlaceOf == PlaceInv => PlacesAre
<1>. SUFFICES ASSUME PlaceInv, NEW m \in Message
              PROVE  /\ place[m] = "composer" <=> ~(m <= typed)
                     /\ place[m] = "waiting" <=> m \in waiting
                     /\ place[m] = "gone" <=> m \in withdrawn \cup dropped
                     /\ place[m] = "outbound" <=> Carried(m)
                     /\ place[m] = "settled" <=> InRun(m) /\ ~Carried(m)
                     /\ place[m] \in Outbox!Place
  BY DEF PlacesAre
<1>1. Carried(m) => InRun(m)
  BY DEF Carried, Outbound, InRun, Started
<1>2. /\ m <= typed <=> m \in waiting \cup withdrawn \cup dropped \/ InRun(m)
      /\ m \in waiting \cup withdrawn \cup dropped => ~InRun(m)
      /\ ~(m \in waiting /\ m \in withdrawn \cup dropped)
  BY DEF PlaceInv, OnePlace
<1>3. m > typed <=> ~(m <= typed)
  BY DEF PlaceInv, TypeOK, QueueTypes, Message
<1>4. place[m] = IF m > typed THEN "composer"
                 ELSE IF m \in waiting THEN "waiting"
                 ELSE IF m \in withdrawn \cup dropped THEN "gone"
                 ELSE IF Carried(m) THEN "outbound"
                 ELSE "settled"
  BY DEF place, Carried
<1>. QED BY <1>1, <1>2, <1>3, <1>4 DEF Outbox!Place

(* A step in which the gateway takes nothing moves messages along.         *)
LEMMA OnwardMoves ==
  ASSUME PlacesAre, PlacesAre', PlaceInv, PlaceInv', MovesAlong, takes' = takes
  PROVE  Outbox!Move
<1>1. ASSUME NEW m \in Message
      PROVE  /\ place'[m] \in Outbox!Place
             /\ place'[m] = place[m] \/ place'[m] \in Outbox!Along[place[m]]
  <2>1. place'[m] \in Outbox!Place
    BY DEF PlacesAre
  <2>2. CASE place[m] = "composer"
    <3>1. place'[m] # "settled"
      BY <2>2 DEF PlacesAre, MovesAlong, PlaceInv, OnePlace
    <3>. QED BY <2>1, <2>2, <3>1 DEF Outbox!Along, Outbox!Place
  <2>3. CASE place[m] = "waiting"
    <3>1. m <= typed /\ ~InRun(m)
      BY <2>3 DEF PlacesAre, PlaceInv, OnePlace
    <3>2. place'[m] \notin {"composer", "settled"}
      BY <2>3, <3>1 DEF PlacesAre, MovesAlong
    <3>. QED BY <2>1, <2>3, <3>2 DEF Outbox!Along, Outbox!Place
  <2>4. CASE place[m] = "outbound"
    <3>1. InRun(m)
      BY <2>4 DEF PlacesAre, Carried, InRun, Outbound, Started
    <3>2. place'[m] \in {"outbound", "settled"}
      BY <3>1 DEF PlacesAre, MovesAlong, PlaceInv, OnePlace
    <3>. QED BY <2>1, <2>4, <3>2 DEF Outbox!Along
  <2>5. CASE place[m] = "settled"
    BY <2>5 DEF PlacesAre, MovesAlong
  <2>6. CASE place[m] = "gone"
    BY <2>6 DEF PlacesAre, MovesAlong
  <2>. QED BY <2>2, <2>3, <2>4, <2>5, <2>6 DEF PlacesAre, Outbox!Place
<1>2. place' \in [Message -> Outbox!Place]
  BY <1>1 DEF place
<1>. QED BY <1>1, <1>2 DEF Outbox!Move, Outbox!Message, Message

(* The gateway takes what is out, and has taken none of it before.         *)
LEMMA AnswerAccepts ==
  ASSUME PlaceInv, PlaceInv', PlacesAre, PlacesAre', TakenIsAnswered,
         NEW h \in Message, Answer(h), takes' # takes
  PROVE  Outbox!Accept
<1>1. /\ takes' = [m \in Message |-> IF m \in run[h].batch THEN takes[m] + 1
                                                         ELSE takes[m]]
      /\ run[h].phase = "requested"
      /\ run'[h].phase \in {"taken", "lost"} /\ run'[h].batch = run[h].batch
      /\ \A g \in Message \ {h} : run'[g] = run[g]
  BY DEF Answer, PlaceInv, TypeOK, QueueTypes, Run
<1>2. /\ run[h].batch \subseteq Message /\ h \in run[h].batch
      /\ takes \in [Message -> Nat] /\ Outbound(h) /\ Started(h)
  BY <1>1 DEF PlaceInv, HeadInBatch, Started, Outbound, TypeOK, QueueTypes,
              GatewayTypes, Run
<1>3. \A m \in run[h].batch : place[m] = "outbound" /\ takes[m] = 0
  <2>. SUFFICES ASSUME NEW m \in run[h].batch
                PROVE  place[m] = "outbound" /\ takes[m] = 0
    OBVIOUS
  <2>1. place[m] = "outbound"
    BY <1>2 DEF PlacesAre, Carried
  <2>2. \A g \in Message : m \in run[g].batch /\ Started(g) => g = h
    BY <1>2 DEF PlaceInv, OnePlace
  <2>3. takes[m] = 0
    BY <1>1, <1>2, <2>2 DEF TakenIsAnswered, Answered, Started
  <2>. QED BY <2>1, <2>3
<1>4. place' = place
  <2>1. UNCHANGED <<typed, waiting, withdrawn, dropped>>
    BY DEF Answer, fates
  <2>2. \A m \in Message : /\ Carried(m)' <=> Carried(m)
                           /\ InRun(m)' <=> InRun(m)
    BY <1>1, <1>2 DEF Carried, Outbound, InRun, Started
  <2>3. \A m \in Message : place'[m] = place[m]
    BY <2>1, <2>2 DEF PlacesAre, Outbox!Place
  <2>. QED BY <2>3 DEF place
<1>5. takes' = [m \in Message |-> IF m \in run[h].batch THEN 1 ELSE takes[m]]
  BY <1>1, <1>2, <1>3
<1>. QED BY <1>2, <1>3, <1>4, <1>5 DEF Outbox!Accept, Outbox!Message, Message

(* The queue keeps the outbox's promise: a message moves along, it is sent *)
(* once, and only what is out is taken.                                    *)
THEOREM QueueImplementsOutbox == Spec => KeepsOutbox
<1>1. Init => OnePlace /\ HeadInBatch /\ TakenIsAnswered /\ Outbox!OutboxInit
  <2>. SUFFICES ASSUME Init
                PROVE  /\ OnePlace /\ HeadInBatch /\ TakenIsAnswered
                       /\ Outbox!OutboxInit
    OBVIOUS
  <2>1. \A h \in Message : ~Started(h)
    BY DEF Init, NoRun, Started
  <2>2. OnePlace /\ HeadInBatch /\ TakenIsAnswered
    BY <2>1 DEF Init, OnePlace, HeadInBatch, InRun, TakenIsAnswered, Message
  <2>3. place = [m \in Message |-> "composer"]
    BY DEF Init, place, Message
  <2>. QED BY <2>2, <2>3 DEF Init, Outbox!OutboxInit, Outbox!Message, Message
<1>2. /\ OnePlace /\ HeadInBatch /\ TakenIsAnswered /\ TypeOK /\ TypeOK'
      /\ [Next]_vars
      => /\ OnePlace' /\ HeadInBatch' /\ TakenIsAnswered'
         /\ [Outbox!OutboxNext]_(Outbox!ovars)
  <2>. SUFFICES ASSUME PlaceInv, TakenIsAnswered, TypeOK', [Next]_vars
                PROVE  /\ OnePlace' /\ HeadInBatch' /\ TakenIsAnswered'
                       /\ Outbox!OutboxNext
    BY DEF PlaceInv
  <2>1. Onward /\ PlaceInv'
    BY StepsGoOnward DEF Onward, PlaceInv
  <2>p. PlacesAre /\ PlacesAre'
    BY <2>1, PlaceOf, PTL
  <2>a. TakenIsAnswered'
    BY <2>1, AnsweredInductive DEF Onward
  <2>2. CASE takes' = takes
    BY <2>1, <2>p, <2>a, <2>2, OnwardMoves DEF Onward, Outbox!OutboxNext
  <2>3. CASE takes' # takes
    <3>1. PICK h \in Message : Answer(h)
      BY <2>3 DEF Next, Enqueue, Stop, Withdraw, Steer, Observe, Resolved,
                  Rejected, Retry, Foreign, Start, End, Release, gateway, vars
    <3>. QED BY <2>1, <2>p, <2>a, <2>3, <3>1, AnswerAccepts DEF Onward, Outbox!OutboxNext
  <2>. QED BY <2>2, <2>3
<1>. QED BY <1>1, <1>2, TypeCorrect, PTL
         DEF Spec, KeepsOutbox, Outbox!OutboxSpec
=============================================================================
