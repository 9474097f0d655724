--------------------------- MODULE ComposerProofs ---------------------------
(* What the operator starts from the composer beside an ordinary message: a   *)
(* side question, and what is spoken. Of a side question, that a kept fork    *)
(* stays kept, none is left behind, and none is deleted under its running     *)
(* turn, for any number of faults and any length of the turn; of the          *)
(* microphone, the turns made of its words, the replies read aloud and the    *)
(* screen's lock, for any number of captures and of faults.                   *)
EXTENDS SideQuestion, Voice, TLAPS

-----------------------------------------------------------------------------
(* Side questions.                                                           *)

Active == {"accepted", "running", "waiting"}
Over   == {"ended", "failed"}

(* How the three calls exclude one another: #ask first, and then one of keep  *)
(* and dismiss, as the handle's two flags tell them.                         *)
CallsExclude ==
  /\ ask # "done" => req.kind = ask
  /\ dismissal \in {"ending", "deleting", "done", "failed"} => ask = "done"
  /\ keeper \in {"unarchiving", "done", "failed"} => ask = "done"
  /\ handle.keeping <=> (keeper \in {"asked", "unarchiving"})
  /\ handle.retired <=> (dismissal # "no" \/ keeper = "done")
  /\ dismissal # "no" => keeper \in {"no", "failed"}
  /\ ~row => dismissal # "no" \/ keeper # "no"
  /\ keeper = "done" => ~row /\ ~quiet

(* Where the fork is, as far as the calls have come.                         *)
ForkFollows ==
  /\ ask = "fork" => ~handle.knows /\ (fork.at = "live" <=> req.done)
  /\ ask \in {"archive", "prompt"} => handle.knows
  /\ handle.knows => fork.at # "none"
  /\ fork.at = "deleted" => dismissal \in {"deleting", "done", "failed"}
  /\ req.kind = "delete" /\ req.done => fork.at = "deleted"
  /\ dismissal = "done" => ~handle.knows \/ fork.at = "deleted"
  /\ fork.cancelled => dismissal \in {"ending", "deleting", "done", "failed"}
  /\ keeper \in {"unarchiving", "done"} => handle.knows
  /\ req.kind = "unarchive" /\ req.done => fork.archived = "undone"
  /\ keeper = "done" => fork.archived = "undone"

(* A turn exists once the prompt was performed, and the handle knows of it    *)
(* unless it saw a failure.                                                  *)
TurnFollows ==
  /\ ask # "done" /\ forkTurn # "none" => ask = "prompt" /\ req.done
  /\ ask = "done" /\ forkTurn # "none" => handle.prompted \/ handle.failure

(* Unless a reconnect replayed it, only the end of the turn reads as its end. *)
EndIsHeard ==
  ~fork.rejoined /\ forkTurn \notin Over =>
    /\ \A i \in DOMAIN wire : wire[i] \notin {"idle", "failed"}
    /\ handle.ran => Live(seen.status)
    /\ ~handle.settled

Inv == CallsExclude /\ ForkFollows /\ TurnFollows /\ EndIsHeard /\ RunningForkIsStopped

(* The calls go on excluding one another.                                    *)
LEMMA CallsInductive ==
  SideTypeOK /\ CallsExclude /\ [SideNext]_sideVars => CallsExclude'
<1>. SUFFICES ASSUME SideTypeOK, CallsExclude, [SideNext]_sideVars PROVE CallsExclude'
  OBVIOUS
<1>. USE DEF SideTypeOK, CallTypes, CallsExclude, Flag
<1>1. CASE Perform
  BY <1>1 DEF Perform
<1>2. CASE TurnStarts
  BY <1>2 DEF TurnStarts, TurnTo, Report
<1>3. CASE TurnGoesOn
  BY <1>3 DEF TurnGoesOn, TurnTo, Report
<1>4. CASE TurnEnds
  BY <1>4 DEF TurnEnds, TurnTo, Report
<1>5. CASE Drop
  BY <1>5 DEF Drop, GatewayTypes, Request
<1>6. CASE Rejoin
  BY <1>6 DEF Rejoin, Now
<1>7. CASE AskStep
  BY <1>7 DEF AskStep, Answered, StillWanted, AskHidden, Send, NoRequest,
     Publish, gateway
<1>8. CASE AskFails
  BY <1>8 DEF AskFails, Fails, NoRequest, Publish
<1>9. CASE Update
  BY <1>9 DEF Update, Live, Settles, Publish, gateway
<1>10. CASE Dismiss
  BY <1>10 DEF Dismiss, MayDismiss, gateway
<1>11. CASE DismissGoesOn
  BY <1>11 DEF DismissGoesOn, ForkToDelete, MustStop, Delete, Send, NoRequest
<1>12. CASE TurnEnded
  BY <1>12 DEF TurnEnded, Delete, Send, NoRequest, EndedOrTimedOut
<1>13. CASE Deleted
  BY <1>13 DEF Deleted, Answered, NoRequest, gateway
<1>14. CASE DeleteFails
  BY <1>14 DEF DeleteFails, Fails, NoRequest
<1>15. CASE Keep
  BY <1>15 DEF Keep, gateway
<1>16. CASE KeepGoesOn
  BY <1>16 DEF KeepGoesOn, Send, NoRequest, gateway
<1>17. CASE Kept
  BY <1>17 DEF Kept, Answered, NoRequest, gateway
<1>18. CASE KeepFails
  BY <1>18 DEF KeepFails, Fails, NoRequest
<1>19. CASE UNCHANGED sideVars
  BY <1>19 DEF sideVars
<1>. QED BY <1>1, <1>2, <1>3, <1>4, <1>5, <1>6, <1>7, <1>8, <1>9, <1>10, <1>11,
            <1>12, <1>13, <1>14, <1>15, <1>16, <1>17, <1>18, <1>19 DEF SideNext

(* What the actions make of a request and of the fork.                       *)
LEMMA RequestTypes ==
  /\ NoRequest \in Request
  /\ \A kind \in {"fork", "archive", "prompt", "unarchive", "delete"} :
       [NoRequest EXCEPT !.kind = kind] \in Request
  /\ \A r \in Request, b \in BOOLEAN :
       [r EXCEPT !.done = TRUE] \in Request /\ [r EXCEPT !.lost = b] \in Request
  BY DEF Request, NoRequest

(* The updates made of a fork's record leave it one.                          *)
LEMMA ForkTypes ==
  ASSUME NEW f \in Fork, NEW b \in BOOLEAN
  PROVE  /\ \A at \in {"live", "deleted"} : [f EXCEPT !.at = at] \in Fork
         /\ \A a \in {"yes", "undone"} : [f EXCEPT !.archived = a] \in Fork
         /\ [f EXCEPT !.cancelled = b] \in Fork
         /\ [f EXCEPT !.timedOut = b] \in Fork
         /\ [f EXCEPT !.rejoined = TRUE] \in Fork
  BY DEF Fork

(* Every variable keeps its type.                                            *)
LEMMA CallTypesInductive ==
  SideTypeOK /\ CallsExclude /\ [SideNext]_sideVars => CallTypes'
<1>. SUFFICES ASSUME SideTypeOK, CallsExclude, [SideNext]_sideVars PROVE CallTypes'
  OBVIOUS
<1>. USE DEF SideTypeOK, CallTypes, CallsExclude
<1>1. CASE Perform
  BY <1>1 DEF Perform, GatewayTypes, Request
<1>2. CASE TurnStarts
  BY <1>2 DEF TurnStarts, TurnTo, Report
<1>3. CASE TurnGoesOn
  BY <1>3 DEF TurnGoesOn, TurnTo, Report
<1>4. CASE TurnEnds
  BY <1>4 DEF TurnEnds, TurnTo, Report
<1>5. CASE Drop
  BY <1>5 DEF Drop, GatewayTypes, Request
<1>6. CASE Rejoin
  BY <1>6 DEF Rejoin, Now
<1>7. CASE AskStep
  <2>1. handle' \in [Flag -> BOOLEAN]
    BY <1>7 DEF AskStep, Flag
  <2>2. quiet' \in BOOLEAN
    BY <1>7 DEF AskStep, Publish, Flag
  <2>3. CASE ask = "fork"
    BY <1>7, <2>1, <2>2, <2>3 DEF AskStep, AskHidden, Send, NoRequest
  <2>4. CASE ask = "archive"
    BY <1>7, <2>1, <2>2, <2>4 DEF AskStep, Send, NoRequest
  <2>5. CASE ask = "prompt"
    BY <1>7, <2>1, <2>2, <2>5 DEF AskStep, NoRequest
  <2>. QED BY <1>7, <2>3, <2>4, <2>5 DEF AskStep
<1>8. CASE AskFails
  BY <1>8 DEF AskFails, Fails, NoRequest, Publish, Flag
<1>9. CASE Update
  BY <1>9 DEF Update, Live, Settles, Publish, gateway, Flag
<1>10. CASE Dismiss
  BY <1>10 DEF Dismiss, MayDismiss, gateway, Flag
<1>11. CASE DismissGoesOn
  <2>1. handle' \in [Flag -> BOOLEAN]
    BY <1>11 DEF DismissGoesOn, Delete, Flag
  <2>2. CASE dismissal' = "deleting"
    BY <1>11, <2>1, <2>2 DEF DismissGoesOn, Delete, Send, NoRequest
  <2>3. CASE dismissal' # "deleting"
    BY <1>11, <2>1, <2>3 DEF DismissGoesOn, Delete
  <2>. QED BY <2>2, <2>3
<1>12. CASE TurnEnded
  BY <1>12 DEF TurnEnded, Delete, Send, NoRequest, EndedOrTimedOut, Flag
<1>13. CASE Deleted
  BY <1>13 DEF Deleted, Answered, NoRequest, gateway, Flag
<1>14. CASE DeleteFails
  BY <1>14 DEF DeleteFails, Fails, NoRequest, Flag
<1>15. CASE Keep
  BY <1>15 DEF Keep, gateway, Flag
<1>16. CASE KeepGoesOn
  BY <1>16 DEF KeepGoesOn, Send, NoRequest, gateway, Flag
<1>17. CASE Kept
  BY <1>17 DEF Kept, Answered, NoRequest, gateway, Flag
<1>18. CASE KeepFails
  BY <1>18 DEF KeepFails, Fails, NoRequest, Flag
<1>19. CASE UNCHANGED sideVars
  BY <1>19 DEF sideVars
<1>. QED BY <1>1, <1>2, <1>3, <1>4, <1>5, <1>6, <1>7, <1>8, <1>9, <1>10, <1>11,
            <1>12, <1>13, <1>14, <1>15, <1>16, <1>17, <1>18, <1>19 DEF SideNext

(* So do those of the requests and of the forks at the gateway.               *)
LEMMA GatewayTypesInductive ==
  SideTypeOK /\ [SideNext]_sideVars => GatewayTypes'
<1>. SUFFICES ASSUME SideTypeOK, [SideNext]_sideVars PROVE GatewayTypes'
  OBVIOUS
<1>. USE RequestTypes, ForkTypes DEF SideTypeOK, GatewayTypes, CallTypes
<1>1. CASE Perform
  BY <1>1 DEF Perform
<1>2. CASE TurnStarts
  BY <1>2 DEF TurnStarts, TurnTo, Report
<1>3. CASE TurnGoesOn
  BY <1>3 DEF TurnGoesOn, TurnTo, Report
<1>4. CASE TurnEnds
  BY <1>4 DEF TurnEnds, TurnTo, Report
<1>5. CASE Drop
  BY <1>5 DEF Drop
<1>6. CASE Rejoin
  BY <1>6 DEF Rejoin, Now
<1>7. CASE AskStep
  BY <1>7 DEF AskStep, Answered, StillWanted, AskHidden, Send, NoRequest,
     Publish, gateway
<1>8. CASE AskFails
  BY <1>8 DEF AskFails, Fails, NoRequest, Publish
<1>9. CASE Update
  BY <1>9 DEF Update, Live, Settles, Publish, gateway
<1>10. CASE Dismiss
  BY <1>10 DEF Dismiss, MayDismiss, gateway
<1>11. CASE DismissGoesOn
  <2>1. fork' \in Fork
    BY <1>11 DEF DismissGoesOn
  <2>2. req' \in Request
    BY <1>11 DEF DismissGoesOn, Delete, Send
  <2>. QED BY <1>11, <2>1, <2>2 DEF DismissGoesOn
<1>12. CASE TurnEnded
  BY <1>12 DEF TurnEnded, Delete, Send, NoRequest, EndedOrTimedOut, Flag
<1>13. CASE Deleted
  BY <1>13 DEF Deleted, Answered, NoRequest, gateway
<1>14. CASE DeleteFails
  BY <1>14 DEF DeleteFails, Fails, NoRequest
<1>15. CASE Keep
  BY <1>15 DEF Keep, gateway
<1>16. CASE KeepGoesOn
  BY <1>16 DEF KeepGoesOn, Send, NoRequest, gateway
<1>17. CASE Kept
  BY <1>17 DEF Kept, Answered, NoRequest, gateway
<1>18. CASE KeepFails
  BY <1>18 DEF KeepFails, Fails, NoRequest
<1>19. CASE UNCHANGED sideVars
  BY <1>19 DEF sideVars
<1>. QED BY <1>1, <1>2, <1>3, <1>4, <1>5, <1>6, <1>7, <1>8, <1>9, <1>10, <1>11,
            <1>12, <1>13, <1>14, <1>15, <1>16, <1>17, <1>18, <1>19 DEF SideNext

(* So do those of the link, of the tray's row and of the handle's fields.     *)
LEMMA ViewTypesInductive ==
  SideTypeOK /\ [SideNext]_sideVars => ViewTypes'
<1>. SUFFICES ASSUME SideTypeOK, [SideNext]_sideVars PROVE ViewTypes'
  OBVIOUS
<1>. USE SideAssumption DEF SideTypeOK, ViewTypes, GatewayTypes
<1>1. CASE Perform
  BY <1>1 DEF Perform
<1>2. CASE TurnStarts
  BY <1>2 DEF TurnStarts, TurnTo, Report, Word, Statuses
<1>3. CASE TurnGoesOn
  BY <1>3 DEF TurnGoesOn, TurnTo, Report, Word, Statuses
<1>4. CASE TurnEnds
  <2>1. wire' \in Seq(Word)
    BY <1>4 DEF TurnEnds, TurnTo, Report, Word, Statuses
  <2>. QED BY <1>4, <2>1 DEF TurnEnds, TurnTo
<1>5. CASE Drop
  BY <1>5 DEF Drop
<1>6. CASE Rejoin
  <2>1. Now \in Word
    BY DEF Now, Word, Statuses
  <2>2. <<"running", "idle">> \in Seq(Word) /\ <<>> \in Seq(Word)
    BY DEF Word, Statuses
  <2>3. PICK replay \in Seq(Word) :
          wire' = IF handle.watching THEN Append(replay, Now) ELSE <<>>
    BY <1>6, <2>2 DEF Rejoin
  <2>4. wire' \in Seq(Word)
    BY <2>1, <2>2, <2>3
  <2>. QED BY <1>6, <2>4 DEF Rejoin
<1>7. CASE AskStep
  BY <1>7 DEF AskStep, Answered, StillWanted, AskHidden, Send, NoRequest,
     Publish, gateway
<1>8. CASE AskFails
  BY <1>8 DEF AskFails, Fails, NoRequest, Publish
<1>9. CASE Update
  BY <1>9 DEF Update, Live, Settles, Publish, gateway, Word, Statuses
<1>10. CASE Dismiss
  BY <1>10 DEF Dismiss, MayDismiss, gateway
<1>11. CASE DismissGoesOn
  <2>1. wire' = wire \/ wire' = <<>>
    BY <1>11 DEF DismissGoesOn, Delete
  <2>2. wire \in Seq(Word) /\ <<>> \in Seq(Word)
    OBVIOUS
  <2>3. wire' \in Seq(Word)
    BY <2>1, <2>2, Zenon
  <2>4. UNCHANGED <<seen, faults, said>>
    BY <1>11 DEF DismissGoesOn
  <2>. QED BY <2>3, <2>4
<1>12. CASE TurnEnded
  BY <1>12 DEF TurnEnded, Delete, Send, NoRequest, EndedOrTimedOut
<1>13. CASE Deleted
  BY <1>13 DEF Deleted, Answered, NoRequest, gateway
<1>14. CASE DeleteFails
  BY <1>14 DEF DeleteFails, Fails, NoRequest
<1>15. CASE Keep
  BY <1>15 DEF Keep, gateway
<1>16. CASE KeepGoesOn
  BY <1>16 DEF KeepGoesOn, Send, NoRequest, gateway
<1>17. CASE Kept
  BY <1>17 DEF Kept, Answered, NoRequest, gateway
<1>18. CASE KeepFails
  BY <1>18 DEF KeepFails, Fails, NoRequest
<1>19. CASE UNCHANGED sideVars
  BY <1>19 DEF sideVars
<1>. QED BY <1>1, <1>2, <1>3, <1>4, <1>5, <1>6, <1>7, <1>8, <1>9, <1>10, <1>11,
            <1>12, <1>13, <1>14, <1>15, <1>16, <1>17, <1>18, <1>19 DEF SideNext

(* The fork follows the calls.                                               *)
LEMMA ForkInductive ==
  SideTypeOK /\ CallsExclude /\ ForkFollows /\ [SideNext]_sideVars => ForkFollows'
<1>. SUFFICES ASSUME SideTypeOK, CallsExclude, ForkFollows, [SideNext]_sideVars
              PROVE  ForkFollows'
  OBVIOUS
<1>. USE DEF SideTypeOK, CallTypes, GatewayTypes, CallsExclude, ForkFollows,
            Flag, Fork, Request
<1>1. CASE Perform
  BY <1>1 DEF Perform
<1>2. CASE TurnStarts
  BY <1>2 DEF TurnStarts, TurnTo, Report
<1>3. CASE TurnGoesOn
  BY <1>3 DEF TurnGoesOn, TurnTo, Report
<1>4. CASE TurnEnds
  BY <1>4 DEF TurnEnds, TurnTo, Report
<1>5. CASE Drop
  BY <1>5 DEF Drop
<1>6. CASE Rejoin
  BY <1>6 DEF Rejoin, Now
<1>7. CASE AskStep
  <2>1. CASE ask = "fork"
    BY <1>7, <2>1 DEF AskStep, Answered, AskHidden, Send, NoRequest, Publish,
       gateway
  <2>2. CASE ask = "archive"
    BY <1>7, <2>2 DEF AskStep, Answered, Send, NoRequest, gateway
  <2>3. CASE ask = "prompt"
    BY <1>7, <2>3 DEF AskStep, Answered, NoRequest, gateway
  <2>. QED BY <1>7, <2>1, <2>2, <2>3 DEF AskStep
<1>8. CASE AskFails
  BY <1>8 DEF AskFails, Fails, NoRequest, Publish
<1>9. CASE Update
  BY <1>9 DEF Update, Live, Settles, Publish, gateway
<1>10. CASE Dismiss
  BY <1>10 DEF Dismiss, MayDismiss, gateway
<1>11. CASE DismissGoesOn
  <2>1. CASE dismissal' = "deleting"
    BY <1>11, <2>1 DEF DismissGoesOn, Delete, Send, NoRequest
  <2>2. CASE dismissal' # "deleting"
    BY <1>11, <2>2 DEF DismissGoesOn, ForkToDelete, Delete
  <2>. QED BY <2>1, <2>2
<1>12. CASE TurnEnded
  BY <1>12 DEF TurnEnded, Delete, Send, NoRequest, EndedOrTimedOut
<1>13. CASE Deleted
  BY <1>13 DEF Deleted, Answered, NoRequest, gateway
<1>14. CASE DeleteFails
  BY <1>14 DEF DeleteFails, Fails, NoRequest
<1>15. CASE Keep
  BY <1>15 DEF Keep, gateway
<1>16. CASE KeepGoesOn
  BY <1>16 DEF KeepGoesOn, Send, NoRequest, gateway
<1>17. CASE Kept
  BY <1>17 DEF Kept, Answered, NoRequest, gateway
<1>18. CASE KeepFails
  BY <1>18 DEF KeepFails, Fails, NoRequest
<1>19. CASE UNCHANGED sideVars
  BY <1>19 DEF sideVars
<1>. QED BY <1>1, <1>2, <1>3, <1>4, <1>5, <1>6, <1>7, <1>8, <1>9, <1>10, <1>11,
            <1>12, <1>13, <1>14, <1>15, <1>16, <1>17, <1>18, <1>19 DEF SideNext

(* The turn follows the prompt.                                              *)
LEMMA SideTurnInductive ==
  SideTypeOK /\ CallsExclude /\ TurnFollows /\ [SideNext]_sideVars => TurnFollows'
<1>. SUFFICES ASSUME SideTypeOK, CallsExclude, TurnFollows, [SideNext]_sideVars
              PROVE  TurnFollows'
  OBVIOUS
<1>. USE DEF SideTypeOK, CallTypes, GatewayTypes, CallsExclude, TurnFollows, Flag,
           Request
<1>1. CASE Perform
  BY <1>1 DEF Perform
<1>2. CASE TurnStarts
  BY <1>2 DEF TurnStarts, TurnTo, Report
<1>3. CASE TurnGoesOn
  BY <1>3 DEF TurnGoesOn, TurnTo, Report
<1>4. CASE TurnEnds
  BY <1>4 DEF TurnEnds, TurnTo, Report
<1>5. CASE Drop
  BY <1>5 DEF Drop
<1>6. CASE Rejoin
  BY <1>6 DEF Rejoin, Now
<1>7. CASE AskStep
  BY <1>7 DEF AskStep, Answered, StillWanted, AskHidden, Send, NoRequest,
     Publish, gateway
<1>8. CASE AskFails
  BY <1>8 DEF AskFails, Fails, NoRequest, Publish
<1>9. CASE Update
  BY <1>9 DEF Update, Live, Settles, Publish, gateway
<1>10. CASE Dismiss
  BY <1>10 DEF Dismiss, MayDismiss, gateway
<1>11. CASE DismissGoesOn
  BY <1>11 DEF DismissGoesOn, ForkToDelete, MustStop, Delete, Send, NoRequest
<1>12. CASE TurnEnded
  BY <1>12 DEF TurnEnded, Delete, Send, NoRequest, EndedOrTimedOut
<1>13. CASE Deleted
  BY <1>13 DEF Deleted, Answered, NoRequest, gateway
<1>14. CASE DeleteFails
  BY <1>14 DEF DeleteFails, Fails, NoRequest
<1>15. CASE Keep
  BY <1>15 DEF Keep, gateway
<1>16. CASE KeepGoesOn
  BY <1>16 DEF KeepGoesOn, Send, NoRequest, gateway
<1>17. CASE Kept
  BY <1>17 DEF Kept, Answered, NoRequest, gateway
<1>18. CASE KeepFails
  BY <1>18 DEF KeepFails, Fails, NoRequest
<1>19. CASE UNCHANGED sideVars
  BY <1>19 DEF sideVars
<1>. QED BY <1>1, <1>2, <1>3, <1>4, <1>5, <1>6, <1>7, <1>8, <1>9, <1>10, <1>11,
            <1>12, <1>13, <1>14, <1>15, <1>16, <1>17, <1>18, <1>19 DEF SideNext

(* What is told of a turn is its end only once it ended.                     *)
LEMMA TellingIsHeard ==
  ASSUME SideTypeOK, EndIsHeard, NEW u \in Word, Report(u), UNCHANGED <<fork, seen, handle>>,
         forkTurn \in Over => forkTurn' \in Over,
         u \in {"idle", "failed"} => forkTurn' \in Over
  PROVE  EndIsHeard'
<1>1. wire \in Seq(Word)
  BY DEF SideTypeOK, ViewTypes
<1>. QED BY <1>1 DEF EndIsHeard, Report

(* An update of the fork, heard by the handle, leaves its end heard or on its *)
(* way.                                                                       *)
LEMMA UpdateIsHeard == SideTypeOK /\ EndIsHeard /\ Update => EndIsHeard'
<1>. SUFFICES ASSUME SideTypeOK, EndIsHeard, Update, ~fork.rejoined, forkTurn \notin
           Over
              PROVE  EndIsHeard'
  BY DEF EndIsHeard, Update, gateway
<1>1. wire \in Seq(Word) /\ wire # <<>> /\ wire' = Tail(wire)
  BY DEF Update, SideTypeOK, ViewTypes
<1>2. /\ Head(wire) \in Word \ {"idle", "failed"}
      /\ \A i \in DOMAIN wire' : wire'[i] \notin {"idle", "failed"}
  BY <1>1 DEF EndIsHeard
<1>3. handle'.ran => Live(seen'.status)
  BY <1>2 DEF EndIsHeard, Update, SideTypeOK, CallTypes, Flag, Word, Statuses, Live
<1>4. ~handle'.settled
  BY <1>2 DEF EndIsHeard, Update, SideTypeOK, CallTypes, Flag, Settles, Live, Word,
     Statuses
<1>. QED BY <1>2, <1>3, <1>4 DEF EndIsHeard

(* Nothing else is taken for the end.                                        *)
LEMMA EndInductive ==
  SideTypeOK /\ CallsExclude /\ TurnFollows /\ EndIsHeard /\ [SideNext]_sideVars
    => EndIsHeard'
<1>. SUFFICES ASSUME SideTypeOK, CallsExclude, TurnFollows, EndIsHeard, [SideNext]_sideVars
              PROVE  EndIsHeard'
  OBVIOUS
<1>. USE DEF SideTypeOK, CallTypes, GatewayTypes, Flag
<1>1. CASE Perform
  BY <1>1 DEF Perform, EndIsHeard, TurnFollows, CallsExclude, Over, Fork,
     Request
<1>2. CASE TurnStarts
  <2>1. PICK u \in Word : /\ Report(u) /\ UNCHANGED <<fork, seen, handle>>
                          /\ forkTurn \notin Over
                          /\ u \in {"idle", "failed"} => forkTurn' \in Over
    BY <1>2 DEF TurnStarts, TurnTo, Word, Statuses, Over
  <2>. QED BY <2>1, TellingIsHeard
<1>3. CASE TurnGoesOn
  <2>1. PICK u \in Word : /\ Report(u) /\ UNCHANGED <<fork, seen, handle>>
                          /\ forkTurn \notin Over
                          /\ u \in {"idle", "failed"} => forkTurn' \in Over
    BY <1>3 DEF TurnGoesOn, TurnTo, Word, Statuses, Over
  <2>. QED BY <2>1, TellingIsHeard
<1>4. CASE TurnEnds
  <2>1. PICK u \in Word : /\ Report(u) /\ UNCHANGED <<fork, seen, handle>>
                          /\ forkTurn \notin Over
                          /\ u \in {"idle", "failed"} => forkTurn' \in Over
    BY <1>4 DEF TurnEnds, TurnTo, Word, Statuses, Over
  <2>. QED BY <2>1, TellingIsHeard
<1>5. CASE Drop
  BY <1>5 DEF Drop, EndIsHeard
<1>6. CASE Rejoin
  BY <1>6 DEF Rejoin, Now, EndIsHeard, Fork
<1>7. CASE AskStep
  BY <1>7 DEF AskStep, Answered, StillWanted, AskHidden, Send, NoRequest,
     Publish, gateway, EndIsHeard
<1>8. CASE AskFails
  BY <1>8 DEF AskFails, Fails, NoRequest, Publish, EndIsHeard
<1>9. CASE Update
  BY <1>9, UpdateIsHeard
<1>10. CASE Dismiss
  BY <1>10 DEF Dismiss, MayDismiss, gateway, EndIsHeard
<1>11. CASE DismissGoesOn
  <2>1. wire' = wire \/ wire' = <<>>
    BY <1>11 DEF DismissGoesOn, Delete
  <2>2. handle'.ran = handle.ran /\ handle'.settled = handle.settled
    BY <1>11 DEF DismissGoesOn, Delete
  <2>3. fork'.rejoined = fork.rejoined
    BY <1>11 DEF DismissGoesOn, Fork
  <2>. QED BY <1>11, <2>1, <2>2, <2>3 DEF DismissGoesOn, EndIsHeard
<1>12. CASE TurnEnded
  BY <1>12 DEF TurnEnded, Delete, Send, NoRequest, EndedOrTimedOut, EndIsHeard
<1>13. CASE Deleted
  BY <1>13 DEF Deleted, Answered, NoRequest, gateway, EndIsHeard
<1>14. CASE DeleteFails
  BY <1>14 DEF DeleteFails, Fails, NoRequest, EndIsHeard
<1>15. CASE Keep
  BY <1>15 DEF Keep, gateway, EndIsHeard
<1>16. CASE KeepGoesOn
  BY <1>16 DEF KeepGoesOn, Send, NoRequest, gateway, EndIsHeard
<1>17. CASE Kept
  BY <1>17 DEF Kept, Answered, NoRequest, gateway, EndIsHeard
<1>18. CASE KeepFails
  BY <1>18 DEF KeepFails, Fails, NoRequest, EndIsHeard
<1>19. CASE UNCHANGED sideVars
  BY <1>19 DEF sideVars, EndIsHeard
<1>. QED BY <1>1, <1>2, <1>3, <1>4, <1>5, <1>6, <1>7, <1>8, <1>9, <1>10, <1>11,
            <1>12, <1>13, <1>14, <1>15, <1>16, <1>17, <1>18, <1>19 DEF SideNext

(* A turn that runs was stopped before its fork is deleted.                   *)
LEMMA StoppedInductive ==
  SideTypeOK /\ CallsExclude /\ TurnFollows /\ EndIsHeard /\ RunningForkIsStopped /\ [SideNext]_sideVars
    => RunningForkIsStopped'
<1>. SUFFICES ASSUME SideTypeOK, CallsExclude, TurnFollows, EndIsHeard,
                     RunningForkIsStopped, [SideNext]_sideVars
              PROVE  RunningForkIsStopped'
  OBVIOUS
<1>. USE DEF SideTypeOK, CallTypes, GatewayTypes, CallsExclude,
           RunningForkIsStopped, Flag, Fork
<1>1. CASE Perform
  BY <1>1 DEF Perform, Request
<1>2. CASE TurnStarts
  BY <1>2 DEF TurnStarts, TurnTo, Report
<1>3. CASE TurnGoesOn
  BY <1>3 DEF TurnGoesOn, TurnTo, Report
<1>4. CASE TurnEnds
  BY <1>4 DEF TurnEnds, TurnTo, Report
<1>5. CASE Drop
  BY <1>5 DEF Drop, Request
<1>6. CASE Rejoin
  BY <1>6 DEF Rejoin, Now
<1>7. CASE AskStep
  BY <1>7 DEF AskStep, Answered, StillWanted, AskHidden, Send, NoRequest,
     Publish, gateway
<1>8. CASE AskFails
  BY <1>8 DEF AskFails, Fails, NoRequest, Publish
<1>9. CASE Update
  BY <1>9 DEF Update, Live, Settles, Publish, gateway
<1>10. CASE Dismiss
  BY <1>10 DEF Dismiss, MayDismiss, gateway
<1>11. CASE DismissGoesOn
  BY <1>11 DEF DismissGoesOn, ForkToDelete, MustStop, Delete, Send, NoRequest,
     TurnFollows, EndIsHeard, Over
<1>12. CASE TurnEnded
  BY <1>12 DEF TurnEnded, Delete, Send, NoRequest, EndedOrTimedOut, EndIsHeard,
     Over
<1>13. CASE Deleted
  BY <1>13 DEF Deleted, Answered, NoRequest, gateway
<1>14. CASE DeleteFails
  BY <1>14 DEF DeleteFails, Fails, NoRequest
<1>15. CASE Keep
  BY <1>15 DEF Keep, gateway
<1>16. CASE KeepGoesOn
  BY <1>16 DEF KeepGoesOn, Send, NoRequest, gateway
<1>17. CASE Kept
  BY <1>17 DEF Kept, Answered, NoRequest, gateway
<1>18. CASE KeepFails
  BY <1>18 DEF KeepFails, Fails, NoRequest
<1>19. CASE UNCHANGED sideVars
  BY <1>19 DEF sideVars
<1>. QED BY <1>1, <1>2, <1>3, <1>4, <1>5, <1>6, <1>7, <1>8, <1>9, <1>10, <1>11,
            <1>12, <1>13, <1>14, <1>15, <1>16, <1>17, <1>18, <1>19 DEF SideNext

(* All of it together, from which the properties follow.                     *)
LEMMA InvInductive == SideTypeOK /\ Inv /\ [SideNext]_sideVars => SideTypeOK' /\ Inv'
  BY CallsInductive, CallTypesInductive, GatewayTypesInductive,
     ViewTypesInductive,
     ForkInductive, SideTurnInductive, EndInductive, StoppedInductive DEF SideTypeOK, Inv

(* The invariant gives the two properties that are not conjuncts of it.       *)
LEMMA InvSuffices == SideTypeOK /\ Inv => KeptStaysKept /\ NothingLeftBehind
<1>. SUFFICES ASSUME SideTypeOK, Inv PROVE KeptStaysKept /\ NothingLeftBehind
  OBVIOUS
<1>. USE DEF SideTypeOK, CallTypes, GatewayTypes, Inv, CallsExclude, ForkFollows,
           Fork
<1>1. KeptStaysKept
  BY DEF KeptStaysKept
<1>2. NothingLeftBehind
  BY DEF NothingLeftBehind, AtRest
<1>. QED BY <1>1, <1>2

(* The invariant holds of every behaviour.                                    *)
LEMMA InvHolds == SideSpec => [](SideTypeOK /\ Inv)
<1>1. SideInit => SideTypeOK
  <2>. SUFFICES ASSUME SideInit PROVE SideTypeOK
    OBVIOUS
  <2>1. CallTypes
    BY DEF SideInit, CallTypes, Flag, NoRequest
  <2>2. GatewayTypes
    BY DEF SideInit, GatewayTypes, Request, NoRequest, Fork
  <2>3. ViewTypes
    BY SideAssumption DEF SideInit, ViewTypes, Statuses, Word
  <2>. QED BY <2>1, <2>2, <2>3 DEF SideTypeOK
<1>2. SideInit => Inv
  BY DEF SideInit, Inv, CallsExclude, ForkFollows, TurnFollows, EndIsHeard,
         RunningForkIsStopped, Flag, NoRequest, Over
<1>. QED BY <1>1, <1>2, InvInductive, PTL DEF SideSpec

(* Every variable keeps its type.                                            *)
THEOREM SideTypeCorrect == SideSpec => []SideTypeOK
  BY InvHolds, PTL

(* A fork that was kept is there, listed and alerted for, and neither stopped *)
(* nor deleted by a dismissal, whenever that was asked for.                  *)
THEOREM KeepStands == SideSpec => []KeptStaysKept
  BY InvHolds, InvSuffices, PTL

(* Once all calls have ended a fork is only left where nobody could do better.*)
THEOREM NoForkIsLeft == SideSpec => []NothingLeftBehind
  BY InvHolds, InvSuffices, PTL

(* A fork is not deleted under a running turn that could still be stopped.    *)
THEOREM StoppedFirst == SideSpec => []RunningForkIsStopped
<1>1. Inv => RunningForkIsStopped
  BY DEF Inv
<1>. QED BY <1>1, InvHolds, PTL

-----------------------------------------------------------------------------
(* Voice.                                                                    *)

Recording == {"recording", "stopping"}

(* The microphone is on exactly while a capture records, only a capture that  *)
(* waits for it or has ended can be granted it, and one that still records    *)
(* was not told to finish.                                                    *)
Sound(x) ==
  /\ x.stream <=> x.at \in Recording
  /\ x.asked => x.at \in Ended \cup {"asking"}
  /\ x.at = "recording" => ~x.finishing

(* A capture goes on from `x` to `y`: one that ended stays so, one that is to *)
(* be reviewed stays to be reviewed, and none goes back to recording.         *)
Goes(x, y) ==
  /\ y \in CaptureRecord /\ Sound(y)
  /\ Settled(x) => y.at = x.at
  /\ x.review => y.review
  /\ y.at \in {"asking", "recording"} => x.at \in {"asking", "recording"}

(* Every capture but the one at hand has ended; the cut ones are for review.  *)
CaptureInv ==
  /\ CaptureTypes
  /\ \A c \in DOMAIN cap : Sound(cap[c]) /\ (c # current => Settled(cap[c]))
  /\ \A c \in cut : cap[c].review

(* Nothing is read aloud while a capture is at work.                         *)
QuietWhileActive == CaptureActive => reading.play = "none"

(* What was sent of a capture was said by it alone; the finish that is out    *)
(* has not sent it yet, and its voice draft is empty while it is at hand.     *)
Spoken == {sent[i].of : i \in DOMAIN sent}
TurnInv ==
  /\ TurnIsTheOperators
  /\ \A c \in Spoken : c \in DOMAIN cap /\ cap[c].at = "stopped"
  /\ finisher.at # "idle" => finisher.of \notin Spoken
  /\ finisher.at = "commit" => cap[finisher.of].at = "stopped"
  /\ Phase \in {"starting", "recording"} /\ composer.voice => composer.draft = <<>>
  /\ finisher.at # "idle" /\ finisher.voice /\ finisher.of = current => composer.draft = <<>>

(* No reply is awaited while a capture is at work or being finished, one      *)
(* reply at a time is, and what came in between is a second submission.       *)
ReplyInv ==
  /\ CaptureActive \/ (finisher.at # "idle" /\ finisher.of = current) => ~Waits(reading)
  /\ ~(reading.armed /\ reading.request)
  /\ reading.armed => turn.users > 0
  /\ reading.armed /\ spoiled => turn.users > 1
  /\ OnlyItsReplyIsRead

(* Between two settlements the lock is asked for, held or refused when it is  *)
(* needed on a visible page, and not held when it is not.                     *)
ScreenInv ==
  ~lock.due =>
    IF NeedsScreen THEN lock.asking \/ lock.held \/ ~visible \/ lock.refused ELSE ~lock.held

-----------------------------------------------------------------------------
(* What is done to a capture's record.                                       *)

(* Finishing a capture, or cancelling it, lets it go on or ends it.           *)
LEMMA RecordGoesOn ==
  ASSUME NEW x \in CaptureRecord, Sound(x), NEW b \in BOOLEAN
  PROVE  /\ Goes(x, x)
         /\ Goes(x, Finished(x, b)) /\ (b => Finished(x, b).review)
         /\ Goes(x, Cancelled(x)) /\ Settled(Cancelled(x))
<1>1. Goes(x, x)
  BY DEF Goes
<1>2. Goes(x, Finished(x, b)) /\ (b => Finished(x, b).review)
  BY DEF Goes, Finished, Sound, Settled, Ended, CaptureRecord, Recording
<1>3. Goes(x, Cancelled(x)) /\ Settled(Cancelled(x))
  BY DEF Goes, Cancelled, Sound, Settled, Ended, CaptureRecord, Recording
<1>. QED BY <1>1, <1>2, <1>3

(* So do the two answers of the permission to record.                         *)
LEMMA GrantedGoesOn ==
  ASSUME NEW x \in CaptureRecord, Sound(x), x.asked
  PROVE  /\ Goes(x, Granted(x))
         /\ Goes(x, [IF Settled(x) THEN x ELSE Failed(x) EXCEPT !.asked = FALSE])
<1>1. Goes(x, Granted(x))
  BY DEF Goes, Granted, Sound, Settled, Ended, CaptureRecord, Recording
<1>2. CASE Settled(x)
  BY <1>1, <1>2 DEF Goes, Sound, Settled, Ended, CaptureRecord, Recording
<1>3. CASE ~Settled(x)
  BY <1>1, <1>3 DEF Goes, Failed, Sound, Settled, Ended, CaptureRecord, Recording
<1>. QED BY <1>1, <1>2, <1>3

(* So does what the recorder tells: data, a limit, an error, its end.         *)
LEMMA RecordingGoesOn ==
  ASSUME NEW x \in CaptureRecord, Sound(x), x.at \in Recording, NEW b \in BOOLEAN
  PROVE  /\ Goes(x, [x EXCEPT !.data = TRUE])
         /\ LET y == Finished([x EXCEPT !.data = @ \/ b, !.over = ~b], TRUE)
            IN  Goes(x, y) /\ y.review
         /\ Goes(x, Failed(x))
         /\ Goes(x, Recorded(x)) /\ (x.at = "recording" => Recorded(x).review)
<1>1. Goes(x, [x EXCEPT !.data = TRUE]) /\ Goes(x, Failed(x))
  BY DEF Goes, Failed, Sound, Settled, Ended, CaptureRecord, Recording
<1>2. LET y == Finished([x EXCEPT !.data = @ \/ b, !.over = ~b], TRUE)
      IN  Goes(x, y) /\ y.review
  BY DEF Goes, Finished, Sound, Settled, Ended, CaptureRecord, Recording
<1>3. Goes(x, Recorded(x)) /\ (x.at = "recording" => Recorded(x).review)
  BY DEF Goes, Recorded, Failed, Sound, Settled, Ended, CaptureRecord, Recording
<1>. QED BY <1>1, <1>2, <1>3

(* So does the end of a transcription.                                        *)
LEMMA TranscribingGoesOn ==
  ASSUME NEW x \in CaptureRecord, Sound(x), x.at = "transcribing"
  PROVE  Goes(x, [x EXCEPT !.at = "stopped", !.blob = "none"]) /\ Goes(x, Failed(x))
  BY DEF Goes, Failed, Sound, Settled, Ended, CaptureRecord, Recording

(* A capture made by start, or by a retry of what was recorded before.        *)
LEMMA NewIsSound ==
  ASSUME NEW blob \in {"none", "audio", "silence"}
  PROVE  LET kept == [Fresh EXCEPT !.asked = FALSE, !.finishing = TRUE, !.review = TRUE,
                                   !.blob = blob]
             retried == [kept EXCEPT !.at = IF kept.blob = "audio" THEN "transcribing"
                                            ELSE "error"]
         IN  /\ Fresh \in CaptureRecord /\ Sound(Fresh)
             /\ retried \in CaptureRecord /\ Sound(retried) /\ retried.review
             /\ retried.at \notin {"asking", "recording"}
  BY DEF Fresh, Sound, Ended, CaptureRecord, Recording

-----------------------------------------------------------------------------
(* The captures.                                                             *)

(* A step of one capture leaves the others as they were.                      *)
LEMMA SetCapture ==
  ASSUME CaptureInv, NEW c \in DOMAIN cap, NEW y, Goes(cap[c], y)
  PROVE  LET cap2 == [cap EXCEPT ![c] = y]
         IN  /\ cap2 \in Seq(CaptureRecord) /\ Len(cap2) = Len(cap)
             /\ DOMAIN cap2 = DOMAIN cap
             /\ \A d \in DOMAIN cap : cap2[d] = IF d = c THEN y ELSE cap[d]
             /\ \A d \in DOMAIN cap : Goes(cap[d], cap2[d])
<1>1. \A d \in DOMAIN cap : cap[d] \in CaptureRecord /\ Goes(cap[d], cap[d])
  BY DEF CaptureInv, CaptureTypes, Goes
<1>2. y \in CaptureRecord
  BY DEF Goes
<1>. QED BY <1>1, <1>2 DEF CaptureInv, CaptureTypes

(* cancelCapture ends the capture at hand, and so leaves none at work.         *)
LEMMA DroppedEnds ==
  ASSUME CaptureInv
  PROVE  /\ Dropped \in Seq(CaptureRecord) /\ Len(Dropped) = Len(cap)
         /\ DOMAIN Dropped = DOMAIN cap
         /\ \A c \in DOMAIN cap : Goes(cap[c], Dropped[c]) /\ Settled(Dropped[c])
<1>1. CASE current = 0
  <2>1. Dropped = cap /\ \A c \in DOMAIN cap : c # current
    BY <1>1 DEF Dropped, CaptureInv, CaptureTypes
  <2>. QED BY <2>1 DEF CaptureInv, CaptureTypes, Goes
<1>2. CASE current # 0
  <2>1. current \in DOMAIN cap
    BY <1>2 DEF CaptureInv, CaptureTypes
  <2>2. cap[current] \in CaptureRecord /\ Sound(cap[current])
    BY <2>1 DEF CaptureInv, CaptureTypes
  <2>3. Goes(cap[current], Cancelled(cap[current])) /\ Settled(Cancelled(cap[current]))
    BY <2>2, RecordGoesOn
  <2>4. Dropped = [cap EXCEPT ![current] = Cancelled(cap[current])]
    BY <1>2 DEF Dropped
  <2>. HIDE DEF Dropped
  <2>. QED BY <2>1, <2>3, <2>4, SetCapture DEF CaptureInv
<1>. QED BY <1>1, <1>2

(* What a step does to the captures: each goes on, and at most one is made.   *)
CapturesGoOn ==
  /\ cap' \in Seq(CaptureRecord) /\ Len(cap') \in {Len(cap), Len(cap) + 1}
  /\ Len(cap') <= MaxCaptures
  /\ \A c \in DOMAIN cap : c \in DOMAIN cap' /\ Goes(cap[c], cap'[c])

(* A step of capture `c` alone.                                              *)
OneGoesOn(c) ==
  /\ current' = current
  /\ \E y : Goes(cap[c], y) /\ Set(c, y) /\ cut' \in {cut} \cup {cut \cup {d \in {c} : y.review}}

(* What happens to a capture is a step of it alone, and cuts it only for      *)
(* review.                                                                    *)
LEMMA CaptureSteps ==
  ASSUME CaptureInv, NEW c \in DOMAIN cap,
         \/ Grant(c) \/ Deny(c) \/ Data(c) \/ Limit(c) \/ Ends(c) \/ Errs(c) \/ Stopped(c)
         \/ StopsItself(c) \/ Transcribed(c) \/ NotTranscribed(c)
  PROVE  OneGoesOn(c)
<1>x. cap[c] \in CaptureRecord /\ Sound(cap[c])
  BY DEF CaptureInv, CaptureTypes
<1>1. CASE Grant(c)
  BY <1>1, <1>x, GrantedGoesOn DEF Grant, OneGoesOn, Untouched
<1>2. CASE Deny(c)
  BY <1>2, <1>x, GrantedGoesOn DEF Deny, OneGoesOn, Untouched
<1>3. CASE Data(c)
  BY <1>3, <1>x, RecordingGoesOn DEF Data, OneGoesOn, Untouched, Recording
<1>4. CASE Limit(c)
  BY <1>4, <1>x, RecordingGoesOn DEF Limit, OneGoesOn, Untouched, Recording
<1>5. CASE Ends(c)
  BY <1>5, <1>x, RecordGoesOn DEF Ends, OneGoesOn, Untouched
<1>6. CASE Errs(c)
  BY <1>6, <1>x, RecordingGoesOn DEF Errs, OneGoesOn, Untouched, Recording
<1>7. CASE Stopped(c)
  BY <1>7, <1>x, RecordingGoesOn DEF Stopped, OneGoesOn, Untouched, Recording
<1>8. CASE StopsItself(c)
  BY <1>8, <1>x, RecordingGoesOn DEF StopsItself, OneGoesOn, Untouched, Recording
<1>9. CASE Transcribed(c)
  BY <1>9, <1>x, TranscribingGoesOn DEF Transcribed, OneGoesOn
<1>10. CASE NotTranscribed(c)
  BY <1>10, <1>x, TranscribingGoesOn DEF NotTranscribed, OneGoesOn, Untouched
<1>. QED BY <1>1, <1>2, <1>3, <1>4, <1>5, <1>6, <1>7, <1>8, <1>9, <1>10

(* Such a step keeps the invariant of the captures.                           *)
LEMMA OneKeepsCaptures ==
  ASSUME CaptureInv, NEW c \in DOMAIN cap, OneGoesOn(c)
  PROVE  CaptureInv' /\ CapturesGoOn /\ DOMAIN cap' = DOMAIN cap
<1>1. PICK y : /\ Goes(cap[c], y) /\ cap' = [cap EXCEPT ![c] = y]
               /\ cut' \in {cut} \cup {cut \cup {d \in {c} : y.review}}
  BY DEF OneGoesOn, Set
<1>2. /\ cap' \in Seq(CaptureRecord) /\ Len(cap') = Len(cap) /\ DOMAIN cap' = DOMAIN cap
      /\ \A d \in DOMAIN cap : cap'[d] = IF d = c THEN y ELSE cap[d]
      /\ \A d \in DOMAIN cap : Goes(cap[d], cap'[d])
  BY <1>1, SetCapture
<1>3. CapturesGoOn
  BY <1>2 DEF CapturesGoOn, CaptureInv, CaptureTypes
<1>4. cut' \subseteq DOMAIN cap /\ \A d \in cut' : cap'[d].review
  BY <1>1, <1>2 DEF CaptureInv, CaptureTypes, Goes
<1>5. \A d \in DOMAIN cap : Sound(cap'[d]) /\ (d # current => Settled(cap'[d]))
  BY <1>2 DEF CaptureInv, Goes, Settled
<1>6. CaptureTypes'
  BY <1>2, <1>4 DEF OneGoesOn, CaptureInv, CaptureTypes
<1>. QED BY <1>2, <1>3, <1>4, <1>5, <1>6 DEF CaptureInv, OneGoesOn

(* A new capture, the one at hand being dropped.                              *)
LEMMA ListenKeepsCaptures ==
  ASSUME CaptureInv, NEW new \in CaptureRecord, Sound(new), Listen(new),
         cut' \in {cut} \cup {cut \cup {c \in {Len(cap')} : new.review}}
  PROVE  /\ CaptureInv' /\ CapturesGoOn
         /\ current' = Len(cap') /\ Len(cap') = Len(cap) + 1 /\ cap'[current'] = new
<1>1. /\ cap' = Append(Dropped, new) /\ current' = Len(cap') /\ Len(cap) < MaxCaptures
  BY DEF Listen
<1>2. /\ Dropped \in Seq(CaptureRecord) /\ Len(Dropped) = Len(cap)
      /\ DOMAIN Dropped = DOMAIN cap
      /\ \A c \in DOMAIN cap : Goes(cap[c], Dropped[c]) /\ Settled(Dropped[c])
  BY DroppedEnds
<1>. HIDE DEF Dropped
<1>3. /\ cap' \in Seq(CaptureRecord) /\ Len(cap') = Len(cap) + 1
      /\ DOMAIN cap' = DOMAIN cap \cup {Len(cap) + 1}
      /\ cap'[Len(cap) + 1] = new
      /\ \A c \in DOMAIN cap : cap'[c] = Dropped[c]
  BY <1>1, <1>2
<1>4. Len(cap) \in Nat /\ MaxCaptures \in Nat /\ DOMAIN cap = 1..Len(cap)
  BY VoiceAssumption DEF CaptureInv, CaptureTypes
<1>5. CapturesGoOn
  BY <1>1, <1>2, <1>3, <1>4 DEF CapturesGoOn
<1>6. \A c \in DOMAIN cap' : Sound(cap'[c]) /\ (c # current' => Settled(cap'[c]))
  BY <1>1, <1>2, <1>3 DEF Goes
<1>7. cut' \subseteq DOMAIN cap' /\ \A c \in cut' : cap'[c].review
  BY <1>1, <1>2, <1>3, <1>4 DEF CaptureInv, CaptureTypes, Goes
<1>8. CaptureTypes'
  BY <1>1, <1>3, <1>4, <1>7 DEF CaptureTypes
<1>. QED BY <1>1, <1>3, <1>5, <1>6, <1>7, <1>8 DEF CaptureInv

(* Dropping the capture at hand without a new one.                            *)
LEMMA DropKeepsCaptures ==
  ASSUME CaptureInv, cap' = Dropped, current' = 0, cut' = cut
  PROVE  CaptureInv' /\ CapturesGoOn /\ DOMAIN cap' = DOMAIN cap
<1>1. /\ Dropped \in Seq(CaptureRecord) /\ Len(Dropped) = Len(cap)
      /\ DOMAIN Dropped = DOMAIN cap
      /\ \A c \in DOMAIN cap : Goes(cap[c], Dropped[c]) /\ Settled(Dropped[c])
  BY DroppedEnds
<1>. HIDE DEF Dropped
<1>2. CapturesGoOn
  BY <1>1 DEF CapturesGoOn, CaptureInv, CaptureTypes
<1>3. CaptureTypes'
  BY <1>1 DEF CaptureInv, CaptureTypes
<1>4. \A c \in cut' : cap'[c].review
  BY <1>1 DEF CaptureInv, CaptureTypes, Goes
<1>. QED BY <1>1, <1>2, <1>3, <1>4 DEF CaptureInv, Goes

(* Starting, and a retry, make one capture more, to be recorded or not.       *)
LEMMA StartMakesOne ==
  ASSUME CaptureInv, Start \/ Retry
  PROVE  /\ CaptureInv' /\ CapturesGoOn
         /\ current' = Len(cap') /\ Len(cap') = Len(cap) + 1
         /\ Retry => cap'[current'].at \notin {"asking", "recording"}
<1>1. CASE Start
  <2>1. Fresh \in CaptureRecord /\ Sound(Fresh)
    BY NewIsSound
  <2>2. Listen(Fresh) /\ cut' = cut /\ ~Retry
    BY <1>1 DEF Start, Retry
  <2>. QED BY <2>1, <2>2, ListenKeepsCaptures
<1>2. CASE Retry
  <2>. DEFINE blob == cap[current].blob
              kept == [Fresh EXCEPT !.asked = FALSE, !.finishing = TRUE, !.review = TRUE,
                                    !.blob = blob]
              new == [kept EXCEPT !.at = IF kept.blob = "audio" THEN "transcribing"
                                         ELSE "error"]
  <2>1. current \in DOMAIN cap
    BY <1>2 DEF Retry, Phase, CaptureInv, CaptureTypes
  <2>2. blob \in {"none", "audio", "silence"}
    <3>1. cap[current] \in CaptureRecord
      BY <2>1 DEF CaptureInv, CaptureTypes
    <3>. QED BY <3>1 DEF CaptureRecord
  <2>3. new \in CaptureRecord /\ Sound(new) /\ new.review /\ new.at \notin {"asking", "recording"}
    BY <2>2, NewIsSound
  <2>4. Listen(new) /\ cut' = cut \cup {Len(cap')}
    BY <1>2 DEF Retry
  <2>. HIDE DEF new
  <2>5. cut' = cut \cup {c \in {Len(cap')} : new.review}
    BY <2>3, <2>4
  <2>. QED BY <2>3, <2>4, <2>5, ListenKeepsCaptures
<1>. QED BY <1>1, <1>2

(* The steps of one capture, from the controller or the runtime.              *)
LEMMA FinishSteps ==
  ASSUME CaptureInv, composer.dictation \in 0..Len(cap), Finish \/ RuntimeStops
  PROVE  \E c \in DOMAIN cap : OneGoesOn(c) /\ cut' = cut
<1>1. CASE Finish
  <2>1. current \in DOMAIN cap
    BY <1>1 DEF Finish, Phase, CaptureInv, CaptureTypes
  <2>2. cap[current] \in CaptureRecord /\ Sound(cap[current])
    BY <2>1 DEF CaptureInv, CaptureTypes
  <2>3. Goes(cap[current], Finished(cap[current], FALSE))
    BY <2>2, RecordGoesOn
  <2>. QED BY <1>1, <2>1, <2>3 DEF Finish, OneGoesOn
<1>2. CASE RuntimeStops
  <2>. DEFINE c == composer.dictation
  <2>1. c \in DOMAIN cap
    BY <1>2 DEF RuntimeStops, CaptureInv, CaptureTypes
  <2>2. cap[c] \in CaptureRecord /\ Sound(cap[c])
    BY <2>1 DEF CaptureInv, CaptureTypes
  <2>3. Goes(cap[c], Finished(cap[c], FALSE)) /\ Goes(cap[c], Cancelled(cap[c]))
    BY <2>2, RecordGoesOn
  <2>. QED BY <1>2, <2>1, <2>3 DEF RuntimeStops, OneGoesOn, Untouched
<1>. QED BY <1>1, <1>2

(* The steps that leave every capture and the choice of it alone.             *)
Elsewhere ==
  \/ \E c \in DOMAIN cap : Tick(c)
  \/ HasResult \/ Commit \/ Show \/ Type \/ Aside \/ Runs \/ Replies \/ StopTurn
  \/ ReaderSees \/ Reads \/ Expire \/ Speak \/ Plays
  \/ Hide \/ Return \/ Settle \/ LockGranted \/ LockRefused \/ UNCHANGED vars

(* They leave the captures, the one at hand and the cut ones alone.           *)
LEMMA ElsewhereKeepsCaptures == Elsewhere => UNCHANGED <<cap, current, cut>>
  BY DEF Elsewhere, Tick, HasResult, Commit, Show, Type, Aside, Runs, Replies, Thread,
         StopTurn, ReaderSees, Reads, Expire, Speak, Plays, Hide, Return, Settle,
         LockGranted, LockRefused, ScreenOnly, Untouched, vars

(* Every step keeps the invariant of the captures, and every capture goes on. *)
LEMMA CapturesInductive ==
  CaptureInv /\ composer.dictation \in 0..Len(cap) /\ [Next]_vars
    => CaptureInv' /\ CapturesGoOn
<1>. SUFFICES ASSUME CaptureInv, composer.dictation \in 0..Len(cap), [Next]_vars
              PROVE  CaptureInv' /\ CapturesGoOn
  OBVIOUS
<1>1. CASE \E c \in DOMAIN cap :
             \/ Grant(c) \/ Deny(c) \/ Data(c) \/ Limit(c) \/ Ends(c) \/ Errs(c)
             \/ Stopped(c) \/ StopsItself(c) \/ Transcribed(c) \/ NotTranscribed(c)
  BY <1>1, CaptureSteps, OneKeepsCaptures
<1>2. CASE Finish \/ RuntimeStops
  BY <1>2, FinishSteps, OneKeepsCaptures
<1>3. CASE Start \/ Retry
  BY <1>3, StartMakesOne
<1>4. CASE Discard \/ Leave
  BY <1>4, DropKeepsCaptures DEF Discard, Leave
<1>5. CASE Elsewhere
  <2>1. cap' = cap /\ current' = current /\ cut' = cut
    BY <1>5, ElsewhereKeepsCaptures
  <2>2. CaptureInv'
    BY <2>1 DEF CaptureInv, CaptureTypes
  <2>. QED BY <2>1, <2>2 DEF CapturesGoOn, CaptureInv, CaptureTypes, Goes
<1>. QED BY <1>1, <1>2, <1>3, <1>4, <1>5 DEF Next, Elsewhere

-----------------------------------------------------------------------------
(* The types.                                                                *)

(* Texts and the finish stay those of captures that were made.                *)
LEMMA ComposerTypesInductive ==
  ASSUME CaptureInv, CapturesGoOn, CaptureTypes', ComposerTypes, [Next]_vars
  PROVE  ComposerTypes'
<1>1. /\ Len(cap) \in Nat /\ Len(cap') \in Nat /\ Len(cap) <= Len(cap')
      /\ Len(cap') <= MaxCaptures /\ MaxCaptures \in Nat
  BY VoiceAssumption DEF CapturesGoOn, CaptureInv, CaptureTypes
<1>2. 0..Len(cap) \subseteq 0..Len(cap') /\ 1..Len(cap) \subseteq 1..Len(cap')
      /\ 0..Len(cap') \subseteq Capture \cup {0} /\ 1..Len(cap') \subseteq Capture
  BY <1>1 DEF Capture
<1>z. 0 \in 0..Len(cap')
  BY <1>1
<1>3. /\ composer.text \in Text /\ composer.draft \in Text /\ composer.voice \in BOOLEAN
      /\ composer.dictation \in 0..Len(cap) /\ composer.said \in 0..Len(cap)
  BY DEF ComposerTypes, Composer
<1>4. /\ finisher.at \in {"idle", "result", "commit"} /\ finisher.voice \in BOOLEAN
      /\ finisher.of \in (IF finisher.at = "idle" THEN {0} ELSE 1..Len(cap))
  BY DEF ComposerTypes, Finisher
<1>5. \A t \in Text, c \in Capture \cup {0} : Append(t, c) \in Text
  BY DEF Text
<1>6. <<>> \in Text
  BY DEF Text
<1>7. composer \in Composer
  BY DEF ComposerTypes
<1>8. /\ composer' \in Composer
      /\ composer'.dictation \in 0..Len(cap') /\ composer'.said \in 0..Len(cap')
  <2>1. CASE composer' = composer
    BY <2>1, <1>2, <1>3, <1>7
  <2>2. CASE Start
    <3>1. Len(cap') = Len(cap) + 1
      BY <2>2, StartMakesOne
    <3>2. PICK voice \in BOOLEAN :
            composer' = [composer EXCEPT !.draft = composer.text, !.voice = voice,
                                         !.dictation = Len(cap) + 1, !.said = 0]
      BY <2>2 DEF Start
    <3>3. Len(cap) + 1 \in 0..Len(cap') /\ Len(cap) + 1 \in Capture \cup {0}
      BY <3>1, <1>1, <1>2
    <3>. QED BY <3>2, <3>3, <1>z, <1>3, <1>7 DEF Composer
  <2>3. CASE Retry
    <3>1. Len(cap') = Len(cap) + 1
      BY <2>3, StartMakesOne
    <3>2. Len(cap) + 1 \in 0..Len(cap') /\ Len(cap) + 1 \in Capture \cup {0}
      BY <3>1, <1>1, <1>2
    <3>3. composer' = [composer EXCEPT !.draft = composer.text, !.dictation = Len(cap) + 1,
                                       !.said = 0]
      BY <2>3 DEF Retry
    <3>. QED BY <3>2, <3>3, <1>z, <1>3, <1>7 DEF Composer
  <2>4. CASE Discard
    BY <2>4, <1>2, <1>3, <1>7 DEF Discard, Composer
  <2>5. CASE Leave
    <3>1. composer' = [composer EXCEPT !.text = <<>>, !.dictation = 0, !.said = 0]
      BY <2>5 DEF Leave
    <3>2. composer' \in Composer
      BY <3>1, <1>6, <1>7 DEF Composer
    <3>. QED BY <3>1, <3>2, <1>z, <1>7 DEF Composer
  <2>6. ASSUME NEW c \in DOMAIN cap, Transcribed(c)
        PROVE  /\ composer' \in Composer
               /\ composer'.dictation \in 0..Len(cap') /\ composer'.said \in 0..Len(cap')
    <3>1. c \in 0..Len(cap')
      BY <2>6, <1>1 DEF CaptureInv, CaptureTypes
    <3>. QED BY <2>6, <3>1, <1>2, <1>3, <1>7 DEF Transcribed, Composer
  <2>7. CASE Commit /\ composer' # composer
    BY <2>7, <1>2, <1>3, <1>6, <1>7 DEF Commit, Composer
  <2>8. CASE Show
    <3>1. Append(composer.text, composer.said) \in Text
      BY <1>2, <1>3, <1>5
    <3>2. PICK text \in Text :
            composer' = [composer EXCEPT !.dictation = 0, !.said = 0, !.text = text]
      BY <2>8, <3>1, <1>3 DEF Show
    <3>. QED BY <3>2, <1>z, <1>7 DEF Composer
  <2>9. CASE Type
    <3>1. Append(composer.text, 0) \in Text
      BY <1>3, <1>5
    <3>. QED BY <2>9, <3>1, <1>2, <1>3, <1>7 DEF Type, Composer
  <2>. QED
    BY <2>1, <2>2, <2>3, <2>4, <2>5, <2>6, <2>7, <2>8, <2>9
    DEF Next, vars, Untouched, Grant, Deny, Data, Limit, Ends, Errs, Stopped, StopsItself,
        Tick, NotTranscribed, RuntimeStops, Finish, HasResult, Aside, Runs, Replies, Thread,
        StopTurn, ReaderSees, Reads, Expire, Speak, Plays, Hide, Return, Settle,
        LockGranted, LockRefused, ScreenOnly
<1>9. finisher' \in Finisher
      /\ finisher'.of \in (IF finisher'.at = "idle" THEN {0} ELSE 1..Len(cap'))
  <2>1. CASE finisher' = finisher
    BY <2>1, <1>2, <1>4 DEF ComposerTypes
  <2>2. CASE finisher' = NoFinish
    BY <2>2 DEF NoFinish, Finisher
  <2>3. CASE finisher.at = "result" /\ finisher' = [finisher EXCEPT !.at = "commit"]
    BY <2>3, <1>2, <1>4 DEF ComposerTypes, Finisher
  <2>4. CASE Finish
    <3>1. current \in 1..Len(cap')
      BY <2>4, <1>1 DEF Finish, Phase, CaptureInv, CaptureTypes
    <3>. QED BY <2>4, <3>1, <1>2, <1>3 DEF Finish, Finisher
  <2>. QED
    BY <2>1, <2>2, <2>3, <2>4
    DEF Next, vars, Untouched, Grant, Deny, Data, Limit, Ends, Errs, Stopped, StopsItself,
        Tick, Transcribed, NotTranscribed, Start, Retry, Listen, Discard, RuntimeStops,
        Leave, HasResult, Commit, Show, Type, Aside, Runs, Replies, Thread,
        StopTurn, ReaderSees, Reads, Expire, Speak, Plays, Hide, Return, Settle,
        LockGranted, LockRefused, ScreenOnly
<1>10. sent' \in Seq([of : Capture, text : Text])
  <2>1. CASE sent' = sent
    BY <2>1 DEF ComposerTypes
  <2>2. CASE Commit /\ sent' # sent
    <3>1. finisher.of \in Capture
      BY <2>2, <1>2, <1>4 DEF Commit
    <3>2. [of |-> finisher.of, text |-> composer.text] \in [of : Capture, text : Text]
      BY <3>1, <1>3
    <3>3. sent' = Append(sent, [of |-> finisher.of, text |-> composer.text])
      BY <2>2 DEF Commit
    <3>. HIDE DEF Capture
    <3>. QED BY <3>2, <3>3 DEF ComposerTypes
  <2>. QED
    BY <2>1, <2>2
    DEF Next, vars, Untouched, Grant, Deny, Data, Limit, Ends, Errs, Stopped, StopsItself,
        Tick, Transcribed, NotTranscribed, Start, Retry, Listen, Discard, RuntimeStops,
        Leave, Finish, HasResult, Show, Type, Aside, Runs, Replies, Thread,
        StopTurn, ReaderSees, Reads, Expire, Speak, Plays, Hide, Return, Settle,
        LockGranted, LockRefused, ScreenOnly
<1>. QED BY <1>8, <1>9, <1>10 DEF ComposerTypes

(* The reading, the thread's turn, the lock and the flags keep their types.   *)
LEMMA PageTypesInductive ==
  PageTypes /\ [Next]_vars => PageTypes'
<1>. SUFFICES ASSUME PageTypes, [Next]_vars PROVE PageTypes'
  OBVIOUS
<1>. USE DEF PageTypes
<1>1. reading' \in Reading
  <2>. USE DEF Reading
  <2>1. CASE reading' = reading
    BY <2>1
  <2>2. CASE Start \/ Retry
    BY <2>2 DEF Start, Retry, Listen, Hushed, Disarmed
  <2>3. CASE Discard \/ Leave \/ StopTurn \/ Speak \/ Hide
    BY <2>3 DEF Discard, Leave, StopTurn, Speak, Hide, Hushed, Disarmed
  <2>4. CASE Commit \/ Expire
    BY <2>4 DEF Commit, Expire
  <2>5. CASE ReaderSees
    <3>1. (visible /\ ~CaptureActive) \in BOOLEAN
      BY DEF CaptureActive
    <3>. QED BY <2>5, <3>1 DEF ReaderSees
  <2>6. CASE Reads \/ Plays
    BY <2>6 DEF Reads, Plays
  <2>. QED
    BY <2>1, <2>2, <2>3, <2>4, <2>5, <2>6
    DEF Next, vars, Untouched, Grant, Deny, Data, Limit, Ends, Errs, Stopped, StopsItself,
        Tick, Transcribed, NotTranscribed, RuntimeStops, Finish, HasResult, Show, Type,
        Aside, Runs, Replies, Thread, Return, Settle, LockGranted, LockRefused, ScreenOnly
<1>2. turn' \in Turn
  <2>. USE DEF Turn
  <2>1. CASE turn' = turn
    BY <2>1
  <2>2. CASE turn' = NoTurn \/ turn' = [NoTurn EXCEPT !.users = 1]
    <3>1. NoTurn \in Turn
      BY DEF NoTurn
    <3>. QED BY <2>2, <3>1
  <2>3. CASE Aside
    BY <2>3 DEF Aside, Thread
  <2>4. CASE Runs \/ Replies \/ StopTurn
    BY <2>4 DEF Runs, Replies, StopTurn, Thread
  <2>. QED
    BY <2>1, <2>2, <2>3, <2>4
    DEF Next, vars, Untouched, Grant, Deny, Data, Limit, Ends, Errs, Stopped, StopsItself,
        Tick, Transcribed, NotTranscribed, Start, Retry, Listen, Discard, Leave,
        RuntimeStops, Finish, HasResult, Commit, Show, Type, ReaderSees, Reads, Expire,
        Speak, Plays, Hide, Return, Settle, LockGranted, LockRefused, ScreenOnly
<1>3. lock' \in Lock
  <2>. USE DEF Lock
  <2>1. CASE lock' = lock \/ Hold
    BY <2>1 DEF Hold
  <2>2. CASE StopTurn \/ Hide
    BY <2>2 DEF StopTurn, Hide, Waits
  <2>3. CASE Settle
    BY <2>3 DEF Settle
  <2>4. CASE LockGranted
    <3>1. Keeps \in BOOLEAN
      BY DEF Keeps, NeedsScreen
    <3>. QED BY <2>4, <3>1 DEF LockGranted
  <2>5. CASE LockRefused
    BY <2>5 DEF LockRefused
  <2>. QED
    BY <2>1, <2>2, <2>3, <2>4, <2>5
    DEF Next, vars, Untouched, Grant, Deny, Data, Limit, Ends, Errs, Stopped, StopsItself,
        Tick, Tell, Transcribed, NotTranscribed, Start, Retry, Listen, Discard, Leave,
        RuntimeStops, Finish, HasResult, Commit, Show, Type, Aside, Runs, Replies, Thread,
        ReaderSees, Reads, Expire, Speak, Plays, Return
<1>4. visible' \in BOOLEAN /\ spoiled' \in BOOLEAN
  BY DEF Next, vars, Untouched, Grant, Deny, Data, Limit, Ends, Errs, Stopped, StopsItself,
         Tick, Transcribed, NotTranscribed, Start, Retry, Listen, Discard, Leave,
         RuntimeStops, Finish, HasResult, Commit, Show, Type, Aside, Runs, Replies, Thread,
         StopTurn, ReaderSees, Reads, Expire, Speak, Plays, Hide, Return, Settle,
         LockGranted, LockRefused, ScreenOnly
<1>5. extras' \in 0..MaxExtras
  <2>1. MaxExtras \in Nat /\ (extras' = extras \/ Extra)
    BY VoiceAssumption
    DEF Next, vars, Untouched, Grant, Deny, Data, Limit, Ends, Errs, Stopped, StopsItself,
        Tick, Transcribed, NotTranscribed, Start, Retry, Listen, Discard, Leave,
        RuntimeStops, Finish, HasResult, Commit, Show, Type, Aside, Runs, Replies, Thread,
        StopTurn, ReaderSees, Reads, Expire, Speak, Plays, Hide, Return, Settle,
        LockGranted, LockRefused, ScreenOnly
  <2>. QED BY <2>1 DEF Extra
<1>. QED BY <1>1, <1>2, <1>3, <1>4, <1>5

(* No capture, no turn and no lock is a state of the right types.             *)
LEMMA InitHolds ==
  Init => CaptureInv /\ ComposerTypes /\ PageTypes
<1>. SUFFICES ASSUME Init PROVE CaptureInv /\ ComposerTypes /\ PageTypes
  OBVIOUS
<1>1. /\ <<>> \in Seq(CaptureRecord) /\ <<>> \in Text
      /\ <<>> \in Seq([of : Capture, text : Text])
  BY DEF Text
<1>2. Len(<<>>) = 0 /\ DOMAIN <<>> = {}
  OBVIOUS
<1>3. CaptureInv
  BY <1>1, <1>2, VoiceAssumption DEF Init, CaptureInv, CaptureTypes
<1>4. ComposerTypes
  BY <1>1, <1>2 DEF Init, ComposerTypes, Composer, Finisher, NoFinish
<1>5. PageTypes
  <2>1. Quiet \in Reading /\ NoTurn \in Turn
    BY DEF Reading, Quiet, Turn, NoTurn
  <2>2. lock \in Lock
    BY DEF Init, Lock
  <2>3. extras \in 0..MaxExtras
    BY VoiceAssumption DEF Init
  <2>. QED BY <2>1, <2>2, <2>3 DEF Init, PageTypes
<1>. QED BY <1>3, <1>4, <1>5

Basic == CaptureInv /\ ComposerTypes /\ PageTypes

(* Types and captures together are kept by every step.                        *)
LEMMA BasicInductive == Basic /\ [Next]_vars => Basic' /\ CapturesGoOn
<1>. SUFFICES ASSUME Basic, [Next]_vars PROVE Basic' /\ CapturesGoOn
  OBVIOUS
<1>1. CaptureInv' /\ CapturesGoOn
  BY CapturesInductive DEF Basic, ComposerTypes
<1>2. ComposerTypes'
  BY <1>1, ComposerTypesInductive DEF Basic, CaptureInv
<1>. QED BY <1>1, <1>2, PageTypesInductive DEF Basic

(* Every variable of the voice keeps its type: texts are of captures made, and *)
(* the finish that is out is of one of them.                                  *)
THEOREM TypeCorrect == Spec => []TypeOK
<1>1. Init => Basic
  BY InitHolds DEF Basic
<1>2. Basic => TypeOK
  BY DEF Basic, TypeOK, CaptureInv
<1>. QED BY <1>1, <1>2, BasicInductive, PTL DEF Spec

-----------------------------------------------------------------------------
(* The microphone.                                                           *)

(* The controller's phase is that of its capture.                             *)
LEMMA PhaseIs ==
  /\ CaptureInv =>
       /\ CaptureActive <=> current # 0 /\ ~Settled(cap[current])
       /\ Phase \in {"starting", "recording"}
            <=> current # 0 /\ cap[current].at \in {"asking", "recording"}
       /\ current # 0 => current \in DOMAIN cap /\ cap[current] \in CaptureRecord
  /\ CaptureInv' =>
       /\ CaptureActive' <=> current' # 0 /\ ~Settled(cap'[current'])
       /\ Phase' \in {"starting", "recording"}
            <=> current' # 0 /\ cap'[current'].at \in {"asking", "recording"}
       /\ current' # 0 => current' \in DOMAIN cap' /\ cap'[current'] \in CaptureRecord
<1>1. ASSUME CaptureInv
      PROVE  current # 0 => current \in DOMAIN cap /\ cap[current] \in CaptureRecord
  BY <1>1 DEF CaptureInv, CaptureTypes
<1>2. ASSUME CaptureInv'
      PROVE  current' # 0 => current' \in DOMAIN cap' /\ cap'[current'] \in CaptureRecord
  BY <1>2 DEF CaptureInv, CaptureTypes
<1>3. ASSUME NEW x \in CaptureRecord
      PROVE  x.at \in {"asking", "recording", "stopping", "transcribing", "stopped",
                       "cancelled", "error"}
  BY <1>3 DEF CaptureRecord
<1>4. ASSUME CaptureInv
      PROVE  /\ CaptureActive <=> current # 0 /\ ~Settled(cap[current])
             /\ Phase \in {"starting", "recording"}
                  <=> current # 0 /\ cap[current].at \in {"asking", "recording"}
  BY <1>1, <1>3, <1>4 DEF CaptureActive, Phase, Settled, Ended
<1>5. ASSUME CaptureInv'
      PROVE  /\ CaptureActive' <=> current' # 0 /\ ~Settled(cap'[current'])
             /\ Phase' \in {"starting", "recording"}
                  <=> current' # 0 /\ cap'[current'].at \in {"asking", "recording"}
  BY <1>2, <1>3, <1>5 DEF CaptureActive, Phase, Settled, Ended
<1>. QED BY <1>1, <1>2, <1>4, <1>5

(* Only a start or a retry puts another capture at hand.                      *)
LEMMA CurrentSteps ==
  [Next]_vars => current' = current \/ Discard \/ Leave \/ Start \/ Retry
  BY DEF Next, vars, Untouched, Grant, Deny, Data, Limit, Ends, Errs, Stopped, StopsItself,
         Tick, Transcribed, NotTranscribed, RuntimeStops, Finish, HasResult, Commit, Show,
         Type, Aside, Runs, Replies, Thread, StopTurn, ReaderSees, Reads, Expire, Speak,
         Plays, Hide, Return, Settle, LockGranted, LockRefused, ScreenOnly

(* A capture at work was at work before, or was just started.                 *)
LEMMA ActiveSteps ==
  ASSUME CaptureInv, CaptureInv', CapturesGoOn, [Next]_vars, CaptureActive'
  PROVE  (CaptureActive /\ current' = current) \/ Start \/ Retry
<1>1. current' # 0 /\ ~Settled(cap'[current'])
  BY PhaseIs
<1>2. CASE current' = current
  <2>1. current \in DOMAIN cap /\ Goes(cap[current], cap'[current])
    BY <1>1, <1>2, PhaseIs DEF CapturesGoOn
  <2>2. ~Settled(cap[current])
    BY <1>1, <1>2, <2>1 DEF Goes, Settled
  <2>. QED BY <1>1, <1>2, <2>2, PhaseIs
<1>3. CASE Discard \/ Leave
  BY <1>1, <1>3 DEF Discard, Leave
<1>. QED BY <1>2, <1>3, CurrentSteps

(* What is read aloud goes on, stops, or begins with no capture at work.       *)
LEMMA PlaySteps ==
  ASSUME PageTypes, [Next]_vars
  PROVE  \/ reading'.play = "none" \/ reading'.play = reading.play
         \/ ~CaptureActive /\ UNCHANGED <<cap, current>>
         \/ reading.play # "none"
<1>r. reading \in Reading
  BY DEF PageTypes
<1>1. CASE reading' = reading
  BY <1>1
<1>2. CASE Start \/ Retry \/ Leave
  BY <1>r, <1>2 DEF Start, Retry, Leave, Listen, Hushed, Disarmed, Reading
<1>3. CASE Discard \/ StopTurn \/ Hide
  BY <1>r, <1>3 DEF Discard, StopTurn, Hide, Disarmed, Reading
<1>4. CASE Commit \/ ReaderSees \/ Expire
  BY <1>r, <1>4 DEF Commit, ReaderSees, Expire, Reading
<1>5. CASE Reads
  BY <1>r, <1>5 DEF Reads, Reading
<1>6. CASE Speak \/ Plays
  BY <1>6 DEF Speak, Plays
<1>. QED
  BY <1>1, <1>2, <1>3, <1>4, <1>5, <1>6
  DEF Next, vars, Untouched, Grant, Deny, Data, Limit, Ends, Errs, Stopped, StopsItself,
      Tick, Transcribed, NotTranscribed, RuntimeStops, Finish, HasResult, Show, Type,
      Aside, Runs, Replies, Thread, Return, Settle, LockGranted, LockRefused, ScreenOnly

(* A capture is started with nothing read aloud or waited for, and a reading   *)
(* begins only while none is at work.                                         *)
LEMMA QuietInductive ==
  ASSUME Basic, Basic', CapturesGoOn, QuietWhileActive, [Next]_vars
  PROVE  QuietWhileActive'
<1>. SUFFICES ASSUME CaptureActive' PROVE reading'.play = "none"
  BY DEF QuietWhileActive
<1>1. CASE Start \/ Retry
  BY <1>1 DEF Start, Retry, Listen, Hushed, Disarmed, Basic, PageTypes, Reading
<1>2. CASE CaptureActive /\ current' = current
  BY <1>2, PlaySteps DEF QuietWhileActive, Basic
<1>. QED BY <1>1, <1>2, ActiveSteps DEF Basic

(* The microphone is on only for the capture at hand while it records, and    *)
(* nothing is read aloud then.                                               *)
THEOREM MicIsReleasedAlways == Spec => []MicIsReleased
<1>1. Init => Basic /\ QuietWhileActive
  BY InitHolds DEF Basic, Init, QuietWhileActive, Quiet
<1>2. Basic /\ QuietWhileActive /\ [Next]_vars => Basic' /\ QuietWhileActive'
  BY BasicInductive, QuietInductive
<1>3. Basic /\ QuietWhileActive => MicIsReleased
  <2>. SUFFICES ASSUME Basic, QuietWhileActive, NEW c \in DOMAIN cap, cap[c].stream
                PROVE  /\ c = current /\ cap[c].at \in {"recording", "stopping"}
                       /\ reading.play = "none"
    BY DEF MicIsReleased
  <2>1. cap[c].at \in Recording /\ c = current
    BY DEF Basic, CaptureInv, Sound, Settled, Ended, Recording
  <2>2. CaptureActive
    BY <2>1, PhaseIs DEF Basic, CaptureInv, CaptureTypes, Settled, Ended, Recording
  <2>. QED BY <2>1, <2>2 DEF QuietWhileActive, Recording
<1>. QED BY <1>1, <1>2, <1>3, PTL DEF Spec

-----------------------------------------------------------------------------
(* The turns made of what was said.                                          *)

(* A capture is cut while it records, or as it is made again.                 *)
LEMMA CutSteps ==
  ASSUME Basic, [Next]_vars, NEW c \in cut' \ cut
  PROVE  c \notin DOMAIN cap \/ cap[c].at \in Recording
<1>1. ASSUME NEW d \in DOMAIN cap, cut' = cut \cup {d}, cap[d].at \in Recording
      PROVE  cap[c].at \in Recording
  BY <1>1
<1>2. CASE Retry
  <2>1. cut' = cut \cup {Len(cap')}
    BY <1>2 DEF Retry
  <2>2. Len(cap') = Len(cap) + 1
    BY <1>2, StartMakesOne DEF Basic
  <2>. QED BY <2>1, <2>2 DEF Basic, CaptureInv, CaptureTypes
<1>3. CASE \E d \in DOMAIN cap : Limit(d) \/ Ends(d) \/ StopsItself(d)
  BY <1>1, <1>3 DEF Limit, Ends, StopsItself, Recording
<1>. QED
  BY <1>2, <1>3
  DEF Next, vars, Untouched, Grant, Deny, Data, Errs, Stopped, Tick, Transcribed,
      NotTranscribed, Start, Discard, Leave, RuntimeStops, Finish, HasResult, Commit, Show,
      Type, Aside, Runs, Replies, Thread, StopTurn, ReaderSees, Reads, Expire, Speak,
      Plays, Hide, Return, Settle, LockGranted, LockRefused, ScreenOnly

(* The draft and the mode are those the capture at hand was started with.      *)
LEMMA DraftSteps ==
  ASSUME Basic, [Next]_vars
  PROVE  \/ composer'.draft = composer.draft /\ composer'.voice = composer.voice
         \/ Start \/ Retry
<1>1. composer \in Composer
  BY DEF Basic, ComposerTypes
<1>2. CASE composer' = composer
  BY <1>2
<1>3. CASE Discard \/ Leave \/ Commit \/ Show \/ Type
  BY <1>1, <1>3 DEF Discard, Leave, Commit, Show, Type, Composer
<1>4. ASSUME NEW c \in DOMAIN cap, Transcribed(c)
      PROVE  composer'.draft = composer.draft /\ composer'.voice = composer.voice
  BY <1>1, <1>4 DEF Transcribed, Composer
<1>. QED
  BY <1>2, <1>3, <1>4
  DEF Next, vars, Untouched, Grant, Deny, Data, Limit, Ends, Errs, Stopped, StopsItself,
      Tick, NotTranscribed, RuntimeStops, Finish, HasResult, Aside, Runs, Replies, Thread,
      StopTurn, ReaderSees, Reads, Expire, Speak, Plays, Hide, Return, Settle,
      LockGranted, LockRefused, ScreenOnly

(* A finish goes from its call over its result to its commit.                 *)
LEMMA FinisherSteps ==
  [Next]_vars =>
    \/ finisher' = finisher \/ finisher' = NoFinish \/ Finish
    \/ /\ finisher.at = "result" /\ finisher' = [finisher EXCEPT !.at = "commit"]
       /\ cap[finisher.of].at = "stopped"
  BY DEF Next, vars, Untouched, Grant, Deny, Data, Limit, Ends, Errs, Stopped, StopsItself,
         Tick, Transcribed, NotTranscribed, Start, Retry, Listen, Discard, RuntimeStops,
         Leave, HasResult, Commit, Show, Type, Aside, Runs, Replies, Thread, StopTurn,
         ReaderSees, Reads, Expire, Speak, Plays, Hide, Return, Settle, LockGranted,
         LockRefused, ScreenOnly

(* Only a commit sends.                                                      *)
LEMMA SentSteps ==
  [Next]_vars => sent' = sent \/ (Commit /\ sent' # sent)
  BY DEF Next, vars, Untouched, Grant, Deny, Data, Limit, Ends, Errs, Stopped, StopsItself,
         Tick, Transcribed, NotTranscribed, Start, Retry, Listen, Discard, RuntimeStops,
         Leave, Finish, HasResult, Show, Type, Aside, Runs, Replies, Thread, StopTurn,
         ReaderSees, Reads, Expire, Speak, Plays, Hide, Return, Settle, LockGranted,
         LockRefused, ScreenOnly

(* What is sent is what the finished capture said, and of no other.            *)
LEMMA CommitSends ==
  ASSUME Basic, TurnInv, Commit, sent' # sent
  PROVE  TurnIsTheOperators' /\ Spoken' = Spoken \cup {finisher.of}
<1>. DEFINE turn2 == [of |-> finisher.of, text |-> composer.text]
<1>1. /\ finisher.at = "commit" /\ finisher.of = current /\ finisher.voice /\ cut' = cut
      /\ composer.text = Append(composer.draft, finisher.of) /\ ~cap[finisher.of].review
      /\ sent' = Append(sent, turn2)
  BY DEF Commit, StillMine, MaySend
<1>2. composer.draft = <<>>
  BY <1>1 DEF TurnInv
<1>3. composer.text = <<finisher.of>>
  BY <1>1, <1>2
<1>4. finisher.of \notin cut /\ finisher.of \notin Spoken
  BY <1>1 DEF Basic, CaptureInv, TurnInv
<1>5. turn2 \in [of : Capture, text : Text]
  <2>1. finisher.of \in Capture
    BY <1>1, VoiceAssumption DEF Basic, CaptureInv, CaptureTypes, ComposerTypes, Capture
  <2>. QED BY <2>1 DEF Basic, ComposerTypes, Composer
<1>6. /\ sent \in Seq([of : Capture, text : Text])
      /\ turn2.of = finisher.of /\ turn2.text = <<finisher.of>>
  BY <1>3 DEF Basic, ComposerTypes
<1>. HIDE DEF turn2, Capture
<1>7. /\ DOMAIN sent' = DOMAIN sent \cup {Len(sent) + 1} /\ sent'[Len(sent) + 1] = turn2
      /\ \A i \in DOMAIN sent : sent'[i] = sent[i]
  BY <1>1, <1>5, <1>6
<1>8. Spoken' = Spoken \cup {finisher.of}
  BY <1>6, <1>7 DEF Spoken
<1>9. \A i \in DOMAIN sent' : sent'[i].of \notin cut' /\ sent'[i].text = <<sent'[i].of>>
  BY <1>1, <1>4, <1>6, <1>7 DEF TurnInv, TurnIsTheOperators
<1>10. \A i, j \in DOMAIN sent' : sent'[i].of = sent'[j].of => i = j
  BY <1>4, <1>6, <1>7 DEF TurnInv, TurnIsTheOperators, Spoken
<1>. QED BY <1>8, <1>9, <1>10 DEF TurnIsTheOperators

(* Every step keeps what is said of the turns and of the finish that is out.  *)
LEMMA TurnInductive ==
  ASSUME Basic, Basic', CapturesGoOn, TurnInv, [Next]_vars
  PROVE  TurnInv'
<1>of. finisher.at # "idle" => finisher.of \in DOMAIN cap
  BY DEF Basic, ComposerTypes, CaptureInv, CaptureTypes
<1>1. \A c \in Spoken : c \in DOMAIN cap' /\ cap'[c].at = "stopped"
  BY DEF CapturesGoOn, Goes, TurnInv, Settled, Ended
<1>2. \A c \in Spoken : c \notin cut'
  <2>1. \A c \in Spoken : c \notin cut
    BY DEF Spoken, TurnInv, TurnIsTheOperators
  <2>. QED BY <2>1, CutSteps DEF TurnInv, Recording
<1>3. finisher.at = "commit" => cap'[finisher.of].at = "stopped"
  BY <1>of DEF CapturesGoOn, Goes, TurnInv, Settled, Ended
<1>4. /\ TurnIsTheOperators'
      /\ \A c \in Spoken' : c \in DOMAIN cap' /\ cap'[c].at = "stopped"
      /\ finisher'.at # "idle" => finisher'.of \notin Spoken'
  <2>1. CASE Commit /\ sent' # sent
    <3>1. finisher' = NoFinish /\ finisher.at = "commit" /\ cap' = cap
      BY <2>1 DEF Commit
    <3>2. TurnIsTheOperators' /\ Spoken' = Spoken \cup {finisher.of}
      BY <2>1, CommitSends
    <3>3. finisher.of \in DOMAIN cap' /\ cap'[finisher.of].at = "stopped"
      BY <1>of, <1>3, <3>1
    <3>. QED BY <1>1, <3>1, <3>2, <3>3 DEF NoFinish
  <2>2. CASE sent' = sent
    <3>1. Spoken' = Spoken
      BY <2>2 DEF Spoken
    <3>2. TurnIsTheOperators'
      BY <1>2, <2>2 DEF Spoken, TurnInv, TurnIsTheOperators
    <3>3. CASE finisher' = finisher
      BY <1>1, <3>1, <3>2, <3>3 DEF TurnInv
    <3>4. CASE finisher' = NoFinish
      BY <1>1, <3>1, <3>2, <3>4 DEF NoFinish
    <3>5. CASE Finish
      <4>1. finisher'.of = current /\ current # 0 /\ cap[current].at = "recording"
        BY <3>5 DEF Finish, Phase
      <4>. QED BY <1>1, <3>1, <3>2, <4>1 DEF TurnInv
    <3>6. CASE finisher.at = "result" /\ finisher' = [finisher EXCEPT !.at = "commit"]
      <4>1. finisher'.of = finisher.of
        BY <3>6 DEF Basic, ComposerTypes, Finisher
      <4>. QED BY <1>1, <3>1, <3>2, <3>6, <4>1 DEF TurnInv
    <3>. QED BY <3>3, <3>4, <3>5, <3>6, FinisherSteps
  <2>. QED BY <2>1, <2>2, SentSteps
<1>5. finisher'.at = "commit" => cap'[finisher'.of].at = "stopped"
  <2>1. CASE finisher' = finisher
    BY <1>3, <2>1
  <2>2. CASE finisher' = NoFinish \/ Finish
    <3>1. finisher'.at # "commit"
      <4>1. CASE finisher' = NoFinish
        BY <4>1 DEF NoFinish
      <4>2. CASE Finish
        <5>1. finisher' = [at |-> "result", of |-> current, voice |-> composer.voice]
          BY <4>2 DEF Finish
        <5>. QED BY <5>1
      <4>. QED BY <2>2, <4>1, <4>2
    <3>. QED BY <3>1
  <2>3. CASE /\ finisher.at = "result" /\ finisher' = [finisher EXCEPT !.at = "commit"]
             /\ cap[finisher.of].at = "stopped"
    <3>1. finisher'.of = finisher.of
      BY <2>3 DEF Basic, ComposerTypes, Finisher
    <3>. QED BY <1>of, <2>3, <3>1 DEF CapturesGoOn, Goes, Settled, Ended
  <2>. QED BY <2>1, <2>2, <2>3, FinisherSteps
<1>6. Phase' \in {"starting", "recording"} /\ composer'.voice => composer'.draft = <<>>
  <2>. SUFFICES ASSUME Phase' \in {"starting", "recording"}, composer'.voice
                PROVE  composer'.draft = <<>>
    OBVIOUS
  <2>1. CASE Start
    BY <2>1 DEF Start, Basic, ComposerTypes, Composer
  <2>2. CASE Retry
    BY <2>2, StartMakesOne, PhaseIs DEF Basic
  <2>3. CASE ~(Start \/ Retry)
    <3>1. current' # 0 /\ cap'[current'].at \in {"asking", "recording"}
      BY PhaseIs DEF Basic
    <3>2. current' = current
      BY <2>3, <3>1, CurrentSteps DEF Discard, Leave
    <3>3. Phase \in {"starting", "recording"}
      BY <3>1, <3>2, PhaseIs DEF Basic, CapturesGoOn, Goes
    <3>. QED BY <2>3, <3>3, DraftSteps DEF TurnInv
  <2>. QED BY <2>1, <2>2, <2>3
<1>7. finisher'.at # "idle" /\ finisher'.voice /\ finisher'.of = current'
        => composer'.draft = <<>>
  <2>. SUFFICES ASSUME finisher'.at # "idle", finisher'.voice, finisher'.of = current'
                PROVE  composer'.draft = <<>>
    OBVIOUS
  <2>1. CASE Finish
    <3>1. /\ finisher' = [at |-> "result", of |-> current, voice |-> composer.voice]
          /\ composer' = composer /\ Phase = "recording"
      BY <2>1 DEF Finish
    <3>. QED BY <3>1 DEF TurnInv
  <2>2. CASE ~Finish
    <3>1. /\ finisher.at # "idle" /\ finisher'.of = finisher.of
          /\ finisher'.voice = finisher.voice
      <4>1. finisher \in Finisher
        BY DEF Basic, ComposerTypes
      <4>2. finisher' = finisher
            \/ (finisher.at = "result" /\ finisher' = [finisher EXCEPT !.at = "commit"])
        BY <2>2, FinisherSteps DEF NoFinish
      <4>3. CASE finisher' = finisher
        BY <4>3
      <4>4. CASE finisher.at = "result" /\ finisher' = [finisher EXCEPT !.at = "commit"]
        BY <4>1, <4>4 DEF Finisher
      <4>. QED BY <4>2, <4>3, <4>4
    <3>2. finisher.of \in 1..Len(cap) /\ Len(cap) \in Nat
      BY <3>1 DEF Basic, CaptureInv, CaptureTypes, ComposerTypes
    <3>3. ~Start /\ ~Retry /\ ~Discard /\ ~Leave
      <4>1. current' # Len(cap) + 1 /\ current' # 0
        BY <3>1, <3>2
      <4>. QED BY <4>1, StartMakesOne DEF Basic, Discard, Leave
    <3>. QED BY <3>1, <3>3, CurrentSteps, DraftSteps DEF TurnInv
  <2>. QED BY <2>1, <2>2
<1>. QED BY <1>4, <1>5, <1>6, <1>7 DEF TurnInv

(* A voice turn is the words of one capture, sent once, of a capture that the  *)
(* operator ended.                                                           *)
THEOREM TurnIsTheOperatorsAlways == Spec => []TurnIsTheOperators
<1>1. Init => Basic /\ TurnInv
  <2>. SUFFICES ASSUME Init PROVE Basic /\ TurnInv
    OBVIOUS
  <2>1. sent = <<>> /\ finisher.at = "idle" /\ Phase = "none"
    BY DEF Init, NoFinish, Phase
  <2>2. Spoken = {} /\ TurnIsTheOperators
    BY <2>1 DEF Spoken, TurnIsTheOperators
  <2>. QED BY <2>1, <2>2, InitHolds DEF Basic, TurnInv
<1>2. Basic /\ TurnInv /\ [Next]_vars => Basic' /\ TurnInv'
  BY BasicInductive, TurnInductive
<1>3. TurnInv => TurnIsTheOperators
  BY DEF TurnInv
<1>. QED BY <1>1, <1>2, <1>3, PTL DEF Spec

-----------------------------------------------------------------------------
(* The reply of a voice turn.                                                *)

(* A commit that sends makes the reading wait for a turn of its own.          *)
Sends ==
  /\ Commit /\ StillMine
  /\ reading' = [reading EXCEPT !.armed = TRUE, !.ran = FALSE]
  /\ turn'.users = 1 /\ spoiled' = FALSE

SameReply == reading'.armed = reading.armed /\ reading'.request = reading.request
             /\ spoiled' = spoiled /\ turn'.users = turn.users

(* A reading waits for what a commit sent, or for what it waited for before.   *)
LEMMA WaitSteps ==
  ASSUME Basic, [Next]_vars, Waits(reading')
  PROVE  \/ Sends
         \/ /\ Waits(reading) /\ current' = current
            /\ SameReply \/ Aside \/ ReaderSees \/ Reads \/ Expire
<1>r. reading \in Reading /\ turn \in Turn
  BY DEF Basic, PageTypes
<1>1. CASE Start \/ Retry
  BY <1>r, <1>1 DEF Start, Retry, Listen, Hushed, Disarmed, Waits, Reading
<1>2. CASE Discard \/ Leave \/ StopTurn \/ Hide \/ Speak
  BY <1>r, <1>2 DEF Discard, Leave, StopTurn, Hide, Speak, Hushed, Disarmed, Waits, Reading
<1>3. CASE Commit
  <2>1. CASE UNCHANGED <<reading, turn, spoiled>>
    BY <1>3, <2>1 DEF SameReply, Commit
  <2>2. CASE ~UNCHANGED <<reading, turn, spoiled>>
    <3>1. /\ StillMine /\ reading' = [reading EXCEPT !.armed = TRUE, !.ran = FALSE]
          /\ turn' = [NoTurn EXCEPT !.users = 1] /\ spoiled' = FALSE
      BY <1>3, <2>2 DEF Commit
    <3>. QED BY <1>3, <3>1 DEF Sends, NoTurn
  <2>. QED BY <2>1, <2>2
<1>4. CASE Aside \/ ReaderSees \/ Reads \/ Expire
  <2>1. Waits(reading)
    BY <1>4 DEF Aside, Thread, ReaderSees, Reads, Expire, Waits
  <2>2. current' = current
    BY <1>4 DEF Aside, Thread, ReaderSees, Reads, Expire
  <2>. QED BY <1>4, <2>1, <2>2
<1>5. CASE Runs \/ Replies
  <2>1. turn'.users = turn.users /\ UNCHANGED <<reading, spoiled, current>>
    BY <1>r, <1>5 DEF Runs, Replies, Thread, Turn
  <2>. QED BY <2>1 DEF SameReply
<1>6. CASE Plays
  <2>1. PICK play : reading' = [reading EXCEPT !.play = play]
    BY <1>6 DEF Plays
  <2>2. reading'.armed = reading.armed /\ reading'.request = reading.request
    BY <1>r, <2>1 DEF Reading
  <2>. QED BY <1>6, <2>2 DEF Plays, SameReply, Waits
<1>7. CASE UNCHANGED <<reading, turn, spoiled, current>>
  BY <1>7 DEF SameReply
<1>. QED
  BY <1>1, <1>2, <1>3, <1>4, <1>5, <1>6, <1>7
  DEF Next, vars, Untouched, Grant, Deny, Data, Limit, Ends, Errs, Stopped, StopsItself,
      Tick, Transcribed, NotTranscribed, RuntimeStops, Finish, HasResult, Show, Type,
      Return, Settle, LockGranted, LockRefused, ScreenOnly

(* A capture at hand that is at work or being finished was so before.          *)
LEMMA FinishedAtHand ==
  ASSUME Basic, Basic', CapturesGoOn, [Next]_vars, current' = current,
         CaptureActive' \/ (finisher'.at # "idle" /\ finisher'.of = current')
  PROVE  CaptureActive \/ (finisher.at # "idle" /\ finisher.of = current)
<1>1. ~Start /\ ~Retry
  BY StartMakesOne DEF Basic, CaptureInv, CaptureTypes
<1>2. CASE CaptureActive'
  BY <1>1, <1>2, ActiveSteps DEF Basic
<1>3. CASE finisher'.at # "idle" /\ finisher'.of = current'
  <2>1. CASE Finish
    BY <2>1 DEF Finish, CaptureActive
  <2>2. CASE finisher' = NoFinish \/ finisher' = finisher
    BY <1>3, <2>2 DEF NoFinish
  <2>3. CASE finisher.at = "result" /\ finisher' = [finisher EXCEPT !.at = "commit"]
    <3>1. finisher'.of = finisher.of
      BY <2>3 DEF Basic, ComposerTypes, Finisher
    <3>. QED BY <1>3, <2>3, <3>1
  <2>. QED BY <2>1, <2>2, <2>3, FinisherSteps
<1>. QED BY <1>2, <1>3

(* Every step keeps what is said of the reply that is waited for.             *)
LEMMA ReplyInductive ==
  ASSUME Basic, Basic', CapturesGoOn, TurnInv, ReplyInv, [Next]_vars
  PROVE  ReplyInv'
<1>r. reading \in Reading /\ turn \in Turn /\ spoiled \in BOOLEAN
  BY DEF Basic, PageTypes
<1>1. CASE ~Waits(reading')
  BY <1>1 DEF ReplyInv, OnlyItsReplyIsRead, Waits
<1>2. CASE Sends
  <2>1. /\ finisher.at = "commit" /\ finisher.of = current /\ finisher' = NoFinish
        /\ cap' = cap /\ current' = current
    BY <1>2 DEF Sends, Commit, StillMine
  <2>2. cap'[current'].at = "stopped" /\ ~Waits(reading)
    BY <2>1 DEF TurnInv, ReplyInv
  <2>3. ~CaptureActive'
    BY <2>2, PhaseIs DEF Basic, Settled, Ended
  <2>4. reading'.armed = TRUE /\ reading'.request = reading.request
    BY <1>r, <1>2 DEF Sends, Reading
  <2>. QED BY <1>2, <2>1, <2>2, <2>3, <2>4
           DEF Sends, ReplyInv, OnlyItsReplyIsRead, Waits, NoFinish
<1>3. ASSUME Waits(reading), current' = current
      PROVE  CaptureActive' \/ (finisher'.at # "idle" /\ finisher'.of = current')
               => ~Waits(reading')
  BY <1>3, FinishedAtHand DEF ReplyInv
<1>4. CASE Waits(reading) /\ current' = current /\ SameReply
  BY <1>3, <1>4 DEF SameReply, ReplyInv, OnlyItsReplyIsRead
<1>5. CASE Waits(reading) /\ current' = current /\ Aside
  <2>1. /\ reading' = reading /\ spoiled' = (spoiled \/ reading.armed)
        /\ turn' = [turn EXCEPT !.users = IF @ < 2 THEN @ + 1 ELSE @]
    BY <1>5 DEF Aside, Thread
  <2>2. /\ turn.users \in 0..2 /\ turn'.users = IF turn.users < 2 THEN turn.users + 1 ELSE 2
    BY <1>r, <2>1 DEF Turn
  <2>3. CASE reading.armed
    <3>1. turn'.users > 1 /\ turn'.users > 0 /\ ~reading.request
      BY <2>2, <2>3 DEF ReplyInv
    <3>2. ~(reading'.armed /\ reading'.request) /\ ~reading'.request
      BY <2>1, <3>1
    <3>3. OnlyItsReplyIsRead'
      BY <3>2 DEF OnlyItsReplyIsRead
    <3>. QED BY <1>3, <1>5, <3>1, <3>2, <3>3 DEF ReplyInv
  <2>4. CASE ~reading.armed
    BY <1>r, <1>3, <1>5, <2>1, <2>4 DEF ReplyInv, OnlyItsReplyIsRead
  <2>. QED BY <2>3, <2>4
<1>6. CASE Waits(reading) /\ current' = current /\ ReaderSees
  <2>1. reading.armed /\ ~reading.request /\ UNCHANGED <<turn, spoiled>>
    BY <1>6 DEF ReaderSees, ReplyInv
  <2>2. CASE reading' = [reading EXCEPT !.armed = FALSE]
    BY <1>r, <1>1, <2>1, <2>2 DEF Waits, Reading
  <2>3. CASE reading' = [reading EXCEPT !.ran = TRUE]
    <3>1. reading'.armed = reading.armed /\ reading'.request = reading.request
      BY <1>r, <2>3 DEF Reading
    <3>. QED BY <1>3, <1>6, <2>1, <3>1 DEF ReplyInv, OnlyItsReplyIsRead
  <2>4. CASE /\ ~SecondAsk
             /\ reading' = [reading EXCEPT !.armed = FALSE,
                                           !.request = visible /\ ~CaptureActive]
    <3>1. ~spoiled
      BY <2>1, <2>4 DEF ReplyInv, SecondAsk
    <3>2. reading'.armed = FALSE
      BY <1>r, <2>4 DEF Reading
    <3>. QED BY <1>3, <1>6, <2>1, <3>1, <3>2 DEF ReplyInv, OnlyItsReplyIsRead
  <2>. QED BY <1>6, <2>2, <2>3, <2>4 DEF ReaderSees
<1>7. CASE Waits(reading) /\ current' = current /\ (Reads \/ Expire)
  <2>1. /\ reading'.armed = reading.armed /\ reading'.request = FALSE
        /\ UNCHANGED <<turn, spoiled>>
    BY <1>r, <1>7 DEF Reads, Expire, Reading
  <2>. QED BY <1>3, <1>7, <2>1 DEF ReplyInv, OnlyItsReplyIsRead
<1>. QED BY <1>1, <1>2, <1>4, <1>5, <1>6, <1>7, WaitSteps

(* A reply is read of itself only when nothing came between the voice turn     *)
(* and the reading of it.                                                     *)
THEOREM OnlyItsReplyIsReadAlways == Spec => []OnlyItsReplyIsRead
<1>1. Init => Basic /\ TurnInv /\ ReplyInv
  <2>. SUFFICES ASSUME Init PROVE TurnInv /\ ReplyInv
    BY InitHolds DEF Basic
  <2>1. sent = <<>> /\ finisher.at = "idle" /\ Phase = "none" /\ reading = Quiet
    BY DEF Init, NoFinish, Phase
  <2>2. Spoken = {} /\ TurnIsTheOperators
    BY <2>1 DEF Spoken, TurnIsTheOperators
  <2>3. TurnInv
    BY <2>1, <2>2 DEF TurnInv
  <2>. QED BY <2>1, <2>3 DEF ReplyInv, OnlyItsReplyIsRead, Quiet, Waits
<1>2. Basic /\ TurnInv /\ ReplyInv /\ [Next]_vars => Basic' /\ TurnInv' /\ ReplyInv'
  BY BasicInductive, TurnInductive, ReplyInductive
<1>3. ReplyInv => OnlyItsReplyIsRead
  BY DEF ReplyInv
<1>. QED BY <1>1, <1>2, <1>3, PTL DEF Spec

-----------------------------------------------------------------------------
(* The screen.                                                               *)

(* What needs the screen changes only with the lock to be settled.             *)
LEMMA NeedSteps ==
  ASSUME Basic, Basic', CapturesGoOn, [Next]_vars, ~lock'.due
  PROVE  NeedsScreen' = NeedsScreen
<1>l. lock \in Lock /\ reading \in Reading
  BY DEF Basic, PageTypes
<1>h. ~Hold
  BY <1>l DEF Hold, Lock
<1>1. CASE UNCHANGED <<cap, current, reading>>
  BY <1>1 DEF NeedsScreen, CaptureActive, Phase
<1>2. ASSUME NEW c \in DOMAIN cap, Grant(c) \/ Deny(c)
      PROVE  NeedsScreen' = NeedsScreen
  <2>1. Settled(cap[c]) /\ current' = current /\ reading' = reading
    BY <1>h, <1>2 DEF Grant, Deny, Tell, Untouched
  <2>2. /\ DOMAIN cap' = DOMAIN cap /\ Goes(cap[c], cap'[c])
        /\ \A d \in DOMAIN cap \ {c} : cap'[d] = cap[d]
    BY <1>2, CaptureSteps DEF Basic, CaptureInv, CaptureTypes, OneGoesOn, Set
  <2>3. CaptureActive' <=> CaptureActive
    BY <2>1, <2>2, PhaseIs DEF Basic, Goes, Settled
  <2>. QED BY <2>1, <2>3 DEF NeedsScreen
<1>3. ASSUME NEW c \in DOMAIN cap, Data(c)
      PROVE  NeedsScreen' = NeedsScreen
  <2>1. cap[c] \in CaptureRecord /\ cap' = [cap EXCEPT ![c] = [cap[c] EXCEPT !.data = TRUE]]
    BY <1>3 DEF Data, Set, Basic, CaptureInv, CaptureTypes
  <2>2. \A d \in DOMAIN cap : cap'[d].at = cap[d].at
    BY <2>1 DEF CaptureRecord
  <2>3. CaptureActive' <=> CaptureActive
    BY <1>3, <2>2, PhaseIs DEF Basic, Data, Untouched, Settled
  <2>. QED BY <1>3, <2>3 DEF NeedsScreen, Data, Untouched
<1>4. CASE StopTurn \/ Hide
  <2>1. ~Waits(reading) /\ reading' = Disarmed(reading) /\ UNCHANGED <<cap, current>>
    BY <1>l, <1>4 DEF StopTurn, Hide, Lock
  <2>2. ~Waits(reading') /\ reading'.play = reading.play
    BY <1>l, <2>1 DEF Disarmed, Waits, Reading
  <2>3. CaptureActive' = CaptureActive
    BY <2>1 DEF CaptureActive, Phase
  <2>. QED BY <2>1, <2>2, <2>3 DEF NeedsScreen
<1>5. CASE reading' = [reading EXCEPT !.ran = TRUE] /\ UNCHANGED <<cap, current>>
  <2>1. CaptureActive' = CaptureActive
    BY <1>5 DEF CaptureActive, Phase
  <2>2. Waits(reading') = Waits(reading) /\ reading'.play = reading.play
    BY <1>l, <1>5 DEF Waits, Reading
  <2>. QED BY <2>1, <2>2 DEF NeedsScreen
<1>6. ReaderSees => reading' = [reading EXCEPT !.ran = TRUE] /\ UNCHANGED <<cap, current>>
  BY <1>h DEF ReaderSees
<1>. QED
  BY <1>h, <1>1, <1>2, <1>3, <1>4, <1>5, <1>6
  DEF Next, vars, Untouched, Limit, Ends, Errs, Stopped, StopsItself, Tick, Transcribed,
      NotTranscribed, Start, Retry, Listen, Discard, Leave, RuntimeStops, Finish, HasResult,
      Commit, Show, Type, Aside, Runs, Replies, Thread, Reads, Expire, Speak, Plays, Return,
      Settle, LockGranted, LockRefused, ScreenOnly

(* Apart from the page's and the lock's own steps, the lock's state and the    *)
(* page stay as they are until the next settlement.                           *)
LEMMA LockSteps ==
  ASSUME Basic, [Next]_vars, ~lock'.due
  PROVE  \/ /\ ~lock.due /\ visible' = visible
            /\ lock'.asking = lock.asking /\ lock'.held = lock.held
            /\ lock'.refused = lock.refused
         \/ Settle \/ LockGranted \/ LockRefused \/ Hide
<1>l. lock \in Lock
  BY DEF Basic, PageTypes
<1>h. ~Hold
  BY <1>l DEF Hold, Lock
<1>1. CASE UNCHANGED <<lock, visible>>
  BY <1>1
<1>2. CASE StopTurn
  BY <1>l, <1>2 DEF StopTurn, Lock
<1>3. ASSUME NEW c \in DOMAIN cap, Grant(c) \/ Deny(c)
      PROVE  UNCHANGED <<lock, visible>>
  BY <1>h, <1>3 DEF Grant, Deny, Tell, Untouched
<1>. QED
  BY <1>h, <1>1, <1>2, <1>3
  DEF Next, vars, Untouched, Data, Limit, Ends, Errs, Stopped, StopsItself, Tick,
      Transcribed, NotTranscribed, Start, Retry, Listen, Discard, Leave, RuntimeStops,
      Finish, HasResult, Commit, Show, Type, Aside, Runs, Replies, Thread, ReaderSees, Reads,
      Expire, Speak, Plays, Return

(* Every step keeps what is said of the lock between two settlements.         *)
LEMMA ScreenInductive ==
  ASSUME Basic, Basic', CapturesGoOn, ScreenInv, [Next]_vars
  PROVE  ScreenInv'
<1>. SUFFICES ASSUME ~lock'.due
              PROVE  IF NeedsScreen' THEN lock'.asking \/ lock'.held \/ ~visible' \/ lock'.refused
                     ELSE ~lock'.held
  BY DEF ScreenInv
<1>l. lock \in Lock
  BY DEF Basic, PageTypes
<1>n. NeedsScreen' = NeedsScreen
  BY NeedSteps
<1>1. CASE /\ ~lock.due /\ visible' = visible
           /\ lock'.asking = lock.asking /\ lock'.held = lock.held
           /\ lock'.refused = lock.refused
  BY <1>1, <1>n DEF ScreenInv
<1>2. CASE Settle
  <2>1. CASE ~NeedsScreen
    BY <1>l, <1>n, <1>2, <2>1 DEF Settle, Lock
  <2>2. CASE NeedsScreen
    BY <1>l, <1>n, <1>2, <2>2 DEF Settle, Lock
  <2>. QED BY <2>1, <2>2
<1>3. CASE LockGranted
  BY <1>l, <1>n, <1>3 DEF LockGranted, Keeps, Lock
<1>4. CASE LockRefused
  BY <1>l, <1>n, <1>4 DEF LockRefused, ScreenOnly, ScreenInv, Lock
<1>5. CASE Hide
  BY <1>l, <1>n, <1>5 DEF Hide, ScreenInv, Lock
<1>. QED BY <1>1, <1>2, <1>3, <1>4, <1>5, LockSteps

(* Once the lock is settled it is held when the voice work needs it, on a      *)
(* visible page and unless the browser refused it, and let go otherwise.       *)
THEOREM ScreenIsHeldAlways == Spec => []ScreenIsHeld
<1>1. Init => Basic /\ ScreenInv
  <2>. SUFFICES ASSUME Init PROVE ScreenInv
    BY InitHolds DEF Basic
  <2>1. ~NeedsScreen /\ lock.held = FALSE
    BY DEF Init, NeedsScreen, CaptureActive, Phase, Waits, Quiet
  <2>. QED BY <2>1 DEF ScreenInv
<1>2. Basic /\ ScreenInv /\ [Next]_vars => Basic' /\ ScreenInv'
  BY BasicInductive, ScreenInductive
<1>3. ScreenInv => ScreenIsHeld
  BY DEF ScreenInv, ScreenIsHeld
<1>. QED BY <1>1, <1>2, <1>3, PTL DEF Spec
=============================================================================
