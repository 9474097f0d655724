---------------------------- MODULE SideQuestion ----------------------------
(* One side question: a fork of a Session, archived, prompted, and in the end *)
(* dismissed (deleted) or kept. `side-question.ts` is the handle,             *)
(* `side-question-store.ts` the row over it. Every await of the handle ends a *)
(* step; a request is performed by the gateway and answered in two more, and  *)
(* either may fail.                                                           *)
EXTENDS Naturals, Sequences

CONSTANTS MaxFaults,    \* requests refused, answers lost and links dropped
          MaxTurnSteps  \* what the fork's turn reports besides its end

ASSUME SideAssumption == MaxFaults \in Nat /\ MaxTurnSteps \in Nat

VARIABLES
  ask,        \* how far #ask is: the request it awaits, or "done"
  dismissal,  \* how far dismiss() is
  keeper,     \* how far keep() is
  handle,     \* the handle's flags
  seen,       \* its projection: the execution's status, and whether text came
  row,        \* the store lists the question
  quiet,      \* the store's quietSessionIds holds the fork
  req,        \* the one request out, and whether the gateway performed it
  fork,       \* external: the fork at the gateway
  forkTurn,   \* external: its turn
  link,       \* the connection stands
  wire,       \* updates on their way
  faults, said \* bounded by MaxFaults and MaxTurnSteps

sideVars == <<ask, dismissal, keeper, handle, seen, row, quiet, req, fork,
              forkTurn, link, wire, faults, said>>
gateway == <<fork, forkTurn, faults, said>>

Statuses == {"idle", "running", "waiting", "failed"}
Flag == {"knows", "watching", "prompted", "ran", "settled", "failure", "retired",
         "keeping", "marked"}
Request == [kind : {"none", "fork", "archive", "prompt", "unarchive", "delete"},
            done : BOOLEAN, lost : BOOLEAN]
NoRequest == [kind |-> "none", done |-> FALSE, lost |-> FALSE]
Fork == [at : {"none", "live", "deleted"}, archived : {"never", "yes", "undone"},
         cancelled : BOOLEAN, timedOut : BOOLEAN, rejoined : BOOLEAN]

Word == Statuses \cup {"text"}

CallTypes ==
  /\ ask \in {"fork", "archive", "prompt", "done"}
  /\ dismissal \in {"no", "asked", "ending", "deleting", "done", "failed"}
  /\ keeper \in {"no", "asked", "unarchiving", "done", "failed"}
  /\ handle \in [Flag -> BOOLEAN]
  /\ row \in BOOLEAN /\ quiet \in BOOLEAN /\ link \in BOOLEAN
  /\ (req.kind \in {"fork", "archive", "prompt"}) <=> (ask # "done")
  /\ (req.kind = "delete") <=> (dismissal = "deleting")
  /\ (req.kind = "unarchive") <=> (keeper = "unarchiving")

GatewayTypes ==
  /\ req \in Request /\ fork \in Fork
  /\ forkTurn \in {"none", "accepted", "running", "waiting", "ended", "failed"}

ViewTypes ==
  /\ seen \in [status : Statuses, text : BOOLEAN] /\ wire \in Seq(Word)
  /\ faults \in 0..MaxFaults /\ said \in 0..MaxTurnSteps

SideTypeOK == CallTypes /\ GatewayTypes /\ ViewTypes

SideInit ==
  /\ ask = "fork" /\ dismissal = "no" /\ keeper = "no"
  /\ handle = [f \in Flag |-> FALSE]
  /\ seen = [status |-> "idle", text |-> FALSE]
  /\ row = TRUE /\ quiet = FALSE /\ link = TRUE /\ wire = <<>>
  /\ req = [NoRequest EXCEPT !.kind = "fork"]
  /\ fork = [at |-> "none", archived |-> "never", cancelled |-> FALSE,
             timedOut |-> FALSE, rejoined |-> FALSE]
  /\ forkTurn = "none" /\ faults = 0 /\ said = 0

Send(kind) == req' = [NoRequest EXCEPT !.kind = kind]

(* #publish tells the store, whose #follow learns the fork's id, as long as  *)
(* the store still follows the row.                                          *)
Publish(knows) == quiet' = (quiet \/ (row /\ knows))

-----------------------------------------------------------------------------
(* The gateway, external.                                                    *)

Perform ==
  /\ link /\ req.kind # "none" /\ ~req.done /\ ~req.lost
  /\ req' = [req EXCEPT !.done = TRUE]
  /\ fork' = CASE req.kind = "fork" -> [fork EXCEPT !.at = "live"]
               [] req.kind = "archive" -> [fork EXCEPT !.archived = "yes"]
               [] req.kind = "unarchive" -> [fork EXCEPT !.archived = "undone"]
               [] req.kind = "delete" -> [fork EXCEPT !.at = "deleted"]
               [] OTHER -> fork
  /\ forkTurn' = IF req.kind = "prompt" THEN "accepted" ELSE forkTurn
  /\ UNCHANGED <<ask, dismissal, keeper, handle, seen, row, quiet, link, wire,
                 faults, said>>

Report(u) == wire' = IF link /\ handle.watching THEN Append(wire, u) ELSE wire

(* The turn starts, writes, waits and is answered (by another view), or ends; *)
(* it may fail before it ever starts.                                        *)
TurnTo(next, u) ==
  /\ fork.at = "live" /\ forkTurn' = next /\ Report(u)
  /\ UNCHANGED <<ask, dismissal, keeper, handle, seen, row, quiet, req, fork,
                 link, faults>>
TurnStarts == forkTurn = "accepted" /\ TurnTo("running", "running") /\ UNCHANGED said
TurnGoesOn ==
  /\ said < MaxTurnSteps /\ said' = said + 1
  /\ \/ forkTurn = "running" /\ TurnTo("running", "text")
     \/ forkTurn = "running" /\ TurnTo("waiting", "waiting")
     \/ forkTurn = "waiting" /\ TurnTo("running", "running")
TurnEnds ==
  /\ forkTurn \in {"accepted", "running", "waiting"} /\ UNCHANGED said
  /\ \/ TurnTo("failed", "failed")
     \/ forkTurn # "accepted" /\ TurnTo("ended", "idle")

Drop ==
  /\ link /\ faults < MaxFaults /\ faults' = faults + 1
  /\ link' = FALSE /\ wire' = <<>>
  /\ req' = [req EXCEPT !.lost = req.kind # "none"]
  /\ UNCHANGED <<ask, dismissal, keeper, handle, seen, row, quiet, fork, forkTurn, said>>

Now == IF forkTurn \in {"running", "waiting", "failed"} THEN forkTurn ELSE "idle"

(* The connection rejoins what is watched. The gateway restates the Session,  *)
(* and may first replay the stored part of its turn, closed like any other    *)
(* (as `resumed` of session-projector.ts expects of it).                     *)
Rejoin ==
  /\ ~link /\ link' = TRUE
  /\ \E replay \in {<<>>} \cup (IF forkTurn \in {"running", "waiting", "ended", "failed"}
                                THEN {<<"running", "idle">>} ELSE {}) :
       wire' = IF handle.watching THEN Append(replay, Now) ELSE <<>>
  /\ fork' = [fork EXCEPT !.rejoined = TRUE]
  /\ UNCHANGED <<ask, dismissal, keeper, handle, seen, row, quiet, req, forkTurn,
                 faults, said>>

-----------------------------------------------------------------------------
(* #ask, one action per await.                                               *)

Answered(kind) == req.kind = kind /\ req.done /\ ~req.lost /\ link

AskHidden == "archive"
StillWanted == ~handle.retired

AskStep ==
  /\ Answered(ask)
  /\ \/ /\ ask = "fork" /\ ask' = AskHidden /\ Send(AskHidden)
        /\ handle' = [handle EXCEPT !.knows = TRUE, !.watching = TRUE]
        /\ Publish(TRUE)
     \/ /\ ask = "archive" /\ ~StillWanted
        /\ ask' = "done" /\ req' = NoRequest /\ UNCHANGED <<handle, quiet>>
     \/ /\ ask = "archive" /\ StillWanted
        /\ ask' = "prompt" /\ Send("prompt") /\ UNCHANGED <<handle, quiet>>
     \/ /\ ask = "prompt" /\ ask' = "done" /\ req' = NoRequest
        /\ handle' = [handle EXCEPT !.prompted = TRUE] /\ UNCHANGED quiet
  /\ UNCHANGED <<dismissal, keeper, seen, row, link, wire, gateway>>

(* A request is refused, or performed and its answer lost; one that was out   *)
(* when the link dropped certainly fails.                                    *)
Fails ==
  /\ req.kind # "none" /\ req' = NoRequest
  /\ \/ req.lost /\ UNCHANGED faults
     \/ ~req.lost /\ faults < MaxFaults /\ faults' = faults + 1
  /\ UNCHANGED <<seen, row, link, wire, fork, forkTurn, said>>

AskFails ==
  /\ req.kind = ask /\ Fails
  /\ ask' = "done" /\ handle' = [handle EXCEPT !.failure = TRUE]
  /\ Publish(handle.knows) /\ UNCHANGED <<dismissal, keeper>>

(* #fold and #settle.                                                        *)
Live(status) == status \in {"running", "waiting"}
SettlesWithText(status) == ~Live(status) /\ handle.ran /\ ~handle.settled /\ seen.text
Settles(status) == ~Live(status) /\ handle.ran /\ ~handle.settled

Update ==
  /\ wire # <<>> /\ wire' = Tail(wire)
  /\ LET u == Head(wire)
         status == IF u = "text" THEN seen.status ELSE u
         live == Live(status)
         settles == Settles(status) IN
     /\ seen' = [status |-> status, text |-> seen.text \/ u = "text"]
     /\ handle' = [handle EXCEPT !.ran = @ \/ live, !.settled = @ \/ settles,
                                 !.marked = @ \/ (settles /\ ~handle.retired)]
  /\ Publish(handle.knows)
  /\ UNCHANGED <<ask, dismissal, keeper, row, req, link, gateway>>

-----------------------------------------------------------------------------
(* dismiss.                                                                  *)

(* The store drops the row and no longer follows the handle, whatever the     *)
(* handle makes of the call.                                                 *)
DismissAnyway == TRUE
MayDismiss == ~handle.retired /\ ~handle.keeping
Dismiss ==
  /\ row /\ row' = FALSE
  /\ IF ~MayDismiss THEN UNCHANGED <<handle, dismissal>>
     ELSE handle' = [handle EXCEPT !.retired = TRUE] /\ dismissal' = "asked"
  /\ UNCHANGED <<ask, keeper, seen, quiet, req, link, wire, gateway>>

Delete ==
  /\ handle' = [handle EXCEPT !.watching = FALSE] /\ wire' = <<>>
  /\ Send("delete") /\ dismissal' = "deleting"

(* The turn that still runs is stopped first, and its end awaited.           *)
StopNothing == FALSE
MustStop == handle.prompted /\ ~handle.settled
ForkOncePrompted == handle.prompted
ForkToDelete == handle.knows

DismissGoesOn ==
  /\ dismissal = "asked" /\ ask = "done"
  /\ \/ /\ ~ForkToDelete /\ dismissal' = "done"
        /\ UNCHANGED <<handle, wire, req, fork>>
     \/ /\ ForkToDelete /\ MustStop
        /\ dismissal' = "ending"
        /\ fork' = [fork EXCEPT !.cancelled = link] /\ UNCHANGED <<handle, wire, req>>
     \/ /\ ForkToDelete /\ ~MustStop
        /\ Delete /\ UNCHANGED fork
  /\ UNCHANGED <<ask, keeper, seen, row, quiet, forkTurn, link, faults, said>>

(* #turnEnded: the settled turn, or the timer, whichever is first.           *)
EndedForSure == handle.settled
EndedOrTimedOut == TRUE
TurnEnded ==
  /\ dismissal = "ending" /\ EndedOrTimedOut /\ Delete
  /\ fork' = [fork EXCEPT !.timedOut = ~handle.settled]
  /\ UNCHANGED <<ask, keeper, seen, row, quiet, forkTurn, link, faults, said>>

Deleted ==
  /\ Answered("delete")
  /\ dismissal' = "done" /\ req' = NoRequest
  /\ UNCHANGED <<ask, keeper, handle, seen, row, quiet, link, wire, gateway>>
DeleteFails ==
  /\ req.kind = "delete" /\ Fails
  /\ dismissal' = "failed" /\ UNCHANGED <<ask, keeper, handle, quiet>>

-----------------------------------------------------------------------------
(* keep. While it runs the row's own buttons are disabled; the header's       *)
(* Dismiss is not.                                                           *)

Keep ==
  /\ row /\ ~handle.keeping /\ ~handle.retired
  /\ handle' = [handle EXCEPT !.keeping = TRUE] /\ keeper' = "asked"
  /\ UNCHANGED <<ask, dismissal, seen, row, quiet, req, link, wire, gateway>>

KeepGoesOn ==
  /\ keeper = "asked" /\ ask = "done"
  /\ \/ /\ ~handle.knows /\ keeper' = "failed"
        /\ handle' = [handle EXCEPT !.keeping = FALSE] /\ UNCHANGED req
     \/ /\ handle.knows /\ keeper' = "unarchiving"
        /\ Send("unarchive") /\ UNCHANGED handle
  /\ UNCHANGED <<ask, dismissal, seen, row, quiet, link, wire, gateway>>

Kept ==
  /\ Answered("unarchive") /\ req' = NoRequest
  /\ keeper' = "done" /\ row' = FALSE /\ quiet' = FALSE /\ wire' = <<>>
  /\ handle' = [handle EXCEPT !.keeping = FALSE, !.retired = TRUE, !.watching = FALSE]
  /\ UNCHANGED <<ask, dismissal, seen, link, gateway>>
KeepFails ==
  /\ req.kind = "unarchive" /\ Fails
  /\ keeper' = "failed" /\ handle' = [handle EXCEPT !.keeping = FALSE]
  /\ UNCHANGED <<ask, dismissal, quiet>>

-----------------------------------------------------------------------------
Reply == AskStep \/ Deleted \/ Kept
LosesReply == req.lost /\ (AskFails \/ DeleteFails \/ KeepFails)
SideNext ==
  \/ Perform \/ TurnStarts \/ TurnGoesOn \/ TurnEnds \/ Drop \/ Rejoin
  \/ AskStep \/ AskFails \/ Update
  \/ Dismiss \/ DismissGoesOn \/ TurnEnded \/ Deleted \/ DeleteFails
  \/ Keep \/ KeepGoesOn \/ Kept \/ KeepFails

SideSpec == SideInit /\ [][SideNext]_sideVars
FairSpec ==
  /\ SideSpec
  /\ WF_sideVars(Perform) /\ WF_sideVars(LosesReply) /\ WF_sideVars(Rejoin)
  /\ WF_sideVars(Reply) /\ WF_sideVars(Update) /\ WF_sideVars(DismissGoesOn)
  /\ WF_sideVars(TurnEnded) /\ WF_sideVars(KeepGoesOn)
  /\ WF_sideVars(TurnStarts) /\ WF_sideVars(TurnEnds)
-----------------------------------------------------------------------------
(* A kept fork is an ordinary Session: there, listed, alerted for, and no     *)
(* dismissal, whenever it was asked for, stops or deletes it.                *)
KeptStaysKept ==
  keeper = "done" =>
    fork.at = "live" /\ fork.archived # "yes" /\ ~fork.cancelled /\ ~quiet
      /\ dismissal = "no"

(* Once the row is gone and every call has ended, the fork is gone too, or    *)
(* kept, or nobody could do better: it was never learned of, its delete       *)
(* failed, or the row was dismissed during a keep that failed.               *)
AtRest ==
  /\ ~row /\ req.kind = "none" /\ ask = "done"
  /\ dismissal \in {"no", "done", "failed"} /\ keeper \in {"no", "done", "failed"}
NothingLeftBehind ==
  AtRest /\ fork.at = "live" =>
    \/ keeper = "done" \/ dismissal = "failed" \/ ~handle.knows
    \/ keeper = "failed" /\ dismissal = "no"

(* A fork is not deleted under a running turn unless that turn was stopped    *)
(* and outlasted the wait, or the prompt's answer was lost, or a replay after *)
(* a reconnect had closed it.                                                *)
RunningForkIsStopped ==
  req.kind = "delete" /\ forkTurn \in {"accepted", "running", "waiting"} =>
    fork.timedOut \/ handle.failure \/ (handle.settled /\ fork.rejoined)

(* A turn that was seen to run settles the question once it ends, through     *)
(* any reconnect, as long as the fork is watched.                            *)
EndIsSeen ==
  handle.ran /\ forkTurn \in {"ended", "failed"} ~> handle.settled \/ ~handle.watching

(* What the operator asks for comes to an end: a dismissal even of a turn     *)
(* that never reports its end, a keep even of a fork that was never made.    *)
CallsEnd ==
  /\ dismissal = "asked" ~> dismissal \in {"done", "failed"}
  /\ keeper = "asked" ~> keeper \in {"done", "failed"}
=============================================================================
