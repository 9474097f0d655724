------------------------------- MODULE Voice -------------------------------
(* The voice of one page: the media controller (voice-media.ts) with the      *)
(* captures it makes (voice-capture.ts), the composer's controls that finish, *)
(* send, retry and discard them (voice-composer.tsx), the reader of a voice   *)
(* turn's reply (voice-read-aloud.tsx) and the screen's wake lock.            *)
(* A text is a sequence of what was typed and of the captures transcribed.    *)
EXTENDS Naturals, Sequences

CONSTANTS
  MaxCaptures,  \* captures made
  MaxExtras     \* faults, limits, typed texts, asides and departures, in all

ASSUME VoiceAssumption == MaxCaptures \in Nat \ {0} /\ MaxExtras \in Nat

Capture == 1..MaxCaptures

VARIABLES
  cap,      \* the captures made so far
  current,  \* #capture of the controller, 0 for none
  composer, \* [text, dictation, said, draft, voice], the runtime's composer,
            \* the draft and the mode a capture was started with
  finisher, \* the finish() that is out: [at, of, voice]
  reading,  \* [armed, ran, request, play], the controller's reading state
  turn,     \* external: [users, running, reply] since a voice turn's baseline
  visible,  \* whether the page is
  lock,     \* [due, asking, held, refused] of the wake lock
  extras,   \* how many of the bounded things have happened
  sent,     \* history: the captures sent as a voice turn, with their text
  cut,      \* history: captures a limit, the browser or a retry ended
  spoiled   \* history: something came between the voice turn and its reading

vars == <<cap, current, composer, finisher, reading, turn, visible, lock, extras,
          sent, cut, spoiled>>

Fresh == [at |-> "asking", asked |-> TRUE, stream |-> FALSE, finishing |-> FALSE,
          review |-> FALSE, blob |-> "none", data |-> FALSE, over |-> FALSE]
Quiet == [armed |-> FALSE, ran |-> FALSE, request |-> FALSE, play |-> "none"]
NoFinish == [at |-> "idle", of |-> 0, voice |-> FALSE]
NoTurn == [users |-> 0, running |-> FALSE, reply |-> "none"]

CaptureRecord ==
  [at : {"asking", "recording", "stopping", "transcribing", "stopped", "cancelled", "error"},
   asked : BOOLEAN, stream : BOOLEAN, finishing : BOOLEAN, review : BOOLEAN,
   blob : {"none", "audio", "silence"}, data : BOOLEAN, over : BOOLEAN]
Text == Seq(Capture \cup {0})
Composer == [text : Text, dictation : Capture \cup {0}, said : Capture \cup {0},
             draft : Text, voice : BOOLEAN]
Finisher == [at : {"idle", "result", "commit"}, of : Capture \cup {0}, voice : BOOLEAN]
Reading == [armed : BOOLEAN, ran : BOOLEAN, request : BOOLEAN, play : {"none", "loading", "ready"}]
Turn == [users : 0..2, running : BOOLEAN, reply : {"none", "bare", "prose"}]
Lock == [due : BOOLEAN, asking : BOOLEAN, held : BOOLEAN, refused : BOOLEAN]

CaptureTypes ==
  /\ cap \in Seq(CaptureRecord) /\ Len(cap) <= MaxCaptures
  /\ current \in 0..Len(cap) /\ cut \subseteq 1..Len(cap)
ComposerTypes ==
  /\ composer \in Composer /\ composer.dictation \in 0..Len(cap) /\ composer.said \in 0..Len(cap)
  /\ finisher \in Finisher /\ finisher.of \in (IF finisher.at = "idle" THEN {0} ELSE 1..Len(cap))
  /\ sent \in Seq([of : Capture, text : Text])
PageTypes ==
  /\ reading \in Reading /\ turn \in Turn /\ lock \in Lock
  /\ visible \in BOOLEAN /\ spoiled \in BOOLEAN /\ extras \in 0..MaxExtras

(* The types of the variables.  Texts grow with what is typed and said.       *)
TypeOK == CaptureTypes /\ ComposerTypes /\ PageTypes

Init ==
  /\ cap = <<>> /\ current = 0
  /\ composer = [text |-> <<>>, dictation |-> 0, said |-> 0, draft |-> <<>>, voice |-> FALSE]
  /\ finisher = NoFinish /\ reading = Quiet /\ turn = NoTurn /\ visible = TRUE
  /\ lock = [due |-> FALSE, asking |-> FALSE, held |-> FALSE, refused |-> FALSE]
  /\ extras = 0
  /\ sent = <<>> /\ cut = {} /\ spoiled = FALSE

Ended == {"stopped", "cancelled", "error"}
Settled(x) == x.at \in Ended
Phase ==
  IF current = 0 THEN "none"
  ELSE CASE cap[current].at = "asking" -> "starting"
         [] cap[current].at = "recording" -> "recording"
         [] cap[current].at \in {"stopping", "transcribing"} -> "transcribing"
         [] cap[current].at = "error" -> "error"
         [] OTHER -> "idle"
CaptureActive == Phase \in {"starting", "recording", "transcribing"}

Extra == extras < MaxExtras /\ extras' = extras + 1
Set(c, x) == cap' = [cap EXCEPT ![c] = x]

(* Whether voice work would be stopped by the screen turning off.             *)
Waits(r) == r.armed \/ r.request
NeedsScreen == CaptureActive \/ Waits(reading) \/ reading.play = "loading"

(* Every #update of the controller asks for the lock to be settled.           *)
Hold == lock' = [lock EXCEPT !.due = TRUE]
Tell(c) == IF Settled(cap[c]) THEN UNCHANGED lock ELSE Hold

-----------------------------------------------------------------------------
(* A capture.                                                                *)

(* finish: a pending permission is left to #begin, which looks at #finishing. *)
Finished(x, reviewOnly) ==
  LET y == [x EXCEPT !.review = @ \/ reviewOnly] IN
  IF Settled(x) \/ x.finishing THEN y
  ELSE [y EXCEPT !.finishing = TRUE, !.at = IF @ = "recording" THEN "stopping" ELSE @]

Cancelled(x) ==
  IF Settled(x) THEN [x EXCEPT !.blob = "none"]
  ELSE [x EXCEPT !.at = "cancelled", !.blob = "none", !.data = FALSE, !.stream = FALSE]

Failed(x) == [x EXCEPT !.at = "error", !.stream = FALSE]

(* #begin once the microphone is granted: to a capture that has ended the     *)
(* tracks are stopped at once, and one asked to finish stops recording.       *)
GrantedAnyway(x) ==
  [x EXCEPT !.asked = FALSE, !.stream = TRUE,
            !.at = IF Settled(x) THEN @ ELSE IF x.finishing THEN "stopping" ELSE "recording"]
Granted(x) ==
  IF Settled(x) THEN [x EXCEPT !.asked = FALSE]
  ELSE [x EXCEPT !.asked = FALSE, !.stream = TRUE,
                 !.at = IF x.finishing THEN "stopping" ELSE "recording"]

Untouched == UNCHANGED <<current, composer, finisher, reading, turn, visible, sent, spoiled>>

Grant(c) ==
  /\ cap[c].asked /\ Set(c, Granted(cap[c]))
  /\ Tell(c) /\ Untouched /\ UNCHANGED <<extras, cut>>

Deny(c) ==
  /\ cap[c].asked /\ Extra
  /\ Set(c, [IF Settled(cap[c]) THEN cap[c] ELSE Failed(cap[c]) EXCEPT !.asked = FALSE])
  /\ Tell(c) /\ Untouched /\ UNCHANGED cut

(* #onData: a chunk, or one that reaches the limit, with room for it or not.  *)
Data(c) ==
  /\ cap[c].at \in {"recording", "stopping"} /\ ~cap[c].data /\ ~cap[c].over
  /\ Set(c, [cap[c] EXCEPT !.data = TRUE])
  /\ Untouched /\ UNCHANGED <<lock, extras, cut>>

Limit(c) ==
  /\ cap[c].at \in {"recording", "stopping"} /\ ~cap[c].over
  /\ \E fits \in BOOLEAN :
       Set(c, Finished([cap[c] EXCEPT !.data = @ \/ fits, !.over = ~fits], TRUE))
  /\ cut' = cut \cup {c} /\ Extra /\ Hold /\ Untouched

(* The time is up, or a track ends.                                          *)
Ends(c) ==
  /\ cap[c].at \in {"recording", "stopping"} /\ Set(c, Finished(cap[c], TRUE))
  /\ cut' = cut \cup {c} /\ Extra /\ Hold /\ Untouched

Errs(c) ==
  /\ cap[c].at \in {"recording", "stopping"} /\ Set(c, Failed(cap[c]))
  /\ Extra /\ Hold /\ Untouched /\ UNCHANGED cut

(* #onStop: what was recorded goes to be transcribed; a recorder that stopped *)
(* of itself leaves its words for review.                                    *)
Recorded(x) ==
  LET y == [x EXCEPT !.review = @ \/ ~x.finishing, !.finishing = TRUE,
                     !.stream = FALSE, !.data = FALSE] IN
  IF x.over /\ ~x.data THEN Failed(y)
  ELSE IF ~x.data THEN Failed([y EXCEPT !.blob = "silence"])
  ELSE [y EXCEPT !.at = "transcribing", !.blob = "audio"]

Stopped(c) ==
  /\ cap[c].at = "stopping" /\ Set(c, Recorded(cap[c]))
  /\ Hold /\ Untouched /\ UNCHANGED <<extras, cut>>

StopsItself(c) ==
  /\ cap[c].at = "recording" /\ Set(c, Recorded(cap[c]))
  /\ cut' = cut \cup {c} /\ Extra /\ Hold /\ Untouched

(* A one-second tick of the recording's timer.                               *)
Tick(c) ==
  /\ cap[c].at = "recording" /\ c = current /\ ~lock.due /\ Hold
  /\ Untouched /\ UNCHANGED <<cap, extras, cut>>

Transcribed(c) ==
  /\ cap[c].at = "transcribing"
  /\ Set(c, [cap[c] EXCEPT !.at = "stopped", !.blob = "none"])
  /\ composer' = [composer EXCEPT !.said = IF composer.dictation = c THEN c ELSE @]
  /\ Hold /\ UNCHANGED <<current, finisher, reading, turn, visible, extras, sent, cut, spoiled>>

NotTranscribed(c) ==
  /\ cap[c].at = "transcribing" /\ Set(c, Failed(cap[c]))
  /\ Extra /\ Hold /\ Untouched /\ UNCHANGED cut

-----------------------------------------------------------------------------
(* The controller.                                                           *)

Disarmed(r) == [r EXCEPT !.armed = FALSE, !.request = FALSE]
Hushed(r) == [r EXCEPT !.play = "none"]

(* cancelCapture: what the capture in hand becomes.                          *)
Dropped == IF current = 0 THEN cap ELSE [cap EXCEPT ![current] = Cancelled(@)]

(* listen, from the composer's start or its retry.                           *)
Listen(new) ==
  /\ Len(cap) < MaxCaptures
  /\ cap' = Append(Dropped, new) /\ current' = Len(cap')
  /\ reading' = Hushed(Disarmed(reading)) /\ spoiled' = TRUE
  /\ Hold /\ UNCHANGED <<finisher, turn, visible, extras, sent>>

Start ==
  /\ Phase \in {"none", "idle"} /\ composer.dictation = 0
  /\ \E voice \in BOOLEAN :
       /\ voice => ~turn.running /\ composer.text = <<>>
       /\ composer' = [composer EXCEPT !.draft = composer.text, !.voice = voice,
                                       !.dictation = Len(cap) + 1, !.said = 0]
  /\ Listen(Fresh) /\ UNCHANGED cut

Retry ==
  /\ Phase = "error" /\ cap[current].blob # "none" /\ composer.dictation = 0
  /\ composer' = [composer EXCEPT !.draft = composer.text, !.dictation = Len(cap) + 1, !.said = 0]
  /\ LET kept == [Fresh EXCEPT !.asked = FALSE, !.finishing = TRUE, !.review = TRUE,
                              !.blob = cap[current].blob] IN
     Listen([kept EXCEPT !.at = IF kept.blob = "audio" THEN "transcribing" ELSE "error"])
  /\ cut' = cut \cup {Len(cap')}

Discard ==
  /\ Phase \notin {"none", "idle"}
  /\ cap' = Dropped /\ current' = 0 /\ reading' = Disarmed(reading)
  /\ composer' = [composer EXCEPT !.text = composer.draft]
  /\ Hold /\ UNCHANGED <<finisher, turn, visible, extras, sent, cut, spoiled>>

(* The runtime stops or cancels its dictation without the controller.         *)
RuntimeStops ==
  /\ composer.dictation # 0
  /\ \E x \in {Finished(cap[composer.dictation], FALSE), Cancelled(cap[composer.dictation])} :
       Set(composer.dictation, x)
  /\ Hold /\ Untouched /\ UNCHANGED <<extras, cut>>

(* setScope: another Session, with a composer and a thread of its own.       *)
Leave ==
  /\ Extra
  /\ cap' = Dropped /\ current' = 0 /\ reading' = Hushed(Disarmed(reading))
  /\ composer' = [composer EXCEPT !.text = <<>>, !.dictation = 0, !.said = 0]
  /\ turn' = NoTurn /\ spoiled' = TRUE
  /\ Hold /\ UNCHANGED <<finisher, visible, sent, cut>>

-----------------------------------------------------------------------------
(* The composer's finish, one action per await.                              *)

Finish ==
  /\ Phase = "recording" /\ finisher.at = "idle"
  /\ finisher' = [at |-> "result", of |-> current, voice |-> composer.voice]
  /\ Set(current, Finished(cap[current], FALSE)) /\ Hold
  /\ UNCHANGED <<current, composer, reading, turn, visible, extras, sent, cut, spoiled>>

(* The capture is still the controller's own.                                *)
StillMine == current = finisher.of

HasResult ==
  /\ finisher.at = "result" /\ Settled(cap[finisher.of])
  /\ finisher' = IF cap[finisher.of].at = "stopped" /\ StillMine
                 THEN [finisher EXCEPT !.at = "commit"] ELSE NoFinish
  /\ UNCHANGED <<cap, current, composer, reading, turn, visible, lock, extras, sent, cut, spoiled>>

(* The words may be sent: by the operator, unreviewed, on a visible page, to  *)
(* a Session that does nothing else.                                         *)
MaySendReviewed(c) == finisher.voice /\ visible /\ ~turn.running
MaySend(c) == finisher.voice /\ ~cap[c].review /\ visible /\ ~turn.running

(* waitForCommittedTranscript, and submitVoiceTurn in the same turn of the    *)
(* event loop; the wait ends with the capture's abort or after five seconds.  *)
Commit ==
  /\ finisher.at = "commit" /\ finisher' = NoFinish
  /\ IF /\ StillMine /\ composer.dictation = 0
        /\ composer.text = Append(composer.draft, finisher.of) /\ MaySend(finisher.of)
     THEN /\ sent' = Append(sent, [of |-> finisher.of, text |-> composer.text])
          /\ composer' = [composer EXCEPT !.text = <<>>]
          /\ reading' = [reading EXCEPT !.armed = TRUE, !.ran = FALSE]
          /\ turn' = [NoTurn EXCEPT !.users = 1] /\ spoiled' = FALSE /\ Hold
     ELSE UNCHANGED <<sent, composer, reading, turn, spoiled, lock>>
  /\ UNCHANGED <<cap, current, visible, extras, cut>>

(* External: the runtime shows what was said and ends the dictation.          *)
Show ==
  /\ composer.dictation # 0 /\ Settled(cap[composer.dictation])
  /\ composer' = [composer EXCEPT !.dictation = 0, !.said = 0,
                    !.text = IF composer.said = 0 THEN @ ELSE Append(@, composer.said)]
  /\ UNCHANGED <<cap, current, finisher, reading, turn, visible, lock, extras, sent, cut, spoiled>>

Type ==
  /\ composer.dictation = 0 /\ ~CaptureActive /\ Extra
  /\ composer' = [composer EXCEPT !.text = Append(@, 0)]
  /\ UNCHANGED <<cap, current, finisher, reading, turn, visible, lock, sent, cut, spoiled>>

-----------------------------------------------------------------------------
(* The reply of a voice turn, and what is read aloud.                        *)

(* External: the thread.  An ask from elsewhere is a second submission.       *)
Thread(next) ==
  /\ turn' = next
  /\ UNCHANGED <<cap, current, composer, finisher, reading, visible, lock, sent, cut>>
Aside ==
  /\ Extra /\ Thread([turn EXCEPT !.users = IF @ < 2 THEN @ + 1 ELSE @])
  /\ spoiled' = (spoiled \/ reading.armed)
Runs ==
  /\ ~turn.running /\ turn.users > 0 /\ turn.reply = "none"
  /\ Thread([turn EXCEPT !.running = TRUE]) /\ UNCHANGED <<extras, spoiled>>
Replies ==
  /\ turn.running
  /\ \E reply \in {"none", "bare", "prose"} : Thread([turn EXCEPT !.running = FALSE, !.reply = reply])
  /\ UNCHANGED <<extras, spoiled>>

(* Stop generating disarms before it interrupts.                             *)
StopTurn ==
  /\ turn.running /\ turn' = [turn EXCEPT !.running = FALSE, !.reply = "bare"]
  /\ reading' = Disarmed(reading) /\ spoiled' = TRUE
  /\ lock' = [lock EXCEPT !.due = @ \/ Waits(reading)]
  /\ UNCHANGED <<cap, current, composer, finisher, visible, extras, sent, cut>>

(* The reader's effect for a voice turn that waits for its reply.             *)
SecondAskNone == FALSE
SecondAsk == turn.users > 1
Candidate == ~turn.running /\ turn.reply = "prose"

ReaderSees ==
  /\ reading.armed /\ UNCHANGED <<cap, current, composer, finisher, turn, visible, extras, sent, cut, spoiled>>
  /\ \/ /\ SecondAsk /\ reading' = [reading EXCEPT !.armed = FALSE] /\ Hold
     \/ /\ ~SecondAsk /\ turn.running /\ ~reading.ran
        /\ reading' = [reading EXCEPT !.ran = TRUE] /\ UNCHANGED lock
     \/ /\ ~SecondAsk /\ Candidate
        /\ reading' = [reading EXCEPT !.armed = FALSE, !.request = visible /\ ~CaptureActive] /\ Hold
     \/ /\ ~SecondAsk /\ ~turn.running /\ ~Candidate /\ (reading.ran \/ turn.reply # "none")
        /\ reading' = [reading EXCEPT !.armed = FALSE] /\ Hold

(* Its effect for a reply to read, and the five seconds that remain for it.   *)
Reads ==
  /\ reading.request /\ Candidate
  /\ reading' = [reading EXCEPT !.request = FALSE,
                   !.play = IF visible /\ ~CaptureActive THEN "loading" ELSE @]
  /\ Hold /\ UNCHANGED <<cap, current, composer, finisher, turn, visible, extras, sent, cut, spoiled>>

Expire ==
  /\ reading.request /\ reading' = [reading EXCEPT !.request = FALSE]
  /\ Hold /\ UNCHANGED <<cap, current, composer, finisher, turn, visible, extras, sent, cut, spoiled>>

(* The operator reads a message aloud, or stops; the audio comes, or not.     *)
Speak ==
  /\ ~CaptureActive /\ reading' = [Disarmed(reading) EXCEPT !.play = "loading"]
  /\ Hold /\ UNCHANGED <<cap, current, composer, finisher, turn, visible, extras, sent, cut, spoiled>>
Plays ==
  /\ reading.play # "none"
  /\ \E play \in {"ready", "none"} \ {reading.play} : reading' = [reading EXCEPT !.play = play]
  /\ Hold /\ UNCHANGED <<cap, current, composer, finisher, turn, visible, extras, sent, cut, spoiled>>

-----------------------------------------------------------------------------
(* The page and the screen.                                                  *)

Hide ==
  /\ visible /\ visible' = FALSE /\ reading' = Disarmed(reading) /\ spoiled' = TRUE
  /\ lock' = [lock EXCEPT !.due = @ \/ Waits(reading), !.held = FALSE]
  /\ UNCHANGED <<cap, current, composer, finisher, turn, extras, sent, cut>>
Return ==
  /\ ~visible /\ visible' = TRUE /\ Hold
  /\ UNCHANGED <<cap, current, composer, finisher, reading, turn, extras, sent, cut, spoiled>>

ScreenOnly == UNCHANGED <<cap, current, composer, finisher, reading, turn, visible, sent, cut, spoiled>>

(* #settle, a microtask after the last hold.                                 *)
Settle ==
  /\ lock.due /\ ScreenOnly /\ UNCHANGED extras
  /\ lock' = IF ~NeedsScreen THEN [lock EXCEPT !.due = FALSE, !.held = FALSE]
             ELSE IF lock.asking \/ lock.held THEN [lock EXCEPT !.due = FALSE]
             ELSE [lock EXCEPT !.due = FALSE, !.asking = TRUE, !.refused = FALSE]

(* A lock granted after it was last wanted is let go.                        *)
KeepsAlways == TRUE
Keeps == NeedsScreen
LockGranted ==
  /\ lock.asking /\ visible /\ ScreenOnly /\ UNCHANGED extras
  /\ lock' = [lock EXCEPT !.asking = FALSE, !.held = Keeps]

(* The browser refuses a hidden page, and by policy.                         *)
LockRefused ==
  /\ lock.asking /\ ScreenOnly
  /\ IF visible THEN Extra ELSE UNCHANGED extras
  /\ lock' = [lock EXCEPT !.asking = FALSE, !.refused = TRUE]

-----------------------------------------------------------------------------
Next ==
  \/ \E c \in DOMAIN cap :
       \/ Grant(c) \/ Deny(c) \/ Data(c) \/ Limit(c) \/ Ends(c) \/ Errs(c) \/ Stopped(c)
       \/ StopsItself(c) \/ Tick(c) \/ Transcribed(c) \/ NotTranscribed(c)
  \/ Start \/ Retry \/ Discard \/ RuntimeStops \/ Leave
  \/ Finish \/ HasResult \/ Commit \/ Show \/ Type
  \/ Aside \/ Runs \/ Replies \/ StopTurn
  \/ ReaderSees \/ Reads \/ Expire \/ Speak \/ Plays
  \/ Hide \/ Return \/ Settle \/ LockGranted \/ LockRefused

Spec == Init /\ [][Next]_vars
-----------------------------------------------------------------------------
(* The microphone is on only for the capture at hand, while it records, and   *)
(* never while something is read aloud.                                      *)
MicIsReleased ==
  \A c \in DOMAIN cap : cap[c].stream =>
    c = current /\ cap[c].at \in {"recording", "stopping"} /\ reading.play = "none"

(* A voice turn is one capture's own words, sent once, of a capture that the  *)
(* operator ended, not a limit, the browser or a retry.                      *)
TurnIsTheOperators ==
  /\ \A i \in DOMAIN sent : sent[i].of \notin cut /\ sent[i].text = <<sent[i].of>>
  /\ \A i, j \in DOMAIN sent : sent[i].of = sent[j].of => i = j

(* A reply is about to be read of itself only if nothing came in between: no  *)
(* second submission before it was found, and at no time an interruption, a   *)
(* recording, a hidden page or another Session.                              *)
OnlyItsReplyIsRead == reading.request => ~spoiled

(* The screen's lock follows the voice work: held while it is needed on a     *)
(* visible page, unless refused, and let go otherwise.                       *)
ScreenIsHeld ==
  ~lock.due /\ ~lock.asking =>
    IF NeedsScreen THEN lock.held \/ ~visible \/ lock.refused ELSE ~lock.held
=============================================================================
