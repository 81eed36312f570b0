--------------------------- MODULE SpeechComposer ---------------------------
(*************************************************************************)
(* The composer of the web client: the text box of ImageEvidenceForm with *)
(* its submissions, and the voice control beside it (SpeechRecorderControl *)
(* and its reducer). One start or retry is an operation, numbered by       *)
(* generation; its fence is what the user was looking at then.             *)
(*                                                                         *)
(* The browser answers in its own time: the permission prompt, the end of  *)
(* a recording and the response of the server are events of operations     *)
(* that may be over by then. A handler is one step, with the rendering and *)
(* the effects it leads to.                                                *)
(*************************************************************************)
EXTENDS Naturals

CONSTANTS Sessions,
          MaxOps,   \* bound: operations of one mounted control
          MaxText   \* bound: changes of the text by hand

ASSUME ComposerAssumption == MaxOps \in Nat /\ MaxText \in Nat

NoOp == 0
Ops == 1..MaxOps

VARIABLES
    session,      \* the session on the page
    text,         \* counts the changes of the text
    revision,     \* composerRevision
    submitting,   \* a submission is under way
    recorderBusy, \* what the control last told the form
    mounted,
    status, of,   \* the reducer's state: status and the generation of its fence
    generation,   \* the last one given out
    activeFence,  \* the operation that is current, or NoOp
    startPending,
    recorder,     \* the operation whose MediaRecorder is kept, or NoOp
    stream,       \* the operation whose MediaStream is kept, or NoOp
    aborter,      \* the operation whose request can be aborted, or NoOp
    retainedFile, \* the operation whose clip is kept, or NoOp
    fence,        \* fence[g]: session and revision at the start of g
    asked,        \* asked[g]: session and text at the start of g
    tracks,       \* tracks[g]: the microphone's tracks acquired for g
    record,       \* record[g]: the state of its MediaRecorder
    request       \* request[g]: its request for a transcript

form == <<session, text, revision, submitting, recorderBusy>>
control == <<status, of, generation, activeFence, startPending, recorder, stream, aborter, retainedFile>>
history == <<fence, asked>>
browser == <<tracks, record, request>>
composerVars == <<form, mounted, control, history, browser>>

Busy == {"requesting_permission", "recording", "stopping", "transcribing"}
Statuses == Busy \cup {"idle", "succeeded", "failed"}
Fences == [session : Sessions, revision : Nat]
Places == [session : Sessions, text : Nat]

ComposerInit ==
    /\ session \in Sessions /\ text = 0 /\ revision = 0
    /\ submitting = FALSE /\ recorderBusy = FALSE /\ mounted = TRUE
    /\ status = "idle" /\ of = NoOp /\ generation = 0 /\ activeFence = NoOp /\ startPending = FALSE
    /\ recorder = NoOp /\ stream = NoOp /\ aborter = NoOp /\ retainedFile = NoOp
    /\ fence = [g \in Ops |-> [session |-> session, revision |-> 0]]
    /\ asked = [g \in Ops |-> [session |-> session, text |-> 0]]
    /\ tracks = [g \in Ops |-> "none"] /\ record = [g \in Ops |-> "none"]
    /\ request = [g \in Ops |-> "none"]

Here == [session |-> session, text |-> text]
IsCurrent(g) ==
    mounted /\ activeFence = g /\ fence[g] = [session |-> session, revision |-> revision]
-----------------------------------------------------------------------------
(* The reducer, and the effect on the form *)

\* The effect runs when the status that is rendered differs from the one before.
Report(told) == recorderBusy' = IF status' # status THEN status' \in Busy ELSE told
Transition(from, to, g) ==
    status' = (IF status = from /\ of = g THEN to ELSE status) /\ UNCHANGED of
Fail(g) ==
    IF status = "idle" \/ of = g THEN status' = "failed" /\ of' = g ELSE UNCHANGED <<status, of>>

Without(which, f, was, is) ==
    IF which # NoOp /\ f[which] = was THEN [f EXCEPT ![which] = is] ELSE f
StopTracks == tracks' = Without(stream, tracks, "live", "stopped") /\ stream' = NoOp

CancelKeepingClip ==                                                  \* mutant
    /\ activeFence' = NoOp /\ startPending' = FALSE
    /\ request' = Without(aborter, request, "pending", "aborted") /\ aborter' = NoOp
    /\ record' = Without(recorder, record, "recording", "inactive") /\ recorder' = NoOp
    /\ StopTracks /\ UNCHANGED <<retainedFile, generation>>
\* cancelActive, up to what it dispatches.
CancelActive ==
    /\ activeFence' = NoOp /\ startPending' = FALSE
    /\ request' = Without(aborter, request, "pending", "aborted") /\ aborter' = NoOp
    /\ record' = Without(recorder, record, "recording", "inactive") /\ recorder' = NoOp
    /\ StopTracks /\ retainedFile' = NoOp
    /\ UNCHANGED generation
DispatchCancelled ==
    IF activeFence # NoOp /\ of = activeFence THEN status' = "idle" /\ of' = NoOp
                                             ELSE UNCHANGED <<status, of>>
\* The effect of a new revision.
RevisionEffect ==
    IF activeFence # NoOp /\ fence[activeFence].revision # revision'
    THEN CancelActive /\ DispatchCancelled /\ Report(recorderBusy)
    ELSE UNCHANGED <<control, browser, recorderBusy>>
-----------------------------------------------------------------------------
(* The text box *)

EditUnversioned ==                                                    \* mutant
    /\ mounted /\ text < MaxText
    /\ text' = text + 1 /\ UNCHANGED revision /\ RevisionEffect
    /\ UNCHANGED <<session, submitting, mounted, history>>
Edit ==
    /\ mounted /\ text < MaxText
    /\ text' = text + 1 /\ revision' = revision + 1 /\ RevisionEffect
    /\ UNCHANGED <<session, submitting, mounted, history>>

SubmitForm ==
    /\ ~recorderBusy /\ ~submitting /\ submitting' = TRUE
    /\ UNCHANGED <<session, text, revision, recorderBusy, mounted, control, history, browser>>

\* All of it was stored: the composer is cleared.
SubmitSucceeds ==
    /\ submitting /\ text < MaxText /\ submitting' = FALSE
    /\ text' = text + 1 /\ revision' = revision + 1 /\ RevisionEffect
    /\ UNCHANGED <<session, mounted, history>>
SubmitFails ==
    /\ submitting /\ submitting' = FALSE
    /\ UNCHANGED <<session, text, revision, recorderBusy, mounted, control, history, browser>>

SessionChange ==
    /\ mounted /\ session' \in Sessions \ {session}
    /\ CancelActive /\ status' = "idle" /\ of' = NoOp /\ Report(recorderBusy)
    /\ UNCHANGED <<text, revision, submitting, mounted, history>>

\* The form stays when only the capability goes: its own effect frees it.
Unmount ==
    /\ mounted /\ mounted' = FALSE
    /\ CancelActive /\ recorderBusy' = FALSE
    /\ UNCHANGED <<session, text, revision, submitting, status, of, history>>
-----------------------------------------------------------------------------
(* The buttons of the control *)

CanStart == mounted /\ ~submitting /\ ~startPending /\ status \notin Busy /\ generation < MaxOps
Begin(g) ==
    /\ g = generation + 1 /\ generation' = g
    /\ fence' = [fence EXCEPT ![g] = [session |-> session, revision |-> revision]]
    /\ asked' = [asked EXCEPT ![g] = Here]

Start(g) ==
    /\ CanStart /\ Begin(g) /\ retainedFile' = NoOp
    /\ activeFence' = g /\ startPending' = TRUE
    /\ status' = "requesting_permission" /\ of' = g /\ Report(TRUE)
    /\ tracks' = [tracks EXCEPT ![g] = "asked"]
    /\ UNCHANGED <<session, text, revision, submitting, mounted, recorder, stream, aborter,
                   record, request>>

\* A browser without the interfaces: both actions are dispatched before a rendering.
StartUnsupported(g) ==
    /\ CanStart /\ Begin(g) /\ retainedFile' = NoOp
    /\ activeFence' = NoOp /\ startPending' = FALSE
    /\ status' = "failed" /\ of' = g /\ Report(TRUE)
    /\ UNCHANGED <<session, text, revision, submitting, mounted, recorder, stream, aborter,
                   browser>>

Retry(g) ==
    /\ CanStart /\ retainedFile # NoOp /\ status = "failed" /\ Begin(g)
    /\ activeFence' = g /\ startPending' = TRUE
    /\ status' = "transcribing" /\ of' = g /\ Report(TRUE)
    /\ request' = [request EXCEPT ![g] = "pending"] /\ aborter' = g
    /\ UNCHANGED <<session, text, revision, submitting, mounted, recorder, stream, retainedFile,
                   tracks, record>>

\* The button, and the timer that ends a recording that lasts too long.
Stop ==
    /\ activeFence # NoOp /\ recorder # NoOp /\ record[recorder] = "recording"
    /\ Transition("recording", "stopping", activeFence) /\ Report(recorderBusy)
    /\ record' = [record EXCEPT ![recorder] = "inactive"]
    /\ UNCHANGED <<session, text, revision, submitting, mounted, generation, activeFence,
                   startPending, recorder, stream, aborter, retainedFile, history, tracks, request>>

CancelOperation ==
    /\ mounted /\ status \in Busy
    /\ CancelActive /\ DispatchCancelled /\ Report(recorderBusy)
    /\ UNCHANGED <<session, text, revision, submitting, mounted, history>>
-----------------------------------------------------------------------------
(* The browser *)

MediaTooLateDropped(g) ==                                             \* mutant
    /\ tracks[g] = "asked" /\ ~IsCurrent(g)
    /\ tracks' = [tracks EXCEPT ![g] = "live"]
    /\ UNCHANGED <<form, mounted, control, history, record, request>>
MediaTooLate(g) ==
    /\ tracks[g] = "asked" /\ ~IsCurrent(g)
    /\ tracks' = [tracks EXCEPT ![g] = "stopped"]
    /\ UNCHANGED <<form, mounted, control, history, record, request>>

MediaGranted(g) ==
    /\ tracks[g] = "asked" /\ IsCurrent(g)
    /\ tracks' = [tracks EXCEPT ![g] = "live"] /\ stream' = g
    /\ record' = [record EXCEPT ![g] = "recording"] /\ recorder' = g /\ startPending' = FALSE
    /\ Transition("requesting_permission", "recording", g) /\ Report(recorderBusy)
    /\ UNCHANGED <<session, text, revision, submitting, mounted, generation, activeFence, aborter,
                   retainedFile, history, request>>

\* The user denies it, there is no device, no format fits, or the recorder throws: what
\* was acquired is stopped.
MediaFails(g) ==
    /\ tracks[g] = "asked" /\ IsCurrent(g)
    /\ startPending' = FALSE /\ activeFence' = NoOp
    /\ recorder' = NoOp /\ stream' = NoOp
    /\ tracks' = [Without(stream, tracks, "live", "stopped") EXCEPT ![g] = "stopped"]
    /\ Fail(g) /\ Report(recorderBusy)
    /\ UNCHANGED <<session, text, revision, submitting, mounted, generation, aborter, retainedFile,
                   history, record, request>>

\* The device is unplugged, or its permission is taken back.
DeviceLost(g) ==
    /\ tracks[g] = "live" /\ tracks' = [tracks EXCEPT ![g] = "stopped"]
    /\ UNCHANGED <<form, mounted, control, history, record, request>>

\* A MediaRecorder stops by itself when all its tracks have ended.
RecorderStarves(g) ==
    /\ record[g] = "recording" /\ tracks[g] # "live"
    /\ record' = [record EXCEPT ![g] = "inactive"]
    /\ UNCHANGED <<form, mounted, control, history, tracks, request>>

Recorded(g) ==
    /\ retainedFile' = g /\ Transition("stopping", "transcribing", g)
    /\ request' = [request EXCEPT ![g] = "pending"] /\ aborter' = g
    /\ UNCHANGED activeFence
NothingRecordedUnsaid(g) ==                                           \* mutant
    activeFence' = NoOp /\ UNCHANGED <<status, of, retainedFile, request, aborter>>
NothingRecorded(g) ==
    Fail(g) /\ activeFence' = NoOp /\ UNCHANGED <<retainedFile, request, aborter>>

\* The stop event clears the recorder and the stream that are kept, whosever they are.
StopEvent(g) ==
    /\ record[g] = "inactive" /\ record' = [record EXCEPT ![g] = "stopped"]
    /\ recorder' = NoOp /\ StopTracks
    /\ \/ IsCurrent(g) /\ (Recorded(g) \/ NothingRecorded(g))
       \/ ~IsCurrent(g) /\ UNCHANGED <<status, of, activeFence, retainedFile, request, aborter>>
    /\ Report(recorderBusy)
    /\ UNCHANGED <<session, text, revision, submitting, mounted, generation, startPending, history>>
-----------------------------------------------------------------------------
(* The server *)

SettleForAll(g) ==                                                    \* mutant
    /\ request[g] \in {"pending", "aborted"} /\ request' = [request EXCEPT ![g] = "done"]
    /\ aborter' = NoOp /\ startPending' = (startPending /\ record[g] # "none")
\* The promise of a request settles: its finally clauses run on every path. An aborted
\* request may have been answered before.
Settle(g) ==
    /\ request[g] \in {"pending", "aborted"} /\ request' = [request EXCEPT ![g] = "done"]
    /\ aborter' = IF aborter = g THEN NoOp ELSE aborter
    /\ startPending' = (startPending /\ record[g] # "none")

TranscriptArrives(g) ==
    /\ Settle(g) /\ IsCurrent(g)
    /\ text' = text + 1 /\ revision' = revision + 1
    /\ Transition("transcribing", "succeeded", g) /\ Report(recorderBusy)
    /\ activeFence' = NoOp /\ retainedFile' = NoOp
    /\ UNCHANGED <<session, submitting, mounted, generation, recorder, stream, history,
                   tracks, record>>

\* A timeout or a rate limit that may be retried keeps the clip.
RequestFails(g) ==
    /\ Settle(g) /\ IsCurrent(g)
    /\ retainedFile' \in {retainedFile, NoOp}
    /\ Fail(g) /\ Report(recorderBusy) /\ activeFence' = NoOp
    /\ UNCHANGED <<session, text, revision, submitting, mounted, generation, recorder, stream,
                   history, tracks, record>>

AnswerTooLate(g) ==
    /\ Settle(g) /\ ~IsCurrent(g)
    /\ UNCHANGED <<form, mounted, status, of, generation, activeFence, recorder, stream,
                   retainedFile, history, tracks, record>>

Answer(g) == TranscriptArrives(g) \/ RequestFails(g) \/ AnswerTooLate(g)
-----------------------------------------------------------------------------
ComposerNext ==
    \/ Edit \/ SubmitForm \/ SubmitSucceeds \/ SubmitFails \/ SessionChange \/ Unmount
    \/ Stop \/ CancelOperation
    \/ \E g \in Ops :
          \/ Start(g) \/ StartUnsupported(g) \/ Retry(g)
          \/ MediaTooLate(g) \/ MediaGranted(g) \/ MediaFails(g)
          \/ DeviceLost(g) \/ RecorderStarves(g) \/ StopEvent(g) \/ Answer(g)

ComposerSpec == ComposerInit /\ [][ComposerNext]_composerVars

\* The browser fires the events it has queued, and a request is answered or times out.
ComposerFairness == \A g \in Ops : WF_composerVars(StopEvent(g)) /\ WF_composerVars(Answer(g))
ComposerLiveSpec == ComposerSpec /\ ComposerFairness
-----------------------------------------------------------------------------
ComposerTypeOK ==
    /\ session \in Sessions /\ text \in Nat /\ revision \in Nat
    /\ submitting \in BOOLEAN /\ recorderBusy \in BOOLEAN /\ mounted \in BOOLEAN
    /\ status \in Statuses /\ generation \in 0..MaxOps /\ startPending \in BOOLEAN
    /\ {of, activeFence, recorder, stream, aborter, retainedFile} \subseteq 0..generation
    /\ fence \in [Ops -> Fences] /\ asked \in [Ops -> Places]
    /\ tracks \in [Ops -> {"none", "asked", "live", "stopped"}]
    /\ record \in [Ops -> {"none", "recording", "inactive", "stopped"}]
    /\ request \in [Ops -> {"none", "pending", "aborted", "done"}]

\* A transcript is inserted into the text, and in the session, that it was spoken for,
\* however late the answer comes and whatever was edited, cancelled or started meanwhile.
TranscriptLands ==
    [][\A g \in Ops : request[g] # request'[g] /\ text' # text => asked[g] = Here]_composerVars

\* A microphone that is on belongs to the operation the user can see, and to a stream
\* that its buttons can stop.
MicrophoneIsOwned ==
    \A g \in Ops : tracks[g] = "live" => mounted /\ activeFence = g /\ stream = g

\* Audio on its way to the server is that of the current operation, and can be called back.
RequestIsWanted ==
    \A g \in Ops : request[g] = "pending" => activeFence = g /\ aborter = g

\* A clip is kept for a retry that is offered, or for its own request; no other session
\* and no later mount ever has it.
ClipIsNeeded ==
    retainedFile # NoOp =>
        /\ mounted /\ fence[retainedFile].session = session
        /\ activeFence # NoOp \/ status = "failed"

\* Sound is taken, sent and kept only for the operation the user sees.
SoundIsOwned == MicrophoneIsOwned /\ RequestIsWanted /\ ClipIsNeeded

\* No submission clears the composer under an operation of the control.
SpokenOrSubmitted == submitting => activeFence = NoOp

\* A recording that was stopped by hand, and a clip that was sent, come to an end.
Waits == mounted /\ status \in {"stopping", "transcribing"}
StoppedEnds == Waits ~> ~Waits

\* The form is blocked only while an operation is current: of PLAN.md. It fails.
BlockedOnlyWhileSpeaking == recorderBusy => activeFence # NoOp
=============================================================================
