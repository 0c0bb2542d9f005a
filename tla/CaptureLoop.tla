------------------------------ MODULE CaptureLoop ------------------------------
(***************************************************************************)
(* The capture loop of a session (capture.rs, next_update).  It takes what *)
(* ScreenCaptureKit delivers, hands it to the H.264 path, or, where that   *)
(* refuses, cuts it into bitmap updates; between samples it re-submits the *)
(* last frame, refreshes the picture after keystrokes, and rests while the *)
(* client is minimised.  The loop is one task: others act where it awaits. *)
(* What submit_bgra does with a frame is one of the outcomes below; which  *)
(* of them, FramePipeline knows.                                           *)
(*                                                                         *)
(* Durations are clocks that pass one deadline; a size is the number of    *)
(* bitmap strips it makes.                                                 *)
(***************************************************************************)
EXTENDS Integers

CONSTANTS
    FullStrips,    \* strips of a full frame
    MaxStrips,     \* bound: strips of the dirty rectangles of a sample
    PendingLimit,  \* pending_limit
    FlushFrames,   \* flush_frames
    MaxPerSecond,  \* keyboard_idr_max_per_second
    MaxEvents      \* bound: events outside the loop

VARIABLES
    \* outside the loop
    ready,       \* submit_bgra takes frames
    minimised,   \* display_suppressed
    sample,      \* what the capture stream holds
    typed,       \* keyboard_generation has moved on
    resize,      \* none | asked | settled (PendingResize, the reactivation request)
    left,        \* events still to come
    \* the loop
    at,          \* top, or where it awaits: unbounded | bounded | rest; ended
    pending, resync, seeded,      \* the bitmap path
    flush, last, first, armed,    \* flush_remaining, last_frame, first_egfx_frame_sent, kf_armed
    need,                         \* need_keyframe of the H.264 path
    since, was,                   \* suppressed_since, was_suppressed
    due, still, count, over,      \* the keyboard IDR: its time, stillness, budget and window
    \* history
    missing,     \* strips were thrown away, and no full frame queued since
    outdated,    \* since the client was minimised it was sent no IDR: "no", "yes", or
                 \* "lapsed" when the IDR asked for it was lost in the H.264 path
    garbled      \* what it was when a frame other than an IDR went out

outside == <<ready, minimised, sample, typed, resize, left>>
bitmap  == <<pending, resync, seeded>>
video   == <<flush, last, first, armed, need>>
gate    == <<since, was>>
keys    == <<due, still, count, over>>
record  == <<missing, outdated, garbled>>
loop    == <<at, bitmap, video, gate, keys>>
vars    == <<outside, loop, record>>
-------------------------------------------------------------------------------
\* How much of the picture a sample changes: idle samples carry none, big ones reach
\* the threshold of keyframe_on_change, little ones stay under half of it.  One in
\* between forces nothing and rearms nothing, as a big one does where it finds the
\* edge unarmed.
Samples == {"idle", "little", "big"}

TypeOK ==
    /\ ready \in BOOLEAN /\ minimised \in BOOLEAN /\ typed \in BOOLEAN
    /\ sample \in Samples \cup {"none"} /\ resize \in {"none", "asked", "settled"}
    /\ left \in 0..MaxEvents
    /\ at \in {"top", "unbounded", "bounded", "rest", "ended"}
    /\ pending \in 0..PendingLimit /\ resync \in BOOLEAN /\ seeded \in BOOLEAN
    /\ flush \in 0..FlushFrames /\ {last, first, armed, need, was, still, over} \subseteq BOOLEAN
    /\ since \in {"none", "counting", "past"} /\ due \in {"none", "armed", "due"}
    /\ count \in 0..MaxPerSecond
    /\ missing \in BOOLEAN /\ outdated \in {"no", "yes", "lapsed"}
    /\ garbled \subseteq {"yes", "lapsed"}

\* ScreenCaptureUpdates::start, which also clears the flag a client left set; the
\* resize before it (reset_for_live_resize) armed an IDR.
Start ==
    /\ minimised' = FALSE /\ typed' = FALSE /\ sample' = "none"
    /\ at' = "top"
    /\ pending' = 0 /\ resync' = FALSE /\ seeded' = FALSE
    /\ flush' = 0 /\ last' = FALSE /\ first' = FALSE /\ armed' = TRUE /\ need' = TRUE
    /\ since' = "none" /\ was' = FALSE
    /\ due' = "none" /\ still' = TRUE /\ count' = 0 /\ over' = FALSE
    /\ missing' = FALSE /\ outdated' = "no" /\ UNCHANGED garbled

Init ==
    /\ ready \in BOOLEAN /\ minimised = FALSE /\ typed = FALSE /\ sample = "none"
    /\ resize = "none" /\ left = MaxEvents
    /\ at = "top"
    /\ pending = 0 /\ resync = FALSE /\ seeded = FALSE
    /\ flush = 0 /\ last = FALSE /\ first = FALSE /\ armed = TRUE /\ need = TRUE
    /\ since = "none" /\ was = FALSE
    /\ due = "none" /\ still = TRUE /\ count = 0 /\ over = FALSE
    /\ missing = FALSE /\ outdated = "no" /\ garbled = {}
-------------------------------------------------------------------------------
(* What happens outside.                                                   *)

Happens == left > 0 /\ left' = left - 1

Capture ==
    /\ sample = "none" /\ Happens
    /\ sample' \in Samples
    /\ UNCHANGED <<ready, minimised, typed, resize, loop, record>>

RecordKeyboard ==
    /\ Happens /\ typed' = TRUE
    /\ UNCHANGED <<ready, minimised, sample, resize, loop, record>>

SuppressOutput ==
    /\ ~minimised /\ Happens /\ minimised' = TRUE
    /\ UNCHANGED <<ready, sample, typed, resize, loop, record>>

ResumeOutput ==
    /\ minimised /\ minimised' = FALSE
    /\ UNCHANGED <<ready, sample, typed, resize, left, loop, record>>

Request ==
    /\ Happens /\ resize' = "asked"
    /\ UNCHANGED <<ready, minimised, sample, typed, loop, record>>

\* The channel opens or closes: on_ready and on_close both arm an IDR.
Flip ==
    /\ Happens /\ ready' = ~ready /\ need' = TRUE
    /\ UNCHANGED <<minimised, sample, typed, resize, at, bitmap, flush, last, first, armed,
                   gate, keys, record>>

\* The deadlines.
Settles ==
    /\ resize = "asked" /\ resize' = "settled"
    /\ UNCHANGED <<ready, minimised, sample, typed, left, loop, record>>
SuppressLasts ==
    /\ since = "counting" /\ since' = "past"
    /\ UNCHANGED <<outside, at, bitmap, video, was, keys, record>>
DueComes ==
    /\ due = "armed" /\ due' = "due"
    /\ UNCHANGED <<outside, at, bitmap, video, gate, still, count, over, record>>
Stills ==
    /\ ~still /\ still' = TRUE
    /\ UNCHANGED <<outside, at, bitmap, video, gate, due, count, over, record>>
\* A window in which nothing was counted might as well go on.
WindowEnds ==
    /\ count > 0 /\ ~over /\ over' = TRUE
    /\ UNCHANGED <<outside, at, bitmap, video, gate, due, still, count, record>>
-------------------------------------------------------------------------------
(* The top of the loop, down to its next await.                            *)

\* The update returned makes the server deactivate the session and start over.
ReturnResize ==
    /\ at = "top" /\ resize = "settled"
    /\ resize' = "none"
    /\ Start
    /\ UNCHANGED <<ready, left>>

ReturnPending ==
    /\ at = "top" /\ resize # "settled" /\ pending > 0
    /\ pending' = pending - 1
    /\ UNCHANGED <<outside, at, resync, seeded, video, gate, keys, record>>

\* A keystroke seen arms the IDR unless one is due; the window's budget renews.
DueNow == IF typed /\ due = "none" THEN "armed" ELSE due
NoticeKeys ==
    /\ typed' = FALSE /\ due' = DueNow
    /\ count' = IF over THEN 0 ELSE count
    /\ over' = FALSE
    /\ UNCHANGED still

\* Honoured once a frame was sent, when the client has been minimised for long.
Engaged == first /\ minimised /\ since = "past"

\* Mutant: the burst that was under way goes on after the rest.
RestKeepsBurst ==
    /\ at' = "rest" /\ was' = TRUE /\ outdated' = "yes"
    /\ UNCHANGED <<since, flush>>

Rest ==
    /\ at' = "rest" /\ was' = TRUE /\ flush' = 0 /\ outdated' = "yes"
    /\ UNCHANGED since

\* Mutant: only a burst or a resize bounds the wait.
BoundedByWork == flush > 0 \/ resize # "none"

Bounded == flush > 0 \/ resize # "none" \/ DueNow # "none"

Await ==
    /\ at' = IF Bounded THEN "bounded" ELSE "unbounded"
    /\ since' = CASE ~first -> since
                  [] first /\ ~minimised -> "none"
                  [] OTHER -> IF since = "none" THEN "counting" ELSE since
    /\ UNCHANGED <<was, flush, outdated>>

Pass ==
    /\ at = "top" /\ resize # "settled" /\ pending = 0
    /\ NoticeKeys
    /\ IF Engaged THEN Rest ELSE Await
    /\ UNCHANGED <<ready, minimised, sample, resize, left, bitmap, last, first, armed, need,
                   missing, garbled>>

WakeUp ==
    /\ at = "rest" /\ at' = "top"
    /\ UNCHANGED <<outside, bitmap, video, gate, keys, record>>
-------------------------------------------------------------------------------
(* An await answered.                                                      *)

KeyboardIdr == due = "due" /\ count < MaxPerSecond /\ still

Refreshed ==
    /\ due' = "none" /\ still' = FALSE /\ count' = count + 1
    /\ UNCHANGED over

\* Nothing asks any more for the IDR that the client needs.
Lapses == outdated = "yes" /\ ~was' /\ ~need'
Lapsing == outdated' = IF Lapses THEN "lapsed" ELSE outdated

\* With telemetry on the event queue may be at its threshold: submit_bgra returns
\* Ok(true) before the request is armed.  Of a frame after a pause demigrate_on_resume
\* may have armed it all the same, if EGFX was on the tunnel.
Shed(resumes) ==
    /\ \E onUdp \in BOOLEAN : need' = (need \/ (resumes /\ onUdp))
    /\ Lapsing /\ UNCHANGED <<left, garbled>>

\* One of the later throttles drops the frame: the request stays armed.
Dropped(idr) == need' = (need \/ idr) /\ UNCHANGED <<left, outdated, garbled>>

Encoded(idr) ==
    LET key == need \/ idr IN
    /\ need' = FALSE
    /\ outdated' = IF key THEN "no" ELSE outdated
    /\ garbled' = garbled \cup (IF key THEN {} ELSE {outdated} \ {"no"})
    /\ UNCHANGED left

\* submit_bgra returns Ok(true).
Accepted(idr, resumes) == Shed(resumes) \/ Dropped(idr) \/ Encoded(idr)

\* It returns an error, from the setup or from the encoder, which had taken the
\* request over by then.
Fails(idr) ==
    /\ Happens
    /\ need' \in {FALSE, need \/ idr}
    /\ Lapsing /\ UNCHANGED garbled

NotSubmitted == UNCHANGED <<left, need, outdated, garbled>>

\* Nothing came in time: the IDR of the keystrokes, else one frame of the burst,
\* both from the last frame.
TimedOut ==
    /\ at = "bounded" /\ at' = "top"
    /\ UNCHANGED <<ready, minimised, sample, typed, resize, bitmap, last, first, armed, gate,
                   missing>>
    /\ LET submits == ready /\ last IN
       IF KeyboardIdr
       THEN \/ submits /\ Refreshed /\ flush' = 0 /\ Accepted(TRUE, FALSE)
            \/ submits /\ UNCHANGED <<keys, flush>> /\ Fails(TRUE)
            \/ ~submits /\ UNCHANGED <<keys, flush>> /\ NotSubmitted
       ELSE /\ flush' = IF flush > 0 THEN flush - 1 ELSE 0
            /\ UNCHANGED keys
            /\ IF flush > 0 /\ submits THEN Accepted(FALSE, FALSE) \/ Fails(FALSE)
               ELSE NotSubmitted

\* The rising edge of a large change, with hysteresis.
BigChange == armed /\ sample = "big"
Rearmed == IF BigChange THEN FALSE ELSE armed \/ sample = "little"

\* The IDR a sample is submitted with, for whatever reason.
WantsIdr == BigChange \/ was \/ KeyboardIdr

\* Whatever became of the frame, the requests count as served.
TakenByEncoder ==
    /\ seeded' = TRUE /\ first' = TRUE /\ last' = TRUE /\ flush' = FlushFrames
    /\ IF KeyboardIdr THEN Refreshed ELSE UNCHANGED keys
    /\ Accepted(WantsIdr, was)
    /\ UNCHANGED <<pending, resync, missing>>

\* Set by an overflow; the full frame that was asked for clears it.
ResyncAfter(overflow) == IF resync THEN FALSE ELSE overflow

\* The first frame, and the next after an overflow, is queued whole.
WantsWhole == ~seeded \/ resync

\* What split_strips makes of the full frame, or of dirty rectangles.
Strips(whole, n) == IF whole THEN FullStrips ELSE n

\* A scaled capture and a sample that names no rectangles need the full frame as well.
CutIntoStrips ==
    \E full \in BOOLEAN, n \in 1..MaxStrips :
       LET whole == full \/ WantsWhole
           strips == Strips(whole, n)
           overflow == strips > PendingLimit
       IN  /\ full => n = 1
           /\ pending' = IF overflow THEN 0 ELSE strips
           /\ resync' = ResyncAfter(overflow)
           /\ missing' = (overflow \/ (missing /\ ~whole))
           /\ seeded' = TRUE
           /\ UNCHANGED <<first, last, flush, keys>>

Receive ==
    /\ at \in {"bounded", "unbounded"} /\ sample # "none"
    /\ at' = "top" /\ sample' = "none"
    /\ IF sample = "idle"
       THEN UNCHANGED <<left, bitmap, video, was, keys, record>>
       ELSE /\ was' = FALSE /\ armed' = Rearmed
            /\ \/ ready /\ TakenByEncoder
               \/ ready /\ Fails(WantsIdr) /\ CutIntoStrips
               \/ ~ready /\ NotSubmitted /\ CutIntoStrips
    /\ UNCHANGED <<ready, minimised, typed, resize, since>>

StreamEnds ==
    /\ at \in {"bounded", "unbounded"} /\ at' = "ended"
    /\ UNCHANGED <<outside, bitmap, video, gate, keys, record>>
-------------------------------------------------------------------------------
Iterate == ReturnResize \/ ReturnPending \/ Pass \/ WakeUp \/ TimedOut \/ Receive

Next ==
    \/ Capture \/ RecordKeyboard \/ SuppressOutput \/ ResumeOutput \/ Request \/ Flip
    \/ Settles \/ SuppressLasts \/ DueComes \/ Stills \/ WindowEnds
    \/ Iterate \/ StreamEnds

Spec == Init /\ [][Next]_vars

\* The server asks for the next update whenever it has dispatched one, an await with
\* a timeout returns, and time passes.
FairSpec ==
    /\ Spec
    /\ WF_vars(Iterate) /\ WF_vars(DueComes) /\ WF_vars(Stills) /\ WF_vars(WindowEnds)
-------------------------------------------------------------------------------
(* Properties.                                                             *)

\* What an overflow of the bitmap queue threw away is owed as a full frame: through
\* every later sample, until one is queued whole.
LossIsRepainted == missing => resync

\* No frame of a burst begun before a pause, no refresh and no ordinary frame gets
\* ahead of the IDR that ends it, through drops, errors and channels that close, as
\* long as the request for it was not itself lost: shed at the event queue, or taken
\* over by an encoder that then failed.
PauseEndsInRequest == "yes" \notin garbled

\* "Force an IDR on the first frame after un-suppress" (next_update): the first frame
\* after the client was minimised is an IDR.
PauseEndsInKeyframe == garbled = {}

\* Together: neither encoder leaves the client with a picture it cannot repair.
PictureRecovers == LossIsRepainted /\ PauseEndsInRequest

\* Every keystroke the loop has seen gets its refresh, on a screen that has gone
\* still as well, when the H.264 path has a frame to repeat and the client looks.
\* The refresh is submitted; one that the event queue sheds has been used up with it,
\* and no other follows for that keystroke.
KeystrokesRefresh ==
    <>[](ready /\ last /\ ~minimised /\ at # "ended") => []<>(due = "none")
===============================================================================
