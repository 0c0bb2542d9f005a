------------------------------ MODULE LiveResize ------------------------------
(***************************************************************************)
(* Resizing a live session.  A client that drags its window sends monitor  *)
(* layouts; each is handed to a blocking-pool thread that records it in    *)
(* PendingResize, two atomics the capture loop polls until the drag has    *)
(* settled.  The capture loop then changes the session size and emits a    *)
(* Resize, client_loop deactivates the client, and accept_finalize runs    *)
(* the acceptor again for a Demand Active of the new size.  Five places    *)
(* hold a size: the shared desktop_size, the Demand Active the client was  *)
(* given, the update encoder, the capture stream and the EGFX surface.     *)
(*                                                                         *)
(* Pixels, the client's capabilities other than its desktop size, and the  *)
(* PDUs of the handshake are left out; so is the experimental reactivation *)
(* that blank recovery requests.                                           *)
(***************************************************************************)
EXTENDS Naturals

CONSTANTS
    Sizes,          \* desktop sizes within the band of the protocol
    NoSize,
    MaxLayouts,     \* bound: monitor layouts sent
    MaxSessions     \* bound: connections served

ASSUME SizesAssumption == NoSize \notin Sizes
ASSUME BoundsAssumption == MaxLayouts \in Nat /\ MaxSessions \in Nat

VARIABLES
    args,       \* command line: auto (auto_size), vd (a virtual display)
    desktop,    \* SharedDesktopSize
    armed,      \* suppress_next_adopt
    size,       \* PendingResizeInner.size
    stamp,      \* PendingResizeInner.last_update_ms; 0 = no request
    quiet,      \* RESIZE_DEBOUNCE has passed since stamp
    mode,       \* the virtual display's own size
    phase,      \* of the connection: none, handshake, accepted or live
    fresh,      \* the handshake is the connection's first
    demanded,   \* size in the Demand Active
    encoder,    \* size of the update encoder
    stream,     \* size of the capture stream
    surface,    \* size of the EGFX surface
    capture,    \* the capture loop: off, poll, loaded, won or emitted
    taken,      \* last_ms in take_settled
    probe,      \* size a candidate's acceptor was built with
    tasks,      \* layouts waiting for a blocking-pool thread
    running,    \* the task that holds the display lock, its progress in pc
    layouts, sessions, stamps,   \* counters
    recorded,   \* history: size of the last request PendingResize was given
    slack       \* history: what this activation inherited that may set its
                \* sizes apart: a stale armed, a stale probe, a failed re-mode

process == <<desktop, armed, mode>>
pending == <<size, stamp, quiet, stamps, recorded>>
connection == <<phase, fresh, demanded, encoder, stream, surface, slack>>
loop == <<capture, taken>>
threads == <<tasks, running>>
vars == <<args, process, pending, connection, loop, threads, probe, layouts, sessions>>

Task == [id : 1..MaxLayouts, size : Sizes]
Idle == [pc |-> "idle", size |-> NoSize]
Slack == {"armed", "probe", "remode"}

TypeOK ==
    /\ args \in [auto : BOOLEAN, vd : BOOLEAN]
    /\ desktop \in Sizes /\ mode \in Sizes
    /\ armed \in BOOLEAN /\ quiet \in BOOLEAN /\ fresh \in BOOLEAN
    /\ size \in Sizes \cup {NoSize} /\ recorded \in Sizes \cup {NoSize}
    /\ stamp \in 0..stamps /\ taken \in 0..stamps /\ stamps \in Nat
    /\ phase \in {"none", "handshake", "accepted", "live"}
    /\ {demanded, encoder, stream, surface, probe} \subseteq Sizes \cup {NoSize}
    /\ capture \in {"off", "poll", "loaded", "won", "emitted"}
    /\ tasks \subseteq Task
    /\ running \in [pc : {"idle", "size", "stamp"}, size : Sizes \cup {NoSize}]
    /\ layouts \in 0..MaxLayouts /\ sessions \in 0..MaxSessions
    /\ slack \subseteq Slack

Init ==
    /\ args \in [auto : BOOLEAN, vd : BOOLEAN]
    /\ desktop \in Sizes /\ mode = desktop /\ armed = FALSE
    /\ size = NoSize /\ stamp = 0 /\ quiet = FALSE /\ stamps = 0 /\ recorded = NoSize
    /\ phase = "none" /\ fresh = TRUE /\ slack = {}
    /\ demanded = NoSize /\ encoder = NoSize /\ stream = NoSize /\ surface = NoSize
    /\ capture = "off" /\ taken = 0
    /\ tasks = {} /\ running = Idle
    /\ probe = NoSize /\ layouts = 0 /\ sessions = 0

\* Nobody holds the mutex around the RdpServerDisplay.
DisplayUnlocked == running = Idle

-------------------------------------------------------------------------------
(* The connection *)

\* A connection whose acceptor was built with the size given reaches Demand
\* Active: with auto_size the acceptor honours what the client wishes for.
Begin(wish, given) ==
    /\ phase = "none" /\ sessions < MaxSessions
    /\ sessions' = sessions + 1
    /\ phase' = "handshake" /\ fresh' = TRUE
    /\ demanded' = IF args.auto THEN wish ELSE given
    /\ slack' = IF given # desktop THEN {"probe"} ELSE {}
    /\ UNCHANGED <<args, process, pending, encoder, stream, surface, loop, threads, layouts>>

\* RdpServer::run serves a connection it accepted while nothing was served.
Connect(wish) == DisplayUnlocked /\ Begin(wish, desktop) /\ UNCHANGED probe

\* negotiate_candidate builds the acceptor of a candidate while a session runs.
ProbeStarts ==
    /\ phase # "none" /\ probe = NoSize /\ sessions < MaxSessions /\ DisplayUnlocked
    /\ probe' = desktop
    /\ UNCHANGED <<args, process, pending, connection, loop, threads, layouts, sessions>>

\* The candidate is served when the session before it has ended, or it is gone.
ServeCandidate(wish) == probe # NoSize /\ Begin(wish, probe) /\ probe' = NoSize

CandidateGone ==
    /\ probe # NoSize /\ probe' = NoSize
    /\ UNCHANGED <<args, process, pending, connection, loop, threads, layouts, sessions>>

\* adopt_client_size: the size to change to is the client's, if there is one.
Adopts(enabled, current, client) == enabled /\ client # current

\* client_accepted: the client's Confirm Active names a size (after a
\* reactivation any size), request_initial_size adopts it unless the capture
\* loop armed the flag, and the encoder is built for the size that results.
Activate(echo) ==
    /\ phase = "handshake" /\ DisplayUnlocked
    /\ fresh => echo = demanded
    /\ desktop' = IF ~armed /\ Adopts(args.auto, desktop, echo) THEN echo ELSE desktop
    /\ armed' = FALSE
    /\ encoder' = desktop'
    /\ phase' = "accepted"
    /\ slack' = IF fresh /\ armed THEN slack \cup {"armed"} ELSE slack
    /\ UNCHANGED <<args, mode, pending, fresh, demanded, stream, surface, loop, threads,
                   probe, layouts, sessions>>

\* client_loop: updates() re-modes the virtual display and starts a capture
\* stream; a re-mode that fails puts the display's size back into desktop_size.
StartStream(remoded) ==
    /\ phase = "accepted" /\ DisplayUnlocked
    /\ ~remoded => args.vd /\ mode # desktop
    /\ desktop' = IF remoded THEN desktop ELSE mode
    /\ mode' = IF args.vd THEN desktop' ELSE mode
    /\ slack' = IF remoded THEN slack ELSE slack \cup {"remode"}
    /\ stream' = desktop'
    /\ phase' = "live" /\ capture' = "poll"
    /\ UNCHANGED <<args, armed, pending, fresh, demanded, encoder, surface, taken, threads,
                   probe, layouts, sessions>>

\* The connection ends wherever a future of it can be dropped; the flag, the
\* pending request and the queued layouts are the process's and stay.
SessionEnds ==
    /\ phase # "none" /\ capture \notin {"loaded", "won"}
    /\ phase' = "none" /\ capture' = "off"
    /\ demanded' = NoSize /\ encoder' = NoSize /\ stream' = NoSize /\ surface' = NoSize
    /\ slack' = {} /\ fresh' = TRUE
    /\ UNCHANGED <<args, process, pending, taken, threads, probe, layouts, sessions>>

-------------------------------------------------------------------------------
(* Monitor layouts *)

\* DisplayControlBackend::monitor_layout spawns a blocking task.
Layout(s) ==
    /\ phase = "live" /\ layouts < MaxLayouts
    /\ layouts' = layouts + 1
    /\ tasks' = tasks \cup {[id |-> layouts', size |-> s]}
    /\ UNCHANGED <<args, process, pending, connection, loop, running, probe, sessions>>

\* request_layout, first part: the task takes the display lock and returns at
\* once when the session cannot be resized or already has that size.
TaskStarts(t) ==
    /\ t \in tasks /\ DisplayUnlocked
    /\ tasks' = tasks \ {t}
    /\ running' = IF Adopts(args.auto \/ args.vd, desktop, t.size)
                  THEN [pc |-> "size", size |-> t.size] ELSE Idle
    /\ UNCHANGED <<args, process, pending, connection, loop, probe, layouts, sessions>>

\* PendingResize::request: the size first ...
TaskStoresSize ==
    /\ running.pc = "size"
    /\ size' = running.size
    /\ running' = [running EXCEPT !.pc = "stamp"]
    /\ UNCHANGED <<args, process, stamp, quiet, stamps, recorded, connection, loop, tasks,
                   probe, layouts, sessions>>

\* ... then the time, which supersedes a request not yet settled.
TaskStamps ==
    /\ running.pc = "stamp"
    /\ stamps' = stamps + 1 /\ stamp' = stamps' /\ quiet' = FALSE
    /\ recorded' = running.size
    /\ running' = Idle
    /\ UNCHANGED <<args, process, size, connection, loop, tasks, probe, layouts, sessions>>

\* RESIZE_DEBOUNCE goes by.
Settle ==
    /\ stamp # 0 /\ ~quiet
    /\ quiet' = TRUE
    /\ UNCHANGED <<args, process, size, stamp, stamps, recorded, connection, loop, threads,
                   probe, layouts, sessions>>

-------------------------------------------------------------------------------
(* The capture loop: next_update *)

\* A frame: submit_bgra makes the surface of a connection that has none.
Frame ==
    /\ phase = "live" /\ capture = "poll" /\ surface = NoSize
    /\ surface' = desktop
    /\ UNCHANGED <<args, process, pending, phase, fresh, demanded, encoder, stream, slack,
                   loop, threads, probe, layouts, sessions>>

\* Mutant: no request is taken for one made at time 0.
CaptureLoadsAlways ==
    /\ phase = "live" /\ capture = "poll" /\ (stamp = 0 \/ quiet)
    /\ taken' = stamp /\ capture' = "loaded"
    /\ UNCHANGED <<args, process, pending, connection, threads, probe, layouts, sessions>>

\* Mutant: requests are looked at only once EGFX has a surface.
CaptureLoadsWithSurface ==
    /\ phase = "live" /\ capture = "poll" /\ stamp # 0 /\ quiet /\ surface # NoSize
    /\ taken' = stamp /\ capture' = "loaded"
    /\ UNCHANGED <<args, process, pending, connection, threads, probe, layouts, sessions>>

\* take_settled loads the time of the request ...
CaptureLoads ==
    /\ phase = "live" /\ capture = "poll" /\ stamp # 0 /\ quiet
    /\ taken' = stamp /\ capture' = "loaded"
    /\ UNCHANGED <<args, process, pending, connection, threads, probe, layouts, sessions>>

\* Mutant: a store in place of the compare-exchange.
CaptureStores ==
    /\ capture = "loaded"
    /\ stamp' = 0 /\ quiet' = FALSE /\ capture' = "won"
    /\ UNCHANGED <<args, process, size, stamps, recorded, connection, taken, threads, probe,
                   layouts, sessions>>

\* ... consumes the request unless a newer one came meanwhile ...
CaptureSwaps ==
    /\ capture = "loaded"
    /\ IF stamp = taken
       THEN stamp' = 0 /\ quiet' = FALSE /\ capture' = "won"
       ELSE capture' = "poll" /\ UNCHANGED <<stamp, quiet>>
    /\ UNCHANGED <<args, process, size, stamps, recorded, connection, taken, threads, probe,
                   layouts, sessions>>

\* ... and loads the size, which next_update makes the session's: it arms the
\* flag, drops the surface (reset_for_live_resize) and returns a Resize.
CaptureApplies ==
    /\ capture = "won"
    /\ desktop' = size /\ armed' = TRUE /\ surface' = NoSize
    /\ capture' = "emitted"
    /\ UNCHANGED <<args, mode, pending, phase, fresh, demanded, encoder, stream, slack, taken,
                   threads, probe, layouts, sessions>>

\* dispatch_display_update writes Deactivate All, client_loop returns and
\* accept_finalize starts a reactivation with the size of the Resize.
Deactivate ==
    /\ capture = "emitted"
    /\ phase' = "handshake" /\ fresh' = FALSE /\ capture' = "off"
    /\ demanded' = desktop /\ encoder' = NoSize /\ stream' = NoSize /\ slack' = {}
    /\ UNCHANGED <<args, process, pending, surface, taken, threads, probe, layouts, sessions>>

-------------------------------------------------------------------------------
Next ==
    \/ \E s \in Sizes : Connect(s) \/ ServeCandidate(s) \/ Activate(s) \/ Layout(s)
    \/ \E ok \in BOOLEAN : StartStream(ok)
    \/ ProbeStarts \/ CandidateGone \/ SessionEnds
    \/ \E t \in tasks : TaskStarts(t)
    \/ TaskStoresSize \/ TaskStamps \/ Settle
    \/ Frame \/ CaptureLoads \/ CaptureSwaps \/ CaptureApplies \/ Deactivate

Spec == Init /\ [][Next]_vars

\* Time passes, and the capture loop wakes up at least once per frame interval
\* while a request is outstanding (has_pending) and runs to its next await.
Fairness ==
    /\ WF_vars(Settle)
    /\ WF_vars(CaptureLoads) /\ WF_vars(CaptureSwaps) /\ WF_vars(CaptureApplies)

FairSpec == Spec /\ Fairness

-------------------------------------------------------------------------------
(* Properties *)

\* In a session that inherited nothing stale, the client was told, and the
\* encoder and the capture stream were built for, the size the session has:
\* also after the client confirmed a reactivation with some other size.
SizesAgree ==
    phase = "live" /\ slack = {} /\ capture # "emitted"
        => demanded = desktop /\ encoder = desktop /\ stream = desktop

\* Frames are captured at the size of the surface they are encoded for.
FramesFitSurface == surface # NoSize => stream = surface

\* A session is never served with the flag up that makes request_initial_size
\* skip a client's size, except between a Resize and its reactivation.
ArmedForOwnResize == armed /\ phase \in {"accepted", "live"} => capture = "emitted"

\* The size a settled request resolves to is that of the request recorded
\* last, although size and time are two atomics that threads interleave on.
PendingIsLatest ==
    (stamp # 0 \/ capture = "won") /\ running.pc # "stamp" => size = recorded

\* A request is consumed only after RESIZE_DEBOUNCE without a newer one, also
\* when the newer one is recorded between the two looks take_settled takes.
DebounceHolds == [][stamp # 0 /\ stamp' = 0 => quiet]_vars

\* Together: what a resize may do to the sizes of a session, and when.
ResizesAreSound ==
    /\ [](SizesAgree /\ FramesFitSurface /\ ArmedForOwnResize /\ PendingIsLatest)
    /\ DebounceHolds

\* While frames are served, a recorded request is consumed or superseded, or
\* waits for the Resize of the one before it.
RequestsAreServed ==
    \A n \in 1..MaxLayouts :
        (phase = "live" /\ stamp = n)
            ~> (stamp # n \/ phase # "live" \/ capture = "emitted")

===============================================================================
