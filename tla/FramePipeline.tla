---------------------------- MODULE FramePipeline ----------------------------
(***************************************************************************)
(* The H.264 pipeline (h264.rs, videotoolbox.rs): captures are submitted   *)
(* to a VideoToolbox encoder, whose output one ship thread per encoder     *)
(* sends to the client's EGFX surface.                                     *)
(*                                                                         *)
(* Capture, the EGFX callbacks and the connection's life all run in the    *)
(* one task of the session, so each of their handlers is one step here;    *)
(* the encoder and the ship threads run beside it.  A ship thread outlives *)
(* its encoder until it has drained the channel, and reads the surface of  *)
(* whatever connection is current then.                                    *)
(***************************************************************************)
EXTENDS Integers, Sequences

CONSTANTS
    MaxInFlight,   \* max_in_flight
    MaxLag,        \* max_frame_lag
    MaxEncoders,   \* bound: encoders built
    MaxSurfaces,   \* bound: surfaces created
    MaxConns,      \* bound: connections
    MaxRemaps,     \* bound: blank-recovery remaps
    MaxFaults      \* bound: frames the encoder or its output loses

ASSUME BoundsAssumption ==
    /\ MaxInFlight \in Nat \ {0} /\ MaxLag \in Nat \ {0}
    /\ MaxEncoders \in Nat \ {0} /\ MaxSurfaces \in Nat \ {0}
    /\ MaxConns \in Nat /\ MaxRemaps \in Nat /\ MaxFaults \in Nat

Encoders == 1..MaxEncoders
Surfaces == 1..MaxSurfaces
None == 0

VARIABLES
    ctx,         \* ConnectionContext; conn is None when there is none
    onUdp,       \* egfx_on_udp, on the reliable tunnel
    demigrate,   \* demigrate_request, until the server takes it
    vt,          \* frames inside the current encoder: TRUE where an IDR is forced
    fresh,       \* it has delivered nothing yet, so what comes first is an IDR
    gap,         \* it has encoded a frame since then that was lost
    channel,     \* the output channel of each encoder
    batch,       \* the frames its ship thread is sending
    target,      \* the surface it read for them
    encoders, surfaces, remaps,   \* how many were made so far
    connOf,      \* the connection each encoder's thread counts for
    \* history
    chain,       \* for each surface the encoder whose last frame it can follow
    feeds,       \* the encoders whose frames each surface was sent
    unpaintable, \* surfaces that were sent a frame without its reference
    madeBy,      \* for each surface the encoder it was set up with, None if remapped
    owed,        \* an IDR was armed since the last one that went out
    lost,        \* frames of the current encoder that never come out
    stale,       \* frames that threads of former encoders counted as shipped
    faults       \* frames lost so far

encoding == <<vt, fresh, gap>>
shipping == <<channel, batch, target>>
made     == <<encoders, surfaces, remaps, connOf>>
painted  == <<chain, feeds, unpaintable, madeBy>>
ledger   == <<owed, lost, stale, faults>>
vars     == <<ctx, onUdp, demigrate, encoding, shipping, made, painted, ledger>>

-------------------------------------------------------------------------------
Frame == [key : BOOLEAN, gap : BOOLEAN]

Context == [conn : 0..MaxConns, ready : BOOLEAN, surface : {None} \cup Surfaces,
            encoder : {None} \cup Encoders, needKey : BOOLEAN, outstanding : Int,
            lag : 0..(MaxLag + 1), acksSeen : BOOLEAN, suspended : BOOLEAN,
            demigrated : BOOLEAN, trickle : BOOLEAN]

TypeOK ==
    /\ ctx \in Context
    /\ onUdp \in BOOLEAN /\ demigrate \in BOOLEAN
    /\ vt \in Seq(BOOLEAN) /\ fresh \in BOOLEAN /\ gap \in BOOLEAN
    /\ channel \in [Encoders -> Seq(Frame)] /\ batch \in [Encoders -> Seq(Frame)]
    /\ target \in [Encoders -> {None} \cup Surfaces]
    /\ encoders \in {None} \cup Encoders /\ surfaces \in {None} \cup Surfaces
    /\ remaps \in 0..MaxRemaps /\ connOf \in [Encoders -> 0..MaxConns]
    /\ chain \in [Surfaces -> {None} \cup Encoders]
    /\ feeds \in [Surfaces -> SUBSET Encoders]
    /\ unpaintable \subseteq Surfaces
    /\ madeBy \in [Surfaces -> {None} \cup Encoders]
    /\ owed \in BOOLEAN /\ lost \in Nat /\ stale \in Nat /\ faults \in 0..MaxFaults

\* submitted - shipped is kept as one number; the lag is shipped - acked.
FreshContext(conn) ==
    [conn |-> conn, ready |-> FALSE, surface |-> None, encoder |-> None,
     needKey |-> TRUE, outstanding |-> 0, lag |-> 0, acksSeen |-> FALSE,
     suspended |-> FALSE, demigrated |-> FALSE, trickle |-> TRUE]

Init ==
    /\ ctx = FreshContext(None) /\ onUdp = FALSE /\ demigrate = FALSE
    /\ vt = <<>> /\ fresh = FALSE /\ gap = FALSE
    /\ channel = [e \in Encoders |-> <<>>] /\ batch = [e \in Encoders |-> <<>>]
    /\ target = [e \in Encoders |-> None]
    /\ encoders = None /\ surfaces = None /\ remaps = 0
    /\ connOf = [e \in Encoders |-> None]
    /\ chain = [s \in Surfaces |-> None] /\ feeds = [s \in Surfaces |-> {}]
    /\ unpaintable = {} /\ madeBy = [s \in Surfaces |-> None]
    /\ owed = FALSE /\ lost = 0 /\ stale = 0 /\ faults = 0

\* Dropping an encoder invalidates its session: what is inside never comes out.
\* What it has already delivered stays in its channel.
DropEncoder ==
    vt' = <<>> /\ fresh' = FALSE /\ gap' = FALSE

-------------------------------------------------------------------------------
(* The life of a connection.                                               *)

\* The context of the connection before, its encoder included, is replaced.
BuildServerWithHandle ==
    /\ ctx.conn < MaxConns
    /\ ctx' = FreshContext(ctx.conn + 1)
    /\ onUdp' = FALSE /\ demigrate' = FALSE
    /\ DropEncoder
    /\ owed' = TRUE
    /\ UNCHANGED <<shipping, made, painted, lost, stale, faults>>

\* The bounds leave room for what the next capture sets up.
Room == encoders < MaxEncoders /\ surfaces < MaxSurfaces

\* The channel is up: the H.264 path runs if the client can decode it, else the
\* channel is declined.
OnReady(avc) ==
    /\ ctx.conn # None /\ ~ctx.ready
    /\ avc => Room
    /\ ctx' = IF avc THEN [ctx EXCEPT !.ready = TRUE, !.needKey = TRUE] ELSE ctx
    /\ owed' = (owed \/ avc)
    /\ UNCHANGED <<onUdp, demigrate, encoding, shipping, made, painted, lost, stale, faults>>

OnClose ==
    /\ ctx.conn # None /\ ctx.ready
    /\ ctx' = [ctx EXCEPT !.ready = FALSE, !.encoder = None, !.surface = None,
                          !.needKey = TRUE]
    /\ DropEncoder
    /\ owed' = TRUE
    /\ UNCHANGED <<onUdp, demigrate, shipping, made, painted, lost, stale, faults>>

ResetForLiveResize ==
    /\ ctx.conn # None
    /\ Room
    /\ ctx' = [ctx EXCEPT !.encoder = None, !.surface = None, !.needKey = TRUE]
    /\ DropEncoder
    /\ owed' = TRUE
    /\ UNCHANGED <<onUdp, demigrate, shipping, made, painted, lost, stale, faults>>

ForceKeyframe ==
    /\ ctx.conn # None
    /\ ctx' = [ctx EXCEPT !.needKey = TRUE]
    /\ owed' = TRUE
    /\ UNCHANGED <<onUdp, demigrate, encoding, shipping, made, painted, lost, stale, faults>>

\* The server routes EGFX over the tunnel, and back on request.
Migrate ==
    /\ ctx.ready /\ ~onUdp /\ ~ctx.demigrated
    /\ onUdp' = TRUE
    /\ UNCHANGED <<ctx, demigrate, encoding, shipping, made, painted, ledger>>

TakeDemigrate ==
    /\ demigrate
    /\ onUdp' = FALSE /\ demigrate' = FALSE
    /\ UNCHANGED <<ctx, encoding, shipping, made, painted, ledger>>

\* Both ways off the tunnel, once per connection: the lag gate must not drop the
\* IDR that repairs the client's reference.
Demigrated(c) == [c EXCEPT !.needKey = TRUE, !.lag = 0, !.demigrated = TRUE]

DemigrateOnResume ==
    /\ ctx.conn # None /\ onUdp /\ ~ctx.demigrated
    /\ ctx' = Demigrated(ctx)
    /\ demigrate' = TRUE
    /\ owed' = TRUE
    /\ UNCHANGED <<onUdp, encoding, shipping, made, painted, lost, stale, faults>>

OnFrameAck(lag) ==
    /\ ctx.conn # None /\ ctx.surface # None /\ lag <= ctx.lag
    /\ ctx' = [ctx EXCEPT !.lag = lag, !.acksSeen = TRUE, !.suspended = FALSE]
    /\ UNCHANGED <<onUdp, demigrate, encoding, shipping, made, painted, ledger>>

SuspendAcks ==
    /\ ctx.conn # None
    /\ ctx' = [ctx EXCEPT !.suspended = TRUE]
    /\ UNCHANGED <<onUdp, demigrate, encoding, shipping, made, painted, ledger>>

\* UDP_THROTTLE_FLOOR has passed since the last trickle frame.
TrickleDue ==
    /\ ~ctx.trickle
    /\ ctx' = [ctx EXCEPT !.trickle = TRUE]
    /\ UNCHANGED <<onUdp, demigrate, encoding, shipping, made, painted, ledger>>

-------------------------------------------------------------------------------
(* submit_bgra: one capture.                                               *)

\* Acks silent for the wedge timeout while frames go out over the tunnel.
MayDemigrate(c) == onUdp /\ ~c.demigrated /\ ~c.suspended

\* Mutant: the counts survive the encoder they count for.
KeptCounts(c) ==
    [c EXCEPT !.surface = IF @ = None THEN surfaces + 1 ELSE @,
              !.encoder = IF @ = None THEN encoders + 1 ELSE @]

\* What setup_locked makes of the context: surface and encoder where missing.
SetUp(c) ==
    [c EXCEPT !.surface = IF @ = None THEN surfaces + 1 ELSE @,
              !.encoder = IF @ = None THEN encoders + 1 ELSE @,
              !.outstanding = IF c.encoder = None THEN 0 ELSE @]

NeedsSurface == ctx.surface = None
NeedsEncoder == ctx.encoder = None

SetupLocked ==
    /\ NeedsSurface => surfaces < MaxSurfaces
    /\ NeedsEncoder => encoders < MaxEncoders
    /\ surfaces' = IF NeedsSurface THEN surfaces + 1 ELSE surfaces
    /\ encoders' = IF NeedsEncoder THEN encoders + 1 ELSE encoders
    /\ madeBy' = IF NeedsSurface THEN [madeBy EXCEPT ![surfaces + 1] = SetUp(ctx).encoder]
                 ELSE madeBy
    /\ fresh' = IF NeedsEncoder THEN TRUE ELSE fresh
    /\ gap' = IF NeedsEncoder THEN FALSE ELSE gap
    /\ connOf' = IF NeedsEncoder THEN [connOf EXCEPT ![encoders + 1] = ctx.conn] ELSE connOf
    /\ lost' = IF NeedsEncoder THEN 0 ELSE lost
    /\ stale' = IF NeedsEncoder THEN 0 ELSE stale
    /\ UNCHANGED <<chain, feeds, unpaintable>>

\* The throttles once the capture is prepared: it comes too early for the FPS stage
\* (any capture may, since its interval is counted from the last one let through), the
\* pipeline is full, or the client is too far behind on the tunnel and this is not its
\* trickle frame.
PipelineFull(c) == c.outstanding >= MaxInFlight
LagHigh(c) == onUdp /\ c.acksSeen /\ ~c.suspended /\ c.lag > MaxLag

Throttled(c, early) == early \/ PipelineFull(c) \/ (LagHigh(c) /\ ~c.trickle)

Inside == IF NeedsEncoder THEN <<>> ELSE vt

\* encode_bgra: what the encoder takes in, forced to an IDR or not.
Encode(c) ==
    /\ vt' = Append(Inside, c.needKey)
    /\ ctx' = [c EXCEPT !.needKey = FALSE, !.outstanding = @ + 1,
                        !.trickle = @ /\ ~LagHigh(c)]
    /\ UNCHANGED faults

\* Mutant: the throttled capture takes the armed IDR with it.
DropAndDisarm(c) == vt' = Inside /\ ctx' = [c EXCEPT !.needKey = FALSE] /\ UNCHANGED faults

\* The capture is dropped: an armed IDR waits for the next one.
Drop(c) == vt' = Inside /\ ctx' = c /\ UNCHANGED faults

\* The encoder refuses the frame: the IDR it should have become is forgotten.
EncodeFails(c) ==
    /\ faults < MaxFaults /\ faults' = faults + 1
    /\ vt' = Inside
    /\ ctx' = [c EXCEPT !.needKey = FALSE, !.trickle = @ /\ ~LagHigh(c)]

\* The context as it is when the throttles look at it.
Prepared(request, wedged) ==
    LET asked == [ctx EXCEPT !.needKey = @ \/ request]
    IN  SetUp(IF wedged THEN Demigrated(asked) ELSE asked)

\* With telemetry on, the depth of the event queue is measured; at its threshold the
\* capture is dropped before anything of it is looked at: a request for an IDR that
\* came with it is never armed, and leaves no trace.
EventQueueHigh == ctx.ready /\ UNCHANGED vars

SubmitBgra(request, wedged, early) ==
    LET c == Prepared(request, wedged) IN
    /\ ctx.ready
    /\ wedged => MayDemigrate(ctx)
    /\ SetupLocked
    /\ IF Throttled(c, early) THEN Drop(c) ELSE Encode(c) \/ EncodeFails(c)
    /\ demigrate' = (demigrate \/ wedged)
    /\ owed' = (owed \/ request \/ wedged)
    /\ UNCHANGED <<onUdp, shipping, remaps>>

\* Blank recovery by a remap: a new surface takes the place of the old one, which
\* stays, and this capture is dropped.
BlankRemap ==
    /\ ctx.ready /\ ~NeedsSurface /\ ~NeedsEncoder
    /\ surfaces < MaxSurfaces /\ remaps < MaxRemaps
    /\ surfaces' = surfaces + 1 /\ remaps' = remaps + 1
    /\ ctx' = [ctx EXCEPT !.surface = surfaces + 1, !.needKey = TRUE]
    /\ owed' = TRUE
    /\ UNCHANGED <<onUdp, demigrate, encoding, shipping, encoders, connOf, painted, lost, stale, faults>>

-------------------------------------------------------------------------------
(* VideoToolbox, and the ship threads.                                     *)

\* output_callback delivers the oldest frame: an IDR when it is the first, when
\* it was forced, or when the interval says so.
Deliver(periodic) ==
    /\ vt # <<>>
    /\ channel' = [channel EXCEPT ![ctx.encoder] =
                     Append(@, [key |-> Head(vt) \/ fresh \/ periodic, gap |-> gap])]
    /\ vt' = Tail(vt) /\ fresh' = FALSE /\ gap' = FALSE
    /\ UNCHANGED <<ctx, onUdp, demigrate, batch, target, made, painted, ledger>>

\* The encoder drops the frame (encoded = FALSE), or the callback cannot read
\* what it encoded: either way nothing comes out and nobody is told.
LoseFrame(encoded) ==
    /\ vt # <<>> /\ faults < MaxFaults
    /\ vt' = Tail(vt)
    /\ fresh' = (fresh /\ ~encoded) /\ gap' = (gap \/ encoded)
    /\ lost' = lost + 1 /\ faults' = faults + 1
    /\ UNCHANGED <<ctx, onUdp, demigrate, shipping, made, painted, owed, stale>>

\* A ship thread takes all that is in its channel, then reads the surface from
\* the context of the moment.
ShipTake(e) ==
    /\ batch[e] = <<>> /\ channel[e] # <<>>
    /\ batch' = [batch EXCEPT ![e] = channel[e]]
    /\ channel' = [channel EXCEPT ![e] = <<>>]
    /\ target' = [target EXCEPT ![e] = ctx.surface]
    /\ UNCHANGED <<ctx, onUdp, demigrate, encoding, made, painted, ledger>>

\* The surface of the current context, or one a remap of it left behind.
Exists(s) ==
    /\ s # None /\ s <= ctx.surface
    /\ \A later \in (s + 1)..ctx.surface : madeBy[later] = None

\* Whether the client can decode the frames fs of e after what chain says.
Follows(e, s, fs) == fs[1].key \/ (chain[s] = e /\ ~fs[1].gap)
Unbroken(fs) == \A i \in 2..Len(fs) : fs[i].key \/ ~fs[i].gap

\* The lag, told apart up to one beyond the gate.
Further(lag, n) == IF lag + n <= MaxLag THEN lag + n ELSE MaxLag + 1

\* max_frames_in_flight is unlimited: nothing is dropped once it is encoded.
Forwarded(lag) == TRUE

\* ship_loop counts a frame as shipped whether ship_frames sent it or failed.
Counted(e, sent) == Len(batch[e])

ShipFrames(e) ==
    LET s == target[e]
        sent == Exists(s) /\ Forwarded(ctx.lag)
        hasKey == \E i \in DOMAIN batch[e] : batch[e][i].key
    IN
    /\ batch[e] # <<>>
    /\ IF sent
       THEN /\ chain' = [chain EXCEPT ![s] = e]
            /\ feeds' = [feeds EXCEPT ![s] = @ \cup {e}]
            /\ unpaintable' = IF Follows(e, s, batch[e]) /\ Unbroken(batch[e])
                              THEN unpaintable ELSE unpaintable \cup {s}
            /\ owed' = (owed /\ ~(e = ctx.encoder /\ s = ctx.surface /\ hasKey))
       ELSE /\ chain' = IF Exists(s) THEN [chain EXCEPT ![s] = None] ELSE chain
            /\ UNCHANGED <<feeds, unpaintable, owed>>
    /\ IF connOf[e] = ctx.conn
       THEN /\ ctx' = [ctx EXCEPT !.outstanding = @ - Counted(e, sent),
                                  !.lag = IF sent THEN Further(@, Len(batch[e])) ELSE @]
            /\ stale' = IF e = ctx.encoder THEN stale ELSE stale + Counted(e, sent)
       ELSE UNCHANGED <<ctx, stale>>
    /\ batch' = [batch EXCEPT ![e] = <<>>] /\ target' = [target EXCEPT ![e] = None]
    /\ UNCHANGED <<onUdp, demigrate, encoding, channel, made, madeBy, lost, faults>>

-------------------------------------------------------------------------------
\* A capture passes the event queue and comes late enough for the FPS stage; or it is
\* any capture.
Admitted == \E request, wedged \in BOOLEAN : SubmitBgra(request, wedged, FALSE)
Submit == EventQueueHigh \/ \E request, wedged, early \in BOOLEAN : SubmitBgra(request, wedged, early)
Encoder == (\E periodic \in BOOLEAN : Deliver(periodic)) \/ (\E encoded \in BOOLEAN : LoseFrame(encoded))

Next ==
    \/ BuildServerWithHandle \/ (\E avc \in BOOLEAN : OnReady(avc)) \/ OnClose
    \/ ResetForLiveResize \/ ForceKeyframe \/ Migrate \/ TakeDemigrate
    \/ DemigrateOnResume \/ (\E lag \in 0..MaxLag : OnFrameAck(lag)) \/ SuspendAcks
    \/ TrickleDue \/ Submit \/ BlankRemap \/ Encoder
    \/ \E e \in Encoders : ShipTake(e) \/ ShipFrames(e)

Spec == Init /\ [][Next]_vars

\* Captures keep coming, the event queue is drained and the FPS interval passes, the
\* clock runs, the encoder and the ship threads work.
FairSpec ==
    /\ Spec
    /\ WF_vars(Admitted) /\ WF_vars(TrickleDue) /\ WF_vars(TakeDemigrate)
    /\ WF_vars(\E periodic \in BOOLEAN : Deliver(periodic))
    /\ \A e \in Encoders : WF_vars(ShipTake(e)) /\ WF_vars(ShipFrames(e))

-------------------------------------------------------------------------------
(* Properties.                                                             *)

Held(e) == Len(channel[e]) + Len(batch[e])

\* The drop-to-latest throttle counts what is under way: submitted - shipped is
\* the number of frames in the encoder, its channel and its thread, more by those
\* that never come out, and less by those the threads of former encoders of this
\* connection went on to count.
Ledger ==
    ctx.encoder # None =>
        ctx.outstanding = Len(vt) + Held(ctx.encoder) + lost - stale

KeyIn(fs) == \E i \in DOMAIN fs : fs[i].key

\* Whatever armed an IDR - a connection, a resize, a remap, the watchdog, a large
\* change, the user - it is still armed or on its way to the current surface,
\* through the three throttles after the arming, every rebuild and change of
\* surface: only a frame lost in the encoder can lose it.  (The throttle before the
\* arming does lose requests: EventQueueHigh.)
KeyframeUnderWay ==
    owed /\ faults = 0 =>
        \/ ctx.needKey
        \/ (\E i \in DOMAIN vt : vt[i]) \/ (fresh /\ vt # <<>>)
        \/ KeyIn(channel[ctx.encoder])
        \/ (target[ctx.encoder] = ctx.surface /\ KeyIn(batch[ctx.encoder]))

\* A surface set up with an encoder and fed by nothing else is sent an IDR first,
\* and then no frame whose reference it was not sent.
Paintable ==
    \A s \in unpaintable : \/ madeBy[s] = None
                            \/ feeds[s] # {madeBy[s]}
                            \/ faults > 0

\* Together: no IDR is forgotten, and no surface is shown what it cannot paint.
KeyframesHold == KeyframeUnderWay /\ Paintable

\* An IDR that is armed goes out, whether the client acknowledges or not: no throttle
\* keeps it back for ever, however the FPS stage, the trickle's floor and a full
\* pipeline fall together.
KeyframeGoesOut ==
    owed /\ ctx.ready ~> ~owed \/ ~ctx.ready \/ faults > 0

===============================================================================
