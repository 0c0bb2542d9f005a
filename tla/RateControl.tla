----------------------------- MODULE RateControl -----------------------------
(***************************************************************************)
(* The adaptive controller of the H.264 path (h264.rs): from the client's  *)
(* frame acknowledgements it estimates the queue that stands in the link,  *)
(* and sheds frame rate, bit rate and periodic IDRs to keep it short.      *)
(*                                                                         *)
(* Rates are counted in levels, the smoothed queue delay in the zones the  *)
(* thresholds cut it into; a sample may move it to any zone.  The D terms, *)
(* 0 by default, are left out.                                             *)
(***************************************************************************)
EXTENDS Integers

CONSTANTS
    Ceiling,   \* bitrate_bps; the floor is level 1
    Seed,      \* the level a slow link starts at
    MinFps, Fps,   \* adaptive_pid_min_fps, fps
    SeedFps,   \* the share of Fps that Seed is of Ceiling
    KP, KI,    \* gains of the bit rate's controller
    FKP, FKI,  \* gains of the frame rate's
    Windup,    \* the limit of both integrals
    MaxConns, MaxFailures   \* bounds: connections, encoder settings that fail

\* Zones of the smoothed delay: headroom, within the deadband around the target
\* (at or below the low mark, above it), overload (up to the high mark, above it).
Headroom == 0
Quiet    == 1
Uneasy   == 2
Overload == 3
Flooded  == 4
Zones == Headroom..Flooded

VARIABLES
    rate,      \* ConnectionContext: the controller's part of it
    encoder,   \* what VideoToolbox was told, or NoEncoder
    tunnelled, \* egfx_on_udp
    conns, failures

vars == <<rate, encoder, tunnelled, conns, failures>>

\* late is a history: built while the IDRs were held back, and not told so since.
NoEncoder == [bitrate |-> 0, stretched |-> FALSE, late |-> FALSE]
-------------------------------------------------------------------------------
TypeOK ==
    /\ rate \in [target : 1..Ceiling, fps : 0..Fps, integral : -Windup..Windup,
                 fpsIntegral : -Windup..Windup, ewma : Zones, congested : BOOLEAN,
                 backedOff : BOOLEAN, wasOnUdp : BOOLEAN, needKey : BOOLEAN]
    /\ encoder \in [bitrate : 0..Ceiling, stretched : BOOLEAN, late : BOOLEAN]
    /\ tunnelled \in BOOLEAN /\ conns \in 1..MaxConns /\ failures \in 0..MaxFailures

Clamp(x, low, high) == IF x < low THEN low ELSE IF x > high THEN high ELSE x

\* A new connection: the target is seeded by the link's round trip, and the frame
\* rate with it.
Fresh(slow) ==
    [target |-> IF slow THEN Seed ELSE Ceiling, fps |-> IF slow THEN SeedFps ELSE Fps,
     integral |-> 0, fpsIntegral |-> 0, ewma |-> Headroom, congested |-> FALSE,
     backedOff |-> FALSE, wasOnUdp |-> FALSE, needKey |-> TRUE]

Init ==
    /\ rate \in {Fresh(slow) : slow \in BOOLEAN}
    /\ encoder = NoEncoder
    /\ tunnelled = FALSE /\ conns = 1 /\ failures = 0

BuildServer ==
    /\ conns < MaxConns /\ conns' = conns + 1
    /\ \E slow \in BOOLEAN : rate' = Fresh(slow)
    /\ encoder' = NoEncoder /\ tunnelled' = FALSE
    /\ UNCHANGED failures

\* The server moves EGFX onto the tunnel and back.
Reroute ==
    /\ tunnelled' = ~tunnelled
    /\ UNCHANGED <<rate, encoder, conns, failures>>

\* A live resize, or the channel closing: the controller's state stays.
DropEncoder ==
    /\ encoder # NoEncoder
    /\ encoder' = NoEncoder
    /\ rate' = [rate EXCEPT !.needKey = TRUE]
    /\ UNCHANGED <<tunnelled, conns, failures>>

\* The next capture builds one, at the target of the moment, and always with the
\* configured keyframe interval.
NewEncoder(r) == [bitrate |-> r.target, stretched |-> FALSE, late |-> r.backedOff]

Current == IF encoder = NoEncoder THEN NewEncoder(rate) ELSE encoder
-------------------------------------------------------------------------------
(* adaptive_bitrate_step.                                                  *)

\* The error: positive means a queue above the target.
Error(zone) == CASE zone = Headroom -> -1
                 [] zone \in {Quiet, Uneasy} -> 0
                 [] zone = Overload -> 1
                 [] zone = Flooded -> 2

\* EGFX left the tunnel: back to the full rate, and nothing learnt there stays.
LeftTunnel == rate.wasOnUdp /\ ~tunnelled

Restored(r) ==
    [r EXCEPT !.target = Ceiling, !.backedOff = FALSE, !.congested = FALSE,
              !.ewma = Headroom, !.integral = 0, !.fpsIntegral = 0]

\* congested_hysteresis: entered above the high mark, left below the low one.
Congested(r, usable, lossy) ==
    \/ lossy
    \/ usable /\ r.ewma > (IF r.congested THEN Quiet ELSE Overload)

\* Mutant: the frame rate is only ever raised.
RunFpsOnRecovery(r) == Error(r.ewma) < 0 /\ r.target >= Ceiling

\* rate_pid_actuators: one of them at a time.  Under congestion the frame rate goes
\* first, on recovery the bit rate does.
\* (On recovery the code also asks fps < 60; the step below clamps to Fps.)
RunFps(r) == RunFpsOnRecovery(r) \/ (Error(r.ewma) > 0 /\ r.fps > MinFps)

RunBitrate(r) ==
    \/ Error(r.ewma) > 0 /\ r.fps <= MinFps
    \/ Error(r.ewma) < 0 /\ r.target < Ceiling

Integrated(integral, e) == Clamp(integral + e, -Windup, Windup)

\* pid_bitrate_step: the controller's output is added to the target.
PidBitrate(r, usable) ==
    LET e == Error(r.ewma)
        candidate == Integrated(r.integral, e)
        next == Clamp(r.target + KP * e + KI * candidate, 1, Ceiling)
        outward == (next = Ceiling /\ e < 0) \/ (next = 1 /\ e > 0)
    IN  IF ~RunBitrate(r) THEN [r EXCEPT !.integral = 0]
        ELSE IF ~usable THEN r
        ELSE [r EXCEPT !.target = next, !.integral = IF outward THEN @ ELSE candidate]

\* The frame rate's controller: its output is subtracted, and it does not ask
\* whether the signal is usable.
PidFps(r, runs) ==
    LET e == Error(r.ewma)
        candidate == Integrated(r.fpsIntegral, e)
        next == Clamp(r.fps - FKP * e - FKI * candidate, MinFps, Fps)
        outward == (next = Fps /\ e < 0) \/ (next = MinFps /\ e > 0)
    IN  IF ~runs THEN r
        ELSE [r EXCEPT !.fps = next, !.fpsIntegral = IF outward THEN @ ELSE candidate]

\* idr_backoff_decision.
Backoff(r) ==
    IF r.congested /\ ~r.backedOff THEN [r EXCEPT !.backedOff = TRUE]
    ELSE IF ~r.congested /\ r.target >= Ceiling /\ r.backedOff
         THEN [r EXCEPT !.backedOff = FALSE, !.needKey = TRUE]
    ELSE r

\* One interval folds the sample in and decides on congestion, then one of the
\* controllers runs, then the IDRs follow.
Judged(r, sample, usable, lossy) ==
    LET folded == [r EXCEPT !.ewma = IF usable THEN sample ELSE @]
    IN  [folded EXCEPT !.congested = Congested(folded, usable, lossy)]

NewBitrate(r, after) == r.target # after.target

\* Mutant: a keyframe interval is set only beside a bit rate.
IntervalWithBitrate(r, after) == r.backedOff # after.backedOff /\ NewBitrate(r, after)

NewInterval(r, after) == r.backedOff # after.backedOff

\* The actions asked of the encoder are those that changed.
Told(enc, r, after, failed) ==
    [bitrate |-> IF NewBitrate(r, after) /\ ~failed THEN after.target ELSE enc.bitrate,
     stretched |-> IF NewInterval(r, after) /\ ~failed THEN after.backedOff
                   ELSE enc.stretched,
     late |-> enc.late /\ after.backedOff]

Tuned ==
    [(IF LeftTunnel THEN Restored(rate) ELSE rate)
        EXCEPT !.wasOnUdp = tunnelled, !.needKey = FALSE]

\* A setting was restored: the next interval starts anew.
Skip == LeftTunnel /\ (Tuned.target # rate.target \/ Tuned.backedOff # rate.backedOff)

Settle(after, failed) ==
    /\ rate' = after
    /\ encoder' = Told(Current, rate, after, failed)
    /\ failed => failures < MaxFailures
    /\ failures' = IF failed THEN failures + 1 ELSE failures
    /\ UNCHANGED <<tunnelled, conns>>

Control(sample, usable, lossy, failed) ==
    \E judged \in {Judged(Tuned, sample, usable, lossy)} :
    \E rated \in {PidBitrate(judged, usable)} :
    \E paced \in {PidFps(rated, RunFps(judged))} :
        Settle(Backoff(paced), failed)

\* An admitted capture whose interval has passed, with a usable sample of the
\* delay or none.
Interval ==
    ~Skip /\ \E failed \in BOOLEAN :
        \/ Control(rate.ewma, FALSE, FALSE, failed)
        \/ \E sample \in Zones, lossy \in BOOLEAN : Control(sample, TRUE, lossy, failed)

\* One inside its interval.
Capture == \E failed \in BOOLEAN : Settle(Tuned, failed)

Next ==
    \/ BuildServer \/ Reroute \/ DropEncoder
    \/ Interval \/ Capture

Spec == Init /\ [][Next]_vars

\* Captures and intervals keep coming.
FairSpec == Spec /\ WF_vars(Interval) /\ WF_vars(Capture)
-------------------------------------------------------------------------------
(* Properties.                                                             *)

\* VideoToolbox runs at the controller's bit rate, and holds back the periodic IDRs
\* exactly while the controller means it to, but for one drift the code has: an
\* encoder rebuilt during a congestion keeps the short interval to its end, since
\* idr_backoff_decision stretches on entry only.  Through changes of transport, of
\* connection and of size, unless VideoToolbox refused a setting.
EncoderFollows ==
    encoder # NoEncoder /\ failures = 0 =>
        /\ encoder.bitrate = rate.target
        /\ encoder.stretched = (rate.backedOff /\ ~encoder.late)

\* The controller means to from the first congested interval on, also right after the
\* transport or the connection changed.
CongestedBacksOff == rate.congested => rate.backedOff

\* Together: an encoder is told what its link needs; on a congested link only one
\* built in that congestion sends periodic IDRs.
EncoderFits == EncoderFollows /\ CongestedBacksOff

\* A lasting overload sheds frame rate down to the floor.
OverloadShedsFps ==
    <>[](Error(rate.ewma) > 0) => <>(rate.fps <= MinFps)
-------------------------------------------------------------------------------
(* A statement of the source and the release history.                     *)

\* "Positive means congestion; both PIDs reduce their output on it."
OverloadLowersBitrate ==
    [][Error(rate'.ewma) > 0 /\ conns' = conns /\ ~LeftTunnel => rate'.target <= rate.target]_vars
===============================================================================
