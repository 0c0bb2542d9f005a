---------------------------- MODULE MCVideoControl ----------------------------
(* The loops that steer the picture, each by itself: a behaviour is one of      *)
(* RateControl, BlankRecovery or CaptureLoop, with the other two at rest.       *)
EXTENDS Integers

CONSTANTS
    Ceiling, Seed, MinFps, Fps, SeedFps, KP, KI, FKP, FKI, Windup, MaxFailures,
    MinQoe, MinRender, Established, EstablishedQoe, EstablishedWall, MinReports, Enough,
    MaxAttempts, MaxDrops, MaxTakeovers,
    FullStrips, MaxStrips, PendingLimit, FlushFrames, MaxPerSecond, MaxEvents

\* A threshold of zero reports would be reached by none.
ASSUME BlankConstants ==
    /\ Established \in Nat /\ MaxDrops \in Nat /\ MaxAttempts \in Nat /\ Enough \in Nat
    /\ MinQoe \in Nat \ {0} /\ EstablishedQoe \in Nat \ {0}
    /\ EstablishedWall \in Nat \ {0} /\ MinReports \in Nat \ {0}
\* The bitmap queue holds the strips of one full frame.
ASSUME CaptureConstants ==
    /\ FullStrips \in Nat /\ PendingLimit \in Nat /\ FlushFrames \in Nat
    /\ FullStrips <= PendingLimit

VARIABLES
    rate, encoder, tunnelled, conns, failures,
    sessions, live, trusted, qoe, acks, attempts, ackedSince, age, waited, dull,
    drops, request, quit, reactivated, heard, unhealed,
    ready, minimised, sample, typed, resize, left, at, pending, resync, seeded,
    flush, last, first, armed, need, since, was, due, still, count, over,
    missing, outdated, garbled,
    loop   \* which of them runs

R == INSTANCE RateControl WITH MaxConns <- MaxTakeovers
B == INSTANCE BlankRecovery WITH MaxConns <- MaxTakeovers
C == INSTANCE CaptureLoop

rateVars == <<rate, encoder, tunnelled, conns, failures>>
blankVars == <<sessions, live, trusted, qoe, acks, attempts, ackedSince, age, waited, dull,
               drops, request, quit, reactivated, heard, unhealed>>
captureVars == <<ready, minimised, sample, typed, resize, left, at, pending, resync, seeded,
                 flush, last, first, armed, need, since, was, due, still, count, over,
                 missing, outdated, garbled>>
videoVars == <<rateVars, blankVars, captureVars, loop>>

RateStep(A) == loop = "rate" /\ A /\ UNCHANGED <<blankVars, captureVars, loop>>
BlankStep(A) == loop = "blank" /\ A /\ UNCHANGED <<rateVars, captureVars, loop>>
CaptureStep(A) == loop = "capture" /\ A /\ UNCHANGED <<rateVars, blankVars, loop>>

VideoInit ==
    /\ R!Init /\ B!Init /\ C!Init
    /\ \/ loop = "rate" /\ trusted /\ ready
       \/ loop = "blank" /\ rate = R!Fresh(FALSE) /\ ready
       \/ loop = "capture" /\ trusted /\ rate = R!Fresh(FALSE)

VideoNext == RateStep(R!Next) \/ BlankStep(B!Next) \/ CaptureStep(C!Next)

VideoSpec == VideoInit /\ [][VideoNext]_videoVars

\* The fairness of the three FairSpecs; since one of them runs, they can share conditions.
VideoFairSpec ==
    /\ VideoSpec
    /\ WF_videoVars(RateStep(R!Interval) \/ BlankStep(B!Age) \/ CaptureStep(C!DueComes))
    /\ WF_videoVars(RateStep(R!Capture) \/ BlankStep(B!Capture) \/ CaptureStep(C!Iterate))
    /\ WF_videoVars(BlankStep(B!Wait) \/ CaptureStep(C!Stills))
    /\ WF_videoVars(BlankStep(B!OnFrameAck(FALSE)) \/ CaptureStep(C!WindowEnds))
    /\ WF_videoVars(BlankStep(B!OnQoeMetrics(FALSE)))

EncoderFits == R!EncoderFits
OverloadShedsFps == R!OverloadShedsFps
StormIsBounded == B!StormIsBounded
DropIsEarned == B!DropIsEarned
BlankEscalates == B!BlankEscalates
PictureRecovers == C!PictureRecovers
PauseEndsInKeyframe == C!PauseEndsInKeyframe
KeystrokesRefresh == C!KeystrokesRefresh
OverloadLowersBitrate == R!OverloadLowersBitrate
===============================================================================
