-------------------------- MODULE LiveResize_proofs --------------------------
(***************************************************************************)
(* Theorems about LiveResize for every set of sizes and any number of      *)
(* layouts and connections, from the inductive invariant IInv.             *)
(***************************************************************************)
EXTENDS LiveResize, TLAPS

\* The capture loop runs only while the session is live, which alone has a
\* surface; from the load of a request on, the loop knows what it took.
LoopState ==
    /\ phase # "live" => capture = "off" /\ surface = NoSize
    /\ capture = "loaded" => taken # 0 /\ (stamp = taken => quiet)
    /\ capture = "emitted" => armed /\ surface = NoSize

\* What is recorded, or on its way, is a size.
Requests ==
    /\ stamp # 0 \/ capture = "won" => size \in Sizes
    /\ running.pc # "idle" => running.size \in Sizes
    /\ running.pc = "stamp" => size = running.size

\* Until activation the Demand Active is what desktop_size is, or will be by
\* adoption; from then on the encoder, and then the stream, follow it.
Sized ==
    /\ phase = "live" /\ capture # "emitted" => stream = desktop
    /\ phase = "handshake" => demanded \in Sizes
    /\ phase = "handshake" /\ ~fresh => armed /\ demanded = desktop
    /\ phase = "handshake" /\ fresh /\ ~args.auto /\ slack = {} => demanded = desktop
    /\ phase \in {"accepted", "live"} /\ slack = {} /\ capture # "emitted"
           => demanded = desktop /\ encoder = desktop

IInv ==
    /\ TypeOK
    /\ LoopState
    /\ Requests
    /\ Sized
    /\ ArmedForOwnResize
    /\ PendingIsLatest
    /\ FramesFitSurface

-------------------------------------------------------------------------------
USE DEF process, pending, connection, loop, threads, vars

\* Type correctness of the initial states.
LEMMA TypeInit == Init => TypeOK
<1> SUFFICES ASSUME Init PROVE TypeOK
  OBVIOUS
<1>1. running \in [pc : {"idle", "size", "stamp"}, size : Sizes \cup {NoSize}]
  BY DEF Init, Idle
<1>2. tasks \subseteq Task /\ slack \subseteq Slack
  BY DEF Init
<1>3. layouts \in 0..MaxLayouts /\ sessions \in 0..MaxSessions /\ stamp \in 0..stamps
      /\ taken \in 0..stamps /\ stamps \in Nat
  BY BoundsAssumption DEF Init
<1> QED BY <1>1, <1>2, <1>3 DEF Init, TypeOK

\* Every step preserves the types, given that what is recorded is a size.
LEMMA TypeNext == TypeOK /\ Requests /\ LoopState /\ [Next]_vars => TypeOK'
<1> SUFFICES ASSUME TypeOK, Requests, LoopState, [Next]_vars PROVE TypeOK'
  OBVIOUS
<1> USE BoundsAssumption
<1>1. ASSUME NEW s \in Sizes, Connect(s) \/ ServeCandidate(s) PROVE TypeOK'
  <2>1. PICK given \in Sizes \cup {NoSize} :
          Begin(s, given) /\ probe' \in {probe, NoSize}
    BY <1>1 DEF Connect, ServeCandidate, TypeOK
  <2>2. demanded' \in Sizes \cup {NoSize} /\ sessions' \in 0..MaxSessions
    BY <2>1 DEF TypeOK, Begin
  <2>3. slack' \subseteq Slack
    BY <2>1 DEF Begin, Slack
  <2> QED BY <2>1, <2>2, <2>3 DEF TypeOK, Begin
<1>2. ASSUME NEW s \in Sizes, Activate(s) PROVE TypeOK'
  BY <1>2 DEF TypeOK, Activate, Slack
<1>3. ASSUME NEW s \in Sizes, Layout(s) PROVE TypeOK'
  BY <1>3 DEF TypeOK, Layout, Task
<1>4. ASSUME NEW ok \in BOOLEAN, StartStream(ok) PROVE TypeOK'
  BY <1>4 DEF TypeOK, StartStream, Slack
<1>5. CASE ProbeStarts
  BY <1>5 DEF TypeOK, ProbeStarts
<1>6. CASE CandidateGone
  BY <1>6 DEF TypeOK, CandidateGone
<1>7. CASE SessionEnds
  BY <1>7 DEF TypeOK, SessionEnds
<1>8. ASSUME NEW t \in tasks, TaskStarts(t) PROVE TypeOK'
  BY <1>8 DEF TypeOK, TaskStarts, Task, Idle
<1>9. CASE TaskStoresSize
  BY <1>9 DEF TypeOK, TaskStoresSize, Requests
<1>10. CASE TaskStamps
  <2>1. stamps' \in Nat /\ stamp' \in 0..stamps' /\ taken' \in 0..stamps'
    BY <1>10 DEF TypeOK, TaskStamps
  <2>2. running' \in [pc : {"idle", "size", "stamp"}, size : Sizes \cup {NoSize}]
        /\ recorded' \in Sizes \cup {NoSize}
    BY <1>10 DEF TypeOK, TaskStamps, Requests, Idle
  <2> QED BY <1>10, <2>1, <2>2 DEF TypeOK, TaskStamps
<1>11. CASE Settle
  BY <1>11 DEF TypeOK, Settle
<1>12. CASE Frame
  BY <1>12 DEF TypeOK, Frame
<1>13. CASE CaptureLoads
  BY <1>13 DEF TypeOK, CaptureLoads
<1>14. CASE CaptureSwaps
  <2>1. CASE stamp = taken
    <3>1. stamp' = 0 /\ quiet' = FALSE /\ capture' = "won"
      BY <1>14, <2>1 DEF CaptureSwaps
    <3>2. stamp' \in 0..stamps
      BY <3>1 DEF TypeOK
    <3> QED BY <1>14, <3>1, <3>2 DEF TypeOK, CaptureSwaps
  <2>2. CASE stamp # taken
    BY <1>14, <2>2 DEF TypeOK, CaptureSwaps
  <2> QED BY <2>1, <2>2
<1>15. CASE CaptureApplies
  BY <1>15 DEF TypeOK, CaptureApplies, Requests
<1>16. CASE Deactivate
  BY <1>16 DEF TypeOK, Deactivate
<1>17. CASE UNCHANGED vars
  BY <1>17 DEF TypeOK
<1> QED BY <1>1, <1>2, <1>3, <1>4, <1>5, <1>6, <1>7, <1>8, <1>9, <1>10, <1>11, <1>12,
           <1>13, <1>14, <1>15, <1>16, <1>17 DEF Next

\* The other conjuncts of the invariant hold initially.
LEMMA IInvInit == Init => IInv
<1> SUFFICES ASSUME Init PROVE IInv
  OBVIOUS
<1>1. TypeOK
  BY TypeInit
<1>2. LoopState /\ Requests /\ Sized /\ ArmedForOwnResize /\ PendingIsLatest /\ FramesFitSurface
  BY DEF Init, Idle, LoopState, Requests, Sized, ArmedForOwnResize, PendingIsLatest,
         FramesFitSurface
<1> QED BY <1>1, <1>2 DEF IInv

\* Every step preserves what the capture loop knows and what is recorded.
LEMMA RequestsNext == IInv /\ [Next]_vars => (LoopState /\ Requests /\ PendingIsLatest)'
<1> SUFFICES ASSUME IInv, [Next]_vars PROVE (LoopState /\ Requests /\ PendingIsLatest)'
  OBVIOUS
<1> USE SizesAssumption DEF IInv, TypeOK, LoopState, Requests, PendingIsLatest
<1>1. ASSUME NEW s \in Sizes, Connect(s) \/ ServeCandidate(s) \/ Activate(s) \/ Layout(s)
      PROVE  (LoopState /\ Requests /\ PendingIsLatest)'
  BY <1>1 DEF Connect, ServeCandidate, Begin, Activate, Layout
<1>2. ASSUME NEW ok \in BOOLEAN, StartStream(ok)
      PROVE  (LoopState /\ Requests /\ PendingIsLatest)'
  BY <1>2 DEF StartStream
<1>3. CASE ProbeStarts \/ CandidateGone \/ SessionEnds \/ UNCHANGED vars
  BY <1>3 DEF ProbeStarts, CandidateGone, SessionEnds
<1>4. ASSUME NEW t \in tasks, TaskStarts(t)
      PROVE  (LoopState /\ Requests /\ PendingIsLatest)'
  BY <1>4 DEF TaskStarts, Task, Idle, DisplayUnlocked
<1>5. CASE TaskStoresSize
  BY <1>5 DEF TaskStoresSize
<1>6. CASE TaskStamps
  BY <1>6 DEF TaskStamps, Idle
<1>7. CASE Settle \/ Frame \/ CaptureLoads
  BY <1>7 DEF Settle, Frame, CaptureLoads
<1>8. CASE CaptureSwaps
  BY <1>8 DEF CaptureSwaps
<1>9. CASE CaptureApplies \/ Deactivate
  BY <1>9 DEF CaptureApplies, Deactivate
<1> QED BY <1>1, <1>2, <1>3, <1>4, <1>5, <1>6, <1>7, <1>8, <1>9 DEF Next

\* Every step keeps the places that hold a size together.
LEMMA SizesNext == IInv /\ [Next]_vars => (Sized /\ ArmedForOwnResize /\ FramesFitSurface)'
<1> SUFFICES ASSUME IInv, [Next]_vars PROVE (Sized /\ ArmedForOwnResize /\ FramesFitSurface)'
  OBVIOUS
<1> USE SizesAssumption DEF IInv, TypeOK, LoopState, Sized, ArmedForOwnResize, FramesFitSurface
<1>1. ASSUME NEW s \in Sizes, Connect(s) \/ ServeCandidate(s)
      PROVE  (Sized /\ ArmedForOwnResize /\ FramesFitSurface)'
  BY <1>1 DEF Connect, ServeCandidate, Begin
<1>2. ASSUME NEW s \in Sizes, Activate(s)
      PROVE  (Sized /\ ArmedForOwnResize /\ FramesFitSurface)'
  BY <1>2 DEF Activate, Adopts
<1>3. ASSUME NEW ok \in BOOLEAN, StartStream(ok)
      PROVE  (Sized /\ ArmedForOwnResize /\ FramesFitSurface)'
  BY <1>3 DEF StartStream
<1>4. ASSUME NEW s \in Sizes, Layout(s)
      PROVE  (Sized /\ ArmedForOwnResize /\ FramesFitSurface)'
  BY <1>4 DEF Layout
<1>5. CASE ProbeStarts \/ CandidateGone \/ SessionEnds \/ UNCHANGED vars
  BY <1>5 DEF ProbeStarts, CandidateGone, SessionEnds
<1>6. ASSUME NEW t \in tasks, TaskStarts(t)
      PROVE  (Sized /\ ArmedForOwnResize /\ FramesFitSurface)'
  BY <1>6 DEF TaskStarts
<1>7. CASE TaskStoresSize \/ TaskStamps \/ Settle
  BY <1>7 DEF TaskStoresSize, TaskStamps, Settle
<1>8. CASE Frame \/ CaptureLoads \/ CaptureSwaps
  BY <1>8 DEF Frame, CaptureLoads, CaptureSwaps
<1>9. CASE CaptureApplies \/ Deactivate
  BY <1>9 DEF CaptureApplies, Deactivate
<1> QED BY <1>1, <1>2, <1>3, <1>4, <1>5, <1>6, <1>7, <1>8, <1>9 DEF Next

-------------------------------------------------------------------------------
\* IInv holds in every reachable state.
THEOREM Invariance == Spec => []IInv
<1>1. IInv /\ [Next]_vars => IInv'
  <2> SUFFICES ASSUME IInv, [Next]_vars PROVE IInv'
    OBVIOUS
  <2>1. TypeOK'
    BY TypeNext DEF IInv
  <2>2. (LoopState /\ Requests /\ PendingIsLatest)'
    BY RequestsNext
  <2>3. (Sized /\ ArmedForOwnResize /\ FramesFitSurface)'
    BY SizesNext
  <2> QED BY <2>1, <2>2, <2>3 DEF IInv
<1> QED BY IInvInit, <1>1, PTL DEF Spec

\* The variables keep their types: in particular desktop_size is always a size,
\* never what an empty PendingResize holds.
THEOREM TypeCorrect == Spec => []TypeOK
<1>1. IInv => TypeOK
  BY DEF IInv
<1> QED BY <1>1, Invariance, PTL

\* The Demand Active, the encoder and the capture stream have the session's
\* size in a session that inherited nothing stale.
THEOREM SessionsHaveOneSize == Spec => []SizesAgree
<1>1. IInv => SizesAgree
  BY DEF IInv, Sized, SizesAgree
<1> QED BY <1>1, Invariance, PTL

\* Frames are captured at the size of their surface.
THEOREM SurfacesFit == Spec => []FramesFitSurface
<1>1. IInv => FramesFitSurface
  BY DEF IInv
<1> QED BY <1>1, Invariance, PTL

\* suppress_next_adopt is up only for the resize it was raised for.
THEOREM FlagIsForOwnResize == Spec => []ArmedForOwnResize
<1>1. IInv => ArmedForOwnResize
  BY DEF IInv
<1> QED BY <1>1, Invariance, PTL

\* A settled request resolves to the size recorded last.
THEOREM RequestsAreLatest == Spec => []PendingIsLatest
<1>1. IInv => PendingIsLatest
  BY DEF IInv
<1> QED BY <1>1, Invariance, PTL

\* A request is consumed only when RESIZE_DEBOUNCE has passed since it.
THEOREM ConsumedRequestsAreSettled == Spec => DebounceHolds
<1>1. IInv /\ [Next]_vars => [stamp # 0 /\ stamp' = 0 => quiet]_vars
  <2> SUFFICES ASSUME IInv, Next, stamp # 0, stamp' = 0 PROVE quiet
    OBVIOUS
  <2>1. CASE CaptureSwaps
    BY <2>1 DEF CaptureSwaps, IInv, LoopState
  <2>2. CASE TaskStamps
    BY <2>2 DEF TaskStamps, IInv, TypeOK
  <2>3. CASE ~CaptureSwaps /\ ~TaskStamps
    BY <2>3 DEF Next, Connect, ServeCandidate, Begin, Activate, Layout, StartStream,
                ProbeStarts, CandidateGone, SessionEnds, TaskStarts, TaskStoresSize, Settle,
                Frame, CaptureLoads, CaptureApplies, Deactivate
  <2> QED BY <2>1, <2>2, <2>3
<1> QED BY Invariance, <1>1, PTL DEF Spec, DebounceHolds

\* All that a resize may do to the sizes of a session, and when, for any set of
\* sizes, any number of layouts and any number of sessions.
THEOREM ResizesHold == Spec => ResizesAreSound
BY SessionsHaveOneSize, SurfacesFit, FlagIsForOwnResize, RequestsAreLatest,
   ConsumedRequestsAreSettled, PTL DEF ResizesAreSound
===============================================================================
