----------------------------- MODULE Video_proofs -----------------------------
(***************************************************************************)
(* What holds of the picture's way to the client for every value of the    *)
(* constants: FramePipeline, for any limits and any number of encoders,    *)
(* connections, surfaces, remaps and lost frames, and the loops of         *)
(* MCVideoControl that steer it.                                           *)
(*                                                                         *)
(* The ledger of FramePipeline is nearly inductive.  What it needs beside  *)
(* itself is that the thread of the current encoder counts for the current *)
(* connection (Tied), and that an encoder not built yet has nothing under  *)
(* way (Unused), so that the counts of a new one start even.               *)
(*                                                                         *)
(* That keyframes hold rests on who may send to which surface (Owned): a   *)
(* surface and its encoder are set up and dropped together, so the first   *)
(* frame of the one opens the other (Opened), and a surface that is left   *)
(* is never the current one again.                                         *)
(*                                                                         *)
(* Each loop has an inductive invariant of its own, which the steps of the *)
(* other two leave alone.                                                  *)
(***************************************************************************)
EXTENDS FramePipeline, MCVideoControl, SequenceTheorems, TLAPS

-----------------------------------------------------------------------------
(* FramePipeline                                                            *)

Fields == {"conn", "ready", "surface", "encoder", "needKey", "outstanding", "lag",
           "acksSeen", "suspended", "demigrated", "trickle"}

Shaped == /\ DOMAIN ctx = Fields
          /\ ctx.outstanding \in Int /\ ctx.needKey \in BOOLEAN
          /\ ctx.encoder \in 0..encoders

Queued == /\ vt \in Seq(BOOLEAN) /\ fresh \in BOOLEAN /\ gap \in BOOLEAN
          /\ channel \in [Encoders -> Seq(Frame)] /\ batch \in [Encoders -> Seq(Frame)]

Numbered == /\ encoders \in 0..MaxEncoders /\ DOMAIN connOf = Encoders
            /\ lost \in Int /\ stale \in Int

Tied == ctx.encoder # None => connOf[ctx.encoder] = ctx.conn

Unused == \A e \in Encoders : e > encoders => channel[e] = <<>> /\ batch[e] = <<>>

Balanced == Shaped /\ Queued /\ Numbered /\ Tied /\ Unused /\ Ledger

counted == <<channel, batch, encoders, connOf, lost, stale>>

USE DEF None, Encoders, encoding, shipping, made, painted, ledger

\* What the ledger adds up.
LEMMA Countable ==
    ASSUME Balanced
    PROVE  /\ Len(vt) \in Int /\ \A e \in Encoders : Held(e) \in Int
           /\ lost \in Int /\ stale \in Int
           /\ ctx.encoder # None =>
                 /\ ctx.encoder \in Encoders /\ Held(ctx.encoder) \in Int
                 /\ ctx.outstanding = Len(vt) + Held(ctx.encoder) + lost - stale
<1>1. Len(vt) \in Int
  BY DEF Balanced, Queued
<1>2. \A e \in Encoders : Held(e) \in Int
  BY DEF Balanced, Queued, Held
<1>3. ctx.encoder # None => ctx.encoder \in Encoders
  BY BoundsAssumption DEF Balanced, Shaped, Numbered
<1>4. ctx.encoder # None =>
         ctx.outstanding = Len(vt) + Held(ctx.encoder) + lost - stale
  BY DEF Balanced, Ledger
<1> QED BY <1>1, <1>2, <1>3, <1>4 DEF Balanced, Numbered

\* A step that touches neither the queues nor the counts.
LEMMA QuietKeeps ==
    ASSUME Balanced, UNCHANGED <<encoding, counted>>,
           DOMAIN ctx' = Fields, ctx'.needKey \in BOOLEAN, ctx'.conn = ctx.conn,
           ctx'.encoder = ctx.encoder, ctx'.outstanding = ctx.outstanding
    PROVE  Balanced'
<1>1. /\ vt' = vt /\ fresh' = fresh /\ gap' = gap /\ channel' = channel /\ batch' = batch
      /\ encoders' = encoders /\ connOf' = connOf /\ lost' = lost /\ stale' = stale
  BY DEF counted
<1>2. Shaped' /\ Tied'
  BY <1>1 DEF Balanced, Shaped, Tied
<1>3. Queued' /\ Unused' /\ Numbered'
  BY <1>1 DEF Balanced, Queued, Unused, Numbered
<1>4. Ledger'
  BY <1>1 DEF Balanced, Ledger, Held
<1> QED BY <1>2, <1>3, <1>4 DEF Balanced

\* A step that drops the encoder: nothing is left to account for.
LEMMA DropKeeps ==
    ASSUME Balanced, DropEncoder, UNCHANGED counted,
           DOMAIN ctx' = Fields, ctx'.needKey \in BOOLEAN,
           ctx'.encoder = None, ctx'.outstanding \in Int
    PROVE  Balanced'
<1>1. /\ vt' = <<>> /\ fresh' = FALSE /\ gap' = FALSE /\ channel' = channel /\ batch' = batch
      /\ encoders' = encoders /\ connOf' = connOf /\ lost' = lost /\ stale' = stale
  BY DEF DropEncoder, counted
<1>2. Shaped' /\ Tied' /\ Ledger'
  BY <1>1 DEF Balanced, Shaped, Tied, Ledger, Numbered
<1>3. Unused' /\ Numbered'
  BY <1>1 DEF Balanced, Unused, Numbered
<1>4. Queued'
  <2>1. << >> \in Seq(BOOLEAN)
    OBVIOUS
  <2> QED BY <1>1, <2>1 DEF Balanced, Queued
<1> QED BY <1>2, <1>3, <1>4 DEF Balanced

\* The context a capture is judged with balances what is inside: as it was, or
\* from zero for the encoder that was set up.
LEMMA SetupBalances ==
    ASSUME Balanced, NEW asked \in BOOLEAN, NEW wedged \in BOOLEAN, SetupLocked,
           UNCHANGED <<channel, batch>>
    PROVE  LET c == Prepared(asked, wedged) IN
           /\ DOMAIN c = Fields /\ c.needKey \in BOOLEAN /\ c.outstanding \in Int
           /\ c.encoder \in 1..encoders' /\ connOf'[c.encoder] = c.conn
           /\ Numbered' /\ Unused' /\ Inside \in Seq(BOOLEAN)
           /\ fresh' \in BOOLEAN /\ gap' \in BOOLEAN
           /\ c.outstanding = Len(Inside) + Held(c.encoder) + lost' - stale'
<1> DEFINE c == Prepared(asked, wedged)
<1>1. /\ DOMAIN c = Fields /\ c.needKey \in BOOLEAN /\ c.conn = ctx.conn
      /\ c.encoder = (IF NeedsEncoder THEN encoders + 1 ELSE ctx.encoder)
      /\ c.outstanding = (IF NeedsEncoder THEN 0 ELSE ctx.outstanding)
  BY DEF Prepared, SetUp, Demigrated, Balanced, Shaped, Fields, NeedsEncoder
<1> HIDE DEF c
<1>2. CASE NeedsEncoder
  <2>1. /\ encoders' = encoders + 1 /\ encoders' \in Encoders
        /\ connOf' = [connOf EXCEPT ![encoders + 1] = ctx.conn]
        /\ lost' = 0 /\ stale' = 0 /\ fresh' = TRUE /\ gap' = FALSE
    BY <1>2, BoundsAssumption DEF SetupLocked, Balanced, Numbered
  <2>2. channel[encoders + 1] = <<>> /\ batch[encoders + 1] = <<>>
    BY <2>1 DEF Balanced, Unused, Numbered
  <2>3. Numbered' /\ Unused' /\ connOf'[c.encoder] = c.conn
    BY <1>1, <1>2, <2>1 DEF Balanced, Numbered, Unused
  <2>4. Inside = <<>> /\ Len(Inside) = 0 /\ Inside \in Seq(BOOLEAN)
    BY <1>2 DEF Inside
  <2>5. Held(c.encoder) = 0
    <3>1. Len(<< >>) = 0
      OBVIOUS
    <3>2. channel[c.encoder] = <<>> /\ batch[c.encoder] = <<>>
      BY <1>1, <1>2, <2>2
    <3> QED BY <3>1, <3>2 DEF Held
  <2>6. c.encoder \in 1..encoders' /\ c.outstanding = 0
    BY <1>1, <1>2, <2>1
  <2>7. c.outstanding = Len(Inside) + Held(c.encoder) + lost' - stale'
    BY <2>1, <2>4, <2>5, <2>6
  <2>8. c.outstanding \in Int
    BY <2>6
  <2>9. fresh' \in BOOLEAN /\ gap' \in BOOLEAN
    BY <2>1
  <2> QED BY <1>1, <2>3, <2>4, <2>6, <2>7, <2>8, <2>9, Zenon DEF c
<1>3. CASE ~NeedsEncoder
  <2>1. UNCHANGED <<encoders, connOf, lost, stale, fresh, gap>>
    BY <1>3 DEF SetupLocked
  <2>2. Inside = vt
    BY <1>3 DEF Inside
  <2>3. c.encoder = ctx.encoder /\ c.outstanding = ctx.outstanding /\ ctx.encoder # None
    BY <1>1, <1>3 DEF NeedsEncoder
  <2> QED BY <1>1, <2>1, <2>2, <2>3
       DEF c, Balanced, Shaped, Queued, Numbered, Tied, Unused, Ledger
<1> QED BY <1>2, <1>3

LEMMA CaptureKeeps ==
    ASSUME Balanced, NEW asked \in BOOLEAN, NEW wedged \in BOOLEAN,
           NEW early \in BOOLEAN, SubmitBgra(asked, wedged, early)
    PROVE  Balanced'
<1> DEFINE c == Prepared(asked, wedged)
<1>1. SetupLocked /\ UNCHANGED <<channel, batch>>
  BY DEF SubmitBgra
<1>2. /\ DOMAIN c = Fields /\ c.needKey \in BOOLEAN /\ c.outstanding \in Int
      /\ c.encoder \in 1..encoders' /\ connOf'[c.encoder] = c.conn
      /\ Numbered' /\ Unused' /\ Inside \in Seq(BOOLEAN)
      /\ fresh' \in BOOLEAN /\ gap' \in BOOLEAN
      /\ c.outstanding = Len(Inside) + Held(c.encoder) + lost' - stale'
  BY <1>1, SetupBalances
<1>3. Drop(c) \/ Encode(c) \/ EncodeFails(c)
  BY DEF SubmitBgra
<1> HIDE DEF c
<1>4. /\ DOMAIN ctx' = Fields /\ ctx'.needKey \in BOOLEAN
      /\ ctx'.encoder = c.encoder /\ ctx'.conn = c.conn
  BY <1>2, <1>3 DEF Drop, Encode, EncodeFails, Fields
<1>5. \/ vt' = Inside /\ ctx'.outstanding = c.outstanding
      \/ vt' = Append(Inside, c.needKey) /\ ctx'.outstanding = c.outstanding + 1
  BY <1>2, <1>3 DEF Drop, Encode, EncodeFails, Fields
<1>6. vt' \in Seq(BOOLEAN) /\ ctx'.outstanding - Len(vt') = c.outstanding - Len(Inside)
  <2>1. Len(Inside) \in Int /\ Len(Append(Inside, c.needKey)) = Len(Inside) + 1
    BY <1>2
  <2>2. Append(Inside, c.needKey) \in Seq(BOOLEAN)
    BY <1>2
  <2>3. CASE vt' = Inside /\ ctx'.outstanding = c.outstanding
    BY <1>2, <2>3
  <2>4. CASE vt' = Append(Inside, c.needKey) /\ ctx'.outstanding = c.outstanding + 1
    <3>1. c.outstanding \in Int
      BY <1>2
    <3> QED BY <2>1, <2>2, <2>4, <3>1
  <2> QED BY <1>5, <2>3, <2>4
<1>7. c.encoder \in Encoders /\ Held(c.encoder) \in Int
  BY <1>2, BoundsAssumption, Countable DEF Numbered
<1>8. Ledger'
  <2>1. Held(ctx.encoder)' = Held(c.encoder)
    BY <1>1, <1>4 DEF Held
  <2>2. Len(vt') \in Int /\ Len(Inside) \in Int /\ ctx'.outstanding \in Int
    BY <1>2, <1>5, <1>6
  <2>3. lost' \in Int /\ stale' \in Int
    BY <1>2 DEF Numbered
  <2>4. ctx'.outstanding = Len(vt') + Held(c.encoder) + lost' - stale'
    <3>1. c.outstanding = Len(Inside) + Held(c.encoder) + lost' - stale'
      BY <1>2
    <3>2. c.outstanding \in Int /\ Held(c.encoder) \in Int
      BY <1>2, <1>7
    <3>3. ctx'.outstanding - Len(vt') = c.outstanding - Len(Inside)
      BY <1>6
    <3> DEFINE now == ctx'.outstanding   before == c.outstanding
               length == Len(vt')        lengthBefore == Len(Inside)
               held == Held(c.encoder)   gone == lost'   extra == stale'
    <3>4. /\ now \in Int /\ before \in Int /\ length \in Int /\ lengthBefore \in Int
          /\ held \in Int /\ gone \in Int /\ extra \in Int
      BY <2>2, <2>3, <3>2
    <3>5. before = lengthBefore + held + gone - extra /\ now - length = before - lengthBefore
      BY <3>1, <3>3
    <3> HIDE DEF now, before, length, lengthBefore, held, gone, extra
    <3>6. now = length + held + gone - extra
      BY <3>4, <3>5
    <3> QED BY <3>6 DEF now, length, held, gone, extra
  <2> QED BY <2>1, <2>4 DEF Ledger
<1>9. Shaped' /\ Tied'
  BY <1>2, <1>4, <1>5 DEF Shaped, Tied
<1>10. Queued'
  BY <1>1, <1>2, <1>6 DEF Balanced, Queued
<1> QED BY <1>2, <1>8, <1>9, <1>10 DEF Balanced

\* A frame that comes out moves on; one that is lost is booked as such.
LEMMA EncoderKeeps ==
    ASSUME Balanced, Encoder
    PROVE  Balanced'
<1>1. ASSUME NEW periodic \in BOOLEAN, Deliver(periodic) PROVE Balanced'
  <2> DEFINE frame == [key |-> Head(vt) \/ fresh \/ periodic, gap |-> gap]
  <2>1. /\ vt # <<>> /\ vt' = Tail(vt) /\ fresh' = FALSE /\ gap' = FALSE
        /\ channel' = [channel EXCEPT ![ctx.encoder] = Append(@, frame)]
        /\ UNCHANGED <<ctx, batch, encoders, connOf, lost, stale>>
    BY <1>1 DEF Deliver
  <2>2. frame \in Frame
    <3>1. Head(vt) \in BOOLEAN /\ fresh \in BOOLEAN /\ gap \in BOOLEAN
      BY <2>1, HeadTailProperties DEF Balanced, Queued
    <3> QED BY <3>1 DEF Frame
  <2> HIDE DEF frame
  <2>3. vt' \in Seq(BOOLEAN) /\ Len(vt') = Len(vt) - 1
    BY <2>1 DEF Balanced, Queued
  <2>4. \A e \in Encoders : channel'[e] = IF e = ctx.encoder THEN Append(channel[e], frame)
                                                            ELSE channel[e]
    BY <2>1 DEF Balanced, Queued
  <2>5. \A e \in Encoders : Append(channel[e], frame) \in Seq(Frame)
    BY <2>2 DEF Balanced, Queued
  <2>6. Queued'
    BY <2>1, <2>3, <2>4, <2>5 DEF Balanced, Queued
  <2>7. Unused'
    BY <2>1, <2>4, BoundsAssumption DEF Balanced, Unused, Shaped, Numbered
  <2>8. Ledger'
    <3> SUFFICES ASSUME ctx.encoder # None
                 PROVE  ctx.outstanding = Len(vt') + Held(ctx.encoder)' + lost - stale
      BY <2>1 DEF Ledger
    <3>1. Len(channel'[ctx.encoder]) = Len(channel[ctx.encoder]) + 1
      <4>1. ctx.encoder \in Encoders /\ channel[ctx.encoder] \in Seq(Frame)
        BY Countable DEF Balanced, Queued
      <4>2. Len(Append(channel[ctx.encoder], frame)) = Len(channel[ctx.encoder]) + 1
        BY <2>2, <4>1, AppendProperties
      <4> QED BY <2>4, <4>1, <4>2
    <3>2. Len(channel[ctx.encoder]) \in Int /\ Len(batch[ctx.encoder]) \in Int
      BY Countable DEF Balanced, Queued
    <3>3. Held(ctx.encoder)' = Held(ctx.encoder) + 1
      <4>1. Held(ctx.encoder)' = Len(channel'[ctx.encoder]) + Len(batch[ctx.encoder])
        BY <2>1 DEF Held
      <4>2. Held(ctx.encoder) = Len(channel[ctx.encoder]) + Len(batch[ctx.encoder])
        BY DEF Held
      <4>3. \A a, b \in Int : (a + 1) + b = (a + b) + 1
        OBVIOUS
      <4> QED BY <3>1, <3>2, <4>1, <4>2, <4>3, Zenon
    <3> QED BY <2>3, <3>3, Countable
  <2> QED BY <2>1, <2>6, <2>7, <2>8 DEF Balanced, Shaped, Numbered, Tied
<1>2. ASSUME NEW encoded \in BOOLEAN, LoseFrame(encoded) PROVE Balanced'
  <2>1. /\ vt # <<>> /\ vt' = Tail(vt) /\ lost' = lost + 1
        /\ fresh' = (fresh /\ ~encoded) /\ gap' = (gap \/ encoded)
        /\ UNCHANGED <<ctx, channel, batch, encoders, connOf, stale>>
    BY <1>2 DEF LoseFrame
  <2>2. vt' \in Seq(BOOLEAN) /\ Len(vt') = Len(vt) - 1 /\ Len(vt) \in Int
    BY <2>1 DEF Balanced, Queued
  <2>3. Ledger'
    <3> SUFFICES ASSUME ctx.encoder # None
                 PROVE  ctx.outstanding = Len(vt') + Held(ctx.encoder) + (lost + 1) - stale
      <4>1. Held(ctx.encoder)' = Held(ctx.encoder)
        BY <2>1 DEF Held
      <4>2. ctx' = ctx /\ lost' = lost + 1 /\ stale' = stale
        BY <2>1
      <4> QED BY <4>1, <4>2 DEF Ledger
    <3> QED BY <2>2, Countable
  <2> QED BY <2>1, <2>2, <2>3 DEF Balanced, Shaped, Numbered, Tied, Queued, Unused
<1> QED BY <1>1, <1>2 DEF Encoder

\* A thread takes what is in its channel: as many frames are under way.
LEMMA TakeKeeps ==
    ASSUME Balanced, NEW e \in Encoders, ShipTake(e)
    PROVE  Balanced'
<1>1. /\ batch[e] = <<>> /\ batch' = [batch EXCEPT ![e] = channel[e]]
      /\ channel' = [channel EXCEPT ![e] = <<>>]
      /\ UNCHANGED <<ctx, vt, fresh, gap, encoders, connOf, lost, stale>>
  BY DEF ShipTake
<1>2. Queued'
  BY <1>1 DEF Balanced, Queued
<1>3. Unused'
  BY <1>1 DEF Balanced, Unused, Queued
<1>4. \A other \in Encoders : Held(other)' = Held(other)
  BY <1>1 DEF Balanced, Queued, Held
<1>5. Ledger'
  <2>1. ctx.encoder # None => Held(ctx.encoder)' = Held(ctx.encoder)
    BY <1>1, <1>4, Countable DEF Held
  <2> QED BY <1>1, <2>1 DEF Balanced, Ledger
<1> QED BY <1>1, <1>2, <1>3, <1>5 DEF Balanced, Shaped, Numbered, Tied

\* A batch that is done leaves the books on both sides: shipped when it was the
\* current encoder's, stale when it was another's of this connection, nothing when
\* it was a former connection's.
LEMMA ShipKeeps ==
    ASSUME Balanced, NEW e \in Encoders, ShipFrames(e)
    PROVE  Balanced'
<1> DEFINE n == Len(batch[e])
<1>1. /\ batch' = [batch EXCEPT ![e] = <<>>]
      /\ UNCHANGED <<channel, vt, fresh, gap, encoders, connOf, lost>>
  BY DEF ShipFrames
<1>2. n \in Int
  BY DEF Balanced, Queued
<1>3. IF connOf[e] = ctx.conn
      THEN /\ DOMAIN ctx' = Fields /\ ctx'.needKey = ctx.needKey
           /\ ctx'.encoder = ctx.encoder /\ ctx'.conn = ctx.conn
           /\ ctx'.outstanding = ctx.outstanding - n
           /\ stale' = IF e = ctx.encoder THEN stale ELSE stale + n
      ELSE UNCHANGED <<ctx, stale>>
  BY DEF ShipFrames, Counted, Balanced, Shaped, Fields
<1> HIDE DEF n
<1>4. Shaped' /\ Numbered'
  BY <1>1, <1>2, <1>3 DEF Balanced, Shaped, Numbered
<1>5. Queued' /\ Unused' /\ Tied'
  BY <1>1, <1>3 DEF Balanced, Queued, Unused, Tied
<1>6. \A other \in Encoders :
        Held(other) \in Int /\ Held(other)' = Held(other) - IF other = e THEN n ELSE 0
  BY <1>1, <1>2 DEF Balanced, Queued, Held, n
<1>7. ctx'.encoder = ctx.encoder
  BY <1>3
<1>8. Ledger'
  <2> SUFFICES ASSUME ctx.encoder # None
               PROVE  ctx'.outstanding = Len(vt) + Held(ctx.encoder)' + lost - stale'
    BY <1>1, <1>7 DEF Ledger, Held
  <2>1. ctx.encoder \in Encoders /\ Len(vt) \in Int
    BY Countable
  <2>2. ctx.outstanding = Len(vt) + Held(ctx.encoder) + lost - stale
    BY DEF Balanced, Ledger
  <2> DEFINE before == ctx.outstanding      now == ctx'.outstanding
             held == Held(ctx.encoder)      heldNow == Held(ctx.encoder)'
             inside == Len(vt)              extra == stale'
  <2>3. /\ before \in Int /\ held \in Int /\ inside \in Int /\ n \in Int
        /\ lost \in Int /\ stale \in Int
    BY <1>2, Countable DEF Balanced, Shaped
  <2>4. CASE e = ctx.encoder
    <3>1. now = before - n /\ extra = stale
      BY <1>3, <2>4 DEF Balanced, Tied
    <3>2. heldNow = held - n
      BY <1>6, <1>7, <2>1, <2>4
    <3> HIDE DEF before, now, held, heldNow, inside, extra
    <3>3. now = inside + heldNow + lost - extra
      <4>1. before = inside + held + lost - stale
        BY <2>2 DEF before, inside, held
      <4> QED BY <2>3, <3>1, <3>2, <4>1
    <3> QED BY <3>3 DEF now, heldNow, inside, extra
  <2>5. CASE e # ctx.encoder
    <3>1. \/ now = before - n /\ extra = stale + n
          \/ now = before /\ extra = stale
      BY <1>3, <2>5
    <3>2. heldNow = held
      BY <1>2, <1>6, <1>7, <2>1, <2>3, <2>5
    <3> HIDE DEF before, now, held, heldNow, inside, extra
    <3>3. now = inside + heldNow + lost - extra
      <4>1. before = inside + held + lost - stale
        BY <2>2 DEF before, inside, held
      <4> QED BY <2>3, <3>1, <3>2, <4>1
    <3> QED BY <3>3 DEF now, heldNow, inside, extra
  <2> QED BY <2>4, <2>5
<1> QED BY <1>4, <1>5, <1>8 DEF Balanced

LEMMA BalancedStep == ASSUME Balanced, Next PROVE Balanced'
<1>1. CASE BuildServerWithHandle
  BY <1>1, DropKeeps DEF BuildServerWithHandle, FreshContext, Fields, counted
<1>2. ASSUME NEW avc \in BOOLEAN, OnReady(avc) PROVE Balanced'
  BY <1>2, QuietKeeps DEF OnReady, Balanced, Shaped, Fields, counted
<1>3. CASE OnClose
  BY <1>3, DropKeeps DEF OnClose, Balanced, Shaped, Fields, counted
<1>4. CASE ResetForLiveResize
  BY <1>4, DropKeeps DEF ResetForLiveResize, Balanced, Shaped, Fields, counted
<1>5. CASE ForceKeyframe \/ SuspendAcks \/ TrickleDue
  BY <1>5, QuietKeeps
  DEF ForceKeyframe, SuspendAcks, TrickleDue, Balanced, Shaped, Fields, counted
<1>6. CASE Migrate \/ TakeDemigrate
  BY <1>6, QuietKeeps DEF Migrate, TakeDemigrate, Balanced, Shaped, Fields, counted
<1>7. CASE DemigrateOnResume
  BY <1>7, QuietKeeps DEF DemigrateOnResume, Demigrated, Balanced, Shaped, Fields, counted
<1>8. ASSUME NEW lag \in 0..MaxLag, OnFrameAck(lag) PROVE Balanced'
  BY <1>8, QuietKeeps DEF OnFrameAck, Balanced, Shaped, Fields, counted
<1>9. CASE Submit
  <2>1. CASE EventQueueHigh
    BY <2>1, QuietKeeps DEF EventQueueHigh, vars, Balanced, Shaped, counted, encoding
  <2> QED BY <1>9, <2>1, CaptureKeeps DEF Submit
<1>10. CASE BlankRemap
  BY <1>10, QuietKeeps DEF BlankRemap, Balanced, Shaped, Fields, counted
<1>11. CASE Encoder
  BY <1>11, EncoderKeeps
<1>12. ASSUME NEW e \in Encoders, ShipTake(e) \/ ShipFrames(e) PROVE Balanced'
  BY <1>12, TakeKeeps, ShipKeeps
<1> QED BY <1>1, <1>2, <1>3, <1>4, <1>5, <1>6, <1>7, <1>8, <1>9, <1>10, <1>11, <1>12 DEF Next

LEMMA BalancedInit == Init => Balanced
<1> SUFFICES ASSUME Init PROVE Balanced
  OBVIOUS
<1>1. Shaped /\ Tied /\ Ledger
  BY DEF Init, FreshContext, Shaped, Fields, Tied, Ledger
<1>2. Queued
  <2>1. << >> \in Seq(BOOLEAN) /\ << >> \in Seq(Frame)
    OBVIOUS
  <2> QED BY <2>1 DEF Init, Queued
<1>3. Unused
  BY DEF Init, Unused
<1>4. Numbered
  BY BoundsAssumption DEF Init, Numbered
<1> QED BY <1>1, <1>2, <1>3, <1>4 DEF Balanced

LEMMA BalancedNext == Balanced /\ [Next]_vars => Balanced'
<1>1. CASE UNCHANGED vars
  BY <1>1 DEF vars, Balanced, Shaped, Queued, Numbered, Tied, Unused, Ledger, Held
<1> QED BY <1>1, BalancedStep

\* The number the drop-to-latest throttle looks at is what is under way, for any
\* limits: through every encoder, connection and lost frame it is off by exactly
\* the frames that never come out and those former threads counted.
THEOREM LedgerBalances == Spec => []Ledger
<1>1. Balanced => Ledger
  BY DEF Balanced
<1> QED BY <1>1, BalancedInit, BalancedNext, PTL DEF Spec

-----------------------------------------------------------------------------
(* FramePipeline: what the client is shown                                  *)

Placed == /\ surfaces \in 0..MaxSurfaces /\ ctx.surface \in 0..surfaces
          /\ target \in [Encoders -> 0..surfaces]
          /\ madeBy \in [Surfaces -> 0..encoders]
          /\ DOMAIN feeds = Surfaces /\ DOMAIN chain = Surfaces
          /\ unpaintable \subseteq Surfaces /\ owed \in BOOLEAN /\ faults \in Nat

Paired == /\ (ctx.surface = None) <=> (ctx.encoder = None)
          /\ ctx.encoder = None => (ctx.needKey /\ vt = <<>>)

Aimed == \A e \in Encoders : batch[e] = <<>> => target[e] = None

Owned == \A s \in Surfaces : (madeBy[s] # None /\ ctx.surface = s) =>
            /\ ctx.encoder = madeBy[s]
            /\ batch[madeBy[s]] = <<>> \/ target[madeBy[s]] = s

Unfed == \A s \in Surfaces :
            /\ s > surfaces => (feeds[s] = {} /\ madeBy[s] = None)
            /\ feeds[s] = {} => s \notin unpaintable

Whole == /\ ~gap
         /\ \A e \in Encoders :
               /\ \A i \in DOMAIN channel[e] : ~channel[e][i].gap
               /\ \A i \in DOMAIN batch[e] : ~batch[e][i].gap

OpensWithKey(s, m) ==
    /\ target[m] = s => (batch[m] # <<>> /\ batch[m][1].key)
    /\ (ctx.surface = s /\ batch[m] = <<>>) =>
         IF channel[m] = <<>> THEN fresh ELSE channel[m][1].key

Opened == \A s \in Surfaces, m \in Encoders : madeBy[s] = m =>
             /\ feeds[s] = {} => OpensWithKey(s, m)
             /\ feeds[s] = {m} => (chain[s] = m /\ s \notin unpaintable)

Watched == /\ Placed /\ Paired /\ Aimed /\ Owned /\ Unfed
           /\ faults = 0 => (Whole /\ Opened)
           /\ KeyframeUnderWay

aimed == <<channel, batch, target, encoders, surfaces, chain, feeds, unpaintable, madeBy>>

\* A step that leaves the frames, the surfaces and the encoder alone, and arms an IDR
\* when it asks for one.
LEMMA QuietWatches ==
    ASSUME Watched, UNCHANGED <<aimed, vt, fresh, gap, faults>>,
           ctx'.surface = ctx.surface, ctx'.encoder = ctx.encoder, owed' \in BOOLEAN,
           ctx'.needKey \/ (ctx'.needKey = ctx.needKey /\ owed' = owed)
    PROVE  Watched'
<1>1. /\ channel' = channel /\ batch' = batch /\ target' = target /\ vt' = vt
      /\ fresh' = fresh /\ gap' = gap /\ encoders' = encoders /\ surfaces' = surfaces
      /\ chain' = chain /\ feeds' = feeds /\ unpaintable' = unpaintable
      /\ madeBy' = madeBy /\ faults' = faults
  BY DEF aimed
<1>2. Placed' /\ Aimed' /\ Owned' /\ Unfed' /\ (faults' = 0 => Whole')
  BY <1>1 DEF Watched, Placed, Aimed, Owned, Unfed, Whole
<1>3. faults' = 0 => Opened'
  BY <1>1 DEF Watched, Opened, OpensWithKey
<1>4. Paired'
  BY <1>1 DEF Watched, Paired
<1>5. KeyframeUnderWay'
  <2>1. CASE ctx'.needKey
    BY <2>1 DEF KeyframeUnderWay
  <2>2. CASE ctx'.needKey = ctx.needKey /\ owed' = owed
    BY <1>1, <2>2 DEF Watched, KeyframeUnderWay, KeyIn
  <2> QED BY <2>1, <2>2
<1> QED BY <1>2, <1>3, <1>4, <1>5 DEF Watched

\* With the encoder go the surface and what was asked for: the next capture sets all
\* of it up again.
LEMMA DropWatches ==
    ASSUME Watched, DropEncoder, UNCHANGED <<aimed, faults>>, owed' \in BOOLEAN,
           ctx'.surface = None, ctx'.encoder = None, ctx'.needKey
    PROVE  Watched'
<1>1. /\ channel' = channel /\ batch' = batch /\ target' = target /\ vt' = <<>>
      /\ fresh' = FALSE /\ gap' = FALSE /\ encoders' = encoders /\ surfaces' = surfaces
      /\ chain' = chain /\ feeds' = feeds /\ unpaintable' = unpaintable
      /\ madeBy' = madeBy /\ faults' = faults
  BY DEF aimed, DropEncoder
<1>2. Placed' /\ Aimed' /\ Unfed' /\ (faults' = 0 => Whole')
  BY <1>1 DEF Watched, Placed, Aimed, Unfed, Whole
<1>3. Owned' /\ Paired'
  BY <1>1 DEF Owned, Paired, Surfaces
<1>4. faults' = 0 => Opened'
  BY <1>1 DEF Watched, Opened, OpensWithKey, Surfaces
<1>5. KeyframeUnderWay'
  BY <1>1 DEF KeyframeUnderWay
<1> QED BY <1>2, <1>3, <1>4, <1>5 DEF Watched

\* A remap's surface belongs to nobody, and an IDR is armed for it.
LEMMA RemapWatches ==
    ASSUME Watched, Balanced, BlankRemap
    PROVE  Watched'
<1>1. /\ channel' = channel /\ batch' = batch /\ target' = target /\ vt' = vt
      /\ fresh' = fresh /\ gap' = gap /\ encoders' = encoders /\ surfaces' = surfaces + 1
      /\ chain' = chain /\ feeds' = feeds /\ unpaintable' = unpaintable
      /\ madeBy' = madeBy /\ faults' = faults /\ owed' = TRUE
      /\ surfaces < MaxSurfaces /\ ctx.surface # None /\ ctx.encoder # None
      /\ ctx' = [ctx EXCEPT !.surface = surfaces + 1, !.needKey = TRUE]
  BY DEF BlankRemap, NeedsSurface, NeedsEncoder
<1>2. ctx'.surface = surfaces + 1 /\ ctx'.needKey /\ ctx'.encoder = ctx.encoder
  BY <1>1 DEF Balanced, Shaped, Fields
<1>3. surfaces \in Nat /\ surfaces + 1 \in Surfaces
  BY <1>1, BoundsAssumption DEF Watched, Placed, Surfaces
<1>4. madeBy[surfaces + 1] = None
  BY <1>3 DEF Watched, Unfed
<1>5. Placed'
  BY <1>1, <1>2, <1>3, BoundsAssumption DEF Watched, Placed
<1>6. Aimed' /\ Unfed' /\ (faults' = 0 => Whole')
  BY <1>1, <1>3 DEF Watched, Aimed, Unfed, Whole, Surfaces
<1>7. Owned' /\ Paired' /\ KeyframeUnderWay'
  BY <1>1, <1>2, <1>3, <1>4 DEF Owned, Paired, KeyframeUnderWay
<1>8. faults' = 0 => Opened'
  BY <1>1, <1>2, <1>4 DEF Watched, Opened, OpensWithKey
<1> QED BY <1>5, <1>6, <1>7, <1>8 DEF Watched

\* What a capture submits carries the IDR that was armed, and a new surface waits for
\* the first frame of a new encoder.
LEMMA CaptureWatches ==
    ASSUME Watched, Balanced, NEW asked \in BOOLEAN, NEW wedged \in BOOLEAN,
           NEW early \in BOOLEAN, SubmitBgra(asked, wedged, early)
    PROVE  Watched'
<1> DEFINE c == Prepared(asked, wedged)
<1>1. /\ SetupLocked
      /\ Drop(c) \/ Encode(c) \/ EncodeFails(c)
      /\ channel' = channel /\ batch' = batch /\ target' = target
      /\ owed' = (owed \/ asked \/ wedged)
  BY DEF SubmitBgra
<1>2. /\ DOMAIN c = Fields
      /\ c.needKey = (ctx.needKey \/ asked \/ wedged)
      /\ c.surface = (IF ctx.surface = None THEN surfaces + 1 ELSE ctx.surface)
      /\ c.encoder = (IF ctx.encoder = None THEN encoders + 1 ELSE ctx.encoder)
  BY DEF Prepared, SetUp, Demigrated, Balanced, Shaped, Fields
<1>3. c.needKey \in BOOLEAN /\ owed' \in BOOLEAN
  BY <1>1, <1>2 DEF Balanced, Shaped, Watched, Placed
<1> HIDE DEF c
<1>4. ctx'.surface = c.surface /\ ctx'.encoder = c.encoder
  BY <1>1, <1>2 DEF Drop, Encode, EncodeFails, Fields
<1>5. \/ vt' = Inside /\ ctx'.needKey = c.needKey /\ faults' = faults
      \/ vt' = Append(Inside, c.needKey) /\ faults' = faults
      \/ vt' = Inside /\ faults' = faults + 1
  BY <1>1, <1>2 DEF Drop, Encode, EncodeFails, Fields
<1>6. faults' \in Nat /\ (faults' = 0 => faults = 0)
  BY <1>5 DEF Watched, Placed
<1>7. CASE ctx.encoder = None
  <2> DEFINE s1 == surfaces + 1
             m1 == encoders + 1
  <2>1. ctx.surface = None /\ ctx.needKey
    BY <1>7 DEF Watched, Paired
  <2> NeedsSurface /\ NeedsEncoder
    BY <1>7, <2>1 DEF NeedsSurface, NeedsEncoder
  <2>2. /\ s1 \in Surfaces /\ m1 \in Encoders /\ surfaces' = s1 /\ encoders' = m1
        /\ fresh' = TRUE /\ gap' = FALSE /\ Inside = <<>>
        /\ UNCHANGED <<chain, feeds, unpaintable>>
    <3>1. /\ surfaces' = s1 /\ encoders' = m1 /\ fresh' = TRUE /\ gap' = FALSE
          /\ UNCHANGED <<chain, feeds, unpaintable>>
          /\ surfaces < MaxSurfaces /\ encoders < MaxEncoders
      BY <1>1 DEF SetupLocked
    <3>2. surfaces \in 0..MaxSurfaces /\ encoders \in 0..MaxEncoders
      BY DEF Watched, Placed, Balanced, Numbered
    <3>3. s1 \in Surfaces /\ m1 \in Encoders
      BY <3>1, <3>2, BoundsAssumption DEF Surfaces
    <3> QED BY <3>1, <3>3 DEF Inside
  <2>3. madeBy' = [madeBy EXCEPT ![s1] = m1]
    <3>1. SetUp(ctx).encoder = m1
      BY <1>7 DEF SetUp, Balanced, Shaped, Fields
    <3>2. madeBy' = [madeBy EXCEPT ![s1] = SetUp(ctx).encoder]
      BY <1>1 DEF SetupLocked
    <3> QED BY <3>1, <3>2
  <2>4. ctx'.surface = s1 /\ ctx'.encoder = m1 /\ c.needKey
    BY <1>2, <1>3, <1>4, <1>7, <2>1
  <2>5. channel[m1] = <<>> /\ batch[m1] = <<>> /\ target[m1] = None
    BY <2>2 DEF Balanced, Unused, Numbered, Watched, Aimed
  <2>6. feeds[s1] = {} /\ s1 \notin unpaintable
    BY <2>2 DEF Watched, Unfed, Placed
  <2>7. surfaces \in Nat /\ encoders \in Nat /\ s1 <= MaxSurfaces
    BY <2>2 DEF Surfaces, Watched, Placed, Balanced, Numbered
  <2>8. madeBy'[s1] = m1 /\ \A s \in Surfaces : s # s1 => madeBy'[s] = madeBy[s]
    BY <2>2, <2>3 DEF Watched, Placed
  <2>9. madeBy' \in [Surfaces -> 0..m1]
    <3>1. madeBy \in [Surfaces -> 0..encoders]
      BY DEF Watched, Placed
    <3>2. \A s \in Surfaces : madeBy'[s] \in 0..m1
      BY <2>7, <2>8, <3>1
    <3>3. madeBy' = [s \in Surfaces |-> madeBy'[s]]
      BY <2>3, <3>1
    <3> QED BY <3>2, <3>3
  <2>10. target \in [Encoders -> 0..s1]
    BY <2>7 DEF Watched, Placed
  <2> HIDE DEF s1, m1
  <2>11. s1 \in Nat /\ s1 > 0 /\ s1 = surfaces + 1 /\ m1 # 0
    BY <2>7 DEF s1, m1
  <2>12. Placed'
    BY <1>1, <1>3, <1>6, <2>2, <2>4, <2>7, <2>9, <2>10, <2>11 DEF Watched, Placed
  <2>13. Paired' /\ Aimed'
    BY <1>1, <2>4, <2>11 DEF Watched, Paired, Aimed
  <2>14. Owned'
    BY <1>1, <2>4, <2>5, <2>8 DEF Owned
  <2>15. Unfed'
    <3> SUFFICES ASSUME NEW s \in Surfaces
                 PROVE  /\ s > s1 => (feeds[s] = {} /\ madeBy'[s] = None)
                        /\ feeds[s] = {} => s \notin unpaintable
      BY <2>2 DEF Unfed
    <3>1. s > s1 => s > surfaces /\ s # s1
      BY <2>7, <2>11 DEF Surfaces
    <3> QED BY <3>1, <2>8 DEF Watched, Unfed
  <2>16. faults' = 0 => Whole'
    BY <1>1, <1>6, <2>2 DEF Watched, Whole
  <2>17. faults' = 0 => Opened'
    <3> SUFFICES ASSUME faults = 0, NEW s \in Surfaces, NEW m \in Encoders, madeBy'[s] = m
                 PROVE  /\ feeds[s] = {} => OpensWithKey(s, m)'
                        /\ feeds[s] = {m} => (chain[s] = m /\ s \notin unpaintable)
      BY <1>6, <2>2 DEF Opened
    <3>1. CASE s = s1
      <4>1. m = m1
        BY <3>1, <2>8
      <4>2. feeds[s] # {m}
        BY <3>1, <2>6
      <4>3. OpensWithKey(s, m)'
        BY <3>1, <4>1, <1>1, <2>2, <2>5, <2>11 DEF OpensWithKey
      <4> QED BY <4>2, <4>3
    <3>2. CASE s # s1
      <4>1. madeBy[s] = m
        BY <3>2, <2>8
      <4>2. /\ feeds[s] = {} => OpensWithKey(s, m)
            /\ feeds[s] = {m} => (chain[s] = m /\ s \notin unpaintable)
        BY <4>1 DEF Watched, Opened
      <4>3. OpensWithKey(s, m) => OpensWithKey(s, m)'
        BY <3>2, <1>1, <2>4 DEF OpensWithKey
      <4> QED BY <4>2, <4>3
    <3> QED BY <3>1, <3>2
  <2>18. KeyframeUnderWay'
    <3> SUFFICES ASSUME faults' = 0
                 PROVE  ctx'.needKey \/ \E i \in DOMAIN vt' : vt'[i]
      BY DEF KeyframeUnderWay
    <3>1. CASE vt' = Inside /\ ctx'.needKey = c.needKey
      BY <3>1, <2>4
    <3>2. CASE vt' = Append(Inside, c.needKey)
      <4>1. vt' = <<TRUE>>
        BY <3>2, <1>3, <2>2, <2>4
      <4>2. 1 \in DOMAIN vt' /\ vt'[1] = TRUE
        BY <4>1
      <4> QED BY <4>2
    <3> QED BY <1>5, <3>1, <3>2 DEF Watched, Placed
  <2> QED BY <2>12, <2>13, <2>14, <2>15, <2>16, <2>17, <2>18 DEF Watched
<1>8. CASE ctx.encoder # None
  <2>1. ctx.surface # None
    BY <1>8 DEF Watched, Paired
  <2>2. /\ surfaces' = surfaces /\ encoders' = encoders /\ madeBy' = madeBy
        /\ fresh' = fresh /\ gap' = gap /\ Inside = vt
        /\ chain' = chain /\ feeds' = feeds /\ unpaintable' = unpaintable
    <3>1. ~NeedsSurface /\ ~NeedsEncoder
      BY <1>8, <2>1 DEF NeedsSurface, NeedsEncoder
    <3> QED BY <1>1, <3>1 DEF SetupLocked, Inside
  <2>3. ctx'.surface = ctx.surface /\ ctx'.encoder = ctx.encoder
    BY <1>2, <1>4, <1>8, <2>1
  <2>4. Placed' /\ Paired' /\ Aimed' /\ Owned' /\ Unfed'
    BY <1>1, <1>3, <1>6, <1>8, <2>1, <2>2, <2>3
    DEF Watched, Placed, Paired, Aimed, Owned, Unfed
  <2>5. faults' = 0 => Whole' /\ Opened'
    BY <1>1, <1>6, <2>2, <2>3 DEF Watched, Whole, Opened, OpensWithKey
  <2>6. KeyframeUnderWay'
    <3> SUFFICES ASSUME faults' = 0, owed'
                 PROVE  \/ ctx'.needKey
                        \/ (\E i \in DOMAIN vt' : vt'[i]) \/ (fresh /\ vt' # <<>>)
                        \/ KeyIn(channel[ctx.encoder])
                        \/ (target[ctx.encoder] = ctx.surface /\ KeyIn(batch[ctx.encoder]))
      BY <1>1, <2>2, <2>3 DEF KeyframeUnderWay, KeyIn
    <3>1. \/ c.needKey
          \/ (\E i \in DOMAIN vt : vt[i]) \/ (fresh /\ vt # <<>>)
          \/ KeyIn(channel[ctx.encoder])
          \/ (target[ctx.encoder] = ctx.surface /\ KeyIn(batch[ctx.encoder]))
      BY <1>1, <1>2, <1>6 DEF Watched, KeyframeUnderWay
    <3>2. CASE vt' = Inside /\ ctx'.needKey = c.needKey
      BY <3>1, <3>2, <2>2
    <3>3. CASE vt' = Append(Inside, c.needKey)
      <4>1. /\ vt' \in Seq(BOOLEAN) /\ Len(vt') = Len(vt) + 1 /\ Len(vt) \in Nat
            /\ \A i \in 1..Len(vt) : vt'[i] = vt[i]
            /\ vt'[Len(vt) + 1] = c.needKey
        BY <3>3, <1>3, <2>2 DEF Balanced, Queued
      <4>2. DOMAIN vt' = 1..(Len(vt) + 1) /\ DOMAIN vt = 1..Len(vt) /\ vt' # <<>>
        BY <4>1 DEF Balanced, Queued
      <4> QED BY <3>1, <4>1, <4>2
    <3> QED BY <1>5, <3>2, <3>3 DEF Watched, Placed
  <2> QED BY <2>4, <2>5, <2>6 DEF Watched
<1> QED BY <1>7, <1>8

\* What a queue is with one more at its end.
LEMMA Appended ==
    ASSUME NEW S, NEW q \in Seq(S), NEW x \in S
    PROVE  /\ Len(q) \in Nat /\ DOMAIN q = 1..Len(q)
           /\ DOMAIN Append(q, x) = 1..(Len(q) + 1)
           /\ \A i \in 1..Len(q) : Append(q, x)[i] = q[i]
           /\ Append(q, x)[Len(q) + 1] = x
           /\ Append(q, x) # <<>>
           /\ q = <<>> => Len(q) = 0
           /\ q # <<>> => Len(q) > 0
<1>1. Len(q) \in Nat /\ DOMAIN q = 1..Len(q)
  OBVIOUS
<1>2. /\ Append(q, x) \in Seq(S) /\ Append(q, x) # <<>> /\ Len(Append(q, x)) = Len(q) + 1
      /\ \A i \in 1..Len(q) : Append(q, x)[i] = q[i]
      /\ Append(q, x)[Len(q) + 1] = x
  BY AppendProperties
<1>3. DOMAIN Append(q, x) = 1..(Len(q) + 1)
  BY <1>2
<1>4. (q = <<>> => Len(q) = 0) /\ (q # <<>> => Len(q) > 0)
  BY EmptySeq
<1> QED BY <1>1, <1>2, <1>3, <1>4

\* The first frame an encoder delivers is an IDR, and an IDR comes out as one.
LEMMA DeliverWatches ==
    ASSUME Watched, Balanced, NEW periodic \in BOOLEAN, Deliver(periodic)
    PROVE  Watched'
<1> DEFINE frame == [key |-> Head(vt) \/ fresh \/ periodic, gap |-> gap]
           e == ctx.encoder
<1>1. /\ vt # <<>> /\ vt' = Tail(vt) /\ fresh' = FALSE /\ gap' = FALSE
      /\ channel' = [channel EXCEPT ![e] = Append(@, frame)]
      /\ ctx' = ctx /\ batch' = batch /\ target' = target /\ encoders' = encoders
      /\ surfaces' = surfaces /\ chain' = chain /\ feeds' = feeds
      /\ unpaintable' = unpaintable /\ madeBy' = madeBy /\ owed' = owed
      /\ faults' = faults
  BY DEF Deliver
<1>2. e # None /\ e \in Encoders
  BY <1>1, Countable DEF Watched, Paired
<1>3. Head(vt) \in BOOLEAN /\ fresh \in BOOLEAN /\ gap \in BOOLEAN
  BY <1>1, HeadTailProperties DEF Balanced, Queued
<1>4. /\ frame \in Frame /\ frame.gap = gap
      /\ Head(vt) => frame.key
      /\ fresh => frame.key
  BY <1>3 DEF Frame
<1> HIDE DEF frame
<1>5. channel[e] \in Seq(Frame)
  BY <1>2 DEF Balanced, Queued
<1>6. /\ channel'[e] = Append(channel[e], frame)
      /\ \A other \in Encoders : other # e => channel'[other] = channel[other]
  BY <1>1, <1>2 DEF Balanced, Queued
<1> DEFINE n == Len(channel[e])
<1>7. /\ n \in Nat /\ DOMAIN channel[e] = 1..n /\ DOMAIN channel'[e] = 1..(n + 1)
      /\ \A i \in 1..n : channel'[e][i] = channel[e][i]
      /\ channel'[e][n + 1] = frame
      /\ channel'[e] # <<>>
      /\ channel[e] = <<>> => n = 0
      /\ channel[e] # <<>> => n > 0
  <2> DEFINE q == channel[e]
  <2>1. q \in Seq(Frame) /\ frame \in Frame
    BY <1>4, <1>5
  <2> HIDE DEF q
  <2>2. /\ Len(q) \in Nat /\ DOMAIN q = 1..Len(q)
        /\ DOMAIN Append(q, frame) = 1..(Len(q) + 1)
        /\ \A i \in 1..Len(q) : Append(q, frame)[i] = q[i]
        /\ Append(q, frame)[Len(q) + 1] = frame
        /\ Append(q, frame) # <<>>
        /\ q = <<>> => Len(q) = 0
        /\ q # <<>> => Len(q) > 0
    BY <2>1, Appended
  <2> QED BY <2>2, <1>6 DEF q
<1> HIDE DEF n, e
<1>8. Placed' /\ Aimed' /\ Owned' /\ Unfed'
  BY <1>1 DEF Watched, Placed, Aimed, Owned, Unfed
<1>9. Paired'
  BY <1>1, <1>2 DEF Watched, Paired, e
<1>10. faults' = 0 => Whole'
  <2> SUFFICES ASSUME faults = 0 PROVE Whole'
    BY <1>1
  <2>1. ~gap /\ \A i \in 1..n : ~channel[e][i].gap
    BY <1>2, <1>7 DEF Watched, Whole
  <2>2. \A i \in DOMAIN channel'[e] : ~channel'[e][i].gap
    <3>1. channel'[e][n + 1].gap = gap
      BY <1>4, <1>7
    <3>2. \A i \in 1..(n + 1) : i \in 1..n \/ i = n + 1
      BY <1>7
    <3> QED BY <2>1, <3>1, <3>2, <1>7
  <2> QED BY <2>2, <1>1, <1>6 DEF Watched, Whole
<1>11. faults' = 0 => Opened'
  <2> SUFFICES ASSUME faults = 0, NEW s \in Surfaces, NEW m \in Encoders, madeBy[s] = m
               PROVE  /\ feeds[s] = {} => OpensWithKey(s, m)'
                      /\ feeds[s] = {m} => (chain[s] = m /\ s \notin unpaintable)
    BY <1>1 DEF Opened
  <2>1. /\ feeds[s] = {} => OpensWithKey(s, m)
        /\ feeds[s] = {m} => (chain[s] = m /\ s \notin unpaintable)
    BY DEF Watched, Opened
  <2>2. ASSUME OpensWithKey(s, m), ctx.surface = s, batch[m] = <<>>
        PROVE  channel'[m] # <<>> /\ channel'[m][1].key
    <3>1. m = e
      BY <2>2 DEF Watched, Owned, e
    <3>2. IF channel[e] = <<>> THEN fresh ELSE channel[e][1].key
      BY <2>2, <3>1 DEF OpensWithKey
    <3>3. CASE channel[e] = <<>>
      <4>1. channel'[e][1] = frame
        BY <3>3, <1>7
      <4> QED BY <3>1, <3>2, <3>3, <4>1, <1>4, <1>7
    <3>4. CASE channel[e] # <<>>
      <4>1. 1 \in 1..n
        BY <3>4, <1>7
      <4> QED BY <3>1, <3>2, <3>4, <4>1, <1>7
    <3> QED BY <3>3, <3>4
  <2>3. OpensWithKey(s, m) => OpensWithKey(s, m)'
    BY <2>2, <1>1 DEF OpensWithKey
  <2> QED BY <2>1, <2>3
<1>12. KeyframeUnderWay'
  <2> SUFFICES ASSUME faults = 0, owed
               PROVE  \/ ctx.needKey
                      \/ (\E i \in DOMAIN vt' : vt'[i])
                      \/ KeyIn(channel'[e])
                      \/ (target[e] = ctx.surface /\ KeyIn(batch[e]))
    BY <1>1 DEF KeyframeUnderWay, KeyIn, e
  <2>1. \/ ctx.needKey
        \/ (\E i \in DOMAIN vt : vt[i]) \/ (fresh /\ vt # <<>>)
        \/ KeyIn(channel[e])
        \/ (target[e] = ctx.surface /\ KeyIn(batch[e]))
    BY DEF Watched, KeyframeUnderWay, e
  <2>2. frame.key => KeyIn(channel'[e])
    BY <1>7 DEF KeyIn
  <2>3. ASSUME NEW i \in DOMAIN vt, vt[i]
        PROVE  frame.key \/ \E j \in DOMAIN vt' : vt'[j]
    <3>1. /\ vt \in Seq(BOOLEAN) /\ Len(vt) \in Nat /\ DOMAIN vt = 1..Len(vt)
          /\ DOMAIN vt' = 1..(Len(vt) - 1)
          /\ \A j \in 1..(Len(vt) - 1) : vt'[j] = vt[j + 1]
      BY <1>1 DEF Balanced, Queued
    <3>2. CASE i = 1
      <4>1. Head(vt) = vt[1]
        BY <1>1, <3>1
      <4> QED BY <2>3, <3>2, <4>1, <1>4
    <3>3. CASE i # 1
      <4>1. i - 1 \in 1..(Len(vt) - 1) /\ (i - 1) + 1 = i
        BY <3>1, <3>3
      <4>2. vt'[i - 1]
        BY <2>3, <3>1, <4>1
      <4> QED BY <3>1, <4>1, <4>2
    <3> QED BY <3>2, <3>3
  <2>4. KeyIn(channel[e]) => KeyIn(channel'[e])
    BY <1>7 DEF KeyIn
  <2> QED BY <2>1, <2>2, <2>3, <2>4, <1>4
<1> QED BY <1>8, <1>9, <1>10, <1>11, <1>12 DEF Watched

\* From the first frame that is lost on, only the books are kept.
LEMMA LossWatches ==
    ASSUME Watched, Balanced, NEW encoded \in BOOLEAN, LoseFrame(encoded)
    PROVE  Watched'
<1>1. /\ vt # <<>> /\ channel' = channel /\ ctx' = ctx /\ batch' = batch
      /\ target' = target /\ encoders' = encoders /\ surfaces' = surfaces
      /\ chain' = chain /\ feeds' = feeds /\ unpaintable' = unpaintable
      /\ madeBy' = madeBy /\ owed' = owed /\ faults' = faults + 1
  BY DEF LoseFrame
<1>2. faults' \in Nat /\ faults' # 0
  BY <1>1 DEF Watched, Placed
<1>3. Placed' /\ Aimed' /\ Owned' /\ Unfed'
  BY <1>1, <1>2 DEF Watched, Placed, Aimed, Owned, Unfed
<1>4. Paired'
  BY <1>1 DEF Watched, Paired
<1>5. KeyframeUnderWay'
  BY <1>2 DEF KeyframeUnderWay
<1> QED BY <1>2, <1>3, <1>4, <1>5 DEF Watched

\* A thread takes the first frame of its encoder for the surface that was set up with
\* it, if that is still the current one.
LEMMA TakeWatches ==
    ASSUME Watched, Balanced, NEW e \in Encoders, ShipTake(e)
    PROVE  Watched'
<1>1. /\ batch[e] = <<>> /\ channel[e] # <<>>
      /\ batch' = [batch EXCEPT ![e] = channel[e]]
      /\ channel' = [channel EXCEPT ![e] = <<>>]
      /\ target' = [target EXCEPT ![e] = ctx.surface]
      /\ ctx' = ctx /\ vt' = vt /\ fresh' = fresh /\ gap' = gap /\ encoders' = encoders
      /\ surfaces' = surfaces /\ chain' = chain /\ feeds' = feeds
      /\ unpaintable' = unpaintable /\ madeBy' = madeBy /\ owed' = owed
      /\ faults' = faults
  BY DEF ShipTake
<1>2. /\ batch'[e] = channel[e] /\ channel'[e] = <<>> /\ target'[e] = ctx.surface
      /\ \A m \in Encoders : m # e => /\ batch'[m] = batch[m] /\ channel'[m] = channel[m]
                                       /\ target'[m] = target[m]
  BY <1>1 DEF Balanced, Queued, Watched, Placed
<1>3. Placed'
  <2>1. target' \in [Encoders -> 0..surfaces]
    BY <1>1 DEF Watched, Placed
  <2> QED BY <1>1, <2>1 DEF Watched, Placed
<1>4. Paired' /\ Unfed'
  BY <1>1 DEF Watched, Paired, Unfed
<1>5. Aimed'
  BY <1>1, <1>2 DEF Watched, Aimed
<1>6. Owned'
  <2> SUFFICES ASSUME NEW s \in Surfaces, madeBy[s] # None, ctx.surface = s
               PROVE  /\ ctx.encoder = madeBy[s]
                      /\ batch'[madeBy[s]] = <<>> \/ target'[madeBy[s]] = s
    BY <1>1 DEF Owned
  <2>1. /\ ctx.encoder = madeBy[s]
        /\ batch[madeBy[s]] = <<>> \/ target[madeBy[s]] = s
    BY DEF Watched, Owned
  <2>2. madeBy[s] \in Encoders
    BY <2>1, Countable
  <2> QED BY <2>1, <2>2, <1>2
<1>7. faults' = 0 => Whole'
  <2>1. DOMAIN (<< >>) = {}
    OBVIOUS
  <2> QED BY <1>1, <1>2, <2>1 DEF Watched, Whole
<1>8. faults' = 0 => Opened'
  <2> SUFFICES ASSUME faults = 0, NEW s \in Surfaces, NEW m \in Encoders, madeBy[s] = m
               PROVE  /\ feeds[s] = {} => OpensWithKey(s, m)'
                      /\ feeds[s] = {m} => (chain[s] = m /\ s \notin unpaintable)
    BY <1>1 DEF Opened
  <2>1. /\ feeds[s] = {} => OpensWithKey(s, m)
        /\ feeds[s] = {m} => (chain[s] = m /\ s \notin unpaintable)
    BY DEF Watched, Opened
  <2>2. CASE m = e
    <3>1. OpensWithKey(s, m) => OpensWithKey(s, m)'
      BY <2>2, <1>1, <1>2 DEF OpensWithKey
    <3> QED BY <2>1, <3>1
  <2>3. CASE m # e
    <3>1. OpensWithKey(s, m) => OpensWithKey(s, m)'
      BY <2>3, <1>1, <1>2 DEF OpensWithKey
    <3> QED BY <2>1, <3>1
  <2> QED BY <2>2, <2>3
<1>9. KeyframeUnderWay'
  <2> SUFFICES ASSUME faults = 0, owed
               PROVE  \/ ctx.needKey
                      \/ (\E i \in DOMAIN vt : vt[i]) \/ (fresh /\ vt # <<>>)
                      \/ KeyIn(channel'[ctx.encoder])
                      \/ (target'[ctx.encoder] = ctx.surface /\ KeyIn(batch'[ctx.encoder]))
    BY <1>1 DEF KeyframeUnderWay, KeyIn
  <2>1. \/ ctx.needKey
        \/ (\E i \in DOMAIN vt : vt[i]) \/ (fresh /\ vt # <<>>)
        \/ KeyIn(channel[ctx.encoder])
        \/ (target[ctx.encoder] = ctx.surface /\ KeyIn(batch[ctx.encoder]))
    BY DEF Watched, KeyframeUnderWay
  <2>2. CASE ctx.encoder = e
    <3>1. ~KeyIn(batch[e])
      <4>1. DOMAIN batch[e] = {}
        BY <1>1
      <4> QED BY <4>1 DEF KeyIn
    <3> QED BY <2>1, <2>2, <3>1, <1>2
  <2>3. CASE ctx.encoder # e
    <3>1. ctx.encoder = None => ctx.needKey
      BY DEF Watched, Paired
    <3>2. ctx.encoder # None => ctx.encoder \in Encoders
      BY Countable
    <3> QED BY <2>1, <2>3, <3>1, <3>2, <1>2
  <2> QED BY <2>2, <2>3
<1> QED BY <1>3, <1>4, <1>5, <1>6, <1>7, <1>8, <1>9 DEF Watched

\* A frame that is sent continues what its encoder began on that surface, and an IDR
\* that is sent to the current surface was the one that was asked for.
LEMMA ShipWatches ==
    ASSUME Watched, Balanced, NEW e \in Encoders, ShipFrames(e)
    PROVE  Watched'
<1> DEFINE s == target[e]
<1>1. /\ batch[e] # <<>>
      /\ batch' = [batch EXCEPT ![e] = <<>>] /\ target' = [target EXCEPT ![e] = None]
      /\ channel' = channel /\ vt' = vt /\ fresh' = fresh /\ gap' = gap
      /\ encoders' = encoders /\ surfaces' = surfaces /\ madeBy' = madeBy
      /\ faults' = faults
  BY DEF ShipFrames
<1>2. /\ ctx'.surface = ctx.surface /\ ctx'.encoder = ctx.encoder
      /\ ctx'.needKey = ctx.needKey
  BY DEF ShipFrames, Balanced, Shaped, Fields
<1>3. Exists(s) =>
        /\ chain' = [chain EXCEPT ![s] = e]
        /\ feeds' = [feeds EXCEPT ![s] = @ \cup {e}]
        /\ unpaintable' = IF Follows(e, s, batch[e]) /\ Unbroken(batch[e])
                          THEN unpaintable ELSE unpaintable \cup {s}
        /\ owed' = (owed /\ ~(e = ctx.encoder /\ s = ctx.surface /\ KeyIn(batch[e])))
  BY DEF ShipFrames, Forwarded, KeyIn
<1>4. ~Exists(s) => /\ chain' = chain /\ feeds' = feeds /\ unpaintable' = unpaintable
                    /\ owed' = owed
  BY DEF ShipFrames
<1>5. /\ batch'[e] = <<>> /\ target'[e] = None
      /\ \A m \in Encoders : m # e => batch'[m] = batch[m] /\ target'[m] = target[m]
  BY <1>1 DEF Balanced, Queued, Watched, Placed
<1>6. s \in 0..surfaces /\ surfaces \in 0..MaxSurfaces /\ ctx.surface \in 0..surfaces
  BY DEF Watched, Placed
<1>7. Exists(s) => s \in Surfaces
  BY <1>6, BoundsAssumption DEF Exists, Surfaces
<1>8. s = ctx.surface /\ s # None => Exists(s)
  BY <1>6 DEF Exists
<1> HIDE DEF s
<1>9. \A other \in Surfaces : ~(Exists(s) /\ other = s) =>
        /\ chain'[other] = chain[other] /\ feeds'[other] = feeds[other]
        /\ other \in unpaintable' => other \in unpaintable
  <2>1. CASE Exists(s)
    BY <2>1, <1>3, <1>7 DEF Watched, Placed
  <2>2. CASE ~Exists(s)
    BY <2>2, <1>4
  <2> QED BY <2>1, <2>2
<1>10. Exists(s) => chain'[s] = e /\ feeds'[s] = feeds[s] \cup {e}
  BY <1>3, <1>7 DEF Watched, Placed
<1>11. Placed'
  <2>1. owed' \in BOOLEAN
    <3>1. owed \in BOOLEAN
      BY DEF Watched, Placed
    <3> QED BY <3>1, <1>3, <1>4
  <2>2. DOMAIN feeds' = Surfaces /\ DOMAIN chain' = Surfaces /\ unpaintable' \subseteq Surfaces
    BY <1>3, <1>4, <1>7 DEF Watched, Placed
  <2>3. target' \in [Encoders -> 0..surfaces]
    BY <1>1, <1>6 DEF Watched, Placed
  <2> QED BY <1>1, <1>2, <2>1, <2>2, <2>3 DEF Watched, Placed
<1>12. Paired' /\ Aimed'
  BY <1>1, <1>2, <1>5 DEF Watched, Paired, Aimed
<1>13. Owned'
  <2> SUFFICES ASSUME NEW t \in Surfaces, madeBy[t] # None, ctx.surface = t
               PROVE  /\ ctx.encoder = madeBy[t]
                      /\ batch'[madeBy[t]] = <<>> \/ target'[madeBy[t]] = t
    BY <1>1, <1>2 DEF Owned
  <2>1. /\ ctx.encoder = madeBy[t]
        /\ batch[madeBy[t]] = <<>> \/ target[madeBy[t]] = t
    BY DEF Watched, Owned
  <2>2. madeBy[t] \in Encoders
    BY <2>1, Countable
  <2> QED BY <2>1, <2>2, <1>5
<1>14. Unfed'
  <2> SUFFICES ASSUME NEW t \in Surfaces
               PROVE  /\ t > surfaces => (feeds'[t] = {} /\ madeBy[t] = None)
                      /\ feeds'[t] = {} => t \notin unpaintable'
    BY <1>1 DEF Unfed
  <2>1. /\ t > surfaces => (feeds[t] = {} /\ madeBy[t] = None)
        /\ feeds[t] = {} => t \notin unpaintable
    BY DEF Watched, Unfed
  <2>2. CASE Exists(s) /\ t = s
    <3>1. feeds'[t] # {} /\ ~(t > surfaces)
      BY <2>2, <1>6, <1>10
    <3> QED BY <3>1
  <2>3. CASE ~(Exists(s) /\ t = s)
    BY <2>1, <2>3, <1>9
  <2> QED BY <2>2, <2>3
<1>15. faults' = 0 => Whole'
  <2>1. DOMAIN (<< >>) = {}
    OBVIOUS
  <2> QED BY <1>1, <1>5, <2>1 DEF Watched, Whole
<1>16. faults' = 0 => Opened'
  <2> SUFFICES ASSUME faults = 0, NEW t \in Surfaces, NEW m \in Encoders, madeBy[t] = m
               PROVE  /\ feeds'[t] = {} => OpensWithKey(t, m)'
                      /\ feeds'[t] = {m} => (chain'[t] = m /\ t \notin unpaintable')
    BY <1>1 DEF Opened
  <2>1. /\ feeds[t] = {} => OpensWithKey(t, m)
        /\ feeds[t] = {m} => (chain[t] = m /\ t \notin unpaintable)
        /\ feeds[t] = {} => t \notin unpaintable
    BY DEF Watched, Opened, Unfed
  <2>2. CASE Exists(s) /\ t = s
    <3>1. feeds'[t] # {}
      BY <2>2, <1>10
    <3>2. ASSUME feeds'[t] = {m} PROVE chain'[t] = m /\ t \notin unpaintable'
      <4>1. e = m /\ (feeds[t] = {} \/ feeds[t] = {m})
        <5>1. feeds[t] \cup {e} = {m}
          BY <2>2, <3>2, <1>10
        <5> QED BY <5>1
      <4>2. t \notin unpaintable
        BY <4>1, <2>1
      <4>3. 1 \in DOMAIN batch[e]
        <5>1. batch[e] \in Seq(Frame)
          BY DEF Balanced, Queued
        <5> QED BY <5>1, <1>1
      <4>4. ~batch[e][1].gap /\ Unbroken(batch[e])
        <5>1. \A i \in DOMAIN batch[e] : ~batch[e][i].gap
          BY DEF Watched, Whole
        <5>2. DOMAIN batch[e] = 1..Len(batch[e]) /\ Len(batch[e]) \in Nat
          BY DEF Balanced, Queued
        <5> QED BY <5>1, <5>2, <4>3 DEF Unbroken
      <4>5. Follows(e, t, batch[e])
        <5>1. CASE feeds[t] = {}
          <6>1. OpensWithKey(t, m) /\ target[m] = t
            BY <5>1, <2>1, <2>2, <4>1 DEF s
          <6> QED BY <6>1, <4>1 DEF OpensWithKey, Follows
        <5>2. CASE feeds[t] = {m}
          BY <5>2, <2>1, <4>1, <4>4 DEF Follows
        <5> QED BY <4>1, <5>1, <5>2
      <4> QED BY <2>2, <1>3, <1>10, <4>1, <4>2, <4>4, <4>5
    <3> QED BY <3>1, <3>2
  <2>3. CASE ~(Exists(s) /\ t = s)
    <3>1. /\ chain'[t] = chain[t] /\ feeds'[t] = feeds[t]
          /\ t \in unpaintable' => t \in unpaintable
      BY <2>3, <1>9
    <3>2. ASSUME OpensWithKey(t, m) PROVE OpensWithKey(t, m)'
      <4>1. CASE m # e
        BY <3>2, <4>1, <1>1, <1>2, <1>5 DEF OpensWithKey
      <4>2. CASE m = e
        <5>1. target'[m] # t
          BY <4>2, <1>5 DEF Surfaces
        <5>2. ctx.surface # t
          <6> SUFFICES ASSUME ctx.surface = t PROVE FALSE
            OBVIOUS
          <6>1. madeBy[t] # None /\ t # None
            BY DEF Surfaces
          <6>2. s = t
            BY <4>2, <6>1, <1>1 DEF Watched, Owned, s
          <6> QED BY <2>3, <6>1, <6>2, <1>8
        <5> QED BY <5>1, <5>2, <1>2 DEF OpensWithKey
      <4> QED BY <4>1, <4>2
    <3> QED BY <2>1, <3>1, <3>2
  <2> QED BY <2>2, <2>3
<1>17. KeyframeUnderWay'
  <2> SUFFICES ASSUME faults = 0, owed'
               PROVE  \/ ctx.needKey
                      \/ (\E i \in DOMAIN vt : vt[i]) \/ (fresh /\ vt # <<>>)
                      \/ KeyIn(channel[ctx.encoder])
                      \/ (target'[ctx.encoder] = ctx.surface /\ KeyIn(batch'[ctx.encoder]))
    BY <1>1, <1>2 DEF KeyframeUnderWay, KeyIn
  <2>1. owed
    BY <1>3, <1>4
  <2>2. \/ ctx.needKey
        \/ (\E i \in DOMAIN vt : vt[i]) \/ (fresh /\ vt # <<>>)
        \/ KeyIn(channel[ctx.encoder])
        \/ (target[ctx.encoder] = ctx.surface /\ KeyIn(batch[ctx.encoder]))
    BY <2>1 DEF Watched, KeyframeUnderWay
  <2>3. CASE ctx.encoder = e
    <3>1. ctx.surface # None
      BY <2>3 DEF Watched, Paired
    <3>2. ~(s = ctx.surface /\ KeyIn(batch[e]))
      BY <2>3, <3>1, <1>3, <1>8
    <3> QED BY <2>2, <2>3, <3>2 DEF s
  <2>4. CASE ctx.encoder # e
    <3>1. ctx.encoder = None => ctx.needKey
      BY DEF Watched, Paired
    <3>2. ctx.encoder # None => ctx.encoder \in Encoders
      BY Countable
    <3> QED BY <2>2, <2>4, <3>1, <3>2, <1>5
  <2> QED BY <2>3, <2>4
<1> QED BY <1>11, <1>12, <1>13, <1>14, <1>15, <1>16, <1>17 DEF Watched

LEMMA WatchedStep == ASSUME Watched, Balanced, Next PROVE Watched'
<1> owed \in BOOLEAN
  BY DEF Watched, Placed
<1>1. CASE BuildServerWithHandle
  BY <1>1, DropWatches DEF BuildServerWithHandle, FreshContext, aimed
<1>2. ASSUME NEW avc \in BOOLEAN, OnReady(avc) PROVE Watched'
  BY <1>2, QuietWatches DEF OnReady, Balanced, Shaped, Fields, aimed
<1>3. CASE OnClose
  BY <1>3, DropWatches DEF OnClose, Balanced, Shaped, Fields, aimed
<1>4. CASE ResetForLiveResize
  BY <1>4, DropWatches DEF ResetForLiveResize, Balanced, Shaped, Fields, aimed
<1>5. CASE ForceKeyframe \/ SuspendAcks \/ TrickleDue
  BY <1>5, QuietWatches
  DEF ForceKeyframe, SuspendAcks, TrickleDue, Balanced, Shaped, Fields, aimed
<1>6. CASE Migrate \/ TakeDemigrate
  BY <1>6, QuietWatches DEF Migrate, TakeDemigrate, aimed
<1>7. CASE DemigrateOnResume
  BY <1>7, QuietWatches DEF DemigrateOnResume, Demigrated, Balanced, Shaped, Fields, aimed
<1>8. ASSUME NEW lag \in 0..MaxLag, OnFrameAck(lag) PROVE Watched'
  BY <1>8, QuietWatches DEF OnFrameAck, Balanced, Shaped, Fields, aimed
<1>9. CASE Submit
  <2>1. CASE EventQueueHigh
    BY <2>1, QuietWatches DEF EventQueueHigh, vars, aimed
  <2> QED BY <1>9, <2>1, CaptureWatches DEF Submit
<1>10. CASE BlankRemap
  BY <1>10, RemapWatches
<1>11. CASE Encoder
  BY <1>11, DeliverWatches, LossWatches DEF Encoder
<1>12. ASSUME NEW e \in Encoders, ShipTake(e) \/ ShipFrames(e) PROVE Watched'
  BY <1>12, TakeWatches, ShipWatches
<1> QED BY <1>1, <1>2, <1>3, <1>4, <1>5, <1>6, <1>7, <1>8, <1>9, <1>10, <1>11, <1>12 DEF Next

\* No IDR that was armed is forgotten, and no surface is shown what it cannot paint,
\* for any limits and any number of encoders, surfaces, connections and remaps, until a
\* frame is lost in the encoder.
THEOREM KeyframesAreHeld == Spec => []KeyframesHold
<1>1. Init => Balanced /\ Watched
  <2> SUFFICES ASSUME Init PROVE Balanced /\ Watched
    OBVIOUS
  <2>1. Balanced
    BY BalancedInit
  <2>2. Placed
    <3>1. /\ surfaces = 0 /\ encoders = 0 /\ owed = FALSE /\ faults = 0 /\ unpaintable = {}
          /\ ctx.surface = 0 /\ MaxSurfaces \in Nat
          /\ target = [e \in Encoders |-> 0] /\ madeBy = [s \in Surfaces |-> 0]
          /\ DOMAIN feeds = Surfaces /\ DOMAIN chain = Surfaces
      BY BoundsAssumption DEF Init, FreshContext
    <3>2. 0 \in 0..0 /\ 0 \in 0..MaxSurfaces /\ 0 \in Nat /\ FALSE \in BOOLEAN
      BY <3>1
    <3>3. target \in [Encoders -> 0..0] /\ madeBy \in [Surfaces -> 0..0]
      BY <3>1, <3>2
    <3> QED BY <3>1, <3>2, <3>3 DEF Placed
  <2>3. Paired /\ Aimed /\ Owned /\ Unfed /\ KeyframeUnderWay
    BY DEF Init, FreshContext, Paired, Aimed, Owned, Unfed, KeyframeUnderWay
  <2>4. Whole
    <3>1. DOMAIN (<< >>) = {}
      OBVIOUS
    <3> QED BY <3>1 DEF Init, Whole
  <2>5. Opened
    BY DEF Init, Opened, OpensWithKey, Surfaces
  <2> QED BY <2>1, <2>2, <2>3, <2>4, <2>5 DEF Watched
<1>2. (Balanced /\ Watched) /\ [Next]_vars => (Balanced /\ Watched)'
  <2>1. ASSUME Balanced, Watched, UNCHANGED vars PROVE Watched'
    <3>1. owed' \in BOOLEAN /\ ctx' = ctx
      BY <2>1 DEF vars, Watched, Placed
    <3> QED BY <2>1, <3>1, QuietWatches DEF vars, aimed
  <2> QED BY <2>1, WatchedStep, BalancedNext
<1>3. Balanced /\ Watched => KeyframesHold
  <2> SUFFICES ASSUME Balanced, Watched PROVE KeyframesHold
    OBVIOUS
  <2>1. ASSUME NEW t \in unpaintable, madeBy[t] # None, feeds[t] = {madeBy[t]}, ~(faults > 0)
        PROVE  FALSE
    <3>1. faults = 0
      BY <2>1 DEF Watched, Placed
    <3>2. t \in Surfaces /\ madeBy[t] \in 1..encoders /\ encoders \in 0..MaxEncoders
      BY <2>1 DEF Watched, Placed, Balanced, Numbered
    <3>3. madeBy[t] \in Encoders
      BY <3>2, BoundsAssumption
    <3> QED BY <2>1, <3>1, <3>2, <3>3 DEF Watched, Opened
  <2> QED BY <2>1 DEF KeyframesHold, Paintable, Watched
<1> QED BY <1>1, <1>2, <1>3, PTL DEF Spec

-----------------------------------------------------------------------------
(* RateControl                                                              *)

\* What every decision of the controller leaves behind.
Decided(r) ==
    /\ DOMAIN r = {"target", "fps", "integral", "fpsIntegral", "ewma", "congested",
                   "backedOff", "wasOnUdp", "needKey"}
    /\ r.backedOff \in BOOLEAN
    /\ r.congested => r.backedOff

Steered ==
    /\ Decided(rate)
    /\ encoder.late \in BOOLEAN
    /\ encoder.late => rate.backedOff
    /\ failures \in Nat
    /\ R!EncoderFollows

LEMMA FreshIsDecided == ASSUME NEW slow PROVE Decided(R!Fresh(slow))
BY DEF Decided, R!Fresh

LEMMA TunedIsDecided == ASSUME Decided(rate) PROVE Decided(R!Tuned)
<1> DEFINE base == IF R!LeftTunnel THEN R!Restored(rate) ELSE rate
<1>1. Decided(R!Restored(rate))
  BY DEF Decided, R!Restored
<1>2. Decided(base)
  BY <1>1
<1>3. R!Tuned = [base EXCEPT !.wasOnUdp = tunnelled, !.needKey = FALSE]
  BY DEF R!Tuned
<1> HIDE DEF base
<1> QED BY <1>2, <1>3 DEF Decided

\* Neither controller's arithmetic matters: the last step repairs what they leave.
LEMMA ControlIsDecided ==
  ASSUME NEW r, Decided(r), NEW measured, NEW usable, NEW lossy, NEW runs
  PROVE  Decided(R!Backoff(R!PidFps(R!PidBitrate(R!Judged(r, measured, usable, lossy), usable), runs)))
<1> DEFINE Same(s) == DOMAIN s = {"target", "fps", "integral", "fpsIntegral", "ewma",
                                  "congested", "backedOff", "wasOnUdp", "needKey"}
           Backs(s) == Same(s) /\ s.backedOff \in BOOLEAN
           j == R!Judged(r, measured, usable, lossy)
           b == R!PidBitrate(j, usable)
           p == R!PidFps(b, runs)
<1>1. Backs(j)
  BY DEF Decided, R!Judged
<1> HIDE DEF j
<1>2. Backs(b)
  BY <1>1 DEF R!PidBitrate
<1> HIDE DEF b
<1>3. Backs(p)
  BY <1>2 DEF R!PidFps
<1> HIDE DEF p
<1>4. Decided(R!Backoff(p))
  BY <1>3 DEF Decided, R!Backoff
<1> QED BY <1>4 DEF p, b, j

\* The settings that are told are those that changed, so an encoder that had the
\* controller's has them again.
LEMMA SettleKeeps ==
  ASSUME Steered, NEW after, Decided(after), NEW failed \in BOOLEAN, R!Settle(after, failed)
  PROVE  Steered'
<1>1. /\ failures = 0 => /\ R!Current.bitrate = rate.target
                         /\ R!Current.stretched = (rate.backedOff /\ ~R!Current.late)
      /\ R!Current.late \in BOOLEAN
      /\ R!Current.late => rate.backedOff
  BY DEF Steered, Decided, R!EncoderFollows, R!Current, R!NewEncoder
<1>2. failures' \in Nat /\ (failures' = 0 => ~failed /\ failures = 0)
  BY DEF R!Settle, Steered
<1>3. rate' = after /\ encoder' = R!Told(R!Current, rate, after, failed)
  BY DEF R!Settle
<1>4. R!EncoderFollows'
  BY <1>1, <1>2, <1>3 DEF R!Told, R!NewBitrate, R!NewInterval, R!EncoderFollows, Steered,
     Decided
<1>5. encoder'.late \in BOOLEAN /\ (encoder'.late => rate'.backedOff)
  BY <1>1, <1>3 DEF R!Told, Decided
<1> QED BY <1>2, <1>3, <1>4, <1>5 DEF Steered

LEMMA SteeredStep == ASSUME Steered, R!Next PROVE Steered'
<1>1. CASE R!BuildServer
  BY <1>1, FreshIsDecided DEF Steered, R!BuildServer, R!EncoderFollows, R!NoEncoder
<1>2. CASE R!Reroute
  BY <1>2 DEF Steered, R!Reroute, R!EncoderFollows
<1>3. CASE R!DropEncoder
  BY <1>3 DEF Steered, Decided, R!DropEncoder, R!EncoderFollows, R!NoEncoder
<1>4. ASSUME NEW measured, NEW usable, NEW lossy, NEW failed \in BOOLEAN,
             R!Control(measured, usable, lossy, failed)
      PROVE  Steered'
  <2> DEFINE judged == R!Judged(R!Tuned, measured, usable, lossy)
             after == R!Backoff(R!PidFps(R!PidBitrate(judged, usable), R!RunFps(judged)))
  <2>1. Decided(after)
    BY TunedIsDecided, ControlIsDecided DEF Steered
  <2>2. R!Settle(after, failed)
    BY <1>4 DEF R!Control
  <2> HIDE DEF after
  <2> QED BY <2>1, <2>2, SettleKeeps
<1>5. CASE R!Interval
  BY <1>4, <1>5 DEF R!Interval
<1>6. CASE R!Capture
  <2>1. Decided(R!Tuned)
    BY TunedIsDecided DEF Steered
  <2> QED BY <1>6, <2>1, SettleKeeps DEF R!Capture
<1> QED BY <1>1, <1>2, <1>3, <1>5, <1>6 DEF R!Next

LEMMA SteeredHolds == VideoSpec => []Steered
<1>1. VideoInit => Steered
  BY FreshIsDecided DEF VideoInit, R!Init, Steered, R!EncoderFollows, R!NoEncoder
<1>2. Steered /\ [VideoNext]_videoVars => Steered'
  <2> SUFFICES ASSUME Steered, [VideoNext]_videoVars PROVE Steered'
    OBVIOUS
  <2>1. CASE RateStep(R!Next)
    BY <2>1, SteeredStep DEF RateStep
  <2>2. CASE UNCHANGED rateVars
    BY <2>2 DEF rateVars, Steered, Decided, R!EncoderFollows
  <2> QED BY <2>1, <2>2 DEF VideoNext, BlankStep, CaptureStep, videoVars
<1> QED BY <1>1, <1>2, PTL DEF VideoSpec

\* VideoToolbox is told what the controller decided, and a congested link's periodic
\* IDRs are held back, whatever the gains, limits and bounds.
THEOREM EncoderIsFitted == VideoSpec => []EncoderFits
<1>1. Steered => EncoderFits
  BY DEF Steered, Decided, EncoderFits, R!EncoderFits, R!CongestedBacksOff
<1> QED BY <1>1, SteeredHolds, PTL

-----------------------------------------------------------------------------
(* BlankRecovery                                                            *)

\* The tallies the thresholds look at.
Tallied ==
    /\ DOMAIN qoe = {"zeros", "run", "best", "reports", "zerosSince", "bestSince", "clean"}
    /\ qoe.zeros \in Nat /\ qoe.run \in Nat /\ qoe.best \in Nat

\* A drop that nothing healed is in the count of the drops in a row, and a connection
\* that was established has healed them all.
StormCounted ==
    /\ unhealed \in Nat /\ drops \in Nat
    /\ unhealed <= drops
    /\ MaxDrops > 0 => drops <= MaxDrops
    /\ B!IsEstablished => unhealed = 0

\* Attempts begin with a reactivation, and a zero counted was heard since the last.
Earned ==
    /\ attempts \in Nat
    /\ attempts >= 1 => reactivated
    /\ qoe.zeros > 0 => heard

BlankSound == Tallied /\ StormCounted /\ Earned

LEMMA UpIsNat == ASSUME NEW n \in Nat PROVE B!Up(n) \in Nat
BY DEF B!Up

\* One more report leaves tallies, and only a zero adds to the zeros.
LEMMA RecordedTallies ==
  ASSUME Tallied, NEW nonzero
  PROVE  LET seen == B!Recorded(nonzero) IN
         /\ DOMAIN seen = DOMAIN qoe
         /\ seen.zeros \in Nat /\ seen.run \in Nat /\ seen.best \in Nat
         /\ seen.best >= qoe.best
         /\ nonzero => seen.zeros = 0
<1>1. CASE nonzero
  BY <1>1, UpIsNat DEF Tallied, B!Recorded, B!RecordNonzero, B!Best
<1>2. CASE ~nonzero
  BY <1>2, UpIsNat DEF Tallied, B!Recorded, B!RecordZero
<1> QED BY <1>1, <1>2

LEMMA AttemptedTallies ==
  ASSUME Tallied, B!Attempted
  PROVE  Tallied' /\ qoe'.zeros = 0 /\ qoe'.best = qoe.best
BY DEF Tallied, B!Attempted, B!ResetStreaks

LEMMA BlankStepKeeps == ASSUME BlankSound, B!Next PROVE BlankSound'
<1> USE BlankConstants
<1>1. CASE B!Reconnect
  BY <1>1 DEF BlankSound, Tallied, StormCounted, Earned, B!Reconnect, B!NoEvidence, B!IsEstablished
<1>2. CASE B!Leave \/ B!TakeQuit \/ B!Age \/ B!Wait \/ B!Dull \/ B!TakeReactivateRequest
           \/ \E suspended \in BOOLEAN : B!OnFrameAck(suspended)
  <2>1. UNCHANGED <<qoe, unhealed, drops, attempts, reactivated, heard>>
    BY <1>2 DEF B!Leave, B!TakeQuit, B!Age, B!Wait, B!Dull, B!TakeReactivateRequest,
       B!OnFrameAck, B!client, B!record, B!asked, B!connection, B!clocks
  <2> QED BY <2>1 DEF BlankSound, Tallied, StormCounted, Earned, B!IsEstablished
<1>3. ASSUME NEW nonzero \in BOOLEAN, B!OnQoeMetrics(nonzero) PROVE BlankSound'
  <2> DEFINE seen == B!Recorded(nonzero)
  <2>1. /\ DOMAIN seen = DOMAIN qoe
        /\ seen.zeros \in Nat /\ seen.run \in Nat /\ seen.best \in Nat
        /\ seen.best >= qoe.best
        /\ nonzero => seen.zeros = 0
    BY RecordedTallies DEF BlankSound
  <2>2. /\ qoe' = [seen EXCEPT !.clean = @ \/ (attempts = 0 /\ seen.run >= MinRender)]
        /\ unhealed' = IF seen.best >= Established THEN 0 ELSE unhealed
        /\ heard' = (heard \/ ~nonzero)
        /\ UNCHANGED <<drops, attempts, reactivated>>
    BY <1>3 DEF B!OnQoeMetrics, B!asked
  <2> HIDE DEF seen
  <2>3. Tallied' /\ qoe'.zeros = seen.zeros /\ qoe'.best = seen.best
    BY <2>1, <2>2 DEF BlankSound, Tallied
  <2>4. StormCounted'
    BY <2>1, <2>2, <2>3 DEF BlankSound, StormCounted, Tallied, B!IsEstablished
  <2>5. seen.zeros > 0 => heard'
    <3>1. CASE nonzero
      BY <2>1, <3>1
    <3>2. CASE ~nonzero
      BY <2>2, <3>2
    <3> QED BY <3>1, <3>2
  <2>6. Earned'
    BY <2>2, <2>3, <2>5 DEF BlankSound, Earned
  <2> QED BY <2>3, <2>4, <2>6 DEF BlankSound
<1>4. CASE B!PerformBlankReactivate
  <2>1. Tallied' /\ qoe'.zeros = 0 /\ qoe'.best = qoe.best
    BY <1>4, AttemptedTallies DEF BlankSound, B!PerformBlankReactivate
  <2>2. StormCounted'
    BY <1>4, <2>1 DEF BlankSound, Tallied, StormCounted, B!PerformBlankReactivate, B!DropsInARow, B!IsEstablished
  <2>3. Earned'
    BY <1>4, <2>1 DEF BlankSound, Earned, B!PerformBlankReactivate, B!Attempted
  <2> QED BY <2>1, <2>2, <2>3 DEF BlankSound
<1>5. CASE B!PerformBlankDrop
  <2>1. Tallied' /\ qoe'.zeros = 0 /\ qoe'.best = qoe.best
    BY <1>5, AttemptedTallies DEF BlankSound, B!PerformBlankDrop
  <2>2. StormCounted'
    BY <1>5, <2>1 DEF BlankSound, Tallied, StormCounted, B!PerformBlankDrop, B!DropsInARow,
       B!Capped, B!IsEstablished
  <2>3. Earned'
    BY <1>5, <2>1 DEF BlankSound, Earned, B!PerformBlankDrop, B!Attempted, B!First
  <2> QED BY <2>1, <2>2, <2>3 DEF BlankSound
<1>6. CASE B!GiveUp
  BY <1>6 DEF BlankSound, Tallied, StormCounted, Earned, B!GiveUp, B!First, B!DropsInARow,
     B!IsEstablished, B!client, B!record, B!asked
<1>7. CASE B!Quiet
  BY <1>7 DEF BlankSound, Tallied, StormCounted, Earned, B!Quiet, B!DropsInARow,
     B!IsEstablished, B!client, B!record, B!asked
<1> QED BY <1>1, <1>2, <1>3, <1>4, <1>5, <1>6, <1>7 DEF B!Next, B!Report, B!Capture

LEMMA BlankHolds == VideoSpec => []BlankSound
<1>1. VideoInit => BlankSound
  BY BlankConstants DEF VideoInit, B!Init, B!NoEvidence, BlankSound, Tallied, StormCounted, Earned, B!IsEstablished
<1>2. BlankSound /\ [VideoNext]_videoVars => BlankSound'
  <2> SUFFICES ASSUME BlankSound, [VideoNext]_videoVars PROVE BlankSound'
    OBVIOUS
  <2>1. CASE BlankStep(B!Next)
    BY <2>1, BlankStepKeeps DEF BlankStep
  <2>2. CASE UNCHANGED blankVars
    BY <2>2 DEF blankVars, BlankSound, Tallied, StormCounted, Earned, B!IsEstablished
  <2> QED BY <2>1, <2>2 DEF VideoNext, RateStep, CaptureStep, videoVars
<1> QED BY <1>1, <1>2, PTL DEF VideoSpec

\* However many connections a client opens, no more drops in a row than the cap, unless
\* a connection was established in between.
THEOREM StormsAreBounded == VideoSpec => []StormIsBounded
<1>1. BlankSound => StormIsBounded
  BY BlankConstants DEF BlankSound, StormCounted, StormIsBounded, B!StormIsBounded
<1> QED BY <1>1, BlankHolds, PTL

\* No connection is dropped before its reactivation, or on no more evidence than that
\* before the reactivation.
THEOREM DropsAreEarned == VideoSpec => DropIsEarned
<1>1. ASSUME BlankSound, B!Next, quit', ~quit PROVE reactivated /\ (heard \/ waited = 2)
  <2>1. B!PerformBlankDrop
    BY <1>1 DEF B!Next, B!Reconnect, B!Leave, B!TakeQuit, B!OnFrameAck, B!Report, B!OnQoeMetrics,
       B!Age, B!Wait, B!Dull, B!Capture, B!PerformBlankReactivate, B!GiveUp, B!Quiet,
       B!TakeReactivateRequest, B!asked
  <2>2. attempts >= 1 /\ B!BlankEvidence
    BY <1>1, <2>1 DEF BlankSound, Earned, B!PerformBlankDrop, B!First, B!ShouldBlankRecover
  <2>3. qoe.zeros > 0 \/ waited = 2
    BY <1>1, <2>2, BlankConstants DEF BlankSound, Tallied, B!BlankEvidence, B!Unconfirmed
  <2> QED BY <1>1, <2>2, <2>3 DEF BlankSound, Earned
<1>2. BlankSound /\ [VideoNext]_videoVars => [quit' /\ ~quit => reactivated /\ (heard \/ waited = 2)]_(B!vars)
  <2> SUFFICES ASSUME BlankSound, [VideoNext]_videoVars, ~UNCHANGED B!vars, quit', ~quit
               PROVE  reactivated /\ (heard \/ waited = 2)
    OBVIOUS
  <2>1. BlankStep(B!Next)
    BY DEF VideoNext, RateStep, CaptureStep, videoVars, blankVars
  <2> QED BY <2>1, <1>1 DEF BlankStep
<1> QED BY <1>2, BlankHolds, PTL DEF VideoSpec, DropIsEarned, B!DropIsEarned

-----------------------------------------------------------------------------
(* CaptureLoop                                                              *)

\* An overflow is remembered until a whole frame fits the queue.  While the client
\* waits for an IDR whose request was not lost, the H.264 path has it armed, as it has
\* whenever it is closed, or the loop will ask for it with the next sample and nothing
\* of a burst is left.
Repairable ==
    /\ missing => resync
    /\ "yes" \notin garbled
    /\ need \in BOOLEAN
    /\ ~ready => need
    /\ was => flush = 0
    /\ outdated = "yes" => need \/ was

LEMMA CutKeeps ==
  ASSUME Repairable, C!CutIntoStrips
  PROVE  (missing' => resync') /\ flush' = flush
<1>1. PICK full \in BOOLEAN, n \in 1..MaxStrips :
        LET whole == full \/ C!WantsWhole
            strips == C!Strips(whole, n)
            overflow == strips > PendingLimit
        IN  /\ resync' = C!ResyncAfter(overflow)
            /\ missing' = (overflow \/ (missing /\ ~whole))
            /\ flush' = flush
  BY DEF C!CutIntoStrips
<1>2. CASE resync
  <2>1. (full \/ C!WantsWhole) = TRUE
    BY <1>2 DEF C!WantsWhole
  <2>2. C!Strips(TRUE, n) = FullStrips /\ ~(FullStrips > PendingLimit)
    BY CaptureConstants DEF C!Strips
  <2>3. missing' = FALSE
    BY <1>1, <2>1, <2>2
  <2> QED BY <1>1, <2>3
<1>3. CASE ~resync
  BY <1>1, <1>3 DEF Repairable, C!ResyncAfter
<1> QED BY <1>1, <1>2, <1>3

\* What submit_bgra makes of a frame, by its outcome.
LEMMA AcceptedKeeps ==
  ASSUME Repairable, NEW idr \in BOOLEAN, NEW resumes \in BOOLEAN, ready, ready' = ready,
         missing' => resync', was' => flush' = 0,
         C!Accepted(idr, resumes) \/ C!Fails(idr),
         outdated = "yes" => need \/ idr
  PROVE  Repairable'
<1>1. CASE C!Shed(resumes)
  <2>1. need' \in BOOLEAN /\ (need => need') /\ garbled' = garbled
    BY <1>1 DEF C!Shed, Repairable
  <2>2. outdated' = "yes" => outdated = "yes" /\ (was' \/ need')
    BY <1>1 DEF C!Shed, C!Lapsing, C!Lapses
  <2> QED BY <2>1, <2>2 DEF Repairable
<1>2. CASE C!Dropped(idr)
  BY <1>2 DEF C!Dropped, Repairable
<1>3. CASE C!Encoded(idr)
  BY <1>3 DEF C!Encoded, Repairable
<1>4. CASE C!Fails(idr)
  <2>1. need' \in BOOLEAN /\ garbled' = garbled
    BY <1>4 DEF C!Fails, Repairable
  <2>2. outdated' = "yes" => outdated = "yes" /\ (was' \/ need')
    BY <1>4 DEF C!Fails, C!Lapsing, C!Lapses
  <2> QED BY <2>1, <2>2 DEF Repairable
<1> QED BY <1>1, <1>2, <1>3, <1>4 DEF C!Accepted

LEMMA CaptureStepKeeps == ASSUME Repairable, C!Next PROVE Repairable'
<1>1. CASE C!ReturnResize
  BY <1>1 DEF Repairable, C!ReturnResize, C!Start
<1>2. CASE C!Pass
  BY <1>2 DEF Repairable, C!Pass, C!Rest, C!Await, C!bitmap
<1>3. CASE C!TimedOut
  <2>1. UNCHANGED <<missing, resync, ready, was>>
    BY <1>3 DEF C!TimedOut, C!bitmap, C!gate
  <2>2. missing' => resync'
    BY <2>1 DEF Repairable
  <2>3. ASSUME ready, flush' = 0, C!Accepted(TRUE, FALSE) PROVE Repairable'
    BY <2>1, <2>2, <2>3, AcceptedKeeps
  <2>4. ASSUME ready, flush' = flush, C!Fails(TRUE) PROVE Repairable'
    <3>1. was' => flush' = 0
      BY <2>1, <2>4 DEF Repairable
    <3> QED BY <2>1, <2>2, <2>4, <3>1, AcceptedKeeps
  <2>5. ASSUME C!NotSubmitted, flush' = flush \/ flush' = (IF flush > 0 THEN flush - 1 ELSE 0)
        PROVE  Repairable'
    <3>1. was' => flush' = 0
      BY <2>1, <2>5 DEF Repairable
    <3> QED BY <2>1, <2>5, <3>1 DEF Repairable, C!NotSubmitted
  <2>6. ASSUME flush > 0, ready, flush' = flush - 1, C!Accepted(FALSE, FALSE) \/ C!Fails(FALSE)
        PROVE  Repairable'
    <3>1. ~was
      BY <2>6 DEF Repairable
    <3>2. outdated = "yes" => need \/ FALSE
      BY <3>1 DEF Repairable
    <3> QED BY <2>1, <2>2, <2>6, <3>1, <3>2, AcceptedKeeps
  <2>7. CASE C!KeyboardIdr
    BY <1>3, <2>3, <2>4, <2>5, <2>7 DEF C!TimedOut
  <2>8. CASE ~C!KeyboardIdr
    <3>1. CASE flush > 0 /\ ready /\ last
      BY <1>3, <2>6, <2>8, <3>1 DEF C!TimedOut
    <3>2. CASE ~(flush > 0 /\ ready /\ last)
      BY <1>3, <2>5, <2>8, <3>2 DEF C!TimedOut
    <3> QED BY <3>1, <3>2
  <2> QED BY <2>7, <2>8
<1>4. CASE C!Receive
  <2>1. CASE sample = "idle"
    BY <1>4, <2>1 DEF Repairable, C!Receive, C!bitmap, C!video, C!record
  <2>2. CASE sample # "idle"
    <3> DEFINE idr == C!WantsIdr
    <3>1. ready' = ready /\ ~was' /\ idr \in BOOLEAN
      BY <1>4, <2>2 DEF C!Receive, C!WantsIdr, C!BigChange, C!KeyboardIdr
    <3>2. outdated = "yes" => need \/ idr
      BY DEF Repairable, C!WantsIdr
    <3>3. CASE ready /\ C!TakenByEncoder
      <4>1. (missing' => resync') /\ C!Accepted(idr, was)
        BY <3>3 DEF C!TakenByEncoder, Repairable
      <4>2. C!Accepted(idr, was) => C!Accepted(idr, TRUE) \/ C!Accepted(idr, FALSE)
        BY DEF C!Accepted, C!Shed
      <4> HIDE DEF idr
      <4> QED BY <3>1, <3>2, <3>3, <4>1, <4>2, AcceptedKeeps
    <3>4. CASE ready /\ C!Fails(idr) /\ C!CutIntoStrips
      <4> HIDE DEF idr
      <4> QED BY <3>1, <3>2, <3>4, CutKeeps, AcceptedKeeps
    <3>5. CASE ~ready /\ C!NotSubmitted /\ C!CutIntoStrips
      BY <3>1, <3>5, CutKeeps DEF Repairable, C!NotSubmitted
    <3> QED BY <1>4, <2>2, <3>3, <3>4, <3>5 DEF C!Receive
  <2> QED BY <2>1, <2>2
<1>5. CASE C!Flip
  BY <1>5 DEF Repairable, C!Flip, C!loop, C!bitmap, C!gate, C!record
<1>6. CASE \/ C!Capture \/ C!RecordKeyboard \/ C!SuppressOutput \/ C!ResumeOutput \/ C!Request
           \/ C!Settles \/ C!SuppressLasts \/ C!DueComes \/ C!Stills \/ C!WindowEnds
           \/ C!ReturnPending \/ C!WakeUp \/ C!StreamEnds
  <2>1. UNCHANGED <<missing, resync, garbled, outdated, ready, was, flush, need>>
    BY <1>6 DEF C!Capture, C!RecordKeyboard, C!SuppressOutput, C!ResumeOutput, C!Request,
       C!Settles, C!SuppressLasts, C!DueComes, C!Stills, C!WindowEnds, C!ReturnPending,
       C!WakeUp, C!StreamEnds, C!outside, C!bitmap, C!video, C!gate, C!record, C!loop
  <2> QED BY <2>1 DEF Repairable
<1> QED BY <1>1, <1>2, <1>3, <1>4, <1>5, <1>6 DEF C!Next, C!Iterate

\* Neither encoder leaves the client with a picture it cannot repair, unless the request
\* that was to repair it is itself lost in the H.264 path: for any sizes of samples, any
\* order of samples, deadlines and what happens outside, and any outcome of each frame.
THEOREM PicturesRecover == VideoSpec => []PictureRecovers
<1>1. VideoInit => Repairable
  BY DEF VideoInit, C!Init, Repairable
<1>2. Repairable /\ [VideoNext]_videoVars => Repairable'
  <2> SUFFICES ASSUME Repairable, [VideoNext]_videoVars PROVE Repairable'
    OBVIOUS
  <2>1. CASE CaptureStep(C!Next)
    BY <2>1, CaptureStepKeeps DEF CaptureStep
  <2>2. CASE UNCHANGED captureVars
    BY <2>2 DEF captureVars, Repairable
  <2> QED BY <2>1, <2>2 DEF VideoNext, RateStep, BlankStep, videoVars
<1>3. Repairable => PictureRecovers
  BY DEF Repairable, PictureRecovers, C!PictureRecovers, C!LossIsRepainted, C!PauseEndsInRequest
<1> QED BY <1>1, <1>2, <1>3, PTL DEF VideoSpec
===============================================================================
