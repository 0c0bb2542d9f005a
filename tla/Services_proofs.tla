---------------------------- MODULE Services_proofs ----------------------------
(* What holds of the overlay, the sound, the clipboard and the mounted drives for *)
(* any number of streams, resizes, connections, copies, surfaces and processes.   *)
EXTENDS MCServices, TLAPS

-----------------------------------------------------------------------------
(* HeadlessOverlay                                                          *)

\* What is back in place without an overlay.
Whole ==
    /\ panel = "shown" \/ stuck
    /\ shields => lapsed \cap {"hide", "show"} # {}
    /\ mirrored = solo \/ "mirror" \in lapsed
    /\ layout = "own" \/ "layout" \in lapsed

\* What an overlay will undo is what it found.
Undoes ==
    /\ undo.layout = "own" \/ "layout" \in lapsed
    /\ mode = "shield" =>
         /\ undo.mirror = solo \/ "mirror" \in lapsed
         /\ mirrored = FALSE
         /\ keepsMain => layout = "own" \/ "layout" \in lapsed

\* Each mode touches the panel in one way, and an install begins only with no overlay in
\* its slot.
PanelSound ==
    /\ watcher \in {"debounce", "install"} => wasZero
    /\ wasZero => ~slot
    /\ mirrored \in BOOLEAN /\ solo \in BOOLEAN
    /\ mode # "shield" => mirrored = solo /\ shows = 0 /\ ~shields
    /\ mode = "shield" => panel = "shown" /\ ~stuck
    /\ IF slot THEN Undoes ELSE Whole

\* What taking a shield back leaves, whatever of it fails.
LEMMA TakenBack ==
  ASSUME NEW broke \in BOOLEAN, NEW failed \in O!MayFail(broke), NEW back,
         O!Lowered(failed), O!Remirrored(broke, failed), O!Recorded(failed \cup back),
         mirrored \in BOOLEAN
  PROVE  /\ mirrored' \in BOOLEAN
         /\ shields' => lapsed' \cap {"hide", "show"} # {}
         /\ mirrored' = (broke \/ mirrored) \/ "mirror" \in lapsed'
         /\ \A lapse \in {"mirror", "layout"} : lapse \in lapsed => lapse \in lapsed'
         /\ back \subseteq lapsed'
<1>1. lapsed' = failed \cup back \cup (lapsed \ {"hide", "show"})
  BY DEF O!Recorded
<1>2. shields' => "hide" \in failed
  BY DEF O!Lowered
<1>3. mirrored' = IF broke THEN "mirror" \notin failed ELSE mirrored
  BY DEF O!Remirrored
<1> QED BY <1>1, <1>2, <1>3

\* What failed with the panel moved is recorded; nothing else of it changes.
LEMMA RefusalKeeps ==
  ASSUME PanelSound, ~slot, O!Installs(FALSE), O!physical' = O!physical, shields' = shields
  PROVE  PanelSound'
<1>1. watcher' = "waits" /\ wasZero' = FALSE /\ slot' = FALSE /\ shows' = shows
      /\ UNCHANGED <<mode, solo, keepsMain>>
  BY DEF O!Installs, O!machine
<1>2. Whole' = Whole
  BY <1>1 DEF Whole, O!physical
<1> QED BY <1>1, <1>2 DEF PanelSound, O!physical

LEMMA InstallKeeps == ASSUME PanelSound, O!Install PROVE PanelSound'
<1>1. watcher = "install" /\ ~slot /\ Whole
  BY DEF PanelSound, O!Install, O!Detach, O!Capture, O!Shield, O!MirrorKept, O!UncoveredPanel,
     O!Arranged, O!ArrangeFails, O!Installs
<1>2. ASSUME NEW ok \in BOOLEAN, O!Installs(ok)
      PROVE  /\ watcher' = "waits" /\ wasZero' = FALSE /\ slot' = ok /\ shows' = shows
             /\ UNCHANGED <<mode, solo, keepsMain>>
  BY <1>2 DEF O!Installs, O!machine
<1>3. CASE mode \in {"detach", "capture"} /\ (O!Detach \/ O!Capture)
  <2>1. CASE O!Installs(FALSE) /\ UNCHANGED <<O!physical, shields>>
    BY <1>1, <2>1, RefusalKeeps
  <2>2. CASE O!Installs(FALSE) /\ O!NotMovedBack /\ UNCHANGED <<panel, mirrored, stuck, shields>>
    BY <1>1, <1>2, <1>3, <2>2 DEF PanelSound, Whole, O!NotMovedBack
  <2>3. CASE /\ O!Installs(TRUE) /\ O!Moved
             /\ UNCHANGED <<mirrored, stuck, lapsed, shields>>
    <3>1. undo'.layout = layout
      BY <2>3 DEF O!Moved
    <3> QED BY <1>1, <1>2, <1>3, <2>3, <3>1 DEF PanelSound, Whole, Undoes
  <2> QED BY <1>3, <2>1, <2>2, <2>3 DEF O!Detach, O!Capture
<1>4. CASE mode = "shield" /\ O!Shield
  <2>1. CASE O!MirrorKept
    BY <1>1, <2>1, RefusalKeeps DEF O!MirrorKept
  <2>2. CASE O!UncoveredPanel \/ O!ArrangeFails
    <3>1. O!UncoveredPanel
      BY <2>2 DEF O!ArrangeFails
    <3>2. PICK failed \in O!MayFail(mirrored) : O!RolledBack(mirrored, failed)
      BY <3>1 DEF O!UncoveredPanel
    <3>3. O!Recorded(failed \cup {})
      BY <3>2, failed \cup {} = failed DEF O!RolledBack
    <3>4. /\ mirrored' \in BOOLEAN
          /\ shields' => lapsed' \cap {"hide", "show"} # {}
          /\ mirrored' = mirrored \/ "mirror" \in lapsed'
          /\ \A lapse \in {"mirror", "layout"} : lapse \in lapsed => lapse \in lapsed'
      BY <3>2, <3>3, TakenBack DEF O!RolledBack, PanelSound
    <3>5. /\ watcher' = "waits" /\ wasZero' = FALSE /\ slot' = FALSE
          /\ UNCHANGED <<mode, solo, panel, layout, stuck>>
      BY <1>2, <3>1 DEF O!UncoveredPanel
    <3> QED BY <1>1, <1>4, <3>4, <3>5 DEF PanelSound, Whole
  <2>3. CASE O!Arranged
    <3>1. /\ watcher' = "waits" /\ wasZero' = FALSE /\ slot' = TRUE
          /\ UNCHANGED <<mode, solo, keepsMain, panel, stuck, lapsed>>
      BY <1>2, <2>3 DEF O!Arranged
    <3>2. /\ undo'.mirror = mirrored /\ undo'.layout = layout /\ mirrored' = FALSE
          /\ keepsMain => layout' = layout
      BY <2>3 DEF O!Arranged
    <3> QED BY <1>1, <1>4, <3>1, <3>2 DEF PanelSound, Whole, Undoes
  <2> QED BY <1>4, <2>1, <2>2, <2>3 DEF O!Shield
<1> QED BY <1>3, <1>4 DEF O!Install

LEMMA RemoveKeeps == ASSUME PanelSound, O!Remove PROVE PanelSound'
<1>1. ASSUME O!Drops
      PROVE  /\ watcher' = "waits" /\ wasZero' = TRUE /\ slot' = FALSE /\ shows' = shows
             /\ UNCHANGED <<mode, solo, keepsMain>>
  BY <1>1 DEF O!Drops, O!machine
<1>2. CASE ~slot /\ O!Drops /\ UNCHANGED <<O!physical, shields>>
  BY <1>1, <1>2 DEF PanelSound, Whole, O!physical
<1>3. CASE slot /\ mode \in {"detach", "capture"} /\ (O!Attach \/ O!Release)
  <2>1. Undoes /\ O!Drops /\ UNCHANGED <<mirrored, shields>>
    BY <1>3 DEF PanelSound, O!Attach, O!Release
  <2>2. panel' = "shown" \/ stuck'
    BY <1>3 DEF O!Attach, O!Release
  <2>3. layout' = "own" \/ "layout" \in lapsed'
    BY <1>3, <2>1 DEF Undoes, O!Attach, O!Release, O!MovedBack
  <2> QED BY <1>1, <1>3, <2>1, <2>2, <2>3 DEF PanelSound, Whole
<1>4. CASE slot /\ mode = "shield" /\ O!Unshield
  <2>1. PICK failed \in O!MayFail(undo.mirror), back \in {{}} \cup IF keepsMain THEN {} ELSE {{"layout"}} :
             /\ O!Lowered(failed) /\ O!Remirrored(undo.mirror, failed)
             /\ O!Recorded(failed \cup back)
             /\ layout' = IF keepsMain \/ back # {} THEN layout ELSE undo.layout
    BY <1>4 DEF O!Unshield
  <2>2. Undoes /\ mirrored = FALSE
    BY <1>4 DEF PanelSound, Undoes
  <2>3. /\ mirrored' = IF undo.mirror THEN "mirror" \notin failed ELSE FALSE
        /\ lapsed' = failed \cup back \cup (lapsed \ {"hide", "show"})
        /\ shields' => "hide" \in failed
    BY <2>1, <2>2 DEF O!Remirrored, O!Recorded, O!Lowered
  <2>4. layout' = "own" \/ "layout" \in lapsed'
    BY <1>4, <2>1, <2>2, <2>3 DEF Undoes
  <2>5. mirrored' \in BOOLEAN /\ (mirrored' = solo \/ "mirror" \in lapsed')
    BY <1>4, <2>2, <2>3 DEF Undoes, PanelSound
  <2>6. UNCHANGED <<panel, stuck>> /\ O!Drops
    BY <1>4 DEF O!Unshield
  <2>7. shields' => lapsed' \cap {"hide", "show"} # {}
    BY <2>3
  <2> QED BY <1>1, <1>4, <2>4, <2>5, <2>6, <2>7 DEF PanelSound, Whole
<1> QED BY <1>2, <1>3, <1>4 DEF O!Remove

LEMMA OverlayKeeps == ASSUME PanelSound, O!Next PROVE PanelSound'
<1>1. CASE O!Wakes \/ O!Debounced \/ O!CameBack \/ O!GraceOver
  BY <1>1 DEF PanelSound, Whole, Undoes, O!Wakes, O!Debounced, O!CameBack, O!GraceOver, O!machine,
     O!physical, O!helper
<1>2. CASE O!ExitStuck
  BY <1>2 DEF PanelSound, Whole, O!ExitStuck, O!machine
<1>3. CASE O!Enter \/ O!Leave
  BY <1>3 DEF PanelSound, Whole, Undoes, O!Enter, O!Leave, O!machine, O!task, O!physical, O!helper
<1>4. CASE O!Resize \/ O!Sweep
  <2>1. mode # "shield" => O!Reasserted = shows
    BY DEF O!Reasserted
  <2> QED BY <1>4, <2>1 DEF PanelSound, Whole, Undoes, O!Resize, O!Sweep, O!machine, O!task,
         O!physical
<1>5. CASE O!ShowLands
  <2>1. mode = "shield"
    BY <1>5 DEF O!ShowLands, PanelSound
  <2>2. /\ lapsed \subseteq lapsed'
        /\ ~slot /\ shields' => shields \/ "show" \in lapsed'
        /\ UNCHANGED <<mode, solo, keepsMain, watcher, wasZero, slot, panel, mirrored, layout, undo, stuck>>
    BY <1>5 DEF O!ShowLands, O!machine, O!task
  <2>3. PanelSound' \/ ~slot
    BY <2>1, <2>2 DEF PanelSound, Undoes
  <2>4. ~slot => Whole'
    BY <2>2 DEF PanelSound, Whole
  <2> QED BY <2>1, <2>2, <2>3, <2>4 DEF PanelSound
<1> QED BY <1>1, <1>2, <1>3, <1>4, <1>5, InstallKeeps, RemoveKeeps DEF O!Next, O!Watch

\* The panels come back whole, for any number of streams and resizes: no refusal of an
\* install, and no stream that comes or goes meanwhile, leaves them dark, covered, moved
\* or unmirrored, unless the very call that would have put that right has failed.
THEOREM PanelsAreRestored == Spec => []PanelsRestored
<1>1. Init => PanelSound
  BY DEF Init, O!Init, PanelSound, Whole
<1>2. PanelSound /\ [Next]_vars => PanelSound'
  <2> SUFFICES ASSUME PanelSound, [Next]_vars PROVE PanelSound'
    OBVIOUS
  <2>1. CASE Overlay(O!Next)
    BY <2>1, OverlayKeeps DEF Overlay
  <2>2. CASE UNCHANGED overlayVars
    BY <2>2 DEF overlayVars, PanelSound, Whole, Undoes
  <2> QED BY <2>1, <2>2 DEF Next, Copying, Sound, Mount, Usb, vars
<1>3. PanelSound => PanelsRestored
  BY DEF PanelSound, Whole, PanelsRestored, O!PanelsRestored
<1> QED BY <1>1, <1>2, <1>3, PTL DEF Spec

-----------------------------------------------------------------------------
(* Audio                                                                    *)

\* Where a loop may be that has queued a sample for a connection superseded: it does
\* not get to another.
Superseded(s) == generation # myGen[s] /\ capture[s] \in {"looks", "ended"}

LoopSound(s) ==
    /\ myGen[s] <= generation
    /\ channel[s] = "idle" => capture[s] = "none"
    /\ capture[s] = "none" => foreign[s] = 0
    /\ foreign[s] = 0 \/ (foreign[s] = 1 /\ Superseded(s))

SoundSound ==
    /\ generation \in Nat /\ myGen \in [Sessions -> Nat]
    /\ DOMAIN channel = Sessions /\ DOMAIN capture = Sessions
    /\ foreign \in [Sessions -> Nat]
    /\ \A s \in Sessions : LoopSound(s)

\* A loop's own steps: what it queued stays, and from "ended" it does not return.
LEMMA LoopMoves ==
  ASSUME SoundSound, NEW s \in Sessions, NEW to, A!Goes(s, to), to # "none",
         UNCHANGED <<generation, myGen, channel, foreign>>,
         Superseded(s) => to \in {"looks", "ended"}, channel[s] # "idle"
  PROVE  SoundSound'
<1>1. capture' = [capture EXCEPT ![s] = to]
  BY DEF A!Goes
<1>2. ASSUME NEW t \in Sessions PROVE LoopSound(t)'
  <2>1. CASE t = s
    BY <1>1, <2>1 DEF SoundSound, LoopSound, Superseded
  <2>2. CASE t # s
    BY <1>1, <2>2 DEF SoundSound, LoopSound, Superseded
  <2> QED BY <2>1, <2>2
<1> QED BY <1>1, <1>2 DEF SoundSound

LEMMA SampleKeeps == ASSUME SoundSound, NEW s \in Sessions, A!Sample(s) PROVE SoundSound'
<1>1. /\ capture[s] = "waits" /\ capture' = [capture EXCEPT ![s] = "looks"]
      /\ UNCHANGED <<generation, myGen, channel>>
      /\ foreign' = [foreign EXCEPT ![s] = IF A!Foreign(s) THEN @ + 1 ELSE @]
  BY DEF A!Sample, A!Goes, A!looping
<1>2. foreign[s] = 0 /\ channel[s] # "idle"
  BY <1>1 DEF SoundSound, LoopSound, Superseded
<1>3. foreign'[s] = 0 \/ (foreign'[s] = 1 /\ generation # myGen[s])
  BY <1>1, <1>2 DEF A!Foreign, A!Mine, SoundSound
<1>4. ASSUME NEW t \in Sessions PROVE LoopSound(t)'
  <2>1. CASE t = s
    BY <1>1, <1>2, <1>3, <2>1 DEF SoundSound, LoopSound, Superseded
  <2>2. CASE t # s
    BY <1>1, <2>2 DEF SoundSound, LoopSound, Superseded
  <2> QED BY <2>1, <2>2
<1>5. foreign' \in [Sessions -> Nat]
  BY <1>1 DEF SoundSound
<1> QED BY <1>1, <1>4, <1>5 DEF SoundSound

LEMMA StartKeeps == ASSUME SoundSound, NEW s \in Sessions, A!Start(s) PROVE SoundSound'
<1>1. /\ channel[s] = "idle" /\ channel' = [channel EXCEPT ![s] = "open"]
      /\ generation' = generation + 1 /\ myGen' = [myGen EXCEPT ![s] = generation + 1]
      /\ capture' = [capture EXCEPT ![s] = "asks"] /\ UNCHANGED foreign
  BY DEF A!Start, A!Goes
<1>2. ASSUME NEW t \in Sessions PROVE LoopSound(t)'
  <2>1. CASE t = s
    BY <1>1, <2>1 DEF SoundSound, LoopSound, Superseded
  <2>2. CASE t # s
    BY <1>1, <2>2 DEF SoundSound, LoopSound, Superseded
  <2> QED BY <2>1, <2>2
<1> QED BY <1>1, <1>2 DEF SoundSound

LEMMA StopKeeps == ASSUME SoundSound, NEW s \in Sessions, A!Stop(s) PROVE SoundSound'
<1>1. /\ channel[s] = "open" /\ channel' = [channel EXCEPT ![s] = "closed"]
      /\ generation' = IF generation = myGen[s] THEN generation + 1 ELSE generation
      /\ UNCHANGED <<myGen, capture, foreign>>
  BY DEF A!Stop, A!Superseding, A!Mine
<1>2. ASSUME NEW t \in Sessions PROVE LoopSound(t)'
  BY <1>1 DEF SoundSound, LoopSound, Superseded
<1> QED BY <1>1, <1>2 DEF SoundSound

LEMMA AudioKeeps == ASSUME SoundSound, A!AudioNext PROVE SoundSound'
<1>1. CASE A!Hotkey \/ A!Minimised
  BY <1>1 DEF SoundSound, LoopSound, Superseded, A!Hotkey, A!Minimised
<1>2. ASSUME NEW s \in Sessions, A!Debounced(s) PROVE SoundSound'
  BY <1>2 DEF SoundSound, LoopSound, Superseded, A!Debounced, A!looping
<1>3. ASSUME NEW s \in Sessions, A!Loop(s) \/ A!StreamEnds(s) \/ A!Refused(s) PROVE SoundSound'
  <2>1. capture[s] # "none" /\ UNCHANGED <<generation, myGen, channel, foreign>>
    BY <1>3 DEF A!Loop, A!Prepared, A!Begins, A!BackedOff, A!Looks, A!Swaps, A!StreamEnds,
       A!Refused, A!looping
  <2>2. channel[s] # "idle"
    BY <2>1 DEF SoundSound, LoopSound
  <2>3. \E to \in {"top", "ended", "looks", "backs", "swaps", "waits"} :
           A!Goes(s, to) /\ (Superseded(s) => to \in {"looks", "ended"})
    BY <1>3 DEF A!Loop, A!Prepared, A!Begins, A!BackedOff, A!Looks, A!Swaps, A!StreamEnds,
       A!Refused, A!Afresh, A!Mine, Superseded
  <2> QED BY <2>1, <2>2, <2>3, LoopMoves
<1> QED BY <1>1, <1>2, <1>3, StartKeeps, StopKeeps, SampleKeeps DEF A!AudioNext

\* However many connections start and stop loops in whatever order, none puts more than
\* one sample of an old connection among those of a new one.
THEOREM ForeignSamplesAreFew == Spec => []OneForeignSample
<1>1. Init => SoundSound
  BY DEF Init, A!Init, SoundSound, LoopSound
<1>2. SoundSound /\ [Next]_vars => SoundSound'
  <2> SUFFICES ASSUME SoundSound, [Next]_vars PROVE SoundSound'
    OBVIOUS
  <2>1. CASE Sound(A!AudioNext)
    BY <2>1, AudioKeeps DEF Sound
  <2>2. CASE UNCHANGED audioVars
    BY <2>2 DEF audioVars, SoundSound, LoopSound, Superseded
  <2> QED BY <2>1, <2>2 DEF Next, Overlay, Copying, Mount, Usb, vars
<1>3. SoundSound => OneForeignSample
  BY DEF SoundSound, LoopSound, OneForeignSample, A!OneForeignSample
<1> QED BY <1>1, <1>2, <1>3, PTL DEF Spec

-----------------------------------------------------------------------------
(* Clipboard                                                                *)

\* What carries the number we remember, or is about to carry it, is ours, is what we
\* left of it, or was copied between two calls of ours.
Ours == owner \in {"ours", "nobody"} \/ amid

BoardSound ==
    /\ count \in Nat \ {0} /\ selfCount \in 0..count
    /\ selfCount = count \/ guarded # "no" => Ours

LEMMA WriteKeeps ==
  ASSUME BoardSound, NEW who, C!Write(who), UNCHANGED <<selfCount, guarded>>,
         guarded = "no" \/ who = "user"
  PROVE BoardSound'
<1>1. count' = count + 1 /\ amid' = (who = "user" /\ guarded # "no")
  BY DEF C!Write
<1>2. count' \in Nat \ {0} /\ selfCount' \in 0..count' /\ selfCount' # count'
  BY <1>1 DEF BoardSound
<1>3. guarded' # "no" => amid'
  BY <1>1
<1> QED BY <1>2, <1>3 DEF BoardSound, Ours

LEMMA ClipboardKeeps == ASSUME BoardSound, C!Next PROVE BoardSound'
<1>1. CASE C!UserCopies
  <2>1. C!Write("user") /\ UNCHANGED <<selfCount, guarded>>
    BY <1>1 DEF C!UserCopies
  <2> QED BY <2>1, WriteKeeps
<1>2. ASSUME UNCHANGED <<count, owner, selfCount, guarded, amid>> PROVE BoardSound'
  BY <1>2 DEF BoardSound, Ours
<1>3. CASE C!Connect \/ C!OnReady \/ C!BackendReads \/ C!BackendSends \/ C!Poll
  BY <1>2, <1>3 DEF C!Connect, C!OnReady, C!BackendReads, C!BackendSends, C!Poll, C!PollerWakes,
     C!PollerLooks, C!PollerReads, C!PollerSends, C!PollerAgain, C!board
<1>4. ASSUME NEW ok \in BOOLEAN, C!OnFormatListResponse(ok) PROVE BoardSound'
  BY <1>2, <1>4 DEF C!OnFormatListResponse, C!board
<1>5. ASSUME NEW format \in C!Formats, C!OnRemoteCopy(format) PROVE BoardSound'
  BY <1>2, <1>5 DEF C!OnRemoteCopy, C!board
<1>6. ASSUME NEW decoded \in BOOLEAN, C!OnFormatDataResponse(decoded) PROVE BoardSound'
  <2>1. UNCHANGED <<selfCount, guarded>> /\ guarded = "no"
    BY <1>6 DEF C!OnFormatDataResponse
  <2>2. C!Write("client") \/ UNCHANGED <<count, owner, amid>>
    BY <1>6 DEF C!OnFormatDataResponse
  <2> QED BY <1>2, <2>1, <2>2, WriteKeeps
<1>7. CASE C!Disconnect \/ C!OnOutgoingLocksExpired
  <2>1. /\ UNCHANGED <<count, owner, selfCount, amid>>
        /\ guarded' # "no" => C!StillOurs
    BY <1>7 DEF C!Disconnect, C!OnOutgoingLocksExpired
  <2> QED BY <2>1 DEF BoardSound, C!StillOurs, Ours
<1>8. CASE C!Publish
  <2>1. count' = count + 1 /\ owner' = "ours" /\ UNCHANGED selfCount
    BY <1>8 DEF C!Publish, C!Write
  <2> QED BY <2>1 DEF BoardSound, Ours
<1>9. CASE C!Clear
  <2>1. count' = count + 1 /\ owner' = "nobody" /\ UNCHANGED selfCount
    BY <1>9 DEF C!Clear, C!Write
  <2> QED BY <2>1 DEF BoardSound, Ours
<1>10. CASE C!Records
  <2>1. guarded = "record" /\ selfCount' = count /\ UNCHANGED <<count, owner, amid>>
    BY <1>10 DEF C!Records
  <2> QED BY <2>1 DEF BoardSound, Ours
<1>11. CASE C!OnRemoteFileList \/ C!PasteFails
  BY <1>2, <1>11 DEF C!OnRemoteFileList, C!PasteFails, C!board
<1> QED BY <1>1, <1>3, <1>4, <1>5, <1>6, <1>7, <1>8, <1>9, <1>10, <1>11 DEF C!Next

\* Cleaning up never clears what somebody else copied, for any number of copies,
\* connections, offers and file lists under way, unless it was copied between two calls of
\* ours on the pasteboard, which other applications do not wait for.
THEOREM CopiesAreKept == Spec => C!NeverStomps
<1>1. Init => BoardSound
  BY DEF Init, C!Init, BoardSound, Ours
<1>2. BoardSound /\ [Next]_vars => BoardSound'
  <2> SUFFICES ASSUME BoardSound, [Next]_vars PROVE BoardSound'
    OBVIOUS
  <2>1. CASE Copying(C!Next)
    BY <2>1, ClipboardKeeps DEF Copying
  <2>2. CASE UNCHANGED clipboardVars
    BY <2>2 DEF clipboardVars, BoardSound, Ours
  <2> QED BY <2>1, <2>2 DEF Next, Overlay, Sound, Mount, Usb, vars
<1>3. BoardSound => [C!Clear => owner \in {"ours", "nobody"} \/ amid]_(C!clipboardVars)
  BY DEF BoardSound, Ours, C!Clear
<1> QED BY <1>1, <1>2, <1>3, PTL DEF Spec, C!NeverStomps

-----------------------------------------------------------------------------
(* DriveMounts                                                              *)

Stages == {"none", "unmounts", "removes", "unregisters", "done"}
Surface(last) ==
    [pid : 1..last, drive : Drives, at : {"defers", "serves", "gone"}, age : 0..Defer]

MountTyped ==
    /\ pid \in 1..MaxStarts /\ running \in BOOLEAN
    /\ mounts \in [M!Places -> Seq(Nat)]
    /\ surfaces \in Seq(Surface(pid))
    /\ cleaner \in Seq(Stages) /\ Len(cleaner) = Len(surfaces)

\* Of the surfaces of a name at most one has not gone.
OneStands ==
    \A s, t \in M!Numbers :
        s # t /\ M!Place(s) = M!Place(t) => surfaces[s].at = "gone" \/ surfaces[t].at = "gone"

\* What has not gone has no thread that unmounts it, and is no older than another of its
\* name that still has; when it serves it is as old as MOUNT_DEFER.
Older(s, t) == cleaner[t] \in {"none", "done"} \/ surfaces[t].age >= surfaces[s].age

StandingKept ==
    \A s \in M!Numbers : surfaces[s].at # "gone" =>
        /\ cleaner[s] = "none"
        /\ surfaces[s].at = "serves" => surfaces[s].age = Defer
        /\ \A t \in M!Numbers : t # s /\ M!Place(t) = M!Place(s) => Older(s, t)

\* Only names of dead processes are reaped, and of those no surface stands.
DeadReaped ==
    /\ \A p \in reaping : p[1] # pid
    /\ ~running => \A s \in M!Numbers : surfaces[s].at = "gone"
    /\ \A s \in M!Numbers : surfaces[s].pid # pid => surfaces[s].at = "gone"

MountSound == MountTyped /\ OneStands /\ StandingKept /\ DeadReaped

\* A step that leaves surfaces and threads alone.
LEMMA MountsElsewhere ==
  ASSUME MountSound, UNCHANGED <<pid, running, surfaces, cleaner>>,
         mounts' \in [M!Places -> Seq(Nat)], reaping' \subseteq reaping
  PROVE  MountSound'
BY DEF MountSound, MountTyped, OneStands, StandingKept, Older, DeadReaped, M!Numbers, M!Place

\* What umount leaves of a stack of volumes.
LEMMA Shortened ==
  ASSUME NEW m \in Seq(Nat), NEW k \in 0..Len(m)
  PROVE  SubSeq(m, 1, Len(m) - k) \in Seq(Nat) /\ (k = 0 => SubSeq(m, 1, Len(m) - k) = m)
<1>1. Len(m) - k \in 0..Len(m)
  OBVIOUS
<1>2. SubSeq(m, 1, Len(m) - k) \in Seq(Nat)
  BY <1>1
<1>3. ASSUME k = 0 PROVE SubSeq(m, 1, Len(m) - k) = m
  BY <1>3
<1> QED BY <1>2, <1>3

LEMMA ShorterMounts ==
  ASSUME mounts \in [M!Places -> Seq(Nat)], NEW taken,
         \A p \in M!Places : taken[p] \in 0..Len(mounts[p])
  PROVE  /\ M!Unmounted(taken) \in [M!Places -> Seq(Nat)]
         /\ \A p \in M!Places : taken[p] = 0 => M!Unmounted(taken)[p] = mounts[p]
BY Shortened DEF M!Unmounted

\* One umount of a name takes nothing off another.
LEMMA OneUmount ==
  ASSUME mounts \in [M!Places -> Seq(Nat)], NEW p, NEW taken \in M!Umounts(p)
  PROVE  /\ M!Unmounted(taken) \in [M!Places -> Seq(Nat)]
         /\ \A q \in M!Places : q # p => M!Unmounted(taken)[q] = mounts[q]
<1>1. \A q \in M!Places : taken[q] \in {0, 1} /\ taken[q] <= (IF q = p THEN Len(mounts[q]) ELSE 0)
  BY DEF M!Umounts
<1>2. \A q \in M!Places : taken[q] \in 0..Len(mounts[q]) /\ (q # p => taken[q] = 0)
  BY <1>1
<1> QED BY <1>2, ShorterMounts

LEMMA AnnouncedKeeps == ASSUME MountSound, NEW d \in Drives, M!Announced(d) PROVE MountSound'
<1> SUFFICES ASSUME NEW n, n = Len(surfaces) PROVE MountSound'
  OBVIOUS
<1> DEFINE e == [pid |-> pid, drive |-> d, at |-> "defers", age |-> 0]
<1>1. /\ surfaces \in Seq(Surface(pid)) /\ cleaner \in Seq(Stages) /\ Len(cleaner) = n
      /\ pid \in 1..MaxStarts /\ e \in Surface(pid) /\ "none" \in Stages
  BY MountConstants DEF MountSound, MountTyped, Surface, Stages
<1>2. /\ surfaces' = Append(surfaces, e) /\ cleaner' = Append(cleaner, "none")
      /\ running /\ UNCHANGED <<pid, running, mounts, reaping>>
  BY DEF M!Announced
<1>3. /\ surfaces' \in Seq(Surface(pid)) /\ Len(surfaces') = n + 1
      /\ cleaner' \in Seq(Stages) /\ Len(cleaner') = n + 1
  BY <1>1, <1>2
<1>4. n \in Nat /\ M!Numbers = 1..n /\ M!Numbers' = 1..(n + 1)
  BY <1>1, <1>2, <1>3 DEF M!Numbers
<1>5. \A s \in 1..n : surfaces'[s] = surfaces[s] /\ cleaner'[s] = cleaner[s]
  BY <1>1, <1>2, <1>4
<1>6. surfaces'[n + 1] = e /\ cleaner'[n + 1] = "none"
  BY <1>1, <1>2, <1>4
<1>7. \A s \in 1..n : surfaces[s].pid = pid /\ surfaces[s].drive = d => surfaces[s].at = "gone"
  BY <1>4 DEF M!Announced
<1>8. \A s \in 1..(n + 1) : s \in 1..n \/ s = n + 1
  BY <1>4
<1>9. /\ \A s \in 1..n : M!Place(s)' = M!Place(s)
      /\ M!Place(n + 1)' = <<pid, d>>
  BY <1>2, <1>5, <1>6 DEF M!Place
<1>10. \A s \in 1..n : M!Place(s) = <<pid, d>> => surfaces[s].at = "gone"
  BY <1>7 DEF M!Place
<1> HIDE DEF e
<1>11. MountTyped'
  BY <1>1, <1>2, <1>3 DEF MountSound, MountTyped
<1>12. OneStands'
  <2> SUFFICES ASSUME NEW s \in 1..(n + 1), NEW t \in 1..(n + 1), s # t, M!Place(s)' = M!Place(t)'
               PROVE surfaces'[s].at = "gone" \/ surfaces'[t].at = "gone"
    BY <1>4 DEF OneStands
  <2>1. CASE s \in 1..n /\ t \in 1..n
    BY <2>1, <1>4, <1>5, <1>9 DEF MountSound, OneStands
  <2>2. CASE s = n + 1
    BY <2>2, <1>8, <1>9, <1>10, <1>5
  <2>3. CASE t = n + 1
    BY <2>3, <1>8, <1>9, <1>10, <1>5
  <2> QED BY <2>1, <2>2, <2>3, <1>8
<1>13. e.at = "defers" /\ e.pid = pid /\ e.age = 0
  BY DEF e
<1>14. StandingKept'
  <2> SUFFICES ASSUME NEW s \in 1..(n + 1), surfaces'[s].at # "gone"
               PROVE  /\ cleaner'[s] = "none"
                      /\ surfaces'[s].at = "serves" => surfaces'[s].age = Defer
                      /\ \A t \in 1..(n + 1) : t # s /\ M!Place(t)' = M!Place(s)' =>
                           cleaner'[t] \in {"none", "done"} \/ surfaces'[t].age >= surfaces'[s].age
    BY <1>4 DEF StandingKept, Older
  <2>1. CASE s \in 1..n
    BY <2>1, <1>4, <1>5, <1>6, <1>8, <1>9 DEF MountSound, StandingKept, Older
  <2>2. ASSUME s = n + 1, NEW t \in 1..n PROVE surfaces'[t].age >= surfaces'[s].age
    <3>1. surfaces[t] \in Surface(pid)
      BY <1>1, <1>4, <2>2
    <3>2. surfaces[t].age >= 0
      BY <3>1, MountConstants DEF Surface
    <3> QED BY <2>2, <3>2, <1>5, <1>6, <1>13
  <2>3. CASE s = n + 1
    BY <2>2, <2>3, <1>6, <1>8, <1>13
  <2> QED BY <2>1, <2>3, <1>8
<1>15. DeadReaped'
  BY <1>2, <1>4, <1>5, <1>6, <1>8, <1>13 DEF MountSound, DeadReaped
<1> QED BY <1>11, <1>12, <1>14, <1>15 DEF MountSound

\* A surface that stands begins to serve, or goes and leaves its thread.
LEMMA StageKeeps ==
  ASSUME MountSound, NEW s \in M!Numbers, NEW w \in Surface(pid), NEW c \in Stages,
         surfaces' = [surfaces EXCEPT ![s] = w], cleaner' = [cleaner EXCEPT ![s] = c],
         UNCHANGED <<pid, running, reaping>>, mounts' \in [M!Places -> Seq(Nat)],
         w.pid = surfaces[s].pid, w.drive = surfaces[s].drive,
         surfaces[s].at = "gone" => w.at = "gone",
         w.at # "gone" => c = "none" /\ w.age = surfaces[s].age,
         w.at = "serves" => w.age = Defer,
         \A t \in M!Numbers : t # s /\ M!Place(t) = M!Place(s) =>
             surfaces[t].at = "gone" \/ c \in {"none", "done"} \/ w.age >= surfaces[t].age
  PROVE  MountSound'
<1>1. /\ surfaces \in Seq(Surface(pid)) /\ cleaner \in Seq(Stages) /\ Len(cleaner) = Len(surfaces)
      /\ pid \in 1..MaxStarts
  BY DEF MountSound, MountTyped
<1>2. s \in DOMAIN surfaces /\ s \in DOMAIN cleaner
  BY <1>1 DEF M!Numbers
<1>3. surfaces'[s] = w /\ cleaner'[s] = c
  BY <1>2
<1>4. DOMAIN surfaces' = DOMAIN surfaces /\ M!Numbers' = M!Numbers
  BY DEF M!Numbers
<1>5. \A t \in M!Numbers : t # s => surfaces'[t] = surfaces[t] /\ cleaner'[t] = cleaner[t]
  BY <1>1 DEF M!Numbers
<1>7. surfaces' \in Seq(Surface(pid)) /\ cleaner' \in Seq(Stages) /\ Len(cleaner') = Len(surfaces')
  BY <1>1, <1>2
<1>8. \A t \in M!Numbers : M!Place(t)' = M!Place(t)
  BY <1>3, <1>5 DEF M!Place
<1>9. MountTyped'
  BY <1>1, <1>7 DEF MountSound, MountTyped
<1>10. OneStands'
  BY <1>3, <1>4, <1>5, <1>8 DEF MountSound, OneStands
<1>11. StandingKept'
  <2> SUFFICES ASSUME NEW r \in M!Numbers, surfaces'[r].at # "gone"
               PROVE  /\ cleaner'[r] = "none"
                      /\ surfaces'[r].at = "serves" => surfaces'[r].age = Defer
                      /\ \A t \in M!Numbers : t # r /\ M!Place(t) = M!Place(r) =>
                           cleaner'[t] \in {"none", "done"} \/ surfaces'[t].age >= surfaces'[r].age
    BY <1>4, <1>8 DEF StandingKept, Older
  <2>1. cleaner'[r] = "none" /\ (surfaces'[r].at = "serves" => surfaces'[r].age = Defer)
    BY <1>3, <1>5 DEF MountSound, StandingKept
  <2>2. ASSUME NEW t \in M!Numbers, t # r, M!Place(t) = M!Place(r)
        PROVE  cleaner'[t] \in {"none", "done"} \/ surfaces'[t].age >= surfaces'[r].age
    <3>1. CASE t = s
      BY <2>2, <3>1, <1>3, <1>5
    <3>2. CASE r = s
      BY <2>2, <3>2, <1>3, <1>5 DEF MountSound, StandingKept, Older
    <3>3. CASE t # s /\ r # s
      BY <2>2, <3>3, <1>5 DEF MountSound, StandingKept, Older
    <3> QED BY <3>1, <3>2, <3>3
  <2> QED BY <2>1, <2>2
<1>12. DeadReaped'
  BY <1>3, <1>4, <1>5 DEF MountSound, DeadReaped
<1> QED BY <1>9, <1>10, <1>11, <1>12 DEF MountSound

\* A function of the first numbers is a sequence.
LEMMA Enumerated ==
  ASSUME NEW T, NEW n \in Nat, NEW f \in [1..n -> T] PROVE f \in Seq(T) /\ Len(f) = n
OBVIOUS

\* Time passes for the old before it does for the young.
LEMMA OlderSurface ==
  ASSUME NEW n, NEW x \in Surface(n)
  PROVE  /\ M!Older(x) \in Surface(n) /\ M!Older(x).at = x.at
         /\ M!Older(x).pid = x.pid /\ M!Older(x).drive = x.drive
         /\ x.age \in 0..Defer
         /\ M!Older(x).age = (IF x.age < Defer THEN x.age + 1 ELSE x.age)
<1>1. x.age \in 0..Defer /\ Defer \in Nat
  BY MountConstants DEF Surface
<1>2. (IF x.age < Defer THEN x.age + 1 ELSE x.age) \in 0..Defer
  BY <1>1
<1>3. M!Older(x) = [x EXCEPT !.age = IF x.age < Defer THEN x.age + 1 ELSE x.age]
  BY DEF M!Older
<1> QED BY <1>1, <1>2, <1>3 DEF Surface

LEMMA TickKeeps == ASSUME MountSound, M!Tick PROVE MountSound'
<1> SUFFICES ASSUME NEW n, n = Len(surfaces) PROVE MountSound'
  OBVIOUS
<1>1. /\ surfaces \in Seq(Surface(pid)) /\ cleaner \in Seq(Stages) /\ Len(cleaner) = n
      /\ pid \in 1..MaxStarts /\ M!Numbers = 1..n /\ n \in Nat
  BY DEF MountSound, MountTyped, M!Numbers
<1>2. /\ surfaces' = [s \in 1..n |-> M!Older(surfaces[s])]
      /\ UNCHANGED <<pid, running, cleaner, mounts, reaping>>
  BY <1>1 DEF M!Tick
<1>3. \A s \in 1..n : surfaces[s] \in Surface(pid)
  BY <1>1
<1>4. \A s \in 1..n : /\ surfaces'[s] \in Surface(pid) /\ surfaces'[s].at = surfaces[s].at
                      /\ surfaces'[s].pid = surfaces[s].pid
                      /\ surfaces'[s].drive = surfaces[s].drive
                      /\ surfaces[s].age \in 0..Defer
                      /\ surfaces'[s].age = (IF surfaces[s].age < Defer THEN surfaces[s].age + 1
                                                                      ELSE surfaces[s].age)
  BY <1>2, <1>3, OlderSurface
<1>5. surfaces' \in Seq(Surface(pid)) /\ Len(surfaces') = n
  <2>1. surfaces' \in [1..n -> Surface(pid)]
    BY <1>2, <1>4
  <2> QED BY <1>1, <2>1, Enumerated
<1>6. M!Numbers' = 1..n
  BY <1>2 DEF M!Numbers
<1>7. \A s \in 1..n : M!Place(s)' = M!Place(s)
  BY <1>4 DEF M!Place
<1>8. MountTyped'
  BY <1>1, <1>2, <1>5 DEF MountSound, MountTyped
<1>9. OneStands'
  BY <1>1, <1>4, <1>6, <1>7 DEF MountSound, OneStands
<1>10. StandingKept'
  <2> SUFFICES ASSUME NEW s \in 1..n, surfaces'[s].at # "gone"
               PROVE  /\ cleaner'[s] = "none"
                      /\ surfaces'[s].at = "serves" => surfaces'[s].age = Defer
                      /\ \A t \in 1..n : t # s /\ M!Place(t) = M!Place(s) =>
                           cleaner'[t] \in {"none", "done"} \/ surfaces'[t].age >= surfaces'[s].age
    BY <1>6, <1>7 DEF StandingKept, Older
  <2>1. cleaner'[s] = "none" /\ (surfaces'[s].at = "serves" => surfaces'[s].age = Defer)
    <3>1. cleaner[s] = "none" /\ (surfaces[s].at = "serves" => surfaces[s].age = Defer)
      BY <1>1, <1>4 DEF MountSound, StandingKept
    <3>2. surfaces[s].age = Defer => surfaces'[s].age = Defer
      BY <1>4, MountConstants
    <3> QED BY <3>1, <3>2, <1>2, <1>4
  <2>2. ASSUME NEW t \in 1..n, t # s, M!Place(t) = M!Place(s)
        PROVE  cleaner'[t] \in {"none", "done"} \/ surfaces'[t].age >= surfaces'[s].age
    <3>1. cleaner[t] \in {"none", "done"} \/ surfaces[t].age >= surfaces[s].age
      BY <1>1, <1>4, <2>2 DEF MountSound, StandingKept, Older
    <3>2. surfaces[t].age >= surfaces[s].age => surfaces'[t].age >= surfaces'[s].age
      <4> DEFINE a == surfaces[t].age
                 b == surfaces[s].age
      <4>1. /\ a \in 0..Defer /\ b \in 0..Defer /\ Defer \in Nat
            /\ surfaces'[t].age = (IF a < Defer THEN a + 1 ELSE a)
            /\ surfaces'[s].age = (IF b < Defer THEN b + 1 ELSE b)
        BY <1>4, MountConstants
      <4> HIDE DEF a, b
      <4>2. a >= b => surfaces'[t].age >= surfaces'[s].age
        BY <4>1
      <4> QED BY <4>2 DEF a, b
    <3> QED BY <3>1, <3>2, <1>2
  <2> QED BY <2>1, <2>2
<1>11. DeadReaped'
  BY <1>1, <1>2, <1>4, <1>6 DEF MountSound, DeadReaped
<1> QED BY <1>8, <1>9, <1>10, <1>11 DEF MountSound

LEMMA EndKeeps ==
  ASSUME MountSound, M!Ends, mounts' \in [M!Places -> Seq(Nat)] PROVE MountSound'
<1> DEFINE n == Len(surfaces)
<1>1. /\ surfaces \in Seq(Surface(pid)) /\ cleaner \in Seq(Stages) /\ Len(cleaner) = n
      /\ pid \in 1..MaxStarts /\ M!Numbers = 1..n /\ n \in Nat
  BY DEF MountSound, MountTyped, M!Numbers
<1>2. /\ surfaces' = [s \in 1..n |-> [surfaces[s] EXCEPT !.at = "gone"]]
      /\ cleaner' = [s \in 1..n |-> IF cleaner[s] = "none" THEN "none" ELSE "done"]
      /\ pid' = pid /\ running' = FALSE /\ reaping' = {}
  BY <1>1 DEF M!Ends
<1>3. \A s \in 1..n : surfaces[s] \in Surface(pid)
  BY <1>1
<1>4. \A s \in 1..n : [surfaces[s] EXCEPT !.at = "gone"] \in Surface(pid)
  BY <1>3 DEF Surface
<1>5. \A s \in 1..n : surfaces'[s].at = "gone"
  BY <1>2, <1>3 DEF Surface
<1>6. surfaces' \in Seq(Surface(pid)) /\ Len(surfaces') = n
  <2> HIDE DEF n
  <2>1. surfaces' \in [1..n -> Surface(pid)]
    BY <1>2, <1>4
  <2> QED BY <1>1, <2>1, Enumerated
<1>7. cleaner' \in Seq(Stages) /\ Len(cleaner') = n
  <2> HIDE DEF n
  <2>1. \A s \in 1..n : (IF cleaner[s] = "none" THEN "none" ELSE "done") \in Stages
    BY DEF Stages
  <2>2. cleaner' \in [1..n -> Stages]
    BY <1>2, <2>1
  <2> QED BY <1>1, <2>2, Enumerated
<1>8. M!Numbers' = 1..n
  BY <1>2 DEF M!Numbers
<1>9. MountTyped'
  BY <1>1, <1>2, <1>6, <1>7 DEF MountTyped
<1>10. OneStands'
  BY <1>5, <1>8 DEF OneStands
<1>11. StandingKept'
  BY <1>5, <1>8 DEF StandingKept
<1>12. DeadReaped'
  BY <1>2, <1>5, <1>8 DEF DeadReaped
<1> QED BY <1>9, <1>10, <1>11, <1>12 DEF MountSound

LEMMA ProcessStarts == ASSUME MountSound, M!Started PROVE MountSound'
<1>1. /\ pid \in 1..MaxStarts /\ pid < MaxStarts /\ pid' = pid + 1 /\ running' = TRUE /\ ~running
      /\ UNCHANGED <<surfaces, cleaner, mounts>> /\ MaxStarts \in Nat
      /\ \A p \in reaping' : p[1] <= pid
  BY MountConstants DEF MountSound, MountTyped, M!Started, M!Dead
<1>2. \A s \in M!Numbers : surfaces[s].at = "gone"
  BY <1>1 DEF MountSound, DeadReaped
<1>3. M!Numbers' = M!Numbers
  BY <1>1 DEF M!Numbers
<1>4. surfaces \in Seq(Surface(pid'))
  <2>1. Surface(pid) \subseteq Surface(pid + 1)
    BY <1>1 DEF Surface
  <2>2. surfaces \in Seq(Surface(pid))
    BY DEF MountSound, MountTyped
  <2> QED BY <2>1, <2>2, <1>1
<1>5. MountTyped'
  BY <1>1, <1>4 DEF MountSound, MountTyped
<1>6. OneStands' /\ StandingKept'
  BY <1>1, <1>2, <1>3 DEF OneStands, StandingKept
<1>7. DeadReaped'
  <2>1. \A p \in reaping' : p[1] # pid'
    BY <1>1
  <2> QED BY <1>1, <1>2, <1>3, <2>1 DEF DeadReaped
<1> QED BY <1>5, <1>6, <1>7 DEF MountSound

LEMMA MountsSound == ASSUME MountSound, M!MountNext PROVE MountSound'
<1>1. mounts \in [M!Places -> Seq(Nat)]
  BY DEF MountSound, MountTyped
<1>2. \A s \in M!Numbers : s \in Nat
  BY DEF MountSound, MountTyped, M!Numbers
<1>16. \A s \in M!Numbers : surfaces[s] \in Surface(pid)
  BY DEF MountSound, MountTyped, M!Numbers
<1>3. ASSUME NEW d \in Drives, M!Announced(d) PROVE MountSound'
  BY <1>3, AnnouncedKeeps
<1>4. ASSUME NEW s \in M!Numbers, M!Serves(s) PROVE MountSound'
  <2> DEFINE w == [surfaces[s] EXCEPT !.at = "serves"]
  <2>1. /\ surfaces' = [surfaces EXCEPT ![s] = w]
        /\ UNCHANGED <<cleaner, pid, running, reaping, mounts>>
        /\ surfaces[s].at = "defers" /\ surfaces[s].age = Defer
    BY <1>4 DEF M!Serves, M!WaitedOut
  <2>2. cleaner[s] = "none" /\ cleaner' = [cleaner EXCEPT ![s] = "none"]
    <3>1. cleaner \in Seq(Stages) /\ cleaner[s] = "none"
      BY <2>1 DEF MountSound, MountTyped, StandingKept
    <3> QED BY <2>1, <3>1
  <2>3. /\ w \in Surface(pid) /\ w.pid = surfaces[s].pid /\ w.drive = surfaces[s].drive
        /\ w.age = surfaces[s].age /\ w.at = "serves"
    BY <1>16 DEF Surface
  <2> HIDE DEF w
  <2>4. surfaces[s].at = "gone" => w.at = "gone"
    BY <2>1
  <2>5. w.at # "gone" => "none" = "none" /\ w.age = surfaces[s].age
    BY <2>3
  <2>6. w.at = "serves" => w.age = Defer
    BY <2>1, <2>3
  <2>7. \A t \in M!Numbers : t # s /\ M!Place(t) = M!Place(s) =>
          surfaces[t].at = "gone" \/ "none" \in {"none", "done"} \/ w.age >= surfaces[t].age
    OBVIOUS
  <2>8. mounts' \in [M!Places -> Seq(Nat)] /\ UNCHANGED <<pid, running, reaping>> /\ "none" \in Stages
    BY <1>1, <2>1 DEF Stages
  <2> QED BY <2>1, <2>2, <2>3, <2>4, <2>5, <2>6, <2>7, <2>8, StageKeeps
<1>5. ASSUME NEW s \in M!Numbers, M!Reaches(s) \/ M!Registers(s) PROVE MountSound'
  <2>1. UNCHANGED <<pid, running, surfaces, cleaner, mounts, reaping>>
    BY <1>5 DEF M!Reaches, M!Registers
  <2> QED BY <1>1, <2>1, MountsElsewhere
<1>6. ASSUME NEW s \in M!Numbers, M!Mounts(s) PROVE MountSound'
  <2>1. UNCHANGED <<pid, running, surfaces, cleaner, reaping>>
    BY <1>6 DEF M!Mounts
  <2>2. mounts' = [mounts EXCEPT ![M!Place(s)] = Append(@, s)] \/ mounts' = mounts
    BY <1>6 DEF M!Mounts
  <2>3. mounts' \in [M!Places -> Seq(Nat)]
    <3>1. CASE M!Place(s) \in M!Places
      <4>1. mounts[M!Place(s)] \in Seq(Nat) /\ s \in Nat
        BY <1>1, <1>2, <3>1
      <4>2. Append(mounts[M!Place(s)], s) \in Seq(Nat)
        BY <4>1
      <4>3. mounts' = [mounts EXCEPT ![M!Place(s)] = Append(mounts[M!Place(s)], s)] \/ mounts' = mounts
        BY <2>2
      <4> QED BY <1>1, <3>1, <4>2, <4>3
    <3>2. CASE M!Place(s) \notin M!Places
      BY <1>1, <2>2, <3>2
    <3> QED BY <3>1, <3>2
  <2> QED BY <2>1, <2>3, MountsElsewhere
<1>7. ASSUME NEW s \in M!Numbers, M!Dropped(s) PROVE MountSound'
  <2> DEFINE w == [surfaces[s] EXCEPT !.at = "gone", !.age = 0]
  <2>1. /\ surfaces' = [surfaces EXCEPT ![s] = w]
        /\ cleaner' = [cleaner EXCEPT ![s] = "unmounts"]
        /\ UNCHANGED <<pid, running, reaping, mounts>> /\ surfaces[s].at # "gone"
    BY <1>7 DEF M!Dropped
  <2>2. w \in Surface(pid) /\ w.pid = surfaces[s].pid /\ w.drive = surfaces[s].drive /\ w.at = "gone"
    <3>1. surfaces[s] \in Surface(pid) /\ 0 \in 0..Defer
      BY <1>16, MountConstants
    <3>2. w = [[surfaces[s] EXCEPT !.at = "gone"] EXCEPT !.age = 0]
      OBVIOUS
    <3>3. [surfaces[s] EXCEPT !.at = "gone"] \in Surface(pid)
      BY <3>1 DEF Surface
    <3> QED BY <3>1, <3>2, <3>3 DEF Surface
  <2> HIDE DEF w
  <2>3. surfaces[s].at = "gone" => w.at = "gone"
    BY <2>2
  <2>4. w.at # "gone" => "unmounts" = "none" /\ w.age = surfaces[s].age
    BY <2>2
  <2>5. w.at = "serves" => w.age = Defer
    BY <2>2
  <2>6. \A t \in M!Numbers : t # s /\ M!Place(t) = M!Place(s) =>
          surfaces[t].at = "gone" \/ "unmounts" \in {"none", "done"} \/ w.age >= surfaces[t].age
    BY <2>1 DEF MountSound, OneStands
  <2>7. mounts' \in [M!Places -> Seq(Nat)] /\ UNCHANGED <<pid, running, reaping>>
        /\ "unmounts" \in Stages
    BY <1>1, <2>1 DEF Stages
  <2> QED BY <2>1, <2>2, <2>3, <2>4, <2>5, <2>6, <2>7, StageKeeps
<1>8. ASSUME NEW s \in M!Numbers, NEW c \in {"removes", "unregisters", "done"},
             cleaner[s] \in {"unmounts", "removes", "unregisters"},
             cleaner' = [cleaner EXCEPT ![s] = c],
             UNCHANGED <<pid, running, surfaces, reaping>>, mounts' \in [M!Places -> Seq(Nat)]
      PROVE  MountSound'
  <2> DEFINE w == surfaces[s]
  <2>1. w.at = "gone" /\ w \in Surface(pid)
    BY <1>8, <1>16 DEF MountSound, StandingKept
  <2>2. surfaces' = [surfaces EXCEPT ![s] = w]
    BY <1>8 DEF MountSound, MountTyped
  <2>3. w.pid = surfaces[s].pid /\ w.drive = surfaces[s].drive
    OBVIOUS
  <2>4. surfaces[s].at = "gone" => w.at = "gone"
    OBVIOUS
  <2>5. w.at # "gone" => c = "none" /\ w.age = surfaces[s].age
    BY <2>1
  <2>6. w.at = "serves" => w.age = Defer
    BY <2>1
  <2>7. \A t \in M!Numbers : t # s /\ M!Place(t) = M!Place(s) =>
          surfaces[t].at = "gone" \/ c \in {"none", "done"} \/ w.age >= surfaces[t].age
    <3> SUFFICES ASSUME NEW t \in M!Numbers, t # s, M!Place(t) = M!Place(s), surfaces[t].at # "gone"
                 PROVE  w.age >= surfaces[t].age
      OBVIOUS
    <3> QED BY <1>8 DEF MountSound, StandingKept, Older
  <2>8. UNCHANGED <<pid, running, reaping>> /\ c \in Stages
    BY <1>8 DEF Stages
  <2> HIDE DEF w
  <2> QED BY <1>8, <2>1, <2>2, <2>3, <2>4, <2>5, <2>6, <2>7, <2>8, StageKeeps
<1>9. ASSUME NEW s \in M!Numbers, M!Unmounts(s) PROVE MountSound'
  <2>1. /\ cleaner[s] = "unmounts" /\ cleaner' = [cleaner EXCEPT ![s] = "removes"]
        /\ UNCHANGED <<pid, running, surfaces, reaping>>
        /\ \E taken \in M!Umounts(M!Place(s)) : mounts' = M!Unmounted(taken)
    BY <1>9 DEF M!Unmounts
  <2>2. mounts' \in [M!Places -> Seq(Nat)]
    BY <1>1, <2>1, OneUmount
  <2> QED BY <1>8, <2>1, <2>2
<1>10. ASSUME NEW s \in M!Numbers, M!Removes(s) PROVE MountSound'
  BY <1>1, <1>8, <1>10 DEF M!Removes
<1>11. ASSUME NEW s \in M!Numbers, M!Unregisters(s) PROVE MountSound'
  <2>1. /\ cleaner[s] = "unregisters" /\ cleaner' = [cleaner EXCEPT ![s] = "done"]
        /\ UNCHANGED <<pid, running, surfaces, mounts, reaping>>
    BY <1>11 DEF M!Unregisters
  <2> QED BY <1>1, <1>8, <2>1
<1>12. CASE M!Signalled
  <2>1. PICK taken \in [M!Places -> 0..Len(registered)] :
          /\ \A p \in M!Places : taken[p] <= Len(mounts[p])
          /\ mounts' = M!Unmounted(taken)
    BY <1>12 DEF M!Signalled
  <2>2. \A p \in M!Places : taken[p] \in 0..Len(mounts[p])
    BY <1>1, <2>1
  <2>3. mounts' \in [M!Places -> Seq(Nat)] /\ M!Ends
    BY <1>1, <1>12, <2>1, <2>2, ShorterMounts DEF M!Signalled
  <2> QED BY <2>3, EndKeeps
<1>13. CASE M!Killed
  BY <1>1, <1>13, EndKeeps DEF M!Killed
<1>14. CASE M!Started
  BY <1>14, ProcessStarts
<1>15. ASSUME NEW p \in reaping, M!Reaped(p) PROVE MountSound'
  <2>1. /\ UNCHANGED <<pid, running, surfaces, cleaner>> /\ reaping' \subseteq reaping
        /\ \E taken \in M!Umounts(p) : mounts' = M!Unmounted(taken)
    BY <1>15 DEF M!Reaped
  <2>2. mounts' \in [M!Places -> Seq(Nat)]
    BY <1>1, <2>1, OneUmount
  <2> QED BY <2>1, <2>2, MountsElsewhere
<1>17. CASE M!Tick
  BY <1>17, TickKeeps
<1> QED BY <1>3, <1>4, <1>5, <1>6, <1>7, <1>9, <1>10, <1>11, <1>12, <1>13, <1>14, <1>15, <1>17
        DEF M!MountNext, M!Work

\* A surface keeps its name.
LEMMA PlacesStay ==
  ASSUME MountSound, M!MountNext, NEW s \in M!Numbers PROVE M!Place(s)' = M!Place(s)
<1>1. surfaces \in Seq(Surface(pid)) /\ s \in DOMAIN surfaces
  BY DEF MountSound, MountTyped, M!Numbers
<1>2. surfaces[s] \in Surface(pid)
  BY <1>1
<1> SUFFICES surfaces'[s].pid = surfaces[s].pid /\ surfaces'[s].drive = surfaces[s].drive
  BY DEF M!Place
<1>3. ASSUME NEW d \in Drives, M!Announced(d) PROVE surfaces'[s] = surfaces[s]
  BY <1>1, <1>3 DEF M!Announced
<1>4. ASSUME NEW t \in M!Numbers, NEW w, surfaces' = [surfaces EXCEPT ![t] = w],
             w.pid = surfaces[t].pid, w.drive = surfaces[t].drive
      PROVE  surfaces'[s].pid = surfaces[s].pid /\ surfaces'[s].drive = surfaces[s].drive
  BY <1>1, <1>4
<1>5. ASSUME NEW t \in M!Numbers, M!Serves(t) \/ M!Dropped(t)
      PROVE  surfaces'[s].pid = surfaces[s].pid /\ surfaces'[s].drive = surfaces[s].drive
  <2>1. surfaces[t] \in Surface(pid)
    BY DEF MountSound, MountTyped, M!Numbers
  <2>2. CASE M!Serves(t)
    <3> DEFINE w == [surfaces[t] EXCEPT !.at = "serves"]
    <3>1. surfaces' = [surfaces EXCEPT ![t] = w]
      BY <2>2 DEF M!Serves
    <3>2. w.pid = surfaces[t].pid /\ w.drive = surfaces[t].drive
      BY <2>1 DEF Surface
    <3> HIDE DEF w
    <3> QED BY <1>4, <3>1, <3>2
  <2>3. CASE M!Dropped(t)
    <3> DEFINE w == [surfaces[t] EXCEPT !.at = "gone", !.age = 0]
    <3>1. surfaces' = [surfaces EXCEPT ![t] = w]
      BY <2>3 DEF M!Dropped
    <3>2. w.pid = surfaces[t].pid /\ w.drive = surfaces[t].drive
      BY <2>1 DEF Surface
    <3> HIDE DEF w
    <3> QED BY <1>4, <3>1, <3>2
  <2> QED BY <1>5, <2>2, <2>3
<1>6. ASSUME NEW t \in M!Numbers,
             M!Reaches(t) \/ M!Mounts(t) \/ M!Registers(t) \/ M!Unmounts(t) \/ M!Removes(t) \/ M!Unregisters(t)
      PROVE  surfaces' = surfaces
  BY <1>6 DEF M!Reaches, M!Mounts, M!Registers, M!Unmounts, M!Removes, M!Unregisters
<1>7. CASE M!Signalled \/ M!Killed
  <2>1. surfaces' = [t \in M!Numbers |-> [surfaces[t] EXCEPT !.at = "gone"]]
    BY <1>7 DEF M!Signalled, M!Killed, M!Ends
  <2>2. surfaces'[s] = [surfaces[s] EXCEPT !.at = "gone"]
    BY <2>1
  <2> QED BY <1>2, <2>2 DEF Surface
<1>8. CASE M!Started
  BY <1>8 DEF M!Started
<1>9. ASSUME NEW p \in reaping, M!Reaped(p) PROVE surfaces' = surfaces
  BY <1>9 DEF M!Reaped
<1>10. CASE M!Tick
  <2>1. surfaces' = [t \in M!Numbers |-> M!Older(surfaces[t])]
    BY <1>10 DEF M!Tick
  <2>2. surfaces'[s] = M!Older(surfaces[s])
    BY <2>1
  <2> QED BY <1>2, <2>2, OlderSurface
<1> QED BY <1>3, <1>5, <1>6, <1>7, <1>8, <1>9, <1>10 DEF M!MountNext, M!Work

\* Nothing is taken off the place of a surface that serves on, but by a thread that has
\* had MOUNT_DEFER.
Late(s) == \E t \in M!Numbers : M!Place(t) = M!Place(s) /\ surfaces[t].age = Defer /\ M!Unmounts(t)

LEMMA ServedStays ==
  ASSUME MountSound, M!MountNext, NEW s \in M!Numbers, M!Served(s), running'
  PROVE  \/ Late(s)
         \/ /\ UNCHANGED pid /\ M!Place(s) \in M!Places
            /\ \/ mounts'[M!Place(s)] = mounts[M!Place(s)]
               \/ \E t : mounts'[M!Place(s)] = Append(mounts[M!Place(s)], t)
<1> DEFINE p == M!Place(s)
<1>1. mounts \in [M!Places -> Seq(Nat)] /\ surfaces[s].pid = pid /\ surfaces[s].at = "serves" /\ running
  BY DEF MountSound, MountTyped, M!Served
<1>2. p \in M!Places /\ p[1] = pid
  <2>1. surfaces \in Seq(Surface(pid)) /\ s \in DOMAIN surfaces /\ pid \in 1..MaxStarts
    BY DEF MountSound, MountTyped, M!Numbers
  <2>2. surfaces[s] \in Surface(pid)
    BY <2>1
  <2> QED BY <1>1, <2>1, <2>2 DEF M!Place, M!Places, Surface
<1>3. ASSUME NEW t \in M!Numbers, M!Unmounts(t), M!Place(t) = p PROVE Late(s)
  <2>1. cleaner[t] = "unmounts" /\ cleaner[s] = "none" /\ surfaces[s].age = Defer
    BY <1>1, <1>3 DEF M!Unmounts, MountSound, StandingKept
  <2>2. surfaces[t].age >= Defer
    BY <1>1, <1>3, <2>1 DEF MountSound, StandingKept, Older
  <2>3. surfaces[t].age \in 0..Defer
    <3>1. surfaces[t] \in Surface(pid)
      BY DEF MountSound, MountTyped, M!Numbers
    <3> QED BY <3>1 DEF Surface
  <2>4. surfaces[t].age = Defer
    BY <2>2, <2>3, MountConstants
  <2> QED BY <1>3, <2>4 DEF Late, p
<1> HIDE DEF p
<1>4. ASSUME NEW q, p # q, NEW taken \in M!Umounts(q), mounts' = M!Unmounted(taken), UNCHANGED pid
      PROVE  UNCHANGED pid /\ mounts'[p] = mounts[p]
  BY <1>1, <1>2, <1>4, OneUmount
<1>5. ASSUME NEW t \in M!Numbers, M!Mounts(t)
      PROVE  UNCHANGED pid /\ (mounts'[p] = mounts[p] \/ \E u : mounts'[p] = Append(mounts[p], u))
  <2>1. mounts' = [mounts EXCEPT ![M!Place(t)] = Append(@, t)] \/ mounts' = mounts
    BY <1>5 DEF M!Mounts
  <2>2. UNCHANGED pid
    BY <1>5 DEF M!Mounts
  <2>3. CASE M!Place(t) = p
    BY <1>1, <1>2, <2>1, <2>2, <2>3
  <2>4. CASE M!Place(t) # p
    BY <1>1, <1>2, <2>1, <2>2, <2>4
  <2> QED BY <2>3, <2>4
<1>6. ASSUME NEW t \in M!Numbers, M!Unmounts(t), M!Place(t) # p PROVE UNCHANGED pid /\ mounts'[p] = mounts[p]
  <2>1. UNCHANGED pid /\ \E taken \in M!Umounts(M!Place(t)) : mounts' = M!Unmounted(taken)
    BY <1>6 DEF M!Unmounts
  <2> QED BY <1>4, <1>6, <2>1
<1>7. ASSUME NEW q \in reaping, M!Reaped(q) PROVE UNCHANGED pid /\ mounts'[p] = mounts[p]
  <2>1. UNCHANGED pid /\ \E taken \in M!Umounts(q) : mounts' = M!Unmounted(taken)
    BY <1>7 DEF M!Reaped
  <2>2. p # q
    BY <1>2 DEF MountSound, DeadReaped
  <2> QED BY <1>4, <2>1, <2>2
<1>8. ASSUME NEW t \in M!Numbers,
             M!Serves(t) \/ M!Reaches(t) \/ M!Registers(t) \/ M!Removes(t) \/ M!Unregisters(t) \/ M!Dropped(t)
      PROVE  UNCHANGED pid /\ mounts'[p] = mounts[p]
  BY <1>8 DEF M!Serves, M!Reaches, M!Registers, M!Removes, M!Unregisters, M!Dropped
<1>9. ASSUME (\E d \in Drives : M!Announced(d)) \/ M!Tick PROVE UNCHANGED pid /\ mounts'[p] = mounts[p]
  BY <1>9 DEF M!Announced, M!Tick
<1>10. ~M!Signalled /\ ~M!Killed /\ ~M!Started
  BY <1>1 DEF M!Signalled, M!Killed, M!Ends, M!Started
<1>11. \/ Late(s)
       \/ UNCHANGED pid /\ (mounts'[p] = mounts[p] \/ \E u : mounts'[p] = Append(mounts[p], u))
  BY <1>3, <1>5, <1>6, <1>7, <1>8, <1>9, <1>10 DEF M!MountNext, M!Work
<1> QED BY <1>2, <1>11 DEF p

\* While its connection lasts, nothing unmounts a volume but an umount that an earlier
\* connection ordered and that has taken longer than MOUNT_DEFER: for any number of drives,
\* surfaces and processes, and any MOUNT_DEFER.
THEOREM LiveMountsStay == Spec => M!LiveMountStays
<1>1. Init => MountSound
  <2> SUFFICES ASSUME Init PROVE MountSound
    OBVIOUS
  <2>1. pid = 1 /\ running = TRUE /\ surfaces = <<>> /\ cleaner = <<>> /\ reaping = {}
        /\ mounts = [p \in M!Places |-> <<>>]
    BY DEF Init, M!Init
  <2>2. M!Numbers = {}
    BY <2>1 DEF M!Numbers
  <2> QED BY <2>1, <2>2, MountConstants DEF MountSound, MountTyped, OneStands, StandingKept, DeadReaped
<1>2. MountSound /\ [Next]_vars => MountSound'
  <2> SUFFICES ASSUME MountSound, [Next]_vars PROVE MountSound'
    OBVIOUS
  <2>1. CASE Mount(M!MountNext)
    BY <2>1, MountsSound DEF Mount
  <2>2. CASE UNCHANGED mountVars
    <3>1. UNCHANGED <<pid, running, surfaces, cleaner, reaping>> /\ mounts' \in [M!Places -> Seq(Nat)]
      BY <2>2 DEF mountVars, MountSound, MountTyped
    <3> QED BY <3>1, MountsElsewhere
  <2> QED BY <2>1, <2>2 DEF Next, Overlay, Copying, Sound, Usb, vars
<1>3. MountSound /\ [Next]_vars =>
         [\A s \in M!Numbers :
             (M!Mounted(s) /\ M!Served(s) /\ running' /\ surfaces'[s].at = "serves")
                => \/ M!Mounted(s)'
                   \/ \E t \in M!Numbers :
                         M!Place(t) = M!Place(s) /\ surfaces[t].age = Defer /\ M!Unmounts(t)]_(M!mountVars)
  <2> SUFFICES ASSUME MountSound, [Next]_vars, ~UNCHANGED M!mountVars,
                      NEW s \in M!Numbers, M!Mounted(s), M!Served(s), running',
                      surfaces'[s].at = "serves", ~Late(s)
               PROVE  M!Mounted(s)'
    BY DEF Late
  <2>1. M!MountNext
    BY DEF Next, Overlay, Copying, Sound, Mount, Usb, vars, mountVars, M!mountVars
  <2>2. /\ UNCHANGED pid /\ M!Place(s) \in M!Places
        /\ \/ mounts'[M!Place(s)] = mounts[M!Place(s)]
           \/ \E t : mounts'[M!Place(s)] = Append(mounts[M!Place(s)], t)
    BY <2>1, ServedStays
  <2>3. M!Place(s)' = M!Place(s)
    BY <2>1, PlacesStay
  <2>4. mounts[M!Place(s)] \in Seq(Nat)
    BY <2>2 DEF MountSound, MountTyped
  <2>5. PICK i \in DOMAIN mounts[M!Place(s)] : mounts[M!Place(s)][i] = s
    BY DEF M!Mounted, M!Lies
  <2>6. i \in DOMAIN mounts'[M!Place(s)] /\ mounts'[M!Place(s)][i] = s
    <3> DEFINE m == mounts[M!Place(s)]
               k == mounts'[M!Place(s)]
    <3>1. m \in Seq(Nat) /\ i \in DOMAIN m /\ m[i] = s
      BY <2>4, <2>5
    <3>2. k = m \/ \E t : k = Append(m, t)
      BY <2>2
    <3> HIDE DEF m, k
    <3>3. i \in DOMAIN k /\ k[i] = s
      BY <3>1, <3>2
    <3> QED BY <3>3 DEF k
  <2> QED BY <2>3, <2>6 DEF M!Mounted, M!Lies
<1> QED BY <1>1, <1>2, <1>3, PTL DEF Spec, M!LiveMountStays
==============================================================================
