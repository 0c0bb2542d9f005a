------------------------------ MODULE MCServices ------------------------------
(* What runs beside the picture, five parts that share no state: a behaviour is *)
(* one of a single part, the others at rest.                                     *)
EXTENDS Integers, Sequences, FiniteSets

CONSTANTS
    MaxStreams, MaxOpened, MaxResizes,
    Retries, MaxCopies, MaxRemote, MaxConns, MaxAsks,
    Sessions, MaxHotkeys,
    Drives, Defer, MaxSurfaces, MaxStarts,
    Channels, Transfers, Endpoint

VARIABLES
    mode, streams, permit, watcher, wasZero, slot, panel, mirrored, solo,
    keepsMain, layout, undo, lapsed, shields, stuck, sweeps, shows, refused, opened, resizes,
    count, owner, selfCount, guarded, amid, backends, ready, poller, locked, deferred, sender, paths,
    unanswered, holds, offered, requested, fetches, pending, copies, remotes, conns, asks,
    generation, myGen, channel, capture, silent, resync, since, suppressed, foreign, hotkeys,
    pid, running, surfaces, mounting, cleaner, mounts, dirs, registered, reaping, missed,
    link, driver, presented, hosts, pipes, raised, flying, answer,
    part   \* the part that runs

O == INSTANCE HeadlessOverlay
C == INSTANCE Clipboard
A == INSTANCE Audio
M == INSTANCE DriveMounts
U == INSTANCE UsbForward

\* A first process is started.
ASSUME MountConstants == MaxStarts \in Nat \ {0} /\ Defer \in Nat

\* The device: one endpoint of each kind.
SomeEndpoints == [c |-> "control", b |-> "bulk", i |-> "interrupt"]

overlayVars == <<mode, streams, permit, watcher, wasZero, slot, panel, mirrored, solo, keepsMain,
                 layout, undo, lapsed, shields, stuck, sweeps, shows, refused, opened, resizes>>
clipboardVars == <<count, owner, selfCount, guarded, amid, backends, ready, poller, locked, deferred,
                   sender, paths, unanswered, holds, offered, requested, fetches, pending, copies,
                   remotes, conns, asks>>
audioVars == <<generation, myGen, channel, capture, silent, resync, since, suppressed, foreign,
               hotkeys>>
mountVars == <<pid, running, surfaces, mounting, cleaner, mounts, dirs, registered, reaping, missed>>
usbVars == <<link, driver, presented, hosts, pipes, raised, flying, answer>>
vars == <<overlayVars, clipboardVars, audioVars, mountVars, usbVars, part>>

Overlay(step) ==
    /\ part = "overlay" /\ step
    /\ UNCHANGED <<clipboardVars, audioVars, mountVars, usbVars, part>>
Copying(step) ==
    /\ part = "clipboard" /\ step
    /\ UNCHANGED <<overlayVars, audioVars, mountVars, usbVars, part>>
Sound(step) ==
    /\ part = "audio" /\ step
    /\ UNCHANGED <<overlayVars, clipboardVars, mountVars, usbVars, part>>
Mount(step) ==
    /\ part = "mount" /\ step
    /\ UNCHANGED <<overlayVars, clipboardVars, audioVars, usbVars, part>>
Usb(step) ==
    /\ part = "usb" /\ step
    /\ UNCHANGED <<overlayVars, clipboardVars, audioVars, mountVars, part>>

Init ==
    /\ part \in {"overlay", "clipboard", "audio", "mount", "usb"}
    /\ O!Init /\ C!Init /\ A!Init /\ M!Init /\ U!UsbInit
    /\ part # "overlay" => mode = "shield" /\ solo /\ keepsMain

Next ==
    \/ Overlay(O!Next) \/ Copying(C!Next) \/ Sound(A!AudioNext)
    \/ Mount(M!MountNext) \/ Usb(U!UsbNext)

\* The fairness of the five; since one of them runs, three can share a condition.
Fairness ==
    /\ WF_vars(Overlay(O!Watch) \/ Copying(C!GoesOn) \/ Mount(M!AnyReaped))
    /\ WF_vars(Mount(M!AnyWork) \/ Copying(C!Advertises))
    /\ \A s \in Sessions :
          /\ WF_vars(Sound(A!Loop(s))) /\ WF_vars(Sound(A!Sample(s)))
          /\ SF_vars(Sound(A!Begins(s) /\ capture'[s] # "backs"))
    /\ \A c \in Channels : WF_vars(Usb(U!GoesOn(c)))

Spec == Init /\ [][Next]_vars

FairSpec == Spec /\ Fairness

PanelsRestored == O!PanelsRestored
OverlayCatchesUp == O!OverlayCatchesUp
CopiesSurvive == C!CopiesSurvive
SameFiles == C!SameFiles
LastStartedIsHeard == A!LastStartedIsHeard
OneForeignSample == A!OneForeignSample
MountsFollow == M!MountsFollow
ControlIsServed == U!ControlIsServed
===============================================================================
