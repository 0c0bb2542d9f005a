--------------------------- MODULE HeadlessOverlay ---------------------------
(***************************************************************************)
(* Going headless while a client is connected: the watcher task of main.rs *)
(* follows the number of display streams and installs or drops one overlay *)
(* over the physical panels (virtual_display/mod.rs).  Streams come and go *)
(* as it sleeps; a live resize starts threads of its own that raise the    *)
(* shields once more.                                                      *)
(*                                                                         *)
(* The panels are one.  Timers may pass at any time; each call to the      *)
(* window server or to the shield helper takes place or fails.             *)
(***************************************************************************)
EXTENDS Integers

CONSTANTS
    MaxStreams,   \* bound: streams at a time (two while a session is handed over)
    MaxOpened,    \* bound: streams ever opened
    MaxResizes    \* bound: live resizes of the virtual display

VARIABLES
    mode,       \* detach | capture | shield: one of the three flags
    streams,    \* SessionTracker.count
    permit,     \* SessionTracker.notify: its stored permit
    watcher,    \* waits | debounce | install | grace | settle
    wasZero,
    slot,       \* the overlay is in its slot
    panel,      \* shown | dark: disabled by detach, blanked by capture
    mirrored,   \* external: the panel mirrors the virtual display, when it is alone
    solo,       \* it did when the server started
    keepsMain,  \* MACRDP_SHIELD_KEEP_PHYSICAL_MAIN: a shield arranges nothing
    layout,     \* external: own | moved, the displays around the virtual one
    undo,       \* the overlay's record: the mirror it broke, the layout it found
    shields,    \* external: the helper's windows are up
    stuck,      \* the panel could not be enabled again
    sweeps,     \* reblanks of gather sweeps still to come
    shows,      \* detached threads about to send SHOW
    refused,    \* history: the last install failed
    lapsed,     \* history: what a failed call, or a SHOW too late, has left behind
    opened, resizes

machine == <<mode, solo, keepsMain>>
session == <<streams, permit>>
task == <<watcher, wasZero, slot, refused>>
physical == <<panel, mirrored, layout, undo, stuck, lapsed>>
helper == <<shields, sweeps, shows>>
bounds == <<opened, resizes>>
overlayVars == <<machine, session, task, physical, helper, bounds>>
-------------------------------------------------------------------------------
TypeOK ==
    /\ mode \in {"detach", "capture", "shield"} /\ {solo, keepsMain} \subseteq BOOLEAN
    /\ streams \in 0..MaxStreams /\ permit \in BOOLEAN
    /\ watcher \in {"waits", "debounce", "install", "grace", "settle"}
    /\ {wasZero, slot, refused, mirrored, stuck, shields} \subseteq BOOLEAN
    /\ panel \in {"shown", "dark"} /\ layout \in {"own", "moved"}
    /\ undo \in [mirror : BOOLEAN, layout : {"own", "moved"}]
    /\ lapsed \subseteq {"mirror", "layout", "hide", "show"}
    /\ sweeps \in 0..(3 * MaxResizes) /\ shows \in 0..(4 * MaxResizes)
    /\ opened \in 0..MaxOpened /\ resizes \in 0..MaxResizes

Init ==
    /\ mode \in {"detach", "capture", "shield"} /\ solo \in BOOLEAN /\ keepsMain \in BOOLEAN
    /\ mode # "shield" => keepsMain
    /\ streams = 0 /\ permit = FALSE
    /\ watcher = "waits" /\ wasZero = TRUE /\ slot = FALSE /\ refused = FALSE
    /\ panel = "shown" /\ mirrored = solo /\ stuck = FALSE
    /\ layout = "own" /\ undo = [mirror |-> FALSE, layout |-> "own"] /\ lapsed = {}
    /\ shields = FALSE /\ sweeps = 0 /\ shows = 0
    /\ opened = 0 /\ resizes = 0
-------------------------------------------------------------------------------
(* SessionTracker.                                                         *)

\* Mutant: only a task that waits at this moment is woken.
NotifyWaiters == watcher = "waits"

\* notify_one stores a permit.
Notified == TRUE

Enter ==
    /\ streams < MaxStreams /\ opened < MaxOpened
    /\ streams' = streams + 1 /\ opened' = opened + 1
    /\ permit' = (permit \/ Notified)
    /\ UNCHANGED <<machine, task, physical, helper, resizes>>

Leave ==
    /\ streams > 0 /\ streams' = streams - 1
    /\ permit' = (permit \/ Notified)
    /\ UNCHANGED <<machine, task, physical, helper, bounds>>
-------------------------------------------------------------------------------
(* spawn_primary_overlay_watcher.                                          *)

Wakes ==
    /\ watcher = "waits" /\ permit
    /\ permit' = FALSE
    /\ watcher' = CASE wasZero /\ streams > 0 -> "debounce"
                    [] ~wasZero /\ streams = 0 -> "grace"
                    [] OTHER -> "waits"
    /\ UNCHANGED <<machine, streams, wasZero, slot, refused, physical, helper, bounds>>

Debounced ==
    /\ watcher = "debounce"
    /\ watcher' = IF streams = 0 THEN "waits" ELSE "install"
    /\ UNCHANGED <<machine, session, wasZero, slot, refused, physical, helper, bounds>>

Installs(ok) ==
    /\ watcher = "install"
    /\ watcher' = "waits" /\ wasZero' = FALSE
    /\ slot' = ok /\ refused' = ~ok
    /\ UNCHANGED <<machine, session, sweeps, shows, bounds>>

\* The transaction that puts the virtual display at the origin and the panel beside it.
\* What fails after it takes nothing back.
Moved == layout' = "moved" /\ undo' = [mirror |-> FALSE, layout |-> layout]

NotMovedBack == Moved /\ lapsed' = lapsed \cup {"layout"}

\* DetachedPrimary::install.  A panel that a failed re-enable left disabled is
\* online but not active: it is taken over, to be enabled later.
Detach ==
    \/ Installs(FALSE) /\ UNCHANGED <<physical, shields>>
    \/ Installs(FALSE) /\ NotMovedBack /\ UNCHANGED <<panel, mirrored, stuck, shields>>
    \/ Installs(TRUE) /\ Moved /\ panel' = "dark" /\ UNCHANGED <<mirrored, stuck, lapsed, shields>>

\* CapturedPrimary::install: a capture that fails releases those it has; a gamma table
\* that is not accepted leaves the panel lit.
Capture ==
    \/ Installs(FALSE) /\ UNCHANGED <<physical, shields>>
    \/ Installs(FALSE) /\ NotMovedBack /\ UNCHANGED <<panel, mirrored, stuck, shields>>
    \/ Installs(TRUE) /\ Moved /\ panel' \in {"dark", "shown"}
       /\ UNCHANGED <<mirrored, stuck, lapsed, shields>>

\* shield::hide: the helper may not answer, with its windows lowered or not.
Lowered(failed) == shields' \in IF "hide" \in failed THEN BOOLEAN ELSE {FALSE}

\* remirror_onto_vd: only the panels whose mirror this install has broken.
Remirrored(broke, failed) ==
    mirrored' = IF broke THEN "mirror" \notin failed ELSE mirrored

\* A HIDE that arrives also lowers what an earlier one, or a late SHOW, has left.
Recorded(failed) == lapsed' = failed \cup (lapsed \ {"hide", "show"})

\* What may fail in taking a shield back.
MayFail(broke) == SUBSET ({"hide"} \cup IF broke THEN {"mirror"} ELSE {})

\* Mutant: a refusal lowers the shields and leaves the mirror broken.
LowerOnly(broke, failed) ==
    Lowered(failed) /\ Recorded(failed) /\ mirrored' = (mirrored /\ ~broke)

\* What an install that fails with the mirror broken takes back: no Drop will.
RolledBack(broke, failed) ==
    Lowered(failed) /\ Recorded(failed) /\ Remirrored(broke, failed)

\* ShieldedPrimary::install.  Nothing to shield, or a mirror that does not break.
MirrorKept == Installs(FALSE) /\ UNCHANGED <<physical, shields>>

\* The mirror is broken, but after seven attempts a panel is still uncovered.
UncoveredPanel ==
    /\ Installs(FALSE)
    /\ \E failed \in MayFail(mirrored) : RolledBack(mirrored, failed)
    /\ UNCHANGED <<panel, layout, undo, stuck>>

\* The shields are up, and the displays cannot be arranged.
ArrangeFails == ~keepsMain /\ UncoveredPanel

\* The shields are up; unless the panel stays main, the displays are arranged.
Arranged ==
    /\ Installs(TRUE)
    /\ mirrored' = FALSE /\ shields' = TRUE
    /\ undo' = [mirror |-> mirrored, layout |-> layout]
    /\ layout' = IF keepsMain THEN layout ELSE "moved"
    /\ UNCHANGED <<panel, stuck, lapsed>>

Shield == MirrorKept \/ UncoveredPanel \/ Arranged \/ ArrangeFails

Install ==
    \/ mode = "detach" /\ Detach
    \/ mode = "capture" /\ Capture
    \/ mode = "shield" /\ Shield

\* A stream within the grace is a reactivation.
CameBack ==
    /\ watcher = "grace" /\ streams > 0
    /\ watcher' = "waits"
    /\ UNCHANGED <<machine, session, wasZero, slot, refused, physical, helper, bounds>>

GraceOver ==
    /\ watcher = "grace" /\ streams = 0
    /\ watcher' = "settle"
    /\ UNCHANGED <<machine, session, wasZero, slot, refused, physical, helper, bounds>>

Drops ==
    /\ watcher = "settle"
    /\ watcher' = "waits" /\ wasZero' = TRUE /\ slot' = FALSE
    /\ UNCHANGED <<machine, session, refused, sweeps, shows, bounds>>

\* The origins that install found, unless the transaction fails.
MovedBack ==
    \/ layout' = undo.layout /\ UNCHANGED <<undo, lapsed>>
    \/ lapsed' = lapsed \cup {"layout"} /\ UNCHANGED <<undo, layout>>

\* DetachedPrimary::drop, three attempts.  On failure the process exits for its
\* supervisor to start it anew, which undoes its configuration, or it stays.
Attach ==
    \/ Drops /\ panel' = "shown" /\ stuck' = FALSE /\ MovedBack /\ UNCHANGED <<mirrored, shields>>
    \/ Drops /\ stuck' = TRUE /\ lapsed' = lapsed \cup {"layout"}
       /\ UNCHANGED <<panel, mirrored, layout, undo, shields>>

Release == Drops /\ panel' = "shown" /\ MovedBack /\ UNCHANGED <<mirrored, stuck, shields>>

\* ShieldedPrimary::drop: each of its three steps goes on without the one before.
Unshield ==
    /\ Drops
    /\ \E failed \in MayFail(undo.mirror), back \in {{}} \cup IF keepsMain THEN {} ELSE {{"layout"}} :
          /\ Lowered(failed) /\ Remirrored(undo.mirror, failed) /\ Recorded(failed \cup back)
          /\ layout' = IF keepsMain \/ back # {} THEN layout ELSE undo.layout
    /\ UNCHANGED <<panel, undo, stuck>>

Remove ==
    \/ ~slot /\ Drops /\ UNCHANGED <<physical, shields>>
    \/ slot /\ mode = "detach" /\ Attach
    \/ slot /\ mode = "capture" /\ Release
    \/ slot /\ mode = "shield" /\ Unshield

\* Exit and restart: the streams are gone, and app-only configuration with them.
ExitStuck ==
    /\ stuck /\ watcher = "waits" /\ ~slot
    /\ streams' = 0 /\ permit' = FALSE
    /\ wasZero' = TRUE /\ refused' = FALSE /\ UNCHANGED <<watcher, slot>>
    /\ panel' = "shown" /\ layout' = "own" /\ stuck' = FALSE /\ lapsed' = {}
    /\ UNCHANGED <<mirrored, undo>>
    /\ shields' = FALSE /\ sweeps' = 0 /\ shows' = 0
    /\ UNCHANGED <<machine, bounds>>
-------------------------------------------------------------------------------
(* sync_virtual_display, once the virtual display has a new mode: the       *)
(* blanking is asserted again at once and by three sweeps, each through the *)
(* slot, but the shield's SHOW goes out from a thread of its own.           *)

Reasserted == IF slot /\ mode = "shield" THEN shows + 1 ELSE shows

Resize ==
    /\ streams > 0 /\ resizes < MaxResizes
    /\ resizes' = resizes + 1
    /\ shows' = Reasserted /\ sweeps' = sweeps + 3
    /\ UNCHANGED <<machine, session, task, physical, shields, opened>>

Sweep ==
    /\ sweeps > 0 /\ sweeps' = sweeps - 1
    /\ shows' = Reasserted
    /\ UNCHANGED <<machine, session, task, physical, shields, bounds>>

\* It is not synchronised with a Drop, and it may fail.
ShowLands ==
    /\ shows > 0 /\ shows' = shows - 1
    /\ \/ /\ shields' = TRUE
          /\ lapsed' = IF slot THEN lapsed ELSE lapsed \cup {"show"}
       \/ UNCHANGED <<shields, lapsed>>
    /\ UNCHANGED <<machine, session, task, panel, mirrored, layout, undo, stuck, sweeps, bounds>>

Watch == Wakes \/ Debounced \/ Install \/ CameBack \/ GraceOver \/ Remove

Next ==
    \/ Enter \/ Leave
    \/ Watch \/ ExitStuck
    \/ Resize \/ Sweep \/ ShowLands

Spec == Init /\ [][Next]_overlayVars

\* The watcher's timers pass and its calls return.
FairSpec == Spec /\ WF_overlayVars(Watch)
-------------------------------------------------------------------------------
(* Properties.                                                             *)

\* The panels come back whole: whenever no overlay is in place, after installs that
\* failed on the way too, the panel is enabled and lit, no shield is over it, it mirrors
\* what it mirrored and the displays are laid out as they were.  What is not so is owed
\* to a call that failed, or to a SHOW that landed after the Drop, and to nothing else.
PanelsRestored ==
    ~slot =>
        /\ panel = "shown" \/ stuck
        /\ shields => lapsed \cap {"hide", "show"} # {}
        /\ mirrored = solo \/ "mirror" \in lapsed
        /\ layout = "own" \/ "layout" \in lapsed

\* However sessions come and go while the watcher sleeps, it catches up: one that
\* stays gets its overlay, unless the install failed, and an idle server has none.
OverlayCatchesUp ==
    /\ <>[](streams > 0) => <>[](slot \/ refused)
    /\ <>[](streams = 0) => <>[](~slot)
===============================================================================
