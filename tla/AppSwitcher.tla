----------------------------- MODULE AppSwitcher -----------------------------
(***************************************************************************)
(* The application switcher (input.rs): WindowServer does not take Cmd+Tab *)
(* from posted events, so the handler carries it out through the           *)
(* Accessibility API, whose activations NSWorkspace does not see.  A held  *)
(* Cmd is one session over a frozen list; a poller thread keeps the order  *)
(* of recent use up to date between sessions.                              *)
(*                                                                         *)
(* One process per application.  A release that bumps                      *)
(* CMD_RELEASE_GENERATION takes the session in the same call, so the       *)
(* generation is left out.                                                 *)
(***************************************************************************)
EXTENDS Integers, SequencesExt

CONSTANTS
    Apps,      \* applications with an activation policy of Regular
    MaxMoves,  \* bound: activations, quits, launches by others, and late raises
    MaxPolls   \* bound: promotions by the poller

NoApp == "none"

VARIABLES
    running,   \* external
    front,     \* external: the focused application, as the AX API reports it
    workspace, \* external: NSWorkspace.frontmostApplication
    mru,       \* mru_bundles
    lie, lastAx,  \* WORKSPACE_LIE_FRONT, LAST_AX_ACTIVATED_PID
    session,   \* CYCLE_SESSION: [snapshot, cursor], or NoSession
    cmd,       \* the halves of Cmd the handler takes as held
    poller,    \* [seen, promotes]: last_seen_pid, and what it is about to promote
    refront,   \* schedule_refront: applications a thread will raise again
    visited,   \* history: the cursors of this session since the last turn or loss
    presses,   \* history: its presses
    flip,      \* history: <<from, to>> of a last session of one press, undisturbed
    moves, polls

focus == <<running, front, workspace>>
tracker == <<mru, lie, lastAx>>
record == <<visited, presses, flip>>
switcherVars == <<focus, tracker, session, cmd, poller, refront, record, moves, polls>>

NoSession == [snapshot |-> <<>>, cursor |-> NoApp]
NoFlip == <<NoApp, NoApp>>
-------------------------------------------------------------------------------
TypeOK ==
    /\ running \subseteq Apps /\ {front, workspace, lie, lastAx} \subseteq Apps \cup {NoApp}
    /\ ToSet(mru) \subseteq Apps /\ IsInjective(mru)
    /\ ToSet(session.snapshot) \subseteq Apps /\ IsInjective(session.snapshot)
    /\ session.cursor \in ToSet(session.snapshot) \cup {NoApp}
    /\ cmd \subseteq {"left", "right"}
    /\ poller \in [seen : Apps \cup {NoApp}, promotes : Apps \cup {NoApp}]
    /\ refront \subseteq Apps /\ visited \subseteq Apps /\ presses \in 0..2
    /\ moves \in 0..MaxMoves /\ polls \in 0..MaxPolls

Init ==
    /\ running = Apps /\ front \in Apps /\ workspace = front
    /\ mru = <<>> /\ lie = NoApp /\ lastAx = NoApp
    /\ session = NoSession /\ cmd = {}
    /\ poller = [seen |-> NoApp, promotes |-> NoApp] /\ refront = {}
    /\ visited = {} /\ presses = 0 /\ flip = NoFlip
    /\ moves = 0 /\ polls = 0

\* Those of a list that are kept, in its order.
Only(order, kept) ==
    LET places == {i \in DOMAIN order : order[i] \in kept}
    IN  [k \in 1..Cardinality(places) |->
            order[CHOOSE i \in places : Cardinality(places \cap 1..i) = k]]

\* promote_bundle_to_front.
Promoted(order, app) == <<app>> \o Only(order, Apps \ {app})

\* ax_make_frontmost: the process, and one of its windows.
MakeFrontmost(app, ok) == front' = IF ok THEN app ELSE front

\* If that un-minimized a window, schedule_refront raises it again after the animation.
Unminimizes(app, ok) ==
    \/ UNCHANGED <<refront, moves>>
    \/ ok /\ moves < MaxMoves /\ moves' = moves + 1 /\ refront' = refront \cup {app}
-------------------------------------------------------------------------------
(* Others: the user's clicks and the Dock, launches and quits.              *)

Move ==
    /\ moves < MaxMoves /\ moves' = moves + 1 /\ flip' = NoFlip
    /\ UNCHANGED <<tracker, session, cmd, poller, refront, visited, presses, polls>>

Activate(app) ==
    /\ app \in running /\ front' = app /\ workspace' = app
    /\ UNCHANGED running
    /\ Move

Launch(app) ==
    /\ app \notin running
    /\ running' = running \cup {app} /\ front' = app /\ workspace' = app
    /\ Move

\* The system brings another one to the front.
Quit(app) ==
    /\ app \in running /\ running' = running \ {app}
    /\ \E next \in running' :
        /\ front' = IF front = app THEN next ELSE front
        /\ workspace' = IF workspace = app THEN front' ELSE workspace
    /\ Move
-------------------------------------------------------------------------------
(* cycle_apps, on each press of Tab under Cmd, or an arrow in a session.    *)

\* effective_front_pid: what NSWorkspace said before our first activation is not
\* believed while it keeps saying it.
Believed == lie = workspace /\ lie # NoApp /\ lastAx \in running
EffectiveFront == IF Believed THEN lastAx ELSE workspace

Origin == EffectiveFront

\* A session older than the grace counts as over: its cursor is committed.
Stale == IF session.cursor = NoApp THEN mru ELSE Promoted(mru, session.cursor)

\* A fresh list: new applications go to the end, the front one to the start.
Ranked(order) ==
    Promoted(order \o SetToSeq(running \ ToSet(order)), Origin)

FreshSnapshot(order) == Only(order, running)

\* The list of the session in progress: only those that quit have left it.
FrozenSnapshot == Only(session.snapshot, running)

\* Mutant: the list follows the order of use.
LiveSnapshot == FreshSnapshot(mru)

HeldSnapshot == FrozenSnapshot

\* The next place from the cursor's; without a cursor in the list, its first or last.
Landing(list, from, reverse) ==
    LET n == Len(list) IN
    IF \E i \in 1..n : list[i] = from
    THEN LET i == CHOOSE j \in 1..n : list[j] = from IN
         IF reverse THEN list[((i + n - 2) % n) + 1] ELSE list[(i % n) + 1]
    ELSE IF reverse THEN list[n] ELSE list[1]

\* What the last session left is remembered while nothing disturbs it.
Record(list, from, target, reverse, fresh, ok) ==
    /\ presses' = IF fresh THEN 1 ELSE 2
    /\ visited' = IF reverse \/ from \notin ToSet(list) THEN {target}
                  ELSE IF fresh THEN {from, target}
                  ELSE IF ToSet(list) \subseteq visited THEN {target}
                  ELSE visited \cup {target}
    /\ flip' = IF fresh /\ ok /\ ~reverse /\ from = front THEN <<from, target>> ELSE NoFlip

\* The step is shown at once; the activation may fail.
Land(list, from, order, reverse, fresh) ==
    \E target \in {Landing(list, from, reverse)}, ok \in BOOLEAN :
        /\ session' = [snapshot |-> list, cursor |-> target]
        /\ lie' = IF Believed THEN lie ELSE workspace
        /\ lastAx' = IF ok THEN target ELSE IF Believed THEN lastAx ELSE NoApp
        /\ mru' = IF ok THEN Promoted(order, target) ELSE order
        /\ MakeFrontmost(target, ok) /\ Unminimizes(target, ok)
        /\ Record(list, from, target, reverse, fresh, ok)
        /\ UNCHANGED <<running, workspace, cmd, poller, polls>>

Continue(reverse) ==
    /\ session # NoSession /\ HeldSnapshot # <<>>
    /\ Land(HeldSnapshot, session.cursor, mru, reverse, FALSE)

Start(reverse) ==
    \E order \in {Ranked(Stale)} : Land(FreshSnapshot(order), Origin, order, reverse, TRUE)

\* Everything in the list has quit.
Abandon ==
    /\ session # NoSession /\ HeldSnapshot = <<>>
    /\ session' = NoSession
    /\ lie' = (IF Believed THEN lie ELSE NoApp) /\ lastAx' = (IF Believed THEN lastAx ELSE NoApp)
    /\ visited' = {} /\ presses' = 0 /\ flip' = NoFlip
    /\ UNCHANGED <<focus, mru, cmd, poller, refront, moves, polls>>

\* late: CYCLE_RESUME_GRACE has passed since the last press.
Tab(reverse, late) ==
    /\ cmd # {}
    /\ \/ session = NoSession /\ ~late /\ Start(reverse)
       \/ session # NoSession /\ late /\ Start(reverse)
       \/ ~late /\ (Continue(reverse) \/ Abandon)
-------------------------------------------------------------------------------
(* The modifier path of key.                                               *)

PressCmd(half) ==
    /\ half \notin cmd /\ cmd' = cmd \cup {half}
    /\ UNCHANGED <<focus, tracker, session, poller, refront, record, moves, polls>>

\* commit_cycle_session: the cursor's application is promoted and raised once more.
Commit ==
    \E ok \in BOOLEAN :
        /\ ok => session.cursor \in running
        /\ mru' = Promoted(mru, session.cursor)
        /\ MakeFrontmost(session.cursor, ok) /\ Unminimizes(session.cursor, ok)
        /\ flip' = IF presses = 1 /\ (ok \/ front = session.cursor) THEN flip ELSE NoFlip
        /\ session' = NoSession /\ visited' = {} /\ presses' = 0
        /\ UNCHANGED <<running, workspace, lie, lastAx>>

Released(half) == cmd = {half}

ReleaseCmd(half) ==
    /\ half \in cmd /\ cmd' = cmd \ {half}
    /\ \/ Released(half) /\ session # NoSession /\ Commit
       \/ ~(Released(half) /\ session # NoSession)
          /\ UNCHANGED <<focus, tracker, session, refront, record, moves>>
    /\ UNCHANGED <<poller, polls>>

\* The thread of schedule_refront, whatever the user has done since.
Refront(app) ==
    /\ app \in refront /\ refront' = refront \ {app}
    /\ MakeFrontmost(app, app \in running)
    /\ flip' = IF front = app THEN flip ELSE NoFlip
    /\ UNCHANGED <<running, workspace, tracker, session, cmd, poller, visited, presses, moves, polls>>
-------------------------------------------------------------------------------
(* ax_focus_mru_poller_loop: it looks, and promotes what it saw some time   *)
(* later, unless a session was under way as it looked.                      *)

PollLooks ==
    /\ poller.promotes = NoApp /\ front # poller.seen /\ polls < MaxPolls /\ polls' = polls + 1
    /\ poller' = [seen |-> front, promotes |-> IF session = NoSession THEN front ELSE NoApp]
    /\ UNCHANGED <<focus, tracker, session, cmd, refront, record, moves>>

PollPromotes ==
    /\ poller.promotes # NoApp
    /\ mru' = Promoted(mru, poller.promotes)
    /\ poller' = [poller EXCEPT !.promotes = NoApp]
    /\ flip' = IF poller.promotes \in ToSet(flip) THEN flip ELSE NoFlip
    /\ UNCHANGED <<focus, lie, lastAx, session, cmd, refront, visited, presses, moves, polls>>

Next ==
    \/ \E app \in Apps : Activate(app) \/ Launch(app) \/ Quit(app) \/ Refront(app)
    \/ \E reverse, late \in BOOLEAN : Tab(reverse, late)
    \/ \E half \in {"left", "right"} : PressCmd(half) \/ ReleaseCmd(half)
    \/ PollLooks \/ PollPromotes

Spec == Init /\ [][Next]_switcherVars
-------------------------------------------------------------------------------
(* Properties.                                                             *)

\* One hold of Cmd reaches every application: going forward, no press lands on one
\* already shown before all have been, although each activation reorders the list
\* of recent use.
HoldReachesAll ==
    [][session # NoSession /\ session' # NoSession /\ Tab(FALSE, FALSE) =>
        \/ session'.cursor \notin visited
        \/ session.cursor \notin ToSet(session'.snapshot)
        \/ ToSet(session'.snapshot) \subseteq visited]_switcherVars

\* Two sessions of one press lead back to where the user was, although NSWorkspace
\* still names the application in front before the first.
TabTabReturns ==
    [][session = NoSession /\ flip # NoFlip /\ Tab(FALSE, FALSE) =>
        session'.cursor = flip[1]]_switcherVars

\* Together: a press of Tab lands where the user expects.
SwitchesLand == HoldReachesAll /\ TabTabReturns
===============================================================================
