------------------------------ MODULE MCDesktop ------------------------------
(* What the client does to the desktop and with files, five parts that share no  *)
(* state: a behaviour is one of the keyboard, of the application switcher, of    *)
(* the pointer, of the volume of a drive or of files that are pasted, the other  *)
(* four at rest.                                                                 *)
EXTENDS Integers, FiniteSets

CONSTANTS
    Keys, Hotkeys, Remappable, Translatable, MaxSessions,
    Apps, MaxMoves, MaxPolls,
    Desktop, Widths, Scale, Cap, Wheel, Half, MaxTurns,
    Requests, FilePaths, DirPaths, Present, MaxOpen, MaxHandles, MaxIds, MaxChanges,
    Files, Reads, Chunks, Parallel, MaxLists

\* Keys are not modifiers, and no hotkey is remapped; the cap's units fit the accumulator.
ASSUME DesktopConstants ==
    /\ Keys \cap {"ctrl", "cmd", "caps"} = {} /\ Hotkeys \cap Remappable = {}
    /\ Scale \in Nat \ {0} /\ Cap \in Nat /\ Half \in Nat /\ Cap * Scale + Scale <= Half
    /\ Wheel \subseteq Nat

VARIABLES
    mods, caps, consumed, remapped, klid, held, excluded, view, down, typed,
    strays, visits,
    running, front, workspace, mru, lie, lastAx, session, cmd, poller, refront,
    visited, presses, flip, moves, polls,
    width, cached, at, buttons, drag, accum, turned, scrolled, last,
    swift, wrapped, turns,
    tree, filled, open, closing, cache, node, known, req, crossed, doubtful, changes,
    copied, list, lists, jobs, live, registry, fetched, disk, reads, tasks, planned, pending,
    nextId, asked, connected,
    part   \* the part that runs

K == INSTANCE Input
S == INSTANCE AppSwitcher
P == INSTANCE Pointer
D == INSTANCE DriveFiles
L == INSTANCE FileDownload

\* There are finitely many applications.
ASSUME SwitcherConstants == IsFiniteSet(Apps) /\ S!NoApp \notin Apps

ASSUME DownloadConstants == MaxLists \in Nat /\ Chunks \in Nat /\ Parallel \in Nat

\* Paths are sequences of names: each lies under itself, none is empty, and nothing else
\* lies under a file.
ASSUME DriveConstants ==
    /\ \A p \in D!Paths : p # <<>> /\ D!Under(p, p)
    /\ \A p \in FilePaths, q \in D!Paths : D!Under(q, p) => q = p

\* The volume of the drive: a directory with a file, a file beside it, and the names a
\* renamed directory brings.
SomeFiles == {<<"f">>, <<"d", "f">>, <<"e", "f">>}
SomeDirs == {<<"d">>, <<"e">>}
SomePresent == {<<"f">>, <<"d">>, <<"d", "f">>}

inputVars == <<mods, caps, consumed, remapped, klid, held, excluded, view, down, typed, strays,
               visits>>
switcherVars == <<running, front, workspace, mru, lie, lastAx, session, cmd, poller, refront,
                  visited, presses, flip, moves, polls>>
pointerVars == <<width, cached, at, buttons, drag, accum, turned, scrolled, last, swift, wrapped,
                 turns>>
driveVars == <<tree, filled, open, closing, cache, node, known, req, crossed, doubtful, changes>>
downloadVars == <<copied, list, lists, jobs, live, registry, fetched, disk, reads, tasks, planned,
                  pending, nextId, asked, connected>>
vars == <<inputVars, switcherVars, pointerVars, driveVars, downloadVars, part>>

Keyboard(A) ==
    /\ part = "keyboard" /\ A
    /\ UNCHANGED <<switcherVars, pointerVars, driveVars, downloadVars, part>>
Switcher(A) ==
    /\ part = "switcher" /\ A
    /\ UNCHANGED <<inputVars, pointerVars, driveVars, downloadVars, part>>
Mouse(A) ==
    /\ part = "mouse" /\ A
    /\ UNCHANGED <<inputVars, switcherVars, driveVars, downloadVars, part>>
Volume(A) ==
    /\ part = "volume" /\ A
    /\ UNCHANGED <<inputVars, switcherVars, pointerVars, downloadVars, part>>
Paste(A) ==
    /\ part = "paste" /\ A
    /\ UNCHANGED <<inputVars, switcherVars, pointerVars, driveVars, part>>

Init ==
    /\ part \in {"keyboard", "switcher", "mouse", "volume", "paste"}
    /\ K!Init /\ S!Init /\ P!Init /\ D!Init /\ L!Init
    /\ part # "keyboard" => ~klid /\ ~excluded
    /\ part # "switcher" => front = CHOOSE app \in Apps : TRUE
    /\ part # "mouse" => width = CHOOSE w \in Widths : TRUE

Next ==
    \/ Keyboard(K!Next) \/ Switcher(S!Next) \/ Mouse(P!Next)
    \/ Volume(D!DriveNext) \/ Paste(L!Next)

Spec == Init /\ [][Next]_vars

KeysBalance == K!KeysBalance
SwitchesLand == S!SwitchesLand
WheelKeepsUp == P!WheelKeepsUp
ReadsAreCurrent == D!ReadsAreCurrent
NoHandleLost == D!NoHandleLost
WholeOrGone == L!WholeOrGone
===============================================================================
