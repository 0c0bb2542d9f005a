-------------------------------- MODULE Input --------------------------------
(***************************************************************************)
(* The keyboard half of the input handler (input.rs).  One handler serves  *)
(* the whole process, so what it believes to be held outlives a session.   *)
(* A key takes one of five ways: a modifier goes out as FlagsChanged, a    *)
(* symbolic hotkey is carried out here and swallowed, an editing shortcut  *)
(* is turned from Ctrl to Cmd, a typing key is translated to text, and     *)
(* every other key is posted as it is.                                     *)
(*                                                                         *)
(* Both halves of a modifier are one.  What macOS makes of the events is   *)
(* kept beside the handler's state.                                        *)
(***************************************************************************)
EXTENDS Integers

CONSTANTS
    Keys,          \* keys that are no modifiers
    Hotkeys,       \* swallowed under Cmd: Tab, Space, the screenshots, the backtick
    Remappable,    \* is_remappable_shortcut
    Translatable,  \* is_translatable_keycode
    MaxSessions    \* bound: sessions

VARIABLES
    mods, caps,          \* ModifierState
    consumed, remapped,  \* consumed_keys, remapped_keys
    klid,      \* the client announced a layout to translate
    held,      \* external: modifiers and keys the client's user holds down
    excluded,  \* external: the front application takes no remap
    view,      \* history: the modifiers macOS takes as held
    down,      \* history: the keys the focused application takes as held
    typed,     \* history: keys held whose press went out as text
    strays,    \* history: keys whose release was lost, or that a modifier came or went
               \* on, since macOS was last told that they went up
    visits     \* sessions so far

handler == <<mods, caps, consumed, remapped>>
client == <<klid, held, excluded, visits>>
seen == <<view, down, typed, strays>>
inputVars == <<handler, client, seen>>

Modifiers == {"ctrl", "cmd", "caps"}
-------------------------------------------------------------------------------
TypeOK ==
    /\ mods \subseteq {"ctrl", "cmd"} /\ caps \in BOOLEAN
    /\ consumed \subseteq Keys /\ remapped \subseteq Keys
    /\ klid \in BOOLEAN
    /\ held \subseteq Keys \cup Modifiers /\ excluded \in BOOLEAN
    /\ view \subseteq Modifiers /\ down \subseteq Keys /\ typed \subseteq Keys /\ strays \subseteq Keys
    /\ visits \in 1..MaxSessions

Init ==
    /\ mods = {} /\ caps = FALSE /\ consumed = {} /\ remapped = {}
    /\ klid \in BOOLEAN /\ held = {} /\ excluded \in BOOLEAN
    /\ view = {} /\ down = {} /\ typed = {} /\ strays = {}
    /\ visits = 1

\* ModifierState::cg_flags.
FlagsOf(m, c) == m \cup (IF c THEN {"caps"} ELSE {})
Flags == FlagsOf(mods, caps)

\* A press, repeated while the key is held, and the release of a held key.
Presses(k) == held' = held \cup {k}
Releases(k) == k \in held /\ held' = held \ {k}
-------------------------------------------------------------------------------
(* The user and the client.                                                *)

\* A release that never arrives: the client's window lost the focus.
LoseRelease(k) ==
    /\ k \in held /\ held' = held \ {k}
    /\ strays' = strays \cup ({k} \cap Keys)
    /\ UNCHANGED <<handler, klid, excluded, visits, view, down, typed>>

\* Another session: nothing is released for the one that ended.
Reconnect ==
    /\ visits < MaxSessions /\ visits' = visits + 1
    /\ held' = {} /\ klid' \in BOOLEAN
    /\ strays' = strays \cup (held \cap Keys)
    /\ UNCHANGED <<handler, excluded, view, down, typed>>

SwitchApplication ==
    /\ excluded' = ~excluded
    /\ UNCHANGED <<handler, klid, held, visits, seen>>

\* synchronize: only Caps Lock is reconciled.
Synchronize(want) ==
    /\ want # caps
    /\ caps' = want /\ view' = FlagsOf(mods, want)
    /\ UNCHANGED <<mods, consumed, remapped, client, down, typed, strays>>
-------------------------------------------------------------------------------
(* key: the first way that applies.                                        *)

\* refresh_auto_layout, before anything else: the layout the client last announced.
Translates == klid

\* ModifierState::apply, then post_flags_changed to both sources if it changed
\* anything; the toggle of Caps Lock goes with its press.
Modifier(m, isDown) ==
    /\ IF isDown THEN Presses(m) ELSE Releases(m)
    /\ \E after \in {IF isDown THEN mods \cup {m} ELSE mods \ {m}} :
        /\ mods' = after
        /\ view' = IF after # mods THEN FlagsOf(after, caps) ELSE view
        /\ strays' = IF after # mods THEN strays \cup ((held \cap Keys) \ remapped) ELSE strays
    /\ UNCHANGED <<caps, consumed, remapped, klid, excluded, visits, down, typed>>

CapsLock(isDown) ==
    /\ IF isDown THEN Presses("caps") ELSE Releases("caps")
    /\ caps' = IF isDown THEN ~caps ELSE caps
    /\ view' = IF isDown THEN FlagsOf(mods, ~caps) ELSE view
    /\ UNCHANGED <<mods, consumed, remapped, klid, excluded, visits, down, typed, strays>>

\* try_symbolic_hotkey.
IsHotkey(k) == "cmd" \in mods /\ "ctrl" \notin mods /\ k \in Hotkeys

Hotkey(k) ==
    /\ IsHotkey(k)
    /\ Presses(k)
    /\ consumed' = consumed \cup {k}
    /\ UNCHANGED <<mods, caps, remapped, klid, excluded, visits, seen>>

\* Mutant: a release is judged like a press, not by the press it belongs to.
StillHotkey(k) == IsHotkey(k)

OwnRelease(k) == k \in consumed

SwallowRelease(k) ==
    /\ OwnRelease(k)
    /\ Releases(k)
    /\ consumed' = consumed \ {k} /\ typed' = typed \ {k}
    /\ UNCHANGED <<mods, caps, remapped, klid, excluded, visits, view, down, strays>>

\* post_ctrl_as_cmd: Cmd in the place of Ctrl, and the real modifiers again with the
\* release.
SwappedFlags == (Flags \ {"ctrl"}) \cup {"cmd"}

FlagsAfterRemap == Flags

IsRemap(k) == {"ctrl"} = mods /\ k \in Remappable /\ ~excluded

RemapPress(k) ==
    /\ ~IsHotkey(k) /\ IsRemap(k)
    /\ Presses(k)
    /\ view' = SwappedFlags /\ down' = down \cup {k} /\ remapped' = remapped \cup {k}
    /\ UNCHANGED <<mods, caps, consumed, klid, excluded, visits, typed, strays>>

RemapRelease(k) ==
    /\ ~OwnRelease(k) /\ k \in remapped
    /\ Releases(k)
    /\ view' = FlagsAfterRemap /\ down' = down \ {k} /\ remapped' = remapped \ {k}
    /\ typed' = typed \ {k} /\ strays' = strays \ {k}
    /\ UNCHANGED <<mods, caps, consumed, klid, excluded, visits>>

\* A typing key with no shortcut modifier: its text goes out with the press, a dead
\* key's with the next one, and its release nowhere.
IsText(k) == Translates /\ mods = {} /\ k \in Translatable

TypeText(k) ==
    /\ ~IsHotkey(k) /\ ~IsRemap(k) /\ IsText(k)
    /\ Presses(k)
    /\ typed' = typed \cup {k}
    /\ UNCHANGED <<mods, caps, consumed, remapped, klid, excluded, visits, view, down, strays>>

TextRelease(k) ==
    /\ ~OwnRelease(k) /\ k \notin remapped /\ IsText(k)
    /\ Releases(k)
    /\ typed' = typed \ {k}
    /\ UNCHANGED <<mods, caps, consumed, remapped, klid, excluded, visits, view, down, strays>>

PostPress(k) ==
    /\ ~IsHotkey(k) /\ ~IsRemap(k) /\ ~IsText(k)
    /\ Presses(k)
    /\ down' = down \cup {k}
    /\ UNCHANGED <<mods, caps, consumed, remapped, klid, excluded, visits, view, typed, strays>>

PostRelease(k) ==
    /\ ~OwnRelease(k) /\ k \notin remapped /\ ~IsText(k)
    /\ Releases(k)
    /\ down' = down \ {k} /\ typed' = typed \ {k} /\ strays' = strays \ {k}
    /\ UNCHANGED <<mods, caps, consumed, remapped, klid, excluded, visits, view>>

Key(k) ==
    \/ Hotkey(k) \/ SwallowRelease(k) \/ RemapPress(k) \/ RemapRelease(k)
    \/ TypeText(k) \/ TextRelease(k) \/ PostPress(k) \/ PostRelease(k)

Next ==
    \/ \E m \in {"ctrl", "cmd"}, isDown \in BOOLEAN : Modifier(m, isDown)
    \/ \E isDown \in BOOLEAN : CapsLock(isDown)
    \/ \E want \in BOOLEAN : Synchronize(want)
    \/ \E k \in Keys : Key(k)
    \/ \E k \in Keys \cup Modifiers : LoseRelease(k)
    \/ Reconnect \/ SwitchApplication

Spec == Init /\ [][Next]_inputVars
-------------------------------------------------------------------------------
(* Properties.                                                             *)

\* macOS never keeps the Cmd of a remapped shortcut: with none of them held, the
\* modifiers it takes as held are the handler's, also when Ctrl was released before
\* the key, another modifier came in between, or a second shortcut overlapped.
FlagsFollow == remapped = {} => view = Flags

\* No application gets the bare release of a key whose press was swallowed as a
\* hotkey, whatever happened to Cmd in between.
NoBareRelease ==
    [][\A k \in Keys : PostRelease(k) => k \in down \/ k \in typed]_inputVars

\* An application is left with a key down only if its release was lost, or if a
\* modifier came or went while it was held: then its release may be judged otherwise
\* than its press, and be swallowed as text or as a hotkey's (the code does that).
\* Never so with a remapped shortcut, and never through changes of the application,
\* the layout and Caps Lock, repeats, or other keys.
NoKeyStays == down \subseteq held \cup strays

\* Together: what the Mac takes as held is what is held.
KeysBalance == [](FlagsFollow /\ NoKeyStays) /\ NoBareRelease
===============================================================================
