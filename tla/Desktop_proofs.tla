---------------------------- MODULE Desktop_proofs ----------------------------
(* What holds of the keyboard, the switcher of applications, the wheel, the     *)
(* volume of a drive and files that are pasted, for any sizes of them and any   *)
(* number of events, requests and lists.                                        *)
EXTENDS MCDesktop, Sequences, FiniteSetTheorems, WellFoundedInduction, TLAPS

-----------------------------------------------------------------------------
(* Input                                                                    *)

\* A key that is held has left a trace of the way its press took.
Traced == \A k \in held \cap Keys : k \in consumed \cup remapped \cup down \cup typed

\* A key that is down, or swallowed as a hotkey, and no stray is still held under the
\* modifiers and the layout of its press, which decide on its release alike.
Judged ==
    /\ consumed \subseteq Hotkeys /\ remapped \subseteq Remappable
    /\ \A k \in consumed \ strays : k \in held /\ K!IsHotkey(k)
    /\ \A k \in down \ (strays \cup remapped) :
          ~K!IsHotkey(k) /\ ~K!IsText(k) /\ k \notin consumed

KeysSound ==
    /\ down \subseteq Keys /\ consumed \subseteq Keys
    /\ K!FlagsFollow /\ K!NoKeyStays
    /\ Traced /\ Judged

\* Modifiers and keys are judged by mods and the layout alone.
LEMMA JudgedAlike ==
  ASSUME UNCHANGED <<mods, klid>>, NEW k
  PROVE  K!IsHotkey(k)' = K!IsHotkey(k) /\ K!IsText(k)' = K!IsText(k)
BY DEF K!IsHotkey, K!IsText, K!Translates

LEMMA FlagsKept ==
  ASSUME K!FlagsFollow, UNCHANGED <<mods, caps>>,
         remapped' = {} => remapped = {} /\ view' = view
  PROVE  K!FlagsFollow'
BY DEF K!FlagsFollow, K!Flags, K!FlagsOf

LEMMA PressKeeps ==
  ASSUME KeysSound, NEW k \in Keys,
         K!Hotkey(k) \/ K!RemapPress(k) \/ K!TypeText(k) \/ K!PostPress(k)
  PROVE  KeysSound'
<1>1. UNCHANGED <<mods, caps, klid>> /\ strays' = strays /\ held' = held \cup {k}
  BY DEF K!Hotkey, K!RemapPress, K!TypeText, K!PostPress, K!Presses, K!seen
<1>2. CASE K!Hotkey(k)
  <2>1. k \in Hotkeys /\ K!IsHotkey(k) /\ consumed' = consumed \cup {k}
        /\ UNCHANGED <<remapped, view, down, typed>>
    BY <1>2 DEF K!Hotkey, K!IsHotkey, K!seen
  <2>2. K!FlagsFollow'
    BY <1>1, <2>1, FlagsKept DEF KeysSound
  <2>3. k \notin down \/ k \in strays
    BY <2>1, DesktopConstants DEF KeysSound, Judged
  <2>4. Judged'
    BY <1>1, <2>1, <2>3, JudgedAlike DEF KeysSound, Judged
  <2> QED BY <1>1, <2>1, <2>2, <2>4 DEF KeysSound, Traced, K!NoKeyStays
<1>3. CASE K!RemapPress(k)
  <2>1. k \in Remappable /\ down' = down \cup {k} /\ remapped' = remapped \cup {k}
        /\ UNCHANGED <<consumed, typed>>
    BY <1>3 DEF K!RemapPress, K!IsRemap
  <2>2. Judged'
    BY <1>1, <2>1, JudgedAlike DEF KeysSound, Judged
  <2>3. K!FlagsFollow'
    BY <2>1 DEF K!FlagsFollow
  <2> QED BY <1>1, <2>1, <2>2, <2>3 DEF KeysSound, Traced, K!NoKeyStays
<1>4. CASE K!TypeText(k)
  <2>1. typed' = typed \cup {k} /\ UNCHANGED <<consumed, remapped, view, down>>
    BY <1>4 DEF K!TypeText
  <2>2. K!FlagsFollow'
    BY <1>1, <2>1, FlagsKept DEF KeysSound
  <2>3. Judged'
    BY <1>1, <2>1, JudgedAlike DEF KeysSound, Judged
  <2> QED BY <1>1, <2>1, <2>2, <2>3 DEF KeysSound, Traced, K!NoKeyStays
<1>5. CASE K!PostPress(k)
  <2>1. ~K!IsHotkey(k) /\ ~K!IsText(k) /\ down' = down \cup {k}
        /\ UNCHANGED <<consumed, remapped, view, typed>>
    BY <1>5 DEF K!PostPress
  <2>2. K!FlagsFollow'
    BY <1>1, <2>1, FlagsKept DEF KeysSound
  <2>3. k \notin consumed \/ k \in strays
    BY <2>1 DEF KeysSound, Judged
  <2>4. Judged'
    BY <1>1, <2>1, <2>3, JudgedAlike DEF KeysSound, Judged
  <2> QED BY <1>1, <2>1, <2>2, <2>4 DEF KeysSound, Traced, K!NoKeyStays
<1> QED BY <1>2, <1>3, <1>4, <1>5

LEMMA ReleaseKeeps ==
  ASSUME KeysSound, NEW k \in Keys,
         K!SwallowRelease(k) \/ K!RemapRelease(k) \/ K!TextRelease(k) \/ K!PostRelease(k)
  PROVE  KeysSound'
<1>1. UNCHANGED <<mods, caps, klid>> /\ held' = held \ {k}
  BY DEF K!SwallowRelease, K!RemapRelease, K!TextRelease, K!PostRelease, K!Releases
<1>2. CASE K!SwallowRelease(k)
  <2>1. k \in consumed /\ consumed' = consumed \ {k} /\ typed' = typed \ {k}
        /\ UNCHANGED <<remapped, view, down, strays>>
    BY <1>2 DEF K!SwallowRelease, K!OwnRelease
  <2>2. k \notin down \/ k \in strays
    BY <2>1, DesktopConstants DEF KeysSound, Judged
  <2>3. K!FlagsFollow'
    BY <1>1, <2>1, FlagsKept DEF KeysSound
  <2>4. Judged'
    BY <1>1, <2>1, JudgedAlike DEF KeysSound, Judged
  <2> QED BY <1>1, <2>1, <2>2, <2>3, <2>4 DEF KeysSound, Traced, K!NoKeyStays
<1>3. CASE K!RemapRelease(k)
  <2>1. k \notin consumed /\ down' = down \ {k} /\ remapped' = remapped \ {k}
        /\ typed' = typed \ {k} /\ strays' = strays \ {k} /\ view' = K!Flags
        /\ UNCHANGED consumed
    BY <1>3 DEF K!RemapRelease, K!OwnRelease, K!FlagsAfterRemap
  <2>2. K!FlagsFollow'
    BY <1>1, <2>1 DEF K!FlagsFollow, K!Flags, K!FlagsOf
  <2>3. Judged'
    BY <1>1, <2>1, JudgedAlike DEF KeysSound, Judged
  <2> QED BY <1>1, <2>1, <2>2, <2>3 DEF KeysSound, Traced, K!NoKeyStays
<1>4. CASE K!TextRelease(k)
  <2>1. k \notin remapped /\ K!IsText(k) /\ typed' = typed \ {k}
        /\ UNCHANGED <<consumed, remapped, view, down, strays>>
    BY <1>4 DEF K!TextRelease
  <2>2. k \notin consumed
    BY <1>4 DEF K!TextRelease, K!OwnRelease
  <2>3. k \notin down \/ k \in strays
    BY <2>1 DEF KeysSound, Judged
  <2>4. K!FlagsFollow'
    BY <1>1, <2>1, FlagsKept DEF KeysSound
  <2>5. Judged'
    BY <1>1, <2>1, <2>2, JudgedAlike DEF KeysSound, Judged
  <2> QED BY <1>1, <2>1, <2>3, <2>4, <2>5 DEF KeysSound, Traced, K!NoKeyStays
<1>5. CASE K!PostRelease(k)
  <2>1. k \notin consumed /\ down' = down \ {k} /\ typed' = typed \ {k} /\ strays' = strays \ {k}
        /\ UNCHANGED <<consumed, remapped, view>>
    BY <1>5 DEF K!PostRelease, K!OwnRelease
  <2>2. K!FlagsFollow'
    BY <1>1, <2>1, FlagsKept DEF KeysSound
  <2>3. Judged'
    BY <1>1, <2>1, JudgedAlike DEF KeysSound, Judged
  <2> QED BY <1>1, <2>1, <2>2, <2>3 DEF KeysSound, Traced, K!NoKeyStays
<1> QED BY <1>2, <1>3, <1>4, <1>5

LEMMA ModifierKeeps ==
  ASSUME KeysSound, NEW m \in {"ctrl", "cmd"}, NEW isDown \in BOOLEAN, K!Modifier(m, isDown)
  PROVE  KeysSound'
<1>1. /\ UNCHANGED <<caps, consumed, remapped, klid, down, typed>>
      /\ held' \cap Keys = held \cap Keys
      /\ strays' = IF mods' # mods THEN strays \cup ((held \cap Keys) \ remapped) ELSE strays
  BY DesktopConstants DEF K!Modifier, K!Presses, K!Releases
<1>2. K!FlagsFollow'
  BY <1>1 DEF KeysSound, K!FlagsFollow, K!Flags, K!FlagsOf, K!Modifier
<1>3. K!NoKeyStays' /\ Traced'
  BY <1>1 DEF KeysSound, K!NoKeyStays, Traced
<1>4. Judged'
  <2>1. CASE mods' = mods
    BY <1>1, <2>1, JudgedAlike DEF KeysSound, Judged
  <2>2. CASE mods' # mods
    <3>1. consumed \subseteq strays'
      BY <1>1, <2>2, DesktopConstants DEF KeysSound, Judged
    <3>2. down \subseteq strays' \cup remapped
      BY <1>1, <2>2 DEF KeysSound, K!NoKeyStays
    <3> QED BY <1>1, <3>1, <3>2 DEF KeysSound, Judged
  <2> QED BY <2>1, <2>2
<1> QED BY <1>1, <1>2, <1>3, <1>4 DEF KeysSound

LEMMA InputKeeps == ASSUME KeysSound, K!Next PROVE KeysSound'
<1>1. ASSUME NEW isDown \in BOOLEAN, K!CapsLock(isDown) PROVE KeysSound'
  <2>1. /\ UNCHANGED <<mods, consumed, remapped, klid, down, typed, strays>>
        /\ held' \cap Keys = held \cap Keys
    BY <1>1, DesktopConstants DEF K!CapsLock, K!Presses, K!Releases
  <2>2. K!FlagsFollow'
    BY <1>1, <2>1 DEF KeysSound, K!FlagsFollow, K!Flags, K!FlagsOf, K!CapsLock
  <2>3. Judged'
    BY <2>1, JudgedAlike DEF KeysSound, Judged
  <2> QED BY <2>1, <2>2, <2>3 DEF KeysSound, Traced, K!NoKeyStays
<1>2. ASSUME NEW want \in BOOLEAN, K!Synchronize(want) PROVE KeysSound'
  <2>1. UNCHANGED <<mods, consumed, remapped, klid, down, typed, strays, held>>
    BY <1>2 DEF K!Synchronize, K!client
  <2>2. K!FlagsFollow'
    BY <1>2, <2>1 DEF KeysSound, K!FlagsFollow, K!Flags, K!FlagsOf, K!Synchronize
  <2>3. Judged'
    BY <2>1, JudgedAlike DEF KeysSound, Judged
  <2> QED BY <2>1, <2>2, <2>3 DEF KeysSound, Traced, K!NoKeyStays
<1>3. ASSUME NEW k \in Keys \cup K!Modifiers, K!LoseRelease(k) PROVE KeysSound'
  <2>1. /\ UNCHANGED <<mods, caps, consumed, remapped, klid, view, down, typed>>
        /\ held' = held \ {k} /\ strays' = strays \cup ({k} \cap Keys)
    BY <1>3 DEF K!LoseRelease, K!handler
  <2>2. K!FlagsFollow'
    BY <2>1, FlagsKept DEF KeysSound
  <2>3. Judged'
    BY <2>1, JudgedAlike DEF KeysSound, Judged
  <2> QED BY <2>1, <2>2, <2>3 DEF KeysSound, Traced, K!NoKeyStays
<1>4. CASE K!Reconnect
  <2>1. /\ UNCHANGED <<mods, caps, consumed, remapped, view, down, typed>>
        /\ held' = {} /\ strays' = strays \cup (held \cap Keys)
    BY <1>4 DEF K!Reconnect, K!handler
  <2>2. K!FlagsFollow'
    BY <2>1, FlagsKept DEF KeysSound
  <2>3. consumed \subseteq strays' /\ down \subseteq strays'
    BY <2>1 DEF KeysSound, Judged, K!NoKeyStays
  <2> QED BY <2>1, <2>2, <2>3 DEF KeysSound, Judged, Traced, K!NoKeyStays
<1>5. CASE K!SwitchApplication
  <2>1. UNCHANGED <<mods, caps, consumed, remapped, klid, held, view, down, typed, strays>>
    BY <1>5 DEF K!SwitchApplication, K!handler, K!seen
  <2>2. K!FlagsFollow'
    BY <2>1, FlagsKept DEF KeysSound
  <2>3. Judged'
    BY <2>1, JudgedAlike DEF KeysSound, Judged
  <2> QED BY <2>1, <2>2, <2>3 DEF KeysSound, Traced, K!NoKeyStays
<1> QED BY <1>1, <1>2, <1>3, <1>4, <1>5, ModifierKeeps, PressKeeps, ReleaseKeeps DEF K!Next, K!Key

\* No remapped shortcut leaves its Cmd behind, no application is sent the release of a
\* key whose press it never got, and none is left with a key down but for a release that
\* was lost or a modifier that came or went meanwhile: for any keys and sessions.
THEOREM KeysAreBalanced == Spec => KeysBalance
<1>1. Init => KeysSound
  BY DEF Init, K!Init, KeysSound, Traced, Judged, K!FlagsFollow, K!Flags, K!FlagsOf, K!NoKeyStays
<1>2. KeysSound /\ [Next]_vars => KeysSound'
  <2> SUFFICES ASSUME KeysSound, [Next]_vars PROVE KeysSound'
    OBVIOUS
  <2>1. CASE Keyboard(K!Next)
    BY <2>1, InputKeeps DEF Keyboard
  <2>2. CASE UNCHANGED inputVars
    <3>1. K!FlagsFollow'
      BY <2>2, FlagsKept DEF inputVars, KeysSound
    <3>2. Judged'
      BY <2>2, JudgedAlike DEF inputVars, KeysSound, Judged
    <3> QED BY <2>2, <3>1, <3>2 DEF inputVars, KeysSound, Traced, K!NoKeyStays
  <2> QED BY <2>1, <2>2 DEF Next, Switcher, Mouse, Volume, Paste, vars
<1>3. KeysSound => K!FlagsFollow /\ K!NoKeyStays
  BY DEF KeysSound
<1>4. KeysSound => [\A k \in Keys : K!PostRelease(k) => k \in down \/ k \in typed]_(K!inputVars)
  BY DEF KeysSound, Traced, K!PostRelease, K!OwnRelease, K!Releases
<1> QED BY <1>1, <1>2, <1>3, <1>4, PTL DEF Spec, KeysBalance, K!KeysBalance, K!NoBareRelease

-----------------------------------------------------------------------------
(* Pointer                                                                  *)

Gathered ==
    /\ turned \in Int /\ scrolled \in Int /\ accum \in Int
    /\ wrapped \in BOOLEAN /\ swift \in BOOLEAN
    /\ P!WheelKeepsUp

\* The quotient of two naturals.
LEMMA Quotient ==
  ASSUME NEW n \in Nat, NEW s \in Nat \ {0}
  PROVE  n \div s \in Nat /\ (n \div s) * s <= n /\ n < (n \div s) * s + s
OBVIOUS

LEMMA Multiples == ASSUME NEW a \in Nat, NEW b \in Nat, NEW s \in Nat, a < b PROVE a * s + s <= b * s
OBVIOUS

LEMMA Negated == ASSUME NEW a \in Int, NEW s \in Int PROVE (-a) * s = -(a * s)
OBVIOUS

\* What is left of a sum: less than a line, or what the cap kept back of it.
LEMMA LeftOfPositive ==
  ASSUME NEW n \in Nat
  PROVE  /\ P!Posted(n) \in 0..Cap /\ P!Remainder(n) \in Nat
         /\ P!Remainder(n) >= Scale => P!Posted(n) = Cap
         /\ n < Cap * Scale + Scale => P!Remainder(n) < Scale
<1> USE DesktopConstants
<1> DEFINE q == n \div Scale
<1>1. q \in Nat /\ q * Scale <= n /\ n < q * Scale + Scale
  BY Quotient
<1>2. q * Scale \in Int /\ Cap * Scale \in Int /\ Scale \in Nat
  BY <1>1
<1>3. P!Posted(n) = IF q > Cap THEN Cap ELSE q
  BY <1>1 DEF P!Posted, P!Lines, P!Clamped
<1>4. P!Remainder(n) = n - P!Posted(n) * Scale
  BY DEF P!Remainder
<1>5. CASE q > Cap
  <2>1. Cap * Scale + Scale <= q * Scale
    BY <1>1, <1>5, Multiples
  <2> HIDE DEF q
  <2> QED BY <1>1, <1>2, <1>3, <1>4, <1>5, <2>1
<1>6. CASE q <= Cap
  <2> HIDE DEF q
  <2> QED BY <1>1, <1>2, <1>3, <1>4, <1>6
<1> HIDE DEF q
<1> QED BY <1>1, <1>5, <1>6

LEMMA Mirrored ==
  ASSUME NEW n \in Nat
  PROVE  P!Posted(-n) = -P!Posted(n) /\ P!Remainder(-n) = -P!Remainder(n)
<1> USE DesktopConstants
<1>1. n \div Scale \in Nat
  BY Quotient
<1>2. P!Posted(-n) = -P!Posted(n)
  <2>1. CASE n = 0
    <3>1. 0 \div Scale = 0
      OBVIOUS
    <3> QED BY <2>1, <3>1 DEF P!Posted, P!Lines, P!Clamped
  <2>2. CASE n > 0
    <3>1. P!Lines(n) = n \div Scale /\ P!Lines(-n) = -(n \div Scale)
      BY <2>2 DEF P!Lines
    <3> QED BY <1>1, <3>1 DEF P!Posted, P!Clamped
  <2> QED BY <2>1, <2>2
<1>3. P!Posted(n) \in Int
  BY LeftOfPositive
<1>4. (-P!Posted(n)) * Scale = -(P!Posted(n) * Scale) /\ P!Posted(n) * Scale \in Int
  BY <1>3, Negated
<1> QED BY <1>2, <1>4 DEF P!Remainder

LEMMA LeftOf ==
  ASSUME NEW n \in Int
  PROVE  /\ P!Posted(n) \in Int /\ P!Remainder(n) \in Int
         /\ P!Remainder(n) >= Scale => P!Posted(n) = Cap
         /\ P!Remainder(n) <= -Scale => P!Posted(n) = -Cap
         /\ (n < Cap * Scale + Scale /\ -n < Cap * Scale + Scale)
                => P!Remainder(n) \in (1 - Scale)..(Scale - 1)
<1> USE DesktopConstants
<1>1. CASE n \in Nat
  BY <1>1, LeftOfPositive
<1>2. CASE ~(n \in Nat)
  <2> DEFINE m == -n
  <2>1. m \in Nat /\ n = -m
    BY <1>2
  <2> HIDE DEF m
  <2>2. P!Posted(n) = -P!Posted(m) /\ P!Remainder(n) = -P!Remainder(m)
    BY <2>1, Mirrored
  <2>3. /\ P!Posted(m) \in 0..Cap /\ P!Remainder(m) \in Nat
        /\ P!Remainder(m) >= Scale => P!Posted(m) = Cap
        /\ m < Cap * Scale + Scale => P!Remainder(m) < Scale
    BY <2>1, LeftOfPositive
  <2>4. n < Cap * Scale + Scale /\ -n < Cap * Scale + Scale => m < Cap * Scale + Scale
    BY <2>1
  <2> QED BY <2>2, <2>3, <2>4
<1> QED BY <1>1, <1>2

LEMMA ScrollKeeps ==
  ASSUME Gathered, NEW units \in Int, P!Scroll(units)
  PROVE  Gathered'
<1> DEFINE sum == accum + units
           n == P!Wrapped(sum)
           p == P!Posted(n)
<1> USE DesktopConstants
<1>1. n \in Int /\ sum \in Int
  BY DEF P!Wrapped, Gathered
<1>2. /\ turned' = turned + units /\ scrolled' = scrolled + p /\ last' = p
      /\ accum' = n - p * Scale /\ accum' = P!Remainder(n)
      /\ wrapped' = (wrapped \/ n # sum)
      /\ swift' = (swift \/ units > Cap * Scale \/ -units > Cap * Scale)
  BY DEF P!Scroll, P!Remainder
<1>3. /\ p \in Int /\ accum' \in Int
      /\ accum' >= Scale => p = Cap
      /\ accum' <= -Scale => p = -Cap
      /\ (n < Cap * Scale + Scale /\ -n < Cap * Scale + Scale)
                => accum' \in (1 - Scale)..(Scale - 1)
  BY <1>1, <1>2, LeftOf
<1>4. ~swift' => accum' \in (1 - Scale)..(Scale - 1)
  <2> SUFFICES ASSUME ~swift' PROVE accum' \in (1 - Scale)..(Scale - 1)
    OBVIOUS
  <2>1. accum \in (1 - Scale)..(Scale - 1)
    BY <1>2 DEF Gathered, P!WheelKeepsUp, P!NoneKeptBack
  <2>2. Cap * Scale \in Int /\ units <= Cap * Scale /\ -units <= Cap * Scale
    <3>1. Cap * Scale \in Int
      OBVIOUS
    <3>2. ~(units > Cap * Scale) /\ ~(-units > Cap * Scale)
      BY <1>2
    <3> QED BY <3>1, <3>2
  <2>3. sum < Cap * Scale + Scale /\ -sum < Cap * Scale + Scale
    BY <2>1, <2>2
  <2>4. n = sum
    BY <1>1, <2>2, <2>3 DEF P!Wrapped
  <2> QED BY <1>3, <2>3, <2>4
<1> HIDE DEF p, n
<1>5. ~wrapped' => turned' = scrolled' * Scale + accum'
  <2> SUFFICES ASSUME ~wrapped' PROVE turned' = scrolled' * Scale + accum'
    OBVIOUS
  <2>1. n = accum + units /\ turned = scrolled * Scale + accum
    BY <1>2 DEF Gathered, P!WheelKeepsUp, P!NoneLost
  <2>2. (scrolled + p) * Scale = scrolled * Scale + p * Scale /\ p * Scale \in Int
        /\ scrolled * Scale \in Int
    BY <1>3 DEF Gathered
  <2> QED BY <1>1, <1>2, <2>1, <2>2 DEF Gathered
<1>6. turned' \in Int /\ scrolled' \in Int /\ wrapped' \in BOOLEAN /\ swift' \in BOOLEAN
  BY <1>2, <1>3 DEF Gathered
<1> QED BY <1>2, <1>3, <1>4, <1>5, <1>6
   DEF Gathered, P!WheelKeepsUp, P!NoneLost, P!NoneKeptBack

\* No motion of the wheel is lost short of an overflow of the accumulator, and lines are
\* kept back only by the cap, and only once an event brought more than it: for any scale,
\* cap and width that fit each other, any events and any number of them.
THEOREM WheelsKeepUp == Spec => []WheelKeepsUp
<1>1. Init => Gathered
  <2> SUFFICES ASSUME Init PROVE Gathered
    OBVIOUS
  <2>1. accum = 0 /\ turned = 0 /\ scrolled = 0 /\ last = 0 /\ swift = FALSE /\ wrapped = FALSE
    BY DEF Init, P!Init
  <2>2. Scale \in Nat \ {0}
    BY DesktopConstants
  <2>3. ~(0 >= Scale) /\ ~(0 <= -Scale) /\ 0 \in (1 - Scale)..(Scale - 1)
    BY <2>2
  <2>4. P!NoneKeptBack
    BY <2>1, <2>3 DEF P!NoneKeptBack
  <2>5. P!NoneLost
    BY <2>1, <2>2 DEF P!NoneLost
  <2>6. P!WheelKeepsUp
    BY <2>4, <2>5 DEF P!WheelKeepsUp
  <2>7. turned \in Int /\ scrolled \in Int /\ accum \in Int
    BY <2>1
  <2>8. wrapped \in BOOLEAN /\ swift \in BOOLEAN
    BY <2>1
  <2> QED BY <2>6, <2>7, <2>8 DEF Gathered
<1>2. ASSUME Gathered, P!Next PROVE Gathered'
  <2>1. ASSUME NEW units \in Wheel, P!Scroll(units) \/ P!Scroll(-units) PROVE Gathered'
    <3>1. units \in Int /\ -units \in Int
      BY DesktopConstants
    <3> QED BY <1>2, <2>1, <3>1, ScrollKeeps
  <2>2. CASE UNCHANGED P!wheel
    BY <1>2, <2>2 DEF P!wheel, Gathered, P!WheelKeepsUp, P!NoneLost, P!NoneKeptBack
  <2> QED BY <1>2, <2>1, <2>2 DEF P!Next, P!Remode, P!MoveTo, P!MoveRel, P!PostMove, P!Button
<1>3. Gathered /\ [Next]_vars => Gathered'
  <2> SUFFICES ASSUME Gathered, [Next]_vars PROVE Gathered'
    OBVIOUS
  <2>1. CASE Mouse(P!Next)
    BY <2>1, <1>2 DEF Mouse
  <2>2. CASE UNCHANGED pointerVars
    BY <2>2 DEF pointerVars, Gathered, P!WheelKeepsUp, P!NoneLost, P!NoneKeptBack
  <2> QED BY <2>1, <2>2 DEF Next, Keyboard, Switcher, Volume, Paste, vars
<1>4. Gathered => WheelKeepsUp
  BY DEF Gathered, WheelKeepsUp
<1> QED BY <1>1, <1>3, <1>4, PTL DEF Spec

-----------------------------------------------------------------------------
(* DriveFiles                                                               *)

LEMMA LeastOf == ASSUME NEW ns, ns \subseteq Nat, ns # {} PROVE \E n \in ns : \A m \in ns : n <= m
<1>1. PICK n \in ns : \A m \in ns : ~(<<m, n>> \in OpToRel(<, Nat))
  BY WFMin, NatLessThanWellFounded
<1>2. ASSUME NEW m \in ns, m < n PROVE FALSE
  <2>1. <<m, n>> \in OpToRel(<, Nat)
    BY <1>2 DEF OpToRel
  <2> QED BY <1>1, <2>1
<1> QED BY <1>2

LEMMA FreshIsNew == ASSUME NEW taken, IsFiniteSet(taken) PROVE D!Fresh(taken) \notin taken
<1> DEFINE c == Cardinality(taken)
           free == {n \in 1..(c + 1) : n \notin taken}
<1>1. D!Cardinality(taken) = c
  BY DEF D!Cardinality, Cardinality
<1>2. c \in Nat
  BY FS_CardinalityType
<1>3. free # {}
  <2> SUFFICES ASSUME free = {} PROVE FALSE
    OBVIOUS
  <2>1. 1..(c + 1) \subseteq taken
    OBVIOUS
  <2>2. Cardinality(1..(c + 1)) = c + 1
    <3>1. 1 \in Int /\ c + 1 \in Int /\ 1 <= c + 1
      BY <1>2
    <3>2. Cardinality(1..(c + 1)) = IF 1 > c + 1 THEN 0 ELSE (c + 1) - 1 + 1
      BY <3>1, FS_Interval
    <3> QED BY <3>1, <3>2
  <2>3. Cardinality(1..(c + 1)) <= c
    BY <2>1, FS_Subset
  <2> QED BY <1>2, <2>2, <2>3
<1>4. PICK n \in free : \A m \in free : n <= m
  <2>1. free \subseteq Nat
    BY <1>2
  <2> HIDE DEF free
  <2> QED BY <1>3, <2>1, LeastOf
<1>5. n \in 1..(D!Cardinality(taken) + 1) /\ n \notin taken /\ \A m \in 1..(n - 1) : m \in taken
  BY <1>1, <1>2, <1>4
<1> QED BY <1>5 DEF D!Fresh

DataKinds == {"opens", "opened", "handed", "sent"}
Movers == {"evicts", "evicts target", "asks"}

\* The fields a request has.
Formed ==
    /\ DOMAIN req = Requests
    /\ \A r \in Requests :
          /\ "at" \in DOMAIN req[r]
          /\ req[r].at \in DataKinds => {"handle", "path", "kind", "was"} \subseteq DOMAIN req[r]
          /\ req[r].at \in Movers => {"path", "to"} \subseteq DOMAIN req[r]

\* No two entries of the cache for the same use of a file, and none that is to be closed.
Entries ==
    /\ IsFiniteSet(DOMAIN open) /\ closing \subseteq DOMAIN open
    /\ \A e \in cache : e.path \in FilePaths /\ e.handle \in DOMAIN open /\ e.handle \notin closing
    /\ \A e, f \in cache : e.handle = f.handle => e = f
    /\ \A e, f \in cache : e.path = f.path /\ e.kind = f.kind => e = f

\* A handle that was just opened is its request's alone.
InHand ==
    \A r \in Requests : req[r].at = "opened" =>
        /\ req[r].handle \in DOMAIN open /\ req[r].handle \notin closing
        /\ req[r].path \in FilePaths
        /\ \A e \in cache : e.handle # req[r].handle
        /\ \A s \in Requests : s # r /\ req[s].at = "opened" => req[s].handle # req[r].handle

\* Requests that will open a file.
Openers == \A r \in Requests : req[r].at = "opens" => req[r].path \in FilePaths

HandlesSound == Formed /\ Entries /\ Openers /\ InHand /\ D!NoHandleLost

\* A request moves on and leaves the others alone.
LEMMA MovesOn ==
  ASSUME Formed, NEW r \in Requests, NEW x, D!Goes(r, x)
  PROVE  /\ DOMAIN req' = Requests /\ req'[r] = x
         /\ \A s \in Requests : s # r => req'[s] = req[s]
BY DEF Formed, D!Goes

LEMMA Retagged ==
  ASSUME NEW f, "at" \in DOMAIN f, NEW a
  PROVE  /\ DOMAIN [f EXCEPT !.at = a] = DOMAIN f /\ [f EXCEPT !.at = a].at = a
         /\ \A x \in DOMAIN f : x # "at" => [f EXCEPT !.at = a][x] = f[x]
OBVIOUS

LEMMA Handed ==
  ASSUME NEW f, {"at", "handle"} \subseteq DOMAIN f, NEW a, NEW h
  PROVE  /\ DOMAIN [f EXCEPT !.at = a, !.handle = h] = DOMAIN f
         /\ [f EXCEPT !.at = a, !.handle = h].at = a
         /\ [f EXCEPT !.at = a, !.handle = h].handle = h
         /\ \A x \in DOMAIN f : x \notin {"at", "handle"} => [f EXCEPT !.at = a, !.handle = h][x] = f[x]
OBVIOUS

LEMMA GotHandle ==
  ASSUME NEW f, {"at", "handle", "was", "path", "kind"} \subseteq DOMAIN f, NEW h, NEW w
  PROVE  LET g == [f EXCEPT !.at = "handed", !.handle = h, !.was = w]
         IN  /\ DOMAIN g = DOMAIN f /\ g.at = "handed" /\ g.handle = h /\ g.was = w
             /\ g.path = f.path /\ g.kind = f.kind
OBVIOUS

LEMMA Waiting ==
  ASSUME NEW f, {"at", "path", "to"} \subseteq DOMAIN f, NEW w
  PROVE  LET g == [f EXCEPT !.at = "evicts target", !.waits = w]
         IN  /\ DOMAIN g = DOMAIN f /\ g.at = "evicts target" /\ g.path = f.path /\ g.to = f.to
OBVIOUS

\* A request that has no new handle in hand, while handles and cache stay.
LEMMA HandlesStay ==
  ASSUME HandlesSound, NEW r \in Requests, NEW x, D!Goes(r, x), UNCHANGED <<open, closing, cache>>,
         req[r].at # "opened", "at" \in DOMAIN x, x.at \notin DataKinds,
         x.at \in Movers => {"path", "to"} \subseteq DOMAIN x
  PROVE  HandlesSound'
<1>1. /\ DOMAIN req' = Requests /\ req'[r] = x
      /\ \A s \in Requests : s # r => req'[s] = req[s]
  BY MovesOn DEF HandlesSound
<1>2. \A s \in Requests : req'[s].at \in DataKinds => s # r
  BY <1>1
<1>3. Formed'
  BY <1>1, <1>2 DEF HandlesSound, Formed
<1>4. Entries'
  BY DEF HandlesSound, Entries
<1>5. Openers'
  BY <1>1, <1>2 DEF HandlesSound, Openers, DataKinds
<1>6. InHand'
  BY <1>1, <1>2 DEF HandlesSound, InHand, DataKinds
<1>7. D!NoHandleLost'
  BY <1>1, <1>2 DEF HandlesSound, D!NoHandleLost, D!HandlesOf, DataKinds
<1> QED BY <1>3, <1>4, <1>5, <1>6, <1>7 DEF HandlesSound

LEMMA AskedKeeps ==
  ASSUME HandlesSound, NEW r \in Requests, NEW i \in DOMAIN node, NEW k \in D!Kinds, D!Asked(r, i, k)
  PROVE  HandlesSound'
<1> DEFINE x == req'[r]
<1>1. /\ DOMAIN req' = Requests /\ UNCHANGED <<open, closing, cache>>
      /\ \A s \in Requests : s # r => req'[s] = req[s]
  BY MovesOn DEF HandlesSound, D!Asked
<1>2. /\ x.at \in {"opens", "handed"} /\ x.path \in FilePaths
      /\ {"at", "handle", "path", "kind", "was"} \subseteq DOMAIN x
  BY MovesOn DEF HandlesSound, D!Asked
<1>3. req[r].at = "idle"
  BY DEF D!Asked, D!Idle
<1> HIDE DEF x
<1>4. Formed'
  BY <1>1, <1>2 DEF HandlesSound, Formed, Movers, x
<1>5. Entries' /\ Openers'
  BY <1>1, <1>2 DEF HandlesSound, Entries, Openers, x
<1>6. InHand'
  BY <1>1, <1>2 DEF HandlesSound, InHand, x
<1>7. D!NoHandleLost'
  BY <1>1, <1>3 DEF HandlesSound, D!NoHandleLost, D!HandlesOf
<1> QED BY <1>4, <1>5, <1>6, <1>7 DEF HandlesSound

LEMMA OpenedKeeps ==
  ASSUME HandlesSound, NEW r \in Requests, D!Opened(r) PROVE HandlesSound'
<1> DEFINE f == tree[req[r].path]
           h == D!Fresh(DOMAIN open)
<1>1. CASE f = 0
  <2>1. D!Goes(r, D!Idle) /\ UNCHANGED <<open, closing, cache>> /\ req[r].at # "opened"
    BY <1>1 DEF D!Opened
  <2> QED BY <2>1, HandlesStay DEF D!Idle, DataKinds, Movers
<1>2. CASE f # 0
  <2>1. /\ open' = [x \in DOMAIN open \cup {h} |-> IF x = h THEN f ELSE open[x]]
        /\ D!Goes(r, [req[r] EXCEPT !.at = "opened", !.handle = h])
        /\ req[r].at = "opens" /\ UNCHANGED <<closing, cache>>
    BY <1>2 DEF D!Opened
  <2>2. {"at", "handle", "path", "kind", "was"} \subseteq DOMAIN req[r] /\ req[r].path \in FilePaths
    BY <2>1 DEF HandlesSound, Formed, Openers, DataKinds
  <2>3. /\ DOMAIN req' = Requests /\ req'[r] = [req[r] EXCEPT !.at = "opened", !.handle = h]
        /\ \A s \in Requests : s # r => req'[s] = req[s]
    BY <2>1, MovesOn DEF HandlesSound
  <2>4. /\ DOMAIN req'[r] = DOMAIN req[r] /\ req'[r].at = "opened" /\ req'[r].handle = h
        /\ req'[r].path = req[r].path
    BY <2>2, <2>3, Handed
  <2>5. h \notin DOMAIN open
    BY FreshIsNew DEF HandlesSound, Entries
  <2> HIDE DEF h, f
  <2>6. DOMAIN open' = DOMAIN open \cup {h}
    BY <2>1
  <2>7. IsFiniteSet(DOMAIN open')
    BY <2>6, FS_AddElement DEF HandlesSound, Entries
  <2>8. Formed'
    <3>1. "at" \in DOMAIN req'[r] /\ {"handle", "path", "kind", "was"} \subseteq DOMAIN req'[r]
      BY <2>2, <2>4
    <3>2. req'[r].at \notin Movers
      BY <2>4 DEF Movers
    <3> QED BY <2>3, <3>1, <3>2 DEF HandlesSound, Formed
  <2>9. Entries'
    BY <2>1, <2>6, <2>7 DEF HandlesSound, Entries
  <2>10. Openers'
    BY <2>3, <2>4 DEF HandlesSound, Openers
  <2>11. h \notin closing /\ \A e \in cache : e.handle # h
    BY <2>5 DEF HandlesSound, Entries
  <2>12. InHand'
    <3>1. ASSUME NEW s \in Requests, s # r, req[s].at = "opened"
          PROVE  /\ req[s].handle \in DOMAIN open' /\ req[s].handle \notin closing
                 /\ req[s].path \in FilePaths /\ req[s].handle # h
                 /\ \A e \in cache : e.handle # req[s].handle
      BY <2>5, <2>6, <3>1 DEF HandlesSound, InHand
    <3>2. h \in DOMAIN open' /\ req'[r].path \in FilePaths
      BY <2>2, <2>4, <2>6
    <3>3. \A s, t \in Requests : s # r /\ t # r /\ req[s].at = "opened" /\ req[t].at = "opened"
                                 /\ s # t => req[s].handle # req[t].handle
      BY DEF HandlesSound, InHand
    <3>4. UNCHANGED <<closing, cache>> /\ req'[r].handle = h
      BY <2>1, <2>4
    <3>5. ASSUME NEW s \in Requests, req'[s].at = "opened"
          PROVE  /\ req'[s].handle \in DOMAIN open' /\ req'[s].handle \notin closing
                 /\ req'[s].path \in FilePaths
                 /\ \A e \in cache : e.handle # req'[s].handle
                 /\ \A t \in Requests : t # s /\ req'[t].at = "opened"
                                        => req'[t].handle # req'[s].handle
      <4>1. CASE s = r
        <5>1. \A t \in Requests : t # r /\ req'[t].at = "opened" => req'[t].handle # h
          BY <2>3, <3>1
        <5> QED BY <2>11, <3>2, <3>4, <4>1, <5>1
      <4>2. CASE s # r
        <5>1. req'[s] = req[s]
          BY <2>3, <4>2
        <5>2. ASSUME NEW t \in Requests, t # s, req'[t].at = "opened"
              PROVE  req'[t].handle # req[s].handle
          <6>1. CASE t = r
            BY <3>1, <3>4, <3>5, <4>2, <5>1, <6>1
          <6>2. CASE t # r
            <7>1. req'[t] = req[t]
              BY <2>3, <6>2
            <7> QED BY <3>3, <3>5, <4>2, <5>1, <5>2, <6>2, <7>1
          <6> QED BY <6>1, <6>2
        <5> QED BY <3>1, <3>5, <4>2, <5>1, <5>2
      <4> QED BY <4>1, <4>2
    <3> QED BY <3>4, <3>5 DEF InHand
  <2>13. D!NoHandleLost'
    <3>1. ASSUME NEW x \in DOMAIN open
          PROVE  \/ x \in D!HandlesOf(cache) \cup closing
                 \/ \E s \in Requests : req'[s].at = "opened" /\ req'[s].handle = x
      <4>1. CASE \E s \in Requests : req[s].at = "opened" /\ req[s].handle = x
        <5>1. PICK s \in Requests : req[s].at = "opened" /\ req[s].handle = x
          BY <4>1
        <5>2. s # r
          BY <2>1, <5>1
        <5> QED BY <2>3, <5>1, <5>2
      <4> QED BY <4>1 DEF HandlesSound, D!NoHandleLost
    <3>2. UNCHANGED <<closing, cache>>
      BY <2>1
    <3> QED BY <2>4, <2>6, <3>1, <3>2 DEF D!NoHandleLost, D!HandlesOf
  <2> QED BY <2>8, <2>9, <2>10, <2>12, <2>13 DEF HandlesSound
<1> QED BY <1>1, <1>2

LEMMA AcquiredKeeps ==
  ASSUME HandlesSound, NEW r \in Requests, D!Acquired(r) PROVE HandlesSound'
<1> DEFINE p == req[r].path
           k == req[r].kind
           mine == [path |-> p, kind |-> k, handle |-> req[r].handle]
           e == D!Race(mine)
           all == D!Without(p, k) \cup {e}
<1>1. req[r].at = "opened" /\ UNCHANGED open
  BY DEF D!Acquired
<1>2. PICK out \in D!Excess(all, e) :
        /\ cache' = all \ out
        /\ closing' = closing \cup ({req[r].handle} \ {e.handle}) \cup D!HandlesOf(out)
  BY DEF D!Acquired
<1>3. out \subseteq all \ {e}
  BY <1>2 DEF D!Excess
<1>4. {"at", "handle", "path", "kind", "was"} \subseteq DOMAIN req[r]
  BY <1>1 DEF HandlesSound, Formed, DataKinds
<1>5. /\ DOMAIN req' = Requests /\ req'[r] = [req[r] EXCEPT !.at = "handed", !.handle = e.handle, !.was = tree[p]]
      /\ \A s \in Requests : s # r => req'[s] = req[s]
  BY MovesOn DEF HandlesSound, D!Acquired
<1>6. DOMAIN req'[r] = DOMAIN req[r] /\ req'[r].at = "handed"
  BY <1>4, <1>5, GotHandle
\* The entry that is used: the cached one if there is one, ours if there is none.
<1>7. /\ e.path = p /\ e.kind = k /\ p \in FilePaths
      /\ \/ e \in cache
         \/ e.handle = req[r].handle /\ \A x \in cache : ~(x.path = p /\ x.kind = k)
  <2>1. CASE D!Cached(p, k) = {}
    BY <1>1, <2>1 DEF D!Race, D!Cached, HandlesSound, InHand
  <2>2. CASE D!Cached(p, k) # {}
    <3>1. e = D!Hit(p, k)
      BY <2>2 DEF D!Race
    <3>2. D!Hit(p, k) \in D!Cached(p, k)
      BY <2>2 DEF D!Hit
    <3> QED BY <1>1, <3>1, <3>2 DEF D!Cached, HandlesSound, InHand
  <2> QED BY <2>1, <2>2
<1>8. /\ req[r].handle \in DOMAIN open /\ req[r].handle \notin closing
      /\ \A x \in cache : x.handle # req[r].handle
  BY <1>1 DEF HandlesSound, InHand
<1>9. \A x \in cache : x \in all \/ x = e \/ (x.path = p /\ x.kind = k)
  BY DEF D!Without, D!Cached
<1>10. all \subseteq cache \cup {e} /\ cache \subseteq all
  <2>1. \A x \in cache : x.path = p /\ x.kind = k => x = e
    BY <1>7 DEF HandlesSound, Entries
  <2> QED BY <2>1 DEF D!Without, D!Cached
<1> HIDE DEF e, all, mine
<1>11. Formed'
  <2>1. /\ "at" \in DOMAIN req'[r] /\ {"handle", "path", "kind", "was"} \subseteq DOMAIN req'[r]
        /\ req'[r].at \notin Movers
    BY <1>4, <1>6 DEF Movers
  <2> QED BY <1>5, <2>1 DEF HandlesSound, Formed
<1>12. Openers'
  BY <1>5, <1>6 DEF HandlesSound, Openers
\* What is closed: the handle that lost, or that of the entry that goes.
<1>13. \A h \in closing' : h \in closing \/ (h = req[r].handle /\ h # e.handle)
                            \/ \E x \in out : h = x.handle
  BY <1>2 DEF D!HandlesOf
<1>14. /\ \A x \in all : x.path \in FilePaths /\ x.handle \in DOMAIN open /\ x.handle \notin closing
       /\ \A x, y \in all : x.handle = y.handle \/ (x.path = y.path /\ x.kind = y.kind) => x = y
  <2>1. \A x \in all : x \in cache \/ x = e
    BY <1>10
  <2>2. e.handle \in DOMAIN open /\ e.handle \notin closing
    BY <1>7, <1>8 DEF HandlesSound, Entries
  <2>3. \A x \in cache : x.handle = e.handle \/ (x.path = e.path /\ x.kind = e.kind) => x = e
    BY <1>7, <1>8 DEF HandlesSound, Entries
  <2>4. \A x \in all : x.path \in FilePaths /\ x.handle \in DOMAIN open /\ x.handle \notin closing
    BY <1>7, <2>1, <2>2 DEF HandlesSound, Entries
  <2>5. ASSUME NEW x \in all, NEW y \in all, x.handle = y.handle \/ (x.path = y.path /\ x.kind = y.kind)
        PROVE  x = y
    <3>1. CASE x \in cache /\ y \in cache
      BY <2>5, <3>1 DEF HandlesSound, Entries
    <3>2. CASE x = e
      BY <2>1, <2>3, <2>5, <3>2
    <3>3. CASE y = e
      BY <2>1, <2>3, <2>5, <3>3
    <3> QED BY <2>1, <3>1, <3>2, <3>3
  <2> QED BY <2>4, <2>5
<1>15. Entries'
  <2>1. closing' \subseteq DOMAIN open
    BY <1>3, <1>8, <1>13, <1>14 DEF HandlesSound, Entries
  <2>2. ASSUME NEW x \in cache' PROVE x \in all /\ x.handle \notin closing'
    <3>1. x \in all /\ x \notin out
      BY <1>2, <2>2
    <3>2. \A y \in out : y.handle # x.handle
      BY <1>3, <1>14, <3>1
    <3>3. ~(x.handle = req[r].handle /\ x.handle # e.handle)
      BY <1>8, <1>10, <3>1
    <3> QED BY <1>13, <1>14, <3>1, <3>2, <3>3
  <2>3. UNCHANGED open
    BY <1>1
  <2> QED BY <1>14, <2>1, <2>2, <2>3 DEF HandlesSound, Entries
<1>16. InHand'
  <2>1. ASSUME NEW s \in Requests, req'[s].at = "opened"
        PROVE  /\ req'[s].handle \notin closing' /\ \A x \in cache' : x.handle # req'[s].handle
    <3>1. s # r /\ req'[s] = req[s]
      BY <1>5, <1>6, <2>1
    <3>2. req[s].handle # req[r].handle /\ req[s].handle \notin closing
          /\ \A x \in cache : x.handle # req[s].handle
      BY <1>1, <2>1, <3>1 DEF HandlesSound, InHand
    <3>3. \A x \in all : x.handle # req[s].handle
      BY <1>7, <1>10, <3>2
    <3> QED BY <1>2, <1>3, <1>13, <3>1, <3>2, <3>3
  <2>2. \A s \in Requests : req'[s].at = "opened" => s # r /\ req'[s] = req[s]
    BY <1>5, <1>6
  <2> QED BY <1>1, <2>1, <2>2 DEF HandlesSound, InHand
\* No handle falls between.
<1>17. D!NoHandleLost'
  <2> SUFFICES ASSUME NEW h \in DOMAIN open
               PROVE  \/ \E x \in cache' : h = x.handle
                      \/ h \in closing'
                      \/ \E s \in Requests : req'[s].at = "opened" /\ req'[s].handle = h
    BY <1>1 DEF D!NoHandleLost, D!HandlesOf
  <2>1. CASE \E x \in all : h = x.handle
    <3>1. PICK x \in all : h = x.handle
      BY <2>1
    <3>2. CASE x \in out
      BY <1>2, <3>1, <3>2 DEF D!HandlesOf
    <3> QED BY <1>2, <3>1, <3>2
  <2>2. CASE h \in closing
    BY <1>2, <2>2
  <2>3. CASE h = req[r].handle
    <3>1. e \in all
      BY DEF all
    <3>2. CASE h = e.handle
      BY <2>1, <3>1, <3>2
    <3> QED BY <1>2, <2>3, <3>2
  <2>4. ASSUME NEW s \in Requests, s # r, req[s].at = "opened", req[s].handle = h
        PROVE  req'[s].at = "opened" /\ req'[s].handle = h
    BY <1>5, <2>4
  <2>5. \/ \E x \in cache : h = x.handle
        \/ h \in closing
        \/ \E s \in Requests : req[s].at = "opened" /\ req[s].handle = h
    BY DEF HandlesSound, D!NoHandleLost, D!HandlesOf
  <2> QED BY <1>10, <2>1, <2>2, <2>3, <2>4, <2>5
<1> QED BY <1>11, <1>12, <1>15, <1>16, <1>17 DEF HandlesSound

\* Entries leave the cache, and what they held is closed, while no handle is in hand.
LEMMA DropsKeep ==
  ASSUME HandlesSound, NEW r \in Requests, NEW x, D!Goes(r, x), UNCHANGED open,
         NEW out \in SUBSET cache, cache' = cache \ out, closing' = closing \cup D!HandlesOf(out),
         req[r].at # "opened", "at" \in DOMAIN x, x.at \notin DataKinds,
         x.at \in Movers => {"path", "to"} \subseteq DOMAIN x
  PROVE  HandlesSound'
<1>1. /\ DOMAIN req' = Requests /\ req'[r] = x
      /\ \A s \in Requests : s # r => req'[s] = req[s]
  BY MovesOn DEF HandlesSound
<1>2. \A s \in Requests : req'[s].at \in DataKinds => s # r /\ req'[s] = req[s]
  BY <1>1
<1>3. \A h \in closing' : h \in closing \/ \E e \in out : h = e.handle
  BY DEF D!HandlesOf
<1>4. Formed' /\ Openers'
  BY <1>1, <1>2 DEF HandlesSound, Formed, Openers, DataKinds
<1>5. Entries'
  <2>1. \A e \in out : e.handle \in DOMAIN open
    BY DEF HandlesSound, Entries
  <2>2. closing' \subseteq DOMAIN open'
    BY <1>3, <2>1 DEF HandlesSound, Entries
  <2>3. ASSUME NEW e \in cache' PROVE e.handle \notin closing'
    BY <1>3, <2>3 DEF HandlesSound, Entries
  <2> QED BY <2>2, <2>3 DEF HandlesSound, Entries
<1>6. InHand'
  <2>1. ASSUME NEW s \in Requests, req[s].at = "opened" PROVE req[s].handle \notin closing'
    BY <1>3, <2>1 DEF HandlesSound, InHand
  <2>2. \A s \in Requests : req'[s].at = "opened" => s # r /\ req'[s] = req[s]
    BY <1>2 DEF DataKinds
  <2> QED BY <2>1, <2>2 DEF HandlesSound, InHand
<1>7. D!NoHandleLost'
  <2>1. ASSUME NEW h \in DOMAIN open
        PROVE  \/ h \in D!HandlesOf(cache)
               \/ h \in closing
               \/ \E s \in Requests : req'[s].at = "opened" /\ req'[s].handle = h
    <3>1. \A s \in Requests : req[s].at = "opened" => req'[s] = req[s]
      BY <1>1
    <3> QED BY <3>1 DEF HandlesSound, D!NoHandleLost
  <2>2. \A h \in D!HandlesOf(cache) : h \in D!HandlesOf(cache') \/ h \in closing'
    BY DEF D!HandlesOf
  <2>3. D!HandlesOf(cache)' = D!HandlesOf(cache')
    BY DEF D!HandlesOf
  <2> QED BY <2>1, <2>2, <2>3 DEF D!NoHandleLost
<1> QED BY <1>4, <1>5, <1>6, <1>7 DEF HandlesSound

LEMMA ClosedKeeps ==
  ASSUME HandlesSound, NEW h \in closing, D!Closed(h) PROVE HandlesSound'
<1>1. /\ open' = [x \in DOMAIN open \ {h} |-> open[x]] /\ closing' = closing \ {h}
      /\ UNCHANGED <<cache, req>>
  BY DEF D!Closed
<1>2. DOMAIN open' = DOMAIN open \ {h}
  BY <1>1
<1>3. IsFiniteSet(DOMAIN open')
  BY <1>2, FS_RemoveElement DEF HandlesSound, Entries
<1>4. Formed' /\ Openers'
  BY <1>1 DEF HandlesSound, Formed, Openers
<1>5. Entries'
  BY <1>1, <1>2, <1>3 DEF HandlesSound, Entries
<1>6. InHand'
  BY <1>1, <1>2 DEF HandlesSound, InHand
<1>7. D!NoHandleLost'
  BY <1>1, <1>2 DEF HandlesSound, D!NoHandleLost, D!HandlesOf
<1> QED BY <1>4, <1>5, <1>6, <1>7 DEF HandlesSound

LEMMA SentKeeps == ASSUME HandlesSound, NEW r \in Requests, D!Sent(r) PROVE HandlesSound'
<1>1. /\ req[r].at = "handed" /\ UNCHANGED <<open, closing, cache>>
      /\ "at" \in DOMAIN req[r] /\ {"handle", "path", "kind", "was"} \subseteq DOMAIN req[r]
  BY DEF D!Sent, HandlesSound, Formed, DataKinds
<1>2. /\ DOMAIN req' = Requests /\ req'[r] = [req[r] EXCEPT !.at = "sent"]
      /\ \A s \in Requests : s # r => req'[s] = req[s]
  BY MovesOn DEF HandlesSound, D!Sent
<1>3. DOMAIN req'[r] = DOMAIN req[r] /\ req'[r].at = "sent"
  BY <1>1, <1>2, Retagged
<1>4. Formed'
  <2>1. "at" \in DOMAIN req'[r] /\ {"handle", "path", "kind", "was"} \subseteq DOMAIN req'[r]
    BY <1>1, <1>3
  <2>2. req'[r].at \notin Movers
    BY <1>3 DEF Movers
  <2> QED BY <1>2, <2>1, <2>2 DEF HandlesSound, Formed
<1>5. Entries' /\ Openers'
  BY <1>1, <1>2, <1>3 DEF HandlesSound, Entries, Openers
<1>6. InHand'
  <2>1. \A s \in Requests : req'[s].at = "opened" => s # r /\ req'[s] = req[s]
    BY <1>2, <1>3
  <2> QED BY <1>1, <2>1 DEF HandlesSound, InHand
<1>7. D!NoHandleLost'
  <2>1. \A s \in Requests : req[s].at = "opened" => req'[s] = req[s]
    BY <1>1, <1>2
  <2> QED BY <1>1, <2>1 DEF HandlesSound, D!NoHandleLost, D!HandlesOf
<1> QED BY <1>4, <1>5, <1>6, <1>7 DEF HandlesSound

LEMMA DataKeeps == ASSUME HandlesSound, NEW r \in Requests, D!Data(r) PROVE HandlesSound'
<1>1. CASE D!Answered(r)
  <2>1. "at" \in DOMAIN req[r] /\ req[r].at = "sent"
    BY <1>1 DEF D!Answered, HandlesSound, Formed
  <2>2. CASE req[r].kind = "write"
    <3>1. D!Goes(r, [req[r] EXCEPT !.at = "sizes"]) /\ UNCHANGED <<open, closing, cache>>
      BY <1>1, <2>2 DEF D!Answered
    <3>2. /\ "at" \in DOMAIN [req[r] EXCEPT !.at = "sizes"]
          /\ [req[r] EXCEPT !.at = "sizes"].at = "sizes"
      BY <2>1, Retagged
    <3> QED BY <2>1, <3>1, <3>2, HandlesStay DEF DataKinds, Movers
  <2>3. CASE req[r].kind # "write"
    <3>1. D!Goes(r, D!Idle) /\ UNCHANGED <<open, closing, cache>>
      BY <1>1, <2>3 DEF D!Answered
    <3> QED BY <2>1, <3>1, HandlesStay DEF DataKinds, D!Idle, Movers
  <2> QED BY <2>2, <2>3
<1>2. CASE D!Failed(r)
  <2>1. /\ D!Goes(r, D!Idle) /\ UNCHANGED open /\ req[r].at = "sent"
        /\ cache' = cache \ D!Cached(req[r].path, req[r].kind)
        /\ closing' = closing \cup D!HandlesOf(D!Cached(req[r].path, req[r].kind))
    BY <1>2 DEF D!Failed, D!Without
  <2>2. D!Cached(req[r].path, req[r].kind) \subseteq cache
    BY DEF D!Cached
  <2>3. "at" \in DOMAIN D!Idle /\ D!Idle.at = "idle"
    BY DEF D!Idle
  <2> QED BY <2>1, <2>2, <2>3, DropsKeep DEF DataKinds, Movers
<1>3. CASE D!Sized(r)
  <2>1. D!Goes(r, D!Idle) /\ UNCHANGED <<open, closing, cache>> /\ req[r].at = "sizes"
    BY <1>3 DEF D!Sized
  <2> QED BY <2>1, HandlesStay DEF DataKinds, D!Idle, Movers
<1>4. CASE D!Sent(r) 
  BY <1>4, SentKeeps
<1> QED BY <1>1, <1>2, <1>3, <1>4, AskedKeeps, OpenedKeeps, AcquiredKeeps DEF D!Data

LEMMA NamesKeep == ASSUME HandlesSound, NEW r \in Requests, D!Names(r) PROVE HandlesSound'
<1> USE DEF DataKinds, Movers
<1>1. ASSUME NEW d, D!Lists(r, d) PROVE HandlesSound'
  <2>1. PICK seen : D!Goes(r, [at |-> "listed", dir |-> d, seen |-> seen])
    BY <1>1 DEF D!Lists, D!Begins
  <2>2. UNCHANGED <<open, closing, cache>> /\ req[r].at # "opened"
    BY <1>1 DEF D!Lists, D!Begins, D!Idle
  <2> QED BY <2>1, <2>2, HandlesStay
<1>2. ASSUME NEW p, D!Creates(r, p) PROVE HandlesSound'
  <2>1. D!Goes(r, [at |-> "created", path |-> p]) /\ UNCHANGED <<open, closing, cache>>
        /\ req[r].at # "opened"
    BY <1>2 DEF D!Creates, D!Begins, D!Idle
  <2> QED BY <2>1, HandlesStay
<1>3. ASSUME NEW i, D!Truncates(r, i) PROVE HandlesSound'
  <2>1. D!Goes(r, [at |-> "truncated", id |-> i]) /\ UNCHANGED <<open, closing, cache>>
        /\ req[r].at # "opened"
    BY <1>3 DEF D!Truncates, D!Begins, D!Idle
  <2> QED BY <2>1, HandlesStay
<1>4. ASSUME NEW p, NEW to, D!Moves(r, p, to) PROVE HandlesSound'
  <2> DEFINE out == {e \in cache : e.path = p}
  <2>1. PICK x : /\ D!Goes(r, x) /\ x.at = "evicts"
                 /\ {"at", "path", "to"} \subseteq DOMAIN x
    BY <1>4 DEF D!Moves, D!Begins
  <2>2. UNCHANGED open /\ req[r].at # "opened"
    BY <1>4 DEF D!Moves, D!Begins, D!Idle
  <2>3. cache' = cache \ out /\ closing' = closing \cup D!HandlesOf(out)
    BY <1>4 DEF D!Moves, D!Kept, D!Evicted
  <2>4. out \in SUBSET cache
    OBVIOUS
  <2> HIDE DEF out
  <2> QED BY <2>1, <2>2, <2>3, <2>4, DropsKeep DEF Movers
<1>5. CASE D!Listed(r) \/ D!Created(r) \/ D!Truncated(r) \/ D!Renamed(r)
  <2>1. D!Goes(r, D!Idle) /\ UNCHANGED <<open, closing, cache>> /\ req[r].at # "opened"
    BY <1>5 DEF D!Listed, D!Created, D!Truncated, D!Renamed
  <2> QED BY <2>1, HandlesStay DEF D!Idle
<1>6. CASE D!Evicts(r)
  <2>1. {"at", "path", "to"} \subseteq DOMAIN req[r]
    BY <1>6 DEF D!Evicts, HandlesSound, Formed
  <2>2. /\ DOMAIN [req[r] EXCEPT !.at = "asks"] = DOMAIN req[r]
        /\ [req[r] EXCEPT !.at = "asks"].at = "asks"
    BY <2>1, Retagged
  <2>3. /\ D!Goes(r, [req[r] EXCEPT !.at = "asks"]) /\ UNCHANGED <<open, closing, cache>>
        /\ req[r].at # "opened"
    BY <1>6 DEF D!Evicts
  <2> QED BY <2>1, <2>2, <2>3, HandlesStay
<1>7. CASE D!Changed(r)
  <2>1. UNCHANGED <<open, closing, cache>> /\ req[r].at # "opened" /\ "at" \in DOMAIN req[r]
    BY <1>7 DEF D!Changed, HandlesSound, Formed
  <2>2. D!Goes(r, D!Idle) \/ D!Goes(r, [req[r] EXCEPT !.at = "changed"])
    BY <1>7 DEF D!Changed
  <2>3. "at" \in DOMAIN D!Idle /\ D!Idle.at = "idle"
    BY DEF D!Idle
  <2>4. /\ "at" \in DOMAIN [req[r] EXCEPT !.at = "changed"]
        /\ [req[r] EXCEPT !.at = "changed"].at = "changed"
    BY <2>1, Retagged
  <2> QED BY <2>1, <2>2, <2>3, <2>4, HandlesStay
<1>8. CASE D!EvictsTarget(r)
  <2> DEFINE out == {e \in cache : e.path = req[r].to}
             x == [req[r] EXCEPT !.at = "evicts target", !.waits = D!Evicted(req[r].to)]
  <2>1. {"at", "path", "to"} \subseteq DOMAIN req[r]
    BY <1>8 DEF D!EvictsTarget, HandlesSound, Formed
  <2>2. "at" \in DOMAIN x /\ x.at = "evicts target" /\ {"path", "to"} \subseteq DOMAIN x
    BY <2>1, Waiting
  <2>3. D!Goes(r, x) /\ UNCHANGED open /\ req[r].at # "opened"
    BY <1>8 DEF D!EvictsTarget
  <2>4. cache' = cache \ out /\ closing' = closing \cup D!HandlesOf(out)
    BY <1>8 DEF D!EvictsTarget, D!Kept, D!Evicted
  <2>5. out \in SUBSET cache
    OBVIOUS
  <2> HIDE DEF out, x
  <2> QED BY <2>2, <2>3, <2>4, <2>5, DropsKeep
<1> QED BY <1>1, <1>2, <1>3, <1>4, <1>5, <1>6, <1>7, <1>8 DEF D!Names

LEMMA DriveSteps == ASSUME [Next]_vars PROVE D!DriveNext \/ UNCHANGED driveVars
BY DEF Next, Keyboard, Switcher, Mouse, Volume, Paste, vars

\* No handle that the client holds open for us is left behind: whichever of two requests
\* opens a file first, whatever entry has to go, and whatever a failure, a rename or a
\* removal drops, for any requests, paths and size of the cache.
THEOREM HandlesAreKept == Spec => []NoHandleLost
<1>1. Init => HandlesSound
  <2> SUFFICES ASSUME Init PROVE HandlesSound
    OBVIOUS
  <2>1. /\ open = << >> /\ closing = {} /\ cache = {}
        /\ req = [r \in Requests |-> D!Idle]
    BY DEF Init, D!Init
  <2>2. DOMAIN open = {} /\ IsFiniteSet({})
    BY <2>1, FS_EmptySet
  <2>3. \A r \in Requests : "at" \in DOMAIN req[r] /\ req[r].at = "idle"
    BY <2>1 DEF D!Idle
  <2> QED BY <2>1, <2>2, <2>3
       DEF HandlesSound, Formed, Entries, Openers, InHand, D!NoHandleLost, DataKinds, Movers
<1>2. HandlesSound /\ [Next]_vars => HandlesSound'
  <2> SUFFICES ASSUME HandlesSound, [Next]_vars PROVE HandlesSound'
    OBVIOUS
  <2>1. CASE UNCHANGED driveVars
    <3>1. UNCHANGED <<open, closing, cache, req>>
      BY <2>1 DEF driveVars
    <3> QED BY <3>1 DEF HandlesSound, Formed, Entries, Openers, InHand, D!NoHandleLost, D!HandlesOf
  <2> QED BY <2>1, DriveSteps, DataKeeps, NamesKeep, ClosedKeeps DEF D!DriveNext
<1>3. HandlesSound => NoHandleLost
  BY DEF HandlesSound, NoHandleLost
<1> QED BY <1>1, <1>2, <1>3, PTL DEF Spec

\* A change of names is under way for the path.
Moving(s, q) ==
    /\ req[s].at \in Movers
    /\ D!Under(q, req[s].path) \/ (req[s].to # <<>> /\ D!Under(q, req[s].to))

\* What the cache holds open is what its path names.
CacheCurrent ==
    /\ DOMAIN tree = D!Paths
    /\ \A e \in cache : e.handle \notin doubtful => open[e.handle] = tree[e.path] /\ tree[e.path] # 0

\* What a request has just opened is what its path names; what it was given is what its
\* path named then.
HandCurrent(r) ==
    /\ req[r].at = "opened" /\ r \notin crossed =>
          open[req[r].handle] = tree[req[r].path] /\ tree[req[r].path] # 0
    /\ req[r].at \in {"handed", "sent"} /\ r \notin crossed /\ req[r].handle \notin doubtful =>
          req[r].handle \in DOMAIN open /\ open[req[r].handle] = req[r].was

\* What a change of names is about to move is no longer in the cache.
MovePrepared(r) ==
    req[r].at \in Movers =>
        /\ \A e \in cache : e.handle \notin doubtful =>
              e.path # req[r].path /\ (req[r].at # "evicts" => e.path # req[r].to)
        /\ req[r].path \in D!Paths /\ req[r].to \in D!Targets(req[r].path) \cup {<<>>}

\* Requests for a file whose change of names has begun are marked.
Marked ==
    \A r, s \in Requests :
        req[r].at \in {"opens", "opened"} /\ Moving(s, req[r].path) => r \in crossed

Served ==
    /\ HandlesSound /\ CacheCurrent /\ Marked
    /\ \A r \in Requests : HandCurrent(r) /\ MovePrepared(r)

\* A request for data: the names stay, one entry may come into the cache.
LEMMA DataFrame ==
  ASSUME Served, NEW r \in Requests, HandlesSound', UNCHANGED tree,
         DOMAIN req' = Requests, \A s \in Requests : s # r => req'[s] = req[s],
         req'[r].at \notin Movers,
         \A h \in DOMAIN open : h \in DOMAIN open' /\ open'[h] = open[h],
         doubtful \subseteq doubtful',
         \A s \in Requests : s # r => (s \in crossed' <=> s \in crossed),
         \A e \in cache' : \/ e \in cache
                           \/ /\ req[r].at = "opened" /\ e.path = req[r].path
                              /\ e.handle = req[r].handle
                              /\ e.handle \notin doubtful' => r \notin crossed,
         HandCurrent(r)',
         req'[r].at \in {"opens", "opened"} =>
            \A s \in Requests : Moving(s, req'[r].path) => r \in crossed'
  PROVE  Served'
<1>1. ASSUME NEW e \in cache', e.handle \notin doubtful'
      PROVE  /\ open[e.handle] = tree[e.path] /\ tree[e.path] # 0 /\ e.handle \in DOMAIN open
             /\ \A s \in Requests : ~(e \notin cache /\ Moving(s, e.path))
  <2>1. CASE e \in cache
    BY <1>1, <2>1 DEF Served, CacheCurrent, HandlesSound, Entries
  <2>2. CASE e \notin cache
    <3>1. req[r].at = "opened" /\ e.path = req[r].path /\ e.handle = req[r].handle /\ r \notin crossed
      BY <1>1, <2>2
    <3>2. HandCurrent(r) /\ req[r].handle \in DOMAIN open
      BY <3>1 DEF Served, HandlesSound, InHand
    <3>3. \A s \in Requests : ~Moving(s, req[r].path)
      BY <3>1 DEF Served, Marked
    <3> QED BY <3>1, <3>2, <3>3 DEF HandCurrent
  <2> QED BY <2>1, <2>2
<1>2. CacheCurrent'
  BY <1>1 DEF CacheCurrent, Served
<1>3. ASSUME NEW s \in Requests, s # r PROVE HandCurrent(s)' /\ MovePrepared(s)'
  <2>1. req'[s] = req[s] /\ (s \in crossed' <=> s \in crossed)
    BY <1>3
  <2>2. HandCurrent(s) /\ MovePrepared(s)
    BY DEF Served
  <2>3. HandCurrent(s)'
    <3>1. req[s].at = "opened" => req[s].handle \in DOMAIN open
      BY DEF Served, HandlesSound, InHand
    <3> QED BY <2>1, <2>2, <3>1 DEF HandCurrent
  <2>4. ASSUME req[s].at \in Movers, NEW e \in cache', e.handle \notin doubtful'
        PROVE  e.path # req[s].path /\ (req[s].at # "evicts" => e.path # req[s].to)
    <3>1. CASE e \in cache
      BY <2>2, <2>4, <3>1 DEF MovePrepared
    <3>2. CASE e \notin cache
      <4>1. ~Moving(s, e.path)
        BY <1>1, <2>4, <3>2
      <4>2. e.path \in D!Paths
        BY DEF HandlesSound, Entries, D!Paths
      <4>3. \A q \in D!Paths : D!Under(q, q)
        BY DriveConstants
      <4>4. e.path # req[s].path
        BY <2>4, <4>1, <4>2, <4>3 DEF Moving
      <4>5. e.path # req[s].to
        <5>1. CASE req[s].to = <<>>
          BY <4>2, <5>1, DriveConstants
        <5> QED BY <2>4, <4>1, <4>2, <4>3, <5>1 DEF Moving
      <4> QED BY <4>4, <4>5
    <3> QED BY <3>1, <3>2
  <2>5. MovePrepared(s)'
    BY <2>1, <2>2, <2>4 DEF MovePrepared, D!Targets, D!Paths
  <2> QED BY <2>3, <2>5
<1>4. MovePrepared(r)'
  BY DEF MovePrepared
<1>5. Marked'
  <2> SUFFICES ASSUME NEW t \in Requests, NEW s \in Requests, req'[t].at \in {"opens", "opened"},
                      NEW q, q = req'[t].path, Moving(s, q)'
               PROVE  t \in crossed'
    BY DEF Marked
  <2>1. s # r /\ req'[s] = req[s]
    BY DEF Moving
  <2>2. Moving(s, req'[t].path)
    BY <2>1 DEF Moving, D!Under
  <2>3. CASE t = r
    BY <2>2, <2>3
  <2>4. CASE t # r
    <3>1. req'[t] = req[t]
      BY <2>4
    <3> QED BY <2>2, <2>4, <3>1 DEF Served, Marked
  <2> QED BY <2>3, <2>4
<1> QED BY <1>2, <1>3, <1>4, <1>5 DEF Served

LEMMA AskedStays ==
  ASSUME Served, NEW r \in Requests, NEW i \in DOMAIN node, NEW k \in D!Kinds, D!Asked(r, i, k)
  PROVE  Served'
<1> DEFINE p == node[i].path
           miss == D!Cached(p, k) = {}
<1>1. HandlesSound /\ HandlesSound'
  BY AskedKeeps DEF Served
<1>2. /\ DOMAIN req' = Requests /\ \A s \in Requests : s # r => req'[s] = req[s]
      /\ req'[r] = [at |-> IF miss THEN "opens" ELSE "handed", id |-> i, path |-> p, kind |-> k,
                    was |-> tree[p], handle |-> IF miss THEN 0 ELSE D!Hit(p, k).handle]
  BY <1>1, MovesOn DEF D!Asked, HandlesSound
<1>3. /\ req'[r].at = (IF miss THEN "opens" ELSE "handed") /\ req'[r].path = p
      /\ req'[r].was = tree[p]
      /\ ~miss => req'[r].handle = D!Hit(p, k).handle
  BY <1>2
<1>4. /\ UNCHANGED <<tree, open, cache, doubtful>> /\ req[r].at = "idle"
      /\ crossed' = IF miss /\ D!Changing(p) THEN crossed \cup {r} ELSE crossed \ {r}
  BY DEF D!Asked, D!Idle
<1>5. HandCurrent(r)'
  <2>1. CASE miss
    BY <1>3, <2>1 DEF HandCurrent
  <2>2. CASE ~miss
    <3>1. D!Hit(p, k) \in cache /\ D!Hit(p, k).path = p
      <4>1. D!Hit(p, k) \in D!Cached(p, k)
        BY <2>2 DEF D!Hit
      <4> QED BY <4>1 DEF D!Cached
    <3> HIDE DEF p, miss
    <3>2. D!Hit(p, k).handle \notin doubtful => open[D!Hit(p, k).handle] = tree[p]
      BY <3>1 DEF Served, CacheCurrent
    <3>3. D!Hit(p, k).handle \in DOMAIN open
      BY <1>1, <3>1 DEF HandlesSound, Entries
    <3> QED BY <1>3, <1>4, <2>2, <3>2, <3>3 DEF HandCurrent
  <2> QED BY <2>1, <2>2
<1>6. req'[r].at \in {"opens", "opened"} => \A s \in Requests : Moving(s, req'[r].path) => r \in crossed'
  <2>1. \A s \in Requests : Moving(s, p) => D!Changing(p)
    BY DEF Moving, D!Changing, Movers
  <2> HIDE DEF p, miss
  <2> QED BY <1>3, <1>4, <2>1
<1>7. req'[r].at \notin Movers
  BY <1>3 DEF Movers
<1> HIDE DEF p, miss
<1> QED BY <1>1, <1>2, <1>4, <1>5, <1>6, <1>7, DataFrame

LEMMA OpenedStays == ASSUME Served, NEW r \in Requests, D!Opened(r) PROVE Served'
<1> DEFINE f == tree[req[r].path]
           h == D!Fresh(DOMAIN open)
<1>1. /\ HandlesSound /\ HandlesSound' /\ req[r].at = "opens"
      /\ UNCHANGED <<tree, cache, crossed, doubtful>>
  BY OpenedKeeps DEF Served, D!Opened
<1>2. CASE f = 0
  <2>1. /\ DOMAIN req' = Requests /\ req'[r] = D!Idle /\ UNCHANGED open
        /\ \A s \in Requests : s # r => req'[s] = req[s]
    BY <1>1, <1>2, MovesOn DEF D!Opened, HandlesSound
  <2>2. req'[r].at = "idle"
    BY <2>1 DEF D!Idle
  <2>3. HandCurrent(r)' /\ req'[r].at \notin Movers
    BY <2>2 DEF HandCurrent, Movers
  <2> QED BY <1>1, <2>1, <2>2, <2>3, DataFrame
<1>3. CASE f # 0
  <2>1. /\ DOMAIN req' = Requests /\ req'[r] = [req[r] EXCEPT !.at = "opened", !.handle = h]
        /\ open' = [x \in DOMAIN open \cup {h} |-> IF x = h THEN f ELSE open[x]]
        /\ \A s \in Requests : s # r => req'[s] = req[s]
    BY <1>1, <1>3, MovesOn DEF D!Opened, HandlesSound
  <2>2. {"at", "handle", "path"} \subseteq DOMAIN req[r]
    BY <1>1 DEF HandlesSound, Formed, DataKinds
  <2>3. req'[r].at = "opened" /\ req'[r].handle = h /\ req'[r].path = req[r].path
    BY <2>1, <2>2, Handed
  <2>4. h \notin DOMAIN open
    BY <1>1, FreshIsNew DEF HandlesSound, Entries
  <2> HIDE DEF h, f
  <2>5. /\ h \in DOMAIN open' /\ open'[h] = f
        /\ \A x \in DOMAIN open : x \in DOMAIN open' /\ open'[x] = open[x]
    BY <2>1, <2>4
  <2>6. HandCurrent(r)' /\ req'[r].at \notin Movers
    BY <1>1, <1>3, <2>3, <2>5 DEF HandCurrent, Movers, f
  <2>7. \A s \in Requests : Moving(s, req'[r].path) => r \in crossed'
    BY <1>1, <2>3 DEF Served, Marked
  <2> QED BY <1>1, <2>1, <2>5, <2>6, <2>7, DataFrame
<1> QED BY <1>2, <1>3

LEMMA AcquiredUses ==
  ASSUME Served, NEW r \in Requests, D!Acquired(r)
  PROVE  \E e : /\ cache' \subseteq cache \cup {e} /\ e.path = req[r].path
                /\ e \in cache \/ e.handle = req[r].handle
                /\ req'[r].at = "handed" /\ req'[r].handle = e.handle /\ req'[r].path = req[r].path
                /\ req'[r].was = tree[req[r].path]
<1> DEFINE mine == [path |-> req[r].path, kind |-> req[r].kind, handle |-> req[r].handle]
           e == D!Race(mine)
<1>1. cache' \subseteq cache \cup {e}
  BY DEF D!Acquired, D!Without
<1>2. e.path = req[r].path /\ (e \in cache \/ e.handle = req[r].handle)
  <2>1. CASE D!Cached(req[r].path, req[r].kind) = {}
    BY <2>1 DEF D!Race
  <2>2. CASE D!Cached(req[r].path, req[r].kind) # {}
    <3>1. e = D!Hit(req[r].path, req[r].kind)
      BY <2>2 DEF D!Race
    <3>2. D!Hit(req[r].path, req[r].kind) \in D!Cached(req[r].path, req[r].kind)
      BY <2>2 DEF D!Hit
    <3> QED BY <3>1, <3>2 DEF D!Cached
  <2> QED BY <2>1, <2>2
<1>3. /\ req[r].at = "opened"
      /\ D!Goes(r, [req[r] EXCEPT !.at = "handed", !.handle = e.handle, !.was = tree[req[r].path]])
  BY DEF D!Acquired
<1> HIDE DEF e
<1>4. {"at", "handle", "was", "path", "kind"} \subseteq DOMAIN req[r]
  BY <1>3 DEF Served, HandlesSound, Formed, DataKinds
<1>5. req'[r] = [req[r] EXCEPT !.at = "handed", !.handle = e.handle, !.was = tree[req[r].path]]
  BY <1>3, MovesOn DEF Served, HandlesSound
<1>6. /\ req'[r].at = "handed" /\ req'[r].handle = e.handle /\ req'[r].path = req[r].path
      /\ req'[r].was = tree[req[r].path]
  BY <1>4, <1>5, GotHandle
<1> QED BY <1>1, <1>2, <1>6

LEMMA AcquiredStays == ASSUME Served, NEW r \in Requests, D!Acquired(r) PROVE Served'
<1>1. PICK e : /\ cache' \subseteq cache \cup {e} /\ e.path = req[r].path
               /\ e \in cache \/ e.handle = req[r].handle
               /\ req'[r].at = "handed" /\ req'[r].handle = e.handle /\ req'[r].path = req[r].path
               /\ req'[r].was = tree[req[r].path]
  BY AcquiredUses
<1>2. /\ HandlesSound /\ HandlesSound' /\ UNCHANGED <<tree, open>> /\ req[r].at = "opened"
      /\ doubtful' = (IF r \in crossed THEN doubtful \cup {req[r].handle} ELSE doubtful)
      /\ crossed' = crossed \ {r}
  BY AcquiredKeeps DEF Served, D!Acquired
<1>3. DOMAIN req' = Requests /\ \A s \in Requests : s # r => req'[s] = req[s]
  BY <1>2, MovesOn DEF D!Acquired, HandlesSound
<1>4. doubtful \subseteq doubtful' /\ (req[r].handle \notin doubtful' => r \notin crossed)
  BY <1>2
<1>5. HandCurrent(r)'
  <2>1. e.handle \in DOMAIN open
    BY <1>1, <1>2 DEF HandlesSound, Entries, InHand
  <2>2. e.handle \notin doubtful' => open[e.handle] = tree[req[r].path]
    <3>1. CASE e \in cache
      BY <1>1, <1>4, <3>1 DEF Served, CacheCurrent
    <3>2. CASE e.handle = req[r].handle
      BY <1>2, <1>4, <3>2 DEF Served, HandCurrent
    <3> QED BY <1>1, <3>1, <3>2
  <2> QED BY <1>1, <1>2, <2>1, <2>2 DEF HandCurrent
<1>6. \A x \in cache' : \/ x \in cache
                        \/ /\ req[r].at = "opened" /\ x.path = req[r].path
                           /\ x.handle = req[r].handle
                           /\ x.handle \notin doubtful' => r \notin crossed
  BY <1>1, <1>2, <1>4
<1>7. /\ req'[r].at \notin Movers /\ req'[r].at \notin {"opens", "opened"}
      /\ \A s \in Requests : s # r => (s \in crossed' <=> s \in crossed)
      /\ \A h \in DOMAIN open : h \in DOMAIN open' /\ open'[h] = open[h]
  BY <1>1, <1>2 DEF Movers
<1> QED BY <1>2, <1>3, <1>4, <1>5, <1>6, <1>7, DataFrame

\* The rest of what a request for data does.
LEMMA DataStaysCurrent ==
  ASSUME Served, NEW r \in Requests, D!Data(r) PROVE Served'
<1>1. HandlesSound /\ HandlesSound' /\ Formed
  BY DataKeeps DEF Served, HandlesSound
<1>2. CASE D!Sent(r)
  <2>1. /\ UNCHANGED <<tree, open, cache, crossed, doubtful>> /\ req[r].at = "handed"
        /\ DOMAIN req' = Requests /\ req'[r] = [req[r] EXCEPT !.at = "sent"]
        /\ \A s \in Requests : s # r => req'[s] = req[s]
    BY <1>1, <1>2, MovesOn DEF D!Sent
  <2>2. {"at", "handle", "was"} \subseteq DOMAIN req[r]
    BY <1>1, <2>1 DEF Formed, DataKinds
  <2>3. req'[r].at = "sent" /\ req'[r].handle = req[r].handle /\ req'[r].was = req[r].was
    BY <2>1, <2>2, Retagged
  <2>4. HandCurrent(r)' /\ req'[r].at \notin Movers /\ req'[r].at \notin {"opens", "opened"}
    BY <2>1, <2>3 DEF Served, HandCurrent, Movers
  <2> QED BY <1>1, <2>1, <2>4, DataFrame
<1>3. CASE D!Answered(r) \/ D!Failed(r) \/ D!Sized(r)
  <2>1. UNCHANGED <<tree, open, crossed, doubtful>> /\ cache' \subseteq cache
    BY <1>3 DEF D!Answered, D!Failed, D!Sized, D!Without
  <2>2. [req[r] EXCEPT !.at = "sizes"].at = "sizes" /\ D!Idle.at = "idle"
    BY <1>1, Retagged DEF Formed, D!Idle
  <2>3. D!Goes(r, D!Idle) \/ D!Goes(r, [req[r] EXCEPT !.at = "sizes"])
    BY <1>3 DEF D!Answered, D!Failed, D!Sized
  <2>4. /\ req'[r].at \in {"sizes", "idle"} /\ DOMAIN req' = Requests
        /\ \A s \in Requests : s # r => req'[s] = req[s]
    BY <1>1, <2>2, <2>3, MovesOn
  <2>5. HandCurrent(r)' /\ req'[r].at \notin Movers /\ req'[r].at \notin {"opens", "opened"}
    BY <2>4 DEF HandCurrent, Movers
  <2> QED BY <1>1, <2>1, <2>4, <2>5, DataFrame
<1> QED BY <1>2, <1>3, AskedStays, OpenedStays, AcquiredStays DEF D!Data

\* A request that changes names has no handle; it only takes entries from the cache and
\* only adds to what is marked.
LEMMA NamesFrame ==
  ASSUME Served, NEW r \in Requests, NEW x, D!Goes(r, x), HandlesSound', UNCHANGED open,
         req[r].at \notin DataKinds, x.at \notin DataKinds, cache' \subseteq cache,
         crossed \subseteq crossed', doubtful \subseteq doubtful', DOMAIN tree' = DOMAIN tree,
         \A e \in cache' : e.handle \notin doubtful' => tree'[e.path] = tree[e.path],
         \A s \in Requests : req[s].at = "opened" /\ s \notin crossed' =>
            tree'[req[s].path] = tree[req[s].path],
         MovePrepared(r)',
         \A s \in Requests : req[s].at \in {"opens", "opened"} /\ Moving(r, req[s].path)' => s \in crossed'
  PROVE  Served'
<1>1. DOMAIN req' = Requests /\ req'[r] = x /\ \A s \in Requests : s # r => req'[s] = req[s]
  BY MovesOn DEF Served, HandlesSound
<1>2. CacheCurrent'
  BY DEF Served, CacheCurrent
<1>3. ASSUME NEW s \in Requests, s # r PROVE HandCurrent(s)' /\ MovePrepared(s)'
  <2>1. req'[s] = req[s]
    BY <1>1, <1>3
  <2>2. HandCurrent(s) /\ MovePrepared(s)
    BY DEF Served
  <2>3. HandCurrent(s)'
    BY <2>1, <2>2 DEF HandCurrent
  <2>4. MovePrepared(s)'
    BY <2>1, <2>2 DEF MovePrepared, D!Targets, D!Paths
  <2> QED BY <2>3, <2>4
<1>4. HandCurrent(r)'
  BY <1>1 DEF HandCurrent, DataKinds
<1>5. Marked'
  <2> SUFFICES ASSUME NEW t \in Requests, NEW s \in Requests, req'[t].at \in {"opens", "opened"},
                      NEW q, q = req'[t].path, Moving(s, q)'
               PROVE  t \in crossed'
    BY DEF Marked
  <2>1. t # r /\ req'[t] = req[t]
    BY <1>1 DEF DataKinds
  <2>2. CASE s = r
    <3>1. Moving(r, req[t].path)'
      BY <2>1, <2>2 DEF Moving, D!Under
    <3> QED BY <2>1, <3>1
  <2>3. CASE s # r
    <3>1. Moving(s, req[t].path)
      BY <1>1, <2>1, <2>3 DEF Moving, D!Under
    <3> QED BY <2>1, <3>1 DEF Served, Marked
  <2> QED BY <2>2, <2>3
<1> QED BY <1>2, <1>3, <1>4, <1>5 DEF Served

\* What the client changes, no request and no entry that can be trusted names.
LEMMA ChangedKeeps ==
  ASSUME Served, NEW r \in Requests, D!Changed(r), NEW q \in FilePaths, tree[q] # 0,
         q # req[r].path, ~D!Under(q, req[r].path), req[r].to # <<>> => q # req[r].to
  PROVE  tree'[q] = tree[q]
<1> DEFINE p == req[r].path
           to == req[r].to
<1>1. q \in D!Paths /\ p \in D!Paths /\ to \in D!Targets(p) \cup {<<>>} /\ DOMAIN tree = D!Paths
  BY DEF D!Changed, Served, MovePrepared, Movers, CacheCurrent, D!Paths
<1>2. CASE UNCHANGED tree
  BY <1>2
<1>3. CASE ~(to # <<>> /\ D!NoPlace(to)) /\ tree' = D!Moved(p, to)
  <2>1. CASE to = <<>>
    BY <1>1, <1>3, <2>1 DEF D!Moved
  <2>2. CASE to # <<>>
    <3>1. ~D!Under(q, to)
      <4>1. CASE to \in DirPaths
        BY <1>1, <1>3, <2>2, <4>1 DEF D!NoPlace
      <4>2. CASE to \notin DirPaths
        <5>1. to \in FilePaths
          BY <1>1, <2>2, <4>2 DEF D!Targets
        <5> QED BY <1>1, <2>2, <5>1, DriveConstants
      <4> QED BY <4>1, <4>2
    <3> QED BY <1>1, <1>3, <2>2, <3>1 DEF D!Moved
  <2> QED BY <2>1, <2>2
<1> QED BY <1>2, <1>3 DEF D!Changed

LEMMA ChangedStays == ASSUME Served, NEW r \in Requests, D!Changed(r) PROVE Served'
<1>1. /\ HandlesSound' /\ Formed /\ req[r].at = "asks" /\ UNCHANGED <<open, cache, crossed>>
      /\ doubtful \subseteq doubtful'
  BY NamesKeep DEF Served, HandlesSound, D!Names, D!Changed
<1>2. \/ UNCHANGED tree
      \/ doubtful' = doubtful \cup
           D!HandlesOf({e \in cache : e.path # req[r].path /\ D!Under(e.path, req[r].path)})
  BY DEF D!Changed
<1>3. PICK x : D!Goes(r, x) /\ x.at \in {"idle", "changed"}
  <2>1. [req[r] EXCEPT !.at = "changed"].at = "changed" /\ D!Idle.at = "idle"
    BY <1>1, Retagged DEF Formed, D!Idle
  <2> QED BY <2>1 DEF D!Changed
<1>4. DOMAIN req' = Requests /\ req'[r] = x
  BY <1>1, <1>3, MovesOn
<1>5. DOMAIN tree' = DOMAIN tree
  BY DEF D!Changed, D!Moved, Served, CacheCurrent
<1>6. ASSUME NEW e \in cache', e.handle \notin doubtful' PROVE tree'[e.path] = tree[e.path]
  <2>1. CASE UNCHANGED tree
    BY <2>1
  <2>2. CASE ~UNCHANGED tree
    <3>1. e \in cache /\ e.handle \notin doubtful /\ e.path \in FilePaths /\ tree[e.path] # 0
      BY <1>1, <1>6 DEF Served, CacheCurrent, HandlesSound, Entries
    <3>2. e.path # req[r].path /\ e.path # req[r].to
      BY <1>1, <3>1 DEF Served, MovePrepared, Movers
    <3>3. ~D!Under(e.path, req[r].path)
      BY <1>2, <1>6, <2>2, <3>1, <3>2 DEF D!HandlesOf
    <3> QED BY <3>1, <3>2, <3>3, ChangedKeeps
  <2> QED BY <2>1, <2>2
<1>7. ASSUME NEW s \in Requests, req[s].at = "opened", s \notin crossed'
      PROVE  tree'[req[s].path] = tree[req[s].path]
  <2>1. ~Moving(r, req[s].path)
    BY <1>1, <1>7 DEF Served, Marked
  <2>2. req[s].path \in FilePaths /\ tree[req[s].path] # 0
    BY <1>1, <1>7 DEF Served, HandCurrent, HandlesSound, InHand
  <2>3. /\ ~D!Under(req[s].path, req[r].path)
        /\ req[r].to # <<>> => ~D!Under(req[s].path, req[r].to)
    BY <1>1, <2>1 DEF Moving, Movers
  <2>4. D!Under(req[s].path, req[s].path)
    BY <2>2, DriveConstants DEF D!Paths
  <2>5. req[s].path # req[r].path /\ (req[r].to # <<>> => req[s].path # req[r].to)
    BY <2>3, <2>4
  <2> QED BY <2>2, <2>3, <2>5, ChangedKeeps
<1>8. MovePrepared(r)' /\ \A q : ~Moving(r, q)'
  BY <1>3, <1>4 DEF MovePrepared, Moving, Movers
<1>9. req[r].at \notin DataKinds /\ x.at \notin DataKinds
  BY <1>1, <1>3 DEF DataKinds
<1>10. \A s \in Requests : ~Moving(r, req[s].path)'
  BY <1>3, <1>4 DEF Moving, Movers
<1> QED BY <1>1, <1>3, <1>5, <1>6, <1>7, <1>8, <1>9, <1>10, NamesFrame

\* A step that changes no name the client knows, and after which no move is under way.
LEMMA QuietStep ==
  ASSUME Served, NEW r \in Requests, NEW x, D!Goes(r, x), HandlesSound',
         UNCHANGED <<tree, open, cache, crossed, doubtful>>,
         req[r].at \notin DataKinds, x.at \notin DataKinds \cup Movers
  PROVE  Served'
<1>1. DOMAIN req' = Requests /\ req'[r] = x
  BY MovesOn DEF Served, HandlesSound
<1>2. MovePrepared(r)' /\ \A s \in Requests : ~Moving(r, req[s].path)'
  BY <1>1 DEF MovePrepared, Moving
<1>3. x.at \notin DataKinds
  OBVIOUS
<1> QED BY <1>2, <1>3, NamesFrame

LEMMA MovesStays ==
  ASSUME Served, NEW r \in Requests, NEW p \in D!Paths, NEW to \in D!Targets(p) \cup {<<>>},
         D!Moves(r, p, to)
  PROVE  Served'
<1>1. PICK i, full, waits :
        D!Goes(r, [at |-> "evicts", path |-> p, to |-> to, id |-> i, full |-> full, waits |-> waits])
  BY DEF D!Moves, D!Begins
<1> DEFINE x == [at |-> "evicts", path |-> p, to |-> to, id |-> i, full |-> full, waits |-> waits]
<1>2. /\ HandlesSound' /\ HandlesSound /\ req[r].at = "idle" /\ UNCHANGED <<tree, open, doubtful>>
      /\ cache' = {e \in cache : e.path # p}
      /\ crossed' = crossed \cup {s \in Requests :
                       /\ req[s].at \in {"opens", "opened"}
                       /\ D!Under(req[s].path, p) \/ (to # <<>> /\ D!Under(req[s].path, to))}
  <2>1. D!Names(r)
    BY DEF D!Names
  <2> QED BY <2>1, NamesKeep DEF Served, D!Moves, D!Begins, D!Idle, D!Kept
<1>3. /\ DOMAIN req' = Requests /\ req'[r] = x
      /\ \A s \in Requests : s # r => req'[s] = req[s]
  BY <1>1, <1>2, MovesOn DEF HandlesSound
<1>4. req'[r].at = "evicts" /\ req'[r].path = p /\ req'[r].to = to /\ x.at = "evicts"
  BY <1>3
<1> HIDE DEF x
<1>5. MovePrepared(r)'
  BY <1>2, <1>4 DEF MovePrepared, D!Targets, D!Paths
<1>6. ASSUME NEW s \in Requests, req[s].at \in {"opens", "opened"}, Moving(r, req[s].path)'
      PROVE  s \in crossed'
  <2>1. req'[s] = req[s]
    BY <1>2, <1>3, <1>6
  <2>2. D!Under(req[s].path, p) \/ (to # <<>> /\ D!Under(req[s].path, to))
    BY <1>4, <1>6, <2>1 DEF Moving, D!Under
  <2> QED BY <1>2, <1>6, <2>2
<1>7. req[r].at \notin DataKinds /\ x.at \notin DataKinds
  BY <1>2, <1>4 DEF DataKinds
<1>8. D!Goes(r, x)
  BY <1>1 DEF x
<1>9. cache' \subseteq cache /\ crossed \subseteq crossed' /\ doubtful \subseteq doubtful'
  BY <1>2
<1> QED BY <1>2, <1>5, <1>6, <1>7, <1>8, <1>9, NamesFrame

LEMMA EvictsTargetStays == ASSUME Served, NEW r \in Requests, D!EvictsTarget(r) PROVE Served'
<1> DEFINE x == [req[r] EXCEPT !.at = "evicts target", !.waits = D!Evicted(req[r].to)]
<1>1. /\ HandlesSound' /\ HandlesSound /\ req[r].at = "evicts" /\ D!Goes(r, x)
      /\ UNCHANGED <<tree, open, doubtful, crossed>> /\ cache' = {e \in cache : e.path # req[r].to}
  BY NamesKeep DEF Served, D!Names, D!EvictsTarget, D!Kept
<1>2. {"at", "path", "to"} \subseteq DOMAIN req[r]
  BY <1>1 DEF HandlesSound, Formed, Movers
<1>3. x.at = "evicts target" /\ x.path = req[r].path /\ x.to = req[r].to
  BY <1>2, Waiting
<1> HIDE DEF x
<1>4. DOMAIN req' = Requests /\ req'[r] = x /\ \A s \in Requests : s # r => req'[s] = req[s]
  BY <1>1, MovesOn DEF HandlesSound
<1>5. MovePrepared(r) 
  BY DEF Served
<1>6. MovePrepared(r)'
  BY <1>1, <1>3, <1>4, <1>5 DEF MovePrepared, Movers, D!Targets, D!Paths
<1>7. ASSUME NEW s \in Requests, req[s].at \in {"opens", "opened"}, Moving(r, req[s].path)'
      PROVE  s \in crossed'
  <2>1. req'[s] = req[s]
    BY <1>1, <1>4, <1>7
  <2>2. Moving(r, req[s].path)
    BY <1>1, <1>3, <1>4, <1>7, <2>1 DEF Moving, Movers, D!Under
  <2> QED BY <1>1, <1>7, <2>2 DEF Served, Marked
<1>8. req[r].at \notin DataKinds /\ x.at \notin DataKinds
  BY <1>1, <1>3 DEF DataKinds
<1>9. cache' \subseteq cache
  BY <1>1
<1> QED BY <1>1, <1>6, <1>7, <1>8, <1>9, NamesFrame

LEMMA EvictsStays == ASSUME Served, NEW r \in Requests, D!Evicts(r) PROVE Served'
<1> DEFINE x == [req[r] EXCEPT !.at = "asks"]
<1>1. /\ HandlesSound' /\ HandlesSound /\ req[r].at = "evicts target" /\ D!Goes(r, x)
      /\ UNCHANGED <<tree, open, cache, doubtful, crossed>>
  BY NamesKeep DEF Served, D!Names, D!Evicts
<1>2. {"at", "path", "to"} \subseteq DOMAIN req[r]
  BY <1>1 DEF HandlesSound, Formed, Movers
<1>3. x.at = "asks" /\ x.path = req[r].path /\ x.to = req[r].to
  BY <1>2, Retagged
<1> HIDE DEF x
<1>4. DOMAIN req' = Requests /\ req'[r] = x /\ \A s \in Requests : s # r => req'[s] = req[s]
  BY <1>1, MovesOn DEF HandlesSound
<1>5. MovePrepared(r) 
  BY DEF Served
<1>6. MovePrepared(r)'
  BY <1>1, <1>3, <1>4, <1>5 DEF MovePrepared, Movers, D!Targets, D!Paths
<1>7. ASSUME NEW s \in Requests, req[s].at \in {"opens", "opened"}, Moving(r, req[s].path)'
      PROVE  s \in crossed'
  <2>1. req'[s] = req[s]
    BY <1>1, <1>4, <1>7
  <2>2. Moving(r, req[s].path)
    BY <1>1, <1>3, <1>4, <1>7, <2>1 DEF Moving, Movers, D!Under
  <2> QED BY <1>1, <1>7, <2>2 DEF Served, Marked
<1>8. req[r].at \notin DataKinds /\ x.at \notin DataKinds
  BY <1>1, <1>3 DEF DataKinds
<1> QED BY <1>1, <1>6, <1>7, <1>8, NamesFrame

LEMMA CreatesStays ==
  ASSUME Served, NEW r \in Requests, NEW p \in D!Paths, D!Creates(r, p) PROVE Served'
<1> DEFINE x == [at |-> "created", path |-> p]
<1>1. /\ HandlesSound' /\ HandlesSound /\ req[r].at = "idle" /\ D!Goes(r, x)
      /\ UNCHANGED <<open, cache, crossed, doubtful>>
      /\ UNCHANGED tree \/ \E f : tree[p] = 0 /\ tree' = [tree EXCEPT ![p] = f]
  <2>1. D!Names(r)
    BY DEF D!Names
  <2>2. HandlesSound' /\ HandlesSound
    BY <2>1, NamesKeep DEF Served
  <2> QED BY <2>2 DEF D!Creates, D!Begins, D!Idle
<1>2. DOMAIN tree' = DOMAIN tree /\ \A q \in D!Paths : tree[q] # 0 => tree'[q] = tree[q]
  BY <1>1 DEF Served, CacheCurrent
<1>3. \A e \in cache : e.handle \notin doubtful => tree'[e.path] = tree[e.path]
  BY <1>1, <1>2 DEF Served, CacheCurrent, HandlesSound, Entries, D!Paths
<1>4. \A s \in Requests : req[s].at = "opened" /\ s \notin crossed =>
        tree'[req[s].path] = tree[req[s].path]
  BY <1>1, <1>2 DEF Served, HandCurrent, HandlesSound, InHand, D!Paths
<1>5. DOMAIN req' = Requests /\ req'[r] = x
  BY <1>1, MovesOn DEF HandlesSound
<1>6. x.at = "created"
  OBVIOUS
<1> HIDE DEF x
<1>7. MovePrepared(r)' /\ \A s \in Requests : ~Moving(r, req[s].path)'
  BY <1>5, <1>6 DEF MovePrepared, Moving, Movers
<1>8. req[r].at \notin DataKinds /\ x.at \notin DataKinds
  BY <1>1, <1>6 DEF DataKinds
<1> QED BY <1>1, <1>2, <1>3, <1>4, <1>7, <1>8, NamesFrame

LEMMA NamesStayCurrent ==
  ASSUME Served, NEW r \in Requests, D!Names(r) PROVE Served'
<1>1. HandlesSound'
  BY NamesKeep DEF Served
<1> USE DEF DataKinds, Movers
<1>2. ASSUME NEW d, D!Lists(r, d) PROVE Served'
  <2>1. PICK seen : D!Goes(r, [at |-> "listed", dir |-> d, seen |-> seen])
    BY <1>2 DEF D!Lists, D!Begins
  <2>2. UNCHANGED <<tree, open, cache, crossed, doubtful>> /\ req[r].at = "idle"
    BY <1>2 DEF D!Lists, D!Begins, D!Idle
  <2> QED BY <1>1, <2>1, <2>2, QuietStep
<1>3. ASSUME NEW i, D!Truncates(r, i) PROVE Served'
  <2>1. D!Goes(r, [at |-> "truncated", id |-> i]) /\ req[r].at = "idle"
        /\ UNCHANGED <<tree, open, cache, crossed, doubtful>>
    BY <1>3 DEF D!Truncates, D!Begins, D!Idle
  <2> QED BY <1>1, <2>1, QuietStep
<1>4. CASE D!Listed(r) \/ D!Created(r) \/ D!Truncated(r) \/ D!Renamed(r)
  <2>1. /\ D!Goes(r, D!Idle) /\ UNCHANGED <<tree, open, cache, crossed, doubtful>>
        /\ req[r].at \in {"listed", "created", "truncated", "changed"}
    BY <1>4 DEF D!Listed, D!Created, D!Truncated, D!Renamed
  <2>2. D!Idle.at = "idle"
    BY DEF D!Idle
  <2> QED BY <1>1, <2>1, <2>2, QuietStep
<1> QED BY <1>2, <1>3, <1>4, CreatesStays, MovesStays, EvictsTargetStays, EvictsStays, ChangedStays
    DEF D!Names

LEMMA ClosedStaysCurrent ==
  ASSUME Served, NEW h \in closing, D!Closed(h) PROVE Served'
<1>1. /\ open' = [x \in DOMAIN open \ {h} |-> open[x]]
      /\ UNCHANGED <<tree, cache, req>> /\ doubtful' = doubtful \ {h}
      /\ crossed' = crossed \cup {r \in Requests : req[r].at = "handed" /\ req[r].handle = h}
      /\ \A r \in Requests : ~(req[r].at = "sent" /\ req[r].handle = h)
  BY DEF D!Closed
<1>2. HandlesSound' /\ HandlesSound
  BY ClosedKeeps DEF Served
<1>3. \A x \in DOMAIN open : x # h => x \in DOMAIN open' /\ open'[x] = open[x]
  BY <1>1
<1>4. \A e \in cache : e.handle # h /\ e.handle \in DOMAIN open
  BY <1>2 DEF HandlesSound, Entries
<1>5. CacheCurrent'
  BY <1>1, <1>3, <1>4 DEF Served, CacheCurrent
<1>6. ASSUME NEW r \in Requests PROVE HandCurrent(r)' /\ MovePrepared(r)'
  <2>1. HandCurrent(r) /\ MovePrepared(r)
    BY DEF Served
  <2>2. req[r].at = "opened" => req[r].handle \in DOMAIN open /\ req[r].handle # h
    BY <1>2 DEF HandlesSound, InHand
  <2>3. HandCurrent(r)'
    BY <1>1, <1>3, <2>1, <2>2 DEF HandCurrent
  <2>4. MovePrepared(r)'
    BY <1>1, <1>4, <2>1 DEF MovePrepared, D!Targets, D!Paths
  <2> QED BY <2>3, <2>4
<1>7. Marked'
  BY <1>1 DEF Served, Marked, Moving, D!Under
<1> QED BY <1>2, <1>5, <1>6, <1>7 DEF Served

\* A read answers from the file its path named as it was given its handle, for any paths,
\* requests, number of handles and of changes, however they interleave: the exceptions are
\* those the property names.
THEOREM ReadsStayCurrent == Spec => ReadsAreCurrent
<1>1. Init => Served
  <2> SUFFICES ASSUME Init PROVE Served
    OBVIOUS
  <2>1. /\ open = << >> /\ closing = {} /\ cache = {}
        /\ req = [r \in Requests |-> D!Idle] /\ DOMAIN tree = D!Paths
    BY DEF Init, D!Init
  <2>2. DOMAIN open = {} /\ IsFiniteSet({})
    BY <2>1, FS_EmptySet
  <2>3. DOMAIN req = Requests /\ \A r \in Requests : "at" \in DOMAIN req[r] /\ req[r].at = "idle"
    BY <2>1 DEF D!Idle
  <2>4. HandlesSound
    BY <2>1, <2>2, <2>3
       DEF HandlesSound, Formed, Entries, Openers, InHand, D!NoHandleLost, DataKinds, Movers
  <2> QED BY <2>1, <2>3, <2>4
          DEF Served, CacheCurrent, HandCurrent, MovePrepared, Marked, Moving, Movers
<1>2. Served /\ [Next]_vars => Served'
  <2> SUFFICES ASSUME Served, [Next]_vars PROVE Served'
    OBVIOUS
  <2>1. CASE UNCHANGED driveVars
    <3>1. UNCHANGED <<tree, open, closing, cache, req, crossed, doubtful>>
      BY <2>1 DEF driveVars
    <3> QED BY <3>1 DEF Served, CacheCurrent, HandCurrent, MovePrepared, Marked, Moving, D!Under,
               D!Targets, D!Paths,
               HandlesSound, Formed, Entries, Openers, InHand, D!NoHandleLost, D!HandlesOf
  <2> QED BY <2>1, DriveSteps, DataStaysCurrent, NamesStayCurrent, ClosedStaysCurrent DEF D!DriveNext
<1>3. Served => [\A r \in Requests :
          (/\ req[r].at = "sent" /\ req[r].handle \in DOMAIN open /\ req'[r] = D!Idle
           /\ r \notin crossed /\ req[r].handle \notin doubtful)
             => open[req[r].handle] = req[r].was]_(D!driveVars)
  BY DEF Served, HandCurrent
<1> QED BY <1>1, <1>2, <1>3, PTL DEF Spec, ReadsAreCurrent, D!ReadsAreCurrent

-----------------------------------------------------------------------------
(* FileDownload                                                             *)

Phases == {"idle", "waits", "fetches", "answered"}

Shaped ==
    /\ copied \in 0..MaxLists /\ lists \in 0..copied /\ list \in 0..lists /\ live \cup jobs \subseteq 1..lists
    /\ DOMAIN reads = Reads
    /\ \A r \in Reads : DOMAIN reads[r] = {"phase", "item"} /\ reads[r].phase \in Phases
    /\ DOMAIN planned = Reads /\ \A r \in Reads : planned[r] \in Nat
    /\ nextId \in Nat
    /\ DOMAIN disk = L!Items
    /\ \A i \in L!Items : disk[i] = L!NoFile \/ disk[i] = [c \in 1..Chunks |-> disk[i][c]]

\* Reads are of files of lists that have come, and only one at a time fetches a file.
Apart ==
    /\ \A r \in Reads : reads[r].phase # "idle" => reads[r].item \in L!Items /\ reads[r].item[1] <= lists
    /\ \A r, s \in Reads : r # s /\ reads[r].phase = "fetches" /\ reads[s].phase = "fetches"
                              => reads[r].item # reads[s].item

\* Nothing is left of a list that was replaced, nor of a file whose download failed, unless
\* a read that waited fetches it anew.
Gone ==
    \A i \in L!Items :
        /\ i[1] # list => disk[i] = L!NoFile
        /\ i \notin registry => disk[i] = L!NoFile \/ L!Locked(i) \/ i \in fetched

\* What a client that has copied n lists may have sent for a chunk, and a file of it.
Bytes(n, item, c, bytes) ==
    \E l \in item[1]..n, much \in {"all", "some"} : bytes = <<l, item[2], c, much>>
Held(n, item, file) == file = L!NoFile \/ \A c \in 1..Chunks : Bytes(n, item, c, file[c])

Complete ==
    /\ fetched \subseteq L!Items
    /\ \A i \in fetched : i[1] <= lists /\ Held(copied, i, disk[i])
    /\ \A r \in Reads : reads[r].phase = "fetches" => reads[r].item \notin fetched

\* Each chunk under way has one task, under an id that is in no other's request.
Tasks ==
    /\ \A t \in tasks : /\ t.read \in Reads /\ reads[t.read].phase = "fetches"
                        /\ t.chunk \in 1..planned[t.read] /\ t.id \in 0..(nextId - 1)
    /\ \A t, u \in tasks : t.id = u.id => t = u
    /\ \A t, u \in tasks : t.read = u.read /\ t.chunk = u.chunk => t = u
    /\ \A a \in asked : a.id \in 0..(nextId - 1)
    /\ \A a \in asked, t \in tasks :
          a.id = t.id => a.chunk = t.chunk /\ a.file = reads[t.read].item[2]

\* Of the chunks asked for, each is under way or in its place.
Progress ==
    \A r \in Reads : reads[r].phase = "fetches" =>
        /\ planned[r] <= Chunks
        /\ \/ disk[reads[r].item] = L!NoFile
           \/ \A c \in 1..planned[r] :
                 \/ \E t \in tasks : t.read = r /\ t.chunk = c
                 \/ Bytes(copied, reads[r].item, c, disk[reads[r].item][c])

Downloading == Shaped /\ Apart /\ Gone /\ Complete /\ Tasks /\ Progress

LEMMA PhaseOf ==
  ASSUME Shaped, NEW r \in Reads, NEW phase \in Phases, L!Phase(r, phase)
  PROVE  /\ DOMAIN reads' = Reads /\ DOMAIN reads'[r] = {"phase", "item"}
         /\ reads'[r].phase = phase /\ reads'[r].item = reads[r].item
         /\ \A s \in Reads : s # r => reads'[s] = reads[s]
BY DEF Shaped, L!Phase

LEMMA ItemsOf ==
  ASSUME NEW i \in L!Items
  PROVE  i = <<i[1], i[2]>> /\ i[1] \in 1..MaxLists /\ i[1] \in Nat \ {0} /\ i[2] \in Files
BY DownloadConstants DEF L!Items

\* A list goes, and with it what it left on the disk.
LEMMA ListKeeps == ASSUME MaxLists \in Nat, Downloading, L!OnRemoteFileList PROVE Downloading'
<1> DEFINE n == copied
<1>1. /\ lists < n /\ lists' = n /\ list' = n
      /\ disk' = [item \in L!Items |-> IF item[1] = n THEN L!Empty ELSE L!Removed[item]]
      /\ registry' = L!Unregistered \cup ({n} \X Files)
      /\ jobs' = jobs \cup {n} /\ live' = {}
      /\ UNCHANGED <<copied, fetched, reads, tasks, planned, nextId, asked>>
  BY DEF L!OnRemoteFileList, L!router
<1>2. lists \in 0..n /\ list \in 0..lists /\ n \in 0..MaxLists
  BY <1>1 DEF Downloading, Shaped
<1>3. ASSUME NEW i \in L!Items PROVE disk'[i] = IF i[1] = n THEN L!Empty ELSE L!NoFile
  <2>1. L!Removed[i] = L!NoFile
    BY DEF L!Removed, Downloading, Gone
  <2> QED BY <1>1, <2>1
<1>4. Shaped'
  <2>1. live' \cup jobs' \subseteq 1..lists'
    BY <1>1, <1>2 DEF Downloading, Shaped
  <2>2. ASSUME NEW i \in L!Items
        PROVE  disk'[i] = L!NoFile \/ disk'[i] = [c \in 1..Chunks |-> disk'[i][c]]
    BY <1>3 DEF L!Empty
  <2>3. DOMAIN disk' = L!Items
    BY <1>1
  <2> QED BY <1>1, <1>2, <2>1, <2>2, <2>3 DEF Downloading, Shaped
<1>5. Apart'
  <2>1. ASSUME NEW i \in L!Items, i[1] <= lists PROVE i[1] <= n
    BY <1>2, <2>1, ItemsOf
  <2> QED BY <1>1, <2>1 DEF Downloading, Apart
<1>6. Gone'
  <2>1. ASSUME NEW i \in L!Items, i[1] = n PROVE i \in registry'
    BY <1>1, <2>1, ItemsOf
  <2> QED BY <1>1, <1>3, <2>1 DEF Gone
<1>8. Complete'
  <2>1. ASSUME NEW i \in fetched PROVE i \in L!Items /\ i[1] <= n /\ disk'[i] = L!NoFile
    <3>1. i \in L!Items /\ i[1] <= lists
      BY DEF Downloading, Complete
    <3>2. i[1] <= n /\ i[1] # n
      BY <1>1, <1>2, <3>1, ItemsOf
    <3> QED BY <1>3, <3>1, <3>2
  <2>2. \A i \in fetched : Held(copied', i, disk'[i])
    BY <2>1 DEF Held
  <2>3. n = copied' /\ lists' = n /\ UNCHANGED <<fetched, reads>>
    BY <1>1
  <2> HIDE DEF n
  <2> QED BY <2>1, <2>2, <2>3 DEF Downloading, Complete
<1>9. Tasks'
  BY <1>1 DEF Downloading, Tasks
<1>10. Progress'
  <2>1. ASSUME NEW r \in Reads, reads[r].phase # "idle" PROVE disk'[reads[r].item] = L!NoFile
    <3>1. reads[r].item \in L!Items /\ reads[r].item[1] <= lists
      BY <2>1 DEF Downloading, Apart
    <3>2. reads[r].item[1] # n
      BY <1>1, <1>2, <3>1, ItemsOf
    <3> QED BY <1>3, <3>1, <3>2
  <2> QED BY <1>1, <2>1 DEF Downloading, Progress
<1> QED BY <1>4, <1>5, <1>6, <1>8, <1>9, <1>10 DEF Downloading

\* What may have been sent for a chunk may have been sent when more is copied.
LEMMA MoreBytes ==
  ASSUME NEW n \in Int, NEW m \in Int, n <= m, NEW item, item[1] \in Int, NEW c, NEW bytes,
         Bytes(n, item, c, bytes)
  PROVE  Bytes(m, item, c, bytes)
BY DEF Bytes

LEMMA CopyKeeps == ASSUME MaxLists \in Nat, Downloading, L!ClientCopies PROVE Downloading'
<1>1. /\ copied < MaxLists /\ copied' = copied + 1
      /\ UNCHANGED <<list, lists, jobs, live, registry, fetched, disk, reads, tasks, planned, nextId, asked>>
  BY DEF L!ClientCopies, L!place, L!router
<1>2. copied \in Int /\ copied' \in Int /\ copied <= copied'
  BY <1>1 DEF Downloading, Shaped
<1>3. ASSUME NEW item \in L!Items, NEW c, NEW bytes, Bytes(copied, item, c, bytes)
      PROVE  Bytes(copied', item, c, bytes)
  <2>1. item[1] \in Int
    BY ItemsOf
  <2> QED BY <1>2, <1>3, <2>1, MoreBytes
<1>4. Shaped'
  BY <1>1 DEF Downloading, Shaped
<1>5. Apart' /\ Gone' /\ Tasks'
  BY <1>1 DEF Downloading, Apart, Gone, Tasks, L!Locked
<1>6. Complete'
  BY <1>1, <1>3 DEF Downloading, Complete, Held
<1>7. Progress'
  BY <1>1, <1>3 DEF Downloading, Apart, Progress
<1> QED BY <1>4, <1>5, <1>6, <1>7 DEF Downloading

LEMMA DisconnectKeeps == ASSUME Downloading, L!Disconnect PROVE Downloading'
<1>1. /\ list' = 0 /\ disk' = L!Removed /\ live' = {} /\ asked' = {}
      /\ UNCHANGED <<copied, lists, jobs, fetched, reads, tasks, planned, nextId>>
  BY DEF L!Disconnect
<1>2. ASSUME NEW i \in L!Items PROVE disk'[i] = L!NoFile /\ i[1] # 0
  BY <1>1, ItemsOf DEF L!Removed, Downloading, Gone
<1>3. Shaped'
  BY <1>1, <1>2 DEF Downloading, Shaped, L!Removed
<1>4. Apart' /\ Gone'
  BY <1>1, <1>2 DEF Downloading, Apart, Gone, L!Locked
<1>5. Complete'
  BY <1>1, <1>2 DEF Downloading, Complete, Held
<1>7. Progress'
  BY <1>1, <1>2 DEF Downloading, Progress, Apart
<1>6. Tasks'
  BY <1>1 DEF Downloading, Tasks
<1> QED BY <1>3, <1>4, <1>5, <1>6, <1>7 DEF Downloading

LEMMA RelinquishKeeps ==
  ASSUME Downloading, NEW r \in Reads, NEW item \in L!Items, L!Relinquish(r, item)
  PROVE  Downloading'
<1>1. /\ reads' = [reads EXCEPT ![r] =
            [phase |-> IF item \in registry THEN "waits" ELSE "answered", item |-> item]]
      /\ UNCHANGED <<copied, list, lists, jobs, live, registry, fetched, disk, tasks, planned, nextId, asked>>
      /\ reads[r].phase = "idle" /\ item[1] \in live
  BY DEF L!Relinquish, L!place, L!router
<1>2. /\ DOMAIN reads' = Reads /\ reads'[r].item = item /\ DOMAIN reads'[r] = {"phase", "item"}
      /\ reads'[r].phase = IF item \in registry THEN "waits" ELSE "answered"
      /\ \A s \in Reads : s # r => reads'[s] = reads[s]
  BY <1>1 DEF Downloading, Shaped
<1>3. item[1] <= lists
  BY <1>1 DEF Downloading, Shaped
<1>4. Shaped'
  BY <1>1, <1>2 DEF Downloading, Shaped, Phases
<1>5. Apart'
  BY <1>1, <1>2, <1>3 DEF Downloading, Apart
<1>6. Gone' /\ Complete'
  BY <1>1, <1>2 DEF Downloading, Gone, Complete, L!Locked
<1>7. Tasks'
  BY <1>1, <1>2 DEF Downloading, Tasks
<1>8. Progress'
  BY <1>1, <1>2 DEF Downloading, Progress
<1> QED BY <1>4, <1>5, <1>6, <1>7, <1>8 DEF Downloading

\* A read that does not fetch is answered, or comes to rest.
LEMMA PhaseKeeps ==
  ASSUME Downloading, NEW r \in Reads, NEW phase \in {"idle", "answered"}, L!Phase(r, phase),
         reads[r].phase \in {"waits", "answered"},
         UNCHANGED <<copied, list, lists, jobs, live, registry, fetched, disk, tasks, planned, nextId, asked>>
  PROVE  Downloading'
<1>1. /\ DOMAIN reads' = Reads /\ DOMAIN reads'[r] = {"phase", "item"}
      /\ reads'[r].phase = phase /\ reads'[r].item = reads[r].item
      /\ \A s \in Reads : s # r => reads'[s] = reads[s]
  BY PhaseOf DEF Downloading, Phases
<1>2. Shaped'
  BY <1>1 DEF Downloading, Shaped, Phases
<1>3. Apart'
  BY <1>1 DEF Downloading, Apart
<1>4. Gone' /\ Complete'
  BY <1>1 DEF Downloading, Gone, Complete, L!Locked
<1>5. Tasks' /\ Progress'
  BY <1>1 DEF Downloading, Tasks, Progress
<1> QED BY <1>2, <1>3, <1>4, <1>5 DEF Downloading

LEMMA AskCovers ==
  ASSUME NEW r \in Reads, NEW kept, NEW from \in Nat, NEW n \in Nat, NEW unanswered, NEW waiting,
         L!Ask(r, kept, from, n, unanswered, waiting), NEW c \in Int, from <= c, c < from + n
  PROVE  \E t \in tasks' : t.read = r /\ t.chunk = c
<1>1. PICK k \in 0..(n - 1) : from + k = c
  <2>1. c - from \in 0..(n - 1) /\ from + (c - from) = c
    OBVIOUS
  <2> QED BY <2>1
<1>2. tasks' = kept \cup {[id |-> nextId + i, read |-> r, chunk |-> from + i] : i \in 0..(n - 1)}
  BY DEF L!Ask
<1>3. [id |-> nextId + k, read |-> r, chunk |-> from + k] \in tasks'
  BY <1>2
<1> QED BY <1>1, <1>3

\* What is asked for gets tasks and ids that no other task or request has.
LEMMA AskAdds ==
  ASSUME Shaped, Tasks, NEW r \in Reads, NEW kept, kept \subseteq tasks,
         NEW from \in Nat \ {0}, NEW n \in Nat, NEW unanswered, unanswered \subseteq asked, NEW waiting,
         L!Ask(r, kept, from, n, unanswered, waiting),
         \A t \in kept : t.read = r => t.chunk < from,
         reads'[r].phase = "fetches", reads'[r].item = reads[r].item,
         \A s \in Reads : s # r => reads'[s] = reads[s]
  PROVE  /\ Tasks' /\ nextId' \in Nat
         /\ DOMAIN planned' = Reads /\ planned'[r] = from + n - 1
         /\ \A s \in Reads : s # r => planned'[s] = planned[s]
         /\ kept \subseteq tasks'
         /\ \A t \in tasks' : t \in kept \/ t.read = r
<1> DEFINE new == {[id |-> nextId + i, read |-> r, chunk |-> from + i] : i \in 0..(n - 1)}
           news == {[id |-> nextId + i, file |-> reads[r].item[2], chunk |-> from + i] : i \in 0..(n - 1)}
<1>1. /\ tasks' = kept \cup new /\ asked' \subseteq unanswered \cup news
      /\ nextId' = nextId + n /\ planned' = [planned EXCEPT ![r] = from + n - 1]
  BY DEF L!Ask
<1>2. ASSUME NEW t \in new
      PROVE  /\ t.id \in nextId..(nextId + n - 1) /\ t.read = r
             /\ t.chunk = from + (t.id - nextId) /\ t.chunk \in from..(from + n - 1)
  BY DEF Shaped
<1>3. ASSUME NEW a \in news
      PROVE  /\ a.id \in nextId..(nextId + n - 1) /\ a.file = reads[r].item[2]
             /\ a.chunk = from + (a.id - nextId)
  BY DEF Shaped
<1>4. ASSUME NEW t \in new, NEW u \in new, t.id = u.id \/ t.chunk = u.chunk PROVE t = u
  <2>1. PICK i \in 0..(n - 1) : t = [id |-> nextId + i, read |-> r, chunk |-> from + i]
    OBVIOUS
  <2>2. PICK j \in 0..(n - 1) : u = [id |-> nextId + j, read |-> r, chunk |-> from + j]
    OBVIOUS
  <2>3. i = j
    BY <1>4, <2>1, <2>2 DEF Shaped
  <2> QED BY <2>1, <2>2, <2>3
<1> HIDE DEF new, news
<1>6. /\ nextId' \in Nat /\ nextId \in Nat /\ DOMAIN planned' = Reads /\ planned'[r] = from + n - 1
      /\ \A s \in Reads : s # r => planned'[s] = planned[s]
      /\ \A s \in Reads : planned[s] \in Nat
  BY <1>1 DEF Shaped
<1>7. ASSUME NEW t \in kept
      PROVE  /\ t.read \in Reads /\ reads[t.read].phase = "fetches" /\ t.id \in 0..(nextId - 1)
             /\ t.chunk \in 1..planned[t.read]
  BY DEF Tasks
<1>8. ASSUME NEW t \in tasks'
      PROVE  /\ t.read \in Reads /\ reads'[t.read].phase = "fetches"
             /\ t.chunk \in 1..planned'[t.read] /\ t.id \in 0..(nextId' - 1)
  <2>1. CASE t \in new
    BY <1>1, <1>2, <1>6, <2>1
  <2>2. CASE t \in kept
    <3>1. t.id \in 0..(nextId' - 1) /\ t.read \in Reads
      BY <1>1, <1>6, <1>7, <2>2
    <3>2. CASE t.read = r
      <4>1. t.chunk \in 1..(from + n - 1)
        BY <1>6, <1>7, <2>2, <3>2
      <4> QED BY <1>6, <3>1, <3>2, <4>1
    <3>3. CASE t.read # r
      BY <1>6, <1>7, <2>2, <3>1, <3>3
    <3> QED BY <3>2, <3>3, <3>1
  <2> QED BY <1>1, <2>1, <2>2
<1>9. ASSUME NEW t \in tasks', NEW u \in tasks', t.id = u.id \/ (t.read = u.read /\ t.chunk = u.chunk)
      PROVE  t = u
  <2>1. CASE t \in kept /\ u \in kept
    BY <1>9, <2>1 DEF Tasks
  <2>2. CASE t \in new /\ u \in new
    BY <1>4, <1>9, <2>2
  <2>3. CASE t \in kept /\ u \in new
    BY <1>2, <1>6, <1>7, <1>9, <2>3
  <2>4. CASE t \in new /\ u \in kept
    BY <1>2, <1>6, <1>7, <1>9, <2>4
  <2> QED BY <1>1, <2>1, <2>2, <2>3, <2>4
<1>10. ASSUME NEW a \in asked' PROVE a.id \in 0..(nextId' - 1)
  <2>1. CASE a \in asked
    BY <1>1, <1>6, <2>1 DEF Tasks
  <2>2. CASE a \in news
    BY <1>1, <1>3, <1>6, <2>2
  <2> QED BY <1>1, <2>1, <2>2
<1>11. ASSUME NEW a \in asked', NEW t \in tasks', a.id = t.id
       PROVE  a.chunk = t.chunk /\ a.file = reads'[t.read].item[2]
  <2>1. CASE a \in asked /\ t \in kept
    <3>1. a.chunk = t.chunk /\ a.file = reads[t.read].item[2]
      BY <1>11, <2>1 DEF Tasks
    <3> QED BY <1>7, <2>1, <3>1
  <2>2. CASE a \in news /\ t \in new
    BY <1>2, <1>3, <1>11, <2>2
  <2>3. CASE a \in asked /\ t \in new
    <3>1. a.id \in 0..(nextId - 1)
      BY <2>3 DEF Tasks
    <3> QED BY <1>2, <1>6, <1>11, <2>3, <3>1
  <2>4. CASE a \in news /\ t \in kept
    BY <1>3, <1>6, <1>7, <1>11, <2>4
  <2> QED BY <1>1, <2>1, <2>2, <2>3, <2>4
<1>12. Tasks'
  BY <1>8, <1>9, <1>10, <1>11 DEF Tasks
<1>13. \A t \in tasks' : t \in kept \/ t.read = r
  BY <1>1, <1>2
<1> QED BY <1>1, <1>6, <1>12, <1>13

LEMMA FetchKeeps ==
  ASSUME Chunks \in Nat, Parallel \in Nat, Downloading, NEW r \in Reads, L!Fetch(r) PROVE Downloading'
<1> DEFINE item == reads[r].item
           n == IF Chunks < Parallel THEN Chunks ELSE Parallel
<1>1. /\ reads[r].phase = "waits" /\ item \notin fetched /\ item[1] = list
      /\ L!Phase(r, "fetches") /\ disk' = [disk EXCEPT ![item] = L!Empty]
      /\ L!Ask(r, tasks, 1, n, asked, pending)
      /\ \A s \in Reads : reads[s].phase = "fetches" => reads[s].item # item
      /\ UNCHANGED <<copied, list, lists, jobs, live, registry, fetched>>
  BY DEF L!Fetch, L!place, L!Locked
<1>2. n \in Nat /\ n <= Chunks
  OBVIOUS
<1> HIDE DEF n
<1>3. /\ DOMAIN reads' = Reads /\ DOMAIN reads'[r] = {"phase", "item"}
      /\ reads'[r].phase = "fetches" /\ reads'[r].item = item
      /\ \A s \in Reads : s # r => reads'[s] = reads[s]
  BY <1>1, PhaseOf DEF Downloading, Phases
<1>4. \A t \in tasks : t.read # r
  BY <1>1 DEF Downloading, Tasks
<1>5. /\ Tasks' /\ nextId' \in Nat
      /\ DOMAIN planned' = Reads /\ planned'[r] = n
      /\ \A s \in Reads : s # r => planned'[s] = planned[s]
      /\ tasks \subseteq tasks'
      /\ \A c \in 1..n : \E t \in tasks' : t.read = r /\ t.chunk = c
  <2>1. /\ Tasks' /\ nextId' \in Nat
        /\ DOMAIN planned' = Reads /\ planned'[r] = 1 + n - 1
        /\ \A s \in Reads : s # r => planned'[s] = planned[s]
        /\ tasks \subseteq tasks'
        /\ \A c \in 1..(1 + n - 1) : \E t \in tasks' : t.read = r /\ t.chunk = c
    <3>1. Shaped /\ Tasks
      BY DEF Downloading
    <3>2. /\ 1 \in Nat \ {0} /\ tasks \subseteq tasks /\ asked \subseteq asked
          /\ \A t \in tasks : t.read = r => t.chunk < 1
      BY <1>4
    <3>3. L!Ask(r, tasks, 1, n, asked, pending) /\ reads'[r].phase = "fetches"
          /\ reads'[r].item = reads[r].item /\ \A s \in Reads : s # r => reads'[s] = reads[s]
      BY <1>1, <1>3
    <3>4. Tasks' /\ nextId' \in Nat /\ DOMAIN planned' = Reads
      BY <1>2, <3>1, <3>2, <3>3, AskAdds
    <3>5. planned'[r] = 1 + n - 1 /\ \A s \in Reads : s # r => planned'[s] = planned[s]
      BY <1>2, <3>1, <3>2, <3>3, AskAdds
    <3>6. tasks \subseteq tasks'
      BY <1>2, <3>1, <3>2, <3>3, AskAdds
    <3>7. \A c \in Int : 1 <= c /\ c < 1 + n => \E t \in tasks' : t.read = r /\ t.chunk = c
      BY <1>2, <3>2, <3>3, AskCovers
    <3>8. \A c \in 1..(1 + n - 1) : \E t \in tasks' : t.read = r /\ t.chunk = c
      BY <1>2, <3>7
    <3> QED BY <3>4, <3>5, <3>6, <3>8
  <2>2. 1 + n - 1 = n
    BY <1>2
  <2> QED BY <2>1, <2>2
<1>6. item \in L!Items
  BY <1>1 DEF Downloading, Apart
<1>7. /\ DOMAIN disk' = L!Items /\ disk'[item] = L!Empty
      /\ \A i \in L!Items : i # item => disk'[i] = disk[i]
  BY <1>1, <1>6 DEF Downloading, Shaped
<1> HIDE DEF item
<1>8. Shaped'
  <2>1. ASSUME NEW i \in L!Items
        PROVE  disk'[i] = L!NoFile \/ disk'[i] = [c \in 1..Chunks |-> disk'[i][c]]
    <3>1. CASE i = item
      BY <1>7, <3>1 DEF L!Empty
    <3>2. CASE i # item
      BY <1>7, <3>2 DEF Downloading, Shaped
    <3> QED BY <3>1, <3>2
  <2>2. \A s \in Reads : planned'[s] \in Nat
    BY <1>2, <1>5 DEF Downloading, Shaped
  <2> QED BY <1>1, <1>3, <1>5, <1>7, <2>1, <2>2 DEF Downloading, Shaped, Phases
<1>9. Apart'
  <2>1. reads[r].item = item
    BY DEF item
  <2> QED BY <1>1, <1>3, <2>1 DEF Downloading, Apart
<1>10. Gone'
  <2>1. ASSUME NEW i \in L!Items, i = item PROVE L!Locked(i)'
    BY <1>3, <2>1 DEF L!Locked
  <2>2. ASSUME NEW i \in L!Items, L!Locked(i) PROVE L!Locked(i)'
    BY <1>1, <1>3, <2>2 DEF L!Locked
  <2>3. ASSUME NEW i \in L!Items
        PROVE  /\ i[1] # list' => disk'[i] = L!NoFile
               /\ i \notin registry' => disk'[i] = L!NoFile \/ L!Locked(i)' \/ i \in fetched'
    <3>1. CASE i = item
      BY <1>1, <2>1, <3>1
    <3>2. CASE i # item
      BY <1>1, <1>7, <2>2, <3>2 DEF Downloading, Gone
    <3> QED BY <3>1, <3>2
  <2> QED BY <2>3 DEF Gone
<1>12. Complete'
  BY <1>1, <1>3, <1>7 DEF Downloading, Complete
<1>13. Progress'
  <2>1. ASSUME NEW s \in Reads, s # r, reads[s].phase = "fetches" PROVE disk'[reads[s].item] = disk[reads[s].item]
    <3>1. reads[s].item # item /\ reads[s].item \in L!Items
      BY <1>1, <2>1 DEF Downloading, Apart, item
    <3> QED BY <1>7, <3>1
  <2>2. ASSUME NEW s \in Reads, s # r, reads'[s].phase = "fetches"
        PROVE  /\ planned'[s] <= Chunks
               /\ \/ disk'[reads'[s].item] = L!NoFile
                  \/ \A c \in 1..planned'[s] :
                        \/ \E t \in tasks' : t.read = s /\ t.chunk = c
                        \/ Bytes(copied', reads'[s].item, c, disk'[reads'[s].item][c])
    BY <1>1, <1>3, <1>5, <2>1, <2>2 DEF Downloading, Progress
  <2>3. planned'[r] <= Chunks /\ \A c \in 1..planned'[r] : \E t \in tasks' : t.read = r /\ t.chunk = c
    BY <1>2, <1>5
  <2> QED BY <2>2, <2>3 DEF Progress
<1> QED BY <1>5, <1>8, <1>9, <1>10, <1>12, <1>13 DEF Downloading

\* A read whose download failed leaves neither a file nor a task behind.
LEMMA FailedKeeps ==
  ASSUME Downloading, NEW r \in Reads, L!Failed(r), reads[r].phase \in {"waits", "fetches"},
         \A s \in Reads : s # r /\ reads[s].phase = "fetches" => reads[s].item # reads[r].item,
         tasks' = {u \in tasks : u.read # r}, asked' \subseteq asked,
         UNCHANGED <<copied, list, lists, jobs, live, fetched, planned, nextId>>
  PROVE  Downloading' /\ disk'[reads'[r].item] = L!NoFile
<1> DEFINE item == reads[r].item
<1>1. /\ DOMAIN reads' = Reads /\ DOMAIN reads'[r] = {"phase", "item"}
      /\ reads'[r].phase = "answered" /\ reads'[r].item = item
      /\ \A s \in Reads : s # r => reads'[s] = reads[s]
  BY PhaseOf DEF L!Failed, Downloading, Phases
<1>2. item \in L!Items /\ \A s \in Reads : s # r /\ reads[s].phase = "fetches" => reads[s].item # item
  BY DEF Downloading, Apart
<1>3. disk' = [disk EXCEPT ![item] = L!NoFile] /\ registry' = registry \ {item}
  BY DEF L!Failed, L!Discarded
<1>4. /\ DOMAIN disk' = L!Items /\ disk'[item] = L!NoFile
      /\ \A i \in L!Items : i # item => disk'[i] = disk[i]
  BY <1>2, <1>3 DEF Downloading, Shaped
<1>5. reads[r].item = item
  OBVIOUS
<1> HIDE DEF item
<1>6. Shaped'
  <2>1. ASSUME NEW i \in L!Items
        PROVE  disk'[i] = L!NoFile \/ disk'[i] = [c \in 1..Chunks |-> disk'[i][c]]
    BY <1>4 DEF Downloading, Shaped
  <2> QED BY <1>1, <1>4, <2>1 DEF Downloading, Shaped, Phases
<1>7. Apart'
  BY <1>1, <1>5 DEF Downloading, Apart
<1>8. Gone'
  <2>1. ASSUME NEW i \in L!Items, i # item, L!Locked(i) PROVE L!Locked(i)'
    BY <1>1, <1>5, <2>1 DEF L!Locked
  <2>2. ASSUME NEW i \in L!Items
        PROVE  /\ i[1] # list' => disk'[i] = L!NoFile
               /\ i \notin registry' => disk'[i] = L!NoFile \/ L!Locked(i)' \/ i \in fetched'
    <3>1. CASE i = item
      BY <1>4, <3>1
    <3>2. CASE i # item
      BY <1>3, <1>4, <2>1, <3>2 DEF Downloading, Gone
    <3> QED BY <3>1, <3>2
  <2> QED BY <2>2 DEF Gone
<1>9. Complete'
  BY <1>1, <1>4 DEF Downloading, Complete, Held
<1>10. Tasks'
  BY <1>1 DEF Downloading, Tasks
<1>11. Progress'
  <2>1. ASSUME NEW s \in Reads, reads'[s].phase = "fetches"
        PROVE  /\ s # r /\ reads'[s] = reads[s] /\ disk'[reads[s].item] = disk[reads[s].item]
               /\ planned[s] <= Chunks
    <3>1. s # r /\ reads'[s] = reads[s]
      BY <1>1, <2>1
    <3>2. reads[s].item \in L!Items /\ reads[s].item # item /\ planned[s] <= Chunks
      BY <1>2, <2>1, <3>1 DEF Downloading, Apart, Progress
    <3> QED BY <1>4, <3>1, <3>2
  <2>2. ASSUME NEW s \in Reads, reads'[s].phase = "fetches"
        PROVE  \/ disk'[reads'[s].item] = L!NoFile
               \/ \A c \in 1..planned'[s] :
                     \/ \E t \in tasks' : t.read = s /\ t.chunk = c
                     \/ Bytes(copied', reads'[s].item, c, disk'[reads'[s].item][c])
    <3>1. s # r /\ reads'[s] = reads[s] /\ disk'[reads[s].item] = disk[reads[s].item]
      BY <2>1, <2>2
    <3>2. \A t \in tasks : t.read = s => t \in tasks'
      BY <3>1
    <3>3. \/ disk[reads[s].item] = L!NoFile
          \/ \A c \in 1..planned[s] :
                \/ \E t \in tasks : t.read = s /\ t.chunk = c
                \/ Bytes(copied, reads[s].item, c, disk[reads[s].item][c])
      BY <2>2, <3>1 DEF Downloading, Progress
    <3> QED BY <3>1, <3>2, <3>3
  <2> QED BY <2>1, <2>2 DEF Progress
<1> QED BY <1>1, <1>4, <1>6, <1>7, <1>8, <1>9, <1>10, <1>11 DEF Downloading

\* What the answer of a task's own chunk does to the disk, and to no other file.
LEMMA WrittenIs ==
  ASSUME Chunks \in Nat, Downloading, NEW t \in tasks, NEW bytes, disk' = L!Written(t, bytes)
  PROVE  /\ DOMAIN disk' = L!Items
         /\ reads[t.read].item \in L!Items /\ t.chunk \in 1..Chunks
         /\ \A i \in L!Items : i # reads[t.read].item => disk'[i] = disk[i]
         /\ \A i \in L!Items : disk[i] = L!NoFile => disk'[i] = L!NoFile
         /\ LET item == reads[t.read].item
            IN  disk[item] # L!NoFile =>
                  disk'[item] = [c \in 1..Chunks |-> IF c = t.chunk THEN bytes ELSE disk[item][c]]
<1> DEFINE item == reads[t.read].item
<1>1. item \in L!Items
  BY DEF Downloading, Tasks, Apart
<1>2. t.chunk \in 1..Chunks
  <2>1. t.chunk \in 1..planned[t.read] /\ planned[t.read] <= Chunks /\ planned[t.read] \in Nat
    BY DEF Downloading, Tasks, Progress, Shaped
  <2>2. t.chunk \in Nat /\ t.chunk >= 1 /\ t.chunk <= planned[t.read]
    BY <2>1
  <2> QED BY <2>1, <2>2
<1>3. DOMAIN disk = L!Items
  BY DEF Downloading, Shaped
<1>4. CASE disk[item] = L!NoFile
  BY <1>1, <1>2, <1>3, <1>4 DEF L!Written
<1>5. CASE disk[item] # L!NoFile
  <2>1. disk' = [disk EXCEPT ![item][t.chunk] = bytes]
    BY <1>5 DEF L!Written
  <2>2. disk[item] = [c \in 1..Chunks |-> disk[item][c]]
    BY <1>1, <1>5 DEF Downloading, Shaped
  <2>3. DOMAIN disk[item] = 1..Chunks
    BY <2>2
  <2> HIDE DEF item
  <2>4. disk'[item] = [disk[item] EXCEPT ![t.chunk] = bytes]
    BY <1>1, <1>3, <2>1
  <2>5. [disk[item] EXCEPT ![t.chunk] = bytes]
          = [c \in 1..Chunks |-> IF c = t.chunk THEN bytes ELSE disk[item][c]]
    BY <2>3
  <2>6. /\ DOMAIN disk' = L!Items
        /\ \A i \in L!Items : i # item => disk'[i] = disk[i]
    BY <1>3, <2>1
  <2> QED BY <1>1, <1>2, <1>5, <2>4, <2>5, <2>6 DEF item
<1> QED BY <1>4, <1>5

\* The bytes of a chunk in the file of the read that asked for them.
LEMMA WritingKeeps ==
  ASSUME Chunks \in Nat, Downloading, NEW t \in tasks, NEW much \in {"all", "some"},
         disk' = L!Written(t, <<copied, reads[t.read].item[2], t.chunk, much>>)
  PROVE  LET r == t.read
             item == reads[r].item
         IN  /\ DOMAIN disk' = L!Items /\ item \in L!Items /\ r \in Reads
             /\ \A i \in L!Items : disk'[i] = L!NoFile \/ disk'[i] = [c \in 1..Chunks |-> disk'[i][c]]
             /\ \A i \in L!Items : disk[i] = L!NoFile => disk'[i] = L!NoFile
             /\ \A i \in L!Items : i # item => disk'[i] = disk[i]
             /\ disk'[item] # L!NoFile =>
                  \A c \in 1..planned[r] :
                     \/ \E u \in tasks \ {t} : u.read = r /\ u.chunk = c
                     \/ Bytes(copied, item, c, disk'[item][c])
<1> DEFINE r == t.read
           item == reads[r].item
           bytes == <<copied, item[2], t.chunk, much>>
<1>1. /\ DOMAIN disk' = L!Items
      /\ item \in L!Items /\ t.chunk \in 1..Chunks
      /\ \A i \in L!Items : i # item => disk'[i] = disk[i]
      /\ \A i \in L!Items : disk[i] = L!NoFile => disk'[i] = L!NoFile
      /\ disk[item] # L!NoFile =>
                  disk'[item] = [c \in 1..Chunks |-> IF c = t.chunk THEN bytes ELSE disk[item][c]]
  BY WrittenIs
<1>2. r \in Reads /\ reads[r].phase = "fetches"
  BY DEF Downloading, Tasks
<1>3. planned[r] <= Chunks /\ planned[r] \in Nat
  BY <1>2 DEF Downloading, Progress, Shaped
<1>6. Bytes(copied, item, t.chunk, bytes)
  <2>1. copied \in Nat /\ lists \in Nat /\ lists <= copied
    BY DownloadConstants DEF Downloading, Shaped
  <2>2. item[1] \in Nat /\ item[1] <= lists
    BY <1>1, <1>2, ItemsOf DEF Downloading, Apart
  <2>3. copied \in item[1]..copied
    BY <2>1, <2>2
  <2> QED BY <2>3 DEF Bytes
<1> HIDE DEF item, r, bytes
<1>4. ASSUME NEW i \in L!Items
      PROVE  disk'[i] = L!NoFile \/ disk'[i] = [c \in 1..Chunks |-> disk'[i][c]]
  <2>1. CASE i # item
    BY <1>1, <2>1 DEF Downloading, Shaped
  <2>2. CASE i = item
    BY <1>1, <2>2
  <2> QED BY <2>1, <2>2
<1>5. ASSUME disk'[item] # L!NoFile, NEW c \in 1..planned[r]
      PROVE  \/ \E u \in tasks \ {t} : u.read = r /\ u.chunk = c
             \/ Bytes(copied, item, c, disk'[item][c])
  <2>1. /\ disk[item] # L!NoFile
        /\ disk'[item] = [x \in 1..Chunks |-> IF x = t.chunk THEN bytes ELSE disk[item][x]]
    BY <1>1, <1>5
  <2>2. c \in 1..Chunks
    BY <1>3
  <2>3. CASE c = t.chunk
    BY <1>6, <2>1, <2>2, <2>3
  <2>4. CASE c # t.chunk
    <3>1. disk'[item][c] = disk[item][c]
      BY <2>1, <2>2, <2>4
    <3>2. (\E u \in tasks : u.read = r /\ u.chunk = c) \/ Bytes(copied, item, c, disk[item][c])
      BY <1>2, <2>1 DEF Downloading, Progress, item, r
    <3> QED BY <2>4, <3>1, <3>2
  <2> QED BY <2>3, <2>4
<1> QED BY <1>1, <1>2, <1>4, <1>5 DEF item, r

LEMMA AnsweredKeeps ==
  ASSUME Chunks \in Nat, Downloading, NEW a \in asked, NEW much \in {"all", "some"},
         L!Answered(a, <<copied, a.file, a.chunk, much>>)
  PROVE  /\ Downloading'
         /\ \A r \in Reads : reads'[r].phase = "answered" /\ reads[r].phase # "answered"
                                => reads'[r].item \in fetched'
<1>1. PICK t \in L!Asker(a.id) :
        /\ disk' = L!Written(t, <<copied, a.file, a.chunk, much>>)
        /\ \/ /\ L!Finished(t)
              /\ fetched' = fetched \cup {reads[t.read].item}
              /\ L!Phase(t.read, "answered")
              /\ tasks' = tasks \ {t}
              /\ asked' = asked \ {a} /\ pending' = pending \ {a.id}
              /\ UNCHANGED <<planned, nextId>>
           \/ /\ ~L!Finished(t)
              /\ L!Ask(t.read, tasks \ {t}, planned[t.read] + 1,
                       IF planned[t.read] < Chunks THEN 1 ELSE 0, asked \ {a}, pending \ {a.id})
              /\ UNCHANGED <<fetched, reads>>
  BY DEF L!Answered
<1> DEFINE r == t.read
           item == reads[r].item
<1>2. UNCHANGED <<copied, list, lists, jobs, live, registry>>
  BY DEF L!Answered, L!place
<1>3. t \in tasks /\ a.file = item[2] /\ a.chunk = t.chunk
  BY <1>1 DEF L!Asker, Downloading, Tasks
<1>4. disk' = L!Written(t, <<copied, item[2], t.chunk, much>>)
  BY <1>1, <1>3
<1>5. /\ DOMAIN disk' = L!Items /\ item \in L!Items /\ r \in Reads
      /\ \A i \in L!Items : disk'[i] = L!NoFile \/ disk'[i] = [c \in 1..Chunks |-> disk'[i][c]]
      /\ \A i \in L!Items : disk[i] = L!NoFile => disk'[i] = L!NoFile
      /\ \A i \in L!Items : i # item => disk'[i] = disk[i]
      /\ disk'[item] # L!NoFile =>
           \A c \in 1..planned[r] :
              \/ \E u \in tasks \ {t} : u.read = r /\ u.chunk = c
              \/ Bytes(copied, item, c, disk'[item][c])
  BY <1>3, <1>4, WritingKeeps
<1>6. /\ reads[r].phase = "fetches" /\ item \notin fetched /\ item[1] <= lists
      /\ \A s \in Reads : s # r /\ reads[s].phase = "fetches" => reads[s].item # item
      /\ planned[r] <= Chunks /\ planned[r] \in Nat
  BY <1>3, <1>5 DEF Downloading, Tasks, Complete, Apart, Progress, Shaped
<1>7. ASSUME fetched \subseteq fetched',
             \A i \in L!Items : L!Locked(i) => L!Locked(i)' \/ i \in fetched'
      PROVE  Gone'
  BY <1>2, <1>5, <1>7 DEF Downloading, Gone
<1>8. \A i \in fetched : i \in L!Items /\ i # item /\ disk'[i] = disk[i]
  BY <1>5, <1>6 DEF Downloading, Complete
<1>9. ASSUME L!Finished(t), fetched' = fetched \cup {item}, L!Phase(r, "answered"), tasks' = tasks \ {t},
             asked' = asked \ {a}, UNCHANGED <<planned, nextId>>
      PROVE  Downloading' /\ \A s \in Reads : reads'[s].phase = "answered" /\ reads[s].phase # "answered"
                                => reads'[s].item \in fetched'
  <2>1. /\ DOMAIN reads' = Reads /\ DOMAIN reads'[r] = {"phase", "item"}
        /\ reads'[r].phase = "answered" /\ reads'[r].item = item
        /\ \A s \in Reads : s # r => reads'[s] = reads[s]
    BY <1>5, <1>9, PhaseOf DEF Downloading, Phases
  <2>2. planned[r] = Chunks /\ \A u \in tasks : u.read = r => u = t
    BY <1>9 DEF L!Finished
  <2>3. Held(copied, item, disk'[item])
    BY <1>5, <2>2 DEF Held
  <2>4. reads[r].item = item
    OBVIOUS
  <2> HIDE DEF item, r
  <2>5. Shaped'
    BY <1>2, <1>5, <1>9, <2>1 DEF Downloading, Shaped, Phases
  <2>6. Apart'
    BY <1>2, <1>5, <1>6, <2>1, <2>4 DEF Downloading, Apart
  <2>8. Complete'
    <3>1. \A i \in fetched' : i \in L!Items /\ i[1] <= lists /\ Held(copied, i, disk'[i])
      BY <1>5, <1>6, <1>8, <1>9, <2>3 DEF Downloading, Complete
    <3>2. ASSUME NEW s \in Reads, reads'[s].phase = "fetches" PROVE reads'[s].item \notin fetched'
      <4>1. s # r /\ reads'[s] = reads[s]
        BY <2>1, <3>2
      <4> QED BY <1>6, <1>9, <3>2, <4>1 DEF Downloading, Complete
    <3> QED BY <1>2, <3>1, <3>2 DEF Complete
  <2>11. Gone'
    <3>1. \A i \in L!Items : L!Locked(i) => L!Locked(i)' \/ i \in fetched'
      BY <1>9, <2>1, <2>4 DEF L!Locked
    <3> QED BY <1>7, <1>9, <3>1
  <2>9. Tasks'
    <3>1. \A u \in tasks' : u \in tasks /\ u.read # r
      BY <1>9, <2>2 
    <3> QED BY <1>9, <2>1, <3>1 DEF Downloading, Tasks
  <2>10. Progress'
    <3>1. ASSUME NEW s \in Reads, reads'[s].phase = "fetches"
          PROVE  /\ s # r /\ reads'[s] = reads[s] /\ disk'[reads[s].item] = disk[reads[s].item]
                 /\ \A u \in tasks : u.read = s => u \in tasks'
      <4>1. s # r /\ reads'[s] = reads[s]
        BY <2>1, <3>1
      <4>2. reads[s].item \in L!Items /\ reads[s].item # item
        BY <1>6, <3>1, <4>1 DEF Downloading, Apart
      <4> QED BY <1>5, <1>9, <4>1, <4>2 DEF r
    <3>2. ASSUME NEW s \in Reads, reads'[s].phase = "fetches"
          PROVE  /\ planned'[s] <= Chunks
                 /\ \/ disk'[reads'[s].item] = L!NoFile
                    \/ \A c \in 1..planned'[s] :
                          \/ \E u \in tasks' : u.read = s /\ u.chunk = c
                          \/ Bytes(copied', reads'[s].item, c, disk'[reads'[s].item][c])
      <4>1. /\ s # r /\ reads'[s] = reads[s] /\ disk'[reads[s].item] = disk[reads[s].item]
            /\ \A u \in tasks : u.read = s => u \in tasks'
        BY <3>1, <3>2
      <4>2. /\ planned[s] <= Chunks
            /\ \/ disk[reads[s].item] = L!NoFile
               \/ \A c \in 1..planned[s] :
                     \/ \E u \in tasks : u.read = s /\ u.chunk = c
                     \/ Bytes(copied, reads[s].item, c, disk[reads[s].item][c])
        BY <3>2, <4>1 DEF Downloading, Progress
      <4> QED BY <1>2, <1>9, <4>1, <4>2
    <3> QED BY <3>2 DEF Progress
  <2> QED BY <1>9, <2>1, <2>5, <2>6, <2>11, <2>8, <2>9, <2>10 DEF Downloading
<1>10. ASSUME L!Ask(r, tasks \ {t}, planned[r] + 1, IF planned[r] < Chunks THEN 1 ELSE 0,
                    asked \ {a}, pending \ {a.id}),
              UNCHANGED <<fetched, reads>>
       PROVE  Downloading'
  <2> DEFINE n == IF planned[r] < Chunks THEN 1 ELSE 0
             kept == tasks \ {t}
  <2>1. /\ Shaped /\ Tasks /\ planned[r] + 1 \in Nat \ {0} /\ n \in Nat
        /\ kept \subseteq tasks /\ asked \ {a} \subseteq asked
        /\ \A u \in kept : u.read = r => u.chunk < planned[r] + 1
    BY <1>6 DEF Downloading, Tasks
  <2>2. /\ L!Ask(r, kept, planned[r] + 1, n, asked \ {a}, pending \ {a.id})
        /\ reads'[r].phase = "fetches" /\ reads'[r].item = reads[r].item
        /\ \A s \in Reads : s # r => reads'[s] = reads[s]
    BY <1>6, <1>10
  <2> HIDE DEF n, kept, item, r
  <2>3. Tasks' /\ nextId' \in Nat /\ DOMAIN planned' = Reads
    BY <1>5, <2>1, <2>2, AskAdds
  <2>4. planned'[r] = planned[r] + 1 + n - 1 /\ \A s \in Reads : s # r => planned'[s] = planned[s]
    <3>1. planned' = [planned EXCEPT ![r] = planned[r] + 1 + n - 1]
      BY <2>2 DEF L!Ask
    <3>2. DOMAIN planned = Reads
      BY <2>1 DEF Shaped
    <3> QED BY <1>5, <3>1, <3>2
  <2>5. kept \subseteq tasks'
    BY <1>5, <2>1, <2>2, AskAdds
  <2>6. planned'[r] \in Nat /\ planned'[r] <= Chunks
    BY <1>6, <2>4 DEF n
  <2>7. Shaped'
    <3>1. \A s \in Reads : planned'[s] \in Nat
      BY <2>4, <2>6 DEF Downloading, Shaped
    <3> QED BY <1>2, <1>5, <1>10, <2>3, <3>1 DEF Downloading, Shaped
  <2>8. Apart'
    BY <1>2, <1>10 DEF Downloading, Apart
  <2>9. Complete'
    BY <1>2, <1>8, <1>10 DEF Downloading, Complete
  <2>10. Progress'
    <3>1. ASSUME NEW s \in Reads, reads[s].phase = "fetches", s # r
          PROVE  /\ disk'[reads[s].item] = disk[reads[s].item]
                 /\ \A u \in tasks : u.read = s => u \in tasks'
      <4>1. reads[s].item \in L!Items /\ reads[s].item # item
        BY <1>6, <3>1 DEF Downloading, Apart
      <4> QED BY <1>5, <2>5, <3>1, <4>1 DEF r, kept
    <3>2. ASSUME NEW s \in Reads, reads'[s].phase = "fetches", s # r
          PROVE  /\ planned'[s] <= Chunks
                 /\ \/ disk'[reads'[s].item] = L!NoFile
                    \/ \A c \in 1..planned'[s] :
                          \/ \E u \in tasks' : u.read = s /\ u.chunk = c
                          \/ Bytes(copied', reads'[s].item, c, disk'[reads'[s].item][c])
      <4>1. reads[s].phase = "fetches" /\ reads'[s] = reads[s] /\ planned'[s] = planned[s]
        BY <1>10, <2>4, <3>2
      <4>2. /\ disk'[reads[s].item] = disk[reads[s].item]
            /\ \A u \in tasks : u.read = s => u \in tasks'
        BY <3>1, <3>2, <4>1
      <4>3. /\ planned[s] <= Chunks
            /\ \/ disk[reads[s].item] = L!NoFile
               \/ \A c \in 1..planned[s] :
                     \/ \E u \in tasks : u.read = s /\ u.chunk = c
                     \/ Bytes(copied, reads[s].item, c, disk[reads[s].item][c])
        BY <4>1 DEF Downloading, Progress
      <4> QED BY <1>2, <4>1, <4>2, <4>3
    <3>3. ASSUME disk'[item] # L!NoFile, NEW c \in 1..planned'[r]
          PROVE  \/ \E u \in tasks' : u.read = r /\ u.chunk = c
                 \/ Bytes(copied, item, c, disk'[item][c])
      <4>1. CASE c <= planned[r]
        <5>1. c \in 1..planned[r]
          BY <1>6, <2>6, <4>1
        <5> QED BY <1>5, <2>5, <3>3, <5>1 DEF kept
      <4>2. CASE ~(c <= planned[r])
        <5>1. c \in Int /\ planned[r] + 1 <= c /\ c < planned[r] + 1 + n /\ planned[r] + 1 \in Nat
          BY <1>6, <2>4, <2>6, <4>2 DEF n
        <5>2. r \in Reads /\ n \in Nat
          BY <1>5, <2>1
        <5> QED BY <2>2, <5>1, <5>2, AskCovers
      <4> QED BY <4>1, <4>2
    <3>4. reads'[r].item = item
      BY <2>2 DEF item
    <3> QED BY <1>2, <2>6, <3>2, <3>3, <3>4 DEF Progress
  <2>11. Gone'
    BY <1>7, <1>10 DEF L!Locked
  <2> QED BY <2>3, <2>7, <2>8, <2>9, <2>10, <2>11 DEF Downloading
<1> QED BY <1>1, <1>9, <1>10

LEMMA StrayKeeps == ASSUME Downloading, NEW a \in asked, L!Stray(a) PROVE Downloading'
<1>1. /\ asked' = asked \ {a}
      /\ UNCHANGED <<copied, list, lists, jobs, live, registry, fetched, disk, reads, tasks, planned, nextId>>
  BY DEF L!Stray, L!place
<1>2. Shaped' /\ Apart' /\ Gone'
  BY <1>1 DEF Downloading, Shaped, Apart, Gone, L!Locked
<1>3. Complete' /\ Tasks' /\ Progress'
  BY <1>1 DEF Downloading, Complete, Tasks, Progress
<1> QED BY <1>2, <1>3 DEF Downloading

\* A step of the downloads keeps what they rest on, and hands over a whole file or none.
LEMMA DownloadKeeps ==
  ASSUME MaxLists \in Nat, Chunks \in Nat, Parallel \in Nat, Downloading, L!Next
  PROVE  /\ Downloading'
         /\ \A r \in Reads : reads'[r].phase = "answered" /\ reads[r].phase # "answered" =>
               \/ Held(copied', reads'[r].item, disk'[reads'[r].item])
               \/ L!FetchedAnew(reads[r].item)'
<1> DEFINE HandedOver ==
             \A r \in Reads : reads'[r].phase = "answered" /\ reads[r].phase # "answered" =>
               \/ Held(copied', reads'[r].item, disk'[reads'[r].item])
               \/ L!FetchedAnew(reads[r].item)'
<1>0. CASE L!ClientCopies
  <2>1. UNCHANGED reads
    BY <1>0 DEF L!ClientCopies
  <2> QED BY <1>0, <2>1, CopyKeeps
<1>1. CASE L!OnRemoteFileList
  <2>1. UNCHANGED reads
    BY <1>1 DEF L!OnRemoteFileList
  <2> QED BY <1>1, <2>1, ListKeeps
<1>2. CASE L!Disconnect
  <2>1. UNCHANGED reads
    BY <1>2 DEF L!Disconnect
  <2> QED BY <1>2, <2>1, DisconnectKeeps
<1>3. CASE L!Reconnect \/ \E l \in jobs : L!AddPresenters(l)
  <2>1. /\ live' \cup jobs' \subseteq live \cup jobs
        /\ UNCHANGED <<copied, list, lists, registry, fetched, disk, reads, tasks, planned, nextId, asked>>
    BY <1>3 DEF L!Reconnect, L!AddPresenters, L!place, L!router
  <2>2. Shaped' /\ Apart' /\ Gone'
    BY <2>1 DEF Downloading, Shaped, Apart, Gone, L!Locked
  <2>3. Complete' /\ Tasks' /\ Progress'
    BY <2>1 DEF Downloading, Complete, Tasks, Progress
  <2> QED BY <2>1, <2>2, <2>3 DEF Downloading
<1>4. ASSUME NEW r \in Reads, NEW item \in L!Items, L!Relinquish(r, item)
      PROVE  Downloading' /\ HandedOver
  <2>1. /\ reads' = [reads EXCEPT ![r] =
              [phase |-> IF item \in registry THEN "waits" ELSE "answered", item |-> item]]
        /\ UNCHANGED disk
    BY <1>4 DEF L!Relinquish
  <2>2. /\ reads'[r].item = item /\ (reads'[r].phase = "answered" => item \notin registry)
        /\ \A s \in Reads : s # r => reads'[s] = reads[s]
    BY <2>1 DEF Downloading, Shaped
  <2>3. reads[r].phase = "idle" /\ UNCHANGED <<registry, copied>>
    BY <1>4 DEF L!Relinquish
  <2>5. L!Locked(item) => L!Locked(item)'
    BY <2>2, <2>3 DEF L!Locked
  <2>6. item \notin registry => Held(copied', item, disk'[item]) \/ (L!Locked(item)' /\ item \notin registry')
    BY <2>1, <2>3, <2>5 DEF Downloading, Gone, Complete, Held
  <2>4. HandedOver
    BY <2>2, <2>6 DEF L!FetchedAnew, L!Locked
  <2> QED BY <1>4, <2>4, RelinquishKeeps
<1>5. ASSUME NEW r \in Reads, L!AlreadyFetched(r) \/ L!Copied(r)
      PROVE  Downloading' /\ HandedOver
  <2>1. PICK phase \in {"idle", "answered"} : L!Phase(r, phase)
    BY <1>5 DEF L!AlreadyFetched, L!Copied
  <2>2. /\ reads[r].phase \in {"waits", "answered"}
        /\ reads[r].phase # "answered" => reads[r].item \in fetched
        /\ UNCHANGED <<copied, list, lists, jobs, live, registry, fetched, disk, tasks, planned, nextId, asked>>
    BY <1>5 DEF L!AlreadyFetched, L!Copied, L!place, L!router
  <2>3. reads'[r].item = reads[r].item /\ \A s \in Reads : s # r => reads'[s] = reads[s]
    BY <2>1, PhaseOf DEF Downloading, Phases
  <2>4. HandedOver
    BY <2>2, <2>3 DEF Downloading, Complete
  <2>5. Downloading'
    BY <2>1, <2>2, PhaseKeeps
  <2> QED BY <2>4, <2>5
<1>6. ASSUME NEW r \in Reads, L!Fetch(r) PROVE Downloading' /\ HandedOver
  <2>1. L!Phase(r, "fetches")
    BY <1>6 DEF L!Fetch
  <2>2. reads'[r].phase = "fetches" /\ \A s \in Reads : s # r => reads'[s] = reads[s]
    BY <2>1, PhaseOf DEF Downloading, Phases
  <2> QED BY <1>6, <2>2, FetchKeeps
<1>7. ASSUME NEW r \in Reads, L!Failed(r), reads[r].phase \in {"waits", "fetches"},
             \A s \in Reads : s # r /\ reads[s].phase = "fetches" => reads[s].item # reads[r].item,
             tasks' = {u \in tasks : u.read # r}, asked' \subseteq asked,
             UNCHANGED <<copied, list, lists, jobs, live, fetched, planned, nextId>>
      PROVE  Downloading' /\ HandedOver
  <2>1. Downloading' /\ disk'[reads'[r].item] = L!NoFile
    BY <1>7, FailedKeeps
  <2>2. \A s \in Reads : s # r => reads'[s] = reads[s]
    BY <1>7, PhaseOf DEF Downloading, Phases, L!Failed
  <2> QED BY <2>1, <2>2 DEF Held
<1>8. ASSUME NEW r \in Reads, L!FetchFails(r) PROVE Downloading' /\ HandedOver
  <2>1. /\ reads[r].phase = "waits" /\ L!Failed(r)
        /\ UNCHANGED <<copied, list, lists, jobs, live, fetched, tasks, planned, nextId, asked>>
    BY <1>8 DEF L!FetchFails, L!place, L!router
  <2>2. tasks' = {u \in tasks : u.read # r}
    BY <2>1 DEF Downloading, Tasks
  <2>3. \A s \in Reads : s # r /\ reads[s].phase = "fetches" => reads[s].item # reads[r].item
    BY <1>8 DEF L!FetchFails, L!Locked
  <2> QED BY <1>7, <2>1, <2>2, <2>3
<1>9. ASSUME NEW a \in asked, L!Deliver(a) PROVE Downloading' /\ HandedOver
  <2>1. CASE L!Stray(a)
    <3>1. UNCHANGED reads
      BY <2>1 DEF L!Stray
    <3> QED BY <2>1, <3>1, StrayKeeps
  <2>2. CASE L!Refused(a)
    <3>1. PICK t \in L!Asker(a.id) : tasks' = {u \in tasks : u.read # t.read} /\ L!Failed(t.read)
      BY <2>2 DEF L!Refused
    <3>2. t.read \in Reads /\ reads[t.read].phase = "fetches"
      BY <3>1 DEF L!Asker, Downloading, Tasks
    <3>3. asked' \subseteq asked /\ UNCHANGED <<copied, list, lists, jobs, live, fetched, planned, nextId>>
      BY <2>2 DEF L!Refused, L!place
    <3>4. \A s \in Reads : s # t.read /\ reads[s].phase = "fetches" => reads[s].item # reads[t.read].item
      BY <3>2 DEF Downloading, Apart
    <3> QED BY <1>7, <3>1, <3>2, <3>3, <3>4
  <2>3. ASSUME NEW much \in {"all", "some"}, L!Answered(a, <<copied, a.file, a.chunk, much>>)
        PROVE  Downloading' /\ HandedOver
    <3>1. /\ Downloading'
          /\ \A r \in Reads : reads'[r].phase = "answered" /\ reads[r].phase # "answered"
                                => reads'[r].item \in fetched'
      BY <2>3, AnsweredKeeps
    <3>2. \A i \in fetched' : Held(copied', i, disk'[i])
      BY <3>1 DEF Downloading, Complete
    <3> QED BY <3>1, <3>2
  <2> QED BY <1>9, <2>1, <2>2, <2>3 DEF L!Deliver
<1> QED BY <1>0, <1>1, <1>2, <1>3, <1>4, <1>5, <1>6, <1>8, <1>9 DEF L!Next

\* A file is handed to Finder with an answer for every chunk or not at all, unless it is
\* fetched anew at that moment: for any files, reads that overlap, chunks of a file and
\* asked for at a time, and any number of lists, answers in any order, cut short or of a
\* list copied since, refusals and disconnects.
THEOREM FilesAreWhole == Spec => WholeOrGone
<1> USE DownloadConstants
<1>1. Init => Downloading
  <2> SUFFICES ASSUME Init PROVE Downloading
    OBVIOUS
  <2>1. /\ copied = 0 /\ list = 0 /\ lists = 0 /\ jobs = {} /\ live = {}
        /\ fetched = {} /\ disk = [item \in L!Items |-> L!NoFile]
        /\ reads = [r \in Reads |-> [phase |-> "idle", item |-> <<0, "none">>]]
        /\ tasks = {} /\ planned = [r \in Reads |-> 0] /\ nextId = 1 /\ asked = {}
    BY DEF Init, L!Init
  <2>2. DOMAIN reads = Reads /\ \A r \in Reads : DOMAIN reads[r] = {"phase", "item"} /\ reads[r].phase = "idle"
    BY <2>1
  <2>3. Shaped
    BY <2>1, <2>2 DEF Shaped, Phases
  <2>4. Apart /\ Gone /\ Complete /\ Tasks /\ Progress
    BY <2>1, <2>2 DEF Apart, Gone, Complete, Tasks, Progress
  <2> QED BY <2>3, <2>4 DEF Downloading
<1>2. ASSUME UNCHANGED downloadVars PROVE UNCHANGED L!downloadVars
  BY <1>2 DEF downloadVars, L!downloadVars, L!place, L!router
<1>3. ASSUME [Next]_vars PROVE L!Next \/ UNCHANGED downloadVars
  BY <1>3 DEF Next, Keyboard, Switcher, Mouse, Volume, Paste, vars
<1>4. Downloading /\ [Next]_vars => Downloading'
  <2> SUFFICES ASSUME Downloading, [Next]_vars PROVE Downloading'
    OBVIOUS
  <2>1. CASE UNCHANGED downloadVars
    <3>1. UNCHANGED <<copied, list, lists, jobs, live, registry, fetched, disk, reads, tasks, planned,
                      nextId, asked>>
      BY <2>1 DEF downloadVars
    <3>2. Shaped' /\ Apart' /\ Gone'
      BY <3>1 DEF Downloading, Shaped, Apart, Gone, L!Locked
    <3>3. Complete' /\ Tasks' /\ Progress'
      BY <3>1 DEF Downloading, Complete, Tasks, Progress
    <3> QED BY <3>2, <3>3 DEF Downloading
  <2> QED BY <1>3, <2>1, DownloadKeeps
<1>5. Downloading /\ [Next]_vars =>
        [\A r \in Reads : reads'[r].phase = "answered" /\ reads[r].phase # "answered" =>
            (L!Ready(reads[r].item) \/ L!FetchedAnew(reads[r].item))']_(L!downloadVars)
  <2>1. ASSUME NEW r \in Reads, Held(copied', reads'[r].item, disk'[reads'[r].item])
        PROVE  L!Ready(reads[r].item)'
    BY <2>1 DEF Held, Bytes, L!Ready, L!Sent
  <2> QED BY <1>2, <1>3, <2>1, DownloadKeeps
<1> QED BY <1>1, <1>4, <1>5, PTL DEF Spec, WholeOrGone, L!WholeOrGone

-----------------------------------------------------------------------------
(* AppSwitcher                                                              *)

Distinct(l) == \A i, j \in DOMAIN l : l[i] = l[j] => i = j

LEMMA SizeOf == ASSUME NEW T PROVE S!Cardinality(T) = Cardinality(T)
BY DEF S!Cardinality, Cardinality

\* f goes through the places of a list that are kept, in their order, and o through what is there.
Rises(l, kept, o, n, f) ==
    /\ n \in Nat
    /\ f \in [1..n -> {i \in DOMAIN l : l[i] \in kept}]
    /\ \A j, k \in 1..n : j < k => f[j] < f[k]
    /\ \A i \in DOMAIN l : l[i] \in kept => \E k \in 1..n : f[k] = i
    /\ o = [k \in 1..n |-> l[f[k]]]

LEMMA OnlyPlaces ==
  ASSUME NEW T, NEW l \in Seq(T), NEW kept
  PROVE  \E n, f : Rises(l, kept, S!Only(l, kept), n, f)
<1> DEFINE places == {i \in DOMAIN l : l[i] \in kept}
           upto(i) == places \cap 1..i
           rank(i) == S!Cardinality(upto(i))
           n == S!Cardinality(places)
<1>1. places \subseteq 1..Len(l) /\ Len(l) \in Nat
  OBVIOUS
<1>2. IsFiniteSet(1..Len(l))
  BY <1>1, FS_Interval
<1>3. IsFiniteSet(places) /\ n = Cardinality(places) /\ n \in Nat
  BY <1>1, <1>2, FS_Subset, FS_CardinalityType, SizeOf
<1> DEFINE f == [k \in 1..n |-> CHOOSE i \in places : rank(i) = k]
<1>4. S!Only(l, kept) = [k \in 1..n |-> l[CHOOSE i \in places : rank(i) = k]]
  BY DEF S!Only
<1>5. S!Only(l, kept) = [k \in 1..n |-> l[f[k]]]
  BY <1>4
<1> SUFFICES \E g \in [1..n -> places] :
                /\ \A j, k \in 1..n : j < k => g[j] < g[k]
                /\ \A i \in places : \E k \in 1..n : g[k] = i
                /\ S!Only(l, kept) = [k \in 1..n |-> l[g[k]]]
  <2>1. ASSUME NEW g \in [1..n -> places],
               \A j, k \in 1..n : j < k => g[j] < g[k],
               \A i \in places : \E k \in 1..n : g[k] = i,
               S!Only(l, kept) = [k \in 1..n |-> l[g[k]]]
        PROVE  Rises(l, kept, S!Only(l, kept), n, g)
    BY <1>3, <2>1 DEF Rises
  <2> QED BY <2>1
<1> HIDE DEF places, n
<1>6. \A i \in places : i \in Int /\ i >= 1
  BY <1>1
<1>7. \A i \in places : IsFiniteSet(upto(i)) /\ rank(i) \in 1..n /\ rank(i) = Cardinality(upto(i))
  <2> SUFFICES ASSUME NEW i \in places
               PROVE IsFiniteSet(upto(i)) /\ rank(i) \in 1..n /\ rank(i) = Cardinality(upto(i))
    OBVIOUS
  <2> DEFINE u == upto(i)
  <2>1. u \subseteq places /\ i \in u
    BY <1>6
  <2>2. rank(i) = Cardinality(u)
    BY SizeOf
  <2> HIDE DEF u
  <2>3. IsFiniteSet(u) /\ Cardinality(u) <= n /\ Cardinality(u) \in Nat
    BY <1>3, <2>1, FS_Subset, FS_CardinalityType
  <2>4. Cardinality(u) # 0
    BY <2>1, <2>3, FS_EmptySet
  <2>5. Cardinality(u) \in 1..n
    BY <2>3, <2>4, <1>3
  <2> QED BY <2>2, <2>3, <2>5 DEF u
<1>8. \A i, j \in places : i < j => rank(i) < rank(j)
  <2> SUFFICES ASSUME NEW i \in places, NEW j \in places, i < j PROVE rank(i) < rank(j)
    OBVIOUS
  <2> DEFINE u == upto(i)
             w == upto(j)
  <2>1. u \subseteq w \ {j} /\ j \in w
    BY <1>6
  <2>2. rank(i) = Cardinality(u) /\ rank(j) = Cardinality(w)
    BY SizeOf
  <2>3. IsFiniteSet(w) /\ Cardinality(u) \in 1..n /\ Cardinality(w) \in 1..n
    BY <1>7
  <2> HIDE DEF u, w, rank
  <2>4. IsFiniteSet(w \ {j}) /\ Cardinality(w \ {j}) = Cardinality(w) - 1
    BY <2>1, <2>3, FS_RemoveElement
  <2>5. Cardinality(u) <= Cardinality(w \ {j})
    BY <2>1, <2>4, FS_Subset
  <2> QED BY <2>2, <2>4, <2>5, <2>3, <1>3
<1>9. \A i \in places : rank(i) \in 1..n
  BY <1>7
<1> HIDE DEF rank
<1>10. \A i, j \in places : rank(i) = rank(j) => i = j
  <2> SUFFICES ASSUME NEW i \in places, NEW j \in places, i # j PROVE rank(i) # rank(j)
    OBVIOUS
  <2>1. i < j \/ j < i
    BY <1>6
  <2>2. rank(i) \in Int /\ rank(j) \in Int
    BY <1>9, <1>3
  <2> QED BY <1>8, <2>1, <2>2
<1>11. \A k \in 1..n : \E i \in places : rank(i) = k
  <2> DEFINE r == [i \in places |-> rank(i)]
  <2>1. r \in Injection(places, 1..n)
    BY <1>9, <1>10 DEF Injection, IsInjective
  <2>2. IsFiniteSet(1..n) /\ Cardinality(1..n) = n
    BY <1>3, FS_Interval
  <2> HIDE DEF r
  <2>3. r \in Surjection(places, 1..n)
    BY <1>3, <2>1, <2>2, FS_Injection
  <2> QED BY <2>3 DEF Surjection, r
<1>12. \A k \in 1..n : f[k] \in places /\ rank(f[k]) = k
  BY <1>11
<1>13. f \in [1..n -> places]
  BY <1>12
<1> HIDE DEF f
<1>14. \A j, k \in 1..n : j < k => f[j] < f[k]
  <2> SUFFICES ASSUME NEW j \in 1..n, NEW k \in 1..n, j < k, ~(f[j] < f[k]) PROVE FALSE
    OBVIOUS
  <2>1. f[j] \in Int /\ f[k] \in Int
    BY <1>6, <1>12
  <2>2. f[j] = f[k] \/ f[k] < f[j]
    BY <2>1
  <2>3. rank(f[j]) = j /\ rank(f[k]) = k /\ j \in Int /\ k \in Int
    BY <1>12, <1>3
  <2>4. ~(f[k] < f[j])
    BY <1>8, <1>12, <2>3
  <2> QED BY <2>2, <2>3, <2>4
<1>15. \A i \in places : \E k \in 1..n : f[k] = i
  <2> SUFFICES ASSUME NEW i \in places PROVE f[rank(i)] = i
    BY <1>9
  <2>1. f[rank(i)] \in places /\ rank(f[rank(i)]) = rank(i)
    BY <1>9, <1>12
  <2> QED BY <1>10, <2>1
<1> QED BY <1>5, <1>13, <1>14, <1>15

Members(l) == {l[i] : i \in DOMAIN l}

LEMMA OnlyKeeps ==
  ASSUME NEW T, NEW l \in Seq(T), NEW kept
  PROVE  /\ S!Only(l, kept) \in Seq(T)
         /\ Distinct(l) => Distinct(S!Only(l, kept))
         /\ Members(S!Only(l, kept)) = Members(l) \cap kept
<1> DEFINE o == S!Only(l, kept)
<1>1. PICK n, f : Rises(l, kept, o, n, f)
  BY OnlyPlaces
<1> USE <1>1 DEF Rises
<1> HIDE DEF o
<1>2. \A k \in 1..n : f[k] \in DOMAIN l /\ f[k] \in Int /\ l[f[k]] \in kept /\ l[f[k]] \in T
  OBVIOUS
<1>3. o \in Seq(T) /\ DOMAIN o = 1..n
  BY <1>1, <1>2
<1>4. Distinct(l) => Distinct(o)
  <2> SUFFICES ASSUME Distinct(l), NEW j \in 1..n, NEW k \in 1..n, o[j] = o[k], j < k PROVE FALSE
    BY <1>3 DEF Distinct
  <2>1. f[j] = f[k]
    BY <1>1, <1>2 DEF Distinct
  <2> QED BY <1>1, <1>2, <2>1
<1>5. Members(o) = Members(l) \cap kept
  <2>1. \A k \in 1..n : o[k] \in Members(l) \cap kept
    BY <1>2 DEF Members
  <2>2. \A i \in DOMAIN l : l[i] \in kept => \E k \in 1..n : o[k] = l[i]
    OBVIOUS
  <2>3. \A x : x \in Members(o) => x \in Members(l) /\ x \in kept
    BY <1>3, <2>1 DEF Members
  <2>4. \A x : x \in Members(l) /\ x \in kept => x \in Members(o)
    <3> SUFFICES ASSUME NEW i \in DOMAIN l, l[i] \in kept PROVE l[i] \in Members(o)
      BY DEF Members
    <3>1. PICK k \in DOMAIN o : o[k] = l[i]
      BY <1>3, <2>2
    <3> QED BY <3>1 DEF Members
  <2> QED BY <2>3, <2>4
<1> QED BY <1>3, <1>4, <1>5 DEF o

\* The first that is kept comes first.
LEMMA FirstKept ==
  ASSUME NEW T, NEW l \in Seq(T), NEW kept, NEW p \in DOMAIN l, l[p] \in kept,
         \A q \in DOMAIN l : q < p => l[q] \notin kept
  PROVE  Len(S!Only(l, kept)) >= 1 /\ S!Only(l, kept)[1] = l[p]
<1> DEFINE o == S!Only(l, kept)
<1>1. PICK n, f : Rises(l, kept, o, n, f)
  BY OnlyPlaces
<1> USE <1>1 DEF Rises
<1> HIDE DEF o
<1>2. PICK k \in 1..n : f[k] = p
  BY <1>1
<1>3. 1 \in 1..n /\ Len(o) = n
  BY <1>1, <1>2
<1>4. f[1] \in DOMAIN l /\ l[f[1]] \in kept /\ f[1] \in Int /\ p \in Int
  BY <1>3
<1>5. k # 1 => f[1] < p
  BY <1>1, <1>2, <1>3
<1>6. f[1] = p
  BY <1>2, <1>4, <1>5
<1> QED BY <1>1, <1>3, <1>6 DEF o

\* When the first two are kept, they stay the first two.
LEMMA TwoKept ==
  ASSUME NEW T, NEW l \in Seq(T), NEW kept, Len(l) >= 2, l[1] \in kept, l[2] \in kept
  PROVE  /\ Len(S!Only(l, kept)) >= 2
         /\ S!Only(l, kept)[1] = l[1] /\ S!Only(l, kept)[2] = l[2]
<1> DEFINE o == S!Only(l, kept)
<1>1. PICK n, f : Rises(l, kept, o, n, f)
  BY OnlyPlaces
<1> USE <1>1 DEF Rises
<1> HIDE DEF o
<1>2. 1 \in DOMAIN l /\ 2 \in DOMAIN l /\ \A k \in 1..n : f[k] \in Int /\ f[k] >= 1
  OBVIOUS
<1>3. PICK a \in 1..n, b \in 1..n : f[a] = 1 /\ f[b] = 2
  BY <1>1, <1>2
<1>4. a = 1
  BY <1>1, <1>2, <1>3
<1>5. b > 1
  BY <1>3, <1>4
<1>6. b = 2
  <2> SUFFICES ASSUME b > 2 PROVE FALSE
    BY <1>5
  <2>1. 2 \in 1..n /\ f[1] < f[2] /\ f[2] < f[b]
    BY <1>1, <1>5
  <2> QED BY <1>2, <1>3, <1>4, <2>1
<1>7. Len(o) = n /\ n >= 2
  BY <1>1, <1>6
<1> QED BY <1>1, <1>3, <1>4, <1>6, <1>7 DEF o

\* The promoted one leads, the others stay as they were.
LEMMA PromotedFirst ==
  ASSUME NEW l \in Seq(Apps), NEW app \in Apps
  PROVE  /\ S!Promoted(l, app) \in Seq(Apps) /\ Len(S!Promoted(l, app)) >= 1
         /\ S!Promoted(l, app)[1] = app
         /\ Distinct(l) => Distinct(S!Promoted(l, app))
         /\ Members(S!Promoted(l, app)) = Members(l) \cup {app}
<1> DEFINE rest == S!Only(l, Apps \ {app})
<1>1. /\ rest \in Seq(Apps)
      /\ Distinct(l) => Distinct(rest)
      /\ Members(rest) = Members(l) \cap (Apps \ {app})
  BY OnlyKeeps
<1>2. S!Promoted(l, app) = <<app>> \o rest
  BY DEF S!Promoted
<1>3. rest \in Seq(Apps) /\ app \notin Members(rest) /\ Members(rest) \cup {app} = Members(l) \cup {app}
  <2>1. Members(l) \subseteq Apps
    BY DEF Members
  <2> QED BY <1>1, <2>1
<1> DEFINE p == <<app>> \o rest
<1> HIDE DEF rest
<1>4. /\ p \in Seq(Apps) /\ Len(p) = Len(rest) + 1 /\ p[1] = app
      /\ DOMAIN p = 1..(Len(rest) + 1) /\ Len(rest) \in Nat /\ DOMAIN rest = 1..Len(rest)
      /\ \A i \in 2..(Len(rest) + 1) : p[i] = rest[i - 1] /\ i - 1 \in DOMAIN rest
      /\ \A i \in DOMAIN rest : p[i + 1] = rest[i] /\ i + 1 \in DOMAIN p
  BY <1>3
<1> HIDE DEF p
<1>5. Members(p) = Members(rest) \cup {app}
  <2>1. \A i \in DOMAIN p : i = 1 \/ i \in 2..(Len(rest) + 1)
    BY <1>4
  <2>2. \A i \in DOMAIN p : p[i] \in Members(rest) \cup {app}
    BY <1>4, <2>1 DEF Members
  <2>3. app \in Members(p)
    BY <1>4 DEF Members
  <2>4. \A i \in DOMAIN rest : rest[i] \in Members(p)
    BY <1>4 DEF Members
  <2> QED BY <2>2, <2>3, <2>4 DEF Members
<1>6. Distinct(rest) => Distinct(p)
  <2> SUFFICES ASSUME Distinct(rest), NEW i \in DOMAIN p, NEW j \in DOMAIN p, p[i] = p[j], i < j PROVE FALSE
    BY <1>4 DEF Distinct
  <2>1. j \in 2..(Len(rest) + 1) /\ (i = 1 \/ i \in 2..(Len(rest) + 1))
    BY <1>4
  <2>2. i # 1
    BY <1>3, <1>4, <2>1 DEF Members
  <2>3. i - 1 = j - 1
    <3>1. i - 1 \in DOMAIN rest /\ j - 1 \in DOMAIN rest /\ rest[i - 1] = rest[j - 1]
      BY <1>4, <2>1, <2>2
    <3> QED BY <3>1 DEF Distinct
  <2> QED BY <1>4, <2>1, <2>2, <2>3
<1> QED BY <1>1, <1>2, <1>3, <1>4, <1>5, <1>6 DEF p

\* A finite set as a list.
LEMMA Enumerates ==
  ASSUME NEW T, IsFiniteSet(T)
  PROVE  S!SetToSeq(T) \in Seq(T) /\ Distinct(S!SetToSeq(T)) /\ Members(S!SetToSeq(T)) = T
<1> DEFINE n == S!Cardinality(T)
           f == S!SetToSeq(T)
<1>1. n = Cardinality(T) /\ n \in Nat /\ ExistsBijection(1..n, T)
  BY FS_CardinalityType, SizeOf
<1>2. \E g \in [1..n -> T] : S!IsInjective(g)
  BY <1>1 DEF ExistsBijection, Bijection, Injection, Surjection, S!IsInjective, IsInjective
<1>3. f = CHOOSE g \in [1..n -> T] : S!IsInjective(g)
  BY DEF S!SetToSeq
<1>4. f \in [1..n -> T] /\ S!IsInjective(f)
  <2> HIDE DEF n, f
  <2> QED BY <1>2, <1>3
<1> HIDE DEF n, f
<1>5. f \in Injection(1..n, T)
  BY <1>4 DEF Injection, IsInjective, S!IsInjective
<1>6. f \in Surjection(1..n, T)
  <2>1. IsFiniteSet(1..n) /\ Cardinality(1..n) = n
    BY <1>1, FS_Interval
  <2> QED BY <1>1, <1>5, <2>1, FS_Injection
<1>7. DOMAIN f = 1..n /\ f \in Seq(T)
  BY <1>1, <1>4
<1>8. Distinct(f)
  BY <1>4 DEF Distinct, S!IsInjective
<1>9. Members(f) = T
  <2>1. \A x \in T : \E i \in DOMAIN f : f[i] = x
    BY <1>6, <1>7 DEF Surjection
  <2>2. \A i \in DOMAIN f : f[i] \in T
    BY <1>4, <1>7
  <2> QED BY <2>1, <2>2 DEF Members
<1> QED BY <1>7, <1>8, <1>9 DEF f

\* The next place round a list.
LEMMA LandsIn ==
  ASSUME NEW T, NEW l \in Seq(T), Len(l) >= 1, NEW from, NEW reverse \in BOOLEAN
  PROVE  /\ \E t \in 1..Len(l) : S!Landing(l, from, reverse) = l[t]
         /\ \A k \in 1..Len(l) : Distinct(l) /\ l[k] = from =>
              S!Landing(l, from, FALSE) = l[IF k = Len(l) THEN 1 ELSE k + 1]
<1> DEFINE n == Len(l)
<1>1. n \in Nat /\ n >= 1 /\ 1 \in 1..n /\ n \in 1..n /\ DOMAIN l = 1..n
  OBVIOUS
<1> HIDE DEF n
<1> SUFFICES /\ \E t \in 1..n : S!Landing(l, from, reverse) = l[t]
             /\ \A k \in 1..n : Distinct(l) /\ l[k] = from =>
                  S!Landing(l, from, FALSE) = l[IF k = n THEN 1 ELSE k + 1]
  BY DEF n
<1>2. \A x \in Int : (x % n) + 1 \in 1..n
  BY <1>1
<1>3. \A i \in 1..n : (i % n) + 1 = IF i = n THEN 1 ELSE i + 1
  <2>1. \A i \in 0..(n - 1) : i % n = i
    BY <1>1
  <2>2. n % n = 0
    BY <1>1
  <2> QED BY <1>1, <2>1, <2>2
<1>4. CASE \E i \in 1..n : l[i] = from
  <2> DEFINE i == CHOOSE j \in 1..n : l[j] = from
  <2>1. i \in 1..n /\ l[i] = from
    BY <1>4
  <2>2. /\ S!Landing(l, from, TRUE) = l[((i + n - 2) % n) + 1]
        /\ S!Landing(l, from, FALSE) = l[(i % n) + 1]
    BY <1>4 DEF S!Landing, n
  <2> HIDE DEF i
  <2>3. \A k \in 1..n : Distinct(l) /\ l[k] = from => k = i
    BY <1>1, <2>1 DEF Distinct
  <2>4. (i % n) + 1 \in 1..n /\ ((i + n - 2) % n) + 1 \in 1..n
    <3>1. i \in Int /\ i + n - 2 \in Int
      BY <1>1, <2>1
    <3> QED BY <1>2, <3>1
  <2>5. \A k \in 1..n : Distinct(l) /\ l[k] = from =>
           S!Landing(l, from, FALSE) = l[IF k = n THEN 1 ELSE k + 1]
    BY <1>3, <2>2, <2>3
  <2>6. \E t \in 1..n : S!Landing(l, from, reverse) = l[t]
    <3>1. reverse = TRUE \/ reverse = FALSE
      OBVIOUS
    <3> QED BY <2>2, <2>4, <3>1
  <2> QED BY <2>5, <2>6
<1>5. CASE ~\E i \in 1..n : l[i] = from
  BY <1>1, <1>5 DEF S!Landing, n
<1> QED BY <1>4, <1>5

-----------------------------------------------------------------------------

\* What the order of use and the front application are made of.
Tracked ==
    /\ running \subseteq Apps /\ front \in running /\ workspace \in running
    /\ mru \in Seq(Apps) /\ Distinct(mru)
    /\ poller.promotes \in Apps \cup {S!NoApp}

LEMMA OriginRuns == ASSUME Tracked PROVE S!Origin \in running
BY DEF Tracked, S!Origin, S!EffectiveFront, S!Believed

LEMMA Joined ==
  ASSUME NEW T, NEW l \in Seq(T), NEW m \in Seq(T), Distinct(l), Distinct(m),
         Members(l) \cap Members(m) = {}
  PROVE  /\ l \o m \in Seq(T) /\ Distinct(l \o m)
         /\ Members(l \o m) = Members(l) \cup Members(m)
<1> DEFINE a == Len(l)
           b == Len(m)
           j == l \o m
<1>1. /\ a \in Nat /\ b \in Nat /\ DOMAIN l = 1..a /\ DOMAIN m = 1..b /\ DOMAIN j = 1..(a + b)
      /\ j \in Seq(T)
      /\ \A i \in 1..a : j[i] = l[i]
      /\ \A i \in (a + 1)..(a + b) : j[i] = m[i - a]
  OBVIOUS
<1> HIDE DEF a, b, j
<1>2. /\ \A i \in 1..(a + b) : i \in 1..a \/ i \in (a + 1)..(a + b)
      /\ \A i \in (a + 1)..(a + b) : i - a \in 1..b
      /\ \A i \in 1..a : i \in 1..(a + b)
      /\ \A i \in 1..b : i + a \in (a + 1)..(a + b) /\ i + a \in 1..(a + b) /\ (i + a) - a = i
  BY <1>1
<1>3. \A i \in 1..a : j[i] \in Members(l)
  BY <1>1 DEF Members
<1>4. \A i \in (a + 1)..(a + b) : j[i] \in Members(m)
  BY <1>1, <1>2 DEF Members
<1>5. Distinct(j)
  <2> SUFFICES ASSUME NEW x \in 1..(a + b), NEW y \in 1..(a + b), j[x] = j[y] PROVE x = y
    BY <1>1 DEF Distinct
  <2>1. CASE x \in 1..a /\ y \in 1..a
    BY <2>1, <1>1 DEF Distinct
  <2>2. CASE x \in (a + 1)..(a + b) /\ y \in (a + 1)..(a + b)
    <3>1. x - a = y - a
      BY <2>2, <1>1, <1>2 DEF Distinct
    <3> QED BY <3>1, <1>1
  <2>3. ~(x \in 1..a /\ y \in (a + 1)..(a + b)) /\ ~(y \in 1..a /\ x \in (a + 1)..(a + b))
    BY <1>3, <1>4
  <2> QED BY <2>1, <2>2, <2>3, <1>2
<1>6. Members(j) = Members(l) \cup Members(m)
  <2>1. \A i \in 1..(a + b) : j[i] \in Members(l) \cup Members(m)
    BY <1>2, <1>3, <1>4
  <2>2. \A i \in 1..a : \E k \in 1..(a + b) : j[k] = l[i]
    BY <1>1, <1>2
  <2>3. \A i \in 1..b : \E k \in 1..(a + b) : j[k] = m[i]
    BY <1>1, <1>2
  <2>4. \A x \in Members(j) : x \in Members(l) \cup Members(m)
    BY <1>1, <2>1 DEF Members
  <2>5. \A x \in Members(l) : x \in Members(j)
    BY <1>1, <2>2 DEF Members
  <2>6. \A x \in Members(m) : x \in Members(j)
    <3> SUFFICES ASSUME NEW i \in 1..b PROVE m[i] \in Members(j)
      BY <1>1 DEF Members
    <3>1. PICK k \in DOMAIN j : j[k] = m[i]
      BY <1>1, <2>3
    <3> QED BY <3>1 DEF Members
  <2> QED BY <2>4, <2>5, <2>6
<1> QED BY <1>1, <1>5, <1>6 DEF j

\* The order once the front application and new ones are in it, and the list it gives.
LEMMA RankedIs ==
  ASSUME Tracked, NEW order \in Seq(Apps), Distinct(order)
  PROVE  /\ S!Ranked(order) \in Seq(Apps) /\ Distinct(S!Ranked(order))
         /\ Len(S!Ranked(order)) >= 1 /\ S!Ranked(order)[1] = S!Origin
         /\ running \subseteq Members(S!Ranked(order))
<1> DEFINE new == running \ S!ToSet(order)
           more == S!SetToSeq(new)
           long == order \o more
<1>1. IsFiniteSet(new) /\ new \subseteq Apps
  BY SwitcherConstants, FS_Subset DEF Tracked
<1>2. more \in Seq(new) /\ Distinct(more) /\ Members(more) = new
  <2> HIDE DEF new
  <2> QED BY <1>1, Enumerates
<1>3. Members(order) = S!ToSet(order)
  BY DEF Members, S!ToSet
<1>4. more \in Seq(Apps)
  <2> HIDE DEF new, more
  <2> QED BY <1>1, <1>2
<1>5. Members(order) \cap Members(more) = {}
  BY <1>2, <1>3
<1>6. long \in Seq(Apps) /\ Distinct(long) /\ Members(long) = Members(order) \cup Members(more)
  <2> HIDE DEF more
  <2> QED BY <1>2, <1>4, <1>5, Joined
<1>7. running \subseteq Members(long)
  BY <1>2, <1>3, <1>6
<1>8. S!Ranked(order) = S!Promoted(long, S!Origin)
  BY DEF S!Ranked
<1>9. S!Origin \in Apps
  BY OriginRuns DEF Tracked
<1> HIDE DEF long
<1> DEFINE p == S!Promoted(long, S!Origin)
<1>10. /\ p \in Seq(Apps) /\ Len(p) >= 1 /\ p[1] = S!Origin
       /\ Distinct(long) => Distinct(p)
       /\ Members(p) = Members(long) \cup {S!Origin}
  BY <1>6, <1>9, PromotedFirst
<1> QED BY <1>6, <1>7, <1>8, <1>10

\* Going forward round a list from place i one comes by j before k.
Between(i, j, k) == (i <= j /\ j <= k) \/ (j <= k /\ k < i) \/ (k < i /\ i <= j)

\* Everything from an application that was seen up to the final one was.
Round(l, final, seen) ==
    \A i, j, k \in DOMAIN l : l[k] = final /\ l[i] \in seen /\ Between(i, j, k) => l[j] \in seen

\* Those that leave a list leave the round as it was; one more step carries it on.
LEMMA RoundKept ==
  ASSUME NEW T, NEW l \in Seq(T), NEW kept, NEW final, NEW seen, Round(l, final, seen)
  PROVE  Round(S!Only(l, kept), final, seen)
<1> DEFINE o == S!Only(l, kept)
<1>1. PICK n, f : Rises(l, kept, o, n, f)
  BY OnlyPlaces
<1> HIDE DEF o
<1>2. DOMAIN o = 1..n /\ \A k \in 1..n : f[k] \in DOMAIN l /\ f[k] \in Int /\ o[k] = l[f[k]]
  BY <1>1 DEF Rises
<1>3. \A j, k \in 1..n : (j < k => f[j] < f[k]) /\ (j <= k => f[j] <= f[k])
  BY <1>1, <1>2 DEF Rises
<1>4. SUFFICES ASSUME NEW i \in 1..n, NEW j \in 1..n, NEW k \in 1..n,
                      o[k] = final, o[i] \in seen, Between(i, j, k)
               PROVE  o[j] \in seen
  BY <1>2 DEF Round, o
<1>5. Between(f[i], f[j], f[k])
  BY <1>3, <1>4 DEF Between
<1> QED BY <1>2, <1>4, <1>5 DEF Round

LEMMA RoundFrom ==
  ASSUME NEW T, NEW l \in Seq(T), Distinct(l), NEW x PROVE Round(l, x, {x})
<1> SUFFICES ASSUME NEW i \in DOMAIN l, NEW j \in DOMAIN l, NEW k \in DOMAIN l,
                    l[k] = x, l[i] = x, Between(i, j, k)
             PROVE  l[j] = x
  BY DEF Round
<1>1. i = k /\ i \in Int /\ j \in Int
  BY DEF Distinct
<1> QED BY <1>1 DEF Between

LEMMA RoundOn ==
  ASSUME NEW T, NEW l \in Seq(T), Distinct(l), NEW k \in 1..Len(l),
         NEW t \in 1..Len(l), t = IF k = Len(l) THEN 1 ELSE k + 1, NEW seen
  PROVE  /\ Round(l, l[t], {l[k], l[t]})
         /\ Round(l, l[k], seen) => Round(l, l[t], seen \cup {l[t]})
         /\ Round(l, l[k], seen) /\ l[k] \in seen /\ l[t] \in seen => Members(l) \subseteq seen
<1> DEFINE n == Len(l)
<1>1. n \in Nat /\ DOMAIN l = 1..n /\ k \in 1..n /\ t \in 1..n
  OBVIOUS
<1>2. t = IF k = n THEN 1 ELSE k + 1
  OBVIOUS
<1> HIDE DEF n
<1>3. \A j \in 1..n : Between(k, j, t) => j = k \/ j = t
  BY <1>1, <1>2 DEF Between
<1>4. \A i, j \in 1..n : Between(i, j, t) => j = t \/ Between(i, j, k)
  BY <1>1, <1>2 DEF Between
<1>5. \A j \in 1..n : Between(t, j, k)
  BY <1>1, <1>2 DEF Between
<1>6. \A j \in 1..n : Between(t, j, t) => j = t
  BY <1>1 DEF Between
<1>7. Round(l, l[t], {l[k], l[t]})
  <2> SUFFICES ASSUME NEW i \in 1..n, NEW j \in 1..n, NEW m \in 1..n,
                      l[m] = l[t], l[i] \in {l[k], l[t]}, Between(i, j, m)
               PROVE  l[j] \in {l[k], l[t]}
    BY <1>1 DEF Round
  <2>1. m = t /\ (i = k \/ i = t)
    BY <1>1 DEF Distinct
  <2> QED BY <1>3, <1>6, <2>1
<1>8. ASSUME Round(l, l[k], seen) PROVE Round(l, l[t], seen \cup {l[t]})
  <2> SUFFICES ASSUME NEW i \in 1..n, NEW j \in 1..n, NEW m \in 1..n,
                      l[m] = l[t], l[i] \in seen \cup {l[t]}, Between(i, j, m)
               PROVE  l[j] \in seen \cup {l[t]}
    BY <1>1 DEF Round
  <2>1. m = t /\ (l[i] \in seen \/ i = t)
    BY <1>1 DEF Distinct
  <2>2. CASE i = t
    BY <1>6, <2>1, <2>2
  <2>3. CASE l[i] \in seen
    <3>1. j = t \/ Between(i, j, k)
      BY <1>4, <2>1
    <3>2. Between(i, j, k) => l[j] \in seen
      BY <1>1, <1>8, <2>3 DEF Round
    <3> QED BY <3>1, <3>2
  <2> QED BY <2>1, <2>2, <2>3
<1>9. ASSUME Round(l, l[k], seen), l[t] \in seen PROVE Members(l) \subseteq seen
  BY <1>1, <1>5, <1>9 DEF Round, Members
<1> QED BY <1>7, <1>8, <1>9

\* Walked round its list, a hold of Cmd has shown all from some place to its cursor.
Walked ==
    session # S!NoSession =>
        /\ session.snapshot \in Seq(Apps) /\ Distinct(session.snapshot)
        /\ session.cursor \in Members(session.snapshot) /\ session.cursor \in visited
        /\ Round(session.snapshot, session.cursor, visited)

LEMMA LandsWithin ==
  ASSUME NEW T, NEW l \in Seq(T), Len(l) >= 1, NEW from, NEW reverse \in BOOLEAN
  PROVE  S!Landing(l, from, reverse) \in Members(l)
<1>1. PICK t \in 1..Len(l) : S!Landing(l, from, reverse) = l[t]
  BY LandsIn
<1> QED BY <1>1 DEF Members

\* What a press does with a list of running applications.
LEMMA LandTracks ==
  ASSUME Tracked, NEW l \in Seq(Apps), Distinct(l), Len(l) >= 1, Members(l) \subseteq running,
         NEW order \in Seq(Apps), Distinct(order),
         NEW from, NEW reverse \in BOOLEAN, NEW fresh \in BOOLEAN,
         S!Land(l, from, order, reverse, fresh)
  PROVE  Tracked' /\ session' # S!NoSession
<1>1. PICK target \in {S!Landing(l, from, reverse)}, ok \in BOOLEAN :
        /\ session' = [snapshot |-> l, cursor |-> target]
        /\ mru' = IF ok THEN S!Promoted(order, target) ELSE order
        /\ front' = IF ok THEN target ELSE front
        /\ UNCHANGED <<running, workspace, poller>>
  BY DEF S!Land, S!MakeFrontmost
<1>2. target \in running /\ target \in Apps
  <2>1. target \in Members(l)
    BY <1>1, LandsWithin
  <2> QED BY <2>1 DEF Tracked
<1>3. S!Promoted(order, target) \in Seq(Apps) /\ Distinct(S!Promoted(order, target))
  BY <1>2, PromotedFirst
<1>4. Tracked'
  BY <1>1, <1>2, <1>3 DEF Tracked
<1>5. session'.cursor # S!NoApp
  BY <1>1, <1>2, SwitcherConstants
<1> QED BY <1>4, <1>5 DEF S!NoSession

LEMMA LandWalks ==
  ASSUME NEW l \in Seq(Apps), Distinct(l), Len(l) >= 1,
         NEW order, NEW from, NEW reverse \in BOOLEAN, NEW fresh \in BOOLEAN,
         ~fresh => Round(l, from, visited) /\ from \in visited,
         S!Land(l, from, order, reverse, fresh)
  PROVE  Walked'
<1>1. PICK target \in {S!Landing(l, from, reverse)} :
        /\ session' = [snapshot |-> l, cursor |-> target]
        /\ visited' = IF reverse \/ from \notin S!ToSet(l) THEN {target}
                      ELSE IF fresh THEN {from, target}
                      ELSE IF S!ToSet(l) \subseteq visited THEN {target}
                      ELSE visited \cup {target}
  BY DEF S!Land, S!Record
<1>2. target \in Members(l)
  BY <1>1, LandsWithin
<1>3. Round(l, target, {target})
  BY RoundFrom
<1>4. ASSUME ~reverse, from \in S!ToSet(l)
      PROVE  /\ Round(l, target, {from, target})
             /\ ~fresh => Round(l, target, visited \cup {target})
  <2>1. PICK k \in 1..Len(l) : l[k] = from
    BY <1>4 DEF S!ToSet
  <2> DEFINE t == IF k = Len(l) THEN 1 ELSE k + 1
  <2>2. t \in 1..Len(l)
    BY <2>1
  <2>3. target = l[t]
    <3>1. S!Landing(l, from, FALSE) = l[t]
      BY <2>1, LandsIn
    <3>2. reverse = FALSE
      BY <1>4
    <3> QED BY <1>1, <3>1, <3>2
  <2> HIDE DEF t
  <2>4. /\ Round(l, l[t], {l[k], l[t]})
        /\ Round(l, l[k], visited) => Round(l, l[t], visited \cup {l[t]})
    BY <2>1, <2>2, RoundOn DEF t
  <2> QED BY <2>1, <2>3, <2>4
<1>5. target \in visited' /\ Round(l, target, visited')
  BY <1>1, <1>3, <1>4
<1>6. session'.snapshot = l /\ session'.cursor = target
  BY <1>1
<1> QED BY <1>2, <1>5, <1>6 DEF Walked

\* After an undisturbed session of one press the two it went between lead the order of use,
\* and NSWorkspace is known to name the first still.
Flipped ==
    flip # S!NoFlip =>
        /\ flip = <<flip[1], flip[2]>>
        /\ lie = workspace /\ lastAx = flip[2] /\ flip[1] \in running /\ flip[2] \in running
        /\ session # S!NoSession => session.cursor = flip[2]
        /\ IF flip[1] = flip[2] THEN running = {flip[1]}
           ELSE Len(mru) >= 2 /\ {mru[1], mru[2]} = {flip[1], flip[2]}

Switching == Tracked /\ Walked /\ Flipped

\* A list of what runs, of an order that begins with the origin.
LEMMA FreshIs ==
  ASSUME Tracked, NEW order \in Seq(Apps), Distinct(order), Len(order) >= 1,
         order[1] \in running, running \subseteq Members(order)
  PROVE  /\ S!FreshSnapshot(order) \in Seq(Apps) /\ Distinct(S!FreshSnapshot(order))
         /\ Members(S!FreshSnapshot(order)) = running
         /\ Len(S!FreshSnapshot(order)) >= 1 /\ S!FreshSnapshot(order)[1] = order[1]
<1> DEFINE l == S!Only(order, running)
<1>1. /\ l \in Seq(Apps)
      /\ Distinct(order) => Distinct(l)
      /\ Members(l) = Members(order) \cap running
  BY OnlyKeeps
<1>2. Len(l) >= 1 /\ l[1] = order[1]
  <2>1. 1 \in DOMAIN order /\ \A q \in DOMAIN order : ~(q < 1)
    OBVIOUS
  <2> QED BY <2>1, FirstKept
<1> QED BY <1>1, <1>2 DEF S!FreshSnapshot

\* Promoted to the front, an application has behind it what was there before.
LEMMA PromotedSecond ==
  ASSUME NEW l \in Seq(Apps), NEW app \in Apps, NEW p \in DOMAIN l, l[p] # app,
         \A q \in DOMAIN l : q < p => l[q] = app
  PROVE  Len(S!Promoted(l, app)) >= 2 /\ S!Promoted(l, app)[2] = l[p]
<1> DEFINE rest == S!Only(l, Apps \ {app})
<1>1. l[p] \in Apps \ {app}
  OBVIOUS
<1>2. Len(rest) >= 1 /\ rest[1] = l[p]
  <2> DEFINE kept == Apps \ {app}
  <2>1. l[p] \in kept /\ \A q \in DOMAIN l : q < p => l[q] \notin kept
    BY <1>1
  <2> HIDE DEF kept
  <2>2. Len(S!Only(l, kept)) >= 1 /\ S!Only(l, kept)[1] = l[p]
    BY <2>1, FirstKept
  <2> QED BY <2>2 DEF kept
<1>3. rest \in Seq(Apps)
  BY OnlyKeeps
<1> HIDE DEF rest
<1>4. Len(<<app>> \o rest) >= 2 /\ (<<app>> \o rest)[2] = rest[1]
  BY <1>2, <1>3
<1> QED BY <1>2, <1>4 DEF S!Promoted, rest

\* Two at the front stay the two at the front when one of them is promoted.
LEMMA PromotedPair ==
  ASSUME NEW l \in Seq(Apps), NEW x \in Apps, NEW y \in Apps, x # y,
         Len(l) >= 2, {l[1], l[2]} = {x, y}
  PROVE  LET p == S!Promoted(l, x) IN Len(p) >= 2 /\ p[1] = x /\ p[2] = y
<1>1. 1 \in DOMAIN l /\ 2 \in DOMAIN l
  OBVIOUS
<1>2. S!Promoted(l, x)[1] = x
  BY PromotedFirst
<1>3. CASE l[1] = x
  <2>1. l[2] = y
    BY <1>3
  <2>2. \A q \in DOMAIN l : q < 2 => l[q] = x
    BY <1>3
  <2> QED BY <1>1, <1>2, <2>1, <2>2, PromotedSecond
<1>4. CASE l[1] = y
  <2>1. \A q \in DOMAIN l : q < 1 => l[q] = x
    OBVIOUS
  <2> QED BY <1>1, <1>2, <1>4, <2>1, PromotedSecond
<1> QED BY <1>3, <1>4

\* Where a first press of Tab lands.
LEMMA FirstPress ==
  ASSUME Tracked, NEW order \in Seq(Apps), Distinct(order), NEW target,
         target = S!Landing(S!FreshSnapshot(S!Ranked(order)), S!Origin, FALSE)
  PROVE  /\ target \in running
         /\ IF target = S!Origin THEN running = {target}
            ELSE LET p == S!Promoted(S!Ranked(order), target)
                 IN  Len(p) >= 2 /\ p[1] = target /\ p[2] = S!Origin
<1> DEFINE r == S!Ranked(order)
           l == S!FreshSnapshot(r)
<1>1. /\ r \in Seq(Apps) /\ Distinct(r) /\ Len(r) >= 1 /\ r[1] = S!Origin
      /\ running \subseteq Members(r) /\ S!Origin \in running
  BY RankedIs, OriginRuns
<1> HIDE DEF r
<1>2. /\ l \in Seq(Apps) /\ Distinct(l) /\ Members(l) = running
      /\ Len(l) >= 1 /\ l[1] = S!Origin
  BY <1>1, FreshIs
<1>3. /\ Len(l) = 1 => target = l[1]
      /\ Len(l) # 1 => target = l[2]
  <2>1. 1 \in 1..Len(l) /\ target = S!Landing(l, S!Origin, FALSE)
    BY <1>2 DEF r
  <2> HIDE DEF l
  <2>2. \A k \in 1..Len(l) : Distinct(l) /\ l[k] = S!Origin =>
           S!Landing(l, S!Origin, FALSE) = l[IF k = Len(l) THEN 1 ELSE k + 1]
    BY <1>2, LandsIn
  <2>3. S!Landing(l, S!Origin, FALSE) = l[IF 1 = Len(l) THEN 1 ELSE 1 + 1]
    BY <1>2, <2>1, <2>2
  <2>4. CASE Len(l) = 1
    BY <2>1, <2>3, <2>4
  <2>5. CASE Len(l) # 1
    <3>1. (IF 1 = Len(l) THEN 1 ELSE 1 + 1) = 2
      BY <2>5
    <3> QED BY <2>1, <2>3, <2>5, <3>1
  <2> QED BY <2>4, <2>5
<1> HIDE DEF l
<1>4. PICK n \in Nat : n = Len(l) /\ DOMAIN l = 1..n /\ n >= 1
  BY <1>2
<1>5. CASE n = 1
  <2>0. DOMAIN l = {1}
    BY <1>4, <1>5
  <2>1. Members(l) = {l[1]}
    BY <2>0 DEF Members
  <2>2. running = {S!Origin} /\ target = S!Origin
    BY <1>2, <1>3, <1>5, <1>4, <2>1
  <2> QED BY <2>2
<1>6. CASE n # 1
  <2>1. target = l[2] /\ 1 \in DOMAIN l /\ 2 \in DOMAIN l
    <3>1. n >= 2 /\ 1 \in 1..n /\ 2 \in 1..n
      BY <1>4, <1>6
    <3>2. Len(l) # 1
      BY <1>4, <1>6
    <3> QED BY <1>4, <1>3, <3>1, <3>2
  <2>2. target # S!Origin /\ target \in running /\ target \in Apps
    <3>1. l[1] # l[2]
      BY <1>2, <2>1 DEF Distinct
    <3>2. l[2] \in Members(l)
      BY <2>1 DEF Members
    <3> QED BY <1>2, <2>1, <3>1, <3>2 DEF Tracked
  <2>3. 1 \in DOMAIN r /\ r[1] # target /\ \A q \in DOMAIN r : q < 1 => r[q] = target
    <3>1. 1 \in DOMAIN r /\ \A q \in DOMAIN r : ~(q < 1)
      BY <1>1
    <3> QED BY <1>1, <2>2, <3>1
  <2>4. Len(S!Promoted(r, target)) >= 2 /\ S!Promoted(r, target)[2] = S!Origin
    BY <1>1, <2>2, <2>3, PromotedSecond
  <2>5. S!Promoted(r, target)[1] = target
    BY <1>1, <2>2, PromotedFirst
  <2> QED BY <2>2, <2>4, <2>5 DEF r
<1> QED BY <1>5, <1>6

\* A press that begins a session.
LEMMA StartKeeps ==
  ASSUME Switching, NEW reverse \in BOOLEAN, S!Start(reverse) PROVE Switching'
<1>1. mru \in Seq(Apps) /\ Distinct(mru) /\ Tracked /\ Walked
  BY DEF Switching, Tracked
<1>2. S!Stale \in Seq(Apps) /\ Distinct(S!Stale)
  <2>1. CASE session.cursor = S!NoApp
    BY <1>1, <2>1 DEF S!Stale
  <2>2. CASE session.cursor # S!NoApp
    <3>1. session # S!NoSession
      BY <2>2 DEF S!NoSession
    <3>2. session.cursor \in Apps
      BY <1>1, <3>1 DEF Walked, Members
    <3> QED BY <1>1, <2>2, <3>2, PromotedFirst DEF S!Stale
  <2> QED BY <2>1, <2>2
<1> DEFINE stale == S!Stale
<1> HIDE DEF stale
<1>3. stale \in Seq(Apps) /\ Distinct(stale) /\ stale = S!Stale
  BY <1>2 DEF stale
<1> DEFINE order == S!Ranked(stale)
           l == S!FreshSnapshot(order)
<1>4. /\ order \in Seq(Apps) /\ Distinct(order) /\ Len(order) >= 1 /\ order[1] = S!Origin
      /\ running \subseteq Members(order) /\ S!Origin \in running
  BY <1>1, <1>3, RankedIs, OriginRuns
<1>5. S!Land(l, S!Origin, order, reverse, TRUE)
  BY <1>3 DEF S!Start
<1> HIDE DEF order
<1>6. l \in Seq(Apps) /\ Distinct(l) /\ Members(l) = running /\ Len(l) >= 1
  BY <1>1, <1>4, FreshIs
<1>7. Tracked' /\ Walked'
  <2>1. TRUE \in BOOLEAN /\ Members(l) \subseteq running
    BY <1>6
  <2> HIDE DEF l
  <2> QED BY <1>1, <1>4, <1>5, <1>6, <2>1, LandTracks, LandWalks
<1>8. ASSUME flip' # S!NoFlip PROVE Flipped'
  <2>1. PICK target \in {S!Landing(l, S!Origin, reverse)}, ok \in BOOLEAN :
          /\ session' = [snapshot |-> l, cursor |-> target]
          /\ lie' = IF S!Believed THEN lie ELSE workspace
          /\ lastAx' = IF ok THEN target ELSE IF S!Believed THEN lastAx ELSE S!NoApp
          /\ mru' = IF ok THEN S!Promoted(order, target) ELSE order
          /\ flip' = IF ok /\ ~reverse /\ S!Origin = front THEN <<S!Origin, target>> ELSE S!NoFlip
          /\ UNCHANGED <<running, workspace>>
    BY <1>5 DEF S!Land, S!Record
  <2>2. ok /\ reverse = FALSE /\ flip' = <<S!Origin, target>>
    BY <1>8, <2>1
  <2>3. target = S!Landing(S!FreshSnapshot(S!Ranked(stale)), S!Origin, FALSE)
    BY <2>1, <2>2 DEF order
  <2>4. /\ target \in running
        /\ IF target = S!Origin THEN running = {target}
           ELSE LET p == S!Promoted(order, target)
                IN  Len(p) >= 2 /\ p[1] = target /\ p[2] = S!Origin
    BY <1>1, <1>3, <2>3, FirstPress DEF order
  <2>5. lie' = workspace' /\ lastAx' = target /\ mru' = S!Promoted(order, target) /\ running' = running
    BY <2>1, <2>2 DEF S!Believed
  <2>6. flip' = <<flip'[1], flip'[2]>> /\ flip'[1] = S!Origin /\ flip'[2] = target /\ session'.cursor = target
    BY <2>1, <2>2
  <2> HIDE DEF l
  <2> QED BY <1>4, <2>4, <2>5, <2>6 DEF Flipped
<1> QED BY <1>7, <1>8 DEF Switching, Flipped

\* The list of a session, once those that have quit have left it.
LEMMA FrozenIs ==
  ASSUME Walked, session # S!NoSession
  PROVE  LET l == S!HeldSnapshot IN
         /\ l \in Seq(Apps) /\ Distinct(l) /\ Members(l) \subseteq running
         /\ Round(l, session.cursor, visited) /\ session.cursor \in visited
         /\ l # <<>> => Len(l) >= 1
<1> DEFINE s == session.snapshot
           l == S!Only(s, running)
<1>1. s \in Seq(Apps) /\ Distinct(s) /\ Round(s, session.cursor, visited) /\ session.cursor \in visited
  BY DEF Walked
<1> HIDE DEF s
<1>2. /\ l \in Seq(Apps)
      /\ Distinct(s) => Distinct(l)
      /\ Members(l) = Members(s) \cap running
  BY <1>1, OnlyKeeps
<1>3. Round(l, session.cursor, visited)
  BY <1>1, RoundKept
<1>4. l # <<>> => Len(l) >= 1
  <2> HIDE DEF l
  <2> QED BY <1>2
<1>5. S!HeldSnapshot = l
  BY DEF S!HeldSnapshot, S!FrozenSnapshot, s
<1> HIDE DEF l
<1> QED BY <1>1, <1>2, <1>3, <1>4, <1>5

LEMMA ContinueKeeps ==
  ASSUME Switching, NEW reverse \in BOOLEAN, S!Continue(reverse) PROVE Switching'
<1> DEFINE l == S!HeldSnapshot
<1>1. session # S!NoSession /\ l # <<>> /\ S!Land(l, session.cursor, mru, reverse, FALSE)
  BY DEF S!Continue
<1>2. /\ l \in Seq(Apps) /\ Distinct(l) /\ Members(l) \subseteq running
      /\ Round(l, session.cursor, visited) /\ session.cursor \in visited
      /\ l # <<>> => Len(l) >= 1
  BY <1>1, FrozenIs DEF Switching
<1> HIDE DEF l
<1>3. mru \in Seq(Apps) /\ Distinct(mru) /\ Tracked /\ FALSE \in BOOLEAN /\ Len(l) >= 1
  BY <1>1, <1>2 DEF Switching, Tracked
<1>4. Tracked' /\ Walked'
  BY <1>1, <1>2, <1>3, LandTracks, LandWalks
<1>5. flip' = S!NoFlip
  BY <1>1 DEF S!Land, S!Record
<1> QED BY <1>4, <1>5 DEF Switching, Flipped

LEMMA CommitKeeps ==
  ASSUME Switching, session # S!NoSession, UNCHANGED poller, S!Commit PROVE Switching'
<1>1. PICK ok \in BOOLEAN :
        /\ ok => session.cursor \in running
        /\ mru' = S!Promoted(mru, session.cursor)
        /\ front' = IF ok THEN session.cursor ELSE front
        /\ flip' \in {flip, S!NoFlip}
        /\ session' = S!NoSession
        /\ UNCHANGED <<running, workspace, lie, lastAx>>
  BY DEF S!Commit, S!MakeFrontmost
<1>2. session.cursor \in Apps
  BY DEF Switching, Walked, Members
<1> DEFINE c == session.cursor
           p == S!Promoted(mru, c)
<1>3. p \in Seq(Apps) /\ Distinct(p)
  BY <1>2, PromotedFirst DEF Switching, Tracked
<1>4. Tracked'
  BY <1>1, <1>3 DEF Switching, Tracked
<1>5. ASSUME flip' # S!NoFlip PROVE Flipped'
  <2>1. /\ lie = workspace /\ lastAx = flip[2] /\ flip[1] \in running /\ flip[2] \in running
        /\ c = flip[2] /\ flip' = flip /\ flip = <<flip[1], flip[2]>>
        /\ IF flip[1] = flip[2] THEN running = {flip[1]}
           ELSE Len(mru) >= 2 /\ {mru[1], mru[2]} = {flip[1], flip[2]}
    BY <1>1, <1>5 DEF Switching, Flipped
  <2>2. ASSUME flip[1] # flip[2] PROVE Len(p) >= 2 /\ {p[1], p[2]} = {flip[1], flip[2]}
    <3>1. mru \in Seq(Apps) /\ flip[1] \in Apps /\ c \in Apps /\ c # flip[1]
          /\ Len(mru) >= 2 /\ {mru[1], mru[2]} = {c, flip[1]}
      BY <2>1, <2>2 DEF Switching, Tracked
    <3>2. Len(p) >= 2 /\ p[1] = c /\ p[2] = flip[1]
      BY <3>1, PromotedPair
    <3> QED BY <2>1, <3>2
  <2> QED BY <1>1, <2>1, <2>2 DEF Flipped
<1> QED BY <1>1, <1>4, <1>5 DEF Switching, Walked, Flipped

LEMMA PromotesKeeps == ASSUME Switching, S!PollPromotes PROVE Switching'
<1> DEFINE a == poller.promotes
           p == S!Promoted(mru, a)
<1>1. /\ a \in Apps /\ mru' = p /\ UNCHANGED <<running, front, workspace, lie, lastAx, session, visited>>
      /\ flip' = (IF a \in S!ToSet(flip) THEN flip ELSE S!NoFlip)
      /\ poller' = [poller EXCEPT !.promotes = S!NoApp]
  BY DEF S!PollPromotes, S!focus, Switching, Tracked
<1>2. p \in Seq(Apps) /\ Distinct(p)
  BY <1>1, PromotedFirst DEF Switching, Tracked
<1>3. poller'.promotes \in Apps \cup {S!NoApp}
  <2>1. CASE "promotes" \in DOMAIN poller
    BY <1>1, <2>1
  <2>2. CASE "promotes" \notin DOMAIN poller
    BY <1>1, <2>2
  <2> QED BY <2>1, <2>2
<1> HIDE DEF p
<1>4. Tracked'
  BY <1>1, <1>2, <1>3 DEF Switching, Tracked
<1>5. Walked'
  BY <1>1 DEF Switching, Walked
<1>6. ASSUME flip' # S!NoFlip PROVE Flipped'
  <2>1. /\ lie = workspace /\ lastAx = flip[2] /\ flip[1] \in running /\ flip[2] \in running
        /\ session # S!NoSession => session.cursor = flip[2]
        /\ flip' = flip /\ flip = <<flip[1], flip[2]>> /\ a \in S!ToSet(flip)
        /\ IF flip[1] = flip[2] THEN running = {flip[1]}
           ELSE Len(mru) >= 2 /\ {mru[1], mru[2]} = {flip[1], flip[2]}
    BY <1>1, <1>6 DEF Switching, Flipped
  <2>2. ASSUME flip[1] # flip[2] PROVE Len(p) >= 2 /\ {p[1], p[2]} = {flip[1], flip[2]}
    <3>1. a = flip[1] \/ a = flip[2]
      BY <2>1 DEF S!ToSet
    <3>2. PICK b \in Apps : b # a /\ {flip[1], flip[2]} = {a, b}
      BY <2>1, <2>2, <3>1 DEF Switching, Tracked
    <3>3. mru \in Seq(Apps) /\ Len(mru) >= 2 /\ {mru[1], mru[2]} = {a, b}
      BY <2>1, <2>2, <3>2 DEF Switching, Tracked
    <3>4. Len(p) >= 2 /\ p[1] = a /\ p[2] = b
      BY <1>1, <3>2, <3>3, PromotedPair DEF p
    <3> QED BY <3>2, <3>4
  <2> QED BY <1>1, <2>1, <2>2 DEF Flipped
<1> QED BY <1>4, <1>5, <1>6 DEF Switching, Flipped

-----------------------------------------------------------------------------

LEMMA OthersKeep ==
  ASSUME Switching, NEW app \in Apps,
         S!Activate(app) \/ S!Launch(app) \/ S!Quit(app) \/ S!Refront(app)
  PROVE  Switching'
<1>1. CASE S!Activate(app)
  BY <1>1 DEF Switching, Tracked, Walked, Flipped, S!Activate, S!Move, S!tracker
<1>2. CASE S!Launch(app)
  BY <1>2 DEF Switching, Tracked, Walked, Flipped, S!Launch, S!Move, S!tracker
<1>3. CASE S!Quit(app)
  BY <1>3 DEF Switching, Tracked, Walked, Flipped, S!Quit, S!Move, S!tracker
<1>4. CASE S!Refront(app)
  <2>1. /\ front' = (IF app \in running THEN app ELSE front) /\ flip' \in {flip, S!NoFlip}
        /\ UNCHANGED <<running, workspace, mru, lie, lastAx, session, poller, visited>>
    BY <1>4 DEF S!Refront, S!MakeFrontmost, S!tracker
  <2> QED BY <2>1 DEF Switching, Tracked, Walked, Flipped
<1> QED BY <1>1, <1>2, <1>3, <1>4

LEMMA SwitchingKeeps == ASSUME Switching, S!Next PROVE Switching'
<1>1. ASSUME NEW app \in Apps, S!Activate(app) \/ S!Launch(app) \/ S!Quit(app) \/ S!Refront(app)
      PROVE  Switching'
  BY <1>1, OthersKeep
<1>2. ASSUME NEW reverse \in BOOLEAN, NEW late \in BOOLEAN, S!Tab(reverse, late) PROVE Switching'
  <2>1. S!Start(reverse) \/ S!Continue(reverse) \/ S!Abandon
    BY <1>2 DEF S!Tab
  <2>2. ASSUME S!Abandon PROVE Switching'
    BY <2>2 DEF S!Abandon, S!focus, Switching, Tracked, Walked, Flipped
  <2> QED BY <2>1, <2>2, StartKeeps, ContinueKeeps
<1>3. ASSUME NEW half \in {"left", "right"}, S!PressCmd(half) \/ S!ReleaseCmd(half) PROVE Switching'
  <2>1. CASE session # S!NoSession /\ S!Commit /\ UNCHANGED poller
    BY <2>1, CommitKeeps
  <2>2. CASE UNCHANGED <<running, front, workspace, mru, lie, lastAx, session, poller, visited, flip>>
    BY <2>2 DEF Switching, Tracked, Walked, Flipped
  <2> QED BY <1>3, <2>1, <2>2 DEF S!PressCmd, S!ReleaseCmd, S!focus, S!tracker, S!record
<1>4. ASSUME S!PollLooks PROVE Switching'
  <2>1. /\ UNCHANGED <<running, front, workspace, mru, lie, lastAx, session, visited, flip>>
        /\ poller'.promotes \in {front, S!NoApp}
    BY <1>4 DEF S!PollLooks, S!focus, S!tracker, S!record
  <2> QED BY <2>1 DEF Switching, Tracked, Walked, Flipped
<1> QED BY <1>1, <1>2, <1>3, <1>4, PromotesKeeps DEF S!Next

\* No press of a hold lands on an application shown before all were.
LEMMA LandsOnNext ==
  ASSUME Switching, session # S!NoSession, S!Continue(FALSE)
  PROVE  \/ session'.cursor \notin visited
         \/ session.cursor \notin S!ToSet(session'.snapshot)
         \/ S!ToSet(session'.snapshot) \subseteq visited
<1> DEFINE l == S!HeldSnapshot
           from == session.cursor
<1>1. l # <<>> /\ session' = [snapshot |-> l, cursor |-> S!Landing(l, from, FALSE)]
  BY DEF S!Continue, S!Land
<1>2. /\ l \in Seq(Apps) /\ Distinct(l) /\ Round(l, from, visited) /\ from \in visited
      /\ l # <<>> => Len(l) >= 1
  BY FrozenIs DEF Switching
<1> HIDE DEF l
<1> SUFFICES ASSUME from \in S!ToSet(l), S!Landing(l, from, FALSE) \in visited
             PROVE  S!ToSet(l) \subseteq visited
  BY <1>1
<1>3. PICK k \in 1..Len(l) : l[k] = from
  BY <1>2 DEF S!ToSet
<1> DEFINE t == IF k = Len(l) THEN 1 ELSE k + 1
<1>4. t \in 1..Len(l)
  BY <1>3
<1>5. S!Landing(l, from, FALSE) = l[t]
  BY <1>1, <1>2, <1>3, LandsIn
<1> HIDE DEF t
<1>6. Round(l, l[k], visited) /\ l[k] \in visited /\ l[t] \in visited => Members(l) \subseteq visited
  BY <1>2, <1>3, <1>4, RoundOn DEF t
<1>7. Members(l) = S!ToSet(l)
  BY DEF Members, S!ToSet
<1> QED BY <1>2, <1>3, <1>5, <1>6, <1>7

\* The first press of a session after one that nothing has disturbed.
LEMMA LandsBack ==
  ASSUME Switching, session = S!NoSession, flip # S!NoFlip, S!Start(FALSE)
  PROVE  session'.cursor = flip[1]
<1> DEFINE from == flip[1]
           to == flip[2]
<1>1. /\ mru \in Seq(Apps) /\ Distinct(mru) /\ Tracked
      /\ lie = workspace /\ lastAx = to /\ from \in running /\ to \in running
      /\ from \in Apps /\ to \in Apps
      /\ IF from = to THEN running = {from}
         ELSE Len(mru) >= 2 /\ {mru[1], mru[2]} = {from, to}
  BY DEF Switching, Tracked, Flipped
<1>2. S!Origin = to
  BY <1>1, SwitcherConstants DEF Tracked, S!Origin, S!EffectiveFront, S!Believed
<1>3. S!Stale = mru
  BY DEF S!Stale, S!NoSession
<1> DEFINE order == S!Ranked(mru)
           l == S!FreshSnapshot(order)
           target == S!Landing(l, to, FALSE)
<1>4. session'.cursor = target
  <2>1. \E x \in {target} : session' = [snapshot |-> l, cursor |-> x]
    BY <1>2, <1>3 DEF S!Start, S!Land
  <2> HIDE DEF target
  <2> QED BY <2>1
<1> SUFFICES target = from
  BY <1>4
<1>5. CASE from = to
  <2>1. target \in running
    BY <1>1, <1>2, FirstPress
  <2> QED BY <1>1, <1>5, <2>1
<1>6. CASE from # to
  <2> DEFINE new == running \ S!ToSet(mru)
             more == S!SetToSeq(new)
             long == mru \o more
  <2>1. more \in Seq(Apps)
    <3>1. IsFiniteSet(new) /\ new \subseteq Apps
      BY <1>1, SwitcherConstants, FS_Subset DEF Tracked
    <3> HIDE DEF new
    <3>2. more \in Seq(new)
      BY <3>1, Enumerates
    <3> HIDE DEF more
    <3> QED BY <3>1, <3>2
  <2>2. order = S!Promoted(long, to)
    BY <1>2 DEF S!Ranked
  <2> HIDE DEF more, order
  <2>3. long \in Seq(Apps) /\ Len(long) >= 2 /\ long[1] = mru[1] /\ long[2] = mru[2]
    BY <1>1, <1>6, <2>1
  <2> HIDE DEF long
  <2>4. Len(order) >= 2 /\ order[1] = to /\ order[2] = from
    <3>1. {long[1], long[2]} = {to, from} /\ to # from
      BY <1>1, <1>6, <2>3
    <3> DEFINE q == S!Promoted(long, to)
    <3>2. to \in Apps /\ from \in Apps /\ long \in Seq(Apps) /\ Len(long) >= 2
      BY <1>1, <2>3
    <3> HIDE DEF from, to
    <3>3. Len(q) >= 2 /\ q[1] = to /\ q[2] = from
      BY <3>1, <3>2, PromotedPair
    <3> QED BY <2>2, <3>3
  <2>5. order \in Seq(Apps) /\ Distinct(order)
    BY <1>1, RankedIs DEF order
  <2>6. l \in Seq(Apps) /\ Distinct(l) /\ Len(l) >= 2 /\ l[1] = to /\ l[2] = from
    <3>1. /\ l \in Seq(Apps)
          /\ Distinct(order) => Distinct(l)
      BY <2>5, OnlyKeeps DEF S!FreshSnapshot
    <3>2. Len(l) >= 2 /\ l[1] = order[1] /\ l[2] = order[2]
      BY <1>1, <2>4, <2>5, TwoKept DEF S!FreshSnapshot
    <3> QED BY <2>4, <2>5, <3>1, <3>2
  <2> HIDE DEF l
  <2>7. S!Landing(l, to, FALSE) = l[IF 1 = Len(l) THEN 1 ELSE 1 + 1]
    <3>1. Len(l) >= 1 /\ 1 \in 1..Len(l)
      BY <2>6
    <3> QED BY <2>6, <3>1, LandsIn
  <2>8. (IF 1 = Len(l) THEN 1 ELSE 1 + 1) = 2
    BY <2>6
  <2> QED BY <2>6, <2>7, <2>8
<1> QED BY <1>5, <1>6

\* A press of Tab lands where the user expects: on an application not shown in this hold of
\* Cmd until all have been, and back where the user was on the first press after one, for
\* any number of applications, sessions, launches, quits and looks of the poller.
THEOREM SwitchesAreExpected == Spec => SwitchesLand
<1>1. Init => Switching
  <2> SUFFICES ASSUME Init PROVE Switching
    OBVIOUS
  <2>1. /\ running = Apps /\ front \in Apps /\ workspace = front /\ mru = <<>>
        /\ session = S!NoSession /\ poller = [seen |-> S!NoApp, promotes |-> S!NoApp]
        /\ flip = S!NoFlip
    BY DEF Init, S!Init
  <2>2. mru \in Seq(Apps) /\ Distinct(mru)
    BY <2>1 DEF Distinct
  <2> QED BY <2>1, <2>2 DEF Switching, Tracked, Walked, Flipped
<1>2. ASSUME UNCHANGED switcherVars PROVE UNCHANGED S!switcherVars
  BY <1>2 DEF switcherVars, S!switcherVars, S!focus, S!tracker, S!record
<1>3. ASSUME [Next]_vars PROVE S!Next \/ UNCHANGED switcherVars
  BY <1>3 DEF Next, Keyboard, Switcher, Mouse, Volume, Paste, vars
<1>4. Switching /\ [Next]_vars => Switching'
  <2>1. ASSUME Switching, UNCHANGED switcherVars PROVE Switching'
    BY <2>1 DEF switcherVars, Switching, Tracked, Walked, Flipped
  <2> QED BY <1>3, <2>1, SwitchingKeeps
<1>5. Switching /\ [Next]_vars =>
        [session # S!NoSession /\ session' # S!NoSession /\ S!Tab(FALSE, FALSE) =>
           \/ session'.cursor \notin visited
           \/ session.cursor \notin S!ToSet(session'.snapshot)
           \/ S!ToSet(session'.snapshot) \subseteq visited]_(S!switcherVars)
  <2> SUFFICES ASSUME Switching, session # S!NoSession, session' # S!NoSession, S!Tab(FALSE, FALSE)
               PROVE  \/ session'.cursor \notin visited
                      \/ session.cursor \notin S!ToSet(session'.snapshot)
                      \/ S!ToSet(session'.snapshot) \subseteq visited
    OBVIOUS
  <2>1. S!Continue(FALSE)
    BY DEF S!Tab, S!Abandon
  <2> QED BY <2>1, LandsOnNext
<1>6. Switching /\ [Next]_vars =>
        [session = S!NoSession /\ flip # S!NoFlip /\ S!Tab(FALSE, FALSE) =>
           session'.cursor = flip[1]]_(S!switcherVars)
  <2> SUFFICES ASSUME Switching, S!Tab(FALSE, FALSE), session = S!NoSession, flip # S!NoFlip
               PROVE  session'.cursor = flip[1]
    OBVIOUS
  <2>1. S!Start(FALSE)
    BY DEF S!Tab, S!Continue, S!Abandon
  <2> QED BY <2>1, LandsBack
<1> QED BY <1>1, <1>4, <1>5, <1>6, PTL DEF Spec, SwitchesLand, S!SwitchesLand, S!HoldReachesAll,
           S!TabTabReturns
==============================================================================
