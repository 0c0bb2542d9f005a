------------------------------- MODULE Pointer -------------------------------
(***************************************************************************)
(* The mouse half of the input handler (input.rs): client coordinates are  *)
(* mapped onto a display whose bounds are looked up at most every so often, *)
(* buttons turn moves into drags, and the wheel's small steps are gathered  *)
(* into lines.  One axis of each.                                          *)
(***************************************************************************)
EXTENDS Integers

CONSTANTS
    Desktop,  \* the client's width
    Widths,   \* widths the display takes
    Scale,    \* wheel units that make a line
    Cap,      \* lines one event may scroll
    Wheel,    \* wheel units one event may carry, either way: at most 255 of the legacy
              \* PDU's, less than Cap * Scale, but up to an i32 of AInput's
    Half,     \* the accumulator is an i32, -Half..Half - 1
    MaxTurns  \* bound: wheel events

VARIABLES
    width,    \* external: the display's
    cached,   \* cached_bounds
    at,       \* last_x
    buttons,  \* left_down, right_down, middle_down
    drag,     \* history: the button the last move was posted as a drag of, or "none"
    accum,    \* scroll_v_accum
    turned, scrolled,  \* history: units received, lines posted
    last,     \* history: the lines the last event posted
    swift,    \* history: an event brought more units than the cap's
    wrapped,  \* history: the accumulator overflowed
    turns

place == <<width, cached, at, buttons, drag>>
wheel == <<accum, turned, scrolled, last, swift, wrapped, turns>>
pointerVars == <<place, wheel>>

Buttons == {"left", "right", "middle"}
Clamped(x, lo, hi) == IF x < lo THEN lo ELSE IF x > hi THEN hi ELSE x
-------------------------------------------------------------------------------
Init ==
    /\ width \in Widths /\ cached = 0 /\ at = 0 /\ buttons = {} /\ drag = "none"
    /\ accum = 0 /\ turned = 0 /\ scrolled = 0 /\ last = 0
    /\ swift = FALSE /\ wrapped = FALSE /\ turns = 0

Remode == width' \in Widths \ {width} /\ UNCHANGED <<cached, at, buttons, drag, wheel>>

\* target_bounds: the cached width, or the display's.
TargetBounds == {width} \cup ({cached} \ {0})

\* map_client_to_display: the desktop, or the content between two bars of the given
\* width, is stretched over the display; the last pixel is the end.
MapClient(x, bar, w) ==
    Clamped(IF bar = 0 THEN (x * w) \div Desktop
            ELSE (Clamped(x - bar, 0, Desktop - 2 * bar) * w) \div (Desktop - 2 * bar), 0, w - 1)

\* post_move: left before right before middle.
Dragged ==
    IF "left" \in buttons THEN "left"
    ELSE IF "right" \in buttons THEN "right"
    ELSE IF "middle" \in buttons THEN "middle" ELSE "none"

PostMove(x, w) ==
    /\ cached' = w /\ at' = x /\ drag' = Dragged
    /\ UNCHANGED <<width, buttons, wheel>>

\* Clients do send coordinates outside their desktop.
MoveTo(x, bar) == \E w \in TargetBounds : PostMove(MapClient(x, bar, w), w)

MoveRel(dx) == \E w \in TargetBounds : PostMove(Clamped(at + dx, 0, w - 1), w)

Button(b, isDown) ==
    /\ buttons' = IF isDown THEN buttons \cup {b} ELSE buttons \ {b}
    /\ UNCHANGED <<width, cached, at, drag, wheel>>

\* Rust's division truncates toward zero.
Lines(units) == IF units >= 0 THEN units \div Scale ELSE -((-units) \div Scale)

Posted(units) == Clamped(Lines(units), -Cap, Cap)

\* Mutant: a posted line takes the remainder with it.
NothingLeft(units) == 0

Remainder(units) == units - Posted(units) * Scale

\* The sum of two i32, as the release build adds them.
Wrapped(n) == IF n >= Half THEN n - 2 * Half ELSE IF n < -Half THEN n + 2 * Half ELSE n

Scroll(units) ==
    /\ turns < MaxTurns /\ turns' = turns + 1
    /\ turned' = turned + units
    /\ \E total \in {Wrapped(accum + units)} :
        /\ last' = Posted(total)
        /\ scrolled' = scrolled + Posted(total)
        /\ accum' = Remainder(total)
        /\ wrapped' = (wrapped \/ total # accum + units)
    /\ swift' = (swift \/ units > Cap * Scale \/ -units > Cap * Scale)
    /\ UNCHANGED place

Next ==
    \/ Remode
    \/ \E x \in 0..(Desktop + 1), bar \in {0, 1} : MoveTo(x, bar)
    \/ \E dx \in {-1, 1} : MoveRel(dx)
    \/ \E b \in Buttons, isDown \in BOOLEAN : Button(b, isDown)
    \/ \E units \in Wheel : Scroll(units) \/ Scroll(-units)

Spec == Init /\ [][Next]_pointerVars
-------------------------------------------------------------------------------
\* No motion of the wheel is lost, whatever an event's size and sign, unless the
\* accumulator overflows.
NoneLost == ~wrapped => turned = scrolled * Scale + accum

\* Lines are kept back, for later turns to scroll whichever way they go, only when the
\* last event already posted the cap in their direction, and only once an event of
\* AInput's brought more than that: after the legacy PDU's, a turn never scrolls for an
\* earlier one nor against its own direction.
NoneKeptBack ==
    /\ accum >= Scale => last = Cap
    /\ accum <= -Scale => last = -Cap
    /\ ~swift => accum \in (1 - Scale)..(Scale - 1)

\* Together: what the wheel turned is what the Mac scrolls.
WheelKeepsUp == NoneLost /\ NoneKeptBack

===============================================================================
