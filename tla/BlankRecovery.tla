---------------------------- MODULE BlankRecovery ----------------------------
(***************************************************************************)
(* The blank-presentation detector (h264.rs).  The client reports for each *)
(* frame how long it took to decode and render it; a run of zeros while it *)
(* acknowledges frames is read as a black picture, and answered first by a *)
(* core reactivation, then by dropping the connection, which the client    *)
(* opens again.  Every step runs in the session's one task.                *)
(*                                                                         *)
(* Tallies are only ever compared with thresholds, so they stop at Enough; *)
(* clocks count the deadlines they have passed.                            *)
(***************************************************************************)
EXTENDS Integers

CONSTANTS
    MinQoe, MinRender,           \* min_qoe_reports, min_render_reports
    Established, EstablishedQoe, EstablishedWall, \* established_render_reports, _min_qoe, _wall_reports
    MinReports,                  \* blank_min_reports
    MaxAttempts, MaxDrops,       \* max_attempts, max_consecutive_drops
    Enough,                      \* bound: a tally that reaches every threshold
    MaxConns                     \* bound: connections

VARIABLES
    sessions,       \* connections so far; the last is the current one
    live,        \* it has not ended
    trusted,     \* its round trip lets blank_rtt_gate arm the detector
    qoe,         \* QoeEvidence
    acks,        \* none seen | flowing | suspended
    attempts,    \* blank_recovery_attempts
    ackedSince,  \* a frame was acknowledged since the last attempt
    age,         \* deadlines passed since the connection: arm_delay, blank_max_wait
    waited,      \* since the last attempt: retry_interval, heal_confirm_deadline
    dull,        \* established_max_wait has passed since the last nonzero report
    drops,       \* consecutive_blank_drops, of the process
    request,     \* reactivate_request, of the process
    quit,        \* a Quit is queued
    reactivated, \* history: the current connection was reactivated
    heard,       \* history: a zero was reported since the last attempt
    unhealed     \* history: drops of connections never established, since one was

clocks == <<age, waited, dull>>
client == <<qoe, acks, ackedSince>>
asked  == <<request, quit, reactivated>>
record == <<heard, unhealed>>
connection == <<sessions, live, trusted>>
vars == <<connection, client, clocks, attempts, drops, asked, record>>
-------------------------------------------------------------------------------
Evidence == [zeros : 0..Enough, run : 0..Enough, best : 0..Enough, reports : 0..Enough,
             zerosSince : 0..Enough, bestSince : 0..Enough, clean : BOOLEAN]

TypeOK ==
    /\ sessions \in 1..MaxConns /\ live \in BOOLEAN /\ trusted \in BOOLEAN
    /\ qoe \in Evidence /\ acks \in {"none", "flowing", "suspended"}
    /\ attempts \in 0..MaxAttempts /\ ackedSince \in BOOLEAN
    /\ age \in 0..2 /\ waited \in 0..2 /\ dull \in BOOLEAN
    /\ drops \in 0..MaxConns /\ unhealed \in 0..MaxConns
    /\ request \in BOOLEAN /\ quit \in BOOLEAN /\ reactivated \in BOOLEAN /\ heard \in BOOLEAN

NoEvidence == [zeros |-> 0, run |-> 0, best |-> 0, reports |-> 0,
               zerosSince |-> 0, bestSince |-> 0, clean |-> FALSE]

Init ==
    /\ sessions = 1 /\ live = TRUE /\ trusted \in BOOLEAN
    /\ qoe = NoEvidence /\ acks = "none" /\ ackedSince = FALSE
    /\ age = 0 /\ waited = 0 /\ dull = FALSE
    /\ attempts = 0 /\ drops = 0 /\ request = FALSE /\ quit = FALSE
    /\ reactivated = FALSE /\ heard = FALSE /\ unhealed = 0

\* What belongs to the process survives: the drops in a row, and a reactivation
\* nobody has taken.
Reconnect ==
    /\ ~live /\ sessions < MaxConns
    /\ sessions' = sessions + 1 /\ live' = TRUE /\ trusted' \in BOOLEAN
    /\ qoe' = NoEvidence /\ acks' = "none" /\ ackedSince' = FALSE
    /\ age' = 0 /\ waited' = 0 /\ dull' = FALSE /\ attempts' = 0
    /\ reactivated' = FALSE /\ heard' = FALSE
    /\ UNCHANGED <<drops, request, quit, unhealed>>

\* The client leaves, or the session takes the Quit.
Leave ==
    /\ live /\ live' = FALSE
    /\ UNCHANGED <<sessions, trusted, client, clocks, attempts, drops, asked, record>>

TakeQuit ==
    /\ live /\ quit
    /\ live' = FALSE /\ quit' = FALSE
    /\ UNCHANGED <<sessions, trusted, client, clocks, attempts, drops, request, reactivated, record>>

OnFrameAck(suspended) ==
    /\ live
    /\ acks' = IF suspended THEN "suspended" ELSE "flowing"
    /\ ackedSince' = (ackedSince \/ ~suspended)
    /\ UNCHANGED <<connection, qoe, clocks, attempts, drops, asked, record>>

Up(n) == IF n < Enough THEN n + 1 ELSE n
Best(a, b) == IF a > b THEN a ELSE b

\* QoeEvidence::record.
RecordNonzero ==
    LET run == Up(qoe.run) IN
    [qoe EXCEPT !.reports = Up(@), !.zeros = 0, !.run = run,
                !.best = Best(@, run), !.bestSince = Best(@, run)]

RecordZero ==
    [qoe EXCEPT !.reports = Up(@), !.run = 0, !.zeros = Up(@), !.zerosSince = Up(@)]

\* Mutant: one nonzero report clears the zeros of the window.
RecordedInterrupted(nonzero) ==
    IF nonzero THEN [RecordNonzero EXCEPT !.zerosSince = 0] ELSE RecordZero

Recorded(nonzero) == IF nonzero THEN RecordNonzero ELSE RecordZero

\* A sustained run before any attempt clears the connection for good.
OnQoeMetrics(nonzero) ==
    LET seen == Recorded(nonzero) IN
    /\ live
    /\ qoe' = [seen EXCEPT !.clean = @ \/ (attempts = 0 /\ seen.run >= MinRender)]
    /\ dull' = (dull /\ ~nonzero)
    /\ heard' = (heard \/ ~nonzero)
    /\ unhealed' = IF seen.best >= Established THEN 0 ELSE unhealed
    /\ UNCHANGED <<connection, acks, ackedSince, age, waited, attempts, drops, asked>>

Age == /\ live /\ age < 2 /\ age' = age + 1
       /\ UNCHANGED <<connection, client, waited, dull, attempts, drops, asked, record>>
Wait == /\ live /\ waited < 2 /\ waited' = waited + 1
        /\ UNCHANGED <<connection, client, age, dull, attempts, drops, asked, record>>
Dull == /\ live /\ ~dull /\ dull' = TRUE
        /\ UNCHANGED <<connection, client, age, waited, attempts, drops, asked, record>>
-------------------------------------------------------------------------------
(* submit_bgra: the detector, at each capture.                             *)

IsEstablished == qoe.best >= Established

\* After an attempt: the client decodes what it is sent, and no sustained run, or
\* no report at all, confirms the picture.
Unconfirmed ==
    /\ attempts >= 1 /\ waited = 2 /\ ackedSince
    /\ qoe.bestSince < MinRender
    /\ qoe.reports = 0 \/ qoe.zerosSince >= MinReports

BlankEvidence ==
    \/ qoe.zeros >= (IF IsEstablished THEN EstablishedQoe ELSE MinQoe)
    \/ IsEstablished /\ dull /\ qoe.zeros >= EstablishedWall
    \/ Unconfirmed
    \/ ~IsEstablished /\ age = 2 /\ qoe.zeros >= MinReports

\* should_blank_recover.
ShouldBlankRecover ==
    /\ trusted /\ ~qoe.clean
    /\ BlankEvidence /\ qoe.run < MinRender
    /\ acks = "flowing" /\ age >= 1 /\ waited >= 1 /\ attempts < MaxAttempts

\* Mutant: a short run of nonzero reports ends the count of drops.
ClearedByRun == IF drops # 0 /\ qoe.best >= MinRender THEN 0 ELSE drops

\* storm_guard_should_reset.
DropsInARow == IF drops # 0 /\ IsEstablished THEN 0 ELSE drops

\* blank_drop_capped.
Capped == MaxDrops > 0 /\ DropsInARow >= MaxDrops

\* The first attempt is a reactivation, the others drop.
First == attempts = 0

\* Mutant: a reactivation leaves the evidence of the window before it.
KeptStreaks(e) == e

\* QoeEvidence::reset_streaks.
ResetStreaks(e) ==
    [e EXCEPT !.zeros = 0, !.run = 0, !.reports = 0, !.zerosSince = 0, !.bestSince = 0]

Attempted ==
    /\ attempts' = attempts + 1 /\ waited' = 0 /\ ackedSince' = FALSE
    /\ qoe' = ResetStreaks(qoe) /\ heard' = FALSE

PerformBlankReactivate ==
    /\ ShouldBlankRecover /\ First
    /\ Attempted
    /\ request' = TRUE /\ reactivated' = TRUE
    /\ drops' = DropsInARow
    /\ UNCHANGED <<connection, acks, age, dull, quit, unhealed>>

PerformBlankDrop ==
    /\ ShouldBlankRecover /\ ~First /\ ~Capped
    /\ Attempted
    /\ drops' = DropsInARow + 1 /\ unhealed' = IF IsEstablished THEN unhealed ELSE unhealed + 1
    /\ quit' = TRUE
    /\ UNCHANGED <<connection, acks, age, dull, request, reactivated>>

\* The storm guard withholds the drop, and every later attempt.
GiveUp ==
    /\ ShouldBlankRecover /\ ~First /\ Capped
    /\ attempts' = MaxAttempts /\ drops' = DropsInARow
    /\ UNCHANGED <<connection, client, clocks, asked, record>>

Quiet ==
    /\ ~ShouldBlankRecover /\ drops # DropsInARow
    /\ drops' = DropsInARow
    /\ UNCHANGED <<connection, client, clocks, attempts, asked, record>>

Capture == live /\ (PerformBlankReactivate \/ PerformBlankDrop \/ GiveUp \/ Quiet)

\* The capture loop takes the request and resizes the session to its own size.
TakeReactivateRequest ==
    /\ live /\ request
    /\ request' = FALSE
    /\ UNCHANGED <<connection, client, clocks, attempts, drops, quit, reactivated, record>>

Report == \E nonzero \in BOOLEAN : OnQoeMetrics(nonzero)

Next ==
    \/ Reconnect \/ Leave \/ TakeQuit
    \/ (\E suspended \in BOOLEAN : OnFrameAck(suspended)) \/ Report
    \/ Age \/ Wait \/ Dull \/ Capture \/ TakeReactivateRequest

Spec == Init /\ [][Next]_vars

\* Captures and the clocks keep coming; the client acknowledges what it decodes and
\* keeps reporting zeros, perhaps with nonzero reports between them.
FairSpec ==
    /\ Spec
    /\ WF_vars(Capture) /\ WF_vars(Age) /\ WF_vars(Wait)
    /\ WF_vars(OnFrameAck(FALSE)) /\ WF_vars(OnQoeMetrics(FALSE))
-------------------------------------------------------------------------------
(* Properties.                                                             *)

\* The reconnect storm is bounded: no more drops in a row than the cap, counting
\* over connections, unless one of them was established in between.
StormIsBounded == MaxDrops > 0 => unhealed <= MaxDrops

\* A connection is dropped only after its reactivation, and only on what the client
\* reported after that, or on its silence until the deadline.
DropIsEarned ==
    [][quit' /\ ~quit => reactivated /\ (heard \/ waited = 2)]_vars

\* A client that stays blank after the reactivation is not left there: unless it
\* shows a sustained run of nonzero reports, stops its acknowledgements, or goes,
\* the next attempt comes, also when single nonzero reports break up its zeros.
BlankEscalates ==
    attempts = 1 /\ trusted /\ live ~>
        attempts = MaxAttempts \/ qoe.bestSince >= MinRender \/ acks = "suspended" \/ ~live
===============================================================================
