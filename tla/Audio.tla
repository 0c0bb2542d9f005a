-------------------------------- MODULE Audio --------------------------------
(***************************************************************************)
(* Sound of the Mac for the client (audio.rs).  Each connection's sound    *)
(* channel starts a thread with a capture loop of its own; the threads     *)
(* share one generation, one queue of waves that outlives connections, and *)
(* the flag of the resync hotkey.  Nothing joins a thread: a loop looks at *)
(* the generation between two samples, and while a session is handed over  *)
(* two connections start and stop loops in any order.                      *)
(***************************************************************************)
EXTENDS Naturals

CONSTANTS
    Sessions,     \* connections, by number
    MaxHotkeys    \* bound: uses of the resync hotkey

VARIABLES
    generation,
    myGen,       \* of each backend; 0 before start
    channel,     \* the sound channel of each connection: idle | open | closed
    capture,     \* its loop: none | asks | top | looks | swaps | waits | backs | ended
    silent,      \* the loop gave up before its first stream
    resync,      \* RESYNC_AUDIO
    since,       \* suppressed_since of each loop: no | fresh | old
    suppressed,  \* the client is minimised
    foreign,     \* history: waves queued by each loop after it was superseded
    hotkeys

audioVars == <<generation, myGen, channel, capture, silent, resync, since, suppressed,
               foreign, hotkeys>>

Running(s) == capture[s] \notin {"none", "ended"}
Mine(s) == generation = myGen[s]
Goes(s, to) == capture' = [capture EXCEPT ![s] = to]
-------------------------------------------------------------------------------
AudioTypeOK ==
    /\ generation \in Nat /\ myGen \in [Sessions -> Nat]
    /\ channel \in [Sessions -> {"idle", "open", "closed"}]
    /\ capture \in [Sessions -> {"none", "asks", "top", "looks", "swaps", "waits", "backs",
                                 "ended"}]
    /\ silent \subseteq Sessions /\ resync \in BOOLEAN /\ suppressed \in BOOLEAN
    /\ since \in [Sessions -> {"no", "fresh", "old"}]
    /\ foreign \in [Sessions -> Nat] /\ hotkeys \in 0..MaxHotkeys

Init ==
    /\ generation = 0 /\ myGen = [s \in Sessions |-> 0]
    /\ channel = [s \in Sessions |-> "idle"] /\ capture = [s \in Sessions |-> "none"]
    /\ silent = {} /\ resync = FALSE /\ suppressed = FALSE
    /\ since = [s \in Sessions |-> "no"] /\ foreign = [s \in Sessions |-> 0] /\ hotkeys = 0
-------------------------------------------------------------------------------
(* The channel's backend.                                                  *)

Start(s) ==
    /\ channel[s] = "idle"
    /\ channel' = [channel EXCEPT ![s] = "open"]
    /\ generation' = generation + 1
    /\ myGen' = [myGen EXCEPT ![s] = generation + 1]
    /\ Goes(s, "asks")
    /\ UNCHANGED <<silent, resync, since, suppressed, foreign, hotkeys>>

\* Mutant: whoever has started since is superseded, too.
Bumped(s) == generation + 1

\* stop: only if nobody has started since.
Superseding(s) == IF Mine(s) THEN myGen[s] + 1 ELSE generation

Stop(s) ==
    /\ channel[s] = "open"
    /\ channel' = [channel EXCEPT ![s] = "closed"]
    /\ generation' = Superseding(s)
    /\ UNCHANGED <<myGen, capture, silent, resync, since, suppressed, foreign, hotkeys>>

Hotkey ==
    /\ hotkeys < MaxHotkeys /\ hotkeys' = hotkeys + 1
    /\ resync' = TRUE
    /\ UNCHANGED <<generation, myGen, channel, capture, silent, since, suppressed, foreign>>

Minimised ==
    /\ suppressed' = ~suppressed
    /\ UNCHANGED <<generation, myGen, channel, capture, silent, resync, since, foreign, hotkeys>>
-------------------------------------------------------------------------------
(* capture_loop.                                                           *)

looping == <<generation, myGen, channel, suppressed, hotkeys>>

\* What it asks for first is asked once: displays, resampler, encoder.
Prepared(s) ==
    /\ capture[s] = "asks"
    /\ \/ Goes(s, "top") /\ UNCHANGED silent
       \/ Goes(s, "ended") /\ silent' = silent \cup {s}
    /\ UNCHANGED <<looping, resync, since, foreign>>

\* 'reconnect
Begins(s) ==
    /\ capture[s] = "top"
    /\ IF Mine(s) THEN \E to \in {"looks", "backs"} : Goes(s, to) ELSE Goes(s, "ended")
    /\ UNCHANGED <<looping, silent, resync, since, foreign>>

BackedOff(s) ==
    /\ capture[s] = "backs" /\ Goes(s, "top")
    /\ UNCHANGED <<looping, silent, resync, since, foreign>>

\* Mutant: the generation is looked at where a stream is begun, and there only.
NotYet(s) == "swaps"

Afresh(s) == IF Mine(s) THEN "swaps" ELSE "ended"

Looks(s) ==
    /\ capture[s] = "looks" /\ Goes(s, Afresh(s))
    /\ UNCHANGED <<looping, silent, resync, since, foreign>>

Swaps(s) ==
    /\ capture[s] = "swaps"
    /\ resync' = FALSE
    /\ Goes(s, IF resync THEN "top" ELSE "waits")
    /\ UNCHANGED <<looping, silent, since, foreign>>

StreamEnds(s) ==
    /\ capture[s] = "waits" /\ Goes(s, "backs")
    /\ UNCHANGED <<looping, silent, resync, since, foreign>>

\* A second of being minimised has passed.
Debounced(s) ==
    /\ since[s] = "fresh" /\ since' = [since EXCEPT ![s] = "old"]
    /\ UNCHANGED <<looping, capture, silent, resync, foreign>>

\* The gate of a client that is minimised for long.
Dropped(s) == suppressed /\ since[s] = "old"

\* A wave for the queue, from a loop of a superseded connection.
Foreign(s) == ~Mine(s) /\ ~Dropped(s)

\* A sample with a whole chunk.
Sample(s) ==
    /\ capture[s] = "waits" /\ Goes(s, "looks")
    /\ since' = [since EXCEPT ![s] = IF ~suppressed THEN "no" ELSE IF @ = "no" THEN "fresh" ELSE @]
    /\ foreign' = [foreign EXCEPT ![s] = IF Foreign(s) THEN @ + 1 ELSE @]
    /\ UNCHANGED <<looping, silent, resync>>

\* A chunk the resampler refuses ends the loop.
Refused(s) ==
    /\ capture[s] = "waits" /\ ~Dropped(s)
    /\ Goes(s, "ended") /\ silent' = silent \cup {s}
    /\ UNCHANGED <<looping, resync, since, foreign>>

Loop(s) == Prepared(s) \/ Begins(s) \/ BackedOff(s) \/ Looks(s) \/ Swaps(s)
-------------------------------------------------------------------------------
AudioNext ==
    \/ Hotkey \/ Minimised
    \/ \E s \in Sessions :
          Start(s) \/ Stop(s) \/ Loop(s) \/ StreamEnds(s) \/ Debounced(s) \/ Sample(s) \/ Refused(s)

\* A loop runs on; a stream that is asked for again and again starts in the
\* end; the system delivers samples while a stream runs, silence included.
AudioFair ==
    \A s \in Sessions :
        /\ WF_audioVars(Loop(s)) /\ WF_audioVars(Sample(s))
        /\ SF_audioVars(Begins(s) /\ capture'[s] # "backs")

AudioSpec == Init /\ [][AudioNext]_audioVars /\ AudioFair
-------------------------------------------------------------------------------
Latest(s) == \A t \in Sessions : myGen[t] <= myGen[s]

\* Whatever the order in which the connections of a handover start and stop,
\* it comes again and again to this: the last one to start, if its channel is
\* open, has a stream and waits for a sample, and no loop of another runs.
LastStartedIsHeard ==
    []<>(\A s \in Sessions :
            /\ Running(s) => Mine(s)
            /\ channel[s] = "open" /\ Latest(s) => capture[s] = "waits" \/ s \in silent)

\* The queue is shared: once another connection has started, an old loop puts
\* at most one more sample, in the old connection's format, among the new one's.
OneForeignSample == \A s \in Sessions : foreign[s] <= 1
=============================================================================
