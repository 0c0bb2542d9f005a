# macrdp in TLA+

macrdp is an RDP server for macOS, written in Rust: a Windows, Linux or mobile
client connects, authenticates, and sees the Mac's desktop as an H.264 (EGFX) or
bitmap stream, with audio, clipboard, drives, smart cards, USB devices and
cameras redirected through virtual channels, and with an optional UDP transport
for the graphics. The protocol core lives in vendored and heavily changed
IronRDP crates under `src/vendor/`; what is specific to macOS is under `src/src/`.

This directory holds TLA+ models of that program, the TLC configurations that
check them, and theorems about them with proofs that TLAPS checks. Everything
here is translated from the source; `PROJECT.json` names, for every definition,
the lines it stands for.

    tlc -config MCTunnelBinding.cfg MCTunnelBinding.tla     # check a model
    tlapm TunnelBinding_proofs.tla                          # check its proofs

Paths below are relative to the repository root; `server.rs` and `rdpdr.rs` are in
`vendor/macrdp-server/src/`, `listener.rs` and `mod.rs` in its `multitransport/`
directory, `state.rs` is `vendor/ironrdp-rdpeudp/src/state.rs`; every other file named
without a directory is in `src/`.


## 1. The modules at a glance

| Module | Models | Run | Proofs |
|---|---|---|---|
| `TunnelBinding` | offer cookies, registry, bound flags, peers, Soft-Sync, the retreat to TCP, tunnel death and cooldown | `tunnel`, `live_session` | `TunnelBinding_proofs` |
| `SessionHandover` | `RdpServer::run`: accept race, candidates, eviction, hand-off, backlog, handler hooks | `handover` | `SessionHandover_proofs` |
| `LiveResize` | client layouts, `PendingResize`, the capture loop's resize, reactivation, the sizes of a session | `live_session` | `LiveResize_proofs` |
| `RdpeudpTransport` | the RDPEUDP v1 reliable state machine, both ends, over a lossy network | `transport`, `live_session` | `RdpeudpTransport_proofs` |
| `ReliableStream` | the abstract specification `RdpeudpTransport` implements | `transport` | `RdpeudpTransport_proofs` |
| `AuthGuard` | rate limit, lockout, pruning and cap per source address | `auth_guard` | `AuthGuard_proofs` |
| `FramePipeline` | captures, encoder, ship threads, surfaces, acks, throttles | `frame_pipeline` | `Video_proofs` |
| `RateControl` | the adaptive controller of bit rate, frame rate and periodic IDRs | `video_control` | `Video_proofs` |
| `BlankRecovery` | the blank-presentation detector, across connections | `video_control` | `Video_proofs` |
| `CaptureLoop` | `next_update`: bitmap queue, flush, keyboard refresh, rest | `video_control` | `Video_proofs` |
| `Input` | modifiers, hotkeys, remapped shortcuts, translated text | `desktop` | `Desktop_proofs` |
| `AppSwitcher` | Cmd+Tab over the Accessibility API, the order of recent use | `desktop` | `Desktop_proofs` |
| `Pointer` | client coordinates, drags, the wheel | `desktop` | `Desktop_proofs` |
| `DriveFiles` | NFS requests over handles and ids of a redirected drive | `desktop` | `Desktop_proofs` |
| `FileDownload` | files of the client pasted on the Mac, chunk by chunk | `desktop` | `Desktop_proofs` |
| `HeadlessOverlay` | the overlay over the physical panels, its watcher, three modes | `services` | `Services_proofs` |
| `Clipboard` | poller, offers and retries, remote copies, stale pasteboards | `services` | `Services_proofs` |
| `Audio` | capture loops of successive connections over shared state | `services` | `Services_proofs` |
| `DriveMounts` | volumes across connections, signals, crashes and restarts | `services` | `Services_proofs` |
| `UsbForward` | a forwarded USB device and its transfers | `services` | - |

`MC*.tla` give the constants their values; each `.cfg` is one run. Four MC modules put
several models under one run: `MCLiveSession`, `MCVideoControl`, `MCDesktop` and
`MCServices` choose one part at the start and keep the others in an initial state. The
parts share no variable, so this checks each part as it would be checked alone; it
composes nothing, and it is not meant to. The parts that do interact are modelled
together in one module (accept loop, listener and clients in `TunnelBinding`; capture
loop, pool threads, dispatch and acceptor in `LiveResize`; capture, encoder, ship threads
and EGFX callbacks in `FramePipeline`).


## 2. Inventory of the system

### Processes and threads

The server is one process on a multi-threaded tokio runtime. What runs
concurrently, and what it shares:

- the **accept loop** (`RdpServer::run`, server.rs). One connection is served at a
  time; its future is polled in a `select!` next to the listening socket, so a new
  client can be accepted and negotiated with while the old session is alive;
- inside the served connection, **`client_loop`**: one `select!` over the client's
  PDUs, display updates, the server-event channel, audio and the tunnel's inbound
  data, plus the writer half shared through `SharedWriter`. The capture loop's
  `next_update` and the EGFX callbacks run in this task;
- the **UDP listener task**, one per process, with its own timer. It outlives every
  connection, and meets the accept loop in the `CookieRegistry` (a mutex) and in
  one `AtomicBool` per cookie;
- **VideoToolbox** and one **ship thread** per encoder, joined by a channel;
- **`spawn_blocking` tasks** for each display-control layout; the **pasteboard
  poller**; one **audio capture loop** per connection; the **focus poller** of the
  application switcher; the **overlay watcher**; tasks per NFS request, per USB
  transfer, per chunk of a pasted file; threads that mount and unmount.

Little of a session is persisted. What persists across connections is process state
that is meant to belong to one session: flags, channels, generations and `Option`
fields left by the session before. Most of the hazards are of that kind. Across
processes only mounts and mount points persist (`DriveMounts`).

### Components

Each entry: state; what is hard; what must hold. `PROJECT.json` lists the same
components with their sources and status.

**Accept loop and preemption** (server.rs) - `SessionHandover`. The served connection,
the candidate, the pending winner, `recently_evicted`, the event channel. Hard: a
takeover races the session's own end; silent candidates, wedged incumbents, clients
that reconnect by themselves. Must hold: nobody loses a session to unproven
credentials; an eviction ends the session it is about; everyone who waits is served.

**UDP tunnel binding** (listener.rs, mod.rs, server.rs) - `TunnelBinding`. Cookies,
flags, the offer, migration, peers, routes. Hard: the listener and the accept loop
touch a cookie in two steps each; clients vanish, come back on the same port, bind
late. Must hold: a raised flag has a live tunnel; a cookie binds once and never
outlives its connection; a session routes over its own tunnel or TCP.

**RDPEUDP transport** (state.rs) - `RdpeudpTransport`. Hard: wrap-around, loss,
duplication, reordering. Must hold: a reliable ordered stream.

**Live resize** (capture.rs, server.rs, acceptor) - `LiveResize`. Hard: pool threads
record while the capture loop takes; five places hold a size and change at different
times. Must hold: the sizes agree, frames fit their surface, no request is lost.

**Auth guard** (auth_guard.rs) - `AuthGuard`. Attempts, failures and cooldown per
address. Hard: entries are removed in three ways, two ways lead into the server. Must
hold: a locked address stays locked, the window bounds, honest clients get in.

**H.264/EGFX pipeline** (h264.rs, videotoolbox.rs) - `FramePipeline`, `RateControl`,
`BlankRecovery`. The connection's context, the encoder, surfaces, counters. Hard:
asynchronous output, acks that stop, threads of former encoders, decisions about an
encoder that may be rebuilt. Must hold: no IDR is forgotten, no delta without its
reference, the throttle opens again, recovery neither storms nor gives up.

**Screen capture and virtual display** (capture.rs, virtual_display, main.rs) -
`CaptureLoop`, `HeadlessOverlay`. Hard: one loop with a dozen early returns, each
leaving state for the next pass; installs that fail half-way. Must hold: what was
thrown away is repainted; panels are restored.

**Input** (input.rs) - `Input`, `Pointer`, `AppSwitcher`. Hard: the way of a key is
judged at press and release separately; NSWorkspace does not see what the
Accessibility API does. Must hold: nothing stays pressed; switches land.

**Clipboard and file promises** (clipboard.rs, file_promise.rs, file_promise_lazy.rs) -
`Clipboard`, `FileDownload`. Hard: two copiers, answers that arrive after the owner
changed. Must hold: the last copy survives; a pasted file is whole or gone.

**Drive redirection** (rdpdr.rs, rdpdr/surface.rs, reaper.rs) - `DriveFiles`,
`DriveMounts`. Hard: requests are served at the same time over cached handles; volumes
outlive their servers. Must hold: no handle leaks, no read answers from another file,
a volume stays exactly as long as its server.

**Audio** (audio.rs) - `Audio`. Hard: loops that nobody joins. Must hold: the last
connection is heard, without the samples of another.

**USB redirection** (usb_redirect/mod.rs) - `UsbForward`. Hard: transfers that wait for
ever, teardown under them. Must hold: control requests are served.

### Not modelled

- *Session dispatch* as a module of its own: the branches of `client_loop` appear in the
  models they feed. What would be new is the order of the event channel across a
  reactivation (events put back by `discard_stale_eviction_events` go behind newer ones).
- *Connection sequence* (acceptor): negotiation and reactivation are steps of
  `SessionHandover` and `LiveResize`. A data PDU under way when the session is
  deactivated ends it (connection.rs:1071); that is not shown by a model here.
- *Outbound scheduler*: not wired to the live path.
- *Camera*, *smart card*, *dynamic virtual channels*, *link measurement*: device and
  channel handshakes; the smart-card bridge binds one fixed port without a retry.
- *Codecs* (RDPEUDP wire formats, version 2, RDPDR, NSCodec, RemoteFX, AVC444), which are
  functions without state; *observability*, *start-up and CLI*, the Swift *tray
  application* and packaging, which decide nothing about a session.

### Interactions

    clients ==TCP==> accept loop --serves--> client_loop <--updates-- capture loop
       |                 |  hooks                |   \--layout--> pool threads --PendingResize--^
       |                 v                       |                        |
       |             auth guard                  | EGFX <-- ship threads <-- VideoToolbox
       |                                         v
       \====UDP===> listener task <--- CookieRegistry, bound flags ---> offer / reset
                        |
                    RDPEUDP transport (one state machine per peer)

    client_loop --PDUs--> input, clipboard, drives, USB, audio
    SessionTracker (streams in and out) --> overlay watcher

- accept loop -> listener: a cookie and its flag are issued to the registry with the
  offer, evicted with the reset. Listener -> accept loop: the flag, and a cooldown.
- `client_loop` -> listener: EGFX and audio messages routed by cookie; back: the
  tunnel's inbound bytes on a channel whose receiver is moved into `client_loop`.
- anyone -> served session: `ServerEvent`s on one unbounded channel that survives it.
- capture loop -> `client_loop`: `DisplayUpdate::Resize`, answered by a
  deactivation-reactivation in which the client may confirm another size.
- EGFX watchdog and blank detector -> server: `demigrate_request`, `reactivate_request`
  and a `Quit`, all of the process and not of the session.


## 3. TunnelBinding

**State and actions.** The accept loop's fields keep the code's names (`offerCookie` is
`current_offer_cookie`, `boundRef` is `udp_tunnel_bound`, and so on); a cookie is
the number of the connection it was issued to, 0 is `None`. `srv` says how far the
connection is. The listener has one peer per address: incarnation, stage, bound flag
and idle ticks. The clients' part is the flows they believe in and the SYN+ACKs on
their way.

- *Accept loop*: `AcceptFresh` (with `MakeOffer` or `WithholdOffer`), `SendOffer`,
  `AcceptNegotiated` (a preemption winner; it passes no offer site), `Activate`,
  `Reactivate`, `InitiateResponse`, `EgfxFrame`, `AcksSilent` (the H.264 watchdog),
  `AudioOnUdp`, `SessionEnds` and `EvictOffer`. The last two are two steps because the
  reset stores the flag and evicts the cookie without a common lock.
- *Listener*: `SynArrives`, `DatagramArrives`, `TakeCookie` then `RaiseFlag`
  (`CookieRegistry::take` removes under the lock and raises after it), `Tick` (death,
  retirement, idle collection, cooldown; all in one pass of the timer, no await in it).
  While `take` is half done the listener does nothing else, the accept loop does.
- *Clients*: `OpenFlow` (again from a port already used), `FlowOpens`, `GoesSilent`.

A UDP datagram may be lost (a client's action is never forced), repeated (an action
stays enabled) and late (after the connection it belongs to).

**Run `tunnel`** (2 interchangeable addresses, 3 connections, 2 peer entries ever, death
after 1 tick, collection after 2, cooldown 1). Three connections let state pass over a
connection that made no offer; two addresses and two entries give a rival for a cookie
and a port reused; `DeadTicks < GcTicks` keeps the two removals apart. `EntriesFit` joins
the types to what an entry of the listener may say in each stage: a flag only with a
created tunnel and the route of its cookie. `BindingSafe` is the conjunction of

- `BoundImpliesTunnel`: a raised flag is held by a peer that is routed. Three places
  remove peers; each must lower the flag, or audio is sent into nothing.
- `OneTunnelPerCookie`: a cookie is consumed once, although two peers can present it.
- `RegistryOnlyCurrent`: no cookie survives its connection.
- `SessionOwnsItsTunnel`: a session accepted afresh routes over its own tunnel or none,
  although the previous one's tunnel may still be alive. For preemption winners the
  code does not give this (they inherit; see the hazards), so it is not claimed.

Beside it, `DemigrateIsFinal`: once the watchdog put EGFX back on TCP, no repeated
Initiate Response or frame moves it to UDP again within the connection.

**Run `live_session`**, its tunnel part (1 address, 2 connections). `SilenceIsNoticed`: a
client that vanished loses its flag, and its peer entry goes, also when it never got as
far as a tunnel. Fairness: the timer (`Tick`) fires again and again, and the
listener finishes `take` (`RaiseFlag`) as a task that does not await there. Nothing is
assumed of the accept loop or of clients.

**Proved** (`TunnelBinding_proofs`, for all addresses, bounds and thresholds): all
safety properties above, each part by its own theorem, `BindingIsSafe` for the whole, and
`EntriesAreFit` (`EntriesFit`).
None is inductive. The invariant adds where a cookie can be: `FlagsRouted` (a peer's
flag belongs to a cookie that a client was told, that left the registry and is routed to
that very peer), `FlagsHeld` (a raised flag is held by a peer), `TakenFresh` (between
the removal and the store of `take` the cookie is nowhere else - without this
`RaiseFlag` could raise a flag somebody already holds), `CookiesIssued` (cookies are
issued in order, so the next offer is fresh), `EgfxAfterSoftSync` and `FreshRoute` (what
a fresh connection may still hold of its predecessor, stage by stage). Assumed of
constants: `NoAddr` is no address, bounds are naturals, `DeadTicks < GcTicks`, which the
clamp in `run_recv_loop` establishes.


## 4. SessionHandover

**State and actions.** `loop` is where `RdpServer::run` stands: `idle`, `serving`,
`evicting` (it waits at most `EVICTION_GRACE` for the incumbent), `handoff` (the incumbent
ended by itself while a candidate is being negotiated with, which gets
`CANDIDATE_HANDOFF_GRACE` to finish), `stopped`. `live`,
`probe`, `pending` are the connections in the three roles. `events` is the event
channel, reduced to the kinds that end sessions. `recently_evicted` and the time since
the last attempt are `evicted`.

`AcceptFresh`, `AcceptCandidate` (including the bounce of a recently evicted address),
`CandidateWins`, `CandidateInherits`, `CandidateFails`,
`CandidateTimesOut`, `EvictionGraceEnds`, `ServePending`, `LiveAuthenticates`,
`LiveRefused`, `LiveActivates`, `LiveEnds`, `LiveTakesEvent`, `PostQuit`, `IdleEvent`,
`Tick`. The handler hooks (`OnAccept`, `OnAuthenticated`, and the disconnect
in `Teardown`) are parts of the actions that call them. The RDP negotiation of a
candidate is one step that succeeds, fails or takes too long; the incumbent is free to
be wedged: none of its own actions is fair.

**Run `handover`** (2 addresses, 2 connections each, bar of 2 ticks, absolute limit 3).
Two connections per address make a client reconnect after its own eviction; two
addresses make a takeover. `RolesFit` joins the types to who may be live, candidate or
winner in each state of the loop. `HandoverSafe` is the conjunction of

- `EvictionReachesItsTarget`: an eviction left unread by a wedged incumbent never ends
  the session that won.
- `OneAccountPerConnection`: fresh, candidate or winner - counted once, ended at most once.
- `TakeoverNeedsProof`: nothing disturbs the live session, or becomes active, without
  validated credentials.
- `EvictedPeerWaits`: an evicted address is not negotiated with before the bar lifts,
  so two clients that reconnect by themselves do not take the session from each other
  for ever.

`EveryClientIsServed` is `BacklogServed` and `WinnerServed`: whoever waits in the
backlog is taken up, and a winner is served even when the incumbent never returns.

Fairness: `Accepting` (the listening socket is in every `select!`), `ServePending` (the
loop runs on), `CandidateTimesOut` and `EvictionGraceEnds` (tokio timers). Negotiating,
authenticating, ending and reading events are not fair: clients hang.

**Proved** (`SessionHandover_proofs`, any addresses, any number of connections, all
thresholds with the bar no longer than the limit): `RolesAreFit` (`RolesFit`) and `HandoverSafe`
(`HandoversAreSafe`), the bar as well. The invariant says which roles are taken in which
state of the loop (`Roles`), what each connection has been counted for by where it is
(`Accounts`), that an eviction is in the channel only while it is under way or left for
the winner's discard (`Evictions`), that pending winners and sessions past their
handshake are authentic (`Proven`), and that the bar's clock is the victim's (`Barred`).


## 5. LiveResize

**State and actions.** `size`/`stamp` are the two atomics of `PendingResize`; every
`request` gets a new stamp, and `quiet` says that `RESIZE_DEBOUNCE` has passed since the
last one. `taken` is the stamp the capture loop loaded. `demanded`, `encoder`,
`stream`, `surface`, `desktop` are the places a size is kept: the Demand Active, the
encoder, the capture stream, the EGFX surface and `desktop_size`. `armed` is
`suppress_next_adopt`. `args` are the two start-up options that gate resizing.

Layouts (`Layout`) become pool tasks (`TaskStarts`, then `TaskStoresSize` and
`TaskStamps` in the order of the stores); the capture loop takes a
request in three steps (`CaptureLoads`, `CaptureSwaps`, `CaptureApplies`) as
`take_settled` loads the stamp, exchanges it and then reads the size; `Deactivate`,
`Activate(echo)` and `StartStream(remoded)` are the reactivation, in which the client
confirms any size and the re-mode may fail; `Connect`, `ProbeStarts`, `ServeCandidate`,
`CandidateGone` and `SessionEnds` bring the sessions, at every point. The stores are
taken in program order: they are Relaxed, and between the load of a settled stamp and
the store it pairs with lie at least the 400 ms of the debounce.

**Run `live_session`**, its resize part (3 sizes, 2 layouts, 2 sessions, every option).
Three sizes: the session's, the one on its way, and a third that overtakes it.
`ResizesAreSound` is the conjunction of

- `SizesAgree`: Demand Active, encoder, stream and session have one size whenever the
  session is live. Three leftovers are tracked in `slack` and excepted:
  a flag left by the session before, a candidate's size at probe time, a failed re-mode.
  Of a session that inherits the flag nothing is claimed here, so that hazard is covered
  only in part: what is shown is that nothing else leaves the sizes apart.
- `FramesFitSurface`: no frame is captured at another size than its surface has.
- `ArmedForOwnResize`: while a session is served the flag is up only for its own resize.
- `PendingIsLatest`: what the capture loop reads is what was recorded last.
- `DebounceHolds`: no request is consumed unsettled, although the time is looked at
  before the exchange and another request may come between.

Beside it, `RequestsAreServed`: a settled request leads to a resize or to the end of the
session.

Fairness: time passes (`Settle`), and the capture loop, which bounds its wait to a frame
interval while a request is pending, loads, exchanges and applies. That bound is assumed
here, and taking it out of the code would not be noticed by this run; the same condition
is modelled in `CaptureLoop`, where `KeystrokesRefresh` depends on it. Clients and pool
threads are not fair. The run has deadlock checking off because the bounds on layouts
and sessions run out.

**Proved** (`LiveResize_proofs`, any sizes, any number of layouts and sessions): type
correctness and `ResizesAreSound` (`ResizesHold`). The invariant adds what the loop
knows at each of its three steps (`LoopState`), that what is recorded is a size
(`Requests`), and which places agree in which phase (`Sized`).


## 6. RdpeudpTransport and ReliableStream

**State and actions.** Two ends with the fields of `RdpeudpState` - what was sent,
released, received, the reorder buffer, the peer's number - and a set of datagrams in
the network, which `Lose` and `Repeat` change `MaxFaults` times and `Deliver` takes from
in any order. One call of the code is one action: `Deliver` is `step` with an inbound datagram
(`HandleSyn`, `HandleData`, `HandleAck`) with the pump that follows it, `ResendSyn` and
`ResendAll` are the timer. Arithmetic is modulo `SeqSpace` and comparison is by distance
(`SeqLeq`), as in the code. Payloads are numbered in the order they are written.

`ReliableStream` is the promise: what one end reads is what the other wrote, in order.
`ImplementsStream` checks that the transport implements it (the steps of the network and
of the timers stutter); `ReleasedWasRead` that the sender forgets a payload only after
the other end read it - the ack -1 of a SYN repeated late would break this if the
server's numbers could be in the upper half, and `ServerSeedAssumption` is what the code
gives: the server's first number is a count of nanoseconds below 10^9. `ReorderFits`:
the reorder buffer, which has no limit, is bounded by the sender's window. The two
together are `BuffersSound`.

**Runs.** `transport`: 8 numbers, window 2, 3 payloads one way and 1 the other, 2
faults, with the client's numbers starting close to the end of the space so that they
wrap. The flow part of `live_session`: 2 and 1 payloads, 1 fault; `EverythingArrives`
under fairness of the timer and of useful deliveries (a network that loses for ever
delivers nothing, so faults are bounded). Deadlock checking is off: everything read and
acked is the end.

**Proved** (`RdpeudpTransport_proofs`, any sequence space, first numbers, windows,
payloads and faults): `TypeCorrect`, `BuffersAreSound` (`BuffersSound`) and
`StreamIsImplemented` (`ImplementsStream`), the refinement step by step. The invariant
speaks of every datagram ever sent, since the network may keep one for ever: what it
carries belongs to a payload that was sent, and its ack to a prefix the other end has
read (`Carried`; the -1 of a repeated SYN is the one exception). Beside it stand what an
end received, in order and in the buffer (`Receiving`), how far it sent and what was
acked (`Sending`) and how far the two are with the handshake (`Opening`). Comparison by
distance is settled once, in lemmas about two numbers less than half the space apart.

One assumption came out of the proof attempt. A datagram that is half the sequence space
old reads as one to come, so the statement is false for a client that sends more than
`Half` payloads while the network still holds an early one (TLC shows it with 8 numbers
and 5 payloads). `LifetimeAssumption` excludes it: half the space is 2^31 datagrams. For
the server's direction `ServerSeedAssumption` says more already.


## 7. AuthGuard

**State and actions.** The guard's table as functions from addresses (`attempts` in the
window, `failures`, what remains of the `cooldown`, the order in which entries were
touched), and the two places of the accept loop an address can be let into: served, or
negotiated with as a candidate. `OnAccept` is `decide` with the pruning that precedes it
(`EvictStale`), the lockout before the window (`RejectCooldown`, `RejectRateLimit`), and
the accept; `OnDisconnected` classifies the outcome and records it. The end of a candidate
that is not served (`CandidateRejected`) reaches no hook, as in `RdpServer::run`: its
failures are never counted. Time is a `Tick` that ages everything.

**Run `auth_guard`** (two addresses and loopback, a table of two, threshold 1, cooldown
1 doubled to at most 2, 2 failures told apart). A table of two with two addresses and
pruning lets entries go and come back; a cap below the number of addresses would forget
lockouts, as the code says it accepts.

- `WindowBound`: no more than the limit within a window, counted at the places where
  connections are let in and not in the guard's own table.
- `LockoutHolds`: after n failures in a row the address is not let in before the
  cooldown escalated for n has passed, whatever was pruned in between.
- `RejectedGetsIn`: a rejected client that keeps trying is accepted at last; rejected
  attempts extend neither window nor lockout.

**Proved:** `LockoutsHold` (`LockoutHolds`). `Books` keeps the guard's books beside the
record of what happened: its failure count is the record's (`Counted`), and what is left
of a cooldown and what has passed since the failure make up its length (`Waited`); a tick
moves one unit from the former to the latter. Pruning and the cap clear a count and its
record together, and leave what stays as it was. `WindowsAreBounded` (`WindowBound`):
what was let in within the window is what the guard's queue still holds once its front
is popped (`Recorded`), after pruning, eviction and a tick alike; the lemmas on `Since`
say that popping twice, with a tick between, is popping once.

Fairness: `Tick`, the bound on negotiation (`CandidateRejected`), and *strong* fairness of
`OnAccept` for the addresses in `Persistent`: the loop looks at the socket again and
again, and a client that retries is there when it does. Other addresses may stay away.


## 8. FramePipeline

**State and actions.** `ctx` is `ConnectionContext` cut to what this path reads: the
surface, the encoder, `need_keyframe`, frames outstanding (`submitted - shipped`), ack
lag, suspended acks, the retreat to TCP. `vt` is the queue inside VideoToolbox, `channel`
and `batch` what each encoder's ship thread has ahead of it. One action per entry point:
`OnReady`, `OnClose`, `OnFrameAck`, `SuspendAcks`, `ResetForLiveResize`, `ForceKeyframe`,
`BlankRemap`, `Submit` (`submit_bgra` with the throttles in the order of the code, set-up
of surface and encoder, encode), `Deliver` and `LoseFrame` (the output callback),
`ShipTake` and `ShipFrames` (the two phases of `ship_frames`, between which the surface
may change).

There are four throttles, and where each stands matters. With telemetry on, an event queue
at its threshold sheds the capture before the IDR it asks for is armed (`EventQueueHigh`,
h264.rs:1731-1753); the cadence of the encoder (`early`), the frames outstanding and the
lag of the acks drop the capture after that, and keep what was armed. So this module
speaks of requests that were armed; what becomes of one that is shed is a question for
the caller, and `CaptureLoop` answers it.

**Run `frame_pipeline`** (2 encoders, surfaces and connections, 1 frame in flight, lag 1,
1 remap, 1 lost frame). Two encoders are what a thread of a former encoder needs; a limit
of one frame makes every throttle bite.

- `Ledger`: the number the drop-to-latest throttle compares is exactly the frames under
  way, plus those the encoder lost, minus those that threads of former encoders counted.
  The two corrections are what the code really has: a frame VideoToolbox drops holds its
  slot for good.
- `KeyframesHold`: an IDR that was armed - for a connection, a resize, a remap, the
  watchdog, a change, the user - stays armed or on its way to the current surface until it went out
  (`KeyframeUnderWay`), and no surface that one encoder fed is shown a frame whose
  reference it never got (`Paintable`). Excepted are runs in which a frame was lost
  in the encoder: the code arms no IDR for that.
- `KeyframeGoesOut`: it does go out, however often captures are shed in between, and
  whether the client acknowledges or not.

**Proved:** `LedgerBalances` (`Ledger`). `Balanced` adds to the equation that the thread of
the current encoder counts for the current connection (`Tied`: without it a batch would
leave the queues and not the count) and that an encoder not built yet has nothing under way
(`Unused`: a new one starts even), with the types of the queues and of the context.
`KeyframesAreHeld` (`KeyframesHold`, of the IDRs that were armed): `Watched` says which
encoder a surface belongs to and what its ship thread has in hand for it (`Owned`, `Aimed`),
that a surface nobody fed shows nothing it cannot paint (`Unfed`), that while no frame was
lost no queue holds a gap (`Whole`), and that the first frame on its way to a new surface is
an IDR (`Opened`).

Fairness: captures that get through (`Admitted`: the event queue is drained and the frame
interval passes, so that not every capture is shed or comes early), the encoder's output,
the ship threads and the clock. The client's acks are not fair.


## 9. RateControl, BlankRecovery, CaptureLoop (run `video_control`)

**RateControl.** Rates are levels, the smoothed queue delay is the zone its thresholds
cut it into, and a sample may move it to any zone; gains, levels and limits are
constants. `Interval` is one pass of `adaptive_bitrate_step`: judge, choose the actuator
(`rate_pid_actuators`), step the two controllers with their anti-windup, back off or
restore the periodic IDRs, tell the encoder (which may refuse: `failures`). The derivative
terms, 0 by default, are left out.

- `EncoderFits` joins the encoder to the controller and the controller to the link.
  `EncoderFollows`: VideoToolbox runs at the decided rate, and holds periodic IDRs back
  exactly while the controller has them backed off. One drift is excepted, and tracked
  in `late`: an encoder rebuilt during a congestion starts with the short interval
  (h264.rs:2616), and `idr_backoff_decision` tells it nothing, since it stretches on entry
  only (953); it ends with the congestion. `CongestedBacksOff`: a congested link is backed
  off, through changes of transport, of size and of connection.
- `OverloadShedsFps`: a lasting overload takes the frame rate to its floor.
- `OverloadLowersBitrate` is a statement of the source that does not hold (section 13).

**BlankRecovery.** QoE evidence (`QoeEvidence`), attempts and deadlines of a connection,
and what belongs to the process: drops in a row, the reactivation request, a queued
Quit. Tallies stop at the largest threshold, clocks count the deadlines they have
passed. `Capture` is the detector as `submit_bgra` calls it. The number of attempts is
2, one reactivation and one drop.

- `StormIsBounded`: no more drops in a row than the cap, counted by the history over
  connections, unless one was established in between.
- `DropIsEarned`: a drop comes only after the reactivation, and on evidence since.
- `BlankEscalates`: a client that stays blank after the reactivation gets the next attempt.

**CaptureLoop.** One iteration of `next_update` in pieces between its awaits: returns of
resize and pending strips, the keyboard refresh with its budget, rest while minimised,
the wait (bounded or not), and the paths of a sample: taken by EGFX, cut into strips,
overflowing. What `submit_bgra` does with a frame is a choice of this module: it answers
`Ok(true)` for a frame that was encoded (`Encoded`), dropped by a throttle that keeps the
request (`Dropped`) and shed at the event queue (`Shed`, where the request is gone), or it
fails (`Fails`), and the loop clears its own request before all of them.

- `PictureRecovers`: `LossIsRepainted`, bitmap strips thrown away stay owed as a full frame
  until one is queued whole; and `PauseEndsInRequest`, the first frame after a pause is an
  IDR for as long as the request for it was not itself lost (`outdated` is then `lapsed`).
- `PauseEndsInKeyframe` claims the same of every pause. It is what the comments say, and
  does not hold (section 13).
- `KeystrokesRefresh`: every keystroke seen gets its refresh, on a still screen too. The
  refresh is submitted; one that the event queue sheds is used up with it.

The run has two connections, one failing encoder setting, five outside events for the
capture loop, and thresholds of two and three so that each is reached in several steps.
Fairness: captures, iterations and clocks; for `BlankEscalates` a client that goes on
acknowledging and reporting zeros, since that is the case the property is about. Deadlock
checking is off: a closed connection at its bound rests.


## 10. Input, Pointer, AppSwitcher, DriveFiles, FileDownload (run `desktop`)

**Input.** The handler's modifiers, `consumed_keys` and `remapped_keys`, beside what macOS
makes of the events posted. `Key` splits into the ways of the code in their order:
hotkey, release of a consumed key, release and press of a remapped shortcut, text, plain.
A client may lose a release; sessions reconnect to the same handler.
`KeysBalance`: without a remapped shortcut held, the modifiers macOS takes as held are the
handler's (`FlagsFollow`), no application gets the bare release of a swallowed press
(`NoBareRelease`), and no key is down that the client does not hold (`NoKeyStays`). The
last has two exceptions, collected in `strays`: a key whose release was lost, and a key
held while a modifier came or went, whose release may then be swallowed as text
(input.rs:1049-1095) or as a hotkey's (992-1006). A remapped shortcut is never one of
these, nor does a change of layout, application or Caps Lock make one.

**Pointer.** `WheelKeepsUp`: units received are lines posted times the scale plus what is
kept (`NoneLost`), and what is kept is less than a line (`NoneKeptBack`). An event of the
legacy PDU carries at most 255 units and may scroll 5 lines of 60, but AInput delivers an
i32 (handler.rs:301): once one brings more than the cap (`swift`), the clamp leaves lines
behind, though only while it is posting the cap in their direction; and a sum beyond the
i32 of the accumulator wraps (`wrapped`), which loses motion. The run is scaled to 3 units
a line, a cap of 2, events of 1, 4 and 14 units either way, and an accumulator of -16..15,
so that three events reach a line, the clamp and the wrap.

**AppSwitcher.** Three applications with the lies NSWorkspace tells about activations it
did not see, the poller (looks, then promotes), the late re-raise (`Refront`), and windows
that are un-minimised on the way.
`SwitchesLand`: one hold of Cmd reaches every application although each activation
reorders the list, and two single presses return to where the user was.

**DriveFiles.** NFS requests over the handle cache and the table of ids, with the client's
tree beside them. Every await of the code lies between two actions: a read or write looks
in the cache, opens, enters the handle, sends the request under it and is answered; a
rename evicts its path, waits for the closes, evicts the target, waits again, and only then
asks the client, while other requests go on. `NoHandleLost`: a handle open at the client is
cached, in the hands of the request that opened it, or on its way to be closed. Of the
entries over the limit any but the newest may go, which includes the least recently used.
`ReadsAreCurrent`: a read answers from the file its path named as it was given its handle.
The code does not keep that promise everywhere, and the exceptions are the histories
`crossed` and `doubtful`: a handle whose open a change of names crossed (`acquire` enters
what it opened, rdpdr.rs:672-711), one in a directory that was moved (`evict_path` compares
paths for equality, 728), and one closed between being handed out and used. Everything else is
claimed, with renames and deletes at any point of other requests.

**FileDownload.** The list, the presenters' registry, chunk tasks and the router. As in the
code, a request carries an index and no list (file_promise.rs:597-610): it is answered with
the bytes of whatever list the client holds by then, all of the chunk or part of it. One
chunk is under way at a time (`LAZY_PARALLEL_CHUNKS`), and coordinated reads of one file may
overlap. `WholeOrGone`: as Finder is told that a file is ready, there was an answer for
every chunk, in its place and of the file's own list unless the client has copied others
since; or the file is gone. Excepted is a read that comes while a file that has left the
registry is fetched anew, which is not made to wait. A chunk the client cut short counts
as answered, since `chunk_task` refuses an empty answer only.

**Proved** (`Desktop_proofs`, for all sets of paths and requests, all sizes and bounds):

- `SwitchesAreExpected` (`SwitchesLand`), for any finite set of applications. `Walked`: what
  a hold of Cmd has shown reaches round the frozen list from some place to the cursor
  without a gap, whoever has quit since, so a step on to one already shown closes the round.
  `Flipped`: after an undisturbed session of one press, `lie` and `lastAx` still say which
  application is in front, and the two lead the order of use, in either order, whatever the
  poller has promoted of them. The lemmas on `Only` (`OnlyPlaces` and what follows from it)
  say that a filtered list keeps its order; `Only` stands where the code calls `retain`, in
  place of `SelectSeq`, whose recursive definition the provers cannot use.
  `SwitcherConstants`: there are finitely many applications.

- `HandlesAreKept` (`NoHandleLost`), without any assumption on the client, overlapping
  changes of names included. `HandlesSound` adds that no handle is in two entries, in an
  entry and about to be closed (`Entries`), or in two requests' hands (`InHand`).
- `ReadsStayCurrent` (`ReadsAreCurrent`), with every interleaving of requests: an entry that
  is not `doubtful` is open on what its path names (`CacheCurrent`), so is what a request
  was handed unless it is `crossed` (`HandCurrent`), by the time a rename asks the client its
  paths are out of the cache but for such entries (`MovePrepared`), and an open that a
  change of names met is marked (`Marked`). `DriveConstants` says that a path lies under
  itself and nothing else under a file.
- `FilesAreWhole` (`WholeOrGone`), with overlapping reads, short answers and answers of a
  later list: reads that fetch have files of their own (`Apart`), each chunk under way has a
  task of its own whose id no other answer carries (`Tasks`: this is what a late answer to
  an aborted neighbour runs into), the chunks asked for are under way or in place
  (`Progress`), a file taken for fetched holds an answer for each chunk (`Complete`), and
  one whose download failed or whose list was replaced is off the disk (`Gone`).
  `DownloadConstants`: the bounds are naturals.
- `WheelsKeepUp`, for events of any size: `Gathered` is the property with the types; what
  it takes is arithmetic of the truncating division and the clamp, in lemmas of their own.
- `KeysAreBalanced`: a key that is held has left a trace of the way its press took
  (`Traced`), and one that is down or swallowed and no stray will be judged at its release
  as at its press (`Judged`).

No fairness is needed here: all properties of the run are safety. Bounds: one change of
names beside another request, one file in three reads while its list is replaced by another,
three wheel events, one move and one poll for the switcher. Deadlock checking is off since
counters run out.


## 11. HeadlessOverlay, Clipboard, Audio, DriveMounts, UsbForward (run `services`)

**HeadlessOverlay.** The stream counter with tokio's `Notify` and its one stored permit,
the watcher (waits, debounces, installs, keeps, grace, removes), three modes of overlay
with their failures, and the sweeps a live resize starts. Every call to the window server
and to the shield's helper may fail, those that take back what was done included:
`remirror_onto_vd` (virtual_display/mod.rs:1009-1030), `shield::hide` in a failed install
and in Drop, the arrangement, the enabling. `PanelsRestored`: without an overlay the panel
is enabled and lit, no shield covers it, it mirrors what it did and the displays lie where
they did, after failed installs too. What is not so is in `lapsed`: it is owed to the very
call that failed, or to a SHOW that a thread of a resize sent after the Drop
(1502-1510), and to nothing else. `OverlayCatchesUp`: a session that stays gets its overlay,
and an idle server has none, however sessions come and go while the watcher sleeps. Two
streams at a time, four ever.

**Clipboard.** Content is known by the change count it was written under. The poller looks
at who is connected, and at the pasteboard a poll later; an offer counts only with a
session whose channel is ready, else it is dropped, and `OnReady` makes up for it
(clipboard.rs:460-466). A list of files is announced first and published when the download
is done, if it succeeds, after a disconnect too. Other applications write at any time,
between two calls of ours as well, since the guard is only the process's (`amid` remembers
such a copy). `CopiesSurvive`: whatever was copied last on the Mac is offered to each
client that stays (`LastCopyIsOffered`), and a cleanup never clears what somebody else
copied (`NeverStomps`); both except what is copied `amid`, which the code can take for its
own. `SameFiles` does not hold (section 13).

**Audio.** Generations, capture loops (asks, looks at the generation, looks at the resync
flag, waits, backs off), the queue of waves. `LastStartedIsHeard`: whatever the order of
starts and stops, the last connection to start comes to wait for samples and no other
loop runs; `OneForeignSample`: a superseded loop adds at most one sample.

**DriveMounts.** Volumes by mount point, with their server's task, the threads that
mount and unmount, `LIVE_MOUNTS`, a signal, a kill and the next process's `reap_stale`.
Time passes in ticks, and `MOUNT_DEFER` is what the code makes of it: a sleep
(surface.rs:610), which waits for nobody. An unmount may fail, which is logged while the
volume is unregistered all the same (653, 685-697); a mount may be overtaken by the
unmount meant for it; and the number of a dead process may have been given away again, so
that its volumes read as live (reaper.rs:18-21). `MountsFollow` joins two claims.
`OrphansGo`: a volume without a server goes, if need be by the next process after a crash,
but for names where one of these things happened (`missed`). `LiveMountStays`: a live
volume is not taken away, but by the cleaner of an earlier surface that has taken
`MOUNT_DEFER` or longer.

**Proved** (`Services_proofs`, for all bounds): `PanelsAreRestored` and
`ForeignSamplesAreFew`, and of two properties that join safety and liveness the safe half:

- `CopiesAreKept`, the half of `CopiesSurvive` about cleanups (`NeverStomps`), whenever
  other applications write: while the pasteboard carries the number we remember, or a
  call of ours is between two steps, its content is ours, was cleared by us, or came
  `amid` (`BoardSound`).
- `LiveMountsStay`, the half of `MountsFollow` about live volumes (`LiveMountStays`): of the
  surfaces of a name at most one stands (`OneStands`), what serves is as old as
  `MOUNT_DEFER`, and a cleaner of its name that is still at work was begun no later
  (`StandingKept`), and only names of
  dead processes are reaped (`DeadReaped`). `MountConstants`: there is a first process, and
  `MOUNT_DEFER` is a number of ticks.

`PanelsAreRestored` holds for any failures: while an overlay stands, its record still leads
back to what the install found (`Undoes`); without one everything is back (`Whole`).

**UsbForward.** Two announcements of one device, a control, a bulk and an interrupt
transfer. `ControlIsServed`: a control request is answered or its controller goes,
however long another endpoint waits. The client answers descriptor and control requests
in this model; that it does is assumed, not shown.

Fairness: the watcher's timers, the clipboard's poller, its calls on the pasteboard and what
`on_ready` put off (`Advertises`), threads that
mount and unmount, capture loops and the audio samples they wait for, tasks of transfers.
Beginning a stream (`Begins`) is *strongly* fair in its good outcome: it may fail, but
not for ever. Users, clients and devices are not fair.


## 12. What is proved

Every safety property of a passing run is a theorem. Liveness stays with TLC throughout,
since it rests on fairness and ENABLED, which are out of the prover's reach:
`EveryClientIsServed`, `RequestsAreServed`, `SilenceIsNoticed`, `EverythingArrives`,
`RejectedGetsIn`, `KeyframeGoesOut`, `OverloadShedsFps`, `BlankEscalates`,
`KeystrokesRefresh`, `OverlayCatchesUp`, `LastStartedIsHeard` and `ControlIsServed`. The last
is the only property of `UsbForward`, which is why that module has no theorem.
`CopiesSurvive` and `MountsFollow` join a safe half, which is proved, to a live one, which
is not.

The theorems hold for every value of the constants that satisfies the named assumptions.
TLC evaluates each assumption in the passing runs.

| Theorem | Property | Argument |
|---|---|---|
| `BindingIsSafe`, `DemigrationIsFinal` | `BindingSafe`, `DemigrateIsFinal` | where a cookie can be (section 3) |
| `HandoversAreSafe` | `HandoverSafe` | which roles are taken, and by whom (section 4) |
| `ResizesHold` | `ResizesAreSound` | what the loop knows at each step (section 5) |
| `BuffersAreSound` | `BuffersSound` | what a datagram of any age may claim (section 6); `SeqAssumption`, `ConfigAssumption`, `ServerSeedAssumption`, `LifetimeAssumption` |
| `StreamIsImplemented` | `ImplementsStream` | the same invariant; a delivery is a read of the abstract stream, a write a write, the rest stutters |
| `WindowsAreBounded` | `WindowBound` | `Rated`: the guard's queue, pruned or not, is the record of what was let in (section 7) |
| `LockoutsHold` | `LockoutHolds` | `Books`: counts agree with the record, and cooldown left plus time passed make up its length (section 7); `IpAssumption`, `ConfigAssumption` |
| `LedgerBalances` | `Ledger` | `Balanced`: the equation, `Tied` and `Unused` (section 8); `BoundsAssumption` |
| `KeyframesAreHeld` | `KeyframesHold` | `Watched`: whose a surface is and what is on its way to it (section 8); `BoundsAssumption` |
| `EncoderIsFitted` | `EncoderFits` | `Steered`: both parts and that the records keep their fields; no assumption |
| `StormsAreBounded`, `DropsAreEarned` | `StormIsBounded`, `DropIsEarned` | `BlankSound`: tallies agree with each other (`Tallied`), the process's count is at least the history's (`StormCounted`), the second attempt has a reactivation behind it (`Earned`); thresholds of at least one, which `env_u32` enforces by refusing 0 |
| `PicturesRecover` | `PictureRecovers` | `Repairable`: at each await, what the loop will do next still leads to an IDR or a full frame, or the request for it was lost, which it then knows; whatever becomes of each frame; a full frame fits the queue |
| `KeysAreBalanced` | `KeysBalance` | `KeysSound`: a key held has left a trace, and one that is no stray is judged at its release as at its press (section 10); keys are no modifiers, no hotkey is remapped |
| `SwitchesAreExpected` | `SwitchesLand` | `Switching`: what a hold has shown is one stretch of its list, and the two of an undisturbed flip lead the order of use (section 10); `SwitcherConstants` |
| `WheelsKeepUp` | `WheelKeepsUp` | `Gathered`, with lemmas on truncating division and the clamp; events of any size |
| `HandlesAreKept` | `NoHandleLost` | `HandlesSound`: every handle has one place (section 10); no assumption |
| `ReadsStayCurrent` | `ReadsAreCurrent` | `Served`: what is open is what its path names, or is marked as crossed; requests interleave freely; `DriveConstants` |
| `FilesAreWhole` | `WholeOrGone` | `Downloading`: each missing chunk has its own task; any answers and overlapping reads; `DownloadConstants` |
| `PanelsAreRestored` | `PanelsRestored` | `PanelSound`: what an overlay's record leads back to, and what is back without one, whichever calls fail; no assumption |
| `ForeignSamplesAreFew` | `OneForeignSample` | `SoundSound`: a superseded loop that has added a sample is past its look at the generation; no assumption |
| `CopiesAreKept` | half of `CopiesSurvive` | `BoardSound`: the number we remember is on what we wrote, or on a copy made between two calls of ours; no assumption |
| `LiveMountsStay` | half of `MountsFollow` | `MountSound`: one surface of a name stands, and a cleaner still at work is at least as old; `MountConstants` |

Types are proved for `TunnelBinding` (`EntriesAreFit`), `SessionHandover` (`RolesAreFit`),
`LiveResize` and `RdpeudpTransport` (`TypeCorrect`); the other proofs carry only the types
they need. `MCVideoControl`, `MCDesktop` and
`MCServices` are the modules the theorems extend, because the runs' properties are
stated there; each proof works on the part its property is about (a step of another part
leaves its variables alone).

`CaptureConstants` deserves a word: a full frame must fit the bitmap queue. The default
limit is 32 strips (`MACRDP_DISPLAY_PENDING_LIMIT`, capture.rs:1288); at a larger desktop
or a smaller limit every full frame overflows, and the resynchronisation is retried with
every sample for ever (capture.rs:1932).


## 13. Where code and words disagree

| Run | Words | Code |
|---|---|---|
| `overload_lowers_bitrate` | "positive error is congestion, so reduce target" (h264.rs:1128); both controllers reduce their output on it (docs/release-history.md:5) | `pid_bitrate_step` adds the control (1134): a standing queue raises the bit rate |
| `same_files` | the paths are a snapshot, so later requests resolve to the same files (clipboard.rs:8-11) | they are replaced before the next offer is even sent (603); `on_lock` is empty |
| `pause_ends_in_keyframe` | "Force an IDR on the first frame after un-suppress" (capture.rs:1788-1793); "Arm the keyframe BEFORE the throttle check" (h264.rs:1754-1756) | the loop clears its request (capture.rs:1795) before a submit that may return `Ok(true)` with nothing armed (h264.rs:1752, event queue at its threshold), or fail in an encoder that has taken the request over (2093, 2137) |

Others met while modelling, which the models contain and no run is spent on:

- the field comment at server.rs:720 has the cookie evicted so that a late bind cannot
  raise a retired flag, but the reset lowers the flag first (2361) and evicts after;
- listener.rs:877 takes a SYN on a handshaking peer for a retransmit that
  `is_established()` gates out; the server side is established from the first SYN, so the
  retransmit replaces the peer;
- server.rs:808 has `client_loop` drain the tunnel's inbound receiver; it is dropped at the
  first reactivation while EGFX stays on UDP;
- auth_guard.rs:645 calls the loop serial; a candidate's `on_accept` may come before the
  live session's verdict, which is then attributed to it;
- capture.rs:151 says only the most recent size of a drag matters; a layout equal to the
  current size returns early (651) and leaves an older one pending;
- `--no-client-resolution` is described as fixing the size (main.rs:2959), but live
  layouts are honoured when there is a virtual display (capture.rs:611);
- file_promise_lazy.rs:506-508 calls look and clear atomic because no other writer can
  bump the change count, but the guard is the process's, and other applications write at
  any time: what they copy between the two is cleared;
- rdpdr.rs:418-419 has a rename close the handles that would be stale after it, but an open
  under way enters its handle afterwards;
- virtual_display/mod.rs:1018-1020 leaves a panel that would not mirror again "until the next
  connect"; the next install has no mirror to break, so it puts none back;
- h264.rs:953 stretches the IDR interval on entering a congestion only, so an encoder rebuilt
  in one (2616) sends periodic IDRs to its end.


## 14. Hazards

`PROJECT.json` lists the main ones at their lines, with the properties that would catch
them going wrong, or why none does. Smaller ones without a property, met while reading:

- *Video*: a failed extraction breaks the reference chain and arms no IDR; after one slow
  start the frame rate may sit below its minimum, as the deadband skips the clamp; the ack
  of the suspend sentinel counts as congestion; one early nonzero report and then silence
  never escalates.
- *Capture*: the resynchronisation after an overflow waits for the next changed sample; a
  bitmap client that EGFX refuses after the seed gets dirty rectangles only; a static
  screen sends nothing after a pause until something changes.
- *Input*: a text key whose layout changes between press and release; bounds up to 250 ms
  old after a mode change; the late re-raise of an application the user has left since.
- *Pasted files*: the id of the last format request is a single slot (clipboard.rs:415);
  after a disconnect, receivers of chunk answers wait for ever (file_promise.rs:582);
  an OK to one offer locks the generation of another (clipboard.rs:717).
- *Audio*: a superseded loop may take the resync flag of its successor (audio.rs:521);
  a failing first query silences the whole connection.
- *Drives*: a late listing overwrites a newer size (rdpdr/surface.rs:239); two drives with
  one label share a mount point; completion ids restart from 0 with a connection.
- *USB*: the claim is released when `present_device` returns although a transfer still
  holds the controller; a second announcement is skipped for ever even if the first
  channel closes.
- *Auth guard*: a candidate's failures never reach the outcome accounting.
