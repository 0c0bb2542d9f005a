------------------------------ MODULE Clipboard ------------------------------
(***************************************************************************)
(* One pasteboard, two copiers (clipboard.rs): a poller notices what is    *)
(* copied on the Mac and offers it to the client, again while the client   *)
(* refuses; what the client copies is fetched and written to the           *)
(* pasteboard, and files of the client that are gone are taken off it.     *)
(* Other applications know no lock of ours.                                *)
(*                                                                         *)
(* Content is known by the change count it was written under.  An offer    *)
(* without a session, or before the client's channel is ready, is dropped. *)
(***************************************************************************)
EXTENDS Integers, Sequences

CONSTANTS
    Retries,    \* delays after which a refused offer is made again: three
    MaxCopies,  \* bound: copies on the Mac
    MaxRemote,  \* bound: copies on the client
    MaxConns,   \* bound: connections
    MaxAsks     \* bound: offers and cleanups the channel asks for

VARIABLES
    count, owner,  \* external: changeCount, and who wrote: user, client, ours, nobody
    selfCount,  \* self_change_count
    guarded,    \* pasteboard_guard: no, or held: about to clear, or to record its count
    amid,       \* history: the user copied what is there between two such calls
    backends,   \* active_backends
    ready,      \* external: the client has announced its own formats
    poller,     \* [at, seen, left]: where it is, last_seen, and retries left
    locked,     \* locked_gen = generation
    deferred,   \* tasks that on_ready put off: their advertise_pasteboard is to come
    sender,     \* [poller, backend]: content read and about to be offered, or 0
    paths,      \* file_paths: whose content's
    unanswered, \* external: offers the client has not answered, oldest first
    holds,      \* external: the offer the client holds
    offered,    \* history: the latest content this client was ever offered
    requested,  \* last_requested
    fetches,    \* external: formats the client was asked for, oldest first
    pending,    \* file lists of the client that are downloaded, or handed to the run loop
    copies, remotes, conns, asks

board == <<count, owner, selfCount, guarded, amid>>
session == <<backends, ready>>
task == <<poller, locked, deferred, sender>>
wire == <<unanswered, holds, requested, fetches>>
counters == <<copies, remotes, conns, asks>>
clipboardVars == <<board, session, task, paths, wire, offered, pending, counters>>

Formats == {"data", "files", "other"}   \* text and images take the same way

Nothing == -1   \* what is read of an empty pasteboard
-------------------------------------------------------------------------------
Init ==
    /\ count = 1 /\ owner = "user" /\ selfCount = 0 /\ guarded = "no" /\ amid = FALSE
    /\ backends = 0 /\ ready = FALSE
    /\ poller = [at |-> "parked", seen |-> 1, left |-> 0]
    /\ locked = FALSE /\ deferred = 0 /\ sender = [poller |-> 0, backend |-> 0]
    /\ paths = 0 /\ unanswered = <<>> /\ holds = 0 /\ offered = 0
    /\ requested = "none" /\ fetches = <<>> /\ pending = 0
    /\ copies = 0 /\ remotes = 0 /\ conns = 0 /\ asks = 0

Write(who) ==
    count' = count + 1 /\ owner' = who /\ amid' = (who = "user" /\ guarded # "no")

\* Another application, whether or not we are between two calls.
UserCopies ==
    /\ copies < MaxCopies /\ copies' = copies + 1
    /\ Write("user")
    /\ UNCHANGED <<selfCount, guarded, session, task, paths, wire, offered, pending, remotes, conns,
                   asks>>
-------------------------------------------------------------------------------
(* Offers.                                                                 *)

\* build_cliprdr_backend.
Connect ==
    /\ backends = 0 /\ conns < MaxConns /\ conns' = conns + 1
    /\ backends' = 1
    /\ UNCHANGED <<board, ready, task, paths, wire, offered, pending, copies, remotes, asks>>

\* on_ready, at the client's own first format list: our first offer is put off until
\* its answer to that is certainly out.
OnReady ==
    /\ backends = 1 /\ ~ready /\ ready' = TRUE
    /\ deferred' = deferred + 1
    /\ UNCHANGED <<board, backends, poller, locked, sender, paths, wire, offered, pending, counters>>

\* advertise_pasteboard reads, records the paths, and sends.
Reads(who) ==
    /\ sender[who] = 0 /\ guarded = "no"
    /\ sender' = [sender EXCEPT ![who] = IF owner = "nobody" THEN Nothing ELSE count]

Sends(who) ==
    LET content == sender[who] IN
    /\ content # 0
    /\ sender' = [sender EXCEPT ![who] = 0]
    /\ paths' = IF content = Nothing THEN paths ELSE content
    /\ IF content # Nothing /\ backends = 1 /\ ready
       THEN /\ unanswered' = Append(unanswered, content)
            /\ offered' = IF content > offered THEN content ELSE offered
       ELSE UNCHANGED <<unanswered, offered>>

\* The task that was put off, whoever is connected by now, and on_request_format_list.
BackendReads ==
    /\ Reads("backend")
    /\ \/ deferred > 0 /\ deferred' = deferred - 1 /\ UNCHANGED asks
       \/ ready /\ asks < MaxAsks /\ asks' = asks + 1 /\ UNCHANGED deferred
    /\ UNCHANGED <<board, session, poller, locked, paths, wire, offered, pending, copies, remotes,
                   conns>>

BackendSends ==
    /\ Sends("backend")
    /\ UNCHANGED <<board, session, poller, locked, deferred, holds, requested, fetches, pending,
                   counters>>

\* The poller of set_sender is parked while nobody is connected, else it looks at the
\* pasteboard a while later, whoever is connected then.
PollerWakes ==
    /\ poller.at = "parked" /\ backends > 0
    /\ poller' = [poller EXCEPT !.at = "looks"]
    /\ UNCHANGED <<board, session, locked, deferred, sender, paths, wire, offered, pending, counters>>

\* A change that is no write of ours starts a wave of offers.
PollerLooks ==
    /\ poller.at = "looks" /\ guarded = "no"
    /\ IF count \in {poller.seen, selfCount}
       THEN poller' = [poller EXCEPT !.at = "parked", !.seen = count] /\ UNCHANGED locked
       ELSE poller' = [at |-> "offers", seen |-> count, left |-> Retries] /\ locked' = FALSE
    /\ UNCHANGED <<board, session, deferred, sender, paths, wire, offered, pending, counters>>

PollerReads ==
    /\ poller.at = "offers"
    /\ Reads("poller")
    /\ UNCHANGED <<board, session, poller, locked, deferred, paths, wire, offered, pending, counters>>

WaveOver == [poller EXCEPT !.at = "parked"]

PollerSends ==
    /\ Sends("poller")
    /\ poller' = IF poller.left = 0 THEN WaveOver ELSE [poller EXCEPT !.at = "waits"]
    /\ UNCHANGED <<board, session, locked, deferred, holds, requested, fetches, pending, counters>>

\* A delay is over; an accepted offer is not made again.
PollerAgain ==
    /\ poller.at = "waits"
    /\ poller' = IF locked THEN WaveOver ELSE [poller EXCEPT !.at = "offers", !.left = @ - 1]
    /\ UNCHANGED <<board, session, locked, deferred, sender, paths, wire, offered, pending, counters>>

\* on_format_list_response: it does not say which offer it answers.
OnFormatListResponse(ok) ==
    /\ unanswered # <<>> /\ unanswered' = Tail(unanswered)
    /\ locked' = IF ok THEN TRUE ELSE locked
    /\ holds' = IF ok THEN Head(unanswered) ELSE holds
    /\ UNCHANGED <<board, session, poller, deferred, sender, paths, offered, requested, fetches,
                   pending, counters>>
-------------------------------------------------------------------------------
(* The client copies.                                                      *)

\* on_remote_copy: files before images before text; the answer will not say which.
OnRemoteCopy(format) ==
    /\ ready /\ remotes < MaxRemote /\ remotes' = remotes + 1
    /\ holds' = 0
    /\ IF format = "other" THEN UNCHANGED <<requested, fetches>>
                           ELSE requested' = format /\ fetches' = Append(fetches, format)
    /\ UNCHANGED <<board, session, task, paths, unanswered, offered, pending, copies, conns, asks>>

\* on_format_data_response: text, an image, or nothing that can be decoded.
OnFormatDataResponse(decoded) ==
    /\ fetches # <<>> /\ fetches' = Tail(fetches)
    /\ decoded => Head(fetches) # "files"
    /\ requested' = "none" /\ guarded = "no"
    /\ IF decoded /\ requested # "files" THEN Write("client") ELSE UNCHANGED <<count, owner, amid>>
    /\ UNCHANGED <<selfCount, guarded, session, task, paths, unanswered, holds, offered, pending,
                   counters>>

\* on_remote_file_list: the files are downloaded first, or promised on the run loop.
OnRemoteFileList ==
    /\ fetches # <<>> /\ Head(fetches) = "files" /\ fetches' = Tail(fetches)
    /\ pending' = pending + 1
    /\ UNCHANGED <<board, session, task, paths, unanswered, holds, requested, offered, counters>>

\* A download that fails publishes nothing.
PasteFails ==
    /\ pending > 0 /\ pending' = pending - 1
    /\ UNCHANGED <<board, session, task, paths, wire, offered, counters>>

\* publish_to_pasteboard of either way, the session over or not.
Publish ==
    /\ pending > 0 /\ pending' = pending - 1
    /\ guarded = "no" /\ guarded' = "record"
    /\ Write("ours")
    /\ UNCHANGED <<selfCount, session, task, paths, wire, offered, counters>>
-------------------------------------------------------------------------------
(* clear_pasteboard_if_stale, when the client took its files back, and     *)
(* cleanup_on_disconnect.                                                  *)

\* Mutant: whatever is there is cleared once we have written.
OnceOurs == selfCount # 0

StillOurs == selfCount # 0 /\ count = selfCount

OnOutgoingLocksExpired ==
    /\ ready /\ guarded = "no" /\ asks < MaxAsks /\ asks' = asks + 1
    /\ StillOurs
    /\ guarded' = "clear"
    /\ UNCHANGED <<count, owner, selfCount, amid, session, task, paths, wire, offered, pending, copies,
                   remotes, conns>>

Disconnect ==
    /\ backends = 1 /\ guarded = "no"
    /\ backends' = 0 /\ ready' = FALSE
    /\ unanswered' = <<>> /\ holds' = 0 /\ requested' = "none" /\ fetches' = <<>> /\ offered' = 0
    /\ guarded' = IF StillOurs THEN "clear" ELSE "no"
    /\ UNCHANGED <<count, owner, selfCount, amid, task, paths, pending, counters>>

Clear ==
    /\ guarded = "clear" /\ guarded' = "record"
    /\ Write("nobody")
    /\ UNCHANGED <<selfCount, session, task, paths, wire, offered, pending, counters>>

\* After a publish and after a clear: the count that is there by now is taken for ours.
Records ==
    /\ guarded = "record" /\ guarded' = "no"
    /\ selfCount' = count
    /\ UNCHANGED <<count, owner, amid, session, task, paths, wire, offered, pending, counters>>

Poll == PollerWakes \/ PollerLooks \/ PollerReads \/ PollerSends \/ PollerAgain

Next ==
    \/ UserCopies \/ Connect \/ OnReady \/ Disconnect
    \/ BackendReads \/ BackendSends \/ Poll
    \/ \E ok \in BOOLEAN : OnFormatListResponse(ok)
    \/ \E format \in Formats : OnRemoteCopy(format)
    \/ \E decoded \in BOOLEAN : OnFormatDataResponse(decoded)
    \/ OnRemoteFileList \/ PasteFails \/ Publish
    \/ OnOutgoingLocksExpired \/ Clear \/ Records

Spec == Init /\ [][Next]_clipboardVars

\* The poller's timers pass, and a call on the pasteboard returns.
GoesOn == Poll \/ Clear \/ Records

\* What was put off is done in the end, and what was read is sent.
Advertises == (deferred > 0 /\ BackendReads /\ deferred' # deferred) \/ BackendSends

FairSpec == Spec /\ WF_clipboardVars(GoesOn) /\ WF_clipboardVars(Advertises)
-------------------------------------------------------------------------------
(* Properties.                                                             *)

\* Whatever the user copied last on the Mac is offered to each client that stays once it
\* can be, whether it was copied during the retries of an earlier offer, while nobody was
\* connected, or before the last connection.  Excepted is a copy made between two calls of
\* ours, which the poller takes for our own.
LastCopyIsOffered ==
    <>[](ready /\ owner = "user" /\ ~amid) => <>[](offered = count)

\* A cleanup never clears what somebody else copied, were it while files of the client
\* were on their way, unless it was copied between two calls of ours.
NeverStomps == [][Clear => owner \in {"ours", "nobody"} \/ amid]_clipboardVars

\* Together: what was copied last survives on either side.
CopiesSurvive == LastCopyIsOffered /\ NeverStomps
-------------------------------------------------------------------------------
(* A statement of the source.                                              *)

\* "... subsequent content requests resolve to the same files even if the pasteboard
\* changes underneath us": what file_paths holds is what the client was last offered
\* and holds.
SameFiles == holds # 0 => paths = holds
===============================================================================
