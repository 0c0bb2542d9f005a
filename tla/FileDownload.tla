----------------------------- MODULE FileDownload -----------------------------
(***************************************************************************)
(* Files copied on the client, pasted on the Mac (file_promise_lazy.rs,    *)
(* file_promise.rs).  A remote list becomes empty files of the right size, *)
(* each with a presenter; Finder's coordinated read makes the presenter    *)
(* fetch the file chunk by chunk over the clipboard channel, and Finder    *)
(* copies whatever is there once it is told.  A router hands each answer   *)
(* to the chunk that asked.  A new list or a disconnect removes it all.    *)
(*                                                                         *)
(* A request names a file by its place in a list, not the list: an answer  *)
(* is of the list the client has copied by then, all of the chunk or part  *)
(* of it, or an error.                                                     *)
(***************************************************************************)
EXTENDS Naturals, FiniteSets

CONSTANTS
    Files,        \* the files of a list
    Reads,        \* Finder's coordinated reads
    Chunks,       \* chunks of a file
    Parallel,     \* LAZY_PARALLEL_CHUNKS
    MaxLists      \* bound: remote lists

VARIABLES
    copied,    \* external: the last list copied on the client, announced or not
    list,      \* the list whose directory is current_temp_dir, or 0
    lists,     \* the last list announced
    jobs,      \* lists to be registered by the run loop thread
    live,      \* LIVE_PRESENTERS: lists
    registry,  \* REGISTRY: items
    fetched,   \* PresenterState.downloaded: items
    disk,      \* external: what each chunk of an item's file holds, or NoFile
    reads,     \* each read: [phase, item]; a read that fetches holds the item's lock
    tasks,     \* chunk tasks under way: [id, read, chunk]
    planned,   \* of each read, chunks whose task was started
    pending,   \* DownloadRouter.pending: stream ids
    nextId,    \* next_stream_id
    asked,     \* external: requests the client has not answered: [id, file, chunk]
    connected

place == <<list, lists, jobs, live>>
router == <<pending, nextId, asked>>
downloadVars == <<copied, place, registry, fetched, disk, reads, tasks, planned, router, connected>>

Items == (1..MaxLists) \X Files
Hole == <<>>
NoFile == <<>>
Empty == [c \in 1..Chunks |-> Hole]

\* What the client may have sent for a chunk of an item: of its own list, if that is still
\* the one it holds.
Sent(item, c, bytes) ==
    \E l \in item[1]..copied, part \in {"all", "some"} : bytes = <<l, item[2], c, part>>
-------------------------------------------------------------------------------
Init ==
    /\ copied = 0
    /\ list = 0 /\ lists = 0 /\ jobs = {} /\ live = {}
    /\ registry = {} /\ fetched = {} /\ disk = [item \in Items |-> NoFile]
    /\ reads = [r \in Reads |-> [phase |-> "idle", item |-> <<0, "none">>]]
    /\ tasks = {} /\ planned = [r \in Reads |-> 0]
    /\ pending = {} /\ nextId = 1 /\ asked = {}
    /\ connected = TRUE

\* cleanup_previous: the directory goes, and the presenters the run loop has added.
Removed == [item \in Items |-> IF item[1] = list THEN NoFile ELSE disk[item]]
Unregistered == {item \in registry : item[1] \notin live}

\* Files are copied on the client, which will announce them.
ClientCopies ==
    /\ copied < MaxLists /\ copied' = copied + 1
    /\ UNCHANGED <<place, registry, fetched, disk, reads, tasks, planned, router, connected>>

\* spawn_lazy_paste.
OnRemoteFileList ==
    /\ connected /\ lists < copied
    /\ lists' = copied /\ list' = copied
    /\ disk' = [item \in Items |-> IF item[1] = copied THEN Empty ELSE Removed[item]]
    /\ registry' = Unregistered \cup ({copied} \X Files)
    /\ jobs' = jobs \cup {copied} /\ live' = {}
    /\ UNCHANGED <<copied, fetched, reads, tasks, planned, router, connected>>

\* The job on the run loop thread, which no cleanup takes back.
AddPresenters(l) ==
    /\ l \in jobs /\ jobs' = jobs \ {l} /\ live' = live \cup {l}
    /\ UNCHANGED <<copied, list, lists, registry, fetched, disk, reads, tasks, planned, router, connected>>

\* cleanup_on_disconnect.  Nobody answers what the client was asked.
Disconnect ==
    /\ connected /\ connected' = FALSE
    /\ list' = 0 /\ disk' = Removed /\ registry' = Unregistered /\ live' = {}
    /\ asked' = {}
    /\ UNCHANGED <<copied, lists, jobs, fetched, reads, tasks, planned, pending, nextId>>

Reconnect ==
    /\ ~connected /\ connected' = TRUE
    /\ UNCHANGED <<copied, place, registry, fetched, disk, reads, tasks, planned, router>>
-------------------------------------------------------------------------------
(* relinquishPresentedItemToReader.                                         *)

Phase(r, phase) == reads' = [reads EXCEPT ![r].phase = phase]

\* An item that left the registry is handed over as it is.
Relinquish(r, item) ==
    /\ reads[r].phase = "idle" /\ item[1] \in live
    /\ reads' = [reads EXCEPT ![r] =
           [phase |-> IF item \in registry THEN "waits" ELSE "answered", item |-> item]]
    /\ UNCHANGED <<copied, place, registry, fetched, disk, tasks, planned, router, connected>>

Locked(item) == \E r \in Reads : reads[r].phase = "fetches" /\ reads[r].item = item

AlreadyFetched(r) ==
    /\ reads[r].phase = "waits" /\ ~Locked(reads[r].item) /\ reads[r].item \in fetched
    /\ Phase(r, "answered")
    /\ UNCHANGED <<copied, place, registry, fetched, disk, tasks, planned, router, connected>>

\* fetch_range: the next chunks are asked for, each under an id of its own.
Ask(r, kept, from, n, unanswered, waiting) ==
    LET new == 0..(n - 1) IN
    /\ tasks' = kept \cup {[id |-> nextId + i, read |-> r, chunk |-> from + i] : i \in new}
    /\ pending' = waiting \cup {nextId + i : i \in new}
    /\ asked' = IF connected
                THEN unanswered \cup
                     {[id |-> nextId + i, file |-> reads[r].item[2], chunk |-> from + i] : i \in new}
                ELSE unanswered
    /\ nextId' = nextId + n
    /\ planned' = [planned EXCEPT ![r] = from + n - 1]

\* fetch_one_file: the file is created or emptied; its directory must still be there.
Fetch(r) ==
    /\ reads[r].phase = "waits" /\ ~Locked(reads[r].item) /\ reads[r].item \notin fetched
    /\ reads[r].item[1] = list
    /\ Phase(r, "fetches")
    /\ disk' = [disk EXCEPT ![reads[r].item] = Empty]
    /\ Ask(r, tasks, 1, IF Chunks < Parallel THEN Chunks ELSE Parallel, asked, pending)
    /\ UNCHANGED <<copied, place, registry, fetched, connected>>

\* A download that failed leaves no file behind.
Discarded(item) == [disk EXCEPT ![item] = NoFile]

Failed(r) ==
    /\ Phase(r, "answered")
    /\ disk' = Discarded(reads[r].item)
    /\ registry' = registry \ {reads[r].item}

FetchFails(r) ==
    /\ reads[r].phase = "waits" /\ ~Locked(reads[r].item) /\ reads[r].item \notin fetched
    /\ reads[r].item[1] # list
    /\ Failed(r)
    /\ UNCHANGED <<copied, place, fetched, tasks, planned, router, connected>>

\* DownloadRouter::deliver.
Asker(id) == {t \in tasks : t.id = id}

\* An answer nobody waits for: its task was aborted.
Stray(a) ==
    /\ a \in asked /\ Asker(a.id) = {}
    /\ asked' = asked \ {a} /\ pending' = pending \ {a.id}
    /\ UNCHANGED <<copied, place, registry, fetched, disk, reads, tasks, planned, nextId, connected>>

\* An error, or no bytes: the file's other tasks are aborted, their ids stay pending.
Refused(a) ==
    /\ a \in asked /\ asked' = asked \ {a}
    /\ \E t \in Asker(a.id) :
        /\ tasks' = {u \in tasks : u.read # t.read}
        /\ Failed(t.read)
    /\ pending' = pending \ {a.id}
    /\ UNCHANGED <<copied, place, fetched, planned, nextId, connected>>

\* chunk_task writes the bytes at its own position, all of the chunk or, if the client
\* sent less, part of it.  A file that was unlinked takes them with it.
Written(t, bytes) ==
    LET item == reads[t.read].item IN
    IF disk[item] = NoFile THEN disk ELSE [disk EXCEPT ![item][t.chunk] = bytes]

\* Mutant: done when no chunk is under way, without a look at those still to be asked for.
NoneUnderWay(t) == {u \in tasks : u.read = t.read} = {t}

Finished(t) == planned[t.read] = Chunks /\ {u \in tasks : u.read = t.read} = {t}

Answered(a, bytes) ==
    /\ a \in asked
    /\ \E t \in Asker(a.id) :
        /\ disk' = Written(t, bytes)
        /\ \/ /\ Finished(t)
              /\ fetched' = fetched \cup {reads[t.read].item}
              /\ Phase(t.read, "answered")
              /\ tasks' = tasks \ {t}
              /\ asked' = asked \ {a} /\ pending' = pending \ {a.id}
              /\ UNCHANGED <<planned, nextId>>
           \/ /\ ~Finished(t)
              /\ Ask(t.read, tasks \ {t}, planned[t.read] + 1,
                     IF planned[t.read] < Chunks THEN 1 ELSE 0, asked \ {a}, pending \ {a.id})
              /\ UNCHANGED <<fetched, reads>>
    /\ UNCHANGED <<copied, place, registry, connected>>

\* The client answers in any order.
Deliver(a) ==
    \/ Stray(a) \/ Refused(a)
    \/ \E part \in {"all", "some"} : Answered(a, <<copied, a.file, a.chunk, part>>)

\* Finder has copied the file, or found none.
Copied(r) ==
    /\ reads[r].phase = "answered" /\ Phase(r, "idle")
    /\ UNCHANGED <<copied, place, registry, fetched, disk, tasks, planned, router, connected>>

Next ==
    \/ ClientCopies \/ OnRemoteFileList \/ Disconnect \/ Reconnect
    \/ \E l \in jobs : AddPresenters(l)
    \/ \E r \in Reads, item \in Items : Relinquish(r, item)
    \/ \E r \in Reads : AlreadyFetched(r) \/ Fetch(r) \/ FetchFails(r) \/ Copied(r)
    \/ \E a \in asked : Deliver(a)

Spec == Init /\ [][Next]_downloadVars
-------------------------------------------------------------------------------
\* Nothing is at the file's place, or every chunk of it holds what the client sent for that
\* chunk of that file.
Ready(item) == disk[item] = NoFile \/ \A c \in 1..Chunks : Sent(item, c, disk[item][c])

\* A read that waited while another one's download was refused downloads the file anew,
\* though it is registered no longer.
FetchedAnew(item) == Locked(item) /\ item \notin registry

\* Finder is never handed a ghost: as it is told that a file is ready (reader.call), the
\* file holds an answer for every chunk, in its place and, unless the client has copied
\* other files since, of its own list - or is gone, after refused chunks, late answers and
\* cleanups under way, with reads of one file that overlap.  A chunk the client cut short
\* counts as answered (chunk_task refuses an empty answer only), and a read that comes
\* while the file is fetched anew is not made to wait ("Entry gone").
WholeOrGone ==
    [][\A r \in Reads : reads'[r].phase = "answered" /\ reads[r].phase # "answered" =>
        (Ready(reads[r].item) \/ FetchedAnew(reads[r].item))']_downloadVars
===============================================================================
