------------------------------ MODULE DriveFiles ------------------------------
(***************************************************************************)
(* A drive of the client as a volume of the Mac: RdpdrFs turns each NFS    *)
(* request into requests to the client (rdpdr/surface.rs) through a handle *)
(* that keeps files open for the next one (macrdp-server/src/rdpdr.rs).    *)
(* Requests are served at the same time, and every one is let go of its    *)
(* lock while the client works: nothing keeps a change of names from the   *)
(* opening of a file it touches.                                           *)
(*                                                                         *)
(* A path is a sequence of names; of a file only which one it is and       *)
(* whether it is empty is kept.                                            *)
(***************************************************************************)
EXTENDS Naturals, Sequences, FiniteSets, SequencesExt

CONSTANTS
    Requests,     \* NFS requests served at a time
    FilePaths, DirPaths,  \* paths that may come to exist
    Present,      \* external: what the drive holds at first
    MaxOpen,      \* MAX_OPEN_HANDLES: 16
    MaxHandles,   \* bound: handles open at the client
    MaxIds,       \* bound: file ids
    MaxChanges    \* bound: changes of names, listings included

VARIABLES
    tree,     \* external: the client's files, by path; 0: none
    filled,   \* external: those that are not empty
    open,     \* external: open handles, each on its file
    closing,  \* closes on their way
    cache,    \* HandleCache: entries [path, kind, handle]
    node,     \* id_to_node: path and size of each file id; <<>>: forgotten
    known,    \* path_to_id; 0: unknown
    req,      \* what each request is at
    crossed,  \* history: requests whose handle a change of names, or a close, may have crossed
    doubtful, \* history: handles opened by such a request, or in a directory that was moved
    changes

driveVars == <<tree, filled, open, closing, cache, node, known, req, crossed, doubtful, changes>>

Paths == FilePaths \cup DirPaths
Kinds == {"read", "write"}
Idle == [at |-> "idle"]
Under(p, d) == IsPrefix(d, p)
\* The least number not taken: the client numbers files and handles as it likes.
Fresh(taken) == CHOOSE n \in 1..(Cardinality(taken) + 1) :
                   n \notin taken /\ \A m \in 1..(n - 1) : m \in taken
Goes(r, state) == req' = [req EXCEPT ![r] = state]
-------------------------------------------------------------------------------
\* The volume has been browsed: every file present has its id.
Init ==
    LET ps == SetToSeq(Present)
        Number(p) == IF p \in Present THEN CHOOSE i \in DOMAIN ps : ps[i] = p ELSE 0
    IN  /\ tree = [p \in Paths |-> Number(p)] /\ known = [p \in Paths |-> Number(p)]
        /\ filled = {Number(p) : p \in Present}
        /\ node = [i \in DOMAIN ps |-> [path |-> ps[i], full |-> TRUE]]
        /\ open = << >> /\ closing = {} /\ cache = {}
        /\ req = [r \in Requests |-> Idle] /\ crossed = {} /\ doubtful = {} /\ changes = 0
-------------------------------------------------------------------------------
(* FsCache.                                                                *)

\* intern
Interned(nd, kn, p, full) ==
    IF kn[p] # 0 THEN [nd |-> [nd EXCEPT ![kn[p]] = [path |-> p, full |-> full]], kn |-> kn]
    ELSE [nd |-> Append(nd, [path |-> p, full |-> full]), kn |-> [kn EXCEPT ![p] = Len(nd) + 1]]

\* forget
Forgotten(nd, kn, i) ==
    IF nd[i] = <<>> THEN [nd |-> nd, kn |-> kn]
    ELSE [nd |-> [nd EXCEPT ![i] = <<>>], kn |-> [kn EXCEPT ![nd[i].path] = 0]]

Remembers(c) == Len(c.nd) <= MaxIds /\ node' = c.nd /\ known' = c.kn
-------------------------------------------------------------------------------
(* HandleCache.                                                            *)

Cached(p, k) == {e \in cache : e.path = p /\ e.kind = k}
Without(p, k) == cache \ Cached(p, k)
HandlesOf(entries) == {e.handle : e \in entries}
Hit(p, k) == CHOOSE e \in Cached(p, k) : TRUE

\* Mutant: the one that comes second takes the place of the first.
Overwrite(mine) == mine

\* acquire, once the file is open: another request may have been first.
Race(mine) == IF Cached(mine.path, mine.kind) # {} THEN Hit(mine.path, mine.kind) ELSE mine

\* Past MAX_OPEN_HANDLES one entry goes.  Which one is the least recently used is left
\* open, so that any but the newest may be.
Excess(all, newest) == IF Cardinality(all) > MaxOpen THEN {{e} : e \in all \ {newest}} ELSE {{}}

\* evict_path.
Evicted(p) == HandlesOf({e \in cache : e.path = p})
Kept(p) == {e \in cache : e.path # p}
-------------------------------------------------------------------------------
(* Reads and writes.                                                       *)

\* A remove or a rename that touches the path has begun, and has not come to the client.
Changing(p) ==
    \E s \in Requests :
        /\ req[s].at \in {"evicts", "evicts target", "asks"}
        /\ Under(p, req[s].path) \/ (req[s].to # <<>> /\ Under(p, req[s].to))

\* read, write: what the id stands for is looked up once, at the start; past the
\* size it knows, read answers without asking the client.
Asked(r, i, k) ==
    /\ req[r] = Idle
    /\ node[i] # <<>> /\ node[i].path \in FilePaths
    /\ k = "read" => node[i].full
    /\ LET p == node[i].path
           miss == Cached(p, k) = {}
       IN  /\ Goes(r, [at |-> IF miss THEN "opens" ELSE "handed", id |-> i, path |-> p, kind |-> k,
                       was |-> tree[p], handle |-> IF miss THEN 0 ELSE Hit(p, k).handle])
           /\ crossed' = IF miss /\ Changing(p) THEN crossed \cup {r} ELSE crossed \ {r}
    /\ UNCHANGED <<tree, filled, open, closing, cache, node, known, doubtful, changes>>

\* open_with, at the client.
Opened(r) ==
    /\ req[r].at = "opens" /\ Cardinality(DOMAIN open) < MaxHandles
    /\ LET f == tree[req[r].path]
           h == Fresh(DOMAIN open)
       IN  IF f = 0 THEN Goes(r, Idle) /\ UNCHANGED open
           ELSE /\ open' = [x \in DOMAIN open \cup {h} |-> IF x = h THEN f ELSE open[x]]
                /\ Goes(r, [req[r] EXCEPT !.at = "opened", !.handle = h])
    /\ UNCHANGED <<tree, filled, closing, cache, node, known, crossed, doubtful, changes>>

Acquired(r) ==
    /\ req[r].at = "opened"
    /\ LET mine == [path |-> req[r].path, kind |-> req[r].kind, handle |-> req[r].handle]
           e == Race(mine)
           all == Without(mine.path, mine.kind) \cup {e}
       IN  /\ \E out \in Excess(all, e) :
                 /\ cache' = all \ out
                 /\ closing' = closing \cup ({mine.handle} \ {e.handle}) \cup HandlesOf(out)
           /\ Goes(r, [req[r] EXCEPT !.at = "handed", !.handle = e.handle, !.was = tree[mine.path]])
           /\ doubtful' = IF r \in crossed THEN doubtful \cup {mine.handle} ELSE doubtful
    /\ crossed' = crossed \ {r}
    /\ UNCHANGED <<tree, filled, open, node, known, changes>>

\* The request goes out under the handle, which may be on its way to be closed.
Sent(r) ==
    /\ req[r].at = "handed" /\ Goes(r, [req[r] EXCEPT !.at = "sent"])
    /\ UNCHANGED <<tree, filled, open, closing, cache, node, known, crossed, doubtful, changes>>

\* The client's answer; a failure drops whatever handle the path has by now.
Answered(r) ==
    /\ req[r].at = "sent" /\ req[r].handle \in DOMAIN open
    /\ filled' = IF req[r].kind = "write" THEN filled \cup {open[req[r].handle]} ELSE filled
    /\ Goes(r, IF req[r].kind = "write" THEN [req[r] EXCEPT !.at = "sizes"] ELSE Idle)
    /\ UNCHANGED <<tree, open, closing, cache, node, known, crossed, doubtful, changes>>

Failed(r) ==
    /\ req[r].at = "sent"
    /\ closing' = closing \cup HandlesOf(Cached(req[r].path, req[r].kind))
    /\ cache' = Without(req[r].path, req[r].kind)
    /\ Goes(r, Idle)
    /\ UNCHANGED <<tree, filled, open, node, known, crossed, doubtful, changes>>

\* set_size, after a write.
Sized(r) ==
    /\ req[r].at = "sizes" /\ Goes(r, Idle)
    /\ node' = [node EXCEPT ![req[r].id] = IF @ = <<>> THEN @ ELSE [@ EXCEPT !.full = TRUE]]
    /\ UNCHANGED <<tree, filled, open, closing, cache, known, crossed, doubtful, changes>>

\* A close is carried out, behind the requests sent before it.
Closed(h) ==
    /\ h \in closing /\ closing' = closing \ {h}
    /\ \A r \in Requests : ~(req[r].at = "sent" /\ req[r].handle = h)
    /\ open' = [x \in DOMAIN open \ {h} |-> open[x]]
    /\ crossed' = crossed \cup {r \in Requests : req[r].at = "handed" /\ req[r].handle = h}
    /\ doubtful' = doubtful \ {h}
    /\ UNCHANGED <<tree, filled, cache, node, known, req, changes>>
-------------------------------------------------------------------------------
(* Names.                                                                  *)

Begins(r, op) ==
    /\ req[r] = Idle /\ changes < MaxChanges /\ changes' = changes + 1
    /\ Goes(r, op)

\* lookup of an unknown name, readdir, and what remove and rename list first.
Lists(r, d) ==
    /\ Begins(r, [at |-> "listed", dir |-> d,
                  seen |-> {[path |-> p, full |-> tree[p] \in filled] :
                               p \in {q \in Paths : Front(q) = d /\ tree[q] # 0}}])
    /\ UNCHANGED <<tree, filled, open, closing, cache, node, known, crossed, doubtful>>

Listed(r) ==
    /\ req[r].at = "listed" /\ Goes(r, Idle)
    /\ LET all == SetToSeq(req[r].seen)
           c[n \in 0..Len(all)] ==
              IF n = 0 THEN [nd |-> node, kn |-> known]
              ELSE Interned(c[n - 1].nd, c[n - 1].kn, all[n].path, all[n].full)
       IN  Remembers(c[Len(all)])
    /\ UNCHANGED <<tree, filled, open, closing, cache, crossed, doubtful, changes>>

\* create, mkdir: made unless it is there, closed at once, and known as empty.
Creates(r, p) ==
    /\ Len(p) > 1 => tree[Front(p)] # 0
    /\ Begins(r, [at |-> "created", path |-> p])
    /\ LET new == Fresh({tree[q] : q \in Paths} \cup {open[h] : h \in DOMAIN open})
       IN  IF tree[p] # 0 THEN UNCHANGED <<tree, filled>>
           ELSE tree' = [tree EXCEPT ![p] = new] /\ filled' = filled \ {new}
    /\ UNCHANGED <<open, closing, cache, node, known, crossed, doubtful>>

Created(r) ==
    /\ req[r].at = "created" /\ Goes(r, Idle)
    /\ Remembers(Interned(node, known, req[r].path, FALSE))
    /\ UNCHANGED <<tree, filled, open, closing, cache, crossed, doubtful, changes>>

\* setattr with a size of nothing: a handle of its own, closed again.
Truncates(r, i) ==
    /\ node[i] # <<>> /\ node[i].path \in FilePaths /\ tree[node[i].path] # 0
    /\ Begins(r, [at |-> "truncated", id |-> i])
    /\ filled' = filled \ {tree[node[i].path]}
    /\ UNCHANGED <<tree, open, closing, cache, node, known, crossed, doubtful>>

Truncated(r) ==
    /\ req[r].at = "truncated" /\ Goes(r, Idle)
    /\ node' = [node EXCEPT ![req[r].id] = IF @ = <<>> THEN @ ELSE [@ EXCEPT !.full = FALSE]]
    /\ UNCHANGED <<tree, filled, open, closing, cache, known, crossed, doubtful, changes>>

\* remove and rename take what the cache holds for the path and wait for the closes; so
\* then does rename with the target; and only then is the client asked.
Moves(r, p, to) ==
    /\ known[p] # 0 /\ Begins(r, [at |-> "evicts", path |-> p, to |-> to, id |-> known[p],
                                  full |-> node[known[p]].full, waits |-> Evicted(p)])
    /\ cache' = Kept(p) /\ closing' = closing \cup Evicted(p)
    /\ crossed' = crossed \cup {s \in Requests :
                                   /\ req[s].at \in {"opens", "opened"}
                                   /\ Under(req[s].path, p) \/ (to # <<>> /\ Under(req[s].path, to))}
    /\ UNCHANGED <<tree, filled, open, node, known, doubtful>>

\* Mutant: what the target's handles are open on stays.
SkipsTarget(r) ==
    /\ req[r].at = "evicts" /\ req[r].waits \cap closing = {}
    /\ Goes(r, [req[r] EXCEPT !.at = "asks"])
    /\ UNCHANGED <<tree, filled, open, closing, cache, node, known, crossed, doubtful, changes>>

EvictsTarget(r) ==
    /\ req[r].at = "evicts" /\ req[r].waits \cap closing = {}
    /\ Goes(r, [req[r] EXCEPT !.at = "evicts target", !.waits = Evicted(req[r].to)])
    /\ cache' = Kept(req[r].to) /\ closing' = closing \cup Evicted(req[r].to)
    /\ UNCHANGED <<tree, filled, open, node, known, crossed, doubtful, changes>>

Evicts(r) ==
    /\ req[r].at = "evicts target" /\ req[r].waits \cap closing = {}
    /\ Goes(r, [req[r] EXCEPT !.at = "asks"])
    /\ UNCHANGED <<tree, filled, open, closing, cache, node, known, crossed, doubtful, changes>>

NoPlace(to) ==
    IF to \in DirPaths THEN \E q \in Paths : Under(q, to) /\ tree[q] # 0
    ELSE Len(to) > 1 /\ tree[Front(to)] = 0

\* What the client does; a directory that is removed has to be empty, and one with an
\* open file in it may or may not be moved.
Moved(p, to) ==
    IF to = <<>> THEN [tree EXCEPT ![p] = 0]
    ELSE [q \in Paths |->
            CASE Under(q, p) -> 0
              [] Under(q, to) -> tree[p \o SubSeq(q, Len(to) + 1, Len(q))]
              [] OTHER -> tree[q]]

Changed(r) ==
    LET p == req[r].path
        to == req[r].to
        refused == \/ tree[p] = 0
                   \/ to = <<>> /\ \E q \in Paths \ {p} : Under(q, p) /\ tree[q] # 0
                   \/ to # <<>> /\ NoPlace(to)
        below == {e \in cache : e.path # p /\ Under(e.path, p)}
    IN  /\ req[r].at = "asks"
        /\ \/ /\ refused \/ below # {}
              /\ Goes(r, Idle) /\ UNCHANGED <<tree, doubtful>>
           \/ /\ ~refused
              /\ tree' = Moved(p, to) /\ doubtful' = doubtful \cup HandlesOf(below)
              /\ Goes(r, [req[r] EXCEPT !.at = "changed"])
        /\ UNCHANGED <<filled, open, closing, cache, node, known, crossed, changes>>

\* A renamed file gets another id.
Renamed(r) ==
    LET c == Forgotten(node, known, req[r].id)
    IN  /\ req[r].at = "changed" /\ Goes(r, Idle)
        /\ Remembers(IF req[r].to = <<>> THEN c ELSE Interned(c.nd, c.kn, req[r].to, req[r].full))
        /\ UNCHANGED <<tree, filled, open, closing, cache, crossed, doubtful, changes>>
-------------------------------------------------------------------------------
Targets(p) == (IF p \in FilePaths THEN FilePaths ELSE DirPaths) \ {p}

Names(r) ==
    \/ \E d \in DirPaths \cup {<<>>} : Lists(r, d)
    \/ \E p \in Paths : Creates(r, p)
    \/ \E i \in DOMAIN node : Truncates(r, i)
    \/ \E p \in Paths : \E to \in Targets(p) \cup {<<>>} : Moves(r, p, to)
    \/ Listed(r) \/ Created(r) \/ Truncated(r)
    \/ EvictsTarget(r) \/ Evicts(r) \/ Changed(r) \/ Renamed(r)

Data(r) ==
    \/ \E i \in DOMAIN node, k \in Kinds : Asked(r, i, k)
    \/ Opened(r) \/ Acquired(r) \/ Sent(r) \/ Answered(r) \/ Failed(r) \/ Sized(r)

DriveNext == (\E r \in Requests : Names(r) \/ Data(r)) \/ \E h \in closing : Closed(h)

DriveSpec == Init /\ [][DriveNext]_driveVars
-------------------------------------------------------------------------------
\* A read answers from the file its path named as it was given its handle, never from one
\* that a rename or a delete has put aside and the cache still holds open: for handles that
\* were not themselves opened while such a change of their path was under way (acquire
\* holds no lock over the open, and keeps what it opened), whose directory was not moved
\* over an open file (evict_path knows one path), and that were not closed before the read
\* went out.
ReadsAreCurrent ==
    [][\A r \in Requests :
          (/\ req[r].at = "sent" /\ req[r].handle \in DOMAIN open /\ req'[r] = Idle
           /\ r \notin crossed /\ req[r].handle \notin doubtful)
             => open[req[r].handle] = req[r].was]_driveVars

\* Every handle the client holds open for us is in the cache, in the hands of a
\* request that has just opened it, or about to be closed: losing the race in
\* acquire, an eviction or a failure leaves none behind.
NoHandleLost ==
    \A h \in DOMAIN open :
        \/ h \in HandlesOf(cache) \cup closing
        \/ \E r \in Requests : req[r].at = "opened" /\ req[r].handle = h

=============================================================================
