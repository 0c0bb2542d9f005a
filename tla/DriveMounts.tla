----------------------------- MODULE DriveMounts -----------------------------
(***************************************************************************)
(* A drive's volume, from the announcement of the device to its unmounting *)
(* (Surface, rdpdr/surface.rs): the server of the volume is a task that is *)
(* aborted with the connection; mount_nfs and umount run in threads that   *)
(* nothing waits for, under one name for every connection of a process.    *)
(* A signal unmounts what is registered, a crash nothing, and the next     *)
(* process what dead ones left.                                            *)
(*                                                                         *)
(* The name is the one under the temporary directory: /Volumes is root's.  *)
(***************************************************************************)
EXTENDS Integers, Sequences, FiniteSets

CONSTANTS
    Drives,       \* drives the client redirects
    Defer,        \* MOUNT_DEFER, in ticks
    MaxSurfaces,  \* bound: surfaces ever started
    MaxStarts     \* bound: processes, one after the other

VARIABLES
    pid, running,  \* the last process started, and whether it still runs
    surfaces,      \* [pid, drive, at, age]: at = defers | serves | gone; ticks since it
                   \* was announced or dropped, as far as Defer
    mounting,      \* run_mount of each: none | starts | reaches | registers | done
    cleaner,       \* Drop's thread of each: none | unmounts | removes | unregisters | done
    mounts,        \* external: surfaces mounted at each name, the topmost last
    dirs,          \* external: mount points that exist
    registered,    \* LIVE_MOUNTS
    reaping,       \* names of dead processes that reap_stale has still to visit
    missed         \* history: names where an unmount failed, or missed its volume

mountVars ==
    <<pid, running, surfaces, mounting, cleaner, mounts, dirs, registered, reaping, missed>>

Numbers == DOMAIN surfaces
Place(s) == <<surfaces[s].pid, surfaces[s].drive>>
Places == (1..MaxStarts) \X Drives
Lies(s, stack) == \E i \in DOMAIN stack : stack[i] = s
Mounted(s) == Lies(s, mounts[Place(s)])
Served(s) == running /\ surfaces[s].pid = pid /\ surfaces[s].at = "serves"
Empty(m, ps) == {p \in ps : m[p] = <<>>}

\* umount -f takes the topmost off, whosever it is: here, that many of each name.
Unmounted(taken) == [p \in Places |-> SubSeq(mounts[p], 1, Len(mounts[p]) - taken[p])]

\* One umount of a name, which has nothing to take, takes one, or fails.
Umounts(p) ==
    {taken \in [Places -> {0, 1}] :
        \A q \in Places : taken[q] <= (IF q = p THEN Len(mounts[q]) ELSE 0)}
-------------------------------------------------------------------------------
Init ==
    /\ pid = 1 /\ running = TRUE /\ surfaces = <<>> /\ mounting = <<>> /\ cleaner = <<>>
    /\ mounts = [p \in Places |-> <<>>] /\ dirs = {} /\ registered = <<>> /\ reaping = {}
    /\ missed = {}

\* Time passes for all alike.
Older(surface) == [surface EXCEPT !.age = IF @ < Defer THEN @ + 1 ELSE @]

Tick ==
    /\ \E s \in Numbers : surfaces[s].age < Defer
    /\ surfaces' = [s \in Numbers |-> Older(surfaces[s])]
    /\ UNCHANGED <<pid, running, mounting, cleaner, mounts, dirs, registered, reaping, missed>>

\* on_devices_announced, prepare_mountpoint; the connection before has gone.
Announced(d) ==
    /\ running /\ Len(surfaces) < MaxSurfaces
    /\ \A s \in Numbers : surfaces[s].pid = pid /\ surfaces[s].drive = d => surfaces[s].at = "gone"
    /\ surfaces' = Append(surfaces, [pid |-> pid, drive |-> d, at |-> "defers", age |-> 0])
    /\ mounting' = Append(mounting, "none") /\ cleaner' = Append(cleaner, "none")
    /\ dirs' = dirs \cup {<<pid, d>>}
    /\ UNCHANGED <<pid, running, mounts, registered, reaping, missed>>

\* Mutant: mounted at once.
AtOnce(s) == TRUE

\* The task has slept for MOUNT_DEFER.  It does not look for the thread of a surface of
\* the same name that went before.
WaitedOut(s) == surfaces[s].age = Defer

Serves(s) ==
    /\ running /\ surfaces[s].pid = pid /\ surfaces[s].at = "defers" /\ WaitedOut(s)
    /\ surfaces' = [surfaces EXCEPT ![s].at = "serves"]
    /\ mounting' = [mounting EXCEPT ![s] = "starts"]
    /\ UNCHANGED <<pid, running, cleaner, mounts, dirs, registered, reaping, missed>>

\* mount_nfs finds the server and the directory, or fails.
Reaches(s) ==
    /\ mounting[s] = "starts"
    /\ mounting' \in {[mounting EXCEPT ![s] = "done"]} \cup
                     IF Served(s) /\ Place(s) \in dirs THEN {[mounting EXCEPT ![s] = "reaches"]} ELSE {}
    /\ UNCHANGED <<pid, running, surfaces, cleaner, mounts, dirs, registered, reaping, missed>>

\* It is a process of its own: it goes on when the server is aborted, or ours dies, and
\* may be overtaken by the unmount that was meant for it.
Mounts(s) ==
    /\ mounting[s] = "reaches"
    /\ IF Place(s) \in dirs
       THEN /\ mounts' = [mounts EXCEPT ![Place(s)] = Append(@, s)]
            /\ mounting' = [mounting EXCEPT ![s] =
                               IF running /\ surfaces[s].pid = pid THEN "registers" ELSE "done"]
            /\ missed' = IF Served(s) \/ cleaner[s] = "unmounts" THEN missed
                                                                 ELSE missed \cup {Place(s)}
       ELSE mounting' = [mounting EXCEPT ![s] = "done"] /\ UNCHANGED <<mounts, missed>>
    /\ UNCHANGED <<pid, running, surfaces, cleaner, dirs, registered, reaping>>

Registers(s) ==
    /\ mounting[s] = "registers"
    /\ mounting' = [mounting EXCEPT ![s] = "done"]
    /\ registered' = Append(registered, Place(s))
    /\ UNCHANGED <<pid, running, surfaces, cleaner, mounts, dirs, reaping, missed>>
-------------------------------------------------------------------------------
\* Drop, with the connection's backend.
Dropped(s) ==
    /\ running /\ surfaces[s].pid = pid /\ surfaces[s].at # "gone"
    /\ surfaces' = [surfaces EXCEPT ![s].at = "gone", ![s].age = 0]
    /\ cleaner' = [cleaner EXCEPT ![s] = "unmounts"]
    /\ UNCHANGED <<pid, running, mounting, mounts, dirs, registered, reaping, missed>>

\* unmount_at: a failure is logged, and the thread goes on.
Unmounts(s) ==
    /\ cleaner[s] = "unmounts" /\ cleaner' = [cleaner EXCEPT ![s] = "removes"]
    /\ \E taken \in Umounts(Place(s)) : mounts' = Unmounted(taken)
    /\ missed' = IF Lies(s, mounts'[Place(s)]) THEN missed \cup {Place(s)} ELSE missed
    /\ UNCHANGED <<pid, running, surfaces, mounting, dirs, registered, reaping>>

Removes(s) ==
    /\ cleaner[s] = "removes" /\ cleaner' = [cleaner EXCEPT ![s] = "unregisters"]
    /\ dirs' = dirs \ Empty(mounts, {Place(s)})
    /\ UNCHANGED <<pid, running, surfaces, mounting, mounts, registered, reaping, missed>>

Unregisters(s) ==
    /\ cleaner[s] = "unregisters" /\ cleaner' = [cleaner EXCEPT ![s] = "done"]
    /\ registered' = SelectSeq(registered, LAMBDA p : p # Place(s))
    /\ UNCHANGED <<pid, running, surfaces, mounting, mounts, dirs, reaping, missed>>
-------------------------------------------------------------------------------
\* The process is gone, and its threads; a mount_nfs that was started is not.
Ends ==
    /\ running /\ running' = FALSE /\ registered' = <<>> /\ reaping' = {}
    /\ surfaces' = [s \in Numbers |-> [surfaces[s] EXCEPT !.at = "gone"]]
    /\ cleaner' = [s \in Numbers |-> IF cleaner[s] = "none" THEN "none" ELSE "done"]
    /\ mounting' = [s \in Numbers |-> IF mounting[s] = "registers" THEN "done" ELSE mounting[s]]
    /\ UNCHANGED <<pid, missed>>

\* shutdown_cleanup: one umount for each registration, each of which may fail.
Registered(p) == {i \in DOMAIN registered : registered[i] = p}

Signalled ==
    /\ Ends
    /\ \E taken \in [Places -> 0..Len(registered)] :
          /\ \A p \in Places :
                taken[p] <= Cardinality(Registered(p)) /\ taken[p] <= Len(mounts[p])
          /\ mounts' = Unmounted(taken)
    /\ dirs' = dirs \ {p \in Places : Registered(p) # {} /\ mounts'[p] = <<>>}

Killed == Ends /\ UNCHANGED <<mounts, dirs>>

\* for_each_stale: the names that carry the number of a dead process.  A number that was
\* given away again reads as alive.
Dead(reused) == {p \in dirs : p[1] <= pid /\ p[1] \notin reused}

\* The next process catches what was missed, but for a name it passes over, or where two
\* volumes lie on each other.
Started ==
    /\ ~running /\ pid < MaxStarts /\ pid' = pid + 1 /\ running' = TRUE
    /\ \E reused \in SUBSET (1..pid) :
          /\ reaping' = Dead(reused)
          /\ missed' = {p \in Places : p[1] \in reused \/ Len(mounts[p]) > 1}
    /\ UNCHANGED <<surfaces, mounting, cleaner, mounts, dirs, registered>>

\* reap_stale visits the names of a process that is dead.
Reaped(p) ==
    /\ p \in reaping /\ reaping' = reaping \ {p}
    /\ \E taken \in Umounts(p) : mounts' = Unmounted(taken)
    /\ dirs' = dirs \ Empty(mounts', {p})
    /\ missed' = IF mounts'[p] = <<>> THEN missed ELSE missed \cup {p}
    /\ UNCHANGED <<pid, running, surfaces, mounting, cleaner, registered>>
-------------------------------------------------------------------------------
Work(s) ==
    \/ Serves(s) \/ Reaches(s) \/ Mounts(s) \/ Registers(s)
    \/ Unmounts(s) \/ Removes(s) \/ Unregisters(s)

MountNext ==
    \/ \E d \in Drives : Announced(d)
    \/ \E s \in Numbers : Work(s) \/ Dropped(s)
    \/ Tick \/ Signalled \/ Killed \/ Started
    \/ \E p \in reaping : Reaped(p)

\* Threads and programs that were started run on.
AnyWork == \E s \in Numbers : Work(s)
AnyReaped == \E p \in reaping : Reaped(p)

MountSpec ==
    /\ Init /\ [][MountNext]_mountVars
    /\ WF_mountVars(AnyWork) /\ WF_mountVars(AnyReaped)
-------------------------------------------------------------------------------
Stranded(s) == Mounted(s) /\ ~Served(s)

\* A volume whose server has gone is unmounted in the end, as long as a process
\* runs: by the thread of the surface, or by the next process after a crash.  Only where
\* an unmount failed, or came before or to another volume than its own, one may stay.
OrphansGo ==
    <>[]running => <>[](\A s \in Numbers : Stranded(s) => Place(s) \in missed)

\* While its connection lasts, a volume is not unmounted by what is left of an earlier
\* one that had the same name, unless that has had MOUNT_DEFER and more to be done with.
LiveMountStays ==
    [][\A s \in Numbers :
          (Mounted(s) /\ Served(s) /\ running' /\ surfaces'[s].at = "serves")
             => \/ Mounted(s)'
                \/ \E t \in Numbers : Place(t) = Place(s) /\ surfaces[t].age = Defer /\ Unmounts(t)]_mountVars

\* Together: a volume stays exactly as long as its server.
MountsFollow == OrphansGo /\ LiveMountStays
=============================================================================
