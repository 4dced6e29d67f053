------------------------------ MODULE SessionLock -------------------------------
(***************************************************************************)
(* Who owns a game's session folder (src/src/vfsmount.cpp, and the launch  *)
(* around it in src/src/containerwrapper.cpp): a lock file beside the      *)
(* folder, opened or created, locked without waiting, and then compared    *)
(* with the file now at its path; unlinked before it is let go. Several    *)
(* VidyaGods share the folders: their launches, their sweeps of what dead  *)
(* launches left, and their probes all take the same lock, and a process   *)
(* may die at any step. One action is one system call, or one run of them  *)
(* that no other actor can come between.                                   *)
(***************************************************************************)
EXTENDS Naturals

CONSTANTS Actors,       \* threads that launch, sweep or probe
          Does,         \* bound: which of these each of them does
          Processes,    \* sets of actors that die together
          Folders,      \* folders two levels under a swept root
          Sessions,     \* those of them that are session folders
          Packages, PackageOf,
          SweepRoots,   \* the roots swept at start and from Settings: sets of packages
          CommandRoots, \* the roots "launch running --sweep" is given: the data folder,
                        \* where no session lies
          Inodes,       \* bound: lock files that exist at one time
          Stuck,        \* fault: a mount found in a folder may refuse to detach
          NoOne, NoFolder, NoInode, NoPackage

ASSUME LockAssumption ==
  /\ NoOne \notin Actors /\ NoInode \notin Inodes /\ NoFolder \notin Folders
  /\ NoPackage \notin Packages
  /\ Processes \subseteq SUBSET Actors
  /\ Sessions \subseteq Folders
  /\ PackageOf \in [Folders -> Packages]
  /\ SweepRoots \subseteq SUBSET Packages /\ CommandRoots \subseteq SUBSET Packages
  /\ \A r \in CommandRoots, f \in Sessions : PackageOf[f] \notin r
  /\ Stuck \in BOOLEAN

VARIABLES
  path,     \* the lock file at <folder>.lock
  holder,   \* who holds the lock of each file: closing it lets it go
  folder,   \* the folders that exist
  mounts,   \* the launches whose mounts lie in each folder
  package,  \* the package folders that exist
  actor,    \* where each actor is: its step, its role, the folder and the lock file it has
  loop      \* what a sweep still has to look at

files == <<path, holder>>
dirs  == <<folder, mounts, package>>
vars  == <<files, dirs, actor, loop>>

Tries == 3

Roles == {"launch", "sweep", "command", "probe"}

Pcs == {"idle", "mkdir", "open", "flock", "check", "claimed", "detach", "wipe", "build", "mount",
        "run", "unmount", "remove", "unlink", "close", "probe", "packages", "sessions", "clear", "erase"}

Actor == [pc : Pcs, role : Roles, at : Folders \cup {NoFolder}, fd : Inodes \cup {NoInode},
          tries : 0..Tries - 1]

Idle == [pc |-> "idle", role |-> "launch", at |-> NoFolder, fd |-> NoInode, tries |-> 0]

Loop == [root : SUBSET Packages, packages : SUBSET Packages, package : Packages \cup {NoPackage},
         sessions : SUBSET Folders, hadLock : BOOLEAN]

NoLoop == [root |-> {}, packages |-> {}, package |-> NoPackage, sessions |-> {}, hadLock |-> FALSE]

At(a) == actor[a].at
Goes(a, pc) == actor' = [actor EXCEPT ![a].pc = pc]
Launches(a) == actor[a].role = "launch"

\* An actor that does what only the folder's owner may do.
OwnerPcs == {"claimed", "detach", "wipe", "build", "mount", "run", "unmount", "remove", "unlink"}
Owns(a, f) == actor[a].at = f /\ actor[a].pc \in OwnerPcs

--------------------------------------------------------------------------------
(* ClaimSession *)

MakeDir(a) ==
  /\ actor[a].pc = "mkdir"
  /\ package' = [package EXCEPT ![PackageOf[At(a)]] = TRUE]
  /\ Goes(a, "open")
  /\ UNCHANGED <<files, folder, mounts, loop>>

\* mutant: the refused launch is cleaned up like any other
CleansUp(a) == IF Launches(a) THEN [actor[a] EXCEPT !.pc = "unmount", !.fd = NoInode]
               ELSE [actor[a] EXCEPT !.pc = "sessions", !.fd = NoInode]

\* No claim: a launch is over (its Cleanup does nothing), a sweep goes on.
Refused(a) == IF Launches(a) THEN Idle
              ELSE [Idle EXCEPT !.pc = "sessions", !.role = actor[a].role]

Unused(i) == (\A f \in Folders : path[f] # i) /\ \A a \in Actors : actor[a].fd # i

Open(a) ==
  /\ actor[a].pc = "open"
  /\ UNCHANGED <<holder, dirs, loop>>
  /\ \/ /\ ~package[PackageOf[At(a)]]
        /\ actor' = [actor EXCEPT ![a] = Refused(a)]
        /\ UNCHANGED path
     \/ /\ package[PackageOf[At(a)]]
        /\ \E i \in Inodes :
             /\ IF path[At(a)] = NoInode THEN Unused(i) ELSE i = path[At(a)]
             /\ path' = [path EXCEPT ![At(a)] = i]
             /\ actor' = [actor EXCEPT ![a].pc = "flock", ![a].fd = i]

Flock(a) ==
  /\ actor[a].pc = "flock"
  /\ IF holder[actor[a].fd] = NoOne
     THEN /\ holder' = [holder EXCEPT ![actor[a].fd] = a]
          /\ Goes(a, "check")
     ELSE /\ actor' = [actor EXCEPT ![a] = Refused(a)]
          /\ UNCHANGED holder
  /\ UNCHANGED <<path, dirs, loop>>

\* The next try, from the open.
Again(a) == [actor[a] EXCEPT !.pc = "open", !.fd = NoInode, !.tries = @ + 1]

\* mutants: the file at the path is not looked at again; one try too many
CheckNothing(a) ==
  /\ actor[a].pc = "check"
  /\ Goes(a, IF Launches(a) THEN "detach" ELSE "claimed")
  /\ UNCHANGED <<files, dirs, loop>>
CheckOnceMore(a) ==
  /\ actor[a].pc = "check"
  /\ IF path[At(a)] = actor[a].fd
     THEN Goes(a, IF Launches(a) THEN "detach" ELSE "claimed") /\ UNCHANGED holder
     ELSE /\ holder' = [holder EXCEPT ![actor[a].fd] = NoOne]
          /\ actor' = [actor EXCEPT ![a] = IF @.tries = Tries THEN Refused(a) ELSE Again(a)]
  /\ UNCHANGED <<path, dirs, loop>>

\* The lock counts only on the file that is at the path now.
Check(a) ==
  /\ actor[a].pc = "check"
  /\ IF path[At(a)] = actor[a].fd
     THEN Goes(a, IF Launches(a) THEN "detach" ELSE "claimed") /\ UNCHANGED holder
     ELSE /\ holder' = [holder EXCEPT ![actor[a].fd] = NoOne]
          /\ actor' = [actor EXCEPT ![a] = IF @.tries + 1 = Tries THEN Refused(a) ELSE Again(a)]
  /\ UNCHANGED <<path, dirs, loop>>

(* ReleaseSession *)

Unlink(a) ==
  /\ actor[a].pc = "unlink"
  /\ path' = [path EXCEPT ![At(a)] = NoInode]
  /\ Goes(a, "close")
  /\ UNCHANGED <<holder, dirs, loop>>

\* The launch (or the probe) is over; a sweep goes on to its next session.
Close(a) ==
  /\ actor[a].pc = "close"
  /\ holder' = [holder EXCEPT ![actor[a].fd] = NoOne]
  /\ actor' = [actor EXCEPT ![a] = IF @.role \in {"launch", "probe"} THEN Idle ELSE Refused(a)]
  /\ UNCHANGED <<path, dirs, loop>>

(* SessionOwned *)

Probe(a, f) ==
  /\ actor[a].pc = "idle" /\ path[f] # NoInode
  /\ actor' = [actor EXCEPT ![a] = [Idle EXCEPT !.pc = "probe", !.role = "probe", !.at = f,
                                                !.fd = path[f]]]
  /\ UNCHANGED <<files, dirs, loop>>

\* A probe takes the lock to find out whether it is held, and lets it go.
ProbeLocks(a) ==
  /\ actor[a].pc = "probe"
  /\ IF holder[actor[a].fd] = NoOne
     THEN /\ holder' = [holder EXCEPT ![actor[a].fd] = a]
          /\ Goes(a, "close")
     ELSE /\ actor' = [actor EXCEPT ![a] = Idle]
          /\ UNCHANGED holder
  /\ UNCHANGED <<path, dirs, loop>>

--------------------------------------------------------------------------------
(* CleanStaleRuntime *)

\* After it, whatever it could clear, a launch builds and a sweep lets go.
Cleared(a) == IF Launches(a) THEN "build" ELSE "unlink"

\* Every mount is detached; the folder stays if one of them does.
Detach(a) ==
  /\ actor[a].pc = "detach"
  /\ \E left \in (IF Stuck THEN SUBSET mounts[At(a)] ELSE {{}}) :
       /\ mounts' = [mounts EXCEPT ![At(a)] = left]
       /\ Goes(a, IF left = {} THEN "wipe" ELSE Cleared(a))
  /\ UNCHANGED <<files, folder, package, loop>>

Wipe(a) ==
  /\ actor[a].pc = "wipe"
  /\ folder' = [folder EXCEPT ![At(a)] = FALSE]
  /\ Goes(a, Cleared(a))
  /\ UNCHANGED <<files, mounts, package, loop>>

--------------------------------------------------------------------------------
(* A launch: BuildContainerRuntime, Execute, Cleanup *)

Launch(a, f) ==
  /\ actor[a].pc = "idle"
  /\ actor' = [actor EXCEPT ![a] = [Idle EXCEPT !.pc = "mkdir", !.at = f]]
  /\ UNCHANGED <<files, dirs, loop>>

\* The folder is filled; a build that fails goes to its cleanup.
Build(a) ==
  /\ actor[a].pc = "build"
  /\ folder' = [folder EXCEPT ![At(a)] = TRUE]
  /\ Goes(a, "mount") \/ Goes(a, "unmount")
  /\ UNCHANGED <<files, mounts, package, loop>>

\* A mount that was there before is taken for the one that did not come up.
Mount(a) ==
  /\ actor[a].pc = "mount"
  /\ \/ /\ mounts' = [mounts EXCEPT ![At(a)] = @ \cup {a}]
        /\ Goes(a, "run")
     \/ /\ UNCHANGED mounts
        /\ Goes(a, IF mounts[At(a)] = {} THEN "unmount" ELSE "run")
  /\ UNCHANGED <<files, folder, package, loop>>

GameEnds(a) ==
  /\ actor[a].pc = "run"
  /\ Goes(a, "unmount")
  /\ UNCHANGED <<files, dirs, loop>>

\* mutant: a mount that is still busy does not stop the wipe
UnmountCarelessly(a) ==
  /\ actor[a].pc = "unmount"
  /\ \E left \in {mounts[At(a)], mounts[At(a)] \ {a}} : mounts' = [mounts EXCEPT ![At(a)] = left]
  /\ Goes(a, "remove")
  /\ UNCHANGED <<files, folder, package, loop>>

\* Its own mount comes off, or stays busy: then the folder is left as it is.
Unmount(a) ==
  /\ actor[a].pc = "unmount"
  /\ \/ /\ mounts' = [mounts EXCEPT ![At(a)] = @ \ {a}]
        /\ Goes(a, "remove")
     \/ /\ a \in mounts[At(a)]
        /\ UNCHANGED mounts
        /\ Goes(a, "unlink")
  /\ UNCHANGED <<files, folder, package, loop>>

Remove(a) ==
  /\ actor[a].pc = "remove"
  /\ folder' = [folder EXCEPT ![At(a)] = FALSE]
  /\ Goes(a, "unlink")
  /\ UNCHANGED <<files, mounts, package, loop>>

--------------------------------------------------------------------------------
(* SweepDeadSessions *)

\* At start and from Settings, or as the command, which then clears the root itself.
Sweep(a, role, root) ==
  /\ actor[a].pc = "idle"
  /\ actor' = [actor EXCEPT ![a] = [Idle EXCEPT !.pc = "packages", !.role = role]]
  /\ loop' = [loop EXCEPT ![a] = [NoLoop EXCEPT !.root = root,
                                                !.packages = {p \in root : package[p]}]]
  /\ UNCHANGED <<files, dirs>>

\* The folders and the lock files of a package, as they are listed.
Found(p) == {f \in Folders : PackageOf[f] = p /\ (folder[f] \/ path[f] # NoInode)}

ToPackage(a, p) ==
  [loop[a] EXCEPT !.packages = @ \ {p}, !.package = p, !.sessions = Found(p)]

ToSession(a, f) ==
  [loop[a] EXCEPT !.sessions = @ \ {f}, !.hadLock = path[f] # NoInode]

SweepPackage(a) ==
  /\ actor[a].pc = "packages"
  /\ UNCHANGED <<files, dirs>>
  /\ \/ \E p \in loop[a].packages :
          /\ loop' = [loop EXCEPT ![a] = ToPackage(a, p)]
          /\ Goes(a, "sessions")
     \/ /\ loop[a].packages = {} /\ actor[a].role = "command"
        /\ Goes(a, "clear")
        /\ UNCHANGED loop
     \/ /\ loop[a].packages = {} /\ actor[a].role = "sweep"
        /\ actor' = [actor EXCEPT ![a] = Idle]
        /\ loop' = [loop EXCEPT ![a] = NoLoop]

SweepSession(a) ==
  /\ actor[a].pc = "sessions"
  /\ \E f \in loop[a].sessions :
       /\ loop' = [loop EXCEPT ![a] = ToSession(a, f)]
       /\ actor' = [actor EXCEPT ![a] = [@ EXCEPT !.pc = "mkdir", !.at = f]]
  /\ UNCHANGED <<files, dirs>>

\* A folder that had no lock and is mounted is taken for an older build's.
SweepLooks(a) ==
  /\ actor[a].pc = "claimed"
  /\ Goes(a, IF ~loop[a].hadLock /\ mounts[At(a)] # {} THEN "unlink" ELSE "detach")
  /\ UNCHANGED <<files, dirs, loop>>

Empty(p) == \A f \in Folders : PackageOf[f] = p => ~folder[f] /\ path[f] = NoInode

\* The package folder goes too, if it is empty.
PackageDone(a) ==
  /\ actor[a].pc = "sessions" /\ loop[a].sessions = {}
  /\ package' = [package EXCEPT ![loop[a].package] = @ /\ ~Empty(loop[a].package)]
  /\ Goes(a, "packages")
  /\ loop' = [loop EXCEPT ![a] = [@ EXCEPT !.package = NoPackage, !.hadLock = FALSE]]
  /\ UNCHANGED <<files, folder, mounts>>

Under(a) == {f \in Folders : PackageOf[f] \in loop[a].root}

\* "launch running --sweep": CleanStaleRuntime of the root, which nobody claims.
ClearRoot(a) ==
  /\ actor[a].pc = "clear"
  /\ mounts' = [f \in Folders |-> IF f \in Under(a) THEN {} ELSE mounts[f]]
  /\ Goes(a, "erase")
  /\ UNCHANGED <<files, folder, package, loop>>

EraseRoot(a) ==
  /\ actor[a].pc = "erase"
  /\ folder' = [f \in Folders |-> folder[f] /\ f \notin Under(a)]
  /\ path' = [f \in Folders |-> IF f \in Under(a) THEN NoInode ELSE path[f]]
  /\ package' = [p \in Packages |-> package[p] /\ p \notin loop[a].root]
  /\ actor' = [actor EXCEPT ![a] = Idle]
  /\ loop' = [loop EXCEPT ![a] = NoLoop]
  /\ UNCHANGED <<holder, mounts>>

--------------------------------------------------------------------------------
(* The rest of the machine *)

\* A process dies: the kernel closes its files, and leaves what it mounted.
Die(P) ==
  /\ actor' = [a \in Actors |-> IF a \in P THEN Idle ELSE actor[a]]
  /\ loop' = [a \in Actors |-> IF a \in P THEN NoLoop ELSE loop[a]]
  /\ holder' = [i \in Inodes |-> IF holder[i] \in P THEN NoOne ELSE holder[i]]
  /\ UNCHANGED <<path, dirs>>

\* The mount helper's watchdog, or a detach that was busy: a mount whose launch
\* is over goes.
MountGoes(a, f) ==
  /\ a \in mounts[f] /\ ~Owns(a, f)
  /\ mounts' = [mounts EXCEPT ![f] = @ \ {a}]
  /\ UNCHANGED <<files, folder, package, actor, loop>>

--------------------------------------------------------------------------------
Init ==
  /\ path = [f \in Folders |-> NoInode]
  /\ holder = [i \in Inodes |-> NoOne]
  /\ folder \in [Folders -> BOOLEAN]
  /\ \A f \in Sessions : ~folder[f]
  /\ mounts = [f \in Folders |-> {}]
  /\ package = [p \in Packages |-> ~Empty(p)]
  /\ actor = [a \in Actors |-> Idle]
  /\ loop = [a \in Actors |-> NoLoop]

Step(a) ==
  \/ MakeDir(a) \/ Open(a) \/ Flock(a) \/ Check(a) \/ Unlink(a) \/ Close(a)
  \/ ProbeLocks(a) \/ Detach(a) \/ Wipe(a)
  \/ Build(a) \/ Mount(a) \/ GameEnds(a) \/ Unmount(a) \/ Remove(a)
  \/ SweepPackage(a) \/ SweepSession(a) \/ SweepLooks(a) \/ PackageDone(a)
  \/ ClearRoot(a) \/ EraseRoot(a)

Start(a) ==
  \/ "launch" \in Does[a] /\ \E f \in Sessions : Launch(a, f)
  \/ "probe" \in Does[a] /\ \E f \in Sessions : Probe(a, f)
  \/ "sweep" \in Does[a] /\ \E r \in SweepRoots : Sweep(a, "sweep", r)
  \/ "command" \in Does[a] /\ \E r \in CommandRoots : Sweep(a, "command", r)

Next ==
  \/ \E a \in Actors : Step(a) \/ Start(a)
  \/ \E P \in Processes : Die(P)
  \/ \E a \in Actors, f \in Folders : MountGoes(a, f)

Spec == Init /\ [][Next]_vars

--------------------------------------------------------------------------------
(* Correctness *)

\* The lock files, their holders, the folders and every actor keep their types.
TypeOK ==
  /\ path \in [Folders -> Inodes \cup {NoInode}]
  /\ holder \in [Inodes -> Actors \cup {NoOne}]
  /\ folder \in [Folders -> BOOLEAN]
  /\ mounts \in [Folders -> SUBSET Actors]
  /\ package \in [Packages -> BOOLEAN]
  /\ actor \in [Actors -> Actor]
  /\ loop \in [Actors -> Loop]

\* "Two launches never both own one folder": however claims, releases, sweeps,
\* probes and deaths interleave, one actor at most is past its claim.
OneOwner ==
  \A f \in Sessions : \A a, b \in Actors : Owns(a, f) /\ Owns(b, f) => a = b

\* "A running game's session is never touched": while its game runs, the folder
\* and the mount of a launch are there.
RuntimeIntact ==
  \A a \in Actors : actor[a].pc = "run" => folder[At(a)] /\ a \in mounts[At(a)]

\* "Never wipe while a durable mount could still be traversed": what is removed
\* under a mount is the user's saves.
WipesOnlyUnmounted ==
  [][\A f \in Folders : folder[f] /\ ~folder'[f] => mounts[f] = {}]_vars

OwnerOf(f) ==
  IF \E a \in Actors : Owns(a, f) THEN CHOOSE a \in Actors : Owns(a, f) ELSE NoOne

\* The lock file gives what a session folder's owner is promised.
Promise == INSTANCE SessionOwner WITH Folders <- Sessions,
                                      owner <- [f \in Sessions |-> OwnerOf(f)],
                                      folder <- [f \in Sessions |-> folder[f]]
KeepsPromise == Promise!Spec
================================================================================
