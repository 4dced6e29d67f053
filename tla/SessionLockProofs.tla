--------------------------- MODULE SessionLockProofs ---------------------------
(***************************************************************************)
(* Theorems about SessionLock, for every value of its constants.           *)
(***************************************************************************)
EXTENDS SessionLock, TLAPS

\* The steps that hold a lock, have a lock file, have a folder, are a launch's.
HoldPcs == OwnerPcs \cup {"check", "close"}
FdPcs == HoldPcs \cup {"flock", "probe"}
AtPcs == FdPcs \cup {"mkdir", "open"}
LaunchPcs == {"build", "mount", "run", "unmount", "remove"}

\* What an actor has at each of its steps.
Shape(r, l) ==
  /\ r.pc \in AtPcs => r.at \in Folders
  /\ r.pc \in FdPcs => r.fd \in Inodes
  /\ r.pc # "idle" /\ r.role = "launch" => r.at \in Sessions
  /\ r.pc \in LaunchPcs => r.role = "launch"
  /\ r.pc \in {"packages", "sessions", "claimed"} => r.role \in {"sweep", "command"}
  /\ r.pc \in {"clear", "erase"} => r.role = "command"
  /\ r.role = "probe" => r.pc \in {"probe", "close"}
  /\ r.pc # "idle" /\ r.role = "command" => l.root \in CommandRoots

Shapely == TypeOK /\ \A a \in Actors : Shape(actor[a], loop[a])

--------------------------------------------------------------------------------
(* Type correctness *)

LEMMA Fields ==
  ASSUME NEW r \in Actor
  PROVE  /\ \A x \in Pcs : [r EXCEPT !.pc = x] \in Actor
         /\ \A x \in Roles : [r EXCEPT !.role = x] \in Actor
         /\ \A x \in Folders \cup {NoFolder} : [r EXCEPT !.at = x] \in Actor
         /\ \A x \in Inodes \cup {NoInode} : [r EXCEPT !.fd = x] \in Actor
         /\ \A x \in 0..Tries - 1 : [r EXCEPT !.tries = x] \in Actor
BY DEF Actor

LEMMA IdleShape == Idle \in Actor /\ NoLoop \in Loop /\ \A l \in Loop : Shape(Idle, l)
BY DEF Idle, Actor, Pcs, Roles, Tries, NoLoop, Loop, Shape, AtPcs, FdPcs, HoldPcs, OwnerPcs, LaunchPcs

\* A refused claim leaves a launch idle and a sweep at its sessions.
LEMMA RefusedShape ==
  ASSUME Shapely, NEW a \in Actors, actor[a].pc # "idle", actor[a].role # "probe"
  PROVE  /\ Refused(a) \in Actor /\ Shape(Refused(a), loop[a])
         /\ Refused(a).pc \in {"idle", "sessions"}
<1>1. actor[a] \in Actor /\ loop[a] \in Loop /\ Shape(actor[a], loop[a])
  BY DEF Shapely, TypeOK
<1>2. CASE Launches(a)
  BY <1>1, <1>2, IdleShape DEF Refused, Idle
<1>3. CASE ~Launches(a)
  <2>1. actor[a].role \in {"sweep", "command"}
    BY <1>1, <1>3 DEF Actor, Roles, Launches
  <2>2. Refused(a) \in Actor
    <3>1. [Idle EXCEPT !.pc = "sessions"] \in Actor
      BY IdleShape, Fields DEF Pcs
    <3> QED
      BY <1>3, <2>1, <3>1, Fields DEF Refused, Roles
  <2>3. Refused(a).pc = "sessions" /\ Refused(a).role = actor[a].role
    BY <1>3 DEF Refused, Idle
  <2>4. Shape(Refused(a), loop[a])
    BY <1>1, <2>1, <2>3 DEF Shape, AtPcs, FdPcs, HoldPcs, OwnerPcs, LaunchPcs
  <2> QED
    BY <2>2, <2>3, <2>4
<1> QED
  BY <1>2, <1>3

LEMMA AgainType ==
  ASSUME Shapely, NEW a \in Actors, actor[a].tries + 1 # Tries
  PROVE  /\ Again(a) \in Actor
         /\ Again(a).pc = "open" /\ Again(a).at = At(a) /\ Again(a).role = actor[a].role
<1> DEFINE r == [actor[a] EXCEPT !.pc = "open", !.fd = NoInode]
<1>1. actor[a] \in Actor
  BY DEF Shapely, TypeOK
<1>2. [actor[a] EXCEPT !.pc = "open"] \in Actor
  BY <1>1, Fields DEF Pcs
<1>3. r \in Actor /\ r.pc = "open" /\ r.at = At(a) /\ r.role = actor[a].role
      /\ r.tries = actor[a].tries
  BY <1>1, <1>2, Fields DEF Actor, At
<1>4. actor[a].tries + 1 \in 0..Tries - 1
  BY <1>1 DEF Actor, Tries
<1>5. Again(a) = [r EXCEPT !.tries = @ + 1]
  BY DEF Again
<1> HIDE DEF r
<1>6. Again(a) \in Actor
  BY <1>3, <1>4, <1>5, Fields
<1> QED
  BY <1>3, <1>5, <1>6 DEF Actor

LEMMA GoesOn ==
  ASSUME Shapely, NEW a \in Actors, NEW p \in Pcs, Goes(a, p)
  PROVE  /\ actor'[a] \in Actor
         /\ actor'[a].pc = p /\ actor'[a].role = actor[a].role
         /\ actor'[a].at = actor[a].at /\ actor'[a].fd = actor[a].fd
         /\ \A b \in Actors \ {a} : actor'[b] = actor[b]
<1>1. actor[a] \in Actor /\ actor \in [Actors -> Actor]
  BY DEF Shapely, TypeOK
<1>2. actor'[a] = [actor[a] EXCEPT !.pc = p] /\ \A b \in Actors \ {a} : actor'[b] = actor[b]
  BY <1>1 DEF Goes
<1> QED
  BY <1>1, <1>2, Fields DEF Actor

\* Every step of an actor keeps the types and what it has.
LEMMA StepShape ==
  ASSUME Shapely, NEW a \in Actors, Step(a)
  PROVE  Shapely'
<1> USE DEF Shapely, TypeOK
<1> DEFINE Keep == /\ path' \in [Folders -> Inodes \cup {NoInode}]
                   /\ holder' \in [Inodes -> Actors \cup {NoOne}]
                   /\ folder' \in [Folders -> BOOLEAN]
                   /\ mounts' \in [Folders -> SUBSET Actors]
                   /\ package' \in [Packages -> BOOLEAN]
           Domain == /\ actor' \in [Actors -> {actor'[b] : b \in Actors}]
                     /\ loop' \in [Actors -> {loop'[b] : b \in Actors}]
           Typed == /\ actor'[a] \in Actor /\ loop'[a] \in Loop
                    /\ \A b \in Actors \ {a} : actor'[b] = actor[b] /\ loop'[b] = loop[b]
<1>t. actor[a] \in Actor /\ loop[a] \in Loop /\ Shape(actor[a], loop[a])
  OBVIOUS
<1>r. actor[a].pc # "idle" /\ actor[a].role # "probe" =>
        Refused(a) \in Actor /\ Shape(Refused(a), loop[a])
  BY RefusedShape
<1>1. CASE MakeDir(a)
  <2>1. Keep
    BY <1>1, <1>t DEF MakeDir, Goes, At, files, dirs
  <2>2. Domain
    BY <1>1 DEF MakeDir, Goes, dirs
  <2>3. PICK p \in {"open"} : Goes(a, p)
    BY <1>1 DEF MakeDir
  <2>4. /\ actor'[a] \in Actor /\ actor'[a].pc = p /\ actor'[a].role = actor[a].role
        /\ actor'[a].at = actor[a].at /\ actor'[a].fd = actor[a].fd
        /\ \A b \in Actors \ {a} : actor'[b] = actor[b]
    BY <2>3, GoesOn DEF Pcs
  <2>5. Typed
    BY <1>1, <1>t, <2>4 DEF MakeDir
  <2>6. Shape(actor'[a], loop'[a])
    BY <1>1, <1>t, <2>3, <2>4 DEF MakeDir, Launches, Shape, AtPcs, FdPcs, HoldPcs, OwnerPcs, LaunchPcs
  <2> QED
    BY <2>1, <2>2, <2>5, <2>6
<1>2. CASE Open(a)
  <2>1. Keep
    BY <1>2, <1>t DEF Open, Goes, At, files, dirs
  <2>2. Domain
    BY <1>2 DEF Open, Goes, dirs
  <2>r. Refused(a) \in Actor /\ Shape(Refused(a), loop[a])
    BY <1>2, <1>r, <1>t DEF Open, Shape
  <2>3. CASE actor' = [actor EXCEPT ![a] = Refused(a)]
    BY <1>2, <1>t, <2>1, <2>2, <2>3, <2>r DEF Open, dirs

  <2>4. CASE \E i \in Inodes : actor' = [actor EXCEPT ![a].pc = "flock", ![a].fd = i]
    <3>1. PICK i \in Inodes : actor' = [actor EXCEPT ![a].pc = "flock", ![a].fd = i]
      BY <2>4
    <3>2. actor'[a] = [actor[a] EXCEPT !.pc = "flock", !.fd = i]
      BY <3>1
    <3>3. [actor[a] EXCEPT !.pc = "flock"] \in Actor
      BY <1>t, Fields DEF Pcs
    <3>4. Typed
      BY <1>2, <1>t, <3>1, <3>2, <3>3, Fields DEF Open
    <3>5. Shape(actor'[a], loop'[a])
      BY <1>2, <1>t, <3>2, <3>4 DEF Open, Actor, Roles, Shape, AtPcs, FdPcs, HoldPcs, OwnerPcs, LaunchPcs
    <3> QED
      BY <2>1, <2>2, <3>4, <3>5
  <2> QED
    BY <1>2, <2>3, <2>4 DEF Open
<1>3. CASE Flock(a)
  <2>1. Keep
    BY <1>3, <1>t DEF Flock, Goes, At, files, dirs
  <2>2. Domain
    BY <1>3 DEF Flock, Goes, dirs
  <2>r. Refused(a) \in Actor /\ Shape(Refused(a), loop[a])
    BY <1>3, <1>r, <1>t DEF Flock, Shape
  <2>3. CASE actor' = [actor EXCEPT ![a] = Refused(a)]
    BY <1>3, <1>t, <2>1, <2>2, <2>3, <2>r DEF Flock, dirs

  <2>4. CASE Goes(a, "check")
    <3>1. Typed
      BY <1>3, <1>t, <2>4, Fields DEF Flock, Goes, Pcs
    <3>2. Shape(actor'[a], loop'[a])
      BY <1>3, <1>t, <2>4 DEF Flock, Goes, Actor, Roles, Shape, AtPcs, FdPcs, HoldPcs, OwnerPcs, LaunchPcs
    <3> QED
      BY <2>1, <2>2, <3>1, <3>2
  <2> QED
    BY <1>3, <2>3, <2>4 DEF Flock
<1>4. CASE Check(a)
  <2>1. Keep
    BY <1>4, <1>t DEF Check, Goes, At, files, dirs
  <2>2. Domain
    BY <1>4 DEF Check, Goes, dirs
  <2>r. Refused(a) \in Actor /\ Shape(Refused(a), loop[a])
    BY <1>4, <1>r, <1>t DEF Check, Shape
  <2>3. CASE actor' = [actor EXCEPT ![a] = Refused(a)]
    BY <1>4, <1>t, <2>1, <2>2, <2>3, <2>r DEF Check, dirs

  <2>4. CASE Goes(a, "detach") \/ (Goes(a, "claimed") /\ ~Launches(a))
    <3>1. PICK p \in {"detach", "claimed"} : Goes(a, p) /\ (p = "claimed" => ~Launches(a))
      BY <2>4
    <3>2. /\ actor'[a] \in Actor /\ actor'[a].pc = p /\ actor'[a].role = actor[a].role
          /\ actor'[a].at = actor[a].at /\ actor'[a].fd = actor[a].fd
          /\ \A b \in Actors \ {a} : actor'[b] = actor[b]
      BY <3>1, GoesOn DEF Pcs
    <3>3. actor[a].pc = "check" /\ loop' = loop
      BY <1>4 DEF Check
    <3>4. Typed
      BY <1>t, <3>2, <3>3
    <3>5. actor[a].role \in {"launch", "sweep", "command"} /\ actor[a].at \in Folders /\ actor[a].fd \in Inodes
      BY <1>t, <3>3 DEF Shape, AtPcs, FdPcs, HoldPcs, Actor, Roles
    <3>6. Shape(actor'[a], loop'[a])
      BY <1>t, <3>1, <3>2, <3>3, <3>5 DEF Launches, Shape, AtPcs, FdPcs, HoldPcs, OwnerPcs, LaunchPcs
    <3> QED
      BY <2>1, <2>2, <3>4, <3>6
  <2>5. CASE actor[a].tries + 1 # Tries /\ actor' = [actor EXCEPT ![a] = Again(a)]
    <3>1. /\ Again(a) \in Actor
          /\ Again(a).pc = "open" /\ Again(a).at = At(a) /\ Again(a).role = actor[a].role
      BY <2>5, AgainType
    <3>2. Typed
      BY <1>4, <1>t, <2>5, <3>1 DEF Check
    <3>3. Shape(actor'[a], loop'[a])
      BY <1>4, <1>t, <2>5, <3>1 DEF Check, At, Shape, AtPcs, FdPcs, HoldPcs, OwnerPcs, LaunchPcs
    <3> QED
      BY <2>1, <2>2, <3>2, <3>3
  <2>6. \/ Goes(a, "detach") \/ (Goes(a, "claimed") /\ ~Launches(a))
        \/ actor' = [actor EXCEPT ![a] = Refused(a)]
        \/ actor[a].tries + 1 # Tries /\ actor' = [actor EXCEPT ![a] = Again(a)]
    <3>1. CASE path[At(a)] = actor[a].fd
      <4>1. CASE Launches(a)
        <5>1. Goes(a, "detach")
          BY <1>4, <3>1, <4>1 DEF Check, Goes
        <5> QED
          BY <5>1
      <4>2. CASE ~Launches(a)
        BY <1>4, <3>1, <4>2 DEF Check, Goes
      <4> QED
        BY <4>1, <4>2
    <3>2. CASE path[At(a)] # actor[a].fd /\ actor[a].tries + 1 = Tries
      <4> actor' = [actor EXCEPT ![a] = Refused(a)]
        BY <1>4, <3>2 DEF Check
      <4> QED OBVIOUS
    <3>3. CASE path[At(a)] # actor[a].fd /\ actor[a].tries + 1 # Tries
      <4> actor' = [actor EXCEPT ![a] = Again(a)]
        BY <1>4, <3>3 DEF Check
      <4> QED BY <3>3
    <3> QED
      BY <3>1, <3>2, <3>3
  <2> QED
    BY <2>3, <2>4, <2>5, <2>6
<1>5. CASE Unlink(a)
  <2>1. Keep
    BY <1>5, <1>t DEF Unlink, Goes, At, files, dirs
  <2>2. Domain
    BY <1>5 DEF Unlink, Goes, dirs
  <2>3. PICK p \in {"close"} : Goes(a, p)
    BY <1>5 DEF Unlink
  <2>4. /\ actor'[a] \in Actor /\ actor'[a].pc = p /\ actor'[a].role = actor[a].role
        /\ actor'[a].at = actor[a].at /\ actor'[a].fd = actor[a].fd
        /\ \A b \in Actors \ {a} : actor'[b] = actor[b]
    BY <2>3, GoesOn DEF Pcs
  <2>5. Typed
    BY <1>5, <1>t, <2>4 DEF Unlink
  <2>6. Shape(actor'[a], loop'[a])
    BY <1>5, <1>t, <2>3, <2>4 DEF Unlink, Launches, Shape, AtPcs, FdPcs, HoldPcs, OwnerPcs, LaunchPcs
  <2> QED
    BY <2>1, <2>2, <2>5, <2>6
<1>6. CASE Close(a)
  <2>1. Keep
    BY <1>6, <1>t DEF Close, Goes, At, files, dirs
  <2>2. Domain
    BY <1>6 DEF Close, Goes, dirs
  <2>3. Typed
    BY <1>6, <1>t, IdleShape, <1>r DEF Close, Goes, At, Actor, Pcs, Roles
  <2>4. Shape(actor'[a], loop'[a])
    BY <1>6, <1>t, IdleShape, <1>r DEF Close, Goes, At, Actor, Roles, Shape, AtPcs, FdPcs, HoldPcs, OwnerPcs, LaunchPcs
  <2> QED
    BY <2>1, <2>2, <2>3, <2>4
<1>7. CASE ProbeLocks(a)
  <2>1. Keep
    BY <1>7, <1>t DEF ProbeLocks, Goes, At, files, dirs
  <2>2. Domain
    BY <1>7 DEF ProbeLocks, Goes, dirs
  <2>3. actor[a].pc = "probe" /\ loop' = loop
    BY <1>7 DEF ProbeLocks
  <2>4. CASE Goes(a, "close")
    <3>1. /\ actor'[a] \in Actor /\ actor'[a].pc = "close" /\ actor'[a].role = actor[a].role
          /\ actor'[a].at = actor[a].at /\ actor'[a].fd = actor[a].fd
          /\ \A b \in Actors \ {a} : actor'[b] = actor[b]
      BY <2>4, GoesOn DEF Pcs
    <3>2. Typed
      BY <1>t, <2>3, <3>1
    <3>3. Shape(actor'[a], loop'[a])
      BY <1>t, <2>3, <3>1 DEF Shape, AtPcs, FdPcs, HoldPcs, OwnerPcs, LaunchPcs
    <3> QED
      BY <2>1, <2>2, <3>2, <3>3
  <2>5. CASE actor' = [actor EXCEPT ![a] = Idle]
    <3>1. actor'[a] = Idle /\ \A b \in Actors \ {a} : actor'[b] = actor[b]
      BY <2>5
    <3>2. Typed /\ Shape(actor'[a], loop'[a])
      BY <1>t, <2>3, <3>1, IdleShape
    <3> QED
      BY <2>1, <2>2, <3>2
  <2> QED
    BY <1>7, <2>4, <2>5 DEF ProbeLocks
<1>8. CASE Detach(a)
  <2>1. Keep
    <3>1. PICK left : left \subseteq mounts[At(a)] /\ mounts' = [mounts EXCEPT ![At(a)] = left]
      BY <1>8 DEF Detach
    <3>2. At(a) \in Folders
      BY <1>8, <1>t DEF Detach, At, Shape, AtPcs, FdPcs, HoldPcs, OwnerPcs
    <3> QED
      BY <1>8, <3>1, <3>2 DEF Detach, files
  <2>2. Domain
    BY <1>8 DEF Detach, Goes, dirs
  <2>3. PICK p \in {"wipe", "build", "unlink"} : Goes(a, p) /\ (p = "build" => Launches(a))
    BY <1>8 DEF Detach, Cleared
  <2>4. /\ actor'[a] \in Actor /\ actor'[a].pc = p /\ actor'[a].role = actor[a].role
        /\ actor'[a].at = actor[a].at /\ actor'[a].fd = actor[a].fd
        /\ \A b \in Actors \ {a} : actor'[b] = actor[b]
    BY <2>3, GoesOn DEF Pcs
  <2>5. Typed
    BY <1>8, <1>t, <2>4 DEF Detach
  <2>6. Shape(actor'[a], loop'[a])
    BY <1>8, <1>t, <2>3, <2>4 DEF Detach, Launches, Shape, AtPcs, FdPcs, HoldPcs, OwnerPcs, LaunchPcs
  <2> QED
    BY <2>1, <2>2, <2>5, <2>6
<1>9. CASE Wipe(a)
  <2>1. Keep
    BY <1>9, <1>t DEF Wipe, Goes, At, files, dirs
  <2>2. Domain
    BY <1>9 DEF Wipe, Goes, dirs
  <2>3. PICK p \in {"wipe", "build", "unlink"} : Goes(a, p) /\ (p = "build" => Launches(a))
    BY <1>9 DEF Wipe, Cleared
  <2>4. /\ actor'[a] \in Actor /\ actor'[a].pc = p /\ actor'[a].role = actor[a].role
        /\ actor'[a].at = actor[a].at /\ actor'[a].fd = actor[a].fd
        /\ \A b \in Actors \ {a} : actor'[b] = actor[b]
    BY <2>3, GoesOn DEF Pcs
  <2>5. Typed
    BY <1>9, <1>t, <2>4 DEF Wipe
  <2>6. Shape(actor'[a], loop'[a])
    BY <1>9, <1>t, <2>3, <2>4 DEF Wipe, Launches, Shape, AtPcs, FdPcs, HoldPcs, OwnerPcs, LaunchPcs
  <2> QED
    BY <2>1, <2>2, <2>5, <2>6
<1>10. CASE Build(a)
  <2>1. Keep
    BY <1>10, <1>t DEF Build, Goes, At, files, dirs
  <2>2. Domain
    BY <1>10 DEF Build, Goes, dirs
  <2>3. PICK p \in {"mount", "unmount"} : Goes(a, p)
    BY <1>10 DEF Build
  <2>4. /\ actor'[a] \in Actor /\ actor'[a].pc = p /\ actor'[a].role = actor[a].role
        /\ actor'[a].at = actor[a].at /\ actor'[a].fd = actor[a].fd
        /\ \A b \in Actors \ {a} : actor'[b] = actor[b]
    BY <2>3, GoesOn DEF Pcs
  <2>5. Typed
    BY <1>10, <1>t, <2>4 DEF Build
  <2>6. Shape(actor'[a], loop'[a])
    BY <1>10, <1>t, <2>3, <2>4 DEF Build, Launches, Shape, AtPcs, FdPcs, HoldPcs, OwnerPcs, LaunchPcs
  <2> QED
    BY <2>1, <2>2, <2>5, <2>6
<1>11. CASE Mount(a)
  <2>1. Keep
    BY <1>11, <1>t DEF Mount, Goes, At, files, dirs
  <2>2. Domain
    BY <1>11 DEF Mount, Goes, dirs
  <2>3. Goes(a, "run") \/ Goes(a, "unmount")
    BY <1>11 DEF Mount
  <2>4. Typed
    BY <1>11, <1>t, <2>3, Fields DEF Mount, Goes, Pcs
  <2>5. Shape(actor'[a], loop'[a])
    BY <1>11, <1>t, <2>3 DEF Mount, Goes, Actor, Roles, Shape, AtPcs, FdPcs, HoldPcs, OwnerPcs, LaunchPcs
  <2> QED
    BY <2>1, <2>2, <2>4, <2>5
<1>12. CASE GameEnds(a)
  <2>1. Keep
    BY <1>12, <1>t DEF GameEnds, Goes, At, files, dirs
  <2>2. Domain
    BY <1>12 DEF GameEnds, Goes, dirs
  <2>3. PICK p \in {"unmount"} : Goes(a, p)
    BY <1>12 DEF GameEnds
  <2>4. /\ actor'[a] \in Actor /\ actor'[a].pc = p /\ actor'[a].role = actor[a].role
        /\ actor'[a].at = actor[a].at /\ actor'[a].fd = actor[a].fd
        /\ \A b \in Actors \ {a} : actor'[b] = actor[b]
    BY <2>3, GoesOn DEF Pcs
  <2>5. Typed
    BY <1>12, <1>t, <2>4 DEF GameEnds
  <2>6. Shape(actor'[a], loop'[a])
    BY <1>12, <1>t, <2>3, <2>4 DEF GameEnds, Launches, Shape, AtPcs, FdPcs, HoldPcs, OwnerPcs, LaunchPcs
  <2> QED
    BY <2>1, <2>2, <2>5, <2>6
<1>13. CASE Unmount(a)
  <2>1. Keep
    BY <1>13, <1>t DEF Unmount, Goes, At, files, dirs
  <2>2. Domain
    BY <1>13 DEF Unmount, Goes, dirs
  <2>3. Goes(a, "remove") \/ Goes(a, "unlink")
    BY <1>13 DEF Unmount
  <2>4. Typed
    BY <1>13, <1>t, <2>3, Fields DEF Unmount, Goes, Pcs
  <2>5. Shape(actor'[a], loop'[a])
    BY <1>13, <1>t, <2>3 DEF Unmount, Goes, Actor, Roles, Shape, AtPcs, FdPcs, HoldPcs, OwnerPcs, LaunchPcs
  <2> QED
    BY <2>1, <2>2, <2>4, <2>5
<1>14. CASE Remove(a)
  <2>1. Keep
    BY <1>14, <1>t DEF Remove, Goes, At, files, dirs
  <2>2. Domain
    BY <1>14 DEF Remove, Goes, dirs
  <2>3. PICK p \in {"unlink"} : Goes(a, p)
    BY <1>14 DEF Remove
  <2>4. /\ actor'[a] \in Actor /\ actor'[a].pc = p /\ actor'[a].role = actor[a].role
        /\ actor'[a].at = actor[a].at /\ actor'[a].fd = actor[a].fd
        /\ \A b \in Actors \ {a} : actor'[b] = actor[b]
    BY <2>3, GoesOn DEF Pcs
  <2>5. Typed
    BY <1>14, <1>t, <2>4 DEF Remove
  <2>6. Shape(actor'[a], loop'[a])
    BY <1>14, <1>t, <2>3, <2>4 DEF Remove, Launches, Shape, AtPcs, FdPcs, HoldPcs, OwnerPcs, LaunchPcs
  <2> QED
    BY <2>1, <2>2, <2>5, <2>6
<1>15. CASE SweepPackage(a)
  <2>1. Keep
    BY <1>15, <1>t DEF SweepPackage, Goes, At, files, dirs
  <2>2. Domain
    BY <1>15 DEF SweepPackage, Goes
  <2>3. CASE \E p \in loop[a].packages :
               loop' = [loop EXCEPT ![a] = ToPackage(a, p)] /\ Goes(a, "sessions")
    <3>1. PICK p \in loop[a].packages :
            loop' = [loop EXCEPT ![a] = ToPackage(a, p)] /\ Goes(a, "sessions")
      BY <2>3
    <3>2. loop'[a] \in Loop /\ loop'[a].root = loop[a].root
      <4>1. Found(p) \subseteq Folders
        BY DEF Found
      <4> QED
        BY <1>t, <3>1, <4>1 DEF Loop, ToPackage
    <3>3. Typed
      BY <1>15, <1>t, <3>1, <3>2, Fields DEF SweepPackage, Goes, Pcs
    <3>4. Shape(actor'[a], loop'[a])
      BY <1>15, <1>t, <3>1, <3>2 DEF SweepPackage, Goes, Actor, Roles, Shape, AtPcs, FdPcs, HoldPcs, OwnerPcs, LaunchPcs
    <3> QED
      BY <2>1, <2>2, <3>3, <3>4
  <2>4. CASE loop' = loop /\ actor[a].role = "command" /\ Goes(a, "clear")
    <3>1. Typed
      BY <1>t, <2>4, Fields DEF Goes, Pcs
    <3>2. Shape(actor'[a], loop'[a])
      BY <1>15, <1>t, <2>4 DEF SweepPackage, Goes, Actor, Roles, Shape, AtPcs, FdPcs, HoldPcs, OwnerPcs, LaunchPcs
    <3> QED
      BY <2>1, <2>2, <3>1, <3>2
  <2>5. CASE actor' = [actor EXCEPT ![a] = Idle] /\ loop' = [loop EXCEPT ![a] = NoLoop]
    BY <1>t, <2>1, <2>2, <2>5, IdleShape
  <2> QED
    BY <1>15, <2>3, <2>4, <2>5 DEF SweepPackage
<1>16. CASE SweepSession(a)
  <2>1. Keep
    BY <1>16, <1>t DEF SweepSession, Goes, At, files, dirs
  <2>2. Domain
    BY <1>16 DEF SweepSession, Goes
  <2>3. PICK f \in Folders : actor'[a] = [actor[a] EXCEPT !.pc = "mkdir", !.at = f]
    BY <1>16, <1>t DEF SweepSession, Loop
  <2>4. Typed
    <3> DEFINE r == [actor[a] EXCEPT !.pc = "mkdir"]
    <3>1. r \in Actor /\ actor'[a] = [r EXCEPT !.at = f]
      BY <1>t, <2>3, Fields DEF Pcs
    <3>2. actor'[a] \in Actor
      <4> HIDE DEF r
      <4> QED
        BY <3>1, Fields
    <3>3. PICK g \in loop[a].sessions : loop' = [loop EXCEPT ![a] = ToSession(a, g)]
      BY <1>16 DEF SweepSession
    <3>4. loop'[a] \in Loop
      BY <1>t, <3>3 DEF Loop, ToSession
    <3> QED
      BY <1>16, <3>2, <3>4 DEF SweepSession
  <2>5. loop'[a].root = loop[a].root
    BY <1>16, <1>t DEF SweepSession, ToSession, Loop
  <2>6. /\ actor'[a].pc = "mkdir" /\ actor'[a].at \in Folders /\ actor'[a].role = actor[a].role
        /\ actor[a].pc = "sessions"
    BY <1>16, <1>t, <2>3 DEF SweepSession, Actor
  <2>7. Shape(actor'[a], loop'[a])
    BY <1>t, <2>5, <2>6 DEF Shape, AtPcs, FdPcs, HoldPcs, OwnerPcs, LaunchPcs
  <2> QED
    BY <2>1, <2>2, <2>4, <2>7
<1>17. CASE SweepLooks(a)
  <2>1. Keep
    BY <1>17, <1>t DEF SweepLooks, Goes, At, files, dirs
  <2>2. Domain
    BY <1>17 DEF SweepLooks, Goes, dirs
  <2>3. PICK p \in {"unlink", "detach"} : Goes(a, p)
    BY <1>17 DEF SweepLooks
  <2>4. /\ actor'[a] \in Actor /\ actor'[a].pc = p /\ actor'[a].role = actor[a].role
        /\ actor'[a].at = actor[a].at /\ actor'[a].fd = actor[a].fd
        /\ \A b \in Actors \ {a} : actor'[b] = actor[b]
    BY <2>3, GoesOn DEF Pcs
  <2>5. Typed
    BY <1>17, <1>t, <2>4 DEF SweepLooks
  <2>6. Shape(actor'[a], loop'[a])
    BY <1>17, <1>t, <2>3, <2>4 DEF SweepLooks, Launches, Shape, AtPcs, FdPcs, HoldPcs, OwnerPcs, LaunchPcs
  <2> QED
    BY <2>1, <2>2, <2>5, <2>6
<1>18. CASE PackageDone(a)
  <2>1. Keep
    BY <1>18, <1>t DEF PackageDone, Goes, At, files, dirs, Empty
  <2>2. Domain
    BY <1>18 DEF PackageDone, Goes
  <2>3. Typed
    BY <1>18, <1>t, IdleShape DEF PackageDone, Goes, At, Actor, Pcs, Roles, Loop, NoLoop
  <2>4. Shape(actor'[a], loop'[a])
    BY <1>18, <1>t, IdleShape DEF PackageDone, Goes, At, Actor, Roles, Loop, NoLoop, Shape, AtPcs, FdPcs, HoldPcs, OwnerPcs, LaunchPcs
  <2> QED
    BY <2>1, <2>2, <2>3, <2>4
<1>19. CASE ClearRoot(a)
  <2>1. Keep
    BY <1>19, <1>t DEF ClearRoot, Goes, At, files, dirs, Under
  <2>2. Domain
    BY <1>19 DEF ClearRoot, Goes, dirs
  <2>3. Typed
    BY <1>19, <1>t, IdleShape DEF ClearRoot, Goes, Under, At, Actor, Pcs, Roles
  <2>4. Shape(actor'[a], loop'[a])
    BY <1>19, <1>t, IdleShape DEF ClearRoot, Goes, Under, At, Actor, Roles, Shape, AtPcs, FdPcs, HoldPcs, OwnerPcs, LaunchPcs
  <2> QED
    BY <2>1, <2>2, <2>3, <2>4
<1>20. CASE EraseRoot(a)
  <2>1. Keep
    BY <1>20, <1>t DEF EraseRoot, Goes, At, files, dirs, Under
  <2>2. Domain
    BY <1>20 DEF EraseRoot, Goes
  <2>3. Typed
    BY <1>20, <1>t, IdleShape DEF EraseRoot, Goes, Under, At, Actor, Pcs, Roles, Loop, NoLoop
  <2>4. Shape(actor'[a], loop'[a])
    BY <1>20, <1>t, IdleShape DEF EraseRoot, Goes, Under, At, Actor, Roles, Loop, NoLoop, Shape, AtPcs, FdPcs, HoldPcs, OwnerPcs, LaunchPcs
  <2> QED
    BY <2>1, <2>2, <2>3, <2>4
<1> QED
  BY <1>1, <1>2, <1>3, <1>4, <1>5, <1>6, <1>7, <1>8, <1>9, <1>10, <1>11, <1>12, <1>13, <1>14, <1>15, <1>16, <1>17, <1>18, <1>19, <1>20 DEF Step

LEMMA InitShape == Init => Shapely
<1> SUFFICES ASSUME Init PROVE Shapely
  OBVIOUS
<1>1. \A a \in Actors : actor[a] = Idle /\ loop[a] = NoLoop
  BY DEF Init
<1>2. \A p \in Packages : (~Empty(p)) \in BOOLEAN
  BY DEF Empty
<1>3. TypeOK
  BY <1>2, IdleShape DEF Init, TypeOK
<1> QED
  BY <1>1, <1>3, IdleShape DEF Shapely

\* A launch, a probe or a sweep begins.
LEMMA StartShape ==
  ASSUME Shapely, NEW a \in Actors, Start(a)
  PROVE  Shapely'
<1> DEFINE Begins == /\ actor'[a] \in Actor /\ loop'[a] \in Loop
                     /\ Shape(actor'[a], loop'[a])
<1>1. CASE \E f \in Sessions : Launch(a, f)
  <2>1. PICK f \in Sessions : Launch(a, f)
    BY <1>1
  <2>2. [Idle EXCEPT !.pc = "mkdir"] \in Actor /\ f \in Folders
    BY IdleShape, Fields, LockAssumption DEF Pcs
  <2>3. [Idle EXCEPT !.pc = "mkdir", !.at = f] \in Actor
    BY <2>2, Fields
  <2>4. Shape([Idle EXCEPT !.pc = "mkdir", !.at = f], loop[a])
    BY <2>2 DEF Idle, Shape, AtPcs, FdPcs, HoldPcs, OwnerPcs, LaunchPcs
  <2> QED
    BY <2>1, <2>3, <2>4 DEF Launch, files, dirs, Shapely, TypeOK
<1>2. CASE \E f \in Sessions : Probe(a, f)
  <2>1. PICK f \in Sessions : Probe(a, f)
    BY <1>2
  <2>2. f \in Folders /\ path[f] \in Inodes
    BY <2>1, LockAssumption DEF Probe, Shapely, TypeOK
  <2> DEFINE half == [Idle EXCEPT !.pc = "probe", !.role = "probe"]
             r == [half EXCEPT !.at = f, !.fd = path[f]]
  <2>3. half \in Actor /\ half.pc = "probe" /\ half.role = "probe"
    <3>1. [Idle EXCEPT !.pc = "probe"] \in Actor
      BY IdleShape, Fields DEF Pcs
    <3> QED
      BY <3>1, Fields DEF Roles, Idle
  <2>4. actor' = [actor EXCEPT ![a] = r]
    BY <2>1 DEF Probe
  <2> HIDE DEF half
  <2>5. r \in Actor /\ r.pc = "probe" /\ r.role = "probe" /\ r.at = f /\ r.fd = path[f]
    <3>1. [half EXCEPT !.at = f] \in Actor
      BY <2>2, <2>3, Fields
    <3> QED
      BY <2>2, <2>3, <3>1, Fields DEF Actor
  <2> HIDE DEF r
  <2>6. Shape(r, loop[a])
    BY <2>2, <2>5 DEF Shape, AtPcs, FdPcs, HoldPcs, OwnerPcs, LaunchPcs
  <2> QED
    BY <2>1, <2>4, <2>5, <2>6 DEF Probe, files, dirs, Shapely, TypeOK
<1>3. ASSUME NEW role \in {"sweep", "command"}, NEW root \in SUBSET Packages,
             role = "command" => root \in CommandRoots, Sweep(a, role, root)
      PROVE  Shapely'
  <2>1. [Idle EXCEPT !.pc = "packages"] \in Actor
    BY IdleShape, Fields DEF Pcs
  <2> DEFINE r == [Idle EXCEPT !.pc = "packages", !.role = role]
             l == [NoLoop EXCEPT !.root = root, !.packages = {p \in root : package[p]}]
  <2>2. r \in Actor /\ r.pc = "packages" /\ r.role = role
    BY <2>1, Fields DEF Roles, Idle
  <2>3. l \in Loop /\ l.root = root
    <3>1. {p \in root : package[p]} \subseteq Packages
      OBVIOUS
    <3> QED
      BY <3>1, IdleShape DEF Loop
  <2>4. actor' = [actor EXCEPT ![a] = r] /\ loop' = [loop EXCEPT ![a] = l]
    BY <1>3 DEF Sweep
  <2> HIDE DEF r, l
  <2>5. Shape(r, l)
    BY <1>3, <2>2, <2>3 DEF Shape, AtPcs, FdPcs, HoldPcs, OwnerPcs, LaunchPcs
  <2>6. UNCHANGED <<files, dirs>>
    BY <1>3 DEF Sweep
  <2> QED
    BY <2>2, <2>3, <2>4, <2>5, <2>6 DEF files, dirs, Shapely, TypeOK
<1> QED
  BY <1>1, <1>2, <1>3, LockAssumption DEF Start

LEMMA NextShape ==
  ASSUME Shapely, [Next]_vars
  PROVE  Shapely'
<1>1. CASE \E a \in Actors : Step(a) \/ Start(a)
  BY <1>1, StepShape, StartShape
<1>2. CASE \E P \in Processes : Die(P)
  <2>1. PICK P \in Processes : Die(P)
    BY <1>2
  <2>2. ASSUME NEW a \in Actors
        PROVE  \/ actor'[a] = actor[a] /\ loop'[a] = loop[a]
               \/ actor'[a] = Idle /\ loop'[a] = NoLoop
    <3>1. /\ actor'[a] = IF a \in P THEN Idle ELSE actor[a]
          /\ loop'[a] = IF a \in P THEN NoLoop ELSE loop[a]
      BY <2>1 DEF Die
    <3> QED
      BY <3>1
  <2>3. TypeOK'
    BY <2>1, IdleShape DEF Die, dirs, Shapely, TypeOK
  <2> QED
    BY <2>2, <2>3, IdleShape DEF Shapely
<1>3. CASE \E a \in Actors, f \in Folders : MountGoes(a, f)
  BY <1>3 DEF MountGoes, files, Shapely, TypeOK
<1>4. CASE UNCHANGED vars
  BY <1>4 DEF vars, files, dirs, Shapely, TypeOK
<1> QED
  BY <1>1, <1>2, <1>3, <1>4 DEF Next

\* The lock files, who holds them, the folders, the mounts and every actor keep
\* their types, for any actors, folders and lock files.
THEOREM TypeCorrect == Spec => []TypeOK
<1>1. Shapely => TypeOK
  BY DEF Shapely
<1> QED
  BY <1>1, InitShape, NextShape, PTL DEF Spec

--------------------------------------------------------------------------------
(* One owner *)

\* Whoever holds a lock holds it on the file he opened, and an owner's file is
\* still the one at the folder's lock path.
Locked == \A a \in Actors : actor[a].pc \in HoldPcs => holder[actor[a].fd] = a
Placed == \A a \in Actors :
            actor[a].pc \in OwnerPcs /\ At(a) \in Sessions => path[At(a)] = actor[a].fd
Owned == Shapely /\ Locked /\ Placed

Others(a) == \A b \in Actors \ {a} : actor'[b] = actor[b]
Same(a) == actor'[a].at = actor[a].at /\ actor'[a].fd = actor[a].fd /\ actor'[a].role = actor[a].role

LEMMA OwnedOneOwner == Owned => OneOwner
BY DEF Owned, OneOwner, Owns, Locked, Placed, At, HoldPcs

\* Two owners of a session are one.
LEMMA SameOwner ==
  ASSUME Owned, NEW a \in Actors, NEW b \in Actors, actor[a].pc \in OwnerPcs, actor[b].pc \in OwnerPcs,
         At(a) = At(b), At(a) \in Sessions
  PROVE  a = b
BY OwnedOneOwner DEF OneOwner, Owns, At

\* What an owner does until it lets go moves neither lock file nor lock.
WorkStep(a) == \/ Detach(a) \/ Wipe(a) \/ Build(a) \/ Mount(a) \/ GameEnds(a) \/ Unmount(a)
               \/ Remove(a) \/ SweepLooks(a)

LEMMA WorkFacts ==
  ASSUME Shapely, NEW a \in Actors, WorkStep(a)
  PROVE  /\ actor[a].pc \in OwnerPcs /\ actor'[a].pc \in OwnerPcs
         /\ Same(a) /\ Others(a) /\ UNCHANGED files
<1> USE DEF Shapely, TypeOK
<1>t. actor[a] \in Actor
  OBVIOUS
<1> DEFINE Facts == /\ actor[a].pc \in OwnerPcs /\ actor'[a].pc \in OwnerPcs
                    /\ Same(a) /\ Others(a) /\ UNCHANGED files
<1>1. CASE Detach(a)
  BY <1>1, <1>t DEF Detach, Goes, Cleared, OwnerPcs, Same, Others, Actor
<1>2. CASE Wipe(a)
  BY <1>2, <1>t DEF Wipe, Goes, Cleared, OwnerPcs, Same, Others, Actor
<1>3. CASE Build(a)
  BY <1>3, <1>t DEF Build, Goes, Cleared, OwnerPcs, Same, Others, Actor
<1>4. CASE Mount(a)
  BY <1>4, <1>t DEF Mount, Goes, Cleared, OwnerPcs, Same, Others, Actor
<1>5. CASE GameEnds(a)
  BY <1>5, <1>t DEF GameEnds, Goes, Cleared, OwnerPcs, Same, Others, Actor
<1>6. CASE Unmount(a)
  BY <1>6, <1>t DEF Unmount, Goes, Cleared, OwnerPcs, Same, Others, Actor
<1>7. CASE Remove(a)
  BY <1>7, <1>t DEF Remove, Goes, Cleared, OwnerPcs, Same, Others, Actor
<1>8. CASE SweepLooks(a)
  BY <1>8, <1>t DEF SweepLooks, Goes, Cleared, OwnerPcs, Same, Others, Actor
<1> QED
  BY <1>1, <1>2, <1>3, <1>4, <1>5, <1>6, <1>7, <1>8 DEF WorkStep

\* What an actor does that claims nothing and has claimed nothing.
FreeStep(a) == \/ MakeDir(a) \/ SweepPackage(a) \/ SweepSession(a) \/ PackageDone(a) \/ ClearRoot(a)
               \/ Start(a)

LEMMA FreeFacts ==
  ASSUME Shapely, NEW a \in Actors, FreeStep(a)
  PROVE  actor'[a].pc \notin HoldPcs /\ Others(a) /\ UNCHANGED files
<1> USE DEF Shapely, TypeOK
<1>t. actor[a] \in Actor
  OBVIOUS
<1>1. CASE MakeDir(a)
  BY <1>1, <1>t DEF MakeDir, Goes, Idle, HoldPcs, OwnerPcs, Others, Actor
<1>2. CASE SweepPackage(a)
  BY <1>2, <1>t DEF SweepPackage, Goes, Idle, HoldPcs, OwnerPcs, Others, Actor
<1>3. CASE SweepSession(a)
  BY <1>3, <1>t DEF SweepSession, Goes, Idle, HoldPcs, OwnerPcs, Others, Actor
<1>4. CASE PackageDone(a)
  BY <1>4, <1>t DEF PackageDone, Goes, Idle, HoldPcs, OwnerPcs, Others, Actor
<1>5. CASE ClearRoot(a)
  BY <1>5, <1>t DEF ClearRoot, Goes, Idle, HoldPcs, OwnerPcs, Others, Actor
<1>6. CASE Start(a)
  <2>1. ASSUME NEW f \in Sessions, Launch(a, f) \/ Probe(a, f)
        PROVE  actor'[a].pc \notin HoldPcs /\ Others(a) /\ UNCHANGED files
    <3>1. CASE Launch(a, f)
      BY <3>1, <1>t DEF Launch, Idle, HoldPcs, OwnerPcs, Others
    <3>2. CASE Probe(a, f)
      BY <3>2, <1>t DEF Probe, Idle, HoldPcs, OwnerPcs, Others
    <3> QED
      BY <2>1, <3>1, <3>2
  <2>2. ASSUME NEW role, NEW root, Sweep(a, role, root)
        PROVE  actor'[a].pc \notin HoldPcs /\ Others(a) /\ UNCHANGED files
    BY <2>2, <1>t DEF Sweep, Idle, HoldPcs, OwnerPcs, Others, Actor
  <2> QED
    BY <1>6, <2>1, <2>2 DEF Start
<1> QED
  BY <1>1, <1>2, <1>3, <1>4, <1>5, <1>6 DEF FreeStep

\* No session lies under the root that "launch running --sweep" erases.
LEMMA EraseSpares ==
  ASSUME Shapely, NEW a \in Actors, actor[a].pc \in {"clear", "erase"}
  PROVE  \A f \in Sessions : f \in Folders /\ f \notin Under(a)
<1>1. loop[a].root \in CommandRoots
  BY DEF Shapely, Shape
<1> QED
  BY <1>1, LockAssumption DEF Under

LEMMA OwnedStep ==
  ASSUME Owned, Shapely', NEW a \in Actors, Step(a) \/ Start(a)
  PROVE  Owned'
<1>t. /\ TypeOK /\ Shape(actor[a], loop[a]) /\ Locked /\ Placed
      /\ \A b \in Actors : actor[b].pc \in HoldPcs => actor[b].fd \in Inodes /\ At(b) \in Folders
  BY DEF Owned, Shapely, Shape, At, AtPcs, FdPcs
<1> SUFFICES ASSUME NEW b \in Actors
             PROVE  /\ actor'[b].pc \in HoldPcs => holder'[actor'[b].fd] = b
                    /\ actor'[b].pc \in OwnerPcs /\ actor'[b].at \in Sessions =>
                         path'[actor'[b].at] = actor'[b].fd
  BY DEF Owned, Locked, Placed, At
<1>b. /\ actor[b].pc \in HoldPcs => /\ holder[actor[b].fd] = b /\ actor[b].fd \in Inodes
                                  /\ actor[b].at \in Folders
      /\ actor[b].pc \in OwnerPcs /\ actor[b].at \in Sessions => path[actor[b].at] = actor[b].fd
  BY <1>t DEF Locked, Placed, At
<1>1. CASE WorkStep(a)
  BY <1>1, <1>b, WorkFacts DEF Owned, Same, Others, HoldPcs, files
<1>2. CASE FreeStep(a)
  BY <1>2, <1>b, FreeFacts DEF Owned, Others, HoldPcs, OwnerPcs, files
<1>3. CASE Open(a)
  <2>1. actor'[a].pc \notin HoldPcs /\ Others(a) /\ holder' = holder
    <3>1. Refused(a).pc \in {"idle", "sessions"}
      BY <1>3, <1>t, RefusedShape DEF Open, Owned, Shape
    <3> QED
      BY <1>3, <1>t, <3>1 DEF Open, TypeOK, Actor, Others, HoldPcs, OwnerPcs
  <2>2. \A f \in Folders : path[f] # NoInode => path'[f] = path[f]
    BY <1>3, <1>t DEF Open, TypeOK
  <2>3. NoInode \notin Inodes /\ Sessions \subseteq Folders
    BY LockAssumption
  <2> QED
    BY <1>b, <2>1, <2>2, <2>3 DEF Others, HoldPcs, OwnerPcs
<1>4. CASE Flock(a)
  <2>1. CASE holder[actor[a].fd] = NoOne
    <3>1. /\ actor'[a].pc = "check" /\ Same(a) /\ Others(a) /\ path' = path
          /\ actor[a].fd \in Inodes /\ holder' = [holder EXCEPT ![actor[a].fd] = a]
      BY <1>4, <1>t, <2>1 DEF Flock, Goes, TypeOK, Actor, Same, Others, Shape, FdPcs
    <3>2. NoOne \notin Actors
      BY LockAssumption
    <3> QED
      BY <1>b, <1>t, <2>1, <3>1, <3>2 DEF Same, Others, HoldPcs, OwnerPcs, TypeOK
  <2>2. CASE holder[actor[a].fd] # NoOne
    <3>1. Refused(a).pc \in {"idle", "sessions"}
      BY <1>4, <1>t, RefusedShape DEF Flock, Owned, Shape
    <3>2. actor'[a].pc \notin HoldPcs /\ Others(a) /\ UNCHANGED files
      BY <1>4, <1>t, <2>2, <3>1 DEF Flock, TypeOK, Others, HoldPcs, OwnerPcs, files
    <3> QED
      BY <1>b, <3>2 DEF Others, HoldPcs, OwnerPcs, files
  <2> QED
    BY <2>1, <2>2
<1>5. CASE Check(a)
  <2>1. actor[a].pc = "check" /\ path' = path
    BY <1>5 DEF Check
  <2>2. CASE path[At(a)] = actor[a].fd
    <3>1. actor'[a].pc \in {"detach", "claimed"} /\ Same(a) /\ Others(a) /\ holder' = holder
      BY <1>5, <1>t, <2>2 DEF Check, Goes, TypeOK, Actor, Same, Others
    <3> QED
      BY <1>b, <2>1, <2>2, <3>1 DEF Same, Others, HoldPcs, OwnerPcs, At
  <2>3. CASE path[At(a)] # actor[a].fd
    <3>1. Refused(a).pc \in {"idle", "sessions"}
      BY <1>5, <1>t, RefusedShape DEF Check, Owned, Shape
    <3>2. actor[a].tries + 1 # Tries => Again(a).pc = "open"
      BY AgainType DEF Owned
    <3>3. /\ actor'[a].pc \notin HoldPcs /\ Others(a)
          /\ holder' = [holder EXCEPT ![actor[a].fd] = NoOne]
      BY <1>5, <1>t, <2>3, <3>1, <3>2 DEF Check, TypeOK, Others, HoldPcs, OwnerPcs
    <3>4. b # a /\ actor[b].pc \in HoldPcs => actor[b].fd # actor[a].fd
      BY <1>t, <1>b, <2>1 DEF Locked, HoldPcs
    <3> QED
      BY <1>b, <1>t, <2>1, <3>3, <3>4 DEF Others, HoldPcs, OwnerPcs, TypeOK
  <2> QED
    BY <2>2, <2>3
<1>6. CASE Unlink(a)
  <2>1. /\ actor[a].pc = "unlink" /\ actor'[a].pc = "close" /\ Same(a) /\ Others(a)
        /\ holder' = holder /\ path' = [path EXCEPT ![At(a)] = NoInode]
    BY <1>6, <1>t DEF Unlink, Goes, TypeOK, Actor, Same, Others
  <2>2. b # a /\ actor[b].pc \in OwnerPcs /\ At(b) \in Sessions => At(b) # At(a)
    BY <2>1, SameOwner DEF OwnerPcs
  <2> QED
    BY <1>b, <1>t, <2>1, <2>2 DEF Same, Others, HoldPcs, OwnerPcs, At, TypeOK
<1>7. CASE Close(a)
  <2>1. /\ actor[a].pc = "close" /\ path' = path /\ Others(a)
        /\ holder' = [holder EXCEPT ![actor[a].fd] = NoOne]
    BY <1>7, <1>t DEF Close, Others, TypeOK
  <2>2. actor'[a].pc \in {"idle", "sessions"}
    <3>1. actor[a].role \notin {"launch", "probe"} => Refused(a).pc \in {"idle", "sessions"}
      BY <2>1, <1>t, RefusedShape DEF Owned
    <3> QED
      BY <1>7, <1>t, <3>1 DEF Close, TypeOK, Idle
  <2>3. b # a /\ actor[b].pc \in HoldPcs => actor[b].fd # actor[a].fd
    BY <1>t, <1>b, <2>1 DEF Locked, HoldPcs
  <2> QED
    BY <1>b, <1>t, <2>1, <2>2, <2>3 DEF Others, HoldPcs, OwnerPcs, TypeOK
<1>8. CASE ProbeLocks(a)
  <2>1. CASE holder[actor[a].fd] = NoOne
    <3>1. /\ actor'[a].pc = "close" /\ Same(a) /\ Others(a) /\ path' = path
          /\ actor[a].fd \in Inodes /\ holder' = [holder EXCEPT ![actor[a].fd] = a]
      BY <1>8, <1>t, <2>1 DEF ProbeLocks, Goes, TypeOK, Actor, Same, Others, Shape, FdPcs
    <3>2. NoOne \notin Actors
      BY LockAssumption
    <3> QED
      BY <1>b, <1>t, <2>1, <3>1, <3>2 DEF Same, Others, HoldPcs, OwnerPcs, TypeOK
  <2>2. CASE holder[actor[a].fd] # NoOne
    <3>1. actor'[a].pc \notin HoldPcs /\ Others(a) /\ UNCHANGED files
      BY <1>8, <1>t, <2>2 DEF ProbeLocks, TypeOK, Idle, Others, HoldPcs, OwnerPcs, files
    <3> QED
      BY <1>b, <3>1 DEF Others, HoldPcs, OwnerPcs, files
  <2> QED
    BY <2>1, <2>2
<1>9. CASE EraseRoot(a)
  <2>1. /\ actor'[a].pc \notin HoldPcs /\ Others(a) /\ holder' = holder
        /\ path' = [f \in Folders |-> IF f \in Under(a) THEN NoInode ELSE path[f]]
    BY <1>9, <1>t DEF EraseRoot, TypeOK, Idle, Others, HoldPcs, OwnerPcs
  <2>2. \A f \in Sessions : f \in Folders /\ f \notin Under(a)
    BY <1>9, EraseSpares DEF EraseRoot, Owned
  <2> QED
    BY <1>b, <2>1, <2>2 DEF Others, HoldPcs, OwnerPcs
<1> QED
  BY <1>1, <1>2, <1>3, <1>4, <1>5, <1>6, <1>7, <1>8, <1>9 DEF Step, WorkStep, FreeStep

LEMMA OwnedInductive == Owned /\ [Next]_vars => Owned'
<1> SUFFICES ASSUME Owned, [Next]_vars PROVE Owned'
  OBVIOUS
<1>s. Shapely'
  BY NextShape DEF Owned
<1>1. CASE \E a \in Actors : Step(a) \/ Start(a)
  BY <1>1, <1>s, OwnedStep
<1>2. CASE \E P \in Processes : Die(P)
  <2>1. PICK P \in Processes : Die(P)
    BY <1>2
  <2>2. P \subseteq Actors
    BY LockAssumption
  <2>3. ASSUME NEW b \in Actors
        PROVE  \/ b \notin P /\ actor'[b] = actor[b]
               \/ actor'[b].pc = "idle"
    <3>1. actor'[b] = IF b \in P THEN Idle ELSE actor[b]
      BY <2>1 DEF Die
    <3> QED
      BY <3>1 DEF Idle
  <2>4. /\ path' = path
        /\ \A i \in Inodes : holder[i] \notin P => holder'[i] = holder[i]
    BY <2>1 DEF Die
  <2>5. \A b \in Actors : actor[b].pc \in HoldPcs => actor[b].fd \in Inodes
    BY DEF Owned, Shapely, Shape, FdPcs
  <2> QED
    BY <1>s, <2>3, <2>4, <2>5 DEF Owned, Locked, Placed, At, HoldPcs, OwnerPcs
<1>3. CASE \E a \in Actors, f \in Folders : MountGoes(a, f)
  BY <1>3, <1>s DEF MountGoes, files, Owned, Locked, Placed, At
<1>4. CASE UNCHANGED vars
  BY <1>4, <1>s DEF vars, files, Owned, Locked, Placed, At
<1> QED
  BY <1>1, <1>2, <1>3, <1>4 DEF Next

LEMMA InitOwned == Init => Owned
BY InitShape DEF Init, Owned, Locked, Placed, Idle, HoldPcs, OwnerPcs

\* Two launches, or a launch and a sweep, never both own a session folder,
\* however their claims, releases, probes and deaths interleave (ClaimSession,
\* vfsmount.cpp), for any actors, folders and lock files.
THEOREM SessionHasOneOwner == Spec => []OneOwner
BY InitOwned, OwnedInductive, OwnedOneOwner, PTL DEF Spec

--------------------------------------------------------------------------------
(* What is mounted is not wiped *)

\* With every stale mount detached: what an owner finds in its folder.
Mine(a) ==
  /\ actor[a].pc \in {"wipe", "build", "mount", "remove"} => mounts[At(a)] = {}
  /\ actor[a].pc = "unmount" => mounts[At(a)] \subseteq {a}
  /\ actor[a].pc = "run" => folder[At(a)] /\ mounts[At(a)] = {a}
  /\ actor[a].pc = "mount" => folder[At(a)]
Bare == \A f \in Folders \ Sessions : mounts[f] = {}
Safe == Owned /\ Bare /\ \A a \in Actors : Mine(a)

MinePcs == {"wipe", "build", "mount", "remove", "unmount", "run"}

\* A step touches no session but its actor's own, and mounts in sessions only.
LEMMA StepFrame ==
  ASSUME Owned, NEW a \in Actors, Step(a) \/ Start(a)
  PROVE  /\ \A f \in Sessions : ~Owns(a, f) => mounts'[f] = mounts[f] /\ folder'[f] = folder[f]
         /\ \A f \in Folders \ Sessions : mounts'[f] \subseteq mounts[f]
<1>t. TypeOK /\ Shape(actor[a], loop[a])
  BY DEF Owned, Shapely
<1>1. CASE WorkStep(a)
  <2>1. actor[a].pc \in OwnerPcs /\ At(a) \in Folders
    BY <1>1, <1>t, WorkFacts DEF Owned, Shape, AtPcs, FdPcs, HoldPcs, At
  <2>2. \A f \in Folders : f # At(a) => mounts'[f] = mounts[f] /\ folder'[f] = folder[f]
    BY <1>1, <1>t, <2>1 DEF WorkStep, Detach, Wipe, Build, Mount, GameEnds, Unmount, Remove, SweepLooks, dirs, TypeOK
  <2>3. At(a) \notin Sessions => mounts'[At(a)] \subseteq mounts[At(a)]
    <3>1. Build(a) \/ Mount(a) \/ Unmount(a) => At(a) \in Sessions
      BY <1>t DEF Build, Mount, Unmount, Shape, LaunchPcs, At
    <3> QED
      BY <1>1, <1>t, <2>1, <3>1 DEF WorkStep, Detach, Wipe, GameEnds, Remove, SweepLooks, dirs, TypeOK
  <2>4. Sessions \subseteq Folders
    BY LockAssumption
  <2> QED
    BY <2>1, <2>2, <2>3, <2>4 DEF Owns, At
<1>2. CASE FreeStep(a) /\ ~ClearRoot(a)
  BY <1>2 DEF FreeStep, MakeDir, SweepPackage, SweepSession, PackageDone, Start, Launch, Probe, Sweep, dirs
<1>3. CASE ClearRoot(a) \/ EraseRoot(a)
  <2>1. \A f \in Sessions : f \in Folders /\ f \notin Under(a)
    BY <1>3, EraseSpares DEF ClearRoot, EraseRoot, Owned
  <2> QED
    BY <1>3, <1>t, <2>1 DEF ClearRoot, EraseRoot, TypeOK
<1>4. CASE Open(a) \/ Flock(a) \/ Check(a) \/ Unlink(a) \/ Close(a) \/ ProbeLocks(a)
  BY <1>4 DEF Open, Flock, Check, Unlink, Close, ProbeLocks, dirs
<1> QED
  BY <1>1, <1>2, <1>3, <1>4 DEF Step, WorkStep, FreeStep

LEMMA StepOthers ==
  ASSUME Owned, NEW a \in Actors, Step(a) \/ Start(a)
  PROVE  Others(a)
<1>t. TypeOK
  BY DEF Owned, Shapely
<1>1. CASE WorkStep(a) \/ FreeStep(a)
  BY <1>1, WorkFacts, FreeFacts DEF Owned
<1>2. CASE Open(a) \/ Flock(a) \/ Check(a) \/ Unlink(a) \/ Close(a) \/ ProbeLocks(a) \/ EraseRoot(a)
  BY <1>2, <1>t DEF Open, Flock, Check, Unlink, Close, ProbeLocks, EraseRoot, Goes, Others, TypeOK
<1> QED
  BY <1>1, <1>2 DEF Step, WorkStep, FreeStep

\* The steps that leave an actor in its folder are the owner's.
LEMMA MineFrom ==
  ASSUME Owned, NEW a \in Actors, Step(a) \/ Start(a), ~WorkStep(a)
  PROVE  actor'[a].pc \notin MinePcs
<1>t. TypeOK /\ Shape(actor[a], loop[a])
  BY DEF Owned, Shapely
<1>1. CASE FreeStep(a)
  BY <1>1, FreeFacts DEF Owned, HoldPcs, OwnerPcs, MinePcs
<1>2. CASE Open(a) \/ Flock(a) \/ Check(a) \/ Close(a)
  <2>1. actor[a].pc # "idle" /\ actor[a].role # "probe" => Refused(a).pc \in {"idle", "sessions"}
    BY RefusedShape DEF Owned
  <2>2. actor[a].tries + 1 # Tries => Again(a).pc = "open"
    BY AgainType DEF Owned
  <2>3. CASE Open(a)
    BY <1>t, <2>1, <2>3 DEF Open, TypeOK, Shape, Actor, MinePcs
  <2>4. CASE Flock(a)
    BY <1>t, <2>1, <2>4 DEF Flock, Goes, TypeOK, Shape, Actor, MinePcs
  <2>5. CASE Check(a)
    BY <1>t, <2>1, <2>2, <2>5 DEF Check, Goes, TypeOK, Shape, Actor, MinePcs
  <2>6. CASE Close(a)
    BY <1>t, <2>1, <2>6 DEF Close, TypeOK, Idle, MinePcs
  <2> QED
    BY <1>2, <2>3, <2>4, <2>5, <2>6
<1>3. CASE Unlink(a) \/ ProbeLocks(a) \/ EraseRoot(a)
  BY <1>3, <1>t DEF Unlink, ProbeLocks, EraseRoot, Goes, Idle, TypeOK, Actor, MinePcs
<1> QED
  BY <1>1, <1>2, <1>3 DEF Step, WorkStep, FreeStep

LEMMA MineStep ==
  ASSUME ~Stuck, Safe, NEW a \in Actors, WorkStep(a)
  PROVE  Mine(a)'
<1>t. TypeOK /\ actor[a] \in Actor /\ Mine(a) /\ At(a) \in Folders /\ Same(a)
  BY WorkFacts DEF Safe, Owned, Shapely, TypeOK, Shape, AtPcs, FdPcs, HoldPcs, At
<1>1. CASE Detach(a)
  BY <1>1, <1>t DEF Detach, Goes, Cleared, Mine, At, TypeOK
<1>2. CASE Wipe(a)
  BY <1>2, <1>t DEF Wipe, Goes, Cleared, Mine, At, Same, dirs, TypeOK
<1>3. CASE Build(a)
  <2>1. /\ actor[a].pc = "build" /\ actor'[a].pc \in {"mount", "unmount"}
        /\ mounts' = mounts /\ folder'[At(a)]
    BY <1>3, <1>t DEF Build, Goes, TypeOK, Actor
  <2> QED
    BY <1>t, <2>1 DEF Mine, At, Same
<1>4. CASE Mount(a)
  <2>1. actor[a].pc = "mount" /\ folder' = folder /\ mounts[At(a)] = {} /\ folder[At(a)]
    BY <1>4, <1>t DEF Mount, Mine
  <2>2. \/ actor'[a].pc = "run" /\ mounts'[At(a)] = {a}
        \/ actor'[a].pc = "unmount" /\ mounts'[At(a)] = {}
    BY <1>4, <1>t, <2>1 DEF Mount, Goes, TypeOK, Actor
  <2> QED
    BY <1>t, <2>1, <2>2 DEF Mine, At, Same
<1>5. CASE GameEnds(a)
  BY <1>5, <1>t DEF GameEnds, Goes, Cleared, Mine, At, Same, dirs, TypeOK
<1>6. CASE Unmount(a)
  <2>1. actor[a].pc = "unmount" /\ mounts[At(a)] \subseteq {a}
    BY <1>6, <1>t DEF Unmount, Mine
  <2>2. \/ actor'[a].pc = "remove" /\ mounts'[At(a)] = {}
        \/ actor'[a].pc = "unlink"
    BY <1>6, <1>t, <2>1 DEF Unmount, Goes, TypeOK, Actor
  <2> QED
    BY <1>t, <2>1, <2>2 DEF Mine, At, Same
<1>7. CASE Remove(a)
  BY <1>7, <1>t DEF Remove, Goes, Cleared, Mine, At, Same, dirs, TypeOK
<1>8. CASE SweepLooks(a)
  BY <1>8, <1>t DEF SweepLooks, Goes, Cleared, Mine, At, Same, dirs, TypeOK
<1> QED
  BY <1>1, <1>2, <1>3, <1>4, <1>5, <1>6, <1>7, <1>8 DEF WorkStep

LEMMA SafeInductive == ~Stuck /\ Safe /\ [Next]_vars => Safe'
<1> SUFFICES ASSUME ~Stuck, Safe, [Next]_vars PROVE Safe'
  OBVIOUS
<1>o. Owned'
  BY OwnedInductive DEF Safe
<1>m. \A b \in Actors : Mine(b) /\ (actor[b].pc \in MinePcs => actor[b].pc \in OwnerPcs)
  BY DEF Safe, MinePcs, OwnerPcs
<1>1. CASE \E a \in Actors : Step(a) \/ Start(a)
  <2>1. PICK a \in Actors : Step(a) \/ Start(a)
    BY <1>1
  <2>2. /\ \A f \in Sessions : ~Owns(a, f) => mounts'[f] = mounts[f] /\ folder'[f] = folder[f]
        /\ \A f \in Folders \ Sessions : mounts'[f] \subseteq mounts[f]
    BY <2>1, StepFrame DEF Safe
  <2>3. Bare'
    BY <2>2 DEF Safe, Bare
  <2>4. Mine(a)'
    <3>1. CASE WorkStep(a)
      BY <3>1, MineStep
    <3>2. CASE ~WorkStep(a)
      <4>1. actor'[a].pc \notin MinePcs
        BY <2>1, <3>2, MineFrom DEF Safe
      <4> QED
        BY <4>1 DEF Mine, MinePcs
    <3> QED
      BY <3>1, <3>2
  <2>5. ASSUME NEW b \in Actors, b # a PROVE Mine(b)'
    <3>1. actor'[b] = actor[b]
      <4>1. Others(a)
        BY <2>1, StepOthers DEF Safe
      <4> QED
        BY <2>5, <4>1 DEF Others
    <3>2. CASE actor[b].pc \notin MinePcs
      BY <3>1, <3>2 DEF Mine, MinePcs
    <3>3. CASE actor[b].pc \in MinePcs /\ At(b) \in Sessions
      <4>1. ~Owns(a, At(b))
        BY <1>m, <2>5, <3>3, SameOwner DEF Safe, Owns, At
      <4>2. mounts'[At(b)] = mounts[At(b)] /\ folder'[At(b)] = folder[At(b)]
        BY <2>2, <3>3, <4>1
      <4> QED
        BY <1>m, <3>1, <4>2 DEF Mine, At
    <3>4. CASE actor[b].pc \in MinePcs /\ At(b) \notin Sessions
      <4>1. At(b) \in Folders /\ actor[b].pc = "wipe"
        BY <3>4 DEF Safe, Owned, Shapely, TypeOK, Actor, Roles, Shape, At, AtPcs, FdPcs, HoldPcs, OwnerPcs, LaunchPcs, MinePcs
      <4>2. mounts'[At(b)] = {}
        BY <2>3, <3>4, <4>1 DEF Bare
      <4> QED
        BY <3>1, <4>1, <4>2 DEF Mine, At
    <3> QED
      BY <3>2, <3>3, <3>4
  <2> QED
    BY <1>o, <2>3, <2>4, <2>5 DEF Safe
<1>2. CASE \E P \in Processes : Die(P)
  <2>1. PICK P \in Processes : Die(P)
    BY <1>2
  <2>2. ASSUME NEW b \in Actors
        PROVE  actor'[b] = actor[b] \/ actor'[b].pc = "idle"
    <3>1. actor'[b] = IF b \in P THEN Idle ELSE actor[b]
      BY <2>1 DEF Die
    <3> QED
      BY <3>1 DEF Idle
  <2>3. folder' = folder /\ mounts' = mounts
    BY <2>1 DEF Die, dirs
  <2> QED
    BY <1>o, <2>2, <2>3 DEF Safe, Bare, Mine, At
<1>3. CASE \E a \in Actors, f \in Folders : MountGoes(a, f)
  <2>1. PICK a \in Actors, f \in Folders : MountGoes(a, f)
    BY <1>3
  <2>2. /\ actor' = actor /\ folder' = folder /\ ~Owns(a, f)
        /\ mounts' = [mounts EXCEPT ![f] = @ \ {a}]
    BY <2>1 DEF MountGoes
  <2>3. mounts \in [Folders -> SUBSET Actors]
    BY DEF Safe, Owned, Shapely, TypeOK
  <2>4. Bare'
    BY <2>2, <2>3 DEF Safe, Bare
  <2>5. ASSUME NEW b \in Actors PROVE Mine(b)'
    <3>1. \A g \in Folders : /\ mounts'[g] \subseteq mounts[g]
                            /\ (a # b \/ g # f) => (b \in mounts[g] => b \in mounts'[g])
      BY <2>2, <2>3
    <3>2. actor[b].pc \in MinePcs => At(b) \in Folders
      BY DEF Safe, Owned, Shapely, Shape, At, AtPcs, FdPcs, HoldPcs, OwnerPcs, MinePcs
    <3>3. actor[b].pc = "run" /\ At(b) = f => a # b
      BY <2>2 DEF Owns, OwnerPcs, At
    <3> QED
      BY <1>m, <2>2, <3>1, <3>2, <3>3 DEF Mine, At, MinePcs
  <2> QED
    BY <1>o, <2>4, <2>5 DEF Safe
<1>4. CASE UNCHANGED vars
  BY <1>4, <1>o DEF vars, dirs, Safe, Bare, Mine, At
<1> QED
  BY <1>1, <1>2, <1>3, <1>4 DEF Next

LEMMA InitSafe == Init => Safe
BY InitOwned DEF Init, Safe, Bare, Mine, Idle

\* While a game runs its session folder and its mount are there, whatever other
\* launches, sweeps and probes do and whoever dies, if no stale mount refuses to
\* detach (CleanStaleRuntime, Cleanup).
THEOREM RuntimeStaysIntact == ASSUME ~Stuck PROVE Spec => []RuntimeIntact
<1>1. Safe => RuntimeIntact
  BY DEF Safe, Mine, RuntimeIntact
<1>2. Safe /\ [Next]_vars => Safe'
  BY SafeInductive
<1> QED
  BY <1>1, <1>2, InitSafe, PTL DEF Spec

\* A folder goes only when it is its remover's and nothing is mounted in it.
LEMMA WipesUnmounted ==
  ASSUME Safe, [Next]_vars
  PROVE  \A f \in Folders : folder[f] /\ ~folder'[f] => mounts[f] = {}
<1> SUFFICES ASSUME NEW f \in Folders, folder[f], ~folder'[f] PROVE mounts[f] = {}
  OBVIOUS
<1>t. TypeOK
  BY DEF Safe, Owned, Shapely
<1>1. CASE \E a \in Actors : Step(a) \/ Start(a)
  <2>1. PICK a \in Actors : Step(a) \/ Start(a)
    BY <1>1
  <2>2. CASE Wipe(a) \/ Remove(a)
    <3>1. actor[a].pc \in {"wipe", "remove"} /\ f = At(a)
      BY <1>t, <2>2 DEF Wipe, Remove, TypeOK
    <3> QED
      BY <3>1 DEF Safe, Mine
  <2>3. CASE Build(a)
    BY <1>t, <2>3 DEF Build, TypeOK
  <2>4. CASE EraseRoot(a)
    <3>1. f \in Under(a)
      BY <1>t, <2>4 DEF EraseRoot, TypeOK
    <3>2. f \notin Sessions
      BY <2>4, <3>1, EraseSpares DEF EraseRoot, Safe, Owned
    <3> QED
      BY <3>2 DEF Safe, Bare
  <2>5. CASE ~Wipe(a) /\ ~Remove(a) /\ ~Build(a) /\ ~EraseRoot(a)
    <3>1. CASE Step(a)
      BY <2>5, <3>1 DEF Step, MakeDir, Open, Flock, Check, Unlink, Close, ProbeLocks, Detach, Mount,
         GameEnds, Unmount, SweepPackage, SweepSession, SweepLooks, PackageDone, ClearRoot, dirs
    <3>2. CASE Start(a)
      BY <3>2 DEF Start, Launch, Probe, Sweep, dirs
    <3> QED
      BY <2>1, <3>1, <3>2
  <2> QED
    BY <2>2, <2>3, <2>4, <2>5
<1>2. CASE \E P \in Processes : Die(P)
  BY <1>2 DEF Die, dirs
<1>3. CASE \E a \in Actors, g \in Folders : MountGoes(a, g)
  BY <1>3 DEF MountGoes
<1>4. CASE UNCHANGED vars
  BY <1>4 DEF vars, dirs
<1> QED
  BY <1>1, <1>2, <1>3, <1>4 DEF Next

\* What is removed under a mount is the user's saves: no step removes a mounted
\* folder, if no stale mount refuses to detach (Cleanup's save-safety gate).
THEOREM NeverWipesMounted == ASSUME ~Stuck PROVE Spec => WipesOnlyUnmounted
<1>1. Safe /\ [Next]_vars => Safe'
  BY SafeInductive
<1>2. Safe /\ [Next]_vars => [\A f \in Folders : folder[f] /\ ~folder'[f] => mounts[f] = {}]_vars
  BY WipesUnmounted
<1> QED
  BY <1>1, <1>2, InitSafe, PTL DEF Spec, WipesOnlyUnmounted

--------------------------------------------------------------------------------
(* The lock keeps the promise of SessionOwner *)

OwnerIs == \A f \in Sessions :
             /\ \A a \in Actors : Owns(a, f) => OwnerOf(f) = a
             /\ (\A a \in Actors : ~Owns(a, f)) => OwnerOf(f) = NoOne

LEMMA OwnerIsNow == Owned => OwnerIs
BY OwnedOneOwner DEF OneOwner, OwnerIs, OwnerOf

LEMMA OwnerIsNext ==
  ASSUME Owned'
  PROVE  OwnerIs'
<1>1. OneOwner'
  BY DEF Owned, OneOwner, Owns, Locked, Placed, At, HoldPcs
<1> QED
  BY <1>1 DEF OneOwner, OwnerIs, OwnerOf

LEMMA SameOwners ==
  ASSUME OwnerIs, OwnerIs', NEW f \in Sessions,
         \A b \in Actors : Owns(b, f)' <=> Owns(b, f)
  PROVE  OwnerOf(f)' = OwnerOf(f)
<1>1. CASE \E b \in Actors : Owns(b, f)
  <2>1. PICK b \in Actors : Owns(b, f)
    BY <1>1
  <2> QED
    BY <2>1 DEF OwnerIs
<1>2. CASE \A b \in Actors : ~Owns(b, f)
  BY <1>2 DEF OwnerIs
<1> QED
  BY <1>1, <1>2

\* An actor that owns nothing before and after a step moves no owner and no
\* session folder.
LEMMA OutsiderStep ==
  ASSUME Owned, Owned', NEW a \in Actors, Step(a) \/ Start(a),
         actor[a].pc \notin OwnerPcs \/ At(a) \notin Sessions,
         actor'[a].pc \notin OwnerPcs \/ actor'[a].at \notin Sessions
  PROVE  UNCHANGED Promise!vars
<1>1. Others(a) /\ OwnerIs /\ OwnerIs'
  BY StepOthers, OwnerIsNow, OwnerIsNext
<1>2. ASSUME NEW f \in Sessions
      PROVE  OwnerOf(f)' = OwnerOf(f) /\ folder'[f] = folder[f]
  <2>1. \A b \in Actors : Owns(b, f)' <=> Owns(b, f)
    BY <1>1 DEF Others, Owns, At
  <2>2. ~Owns(a, f)
    BY DEF Owns, At
  <2> QED
    BY <1>1, <2>1, <2>2, SameOwners, StepFrame
<1> QED
  BY <1>2 DEF Promise!vars

LEMMA CheckFails ==
  ASSUME Shapely, NEW a \in Actors, Check(a), path[At(a)] # actor[a].fd
  PROVE  actor'[a].pc \notin OwnerPcs
<1>t. TypeOK /\ Shape(actor[a], loop[a])
  BY DEF Shapely
<1>1. Refused(a).pc \in {"idle", "sessions"}
  BY <1>t, RefusedShape DEF Check, Shape
<1>2. actor[a].tries + 1 # Tries => Again(a).pc = "open"
  BY AgainType
<1> QED
  BY <1>t, <1>1, <1>2 DEF Check, TypeOK, OwnerPcs

LEMMA PromiseStep ==
  ASSUME Owned, Owned', NEW a \in Actors, Step(a) \/ Start(a)
  PROVE  [Promise!Next]_(Promise!vars)
<1>t. /\ TypeOK /\ TypeOK' /\ Shape(actor[a], loop[a]) /\ OwnerIs /\ OwnerIs' /\ Others(a)
      /\ Sessions \subseteq Folders
  BY StepOthers, OwnerIsNow, OwnerIsNext, LockAssumption DEF Owned, Shapely
<1> DEFINE own == [f \in Sessions |-> OwnerOf(f)]
           dir == [f \in Sessions |-> folder[f]]
<1>1. CASE WorkStep(a) /\ At(a) \in Sessions
  <2>1. /\ actor[a].pc \in OwnerPcs /\ actor'[a].pc \in OwnerPcs /\ Same(a)
    BY <1>1, WorkFacts DEF Owned
  <2>2. ASSUME NEW f \in Sessions PROVE OwnerOf(f)' = OwnerOf(f)
    <3>1. \A b \in Actors : Owns(b, f)' <=> Owns(b, f)
      BY <1>t, <2>1 DEF Others, Owns, Same
    <3> QED
      BY <1>t, <3>1, SameOwners
  <2>3. OwnerOf(At(a)) = a
    BY <1>1, <1>t, <2>1 DEF OwnerIs, Owns, At
  <2>4. dir' = [dir EXCEPT ![At(a)] = folder'[At(a)]] /\ folder'[At(a)] \in BOOLEAN
    <3>1. \A f \in Sessions : f # At(a) => folder'[f] = folder[f]
      BY StepFrame DEF Owns, At
    <3> QED
      BY <1>1, <1>t, <3>1 DEF TypeOK
  <2>5. PICK f \in Sessions : f = At(a)
    BY <1>1
  <2>6. Promise!Work(a, f)
    BY <2>2, <2>3, <2>4, <2>5 DEF Promise!Work
  <2> QED
    BY <2>6 DEF Promise!Next
<1>2. CASE Check(a) /\ path[At(a)] = actor[a].fd /\ At(a) \in Sessions
  <2>1. /\ actor[a].pc = "check" /\ actor'[a].pc \in {"detach", "claimed"} /\ Same(a)
        /\ folder' = folder /\ path' = path /\ holder' = holder
    BY <1>2, <1>t DEF Check, Goes, dirs, TypeOK, Actor, Same
  <2>2. \A b \in Actors : ~Owns(b, At(a))
    BY <1>2, <2>1 DEF Owned, Locked, Placed, Owns, At, HoldPcs, OwnerPcs
  <2>3. Owns(a, At(a))'
    BY <2>1 DEF Owns, At, Same, OwnerPcs
  <2>4. At(a)' = At(a) /\ OwnerOf(At(a)) = NoOne
    BY <1>2, <1>t, <2>1, <2>2 DEF OwnerIs, Same, At
  <2>5. ASSUME NEW f \in Sessions PROVE OwnerOf(f)' = IF f = At(a) THEN a ELSE OwnerOf(f)
    <3>1. CASE f = At(a)
      BY <1>t, <2>1, <3>1 DEF OwnerIs, Owns, Same, At, OwnerPcs
    <3>2. CASE f # At(a)
      <4>1. \A b \in Actors : Owns(b, f)' <=> Owns(b, f)
        BY <1>t, <2>1, <3>2 DEF Others, Owns, Same, At
      <4> QED
        BY <1>t, <3>2, <4>1, SameOwners
    <3> QED
      BY <3>1, <3>2
  <2>6. PICK f \in Sessions : f = At(a)
    BY <1>2
  <2>7. Promise!Claim(a, f)
    BY <2>1, <2>4, <2>5, <2>6 DEF Promise!Claim
  <2> QED
    BY <2>7 DEF Promise!Next
<1>3. CASE Unlink(a) /\ At(a) \in Sessions
  <2>1. actor[a].pc = "unlink" /\ actor'[a].pc = "close" /\ Same(a) /\ folder' = folder
    BY <1>3, <1>t DEF Unlink, Goes, dirs, TypeOK, Actor, Same
  <2>2. OwnerOf(At(a)) = a
    BY <1>3, <1>t, <2>1 DEF OwnerIs, Owns, At, OwnerPcs
  <2>3. ASSUME NEW f \in Sessions PROVE OwnerOf(f)' = IF f = At(a) THEN NoOne ELSE OwnerOf(f)
    <3>1. CASE f = At(a)
      <4>1. \A b \in Actors : ~Owns(b, f)'
        <5>1. \A b \in Actors \ {a} : ~Owns(b, f)
          BY <2>1, <3>1, SameOwner DEF Owns, At, OwnerPcs
        <5> QED
          BY <1>t, <2>1, <5>1 DEF Others, Owns, OwnerPcs
      <4> QED
        BY <1>t, <3>1, <4>1 DEF OwnerIs
    <3>2. CASE f # At(a)
      <4>1. \A b \in Actors : Owns(b, f)' <=> Owns(b, f)
        BY <1>t, <2>1, <3>2 DEF Others, Owns, Same, At
      <4> QED
        BY <1>t, <3>2, <4>1, SameOwners
    <3> QED
      BY <3>1, <3>2
  <2>4. PICK f \in Sessions : f = At(a)
    BY <1>3
  <2>5. Promise!Release(a, f)
    BY <2>1, <2>2, <2>3, <2>4 DEF Promise!Release
  <2> QED
    BY <2>5 DEF Promise!Next
<1>4. CASE FreeStep(a)
  <2>1. actor[a].pc \notin OwnerPcs
    BY <1>4 DEF FreeStep, MakeDir, SweepPackage, SweepSession, PackageDone, ClearRoot, Start, Launch, Probe, Sweep, OwnerPcs
  <2>2. actor'[a].pc \notin OwnerPcs
    BY <1>4, FreeFacts DEF Owned, HoldPcs
  <2> QED
    BY <2>1, <2>2, OutsiderStep
<1>5. CASE (WorkStep(a) \/ Unlink(a) \/ Check(a)) /\ At(a) \notin Sessions
  <2>1. actor'[a].at \notin Sessions \/ actor'[a].pc \notin OwnerPcs
    <3>1. CASE WorkStep(a)
      BY <1>5, <3>1, WorkFacts DEF Owned, Same, At
    <3>2. CASE Unlink(a)
      BY <1>5, <1>t, <3>2 DEF Unlink, Goes, TypeOK, Actor, OwnerPcs
    <3>3. CASE Check(a) /\ path[At(a)] = actor[a].fd
      <4>1. actor' = [actor EXCEPT ![a].pc = IF Launches(a) THEN "detach" ELSE "claimed"]
        BY <3>3 DEF Check, Goes
      <4>2. actor'[a].at = actor[a].at
        BY <4>1, <1>t DEF TypeOK, Actor
      <4> QED
        BY <1>5, <4>2 DEF At
    <3>4. CASE Check(a) /\ path[At(a)] # actor[a].fd
      BY <3>4, CheckFails DEF Owned
    <3> QED
      BY <1>5, <3>1, <3>2, <3>3, <3>4
  <2> QED
    BY <1>5, <2>1, OutsiderStep
<1>6. CASE Open(a) \/ Flock(a) \/ ProbeLocks(a) \/ Close(a) \/ EraseRoot(a)
           \/ (Check(a) /\ path[At(a)] # actor[a].fd)
  <2>1. actor[a].pc \notin OwnerPcs
    BY <1>6 DEF Open, Flock, ProbeLocks, Close, EraseRoot, Check, OwnerPcs
  <2>2. actor'[a].pc \notin OwnerPcs
    <3>1. actor[a].pc # "idle" /\ actor[a].role # "probe" => Refused(a).pc \in {"idle", "sessions"}
      BY RefusedShape DEF Owned
    <3>2. CASE Open(a)
      BY <1>t, <3>1, <3>2 DEF Open, TypeOK, Shape, Actor, OwnerPcs
    <3>3. CASE Flock(a)
      BY <1>t, <3>1, <3>3 DEF Flock, Goes, TypeOK, Shape, Actor, OwnerPcs
    <3>4. CASE Close(a)
      BY <1>t, <3>1, <3>4 DEF Close, TypeOK, Idle, OwnerPcs
    <3>5. CASE ProbeLocks(a) \/ EraseRoot(a)
      BY <1>t, <3>5 DEF ProbeLocks, EraseRoot, Goes, Idle, TypeOK, Actor, OwnerPcs
    <3>6. CASE Check(a) /\ path[At(a)] # actor[a].fd
      BY <3>6, CheckFails DEF Owned
    <3> QED
      BY <1>6, <3>2, <3>3, <3>4, <3>5, <3>6
  <2> QED
    BY <2>1, <2>2, OutsiderStep
<1> QED
  BY <1>1, <1>2, <1>3, <1>4, <1>5, <1>6 DEF Step, WorkStep, FreeStep

LEMMA PromiseNext ==
  ASSUME Owned, [Next]_vars
  PROVE  [Promise!Next]_(Promise!vars)
<1>o. Owned' /\ OwnerIs
  BY OwnedInductive, OwnerIsNow
<1>i. OwnerIs'
  BY <1>o, OwnerIsNext
<1>1. CASE \E a \in Actors : Step(a) \/ Start(a)
  BY <1>o, <1>1, PromiseStep
<1>2. CASE \E P \in Processes : Die(P)
  <2>1. PICK P \in Processes : Die(P)
    BY <1>2
  <2>2. P \subseteq Actors /\ NoOne \notin Actors
    BY LockAssumption
  <2>3. \A b \in Actors, f \in Sessions : Owns(b, f)' <=> Owns(b, f) /\ b \notin P
    <3>1. \A b \in Actors : actor'[b] = IF b \in P THEN Idle ELSE actor[b]
      BY <2>1 DEF Die
    <3> QED
      BY <3>1 DEF Owns, Idle, OwnerPcs
  <2>4. ASSUME NEW f \in Sessions
        PROVE  OwnerOf(f)' = IF OwnerOf(f) \in P THEN NoOne ELSE OwnerOf(f)
    <3>1. CASE \E b \in Actors : Owns(b, f)
      <4>1. PICK b \in Actors : Owns(b, f)
        BY <3>1
      <4>2. OwnerOf(f) = b
        BY <1>o, <4>1 DEF OwnerIs
      <4>3. CASE b \in P
        <5>1. \A c \in Actors : Owns(c, f) => c = b
          BY <1>o, <4>1 DEF OwnerIs
        <5> QED
          BY <1>i, <2>3, <4>2, <4>3, <5>1 DEF OwnerIs
      <4>4. CASE b \notin P
        BY <1>i, <2>3, <4>1, <4>2, <4>4 DEF OwnerIs
      <4> QED
        BY <4>3, <4>4
    <3>2. CASE \A b \in Actors : ~Owns(b, f)
      BY <1>o, <1>i, <2>2, <2>3, <3>2 DEF OwnerIs
    <3> QED
      BY <3>1, <3>2
  <2>5. folder' = folder
    BY <2>1 DEF Die, dirs
  <2>6. Promise!Die(P)
    BY <2>4, <2>5 DEF Promise!Die
  <2> QED
    BY <2>6 DEF Promise!Next
<1>3. CASE (\E a \in Actors, f \in Folders : MountGoes(a, f)) \/ UNCHANGED vars
  <2>1. actor' = actor /\ folder' = folder
    BY <1>3 DEF MountGoes, vars, dirs
  <2>2. \A f \in Sessions : OwnerOf(f)' = OwnerOf(f)
    <3>1. \A f \in Sessions, b \in Actors : Owns(b, f)' <=> Owns(b, f)
      BY <2>1 DEF Owns
    <3> QED
      BY <1>o, <1>i, <3>1, SameOwners
  <2> QED
    BY <2>1, <2>2 DEF Promise!vars
<1> QED
  BY <1>1, <1>2, <1>3 DEF Next

LEMMA PromiseInit == Init => Promise!Init
<1> SUFFICES ASSUME Init PROVE Promise!Init
  OBVIOUS
<1>1. \A f \in Sessions : OwnerOf(f) = NoOne
  BY DEF Init, OwnerOf, Owns, Idle, OwnerPcs
<1>2. \A f \in Sessions : folder[f] \in BOOLEAN
  BY LockAssumption DEF Init
<1> QED
  BY <1>1, <1>2 DEF Promise!Init

\* The lock file, with its unlink, its probes and its deaths, implements an
\* owner that is claimed, works and lets go in single steps (vfsmount.h:84).
THEOREM LockKeepsPromise == Spec => KeepsPromise
BY PromiseInit, PromiseNext, InitOwned, OwnedInductive, PTL DEF Spec, KeepsPromise, Promise!Spec
================================================================================
