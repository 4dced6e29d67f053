------------------------------ MODULE PackageSwitch ------------------------------
(***************************************************************************)
(* Switching an installed package to a friend's version of it: staging     *)
(* (StageUpdate), the plan of node files and content files (PlanSwitch),   *)
(* the journaled switch (ApplyStagedUpdate) and discarding, of             *)
(* src/src/packagecatalog.cpp, with the content file names of              *)
(* src/src/contentfile.cpp.                                                *)
(*                                                                         *)
(* One package and one user; each change of the disk is a step, and the    *)
(* process may end between any two. Around the switch, downloads land      *)
(* content in the package and other packages come and go.                  *)
(***************************************************************************)
EXTENDS Naturals

CONSTANTS Nodes, Names, Contents,
          Claims,     \* the content a node's layers name: <<name, content>>
          Refs,       \* the nodes a node contains
          Versions,   \* the sets of nodes the friends' folders list
          Others,     \* what other installed packages may contain of this one
          MaxFaults,  \* bound: downloads begun, switches stopped, and removals failed
          Base, None  \* the file name that is not bumped; nothing

ASSUME SwitchAssumption ==
  /\ Claims \in [Nodes -> SUBSET (Names \X Contents)]
  /\ Refs \in [Nodes -> SUBSET Nodes]
  /\ Versions \subseteq SUBSET Nodes /\ Others \subseteq SUBSET Nodes
  /\ MaxFaults \in Nat
  /\ Base \notin Contents /\ None \notin Contents

Paths == Names \X (Contents \cup {Base})

VARIABLES
  home,       \* the node files in the package
  files,      \* what each content path holds
  ref,        \* the file a content is referenced at
  contained,  \* the nodes of this package that other installed packages contain
  landing,    \* the downloads to come into the package: <<path, content>>
  stage,      \* the node files staged, per version
  journal,    \* the plan written to a version's stage
  pin, held,  \* the folders pinned; the version the package keeps nodes beyond
  shown,      \* the plan the user reads
  apply,      \* the switch at work
  disturbed,  \* a half-switched package was planned anew, or downloaded into; a copy took the
              \* place of a file that stays; or a switch ended with what it could not remove
  torn,       \* contents whose reference a crash or a failure left behind
  faults

diskVars == <<home, files, ref, stage, journal, pin, held>>
vars == <<diskVars, contained, landing, shown, apply, disturbed, torn, faults>>

Faulty == faults < MaxFaults /\ faults' = faults + 1

NoPlan == [version |-> {}, moves |-> {}, deletes |-> {}, removed |-> {}, kept |-> {}, users |-> {}]
Idle == [pc |-> "idle", plan |-> NoPlan, todo |-> {}, gone |-> None]

--------------------------------------------------------------------------------
(* Names of content files (contentfile.cpp) *)

ClaimsOf(ns) == UNION {Claims[n] : n \in ns}

\* mutant: the name the layer gives
PathPlain(claims, name, c) == <<name, Base>>

\* One name claimed for several contents is bumped, by the content.
PathUnder(claims, name, c) ==
  <<name, IF \E d \in Contents \ {c} : <<name, d>> \in claims THEN c ELSE Base>>

PathsOf(claims, c) == {PathUnder(claims, n, c) : n \in {m \in Names : <<m, c>> \in claims}}

Here(p) == files[p] # None

--------------------------------------------------------------------------------
(* The plan *)

\* mutant: one level of containment
KeptDirectly(version, candidates) ==
  (contained \cup UNION {Refs[n] : n \in version}) \cap candidates

\* KeptNodes: of the candidates, those that other packages contain, or the version,
\* and what they contain, at any depth.
KeptNodes(version, candidates) ==
  LET Roots == contained \cup UNION {Refs[n] : n \in version}
      Closed(ns) == \A n \in candidates : n \in Roots \/ (\E m \in ns : n \in Refs[m]) => n \in ns
  IN {n \in candidates : \A ns \in SUBSET candidates : Closed(ns) => n \in ns}

After(version) == ClaimsOf(version \cup KeptNodes(version, home \ version))

\* A name and content that stay move when the name is bumped or not any more.
Stays(version) ==
  LET before == ClaimsOf(home)
      after == After(version)
      From(cl) == PathUnder(before, cl[1], cl[2])
      To(cl) == PathUnder(after, cl[1], cl[2])
  IN {[from |-> From(cl), to |-> To(cl)] :
        cl \in {c \in before \cap after : Here(From(c)) /\ To(c) # From(c)}}

\* One that goes moves to where the same bytes are wanted and not there yet, or is deleted;
\* its reference goes to the copies that stay. The claims' order decides which of several
\* files with the same bytes gets a name: any may, before one that stays and moves there too.
PlanSwitches(version) ==
  LET candidates == home \ version
      kept == KeptNodes(version, candidates)
      before == ClaimsOf(home)
      after == After(version)
      From(cl) == PathUnder(before, cl[1], cl[2])
      there == {cl \in before : Here(From(cl))}
      stays == Stays(version)
      renames == UNION {{[from |-> From(cl), to |-> t] : t \in {p \in PathsOf(after, cl[2]) : ~Here(p)}} :
                          cl \in there \ after}
      Clash(m, n) == m # n /\ (m.from = n.from \/ m.to = n.to)
      Apart(r) == /\ \A m, n \in r : ~Clash(m, n)
                  /\ \A m \in stays \ r : \E n \in r : Clash(m, n)
      Goes(r) == {cl \in there \ after : \A m \in r : m.from # From(cl)}
      Delete(cl) == [file |-> From(cl), cid |-> cl[2], elsewhere |-> PathsOf(after, cl[2]) \ {From(cl)}]
  IN {[version |-> version, moves |-> r, deletes |-> {Delete(cl) : cl \in Goes(r)},
       removed |-> candidates \ kept, kept |-> kept, users |-> contained] :
        r \in {x \in SUBSET (stays \cup renames) : Apart(x)}}

Offered(v) ==
  /\ home # v
  /\ pin[v] /\ v \subseteq home => KeptNodes(v, home \ v) # home \ v

--------------------------------------------------------------------------------
(* Staging *)

\* A new stage is fetched and planned; one a switch left half-way is resumed.
Fetched(v) ==
  /\ v # {}
  /\ stage' = [stage EXCEPT ![v] = v] /\ pin' = [pin EXCEPT ![v] = TRUE]
  /\ shown' \in PlanSwitches(v)

FetchFails(v) ==
  /\ stage' = [stage EXCEPT ![v] = {}] /\ pin' = [pin EXCEPT ![v] = FALSE]
  /\ UNCHANGED shown

StageUpdate(v) ==
  /\ apply.pc = "idle" /\ shown = NoPlan /\ Offered(v)
  /\ \/ journal[v] # NoPlan /\ shown' = journal[v] /\ UNCHANGED <<stage, pin, disturbed>>
     \/ /\ journal[v] = NoPlan
        /\ Fetched(v) \/ FetchFails(v)
        /\ disturbed' = (disturbed \/ \E w \in Versions : journal[w] # NoPlan)
  /\ UNCHANGED <<home, files, ref, journal, held, contained, landing, apply, torn, faults>>

\* A stage is dropped, its plan with it.
DiscardStagedUpdate ==
  /\ apply.pc = "idle" /\ shown # NoPlan
  /\ LET v == shown.version
     IN /\ stage' = [stage EXCEPT ![v] = {}]
        /\ disturbed' = (disturbed \/ journal[v] # NoPlan)
        /\ journal' = [journal EXCEPT ![v] = NoPlan]
        /\ pin' = [pin EXCEPT ![v] = @ /\ held = v]
  /\ shown' = NoPlan
  /\ UNCHANGED <<home, files, ref, held, contained, landing, apply, torn, faults>>

--------------------------------------------------------------------------------
(* The switch: ApplyStagedUpdate *)

\* mutant: the plan made again is not compared with the one shown
AnythingGoes(plan) == TRUE

\* What the switch deletes is among what the user was shown.
NothingNew(plan) == \A d \in plan.deletes : \E e \in shown.deletes : e.file = d.file

Ready(v) == shown # NoPlan /\ v = shown.version /\ landing = {} /\ v \subseteq stage[v] \cup home

Begins(plan) == apply' = [pc |-> "move", plan |-> plan, todo |-> plan.moves, gone |-> None]

\* mutant: the plan is not written down
BeginsUnwritten ==
  /\ apply.pc = "idle"
  /\ \E v \in Versions :
       Ready(v) /\ \E plan \in PlanSwitches(v) : NothingNew(plan) /\ Begins(plan)
  /\ UNCHANGED <<diskVars, contained, landing, shown, disturbed, torn, faults>>

ApplyBegins ==
  /\ apply.pc = "idle"
  /\ \E v \in Versions :
       /\ Ready(v)
       /\ IF journal[v] # NoPlan
          THEN Begins(journal[v]) /\ UNCHANGED <<journal, disturbed>>
          ELSE \E plan \in PlanSwitches(v) :
                 /\ NothingNew(plan) /\ Begins(plan)
                 /\ journal' = [journal EXCEPT ![v] = plan]
                 /\ disturbed' = (disturbed \/ ~(Stays(v) \subseteq plan.moves))
  /\ UNCHANGED <<home, files, ref, stage, pin, held, contained, landing, shown, torn, faults>>

\* It is refused: the stage stays.
ApplyRefused ==
  /\ apply.pc = "idle" /\ shown # NoPlan
  /\ \/ ~Ready(shown.version)
     \/ /\ journal[shown.version] = NoPlan
        /\ \E plan \in PlanSwitches(shown.version) : ~NothingNew(plan)
  /\ shown' = NoPlan
  /\ UNCHANGED <<diskVars, contained, landing, apply, disturbed, torn, faults>>

Step(pc) == apply.pc = pc /\ UNCHANGED <<contained, landing, stage, journal, pin, held, shown, disturbed>>

\* 1. Each file moves, never over one already there.
Move ==
  /\ Step("move")
  /\ \E m \in apply.todo :
       /\ apply' = [apply EXCEPT !.todo = @ \ {m}]
       /\ IF Here(m.from) /\ ~Here(m.to)
          THEN files' = [files EXCEPT ![m.to] = files[m.from], ![m.from] = None]
          ELSE UNCHANGED files
  /\ UNCHANGED <<home, ref, torn, faults>>

\* The references follow, in one batch, those of an earlier attempt too; or not, and
\* that is only logged.
Follow ==
  /\ Step("move") /\ apply.todo = {}
  /\ LET followed == {m \in apply.plan.moves : Here(m.to) /\ ~Here(m.from)}
         moved == {c \in Contents : \E m \in followed : ref[c] = m.from}
     IN \/ /\ ref' = [c \in Contents |-> IF c \in moved
                                         THEN (CHOOSE m \in followed : ref[c] = m.from).to ELSE ref[c]]
           /\ UNCHANGED torn
        \/ moved # {} /\ torn' = torn \cup moved /\ UNCHANGED ref
  /\ apply' = [apply EXCEPT !.pc = "delete", !.todo = apply.plan.deletes]
  /\ UNCHANGED <<home, files, faults>>

\* 2. Content no node names any more goes, and then its reference if it was to it
\* (RemoveLandedNode). What cannot be removed stays, its reference too, and the switch goes on.
Delete ==
  /\ Step("delete") /\ apply.gone = None
  /\ \E d \in apply.todo :
       \/ /\ files' = [files EXCEPT ![d.file] = None]
          /\ apply' = [apply EXCEPT !.todo = @ \ {d}, !.gone = IF Here(d.file) THEN d ELSE None]
          /\ UNCHANGED faults
       \/ /\ Here(d.file) /\ Faulty
          /\ apply' = [apply EXCEPT !.todo = @ \ {d}]
          /\ UNCHANGED files
  /\ UNCHANGED <<home, ref, torn>>

CidMissing(c) == ref[c] # None /\ files[ref[c]] # c

\* mutant: the copies that stay are not referenced
DropRef(d) ==
  ref' = [ref EXCEPT ![d.cid] = IF CidMissing(d.cid) THEN None ELSE @]

\* The same bytes under another name are referenced there.
Unreference(d) ==
  LET copies == {p \in d.elsewhere : files[p] = d.cid}
  IN ref' = [ref EXCEPT ![d.cid] = IF ~CidMissing(d.cid) THEN @
                                   ELSE IF copies = {} THEN None ELSE CHOOSE p \in copies : TRUE]

Deleted ==
  /\ Step("delete") /\ apply.gone # None
  /\ Unreference(apply.gone)
  /\ apply' = [apply EXCEPT !.gone = None]
  /\ UNCHANGED <<home, files, torn, faults>>

\* 3. and 4. The version's node files come in, and those nothing contains go.
NodeIn ==
  /\ Step("delete") /\ apply.todo = {} /\ apply.gone = None
  /\ \E n \in apply.plan.version \ home : home' = home \cup {n}
  /\ UNCHANGED <<files, ref, apply, torn, faults>>

NodeOut ==
  /\ Step("delete") /\ apply.todo = {} /\ apply.gone = None /\ apply.plan.version \subseteq home
  /\ \E n \in apply.plan.removed \cap home : home' = home \ {n}
  /\ UNCHANGED <<files, ref, apply, torn, faults>>

\* mutant: the version held before stays pinned
HoldsBoth(v) ==
  IF apply.plan.kept = {}
  THEN pin' = [pin EXCEPT ![v] = FALSE] /\ held' = None
  ELSE UNCHANGED pin /\ held' = v

\* The folder stays pinned when nodes were kept beyond it, one per package.
Holds(v) ==
  LET others == [w \in Versions |-> pin[w] /\ (w # held \/ w = v)]
  IN IF apply.plan.kept = {}
     THEN pin' = [others EXCEPT ![v] = FALSE] /\ held' = None
     ELSE pin' = others /\ held' = v

\* A file or a node file the plan takes away is there at the end: that is only logged.
Remains == apply.plan.removed \cap home # {} \/ \E d \in apply.plan.deletes : Here(d.file)

\* When each node file is out, or could not be removed, the stage goes, and the plan with it.
Switched ==
  /\ apply.pc = "delete" /\ apply.todo = {} /\ apply.gone = None
  /\ apply.plan.version \subseteq home
  /\ IF apply.plan.removed \cap home = {} THEN UNCHANGED faults ELSE Faulty
  /\ disturbed' = (disturbed \/ Remains)
  /\ LET v == apply.plan.version
     IN /\ Holds(v)
        /\ stage' = [stage EXCEPT ![v] = {}]
        /\ journal' = [journal EXCEPT ![v] = NoPlan]
  /\ apply' = Idle /\ shown' = NoPlan
  /\ UNCHANGED <<home, files, ref, contained, landing, torn>>

\* The process ends; or a rename, a copy or a write fails and the switch returns.
Stops ==
  /\ apply.pc # "idle" \/ shown # NoPlan \/ landing # {}
  /\ Faulty
  /\ apply' = Idle /\ shown' = NoPlan /\ landing' = {}
  /\ torn' = IF apply.gone = None THEN torn ELSE torn \cup {apply.gone.cid}
  /\ UNCHANGED <<diskVars, contained, disturbed>>

--------------------------------------------------------------------------------
(* What goes on around it *)

\* A download takes the file name the package's claims give now.
Enqueue ==
  /\ \E cl \in ClaimsOf(home) :
       LET p == PathUnder(ClaimsOf(home), cl[1], cl[2])
       IN ~Here(p) /\ landing' = landing \cup {<<p, cl[2]>>}
  /\ landing' # landing /\ Faulty
  /\ disturbed' = (disturbed \/ \E v \in Versions : journal[v] # NoPlan)
  /\ UNCHANGED <<diskVars, contained, shown, apply, torn>>

Land ==
  /\ \E w \in landing :
       /\ landing' = landing \ {w}
       /\ files' = [files EXCEPT ![w[1]] = w[2]]
       /\ ref' = [ref EXCEPT ![w[2]] = w[1]]
       /\ torn' = torn \ {w[2]}
  /\ UNCHANGED <<home, stage, journal, pin, held, contained, shown, apply, disturbed, faults>>

\* Another package is installed, removed or switched.
OthersChange ==
  /\ \E ns \in Others : ns # contained /\ contained' = ns
  /\ UNCHANGED <<diskVars, landing, shown, apply, disturbed, torn, faults>>

--------------------------------------------------------------------------------
Init ==
  /\ home \in Versions /\ contained \in Others
  /\ \E cls \in SUBSET ClaimsOf(home) :
       LET At(cl) == PathUnder(ClaimsOf(home), cl[1], cl[2])
           Places(c) == {At(cl) : cl \in {x \in cls : x[2] = c}}
       IN /\ files = [p \in Paths |-> IF \E cl \in cls : At(cl) = p
                                      THEN (CHOOSE cl \in cls : At(cl) = p)[2] ELSE None]
          /\ ref = [c \in Contents |-> IF Places(c) = {} THEN None ELSE CHOOSE p \in Places(c) : TRUE]
  /\ landing = {} /\ shown = NoPlan /\ apply = Idle
  /\ stage = [v \in Versions |-> {}] /\ journal = [v \in Versions |-> NoPlan]
  /\ pin = [v \in Versions |-> FALSE] /\ held = None
  /\ disturbed = FALSE /\ torn = {} /\ faults = 0

Next ==
  \/ \E v \in Versions : StageUpdate(v)
  \/ DiscardStagedUpdate \/ ApplyBegins \/ ApplyRefused
  \/ Move \/ Follow \/ Delete \/ Deleted \/ NodeIn \/ NodeOut \/ Switched
  \/ Stops \/ Enqueue \/ Land \/ OthersChange

Spec == Init /\ [][Next]_vars

--------------------------------------------------------------------------------
(* Correctness *)

Moves == [from : Paths, to : Paths]
Deletes == [file : Paths, cid : Contents, elsewhere : SUBSET Paths]

\* Nothing is no file, and no delete.
ASSUME NothingAssumption == None \notin Paths /\ None \notin Deletes

Plans == [version : Versions, moves : SUBSET Moves, deletes : SUBSET Deletes,
          removed : SUBSET Nodes, kept : SUBSET Nodes, users : SUBSET Nodes]

TypeOK ==
  /\ home \subseteq Nodes /\ contained \subseteq Nodes
  /\ files \in [Paths -> Contents \cup {None}]
  /\ ref \in [Contents -> Paths \cup {None}]
  /\ landing \subseteq Paths \X Contents
  /\ stage \in [Versions -> SUBSET Nodes] /\ journal \in [Versions -> Plans \cup {NoPlan}]
  /\ pin \in [Versions -> BOOLEAN] /\ held \in Versions \cup {None}
  /\ shown \in Plans \cup {NoPlan}
  /\ apply \in [pc : {"idle", "move", "delete"}, plan : Plans \cup {NoPlan},
                todo : SUBSET (Moves \cup Deletes), gone : Deletes \cup {None}]
  /\ apply.pc = "move" => apply.todo \subseteq apply.plan.moves
  /\ apply.pc = "delete" => apply.todo \subseteq apply.plan.deletes
  /\ apply.pc # "idle" => /\ apply.plan \in Plans /\ apply.plan # NoPlan
                          /\ journal[apply.plan.version] = apply.plan
  /\ disturbed \in BOOLEAN /\ torn \subseteq Contents /\ faults \in 0..MaxFaults

AtRest == apply.pc = "idle" /\ \A v \in Versions : journal[v] = NoPlan

\* "libB never reads libA's": between switches, the file a node's layer reads holds
\* that layer's content.
RightBytes ==
  \A cl \in ClaimsOf(home) : files[PathUnder(ClaimsOf(home), cl[1], cl[2])] \in {None, cl[2]}

\* "X1 is still held": content a node of the package reads here is referenced at a
\* file that holds it.
ServedStill ==
  \A cl \in ClaimsOf(home) :
    files[PathUnder(ClaimsOf(home), cl[1], cl[2])] = cl[2] /\ cl[2] \notin torn =>
      ref[cl[2]] # None /\ ~CidMissing(cl[2])

\* The layers of the package read their own bytes, and what they read can be served,
\* whatever the switches renamed, or resumed on the way: unless one ended with a file it
\* could not remove (Remains), or the package was disturbed otherwise.
LayersServed == AtRest /\ ~disturbed => RightBytes /\ ServedStill

\* "It may delete only what the user was shown", also when it finishes another
\* attempt's plan.
DeletesShown ==
  [][\A p \in Paths : Here(p) /\ ~Here(p)' /\ apply.pc = "delete" =>
       \E d \in shown.deletes : d.file = p]_vars

\* "An installed node goes only when nothing installed still contains it": no package
\* that did when the switch was planned, and no node that stays.
ContainedStays ==
  [][\A n \in home \ home' :
       /\ n \notin contained \cap apply.plan.users
       /\ \A m \in apply.plan.version \cup apply.plan.kept : n \notin Refs[m]]_vars

\* A folder without a stage is pinned for the version held alone.
PinsAccounted ==
  \A v \in Versions : pin[v] /\ stage[v] = {} => held = v
================================================================================
